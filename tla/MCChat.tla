------------------------------- MODULE MCChat -------------------------------
(***************************************************************************)
(* Small instances of Chat for TLC.                                        *)
(***************************************************************************)
EXTENDS Chat, TLC

CONSTANTS p1, p2, p3, u1, u2, u3, both

\* Two profiles; both is a member of each, u1 and u2 of one.
TwoProfiles == {p1, p2}
TwoMembers == p1 :> {u1, both} @@ p2 :> {u2, both}
ThePair == {{p1, p2}}

\* Three profiles; both is a member of p1 and p2.  p1 may be matched with both
\* other profiles.
ThreeProfiles == {p1, p2, p3}
ThreeMembers == p1 :> {u1, both} @@ p2 :> {u2, both} @@ p3 :> {u3}
PairsOfFirst == {{p1, p2}, {p1, p3}}

Interchangeable == Permutations(Requests)

=============================================================================
