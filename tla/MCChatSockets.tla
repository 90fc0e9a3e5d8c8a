--------------------------- MODULE MCChatSockets ---------------------------
(***************************************************************************)
(* A small instance of ChatSockets for TLC: p1 on one socket, p2 on two,   *)
(* the second perhaps no member's, and a conversation they may get.        *)
(***************************************************************************)
EXTENDS ChatSockets, TLC

CONSTANTS p1, p2, s1, s2, s3, c1

ProfilesOfSockets == s1 :> p1 @@ s2 :> p2 @@ s3 :> p2
BothEnds == c1 :> <<p1, p2>>

\* Either all goes well, or handlers overtake each other and sends throw.
InitOfTwo == Init /\ env.serial = ~env.throws
TwoWeathers == InitOfTwo /\ [][Next]_vars

=============================================================================
