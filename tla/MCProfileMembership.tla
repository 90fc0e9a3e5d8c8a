------------------------- MODULE MCProfileMembership -------------------------
(***************************************************************************)
(* Small instances of ProfileMembership for TLC.                           *)
(***************************************************************************)
EXTENDS ProfileMembership, TLC

\* Profiles and transactions are only compared.
Interchangeable == Permutations(Profiles) \cup Permutations(Transactions)

=============================================================================
