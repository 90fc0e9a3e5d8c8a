--------------------------- MODULE MCDurableEvents ---------------------------
(***************************************************************************)
(* Small instances of DurableEvents for TLC.                               *)
(***************************************************************************)
EXTENDS DurableEvents, TLC

\* Writers are only compared.
Interchangeable == Permutations(Writers)

=============================================================================
