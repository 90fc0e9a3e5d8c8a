------------------------ MODULE MCIdempotentCommands ------------------------
(***************************************************************************)
(* Small instances of IdempotentCommands for TLC.                          *)
(***************************************************************************)
EXTENDS IdempotentCommands, TLC

\* Keys, bodies and callers are only compared, so they may be renamed.
Interchangeable == Permutations(Keys) \cup Permutations(Bodies) \cup Permutations(Callers)

=============================================================================
