--------------------------- MODULE MCDeliveryJobs ---------------------------
(***************************************************************************)
(* Small instances of DeliveryJobs for TLC.                                *)
(***************************************************************************)
EXTENDS DeliveryJobs, TLC

\* Ids, tokens and owners are only compared, so they may be renamed.
Interchangeable ==
  Permutations(Jobs) \cup Permutations(Tokens) \cup Permutations(Workers)

\* A retry may name any Date: one in the past puts the job at the queue's front.
BeforeNow == {-1}

\* The fair specification without the calls that change no row (refusals and
\* repeated answers): they move nothing the liveness property looks at.
RowStep == UNCHANGED <<jobs, attempts, audits>> => UNCHANGED told

LiveSpec ==
  /\ Init /\ [][Next /\ RowStep]_vars
  /\ WF_vars(Tick) /\ WF_vars(UncontendedClaim)

=============================================================================
