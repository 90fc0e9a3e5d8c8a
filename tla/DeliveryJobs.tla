---------------------------- MODULE DeliveryJobs ----------------------------
(***************************************************************************)
(* The leased, fenced and budgeted delivery-job queue of                   *)
(* src/src/services/delivery-job-service.ts over the tables delivery_job,  *)
(* delivery_job_attempt and delivery_job_manual_requeue of the F3          *)
(* migration.                                                              *)
(*                                                                         *)
(* Every exported operation is one database transaction whose first        *)
(* statement locks the job row, so it is one action.  Timestamps are kept  *)
(* as offsets from the database clock: "> clock_timestamp()" is "> 0", and *)
(* Tick lets one second pass by ageing every timestamp.  Workers are not   *)
(* part of the repository; a worker is anything that calls an operation    *)
(* with a lease it was once granted, however old, under any owner name.    *)
(***************************************************************************)
EXTENDS Integers, Sequences, FiniteSets

CONSTANTS
  Jobs,              \* job ids; an id is used once
  Tokens,            \* the randomUUID() fencing tokens, each drawn at most once
  Workers,           \* lease owners
  NoToken, NoWorker, \* null in lease_token and lease_owner
  NoJob,             \* the job of a token not drawn yet
  LeaseDurations,    \* leaseDurationSeconds a claim may ask for
  Delays,            \* availableInSeconds of an enqueue or a manual requeue
  RetryDelays,       \* availableAt of a retry, from now: any Date, the past included
  Retention,         \* terminal_retention_seconds
  ClaimLimit,        \* limit of one claim, batchSize of one cleanup
  AttemptsCap,       \* bound: largest maxAttempts a caller asks for
  Horizon            \* bound: how long overdue a timestamp can be told to be

ASSUME NullsAssumption ==
  NoToken \notin Tokens /\ NoWorker \notin Workers /\ NoJob \notin Jobs
ASSUME LeaseAssumption == LeaseDurations \subseteq Nat \ {0}
ASSUME DelayAssumption == Delays \subseteq Nat /\ RetryDelays \subseteq Int
ASSUME RetentionAssumption == Retention \in Nat \ {0}
ASSUME LimitAssumption == ClaimLimit \in Nat \ {0} /\ AttemptsCap \in Nat \ {0}
ASSUME HorizonAssumption == Horizon \in Nat

VARIABLES
  jobs,      \* delivery_job
  attempts,  \* delivery_job_attempt, by lease_token (its primary key)
  audits,    \* delivery_job_manual_requeue, by job, oldest first
  told       \* what the service has answered about each token

vars == <<jobs, attempts, audits, told>>

-----------------------------------------------------------------------------
(* The rows                                                                *)

Terminal == {"completed", "dead_letter"}
Reasons == {"none", "permanent_failure", "attempts_exhausted", "lease_expired_after_final_claim"}
Answers == {"completed", "retried", "dead_lettered", "lease_lost", "not_found"}

JobRow == [state: {"absent", "pending", "leased", "deleted"} \cup Terminal,
           attempt_count: Nat, max_attempts: Nat, available_at: Int,
           lease_owner: Workers \cup {NoWorker}, lease_token: Tokens \cup {NoToken},
           lease_expires_at: Int, reason: Reasons, retention_expires_at: Int]

\* "unissued" and "deleted" stand for no row; a deleted attempt keeps its job
\* and owner, which the worker that was granted it still remembers.
AttemptOutcomes == {"leased", "completed", "retry_scheduled", "lease_expired",
                    "dead_lettered_failed", "dead_lettered_unknown"}
AttemptRow == [outcome: AttemptOutcomes \cup {"unissued", "deleted"},
               job: Jobs \cup {NoJob}, number: Nat, owner: Workers \cup {NoWorker}]

Audit == [previous_attempt_count: Nat, next_max_attempts: Nat, previous_reason: Reasons]

NoRow(state) ==
  [state |-> state, attempt_count |-> 0, max_attempts |-> 0, available_at |-> 0,
   lease_owner |-> NoWorker, lease_token |-> NoToken, lease_expires_at |-> 0,
   reason |-> "none", retention_expires_at |-> 0]

Exists(j) == jobs[j].state \notin {"absent", "deleted"}
Issued(t) == attempts[t].outcome # "unissued"
FreshTokens == {t \in Tokens : ~Issued(t)}

Init ==
  /\ jobs = [j \in Jobs |-> NoRow("absent")]
  /\ attempts = [t \in Tokens |->
       [outcome |-> "unissued", job |-> NoJob, number |-> 0, owner |-> NoWorker]]
  /\ audits = [j \in Jobs |-> <<>>]
  /\ told = [t \in Tokens |-> {}]

-----------------------------------------------------------------------------
(* Row updates shared by the operations                                    *)

\* Mutation: the lease token survives the lease.
UnleasedKeepsToken(row) ==
  [row EXCEPT !.lease_owner = NoWorker, !.lease_expires_at = 0]

Unleased(row) ==
  [row EXCEPT !.lease_owner = NoWorker, !.lease_token = NoToken, !.lease_expires_at = 0]

DeadLettered(row, reason) ==
  [Unleased(row) EXCEPT !.state = "dead_letter", !.reason = reason,
                        !.retention_expires_at = Retention]

Answer(t, answer) == told' = [told EXCEPT ![t] = @ \cup {answer}]

\* Mutation: the attempt row is left open.
CloseAttemptForgotten(t, outcome) == UNCHANGED attempts

CloseAttempt(t, outcome) == attempts' = [attempts EXCEPT ![t].outcome = outcome]

\* "order by key, limit ClaimLimit": any choice among equal keys.
FirstBatches(S, key) ==
  {B \in SUBSET S :
     /\ Cardinality(B) = IF Cardinality(S) < ClaimLimit THEN Cardinality(S) ELSE ClaimLimit
     /\ \A a \in B, b \in S \ B : key[a] <= key[b]}

-----------------------------------------------------------------------------
(* enqueueDeliveryJob                                                      *)

EnqueueDeliveryJob(j, maxAttempts, delay) ==
  /\ jobs[j].state = "absent"
  /\ jobs' = [jobs EXCEPT ![j] = [NoRow("pending") EXCEPT
                !.max_attempts = maxAttempts, !.available_at = delay]]
  /\ UNCHANGED <<attempts, audits, told>>

-----------------------------------------------------------------------------
(* claimDeliveryJobs                                                       *)

\* Mutations: a running lease counts as expired; the last attempt does not count
\* as final; a claim is not counted.
LeaseExpiredAnytime(row) == row.state = "leased"
FinalLeaseExpiredPastBudget(row) == LeaseExpiredAnytime(row) /\ row.lease_expires_at <= 0
                                    /\ row.attempt_count > row.max_attempts
LeasedUncounted(row, w, t, duration) ==
  [row EXCEPT !.state = "leased", !.lease_owner = w,
              !.lease_token = t, !.lease_expires_at = duration]

LeaseExpired(row) == row.state = "leased" /\ row.lease_expires_at <= 0

FinalLeaseExpired(row) == LeaseExpired(row) /\ row.attempt_count >= row.max_attempts

Claimable(row) ==
  /\ \/ row.state = "pending" /\ row.available_at <= 0
     \/ LeaseExpired(row)
  /\ row.attempt_count < row.max_attempts

Leased(row, w, t, duration) ==
  [row EXCEPT !.state = "leased", !.attempt_count = @ + 1, !.lease_owner = w,
              !.lease_token = t, !.lease_expires_at = duration]

\* The transaction first dead-letters `dead`, whose final lease ran out with
\* no recorded outcome, then leases `taken` to w under the fresh tokens tok.
ClaimRows(w, duration, dead, taken, tok) ==
  LET expired == {jobs[j].lease_token : j \in {k \in taken : jobs[k].state = "leased"}}
      unknown == {jobs[j].lease_token : j \in dead}
  IN
  /\ jobs' = [j \in Jobs |->
       IF j \in dead THEN DeadLettered(jobs[j], "lease_expired_after_final_claim")
       ELSE IF j \in taken THEN Leased(jobs[j], w, tok[j], duration)
       ELSE jobs[j]]
  /\ attempts' = [t \in Tokens |->
       IF t \in unknown THEN [attempts[t] EXCEPT !.outcome = "dead_lettered_unknown"]
       ELSE IF t \in expired THEN [attempts[t] EXCEPT !.outcome = "lease_expired"]
       ELSE IF \E j \in taken : tok[j] = t
            THEN LET j == CHOOSE k \in taken : tok[k] = t
                 IN [outcome |-> "leased", job |-> j,
                     number |-> jobs[j].attempt_count + 1, owner |-> w]
            ELSE attempts[t]]
  /\ UNCHANGED <<audits, told>>

TokenChoices(taken) ==
  {tok \in [taken -> FreshTokens] : \A j, k \in taken : tok[j] = tok[k] => j = k}

\* `locked` are the rows other transactions hold: FOR UPDATE SKIP LOCKED.
ClaimDeliveryJobs(w, duration, locked) ==
  LET finals == {j \in Jobs \ locked : FinalLeaseExpired(jobs[j])}
      due == {j \in Jobs \ locked : Claimable(jobs[j])}
      leaseEnd == [j \in Jobs |-> jobs[j].lease_expires_at]
      availableAt == [j \in Jobs |-> jobs[j].available_at]
  IN \E dead \in FirstBatches(finals, leaseEnd), taken \in FirstBatches(due, availableAt) :
       /\ dead \cup taken # {}
       /\ \E tok \in TokenChoices(taken) : ClaimRows(w, duration, dead, taken, tok)

-----------------------------------------------------------------------------
(* The worker's three answers.  A call names the job of the lease it was   *)
(* granted; the owner name is the caller's and may be anyone's.            *)

HoldsLease(j, w, t) ==
  /\ jobs[j].state = "leased"
  /\ jobs[j].lease_owner = w
  /\ jobs[j].lease_token = t
  /\ jobs[j].lease_expires_at > 0

\* The attempt row the transition must close, or the call throws and rolls back.
AttemptOpen(j, w, t) ==
  attempts[t].job = j /\ attempts[t].owner = w /\ attempts[t].outcome = "leased"

\* Mutation: any finished attempt is taken for the one that was asked about.
RecordedAnyOutcome(j, t, outcomes) == attempts[t].job = j /\ attempts[t].outcome # "leased"

Recorded(j, t, outcomes) == attempts[t].job = j /\ attempts[t].outcome \in outcomes

\* Not the holder: repeat the recorded answer, or say the lease or the job is gone.
RefuseOrRepeat(j, t, outcomes, answer) ==
  /\ \/ Recorded(j, t, outcomes) /\ Answer(t, answer)
     \/ ~Recorded(j, t, outcomes) /\ Exists(j) /\ Answer(t, "lease_lost")
     \/ ~Recorded(j, t, outcomes) /\ ~Exists(j) /\ Answer(t, "not_found")
  /\ UNCHANGED <<jobs, attempts, audits>>

CompleteDeliveryJob(j, w, t) ==
  \/ /\ HoldsLease(j, w, t) /\ AttemptOpen(j, w, t)
     /\ jobs' = [jobs EXCEPT ![j] = [Unleased(jobs[j]) EXCEPT
                   !.state = "completed", !.retention_expires_at = Retention]]
     /\ CloseAttempt(t, "completed")
     /\ Answer(t, "completed")
     /\ UNCHANGED audits
  \/ /\ ~HoldsLease(j, w, t)
     /\ RefuseOrRepeat(j, t, {"completed"}, "completed")

RetryDeliveryJob(j, w, t, delay) ==
  \/ /\ HoldsLease(j, w, t) /\ AttemptOpen(j, w, t)
     /\ jobs[j].attempt_count < jobs[j].max_attempts
     /\ jobs' = [jobs EXCEPT ![j] = [Unleased(jobs[j]) EXCEPT
                   !.state = "pending", !.available_at = delay]]
     /\ CloseAttempt(t, "retry_scheduled")
     /\ Answer(t, "retried")
     /\ UNCHANGED audits
  \/ /\ HoldsLease(j, w, t) /\ AttemptOpen(j, w, t)
     /\ jobs[j].attempt_count >= jobs[j].max_attempts
     /\ jobs' = [jobs EXCEPT ![j] = DeadLettered(jobs[j], "attempts_exhausted")]
     /\ CloseAttempt(t, "dead_lettered_failed")
     /\ Answer(t, "dead_lettered")
     /\ UNCHANGED audits
  \/ /\ HoldsLease(j, w, t)            \* expires between the SELECT and the UPDATE
     /\ jobs[j].lease_expires_at = 1
     /\ Answer(t, "lease_lost")
     /\ UNCHANGED <<jobs, attempts, audits>>
  \/ /\ ~HoldsLease(j, w, t)
     /\ IF Recorded(j, t, {"retry_scheduled"})
        THEN RefuseOrRepeat(j, t, {"retry_scheduled"}, "retried")
        ELSE RefuseOrRepeat(j, t, {"dead_lettered_failed"}, "dead_lettered")

DeadLetterDeliveryJob(j, w, t) ==
  \/ /\ HoldsLease(j, w, t) /\ AttemptOpen(j, w, t)
     /\ jobs' = [jobs EXCEPT ![j] = DeadLettered(jobs[j], "permanent_failure")]
     /\ CloseAttempt(t, "dead_lettered_failed")
     /\ Answer(t, "dead_lettered")
     /\ UNCHANGED audits
  \/ /\ ~HoldsLease(j, w, t)
     /\ RefuseOrRepeat(j, t, {"dead_lettered_failed"}, "dead_lettered")

-----------------------------------------------------------------------------
(* The operator's two operations                                           *)

\* Mutation: the new budget is not stored.
RequeuedOnOldBudget(row, maxAttempts, delay) ==
  [row EXCEPT !.state = "pending", !.available_at = delay,
              !.reason = "none", !.retention_expires_at = 0]

RequeueAllowed(row, maxAttempts) ==
  row.state = "dead_letter" /\ maxAttempts > row.attempt_count

Requeued(row, maxAttempts, delay) ==
  [row EXCEPT !.state = "pending", !.available_at = delay, !.max_attempts = maxAttempts,
              !.reason = "none", !.retention_expires_at = 0]

ManuallyRequeueDeliveryJob(j, maxAttempts, delay) ==
  /\ RequeueAllowed(jobs[j], maxAttempts)
  /\ audits' = [audits EXCEPT ![j] = Append(@,
       [previous_attempt_count |-> jobs[j].attempt_count,
        next_max_attempts |-> maxAttempts, previous_reason |-> jobs[j].reason])]
  /\ jobs' = [jobs EXCEPT ![j] = Requeued(@, maxAttempts, delay)]
  /\ UNCHANGED <<attempts, told>>

\* The foreign keys of attempts and audits cascade.
DeleteJobs(gone) ==
  /\ jobs' = [j \in Jobs |-> IF j \in gone THEN NoRow("deleted") ELSE jobs[j]]
  /\ attempts' = [t \in Tokens |->
       IF attempts[t].job \in gone THEN [attempts[t] EXCEPT !.outcome = "deleted"]
       ELSE attempts[t]]
  /\ audits' = [j \in Jobs |-> IF j \in gone THEN <<>> ELSE audits[j]]
  /\ UNCHANGED told

\* Mutation: terminal rows are deleted before their retention is over.
RetentionOverAtOnce(row) == row.state \in Terminal

RetentionOver(row) == row.state \in Terminal /\ row.retention_expires_at <= 0

CleanupTerminalDeliveryJobs(locked) ==
  LET retentionEnd == [j \in Jobs |-> jobs[j].retention_expires_at]
      expired == {j \in Jobs \ locked : RetentionOver(jobs[j])}
  IN \E gone \in FirstBatches(expired, retentionEnd) : gone # {} /\ DeleteJobs(gone)

-----------------------------------------------------------------------------
(* clock_timestamp() advances by one second                                *)

Age(offset) == IF offset > -Horizon THEN offset - 1 ELSE offset

AgedRow(row) ==
  [row EXCEPT
     !.available_at = IF row.state \in {"pending", "leased"} THEN Age(@) ELSE @,
     !.lease_expires_at = IF row.state = "leased" THEN Age(@) ELSE @,
     !.retention_expires_at = IF row.state \in Terminal THEN Age(@) ELSE @]

Tick ==
  /\ jobs' = [j \in Jobs |-> AgedRow(jobs[j])]
  /\ UNCHANGED <<attempts, audits, told>>

-----------------------------------------------------------------------------
\* What others may hold while an operation still finds something to do.
HeldRows == (SUBSET Jobs) \ {Jobs}

Claim ==
  \E w \in Workers, duration \in LeaseDurations, locked \in HeldRows :
    ClaimDeliveryJobs(w, duration, locked)

WorkerCall ==
  \E t \in {s \in Tokens : Issued(s)}, w \in Workers :
    \/ CompleteDeliveryJob(attempts[t].job, w, t)
    \/ DeadLetterDeliveryJob(attempts[t].job, w, t)
    \/ \E delay \in RetryDelays : RetryDeliveryJob(attempts[t].job, w, t, delay)

Next ==
  \/ \E j \in Jobs, m \in 1..AttemptsCap, delay \in Delays : EnqueueDeliveryJob(j, m, delay)
  \/ Claim
  \/ WorkerCall
  \/ \E j \in Jobs, m \in 1..AttemptsCap, delay \in Delays :
       ManuallyRequeueDeliveryJob(j, m, delay)
  \/ \E locked \in HeldRows : CleanupTerminalDeliveryJobs(locked)
  \/ Tick

Spec == Init /\ [][Next]_vars

\* Time passes, and some worker keeps polling without losing every row to a
\* concurrent transaction.  Nothing is assumed of a worker once it holds a lease.
UncontendedClaim ==
  \E w \in Workers, duration \in LeaseDurations : ClaimDeliveryJobs(w, duration, {})

FairSpec == Spec /\ WF_vars(Tick) /\ WF_vars(UncontendedClaim)

-----------------------------------------------------------------------------
(* Properties                                                              *)

AttemptsOf(j) == {t \in Tokens : attempts[t].job = j /\ attempts[t].outcome \in AttemptOutcomes}
LastAttempts(j) == {t \in AttemptsOf(j) : attempts[t].number = jobs[j].attempt_count}

\* Every row and every answer has the shape its table or type declares, and
\* no transition would trip delivery_job_state_check.
StateCheck(row) ==
  /\ (row.state = "leased") <=> (row.lease_token # NoToken)
  /\ (row.state = "leased") <=> (row.lease_owner # NoWorker)
  /\ (row.state = "leased") => (row.attempt_count > 0)
  /\ (row.state = "dead_letter") <=> (row.reason # "none")
TypeOK ==
  /\ \A j \in Jobs : StateCheck(jobs[j])
  /\ jobs \in [Jobs -> JobRow]
  /\ attempts \in [Tokens -> AttemptRow]
  /\ audits \in [Jobs -> Seq(Audit)]
  /\ told \in [Tokens -> SUBSET Answers]

\* The job row and the attempt ledger name the same holder: a leased job's token
\* is an open attempt of that job, owner and number, and no other attempt is
\* open.  So no "attempt history is missing" assertion of the service can fire,
\* and two workers are never both the holder of a job.
OneHolder ==
  \A t \in Tokens :
    /\ attempts[t].outcome = "leased" =>
         \E j \in Jobs : attempts[t].job = j /\ jobs[j].state = "leased" /\ jobs[j].lease_token = t
    /\ \A j \in Jobs : jobs[j].state = "leased" /\ jobs[j].lease_token = t =>
         /\ AttemptOpen(j, jobs[j].lease_owner, t)
         /\ attempts[t].number = jobs[j].attempt_count

\* A job's attempts are numbered 1..attempt_count without a gap or a repeat,
\* through reclaims, retries and manual requeues.
AttemptsContiguous ==
  \A j \in Jobs : Exists(j) =>
    /\ \A t \in AttemptsOf(j) : attempts[t].number \in 1..jobs[j].attempt_count
    /\ \A n \in 1..jobs[j].attempt_count : \E t \in AttemptsOf(j) : attempts[t].number = n
    /\ \A t, u \in AttemptsOf(j) : attempts[t].number = attempts[u].number => t = u

\* No claim goes past max_attempts, and a pending job can always still be
\* claimed: a pending row with its budget spent would never be looked at again.
BudgetLeft ==
  \A j \in Jobs :
    /\ jobs[j].attempt_count <= jobs[j].max_attempts
    /\ jobs[j].state = "pending" => jobs[j].attempt_count < jobs[j].max_attempts

\* How the last attempt may have ended, by how the job stands.
Endings(j) ==
  CASE jobs[j].state = "leased" -> {"leased"}
    [] jobs[j].state = "completed" -> {"completed"}
    [] jobs[j].state = "dead_letter" ->
         IF jobs[j].reason = "lease_expired_after_final_claim"
         THEN {"dead_lettered_unknown"} ELSE {"dead_lettered_failed"}
    [] OTHER -> {"retry_scheduled", "dead_lettered_failed", "dead_lettered_unknown"}

\* The job stands as its last attempt ended, and completion ended the last
\* attempt there is: work recorded as done is never handed out again, and a
\* final lease that ran out is "unknown", never "failed".
LedgerExplainsState ==
  \A j \in Jobs : Exists(j) =>
    /\ \A t \in LastAttempts(j) : attempts[t].outcome \in Endings(j)
    /\ \A t \in AttemptsOf(j) : attempts[t].outcome = "completed" =>
         jobs[j].state = "completed" /\ t \in LastAttempts(j)

\* The ledger of attempts is whole, and says how the job came to stand where it
\* stands, through reclaims, retries, expiries and manual requeues.
LedgerConsistent == AttemptsContiguous /\ LedgerExplainsState

\* Between two manual requeues of a job at least one more attempt was claimed,
\* and the job runs under the budget its last audit row granted.
AuditsExplainBudget ==
  \A j \in Jobs :
    /\ \A i \in 1..Len(audits[j]) :
         /\ audits[j][i].previous_attempt_count < audits[j][i].next_max_attempts
         /\ i < Len(audits[j]) =>
              /\ audits[j][i].previous_attempt_count < audits[j][i + 1].previous_attempt_count
              /\ audits[j][i + 1].previous_attempt_count <= audits[j][i].next_max_attempts
    /\ audits[j] # <<>> => audits[j][Len(audits[j])].next_max_attempts = jobs[j].max_attempts

\* What the service has answered about a token is what the ledger says of it:
\* never two different successes for one lease, and no success unless recorded.
AnswersMatchLedger ==
  \A t \in Tokens : attempts[t].outcome # "deleted" =>
    /\ "completed" \in told[t] => attempts[t].outcome = "completed"
    /\ "retried" \in told[t] => attempts[t].outcome = "retry_scheduled"
    /\ "dead_lettered" \in told[t] => attempts[t].outcome = "dead_lettered_failed"
    /\ "not_found" \notin told[t]

\* A lease ends while it still runs only by its holder's own outcome, and once
\* it has run out only as expired: a late worker changes nothing.
FencedStep ==
  \A j \in Jobs :
    LET t == jobs[j].lease_token IN
    jobs[j].state = "leased" /\ (jobs'[j].state # "leased" \/ jobs'[j].lease_token # t) =>
      IF jobs[j].lease_expires_at > 0
      THEN attempts'[t].outcome \in {"completed", "retry_scheduled", "dead_lettered_failed"}
      ELSE attempts'[t].outcome \in {"lease_expired", "dead_lettered_unknown"}
FencedRelease == [][FencedStep]_vars

\* A finished attempt is history: its outcome, job and number never change, and
\* it goes only together with its job, after the job's retention.
HistoryStep ==
  \A t \in Tokens :
    attempts[t].outcome \in AttemptOutcomes \ {"leased"} =>
      \/ attempts'[t] = attempts[t]
      \/ /\ attempts'[t].outcome = "deleted"
         /\ jobs[attempts[t].job].state \in Terminal
         /\ jobs[attempts[t].job].retention_expires_at <= 0
         /\ audits'[attempts[t].job] = <<>> /\ jobs'[attempts[t].job].state = "deleted"
HistoryKept == [][HistoryStep]_vars

\* Every enqueued job is eventually completed or dead-lettered, whatever its
\* workers do: crash with the lease, answer late, or ask for retries.
EverySettles ==
  \A j \in Jobs : jobs[j].state \in {"pending", "leased"} ~>
    jobs[j].state \in Terminal \cup {"deleted"}

=============================================================================
