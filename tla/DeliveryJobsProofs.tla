------------------------- MODULE DeliveryJobsProofs -------------------------
(***************************************************************************)
(* Proofs about DeliveryJobs for any set of jobs, tokens and workers.      *)
(***************************************************************************)
EXTENDS DeliveryJobs, TLAPS

-----------------------------------------------------------------------------
(* The inductive invariant                                                 *)

\* A token belongs to a job exactly from the claim that drew it on, and its
\* attempt row lives no longer than the job row.
AttemptsOfLiveJobs ==
  \A t \in Tokens :
    /\ attempts[t].outcome = "unissued" <=> attempts[t].job = NoJob
    /\ attempts[t].outcome \in AttemptOutcomes =>
         jobs[attempts[t].job].state \in {"pending", "leased"} \cup Terminal

IInv == TypeOK /\ OneHolder /\ BudgetLeft /\ AttemptsOfLiveJobs

\* What a claim is called with: the rows it may dead-letter, the rows it may
\* lease, and a different unused token for each of these.
ClaimArguments(w, duration, dead, taken, tok) ==
  /\ w \in Workers /\ duration \in LeaseDurations
  /\ dead \subseteq Jobs /\ \A j \in dead : FinalLeaseExpired(jobs[j])
  /\ taken \subseteq Jobs /\ \A j \in taken : Claimable(jobs[j])
  /\ tok \in TokenChoices(taken)

-----------------------------------------------------------------------------
(* Initial states                                                          *)

LEMMA InitIInv == Init => IInv
  <1> SUFFICES ASSUME Init PROVE IInv
    OBVIOUS
  <1>1. TypeOK
    BY NullsAssumption DEF Init, TypeOK, NoRow, JobRow, AttemptRow, Reasons, Terminal,
       StateCheck, AttemptOutcomes
  <1>2. OneHolder /\ BudgetLeft
    BY NullsAssumption DEF Init, OneHolder, BudgetLeft, NoRow
  <1>3. AttemptsOfLiveJobs
    BY NullsAssumption DEF Init, AttemptsOfLiveJobs, AttemptOutcomes
  <1> QED
    BY <1>1, <1>2, <1>3 DEF IInv

-----------------------------------------------------------------------------
(* The rows the operations build                                           *)

LEMMA UnleasedRow ==
  ASSUME NEW row \in JobRow
  PROVE  /\ Unleased(row) \in JobRow
         /\ Unleased(row).lease_token = NoToken /\ Unleased(row).lease_owner = NoWorker
         /\ Unleased(row).attempt_count = row.attempt_count
         /\ Unleased(row).max_attempts = row.max_attempts
         /\ Unleased(row).reason = row.reason
  <1>1. Unleased(row) \in JobRow
    <2>1. NoWorker \in Workers \cup {NoWorker} /\ NoToken \in Tokens \cup {NoToken} /\ 0 \in Int
      OBVIOUS
    <2> QED
      BY <2>1 DEF Unleased, JobRow
  <1>2. /\ Unleased(row).lease_token = NoToken /\ Unleased(row).lease_owner = NoWorker
        /\ Unleased(row).attempt_count = row.attempt_count
    BY DEF Unleased, JobRow
  <1>3. /\ Unleased(row).max_attempts = row.max_attempts
        /\ Unleased(row).reason = row.reason
    BY DEF Unleased, JobRow
  <1> QED
    BY <1>1, <1>2, <1>3

\* The row a completion leaves.
LEMMA CompletedRow ==
  ASSUME NEW row \in JobRow, StateCheck(row), row.state = "leased"
  PROVE  LET new == [Unleased(row) EXCEPT !.state = "completed",
                                          !.retention_expires_at = Retention]
         IN /\ new \in JobRow /\ StateCheck(new) /\ new.state = "completed"
            /\ new.lease_token = NoToken
            /\ new.attempt_count = row.attempt_count
            /\ new.max_attempts = row.max_attempts
  <1> DEFINE base == Unleased(row)
  <1>1. /\ base \in JobRow /\ base.lease_token = NoToken /\ base.lease_owner = NoWorker
        /\ base.attempt_count = row.attempt_count /\ base.max_attempts = row.max_attempts
        /\ base.reason = "none"
    BY UnleasedRow DEF StateCheck
  <1>2. Retention \in Int
    BY RetentionAssumption
  <1> HIDE DEF base
  <1> QED
    BY <1>1, <1>2 DEF JobRow, StateCheck, Terminal, base

\* The row a retry leaves.
LEMMA RetriedRow ==
  ASSUME NEW row \in JobRow, StateCheck(row), row.state = "leased", NEW at \in Int
  PROVE  LET new == [Unleased(row) EXCEPT !.state = "pending", !.available_at = at]
         IN /\ new \in JobRow /\ StateCheck(new) /\ new.state = "pending"
            /\ new.lease_token = NoToken
            /\ new.attempt_count = row.attempt_count
            /\ new.max_attempts = row.max_attempts
  <1> DEFINE base == Unleased(row)
  <1>1. /\ base \in JobRow /\ base.lease_token = NoToken /\ base.lease_owner = NoWorker
        /\ base.attempt_count = row.attempt_count /\ base.max_attempts = row.max_attempts
        /\ base.reason = "none"
    BY UnleasedRow DEF StateCheck
  <1> HIDE DEF base
  <1> QED
    BY <1>1 DEF JobRow, StateCheck, Terminal, base

\* The row every kind of dead-lettering leaves.
LEMMA DeadLetteredRow ==
  ASSUME NEW row \in JobRow, StateCheck(row), NEW reason \in Reasons \ {"none"}
  PROVE  LET new == DeadLettered(row, reason)
         IN /\ new \in JobRow /\ StateCheck(new) /\ new.state = "dead_letter"
            /\ new.lease_token = NoToken
            /\ new.attempt_count = row.attempt_count
            /\ new.max_attempts = row.max_attempts /\ new.reason = reason
  <1> DEFINE base == Unleased(row)
  <1>1. /\ base \in JobRow /\ base.lease_token = NoToken /\ base.lease_owner = NoWorker
        /\ base.attempt_count = row.attempt_count /\ base.max_attempts = row.max_attempts
    BY UnleasedRow
  <1>2. Retention \in Int /\ reason \in Reasons /\ reason # "none"
    BY RetentionAssumption
  <1> HIDE DEF base
  <1>3. DeadLettered(row, reason) =
          [base EXCEPT !.state = "dead_letter", !.reason = reason,
                       !.retention_expires_at = Retention]
    BY DEF DeadLettered, base
  <1> QED
    BY <1>1, <1>2, <1>3 DEF JobRow, StateCheck, Terminal

\* The row a claim leaves.
LEMMA LeasedRow ==
  ASSUME NEW row \in JobRow, row.state \in {"pending", "leased"}, StateCheck(row),
         NEW w \in Workers, NEW t \in Tokens, NEW duration \in LeaseDurations
  PROVE  LET new == Leased(row, w, t, duration)
         IN /\ new \in JobRow /\ StateCheck(new) /\ new.state = "leased"
            /\ new.lease_token = t /\ new.lease_owner = w
            /\ new.attempt_count = row.attempt_count + 1
            /\ new.max_attempts = row.max_attempts
  <1>1. row.attempt_count + 1 \in Nat /\ row.attempt_count + 1 > 0
    BY DEF JobRow
  <1>2. /\ duration \in Int /\ w \in Workers \cup {NoWorker} /\ t \in Tokens \cup {NoToken}
        /\ w # NoWorker /\ t # NoToken
    BY LeaseAssumption, NullsAssumption
  <1>3. row.reason = "none"
    BY DEF StateCheck
  <1>4. Leased(row, w, t, duration) \in JobRow
    BY <1>1, <1>2 DEF Leased, JobRow
  <1>5. /\ Leased(row, w, t, duration).state = "leased"
        /\ Leased(row, w, t, duration).lease_token = t
        /\ Leased(row, w, t, duration).lease_owner = w
        /\ Leased(row, w, t, duration).attempt_count = row.attempt_count + 1
        /\ Leased(row, w, t, duration).max_attempts = row.max_attempts
        /\ Leased(row, w, t, duration).reason = row.reason
    BY DEF Leased, JobRow
  <1> QED
    BY <1>1, <1>2, <1>3, <1>4, <1>5 DEF StateCheck

\* The row a manual requeue leaves.
LEMMA RequeuedRow ==
  ASSUME NEW row \in JobRow, StateCheck(row), row.state = "dead_letter",
         NEW m \in Nat, NEW delay \in Int
  PROVE  LET new == Requeued(row, m, delay)
         IN /\ new \in JobRow /\ StateCheck(new) /\ new.state = "pending"
            /\ new.lease_token = NoToken
            /\ new.attempt_count = row.attempt_count /\ new.max_attempts = m
  <1>1. "none" \in Reasons /\ 0 \in Int
    BY DEF Reasons
  <1>2. Requeued(row, m, delay) \in JobRow
    BY <1>1 DEF Requeued, JobRow
  <1>3. /\ Requeued(row, m, delay).state = "pending"
        /\ Requeued(row, m, delay).lease_token = row.lease_token
        /\ Requeued(row, m, delay).lease_owner = row.lease_owner
        /\ Requeued(row, m, delay).attempt_count = row.attempt_count
        /\ Requeued(row, m, delay).max_attempts = m
        /\ Requeued(row, m, delay).reason = "none"
    BY DEF Requeued, JobRow
  <1> QED
    BY <1>2, <1>3 DEF StateCheck

\* The row of a job that does not exist, not yet or no more.
LEMMA EmptyRow ==
  ASSUME NEW state \in {"absent", "pending", "deleted"}
  PROVE  LET new == NoRow(state)
         IN /\ new \in JobRow /\ StateCheck(new) /\ new.state = state
            /\ new.lease_token = NoToken /\ new.lease_owner = NoWorker /\ new.reason = "none"
            /\ new.attempt_count = 0 /\ new.max_attempts = 0
  BY DEF NoRow, JobRow, Reasons, Terminal, StateCheck

\* Time passes over a row without touching what the invariant is about.
LEMMA OlderRow ==
  ASSUME NEW row \in JobRow, StateCheck(row)
  PROVE  LET new == AgedRow(row)
         IN /\ new \in JobRow /\ StateCheck(new) /\ new.state = row.state
            /\ new.lease_token = row.lease_token /\ new.lease_owner = row.lease_owner
            /\ new.attempt_count = row.attempt_count /\ new.max_attempts = row.max_attempts
            /\ new.reason = row.reason
  <1>1. \A x \in Int : Age(x) \in Int
    BY HorizonAssumption DEF Age
  <1> DEFINE a == IF row.state \in {"pending", "leased"} THEN Age(row.available_at)
                  ELSE row.available_at
             l == IF row.state = "leased" THEN Age(row.lease_expires_at)
                  ELSE row.lease_expires_at
             r == IF row.state \in Terminal THEN Age(row.retention_expires_at)
                  ELSE row.retention_expires_at
  <1>2. a \in Int /\ l \in Int /\ r \in Int
    BY <1>1 DEF JobRow
  <1>3. AgedRow(row) = [row EXCEPT !.available_at = a, !.lease_expires_at = l,
                                   !.retention_expires_at = r]
    BY DEF AgedRow
  <1> HIDE DEF a, l, r
  <1>4. AgedRow(row) \in JobRow
    BY <1>2, <1>3 DEF JobRow
  <1>5. /\ AgedRow(row).state = row.state /\ AgedRow(row).reason = row.reason
        /\ AgedRow(row).lease_token = row.lease_token
        /\ AgedRow(row).lease_owner = row.lease_owner
        /\ AgedRow(row).attempt_count = row.attempt_count
        /\ AgedRow(row).max_attempts = row.max_attempts
    BY <1>3 DEF JobRow
  <1> QED
    BY <1>4, <1>5 DEF StateCheck

-----------------------------------------------------------------------------
(* One lemma per operation: it keeps the inductive invariant.              *)

LEMMA AnswerTyped ==
  ASSUME TypeOK, NEW t \in Tokens, NEW a \in Answers, Answer(t, a)
  PROVE  told' \in [Tokens -> SUBSET Answers]
  BY DEF TypeOK, Answer

LEMMA EnqueueKeeps ==
  ASSUME IInv, NEW j \in Jobs, NEW m \in 1..AttemptsCap, NEW delay \in Delays,
         EnqueueDeliveryJob(j, m, delay)
  PROVE  IInv'
  <1> DEFINE row == [NoRow("pending") EXCEPT !.max_attempts = m, !.available_at = delay]
             base == NoRow("pending")
  <1>1. /\ base \in JobRow /\ StateCheck(base) /\ base.state = "pending"
        /\ base.lease_token = NoToken /\ base.attempt_count = 0
    BY EmptyRow
  <1>2. m \in Nat /\ m > 0 /\ delay \in Int
    BY LimitAssumption, DelayAssumption
  <1>3. row = [base EXCEPT !.max_attempts = m, !.available_at = delay]
    OBVIOUS
  <1> HIDE DEF base, row
  <1>4. /\ row \in JobRow /\ StateCheck(row) /\ row.state = "pending"
        /\ row.lease_token = NoToken /\ row.attempt_count = 0 /\ row.max_attempts = m
    BY <1>1, <1>2, <1>3 DEF JobRow, StateCheck
  <1>5. /\ jobs' = [jobs EXCEPT ![j] = row] /\ jobs[j].state = "absent"
        /\ attempts' = attempts /\ audits' = audits /\ told' = told
    BY DEF EnqueueDeliveryJob, row
  <1>6. TypeOK'
    BY <1>4, <1>5 DEF IInv, TypeOK, StateCheck
  <1>7. OneHolder'
    BY <1>4, <1>5, NullsAssumption DEF IInv, TypeOK, OneHolder, AttemptOpen
  <1>8. BudgetLeft'
    BY <1>2, <1>4, <1>5 DEF IInv, TypeOK, BudgetLeft
  <1>9. AttemptsOfLiveJobs'
    BY <1>4, <1>5 DEF IInv, TypeOK, AttemptsOfLiveJobs, AttemptRow, Terminal
  <1> QED
    BY <1>6, <1>7, <1>8, <1>9 DEF IInv

\* What all four ways to settle a lease have in common.
LEMMA SettleKeeps ==
  ASSUME IInv, NEW j \in Jobs, NEW w \in Workers, NEW t \in Tokens, HoldsLease(j, w, t),
         NEW row \in JobRow, StateCheck(row), row.state \in {"pending"} \cup Terminal,
         row.lease_token = NoToken,
         row.attempt_count = jobs[j].attempt_count, row.max_attempts = jobs[j].max_attempts,
         row.state = "pending" => row.attempt_count < row.max_attempts,
         NEW outcome \in AttemptOutcomes \ {"leased"},
         jobs' = [jobs EXCEPT ![j] = row],
         attempts' = [attempts EXCEPT ![t].outcome = outcome],
         audits' = audits, told' \in [Tokens -> SUBSET Answers]
  PROVE  IInv'
  <1>0. jobs[j].state = "leased" /\ jobs[j].lease_token = t /\ row.state # "leased"
    BY DEF HoldsLease, Terminal
  <1>1. attempts[t] \in AttemptRow /\ attempts[t].outcome = "leased" /\ attempts[t].job = j
    BY <1>0 DEF IInv, TypeOK, OneHolder, AttemptOpen
  <1>2. /\ attempts' \in [Tokens -> AttemptRow]
        /\ attempts'[t].outcome = outcome /\ attempts'[t].job = attempts[t].job
        /\ \A u \in Tokens : u # t => attempts'[u] = attempts[u]
    BY DEF IInv, TypeOK, AttemptRow
  <1>3. TypeOK'
    BY <1>2 DEF IInv, TypeOK, StateCheck
  <1>4. OneHolder'
    BY <1>0, <1>1, <1>2, NullsAssumption DEF IInv, TypeOK, OneHolder, AttemptOpen
  <1>5. BudgetLeft'
    BY <1>0 DEF IInv, TypeOK, BudgetLeft
  <1>6. AttemptsOfLiveJobs'
    BY <1>0, <1>1, <1>2, NullsAssumption
       DEF IInv, TypeOK, AttemptsOfLiveJobs, AttemptRow, AttemptOutcomes
  <1> QED
    BY <1>3, <1>4, <1>5, <1>6 DEF IInv

\* An answer alone touches no row.
LEMMA ToldKeeps ==
  ASSUME IInv, told' \in [Tokens -> SUBSET Answers], UNCHANGED <<jobs, attempts, audits>>
  PROVE  IInv'
  BY DEF IInv, TypeOK, StateCheck, OneHolder, AttemptOpen, BudgetLeft, AttemptsOfLiveJobs

LEMMA RefuseKeeps ==
  ASSUME IInv, NEW j, NEW t \in Tokens, NEW outcomes, NEW a \in Answers,
         RefuseOrRepeat(j, t, outcomes, a)
  PROVE  IInv'
  <1>1. told' \in [Tokens -> SUBSET Answers]
    BY AnswerTyped DEF RefuseOrRepeat, IInv, Answers
  <1> QED
    BY <1>1, ToldKeeps DEF RefuseOrRepeat

\* The job a worker's call names exists or existed.
LEMMA JobOfIssued ==
  ASSUME IInv, NEW t \in Tokens, Issued(t)
  PROVE  attempts[t].job \in Jobs
  BY DEF IInv, TypeOK, AttemptsOfLiveJobs, Issued, AttemptRow

\* What holding the lease says of the row.
LEMMA HolderRow ==
  ASSUME IInv, NEW j \in Jobs, NEW w \in Workers, NEW t \in Tokens, HoldsLease(j, w, t)
  PROVE  jobs[j] \in JobRow /\ StateCheck(jobs[j]) /\ jobs[j].state = "leased"
  BY DEF IInv, TypeOK, HoldsLease

LEMMA CompleteKeeps ==
  ASSUME IInv, NEW j \in Jobs, NEW w \in Workers, NEW t \in Tokens,
         CompleteDeliveryJob(j, w, t)
  PROVE  IInv'
  <1>1. CASE HoldsLease(j, w, t)
    <2> DEFINE row == [Unleased(jobs[j]) EXCEPT !.state = "completed",
                                                !.retention_expires_at = Retention]
    <2>1. /\ row \in JobRow /\ StateCheck(row) /\ row.state = "completed"
          /\ row.lease_token = NoToken /\ row.attempt_count = jobs[j].attempt_count
          /\ row.max_attempts = jobs[j].max_attempts
      BY <1>1, HolderRow, CompletedRow
    <2>2. /\ jobs' = [jobs EXCEPT ![j] = row] /\ audits' = audits
          /\ attempts' = [attempts EXCEPT ![t].outcome = "completed"]
      BY <1>1 DEF CompleteDeliveryJob, CloseAttempt
    <2> HIDE DEF row
    <2>3. told' \in [Tokens -> SUBSET Answers]
      BY <1>1, AnswerTyped DEF CompleteDeliveryJob, IInv, Answers
    <2>4. row.state \in {"pending"} \cup Terminal /\ row.state # "pending"
      BY <2>1 DEF Terminal
    <2>5. "completed" \in AttemptOutcomes \ {"leased"}
      BY DEF AttemptOutcomes
    <2> QED
      BY <1>1, <2>1, <2>2, <2>3, <2>4, <2>5, SettleKeeps
  <1>2. CASE ~HoldsLease(j, w, t)
    BY <1>2, RefuseKeeps DEF CompleteDeliveryJob, Answers
  <1> QED
    BY <1>1, <1>2

\* A dead-lettering answer of the lease's holder.
LEMMA FailKeeps ==
  ASSUME IInv, NEW j \in Jobs, NEW w \in Workers, NEW t \in Tokens, HoldsLease(j, w, t),
         NEW reason \in Reasons \ {"none"},
         jobs' = [jobs EXCEPT ![j] = DeadLettered(jobs[j], reason)],
         CloseAttempt(t, "dead_lettered_failed"), Answer(t, "dead_lettered"),
         UNCHANGED audits
  PROVE  IInv'
  <1> DEFINE row == DeadLettered(jobs[j], reason)
  <1>1. /\ row \in JobRow /\ StateCheck(row) /\ row.state = "dead_letter"
        /\ row.lease_token = NoToken /\ row.attempt_count = jobs[j].attempt_count
        /\ row.max_attempts = jobs[j].max_attempts
    BY HolderRow, DeadLetteredRow
  <1>2. /\ jobs' = [jobs EXCEPT ![j] = row] /\ audits' = audits
        /\ attempts' = [attempts EXCEPT ![t].outcome = "dead_lettered_failed"]
    BY DEF CloseAttempt
  <1> HIDE DEF row
  <1>3. told' \in [Tokens -> SUBSET Answers]
    BY AnswerTyped DEF IInv, Answers
  <1>4. row.state \in {"pending"} \cup Terminal /\ row.state # "pending"
    BY <1>1 DEF Terminal
  <1>5. "dead_lettered_failed" \in AttemptOutcomes \ {"leased"}
    BY DEF AttemptOutcomes
  <1> QED
    BY <1>1, <1>2, <1>3, <1>4, <1>5, SettleKeeps

LEMMA DeadLetterKeeps ==
  ASSUME IInv, NEW j \in Jobs, NEW w \in Workers, NEW t \in Tokens,
         DeadLetterDeliveryJob(j, w, t)
  PROVE  IInv'
  <1>1. CASE HoldsLease(j, w, t)
    BY <1>1, FailKeeps DEF DeadLetterDeliveryJob, Reasons
  <1>2. CASE ~HoldsLease(j, w, t)
    BY <1>2, RefuseKeeps DEF DeadLetterDeliveryJob, Answers
  <1> QED
    BY <1>1, <1>2

LEMMA RetryKeeps ==
  ASSUME IInv, NEW j \in Jobs, NEW w \in Workers, NEW t \in Tokens,
         NEW delay \in RetryDelays, RetryDeliveryJob(j, w, t, delay)
  PROVE  IInv'
  <1> DEFINE row == [Unleased(jobs[j]) EXCEPT !.state = "pending", !.available_at = delay]
  <1>1. ASSUME HoldsLease(j, w, t), jobs[j].attempt_count < jobs[j].max_attempts,
               jobs' = [jobs EXCEPT ![j] = row], CloseAttempt(t, "retry_scheduled"),
               Answer(t, "retried"), UNCHANGED audits
        PROVE  IInv'
    <2>1. delay \in Int
      BY DelayAssumption
    <2>2. /\ row \in JobRow /\ StateCheck(row) /\ row.state = "pending"
          /\ row.lease_token = NoToken /\ row.attempt_count = jobs[j].attempt_count
          /\ row.max_attempts = jobs[j].max_attempts
      BY <1>1, <2>1, HolderRow, RetriedRow
    <2> HIDE DEF row
    <2>3. told' \in [Tokens -> SUBSET Answers]
      BY <1>1, AnswerTyped DEF IInv, Answers
    <2>4. attempts' = [attempts EXCEPT ![t].outcome = "retry_scheduled"]
      BY <1>1 DEF CloseAttempt
    <2>5. "retry_scheduled" \in AttemptOutcomes \ {"leased"}
      BY DEF AttemptOutcomes
    <2> QED
      BY <1>1, <2>2, <2>3, <2>4, <2>5, SettleKeeps
  <1>2. ASSUME HoldsLease(j, w, t),
               jobs' = [jobs EXCEPT ![j] = DeadLettered(jobs[j], "attempts_exhausted")],
               CloseAttempt(t, "dead_lettered_failed"), Answer(t, "dead_lettered"),
               UNCHANGED audits
        PROVE  IInv'
    BY <1>2, FailKeeps DEF Reasons
  <1>3. ASSUME Answer(t, "lease_lost"), UNCHANGED <<jobs, attempts, audits>>
        PROVE  IInv'
    BY <1>3, AnswerTyped, ToldKeeps DEF IInv, Answers
  <1>4. CASE ~HoldsLease(j, w, t)
    BY <1>4, RefuseKeeps DEF RetryDeliveryJob, Answers
  <1> QED
    BY <1>1, <1>2, <1>3, <1>4 DEF RetryDeliveryJob

LEMMA RequeueKeeps ==
  ASSUME IInv, NEW j \in Jobs, NEW m \in 1..AttemptsCap, NEW delay \in Delays,
         ManuallyRequeueDeliveryJob(j, m, delay)
  PROVE  IInv'
  <1> DEFINE row == Requeued(jobs[j], m, delay)
             audit == [previous_attempt_count |-> jobs[j].attempt_count,
                       next_max_attempts |-> m, previous_reason |-> jobs[j].reason]
  <1>1. /\ jobs[j] \in JobRow /\ StateCheck(jobs[j]) /\ jobs[j].state = "dead_letter"
        /\ m > jobs[j].attempt_count
    BY DEF ManuallyRequeueDeliveryJob, RequeueAllowed, IInv, TypeOK
  <1>2. m \in Nat /\ delay \in Int
    BY LimitAssumption, DelayAssumption
  <1>3. /\ row \in JobRow /\ StateCheck(row) /\ row.state = "pending"
        /\ row.lease_token = NoToken /\ row.attempt_count = jobs[j].attempt_count
        /\ row.max_attempts = m
    BY <1>1, <1>2, RequeuedRow
  <1>4. audit \in Audit
    BY <1>1, <1>2 DEF Audit, JobRow
  <1>5. /\ jobs' = [jobs EXCEPT ![j] = row] /\ attempts' = attempts /\ told' = told
        /\ audits' = [audits EXCEPT ![j] = Append(@, audit)]
    BY DEF ManuallyRequeueDeliveryJob
  <1> HIDE DEF row, audit
  <1>6. audits' \in [Jobs -> Seq(Audit)]
    BY <1>4, <1>5 DEF IInv, TypeOK
  <1>7. TypeOK'
    BY <1>3, <1>5, <1>6 DEF IInv, TypeOK, StateCheck
  <1>8. OneHolder'
    BY <1>1, <1>3, <1>5, NullsAssumption DEF IInv, TypeOK, OneHolder, AttemptOpen
  <1>9. BudgetLeft'
    BY <1>1, <1>2, <1>3, <1>5 DEF IInv, TypeOK, BudgetLeft, JobRow
  <1>10. AttemptsOfLiveJobs'
    BY <1>1, <1>3, <1>5 DEF IInv, TypeOK, AttemptsOfLiveJobs, AttemptRow, Terminal
  <1> QED
    BY <1>7, <1>8, <1>9, <1>10 DEF IInv

LEMMA CleanupKeeps ==
  ASSUME IInv, NEW gone \in SUBSET Jobs, \A j \in gone : RetentionOver(jobs[j]),
         DeleteJobs(gone)
  PROVE  IInv'
  <1> DEFINE row == NoRow("deleted")
  <1>1. /\ row \in JobRow /\ StateCheck(row) /\ row.state = "deleted"
        /\ row.lease_token = NoToken /\ row.attempt_count = 0 /\ row.max_attempts = 0
    BY EmptyRow
  <1>2. /\ jobs' = [j \in Jobs |-> IF j \in gone THEN row ELSE jobs[j]]
        /\ audits' = [j \in Jobs |-> IF j \in gone THEN <<>> ELSE audits[j]]
        /\ told' = told
    BY DEF DeleteJobs
  <1>3. \A t \in Tokens :
          IF attempts[t].job \in gone
          THEN /\ attempts'[t] \in AttemptRow /\ attempts'[t].outcome = "deleted"
               /\ attempts'[t].job = attempts[t].job
          ELSE attempts'[t] = attempts[t]
    BY DEF DeleteJobs, IInv, TypeOK, AttemptRow
  <1>4. attempts' \in [Tokens -> AttemptRow]
    <2>1. \A t \in Tokens : attempts'[t] \in AttemptRow
      BY <1>3 DEF IInv, TypeOK
    <2> QED
      BY <2>1 DEF DeleteJobs
  <1>5. \A j \in gone : jobs[j].state \in Terminal /\ jobs[j].state # "leased"
    BY DEF RetentionOver, Terminal
  <1> HIDE DEF row
  <1>6. TypeOK'
    BY <1>1, <1>2, <1>4 DEF IInv, TypeOK, StateCheck
  <1>7. OneHolder'
    BY <1>1, <1>2, <1>3, <1>5, NullsAssumption DEF IInv, TypeOK, OneHolder, AttemptOpen
  <1>8. BudgetLeft'
    BY <1>1, <1>2 DEF IInv, TypeOK, BudgetLeft
  <1>9. AttemptsOfLiveJobs'
    BY <1>1, <1>2, <1>3, NullsAssumption
       DEF IInv, TypeOK, AttemptsOfLiveJobs, AttemptRow, AttemptOutcomes
  <1> QED
    BY <1>6, <1>7, <1>8, <1>9 DEF IInv

LEMMA TickKeeps ==
  ASSUME IInv, Tick
  PROVE  IInv'
  <1>1. \A j \in Jobs :
          /\ jobs'[j] \in JobRow /\ StateCheck(jobs'[j]) /\ jobs'[j].state = jobs[j].state
          /\ jobs'[j].lease_token = jobs[j].lease_token
          /\ jobs'[j].lease_owner = jobs[j].lease_owner
          /\ jobs'[j].attempt_count = jobs[j].attempt_count
          /\ jobs'[j].max_attempts = jobs[j].max_attempts
    BY OlderRow DEF IInv, TypeOK, Tick
  <1>2. jobs' \in [Jobs -> JobRow] /\ attempts' = attempts /\ audits' = audits /\ told' = told
    BY <1>1 DEF Tick
  <1>3. TypeOK'
    BY <1>1, <1>2 DEF IInv, TypeOK, StateCheck
  <1>4. OneHolder'
    BY <1>1, <1>2 DEF IInv, OneHolder, AttemptOpen
  <1>5. BudgetLeft'
    BY <1>1, <1>2 DEF IInv, BudgetLeft
  <1>6. AttemptsOfLiveJobs'
    BY <1>1, <1>2 DEF IInv, TypeOK, AttemptsOfLiveJobs, AttemptRow, AttemptOutcomes
  <1> QED
    BY <1>3, <1>4, <1>5, <1>6 DEF IInv

\* A claim: rows and attempts change together, one case per kind of row.
LEMMA ClaimKeeps ==
  ASSUME IInv, NEW w, NEW duration, NEW dead, NEW taken, NEW tok,
         ClaimArguments(w, duration, dead, taken, tok),
         ClaimRows(w, duration, dead, taken, tok)
  PROVE  IInv'
  <1> USE DEF ClaimArguments
  <1> DEFINE expired == {jobs[j].lease_token : j \in {k \in taken : jobs[k].state = "leased"}}
             unknown == {jobs[j].lease_token : j \in dead}
  <1>1. /\ \A j \in dead : /\ jobs[j].state = "leased"
                           /\ jobs[j].attempt_count >= jobs[j].max_attempts
        /\ \A j \in taken : /\ jobs[j].state \in {"pending", "leased"}
                            /\ jobs[j].attempt_count < jobs[j].max_attempts
    BY DEF FinalLeaseExpired, LeaseExpired, Claimable
  <1>2. \A j \in Jobs : jobs[j].attempt_count \in Nat /\ jobs[j].max_attempts \in Nat
    BY DEF IInv, TypeOK, JobRow
  <1>3. \A j \in Jobs : ~(j \in dead /\ j \in taken)
    BY <1>1, <1>2
  <1>4. \A j \in Jobs : jobs[j].state = "leased" =>
          /\ jobs[j].lease_token \in Tokens
          /\ attempts[jobs[j].lease_token].job = j
          /\ attempts[jobs[j].lease_token].outcome = "leased"
    BY DEF IInv, TypeOK, StateCheck, JobRow, OneHolder, AttemptOpen
  <1>5. /\ tok \in [taken -> Tokens]
        /\ \A j \in taken : attempts[tok[j]].outcome = "unissued"
        /\ \A j, k \in taken : tok[j] = tok[k] => j = k
    BY DEF TokenChoices, FreshTokens, Issued
  <1>6. \A t \in unknown \cup expired : t \in Tokens /\ attempts[t].outcome = "leased"
    BY <1>1, <1>4
  <1>7. unknown \cap expired = {} /\ \A j \in taken : tok[j] \notin unknown \cup expired
    BY <1>1, <1>3, <1>4, <1>5, <1>6
  <1>8. \A j \in dead :
          /\ jobs'[j] \in JobRow /\ StateCheck(jobs'[j]) /\ jobs'[j].state = "dead_letter"
          /\ jobs'[j].lease_token = NoToken
          /\ jobs'[j].attempt_count = jobs[j].attempt_count
          /\ jobs'[j].max_attempts = jobs[j].max_attempts
    <2> TAKE j \in dead
    <2>1. jobs'[j] = DeadLettered(jobs[j], "lease_expired_after_final_claim")
      BY DEF ClaimRows
    <2>2. jobs[j] \in JobRow /\ StateCheck(jobs[j])
      BY DEF IInv, TypeOK
    <2> QED
      BY <2>1, <2>2, DeadLetteredRow DEF Reasons
  <1>9. \A j \in taken :
          /\ jobs'[j] \in JobRow /\ StateCheck(jobs'[j]) /\ jobs'[j].state = "leased"
          /\ jobs'[j].lease_token = tok[j] /\ jobs'[j].lease_owner = w
          /\ jobs'[j].attempt_count = jobs[j].attempt_count + 1
          /\ jobs'[j].max_attempts = jobs[j].max_attempts
    <2> TAKE j \in taken
    <2>1. jobs'[j] = Leased(jobs[j], w, tok[j], duration)
      BY <1>3 DEF ClaimRows
    <2>2. jobs[j] \in JobRow /\ StateCheck(jobs[j])
      BY DEF IInv, TypeOK
    <2> QED
      BY <1>1, <1>5, <2>1, <2>2, LeasedRow
  <1>10. \A j \in Jobs : j \notin dead /\ j \notin taken => jobs'[j] = jobs[j]
    BY DEF ClaimRows
  <1>11. \A t \in unknown :
           /\ attempts'[t] \in AttemptRow /\ attempts'[t].outcome = "dead_lettered_unknown"
           /\ attempts'[t].job = attempts[t].job
    BY <1>6 DEF ClaimRows, IInv, TypeOK, AttemptRow, AttemptOutcomes
  <1>12. \A t \in expired :
           /\ attempts'[t] \in AttemptRow /\ attempts'[t].outcome = "lease_expired"
           /\ attempts'[t].job = attempts[t].job
    BY <1>6, <1>7 DEF ClaimRows, IInv, TypeOK, AttemptRow, AttemptOutcomes
  <1>13. \A j \in taken :
           /\ attempts'[tok[j]] \in AttemptRow /\ attempts'[tok[j]].outcome = "leased"
           /\ attempts'[tok[j]].job = j /\ attempts'[tok[j]].owner = w
           /\ attempts'[tok[j]].number = jobs[j].attempt_count + 1
    <2> TAKE j \in taken
    <2>1. tok[j] \in Tokens /\ (CHOOSE k \in taken : tok[k] = tok[j]) = j
      BY <1>5
    <2>2. attempts'[tok[j]] = [outcome |-> "leased", job |-> j,
                               number |-> jobs[j].attempt_count + 1, owner |-> w]
      BY <1>7, <2>1 DEF ClaimRows
    <2>3. jobs[j].attempt_count + 1 \in Nat
      BY <1>2
    <2> QED
      BY <2>2, <2>3 DEF AttemptRow, AttemptOutcomes
  <1>14. \A t \in Tokens : t \notin unknown /\ t \notin expired /\ (\A j \in taken : tok[j] # t)
           => attempts'[t] = attempts[t]
    BY DEF ClaimRows
  <1>15. \A t \in Tokens : t \in unknown \/ t \in expired \/ (\E j \in taken : tok[j] = t)
           \/ (t \notin unknown /\ t \notin expired /\ \A j \in taken : tok[j] # t)
    OBVIOUS
  <1>16. /\ \A t \in unknown : \E j \in dead : jobs[j].lease_token = t
         /\ \A t \in expired : \E j \in taken : jobs[j].state = "leased" /\ jobs[j].lease_token = t
         /\ \A j \in dead : jobs[j].lease_token \in unknown
         /\ \A j \in taken : jobs[j].state = "leased" => jobs[j].lease_token \in expired
    OBVIOUS
  <1>17. jobs' = [j \in Jobs |-> jobs'[j]] /\ attempts' = [t \in Tokens |-> attempts'[t]]
         /\ audits' = audits /\ told' = told
    BY DEF ClaimRows
  <1> HIDE DEF expired, unknown
  <1>18. TypeOK'
    <2>1. \A j \in Jobs : jobs'[j] \in JobRow /\ StateCheck(jobs'[j])
      BY <1>8, <1>9, <1>10 DEF IInv, TypeOK
    <2>2. \A t \in Tokens : attempts'[t] \in AttemptRow
      <3> TAKE t \in Tokens
      <3>1. CASE \E j \in taken : tok[j] = t
        BY <3>1, <1>13
      <3> QED
        BY <3>1, <1>11, <1>12, <1>14, <1>15 DEF IInv, TypeOK
    <2>3. jobs' \in [Jobs -> JobRow] /\ attempts' \in [Tokens -> AttemptRow]
      BY <1>17, <2>1, <2>2
    <2> QED
      BY <1>17, <2>1, <2>3 DEF IInv, TypeOK, StateCheck
  <1>19. BudgetLeft'
    BY <1>1, <1>2, <1>8, <1>9, <1>10 DEF IInv, BudgetLeft
  <1>20. OneHolder'
    <2>1. ASSUME NEW t \in Tokens, attempts'[t].outcome = "leased"
          PROVE  \E j \in Jobs : /\ attempts'[t].job = j /\ jobs'[j].state = "leased"
                                 /\ jobs'[j].lease_token = t
      <3>1. CASE \E j \in taken : tok[j] = t
        BY <3>1, <1>9, <1>13
      <3>2. CASE ~\E j \in taken : tok[j] = t
        <4>1. t \notin unknown /\ t \notin expired /\ attempts'[t] = attempts[t]
          BY <2>1, <3>2, <1>11, <1>12, <1>14
        <4>2. PICK j \in Jobs : /\ attempts[t].job = j /\ jobs[j].state = "leased"
                                /\ jobs[j].lease_token = t
          BY <2>1, <4>1 DEF IInv, OneHolder
        <4>3. j \notin dead /\ j \notin taken
          BY <4>1, <4>2, <1>16
        <4> QED
          BY <4>1, <4>2, <4>3, <1>10
      <3> QED
        BY <3>1, <3>2
    <2>2. ASSUME NEW t \in Tokens, NEW j \in Jobs,
                 jobs'[j].state = "leased", jobs'[j].lease_token = t
          PROVE  /\ attempts'[t].job = j /\ attempts'[t].owner = jobs'[j].lease_owner
                 /\ attempts'[t].outcome = "leased"
                 /\ attempts'[t].number = jobs'[j].attempt_count
      <3>1. CASE j \in taken
        BY <2>2, <3>1, <1>9, <1>13
      <3>2. CASE j \notin taken
        <4>1. j \notin dead /\ jobs'[j] = jobs[j]
          BY <2>2, <3>2, <1>8, <1>10
        <4>2. /\ attempts[t].job = j /\ attempts[t].owner = jobs[j].lease_owner
              /\ attempts[t].outcome = "leased" /\ attempts[t].number = jobs[j].attempt_count
          BY <2>2, <4>1 DEF IInv, OneHolder, AttemptOpen
        <4>3. t \notin unknown /\ t \notin expired
          BY <3>2, <4>1, <4>2, <1>1, <1>4, <1>16
        <4>4. \A k \in taken : tok[k] # t
          BY <4>2, <1>5
        <4> QED
          BY <4>1, <4>2, <4>3, <4>4, <1>14
      <3> QED
        BY <3>1, <3>2
    <2> QED
      BY <2>1, <2>2 DEF OneHolder, AttemptOpen
  <1>21. AttemptsOfLiveJobs'
    <2> SUFFICES ASSUME NEW t \in Tokens
                 PROVE  /\ attempts'[t].outcome = "unissued" <=> attempts'[t].job = NoJob
                        /\ attempts'[t].outcome \in AttemptOutcomes =>
                             jobs'[attempts'[t].job].state \in {"pending", "leased"} \cup Terminal
      BY DEF AttemptsOfLiveJobs
    <2>1. \A j \in Jobs : jobs[j].state \in {"pending", "leased"} \cup Terminal
            => jobs'[j].state \in {"pending", "leased"} \cup Terminal
      BY <1>8, <1>9, <1>10 DEF Terminal
    <2>2. attempts[t].job \in Jobs \cup {NoJob}
      BY DEF IInv, TypeOK, AttemptRow
    <2>3. CASE \E j \in taken : tok[j] = t
      <3> PICK j \in taken : tok[j] = t
        BY <2>3
      <3>1. /\ attempts'[t].outcome = "leased" /\ attempts'[t].job = j /\ j # NoJob
            /\ jobs'[j].state = "leased"
        BY <1>9, <1>13, NullsAssumption
      <3> QED
        BY <3>1
    <2>4. CASE t \in unknown \cup expired
      BY <2>1, <2>2, <2>4, <1>6, <1>11, <1>12, NullsAssumption
         DEF IInv, AttemptsOfLiveJobs, AttemptOutcomes
    <2>5. CASE attempts'[t] = attempts[t]
      BY <2>1, <2>2, <2>5, NullsAssumption DEF IInv, AttemptsOfLiveJobs, AttemptOutcomes
    <2> QED
      BY <2>3, <2>4, <2>5, <1>14, <1>15
  <1> QED
    BY <1>18, <1>19, <1>20, <1>21 DEF IInv

-----------------------------------------------------------------------------
(* Every step is one of these, with the arguments the operations pass.     *)

LEMMA ClaimBatches ==
  ASSUME NEW S \in SUBSET Jobs, NEW key, NEW B \in FirstBatches(S, key)
  PROVE  B \subseteq S
  BY DEF FirstBatches

LEMMA ClaimCases ==
  ASSUME Claim
  PROVE  \E w, duration, dead, taken, tok :
           /\ ClaimArguments(w, duration, dead, taken, tok)
           /\ ClaimRows(w, duration, dead, taken, tok)
  <1> PICK w \in Workers, duration \in LeaseDurations, locked \in SUBSET Jobs :
             ClaimDeliveryJobs(w, duration, locked)
    BY DEF Claim, HeldRows
  <1> DEFINE finals == {j \in Jobs \ locked : FinalLeaseExpired(jobs[j])}
             due == {j \in Jobs \ locked : Claimable(jobs[j])}
             leaseEnd == [j \in Jobs |-> jobs[j].lease_expires_at]
             availableAt == [j \in Jobs |-> jobs[j].available_at]
  <1>1. PICK dead \in FirstBatches(finals, leaseEnd), taken \in FirstBatches(due, availableAt) :
               \E tok \in TokenChoices(taken) : ClaimRows(w, duration, dead, taken, tok)
    BY DEF ClaimDeliveryJobs
  <1>2. dead \subseteq finals /\ taken \subseteq due
    BY <1>1, ClaimBatches
  <1>3. PICK tok \in TokenChoices(taken) : ClaimRows(w, duration, dead, taken, tok)
    BY <1>1
  <1>4. ClaimArguments(w, duration, dead, taken, tok)
    BY <1>2, <1>3 DEF ClaimArguments
  <1> QED
    BY <1>3, <1>4

LEMMA CleanupCases ==
  ASSUME NEW locked \in HeldRows, CleanupTerminalDeliveryJobs(locked)
  PROVE  \E gone \in SUBSET Jobs : (\A j \in gone : RetentionOver(jobs[j])) /\ DeleteJobs(gone)
  <1> DEFINE expired == {j \in Jobs \ locked : RetentionOver(jobs[j])}
             retentionEnd == [j \in Jobs |-> jobs[j].retention_expires_at]
  <1>1. PICK gone \in FirstBatches(expired, retentionEnd) : DeleteJobs(gone)
    BY DEF CleanupTerminalDeliveryJobs
  <1>2. gone \subseteq expired
    BY <1>1, ClaimBatches
  <1> QED
    BY <1>1, <1>2

LEMMA NextKeeps ==
  ASSUME IInv, [Next]_vars
  PROVE  IInv'
  <1>1. ASSUME NEW j \in Jobs, NEW m \in 1..AttemptsCap, NEW delay \in Delays,
               EnqueueDeliveryJob(j, m, delay)
        PROVE  IInv'
    BY <1>1, EnqueueKeeps
  <1>2. CASE Claim
    BY <1>2, ClaimCases, ClaimKeeps
  <1>3. ASSUME NEW t \in Tokens, Issued(t), NEW w \in Workers,
               \/ CompleteDeliveryJob(attempts[t].job, w, t)
               \/ DeadLetterDeliveryJob(attempts[t].job, w, t)
               \/ \E delay \in RetryDelays : RetryDeliveryJob(attempts[t].job, w, t, delay)
        PROVE  IInv'
    <2>1. attempts[t].job \in Jobs
      BY <1>3, JobOfIssued
    <2> QED
      BY <1>3, <2>1, CompleteKeeps, DeadLetterKeeps, RetryKeeps
  <1>4. ASSUME NEW j \in Jobs, NEW m \in 1..AttemptsCap, NEW delay \in Delays,
               ManuallyRequeueDeliveryJob(j, m, delay)
        PROVE  IInv'
    BY <1>4, RequeueKeeps
  <1>5. ASSUME NEW locked \in HeldRows, CleanupTerminalDeliveryJobs(locked)
        PROVE  IInv'
    BY <1>5, CleanupCases, CleanupKeeps
  <1>6. CASE Tick
    BY <1>6, TickKeeps
  <1>7. CASE UNCHANGED vars
    BY <1>7, ToldKeeps DEF vars, IInv, TypeOK
  <1> QED
    BY <1>1, <1>2, <1>3, <1>4, <1>5, <1>6, <1>7 DEF Next, WorkerCall

-----------------------------------------------------------------------------
(* The theorems                                                            *)

\* The inductive invariant holds in every reachable state of every instance.
THEOREM Invariance == Spec => []IInv
  <1>1. Init => IInv
    BY InitIInv
  <1>2. IInv /\ [Next]_vars => IInv'
    BY NextKeeps
  <1> QED
    BY <1>1, <1>2, PTL DEF Spec

\* Rows and answers are well formed, and no transition of the service trips
\* delivery_job_state_check, for any number of jobs, workers and leases.
THEOREM TypeCorrect == Spec => []TypeOK
  <1>1. IInv => TypeOK
    BY DEF IInv
  <1> QED
    BY <1>1, Invariance, PTL

\* Job row and attempt ledger always name one and the same holder of a job.
THEOREM HolderUnique == Spec => []OneHolder
  <1>1. IInv => OneHolder
    BY DEF IInv
  <1> QED
    BY <1>1, Invariance, PTL

\* Claims never exceed max_attempts, and pending jobs always have a claim left.
THEOREM BudgetKept == Spec => []BudgetLeft
  <1>1. IInv => BudgetLeft
    BY DEF IInv
  <1> QED
    BY <1>1, Invariance, PTL

-----------------------------------------------------------------------------
(* Fencing: an action property, from the same invariant.                   *)

\* A holder's answer ends only its own lease, while that lease runs.
LEMMA SettleFenced ==
  ASSUME IInv, NEW j \in Jobs, NEW w \in Workers, NEW t \in Tokens, HoldsLease(j, w, t),
         NEW row, jobs' = [jobs EXCEPT ![j] = row],
         NEW outcome \in {"completed", "retry_scheduled", "dead_lettered_failed"},
         attempts' = [attempts EXCEPT ![t].outcome = outcome]
  PROVE  FencedStep
  <1>1. attempts[t] \in AttemptRow
    BY DEF IInv, TypeOK
  <1>2. attempts'[t].outcome = outcome
    BY <1>1 DEF AttemptRow, IInv, TypeOK
  <1>3. \A k \in Jobs : k # j => jobs'[k] = jobs[k]
    BY DEF IInv, TypeOK
  <1> QED
    BY <1>2, <1>3 DEF FencedStep, HoldsLease

LEMMA ClaimFenced ==
  ASSUME IInv, NEW w, NEW duration, NEW dead, NEW taken, NEW tok,
         ClaimArguments(w, duration, dead, taken, tok),
         ClaimRows(w, duration, dead, taken, tok)
  PROVE  FencedStep
  <1> USE DEF ClaimArguments
  <1> SUFFICES ASSUME NEW j \in Jobs, jobs[j].state = "leased",
                      jobs'[j].state # "leased" \/ jobs'[j].lease_token # jobs[j].lease_token
               PROVE  /\ ~(jobs[j].lease_expires_at > 0)
                      /\ attempts'[jobs[j].lease_token].outcome
                           \in {"lease_expired", "dead_lettered_unknown"}
    BY DEF FencedStep
  <1>1. j \in dead \/ j \in taken
    BY DEF ClaimRows
  <1>2. LeaseExpired(jobs[j])
    BY <1>1 DEF FinalLeaseExpired, Claimable, LeaseExpired
  <1>3. jobs[j].lease_expires_at \in Int /\ jobs[j].lease_token \in Tokens
    BY DEF IInv, TypeOK, JobRow, StateCheck
  <1>4. \/ jobs[j].lease_token \in {jobs[k].lease_token : k \in dead}
        \/ jobs[j].lease_token \in {jobs[k].lease_token : k \in {i \in taken : jobs[i].state = "leased"}}
    BY <1>1
  <1>5. attempts[jobs[j].lease_token] \in AttemptRow
    BY <1>3 DEF IInv, TypeOK
  <1>6. attempts'[jobs[j].lease_token].outcome \in {"lease_expired", "dead_lettered_unknown"}
    BY <1>3, <1>4, <1>5 DEF ClaimRows, AttemptRow
  <1> QED
    BY <1>2, <1>3, <1>6 DEF LeaseExpired

\* A step that leaves leased rows leased under the same token is fenced.
LEMMA QuietFenced ==
  ASSUME \A j \in Jobs : jobs[j].state = "leased" =>
           jobs'[j].state = "leased" /\ jobs'[j].lease_token = jobs[j].lease_token
  PROVE  FencedStep
  BY DEF FencedStep

LEMMA CallFenced ==
  ASSUME IInv, NEW j \in Jobs, NEW w \in Workers, NEW t \in Tokens,
         \/ CompleteDeliveryJob(j, w, t)
         \/ DeadLetterDeliveryJob(j, w, t)
         \/ \E delay \in RetryDelays : RetryDeliveryJob(j, w, t, delay)
  PROVE  FencedStep
  <1>1. CASE UNCHANGED <<jobs, attempts>>
    BY <1>1, QuietFenced
  <1>2. CASE CompleteDeliveryJob(j, w, t) /\ ~UNCHANGED <<jobs, attempts>>
    <2>1. HoldsLease(j, w, t)
      BY <1>2 DEF CompleteDeliveryJob, RefuseOrRepeat
    <2> QED
      BY <1>2, <2>1, SettleFenced DEF CompleteDeliveryJob, CloseAttempt
  <1>3. CASE DeadLetterDeliveryJob(j, w, t) /\ ~UNCHANGED <<jobs, attempts>>
    <2>1. HoldsLease(j, w, t)
      BY <1>3 DEF DeadLetterDeliveryJob, RefuseOrRepeat
    <2> QED
      BY <1>3, <2>1, SettleFenced DEF DeadLetterDeliveryJob, CloseAttempt
  <1>4. ASSUME NEW delay \in RetryDelays, RetryDeliveryJob(j, w, t, delay),
               ~UNCHANGED <<jobs, attempts>>
        PROVE  FencedStep
    <2>1. /\ HoldsLease(j, w, t)
          /\ \E row : jobs' = [jobs EXCEPT ![j] = row]
          /\ \E outcome \in {"retry_scheduled", "dead_lettered_failed"} :
               attempts' = [attempts EXCEPT ![t].outcome = outcome]
      BY <1>4 DEF RetryDeliveryJob, RefuseOrRepeat, CloseAttempt
    <2> QED
      BY <2>1, SettleFenced
  <1> QED
    BY <1>1, <1>2, <1>3, <1>4

LEMMA NextFenced ==
  ASSUME IInv, Next
  PROVE  FencedStep
  <1>1. ASSUME NEW j \in Jobs, NEW m \in 1..AttemptsCap, NEW delay \in Delays,
               EnqueueDeliveryJob(j, m, delay)
        PROVE  FencedStep
    BY <1>1, QuietFenced DEF EnqueueDeliveryJob, IInv, TypeOK
  <1>2. CASE Claim
    BY <1>2, ClaimCases, ClaimFenced
  <1>3. ASSUME NEW t \in Tokens, Issued(t), NEW w \in Workers,
               \/ CompleteDeliveryJob(attempts[t].job, w, t)
               \/ DeadLetterDeliveryJob(attempts[t].job, w, t)
               \/ \E delay \in RetryDelays : RetryDeliveryJob(attempts[t].job, w, t, delay)
        PROVE  FencedStep
    BY <1>3, JobOfIssued, CallFenced
  <1>4. ASSUME NEW j \in Jobs, NEW m \in 1..AttemptsCap, NEW delay \in Delays,
               ManuallyRequeueDeliveryJob(j, m, delay)
        PROVE  FencedStep
    BY <1>4, QuietFenced DEF ManuallyRequeueDeliveryJob, RequeueAllowed, IInv, TypeOK
  <1>5. ASSUME NEW locked \in HeldRows, CleanupTerminalDeliveryJobs(locked)
        PROVE  FencedStep
    <2>1. PICK gone \in SUBSET Jobs : (\A j \in gone : RetentionOver(jobs[j])) /\ DeleteJobs(gone)
      BY <1>5, CleanupCases
    <2> QED
      BY <2>1, QuietFenced DEF DeleteJobs, RetentionOver, Terminal
  <1>6. CASE Tick
    <2>1. \A j \in Jobs : jobs'[j].state = jobs[j].state
                          /\ jobs'[j].lease_token = jobs[j].lease_token
      BY <1>6, OlderRow DEF Tick, IInv, TypeOK
    <2> QED
      BY <2>1, QuietFenced
  <1> QED
    BY <1>1, <1>2, <1>3, <1>4, <1>5, <1>6 DEF Next, WorkerCall

\* No step takes a running lease from its holder except the holder's own answer,
\* and an expired lease ends only as expired: a late worker is fenced off.
THEOREM Fencing == Spec => FencedRelease
  <1>1. IInv /\ [Next]_vars => [FencedStep]_vars
    BY NextFenced
  <1> QED
    BY <1>1, Invariance, PTL DEF Spec, FencedRelease

-----------------------------------------------------------------------------
(* History and answers: what is closed in the ledger stays as it is until  *)
(* its job goes, and what a worker was told is read off the ledger.        *)

\* A step that changes open attempts and unused tokens only.
ClosedKept ==
  \A t \in Tokens : attempts[t].outcome \notin {"unissued", "leased"} => attempts'[t] = attempts[t]

\* A claim writes to unused tokens and to the open attempts of expired leases.
LEMMA ClaimKeepsClosed ==
  ASSUME IInv, NEW w, NEW duration, NEW dead, NEW taken, NEW tok,
         ClaimArguments(w, duration, dead, taken, tok),
         ClaimRows(w, duration, dead, taken, tok)
  PROVE  ClosedKept
  <1> DEFINE expired == {jobs[j].lease_token : j \in {k \in taken : jobs[k].state = "leased"}}
             unknown == {jobs[j].lease_token : j \in dead}
  <1> SUFFICES ASSUME NEW t \in Tokens, attempts[t].outcome \notin {"unissued", "leased"}
               PROVE  attempts'[t] = attempts[t]
    BY DEF ClosedKept
  <1>1. ASSUME NEW j \in dead \cup taken, jobs[j].state = "leased"
        PROVE  jobs[j].lease_token # t
    BY <1>1 DEF ClaimArguments, IInv, OneHolder, AttemptOpen
  <1>2. \A j \in dead : jobs[j].state = "leased"
    BY DEF ClaimArguments, FinalLeaseExpired, LeaseExpired
  <1>3. t \notin expired /\ t \notin unknown
    BY <1>1, <1>2
  <1>4. \A j \in taken : tok[j] # t
    BY DEF ClaimArguments, TokenChoices, FreshTokens, Issued
  <1> QED
    BY <1>3, <1>4 DEF ClaimRows

\* Only the holder's call writes, and it writes to the open attempt it holds.
LEMMA CallKeepsClosed ==
  ASSUME IInv, NEW j \in Jobs, NEW w \in Workers, NEW t \in Tokens,
         \/ CompleteDeliveryJob(j, w, t)
         \/ DeadLetterDeliveryJob(j, w, t)
         \/ \E delay \in RetryDelays : RetryDeliveryJob(j, w, t, delay)
  PROVE  ClosedKept
  <1>1. CASE attempts' = attempts
    BY <1>1 DEF ClosedKept
  <1>2. CASE attempts' # attempts
    <2>1. HoldsLease(j, w, t) /\ \E outcome : CloseAttempt(t, outcome)
      BY <1>2 DEF CompleteDeliveryJob, DeadLetterDeliveryJob, RetryDeliveryJob, RefuseOrRepeat
    <2>2. attempts[t].outcome = "leased"
      BY <2>1 DEF HoldsLease, IInv, OneHolder, AttemptOpen
    <2>3. \A u \in Tokens : u # t => attempts'[u] = attempts[u]
      BY <2>1 DEF CloseAttempt, IInv, TypeOK
    <2> QED
      BY <2>2, <2>3 DEF ClosedKept
  <1> QED
    BY <1>1, <1>2

\* Every step keeps what is closed, but for the cleanup of jobs past retention.
LEMMA NextKeepsClosed ==
  ASSUME IInv, Next
  PROVE  \/ ClosedKept
         \/ \E gone \in SUBSET Jobs : (\A j \in gone : RetentionOver(jobs[j])) /\ DeleteJobs(gone)
  <1>1. CASE attempts' = attempts
    BY <1>1 DEF ClosedKept
  <1>2. CASE Claim
    BY <1>2, ClaimCases, ClaimKeepsClosed
  <1>3. ASSUME NEW t \in Tokens, Issued(t), NEW w \in Workers,
               \/ CompleteDeliveryJob(attempts[t].job, w, t)
               \/ DeadLetterDeliveryJob(attempts[t].job, w, t)
               \/ \E delay \in RetryDelays : RetryDeliveryJob(attempts[t].job, w, t, delay)
        PROVE  ClosedKept
    BY <1>3, JobOfIssued, CallKeepsClosed
  <1>4. ASSUME NEW locked \in HeldRows, CleanupTerminalDeliveryJobs(locked)
        PROVE  \E gone \in SUBSET Jobs :
                 (\A j \in gone : RetentionOver(jobs[j])) /\ DeleteJobs(gone)
    BY <1>4, CleanupCases
  <1> QED
    BY <1>1, <1>2, <1>3, <1>4
       DEF Next, WorkerCall, EnqueueDeliveryJob, ManuallyRequeueDeliveryJob, Tick

\* What the cleanup does to the attempts.
LEMMA DeletedAttempts ==
  ASSUME IInv, NEW gone \in SUBSET Jobs, DeleteJobs(gone), NEW t \in Tokens
  PROVE  IF attempts[t].job \in gone THEN attempts'[t].outcome = "deleted"
         ELSE attempts'[t] = attempts[t]
  <1>1. attempts[t] \in AttemptRow
    BY DEF IInv, TypeOK
  <1> QED
    BY <1>1 DEF DeleteJobs, AttemptRow

LEMMA NextHistory ==
  ASSUME IInv, Next
  PROVE  HistoryStep
  <1>1. CASE ClosedKept
    BY <1>1 DEF HistoryStep, ClosedKept, AttemptOutcomes
  <1>2. ASSUME NEW gone \in SUBSET Jobs, \A j \in gone : RetentionOver(jobs[j]), DeleteJobs(gone)
        PROVE  HistoryStep
    <2> SUFFICES ASSUME NEW t \in Tokens, attempts'[t] # attempts[t]
                 PROVE  /\ attempts'[t].outcome = "deleted"
                        /\ jobs[attempts[t].job].state \in Terminal
                        /\ jobs[attempts[t].job].retention_expires_at <= 0
                        /\ audits'[attempts[t].job] = <<>>
                        /\ jobs'[attempts[t].job].state = "deleted"
      BY DEF HistoryStep
    <2>1. attempts[t].job \in gone /\ attempts'[t].outcome = "deleted"
      BY <1>2, DeletedAttempts
    <2>2. jobs'[attempts[t].job] = NoRow("deleted") /\ audits'[attempts[t].job] = <<>>
      BY <1>2, <2>1 DEF DeleteJobs
    <2> QED
      BY <1>2, <2>1, <2>2, EmptyRow DEF RetentionOver
  <1> QED
    BY <1>1, <1>2, NextKeepsClosed

\* A finished attempt is never rewritten: not by a late worker, a reclaim, a
\* requeue or the cleanup, which takes it only with its job, after retention.
THEOREM HistoryStands == Spec => HistoryKept
  <1>1. IInv /\ [Next]_vars => [HistoryStep]_vars
    BY NextHistory
  <1> QED
    BY <1>1, Invariance, PTL DEF Spec, HistoryKept

\* The answer a the ledger gives for an attempt with this outcome.
Truthful(a, outcome) ==
  outcome # "deleted" =>
    /\ a = "completed" => outcome = "completed"
    /\ a = "retried" => outcome = "retry_scheduled"
    /\ a = "dead_lettered" => outcome = "dead_lettered_failed"
    /\ a # "not_found"

LEMMA AnswersAreTruthful ==
  AnswersMatchLedger <=>
    \A t \in Tokens : \A a \in told[t] : Truthful(a, attempts[t].outcome)
  BY DEF AnswersMatchLedger, Truthful

\* A call is answered from the ledger it leaves behind.
LEMMA CallTruthful ==
  ASSUME IInv, NEW t \in Tokens, Issued(t), NEW w \in Workers,
         \/ CompleteDeliveryJob(attempts[t].job, w, t)
         \/ DeadLetterDeliveryJob(attempts[t].job, w, t)
         \/ \E delay \in RetryDelays : RetryDeliveryJob(attempts[t].job, w, t, delay)
  PROVE  \E a : Answer(t, a) /\ Truthful(a, attempts'[t].outcome)
  <1>1. attempts[t] \in AttemptRow
    BY DEF IInv, TypeOK
  <1>2. \A outcome : CloseAttempt(t, outcome) => attempts'[t].outcome = outcome
    BY <1>1 DEF CloseAttempt, IInv, TypeOK, AttemptRow
  <1>3. ~Exists(attempts[t].job) => attempts[t].outcome = "deleted"
    BY <1>1 DEF Exists, IInv, AttemptsOfLiveJobs, AttemptRow, Issued, Terminal
  <1>4. CASE CompleteDeliveryJob(attempts[t].job, w, t)
    BY <1>2, <1>3, <1>4 DEF CompleteDeliveryJob, RefuseOrRepeat, Recorded, Truthful
  <1>5. CASE DeadLetterDeliveryJob(attempts[t].job, w, t)
    BY <1>2, <1>3, <1>5 DEF DeadLetterDeliveryJob, RefuseOrRepeat, Recorded, Truthful
  <1>6. ASSUME NEW delay \in RetryDelays, RetryDeliveryJob(attempts[t].job, w, t, delay)
        PROVE  \E a : Answer(t, a) /\ Truthful(a, attempts'[t].outcome)
    <2> DEFINE Ended(a, outcome) == CloseAttempt(t, outcome) /\ Answer(t, a)
    <2>1. \/ Ended("retried", "retry_scheduled")
          \/ Ended("dead_lettered", "dead_lettered_failed")
          \/ Answer(t, "lease_lost")
          \/ RefuseOrRepeat(attempts[t].job, t, {"retry_scheduled"}, "retried")
          \/ RefuseOrRepeat(attempts[t].job, t, {"dead_lettered_failed"}, "dead_lettered")
      BY <1>6, Zenon DEF RetryDeliveryJob
    <2>2. CASE Ended("retried", "retry_scheduled") \/ Ended("dead_lettered", "dead_lettered_failed")
      BY <1>2, <2>2 DEF Truthful
    <2>3. CASE Answer(t, "lease_lost")
      BY <2>3 DEF Truthful
    <2>4. CASE RefuseOrRepeat(attempts[t].job, t, {"retry_scheduled"}, "retried")
      BY <1>3, <2>4 DEF RefuseOrRepeat, Recorded, Truthful
    <2>5. CASE RefuseOrRepeat(attempts[t].job, t, {"dead_lettered_failed"}, "dead_lettered")
      BY <1>3, <2>5 DEF RefuseOrRepeat, Recorded, Truthful
    <2> QED
      BY <2>1, <2>2, <2>3, <2>4, <2>5
  <1> QED
    BY <1>4, <1>5, <1>6

LEMMA NextTruthful ==
  ASSUME IInv, AnswersMatchLedger, [Next]_vars
  PROVE  AnswersMatchLedger'
  <1> SUFFICES ASSUME NEW t \in Tokens, NEW a \in told'[t]
               PROVE  Truthful(a, attempts'[t].outcome)
    BY DEF AnswersMatchLedger, Truthful
  <1>1. ASSUME a \in told[t]
        PROVE  Truthful(a, attempts'[t].outcome)
    <2>1. Truthful(a, attempts[t].outcome)
      BY <1>1, AnswersAreTruthful
    <2>2. CASE attempts[t].outcome \notin {"unissued", "leased"} /\ Next
      <3>1. CASE ClosedKept
        BY <2>1, <2>2, <3>1 DEF ClosedKept
      <3>2. CASE \E gone \in SUBSET Jobs : DeleteJobs(gone)
        BY <2>1, <3>2, DeletedAttempts DEF Truthful
      <3> QED
        BY <2>2, <3>1, <3>2, NextKeepsClosed
    <2>3. CASE attempts[t].outcome \in {"unissued", "leased"}
      BY <2>1, <2>3 DEF Truthful
    <2>4. CASE UNCHANGED vars
      BY <2>1, <2>4 DEF vars
    <2> QED
      BY <2>2, <2>3, <2>4
  <1>2. ASSUME a \notin told[t]
        PROVE  Truthful(a, attempts'[t].outcome)
    <2>1. told' # told
      BY <1>2
    <2>2. WorkerCall
      BY <2>1, ClaimCases, CleanupCases
         DEF Next, vars, EnqueueDeliveryJob, ClaimRows, ManuallyRequeueDeliveryJob,
             DeleteJobs, Tick
    <2>3. PICK u \in Tokens : \E b : Answer(u, b) /\ Truthful(b, attempts'[u].outcome)
      BY <2>2, CallTruthful DEF WorkerCall
    <2>4. PICK b : Answer(u, b) /\ Truthful(b, attempts'[u].outcome)
      BY <2>3
    <2>5. u = t /\ a = b
      BY <1>2, <2>4 DEF Answer, IInv, TypeOK
    <2> QED
      BY <2>4, <2>5
  <1> QED
    BY <1>1, <1>2

\* No worker is ever told a success the ledger does not hold, nor two different
\* ones for one lease, nor that its job is gone while its attempt is there.
THEOREM AnswersTrue == Spec => []AnswersMatchLedger
  <1>1. Init => AnswersMatchLedger
    BY DEF Init, AnswersMatchLedger
  <1>2. IInv /\ AnswersMatchLedger /\ [Next]_vars => AnswersMatchLedger'
    BY NextTruthful
  <1> QED
    BY <1>1, <1>2, Invariance, PTL DEF Spec

-----------------------------------------------------------------------------
(* The ledger of attempts is whole.  What LedgerConsistent says of one job *)
(* is stated of a row and of attempts, so that a lemma can compare two.    *)

EndingsOf(row) ==
  IF row.state = "leased" THEN {"leased"}
  ELSE IF row.state = "completed" THEN {"completed"}
  ELSE IF row.state = "dead_letter"
       THEN IF row.reason = "lease_expired_after_final_claim"
            THEN {"dead_lettered_unknown"} ELSE {"dead_lettered_failed"}
  ELSE {"retry_scheduled", "dead_lettered_failed", "dead_lettered_unknown"}

Mine(att, j) == {t \in Tokens : att[t].job = j /\ att[t].outcome \in AttemptOutcomes}

Ledger(row, att, j) ==
  /\ \A t \in Mine(att, j) : att[t].number \in 1..row.attempt_count
  /\ \A n \in 1..row.attempt_count : \E t \in Mine(att, j) : att[t].number = n
  /\ \A t, u \in Mine(att, j) : att[t].number = att[u].number => t = u
  /\ \A t \in Mine(att, j) : att[t].number = row.attempt_count => att[t].outcome \in EndingsOf(row)
  /\ \A t \in Mine(att, j) : att[t].outcome = "completed" =>
       row.state = "completed" /\ att[t].number = row.attempt_count

LEMMA LedgerOfEachJob ==
  LedgerConsistent <=> \A j \in Jobs : Exists(j) => Ledger(jobs[j], attempts, j)
  <1>1. \A j \in Jobs : Endings(j) = EndingsOf(jobs[j]) /\ AttemptsOf(j) = Mine(attempts, j)
    BY DEF Endings, EndingsOf, AttemptsOf, Mine
  <1> QED
    BY <1>1 DEF LedgerConsistent, AttemptsContiguous, LedgerExplainsState, LastAttempts, Ledger

\* Steps that leave a job's attempts alone and its row telling the same of them.
LEMMA LedgerSame ==
  ASSUME NEW row, NEW new, NEW att, NEW next, NEW j, Ledger(row, att, j),
         new.attempt_count = row.attempt_count,
         EndingsOf(row) \subseteq EndingsOf(new),
         row.state = "completed" => new.state = "completed",
         \A t \in Tokens : att[t].job = j \/ next[t].job = j => next[t] = att[t]
  PROVE  Ledger(new, next, j)
  <1>1. Mine(next, j) = Mine(att, j) /\ \A t \in Mine(att, j) : next[t] = att[t]
    BY DEF Mine
  <1> QED
    BY <1>1 DEF Ledger

\* The end of a lease: its attempt, the last of the job, gets its outcome.
LEMMA LedgerSettled ==
  ASSUME NEW row, NEW new, NEW att, NEW next, NEW j, NEW t \in Tokens, Ledger(row, att, j),
         row.state = "leased", new.attempt_count = row.attempt_count,
         att[t].job = j, att[t].outcome = "leased", att[t].number = row.attempt_count,
         next[t].job = j, next[t].number = att[t].number,
         next[t].outcome \in EndingsOf(new) \cap AttemptOutcomes,
         next[t].outcome = "completed" => new.state = "completed",
         \A u \in Tokens : u # t /\ (att[u].job = j \/ next[u].job = j) => next[u] = att[u]
  PROVE  Ledger(new, next, j)
  <1>1. t \in Mine(att, j) /\ Mine(next, j) = Mine(att, j)
    BY DEF Mine, AttemptOutcomes
  <1>2. \A u \in Mine(att, j) : next[u].number = att[u].number /\ (u # t => next[u] = att[u])
    BY DEF Mine
  <1>3. \A u \in Mine(att, j) : att[u].number = row.attempt_count => u = t
    BY <1>1 DEF Ledger
  <1>4. \A u \in Mine(att, j) : att[u].outcome # "completed"
    BY DEF Ledger
  <1> QED
    BY <1>1, <1>2, <1>3, <1>4 DEF Ledger

\* A claim: the next number goes to a new attempt, and the attempts before it
\* keep theirs, the one whose lease expired among them.
LEMMA LedgerTaken ==
  ASSUME NEW row, NEW new, NEW att, NEW next, NEW j, NEW t \in Tokens, Ledger(row, att, j),
         row.state \in {"pending", "leased"}, row.attempt_count \in Nat,
         new.state = "leased", new.attempt_count = row.attempt_count + 1,
         att[t].outcome = "unissued",
         next[t].job = j, next[t].outcome = "leased", next[t].number = row.attempt_count + 1,
         \A u \in Tokens : u # t /\ (att[u].job = j \/ next[u].job = j) =>
           /\ next[u].job = j /\ att[u].job = j /\ next[u].number = att[u].number
           /\ \/ next[u] = att[u]
              \/ att[u].outcome = "leased" /\ next[u].outcome = "lease_expired"
  PROVE  Ledger(new, next, j)
  <1>1. t \notin Mine(att, j) /\ Mine(next, j) = Mine(att, j) \cup {t}
    BY DEF Mine, AttemptOutcomes
  <1>2. \A u \in Mine(att, j) : /\ next[u].number = att[u].number
                                /\ next[u].number \in 1..row.attempt_count
    BY <1>1 DEF Mine, Ledger
  <1>3. \A u \in Mine(att, j) : next[u].outcome # "completed"
    BY <1>1 DEF Mine, Ledger
  <1>4. \A n \in 1..new.attempt_count : n \in 1..row.attempt_count \/ n = row.attempt_count + 1
    OBVIOUS
  <1>5. \A n \in 1..row.attempt_count : n \in 1..new.attempt_count /\ n # new.attempt_count
    OBVIOUS
  <1>6. new.attempt_count \in 1..new.attempt_count
    OBVIOUS
  <1>7. \A u \in Mine(next, j) : next[u].number \in 1..new.attempt_count
    BY <1>1, <1>2, <1>5, <1>6
  <1>8. \A n \in 1..new.attempt_count : \E u \in Mine(next, j) : next[u].number = n
    BY <1>1, <1>2, <1>4 DEF Ledger
  <1>9. \A u, v \in Mine(next, j) : next[u].number = next[v].number => u = v
    BY <1>1, <1>2, <1>5 DEF Ledger
  <1>10. \A u \in Mine(next, j) : next[u].number = new.attempt_count => next[u].outcome = "leased"
    BY <1>1, <1>2, <1>5
  <1>11. \A u \in Mine(next, j) : next[u].outcome # "completed"
    BY <1>1, <1>3
  <1> QED
    BY <1>7, <1>8, <1>9, <1>10, <1>11 DEF Ledger, EndingsOf

\* What a step makes of an attempt: its outcome, or a new attempt of job j.
Ended(t, outcome) ==
  /\ attempts'[t].outcome = outcome
  /\ attempts'[t].job = attempts[t].job /\ attempts'[t].number = attempts[t].number
Drawn(t, j) ==
  /\ attempts'[t].outcome = "leased"
  /\ attempts'[t].job = j /\ attempts'[t].number = jobs[j].attempt_count + 1

\* What a claim does to the attempts: to those of the leases that ran out, and
\* to the tokens it draws.
LEMMA ClaimedAttempts ==
  ASSUME IInv, NEW w, NEW duration, NEW dead, NEW taken, NEW tok,
         ClaimArguments(w, duration, dead, taken, tok),
         ClaimRows(w, duration, dead, taken, tok), NEW t \in Tokens
  PROVE  \/ \E j \in dead : jobs[j].lease_token = t /\ Ended(t, "dead_lettered_unknown")
         \/ \E j \in taken : /\ jobs[j].state = "leased" /\ jobs[j].lease_token = t
                             /\ Ended(t, "lease_expired")
         \/ \E j \in taken : tok[j] = t /\ Drawn(t, j)
         \/ /\ \A j \in dead : jobs[j].lease_token # t
            /\ \A j \in taken : jobs[j].state = "leased" => jobs[j].lease_token # t
            /\ \A j \in taken : tok[j] # t
            /\ attempts'[t] = attempts[t]
  <1> DEFINE expired == {jobs[j].lease_token : j \in {k \in taken : jobs[k].state = "leased"}}
             unknown == {jobs[j].lease_token : j \in dead}
  <1>0. attempts[t] \in AttemptRow
    BY DEF IInv, TypeOK
  <1>1. CASE t \in unknown
    BY <1>0, <1>1 DEF ClaimRows, Ended, AttemptRow
  <1>2. CASE t \notin unknown /\ t \in expired
    BY <1>0, <1>2 DEF ClaimRows, Ended, AttemptRow
  <1>3. CASE t \notin unknown /\ t \notin expired /\ \E j \in taken : tok[j] = t
    <2>1. PICK j \in taken : tok[j] = t
      BY <1>3
    <2>2. (CHOOSE k \in taken : tok[k] = t) = j
      BY <2>1 DEF ClaimArguments, TokenChoices
    <2>3. attempts'[t] = [outcome |-> "leased", job |-> j,
                          number |-> jobs[j].attempt_count + 1, owner |-> w]
      BY <1>3, <2>1, <2>2 DEF ClaimRows
    <2> QED
      BY <2>1, <2>3 DEF Drawn
  <1>4. CASE t \notin unknown /\ t \notin expired /\ \A j \in taken : tok[j] # t
    BY <1>4 DEF ClaimRows
  <1> QED
    BY <1>1, <1>2, <1>3, <1>4

\* The open attempt of a leased job is its last one.
LEMMA LeasedAttempt ==
  ASSUME IInv, NEW j \in Jobs, jobs[j].state = "leased"
  PROVE  LET t == jobs[j].lease_token
         IN /\ t \in Tokens /\ attempts[t] \in AttemptRow
            /\ attempts[t].job = j /\ attempts[t].outcome = "leased"
            /\ attempts[t].number = jobs[j].attempt_count
  <1>1. jobs[j].lease_token \in Tokens
    BY DEF IInv, TypeOK, StateCheck, JobRow
  <1> QED
    BY <1>1 DEF IInv, TypeOK, OneHolder, AttemptOpen

LEMMA LedgerOfEachJobNext ==
  ASSUME \A j \in Jobs : jobs'[j].state \notin {"absent", "deleted"} => Ledger(jobs'[j], attempts', j)
  PROVE  LedgerConsistent'
  <1>1. \A j \in Jobs : Endings(j)' = EndingsOf(jobs'[j]) /\ AttemptsOf(j)' = Mine(attempts', j)
    BY DEF Endings, EndingsOf, AttemptsOf, Mine
  <1>2. \A j \in Jobs : Exists(j)' <=> jobs'[j].state \notin {"absent", "deleted"}
    BY DEF Exists
  <1> QED
    BY <1>1, <1>2 DEF LedgerConsistent, AttemptsContiguous, LedgerExplainsState, LastAttempts, Ledger

LEMMA ClaimLedger ==
  ASSUME IInv, LedgerConsistent, NEW w, NEW duration, NEW dead, NEW taken, NEW tok,
         ClaimArguments(w, duration, dead, taken, tok),
         ClaimRows(w, duration, dead, taken, tok)
  PROVE  LedgerConsistent'
  <1> SUFFICES ASSUME NEW j \in Jobs, jobs'[j].state \notin {"absent", "deleted"}
               PROVE  Ledger(jobs'[j], attempts', j)
    BY LedgerOfEachJobNext
  <1>1. jobs[j] \in JobRow /\ StateCheck(jobs[j]) /\ j # NoJob
    BY NullsAssumption DEF IInv, TypeOK
  <1>2. /\ dead \subseteq Jobs /\ taken \subseteq Jobs /\ w \in Workers /\ duration \in LeaseDurations
        /\ \A k \in dead : /\ jobs[k].state = "leased"
                           /\ jobs[k].attempt_count >= jobs[k].max_attempts
        /\ \A k \in taken : /\ jobs[k].state \in {"pending", "leased"}
                            /\ jobs[k].attempt_count < jobs[k].max_attempts
    BY DEF ClaimArguments, FinalLeaseExpired, LeaseExpired, Claimable
  <1>3. \A k \in taken : tok[k] \in Tokens /\ attempts[tok[k]].outcome = "unissued"
                         /\ attempts[tok[k]].job = NoJob
    BY DEF ClaimArguments, TokenChoices, FreshTokens, Issued, IInv, AttemptsOfLiveJobs
  <1>4. \A k \in Jobs : jobs[k].state = "leased" =>
          /\ jobs[k].lease_token \in Tokens
          /\ attempts[jobs[k].lease_token].job = k
          /\ attempts[jobs[k].lease_token].outcome = "leased"
          /\ attempts[jobs[k].lease_token].number = jobs[k].attempt_count
    BY LeasedAttempt
  <1>5. ~(j \in dead /\ j \in taken)
    BY <1>1, <1>2 DEF JobRow
  \* What happens to an attempt of j, before or after the step.
  <1>6. ASSUME NEW u \in Tokens, attempts[u].job = j \/ attempts'[u].job = j
        PROVE  \/ j \in dead /\ jobs[j].lease_token = u /\ Ended(u, "dead_lettered_unknown")
               \/ /\ j \in taken /\ jobs[j].state = "leased" /\ jobs[j].lease_token = u
                  /\ Ended(u, "lease_expired")
               \/ j \in taken /\ tok[j] = u /\ Drawn(u, j)
               \/ /\ attempts'[u] = attempts[u]
                  /\ j \in dead => jobs[j].lease_token # u
                  /\ j \in taken => tok[j] # u
    <2>1. ASSUME NEW k \in dead, jobs[k].lease_token = u, Ended(u, "dead_lettered_unknown")
          PROVE  k = j
      BY <1>2, <1>4, <1>6, <2>1 DEF Ended
    <2>2. ASSUME NEW k \in taken, jobs[k].state = "leased", jobs[k].lease_token = u,
                 Ended(u, "lease_expired")
          PROVE  k = j
      BY <1>2, <1>4, <1>6, <2>2 DEF Ended
    <2>3. ASSUME NEW k \in taken, tok[k] = u, Drawn(u, k)
          PROVE  k = j
      BY <1>1, <1>3, <1>6, <2>3 DEF Drawn
    <2> QED
      BY <2>1, <2>2, <2>3, ClaimedAttempts
  <1>7. CASE j \in dead
    <2> DEFINE t == jobs[j].lease_token
    <2>1. jobs'[j] = DeadLettered(jobs[j], "lease_expired_after_final_claim")
      BY <1>7 DEF ClaimRows
    <2>2. /\ jobs'[j].state = "dead_letter" /\ jobs'[j].reason = "lease_expired_after_final_claim"
          /\ jobs'[j].attempt_count = jobs[j].attempt_count
      BY <1>1, <2>1, DeadLetteredRow DEF Reasons
    <2>3. /\ t \in Tokens /\ attempts[t].job = j /\ attempts[t].outcome = "leased"
          /\ attempts[t].number = jobs[j].attempt_count /\ jobs[j].state = "leased"
      BY <1>2, <1>4, <1>7
    <2>4. Ended(t, "dead_lettered_unknown")
      BY <1>5, <1>6, <1>7, <2>3
    <2>5. ASSUME NEW u \in Tokens, u # t, attempts[u].job = j \/ attempts'[u].job = j
          PROVE  attempts'[u] = attempts[u]
      BY <1>5, <1>6, <1>7, <2>5
    <2>6. Ledger(jobs[j], attempts, j)
      BY <2>3, LedgerOfEachJob DEF Exists
    <2>7. /\ attempts'[t].outcome \in EndingsOf(jobs'[j]) \cap AttemptOutcomes
          /\ attempts'[t].outcome # "completed"
          /\ attempts'[t].job = j /\ attempts'[t].number = attempts[t].number
      BY <2>2, <2>3, <2>4 DEF EndingsOf, AttemptOutcomes, Ended
    <2> HIDE DEF t
    <2> QED
      BY <2>2, <2>3, <2>5, <2>6, <2>7, LedgerSettled
  <1>8. CASE j \in taken
    <2> DEFINE t == tok[j]
    <2>1. jobs'[j] = Leased(jobs[j], w, t, duration)
      BY <1>5, <1>8 DEF ClaimRows
    <2>2. t \in Tokens /\ attempts[t].outcome = "unissued" /\ jobs[j].attempt_count \in Nat
      BY <1>1, <1>3, <1>8 DEF JobRow
    <2>3. jobs'[j].state = "leased" /\ jobs'[j].attempt_count = jobs[j].attempt_count + 1
      BY <1>1, <1>2, <1>8, <2>1, <2>2, LeasedRow
    <2>4. Drawn(t, j)
      <3>1. \/ \E k \in taken : tok[k] = t /\ Drawn(t, k)
            \/ \E k \in dead \cup taken : jobs[k].state = "leased" /\ jobs[k].lease_token = t
        BY <1>2, <1>8, <2>2, ClaimedAttempts
      <3>2. ~\E k \in dead \cup taken : jobs[k].state = "leased" /\ jobs[k].lease_token = t
        BY <1>2, <1>4, <2>2
      <3>3. \A k \in taken : tok[k] = t => k = j
        BY <1>8 DEF ClaimArguments, TokenChoices
      <3> QED
        BY <3>1, <3>2, <3>3
    <2>5. /\ attempts'[t].job = j /\ attempts'[t].outcome = "leased"
          /\ attempts'[t].number = jobs[j].attempt_count + 1
      BY <2>4 DEF Drawn
    <2>6. ASSUME NEW u \in Tokens, u # t, attempts[u].job = j \/ attempts'[u].job = j
          PROVE  /\ attempts'[u].job = j /\ attempts[u].job = j
                 /\ attempts'[u].number = attempts[u].number
                 /\ \/ attempts'[u] = attempts[u]
                    \/ attempts[u].outcome = "leased" /\ attempts'[u].outcome = "lease_expired"
      <3>1. CASE attempts'[u] = attempts[u]
        BY <2>6, <3>1
      <3>2. CASE /\ jobs[j].state = "leased" /\ jobs[j].lease_token = u
                 /\ Ended(u, "lease_expired")
        BY <1>4, <3>2 DEF Ended
      <3> QED
        BY <1>5, <1>6, <1>8, <2>6, <3>1, <3>2
    <2>7. Ledger(jobs[j], attempts, j) /\ jobs[j].state \in {"pending", "leased"}
      BY <1>2, <1>8, LedgerOfEachJob DEF Exists
    <2> HIDE DEF t
    <2> QED
      BY <2>2, <2>3, <2>5, <2>6, <2>7, LedgerTaken
  <1>9. CASE j \notin dead /\ j \notin taken
    <2>1. jobs'[j] = jobs[j]
      BY <1>9 DEF ClaimRows
    <2>2. Ledger(jobs[j], attempts, j)
      BY <2>1, LedgerOfEachJob DEF Exists
    <2> QED
      BY <1>6, <1>9, <2>1, <2>2, LedgerSame
  <1> QED
    BY <1>7, <1>8, <1>9

\* Steps that write no attempt, and no row so that its attempts tell otherwise.
LEMMA QuietLedger ==
  ASSUME LedgerConsistent, attempts' = attempts,
         \A j \in Jobs : \/ jobs'[j].state \in {"absent", "deleted"}
                         \/ /\ Exists(j) /\ jobs'[j].attempt_count = jobs[j].attempt_count
                            /\ EndingsOf(jobs[j]) \subseteq EndingsOf(jobs'[j])
                            /\ jobs[j].state = "completed" => jobs'[j].state = "completed"
  PROVE  LedgerConsistent'
  <1> SUFFICES ASSUME NEW j \in Jobs, jobs'[j].state \notin {"absent", "deleted"}
               PROVE  Ledger(jobs'[j], attempts', j)
    BY LedgerOfEachJobNext
  <1>1. Ledger(jobs[j], attempts, j)
    BY LedgerOfEachJob
  <1> QED
    BY <1>1, LedgerSame

\* A new job has no attempts.
LEMMA EnqueueLedger ==
  ASSUME IInv, LedgerConsistent, NEW j \in Jobs, NEW m, NEW delay,
         EnqueueDeliveryJob(j, m, delay)
  PROVE  LedgerConsistent'
  <1> SUFFICES ASSUME NEW k \in Jobs, jobs'[k].state \notin {"absent", "deleted"}
               PROVE  Ledger(jobs'[k], attempts', k)
    BY LedgerOfEachJobNext
  <1>1. CASE k = j
    <2>1. Mine(attempts', j) = {}
      BY DEF EnqueueDeliveryJob, Mine, IInv, AttemptsOfLiveJobs, Terminal
    <2>2. jobs'[j].attempt_count = 0
      BY DEF EnqueueDeliveryJob, IInv, TypeOK, NoRow
    <2>3. 1..0 = {}
      OBVIOUS
    <2>4. Ledger(jobs'[j], attempts', j)
      BY <2>1, <2>2, <2>3 DEF Ledger
    <2> QED
      BY <1>1, <2>4
  <1>2. CASE k # j
    <2>1. jobs'[k] = jobs[k] /\ attempts' = attempts
      BY <1>2 DEF EnqueueDeliveryJob, IInv, TypeOK
    <2>2. Ledger(jobs[k], attempts, k)
      BY <2>1, LedgerOfEachJob DEF Exists
    <2> QED
      BY <2>1, <2>2, LedgerSame
  <1> QED
    BY <1>1, <1>2

\* A lease of job j ends, and nothing happens to the other jobs.
LEMMA EndLedger ==
  ASSUME IInv, LedgerConsistent, NEW j \in Jobs, jobs[j].state = "leased",
         NEW t \in Tokens, jobs[j].lease_token = t,
         jobs'[j].attempt_count = jobs[j].attempt_count,
         \A k \in Jobs : k # j => jobs'[k] = jobs[k],
         Ended(t, attempts'[t].outcome),
         attempts'[t].outcome \in EndingsOf(jobs'[j]) \cap AttemptOutcomes,
         attempts'[t].outcome = "completed" => jobs'[j].state = "completed",
         \A u \in Tokens : u # t => attempts'[u] = attempts[u]
  PROVE  LedgerConsistent'
  <1> SUFFICES ASSUME NEW k \in Jobs, jobs'[k].state \notin {"absent", "deleted"}
               PROVE  Ledger(jobs'[k], attempts', k)
    BY LedgerOfEachJobNext
  <1>1. /\ attempts[t].job = j /\ attempts[t].outcome = "leased"
        /\ attempts[t].number = jobs[j].attempt_count
    BY LeasedAttempt
  <1>2. CASE k = j
    <2>1. Ledger(jobs[j], attempts, j)
      BY LedgerOfEachJob DEF Exists
    <2>2. attempts'[t].job = j /\ attempts'[t].number = attempts[t].number
      BY <1>1 DEF Ended
    <2>3. Ledger(jobs'[j], attempts', j)
      BY <1>1, <2>1, <2>2, LedgerSettled
    <2> QED
      BY <1>2, <2>3
  <1>3. CASE k # j
    <2>1. jobs'[k] = jobs[k]
      BY <1>3
    <2>2. Ledger(jobs[k], attempts, k)
      BY <2>1, LedgerOfEachJob DEF Exists
    <2>3. \A u \in Tokens : attempts[u].job = k \/ attempts'[u].job = k => attempts'[u] = attempts[u]
      BY <1>1, <1>3 DEF Ended
    <2> QED
      BY <2>1, <2>2, <2>3, LedgerSame
  <1> QED
    BY <1>2, <1>3

LEMMA SettleLedger ==
  ASSUME IInv, LedgerConsistent, NEW j \in Jobs, NEW w \in Workers, NEW t \in Tokens,
         HoldsLease(j, w, t), NEW row, row.attempt_count = jobs[j].attempt_count,
         NEW outcome \in EndingsOf(row) \cap AttemptOutcomes,
         outcome = "completed" => row.state = "completed",
         jobs' = [jobs EXCEPT ![j] = row], attempts' = [attempts EXCEPT ![t].outcome = outcome]
  PROVE  LedgerConsistent'
  <1>1. /\ jobs[j].state = "leased" /\ jobs[j].lease_token = t
        /\ jobs'[j] = row /\ \A k \in Jobs : k # j => jobs'[k] = jobs[k]
    BY DEF HoldsLease, IInv, TypeOK
  <1>2. attempts[t] \in AttemptRow
    BY DEF IInv, TypeOK
  <1>3. /\ attempts'[t].outcome = outcome /\ Ended(t, outcome)
        /\ \A u \in Tokens : u # t => attempts'[u] = attempts[u]
    BY <1>2 DEF IInv, TypeOK, AttemptRow, Ended
  <1>4. /\ jobs'[j].attempt_count = jobs[j].attempt_count
        /\ attempts'[t].outcome \in EndingsOf(jobs'[j]) \cap AttemptOutcomes
        /\ attempts'[t].outcome = "completed" => jobs'[j].state = "completed"
        /\ Ended(t, attempts'[t].outcome)
    BY <1>1, <1>3
  <1> QED
    BY <1>1, <1>3, <1>4, EndLedger

\* A refused or repeated answer changes no table.
LEMMA UnchangedLedger ==
  ASSUME LedgerConsistent, UNCHANGED <<jobs, attempts>>
  PROVE  LedgerConsistent'
  BY DEF LedgerConsistent, AttemptsContiguous, LedgerExplainsState, LastAttempts,
         AttemptsOf, Endings, Exists

LEMMA CompleteLedger ==
  ASSUME IInv, LedgerConsistent, NEW j \in Jobs, NEW w \in Workers, NEW t \in Tokens,
         CompleteDeliveryJob(j, w, t)
  PROVE  LedgerConsistent'
  <1> DEFINE row == [Unleased(jobs[j]) EXCEPT !.state = "completed",
                                              !.retention_expires_at = Retention]
  <1>1. CASE HoldsLease(j, w, t)
    <2>1. row.state = "completed" /\ row.attempt_count = jobs[j].attempt_count
      BY <1>1, HolderRow, CompletedRow
    <2>2. /\ jobs' = [jobs EXCEPT ![j] = row]
          /\ attempts' = [attempts EXCEPT ![t].outcome = "completed"]
      BY <1>1 DEF CompleteDeliveryJob, CloseAttempt
    <2> HIDE DEF row
    <2>3. "completed" \in EndingsOf(row) \cap AttemptOutcomes
      BY <2>1 DEF EndingsOf, AttemptOutcomes
    <2> QED
      BY <1>1, <2>1, <2>2, <2>3, SettleLedger
  <1>2. CASE ~HoldsLease(j, w, t)
    BY <1>2, UnchangedLedger DEF CompleteDeliveryJob, RefuseOrRepeat
  <1> QED
    BY <1>1, <1>2

\* A dead letter of a failed attempt, permanent or for want of attempts.
LEMMA FailureLedger ==
  ASSUME IInv, LedgerConsistent, NEW j \in Jobs, NEW w \in Workers, NEW t \in Tokens,
         HoldsLease(j, w, t), NEW reason \in {"permanent_failure", "attempts_exhausted"},
         jobs' = [jobs EXCEPT ![j] = DeadLettered(jobs[j], reason)],
         CloseAttempt(t, "dead_lettered_failed")
  PROVE  LedgerConsistent'
  <1> DEFINE row == DeadLettered(jobs[j], reason)
  <1>1. reason \in Reasons \ {"none"} /\ reason # "lease_expired_after_final_claim"
    BY DEF Reasons
  <1>2. /\ row.state = "dead_letter" /\ row.reason = reason
        /\ row.attempt_count = jobs[j].attempt_count
    BY <1>1, HolderRow, DeadLetteredRow
  <1>3. /\ jobs' = [jobs EXCEPT ![j] = row]
        /\ attempts' = [attempts EXCEPT ![t].outcome = "dead_lettered_failed"]
    BY DEF CloseAttempt
  <1> HIDE DEF row
  <1>4. "dead_lettered_failed" \in EndingsOf(row) \cap AttemptOutcomes
    BY <1>1, <1>2 DEF EndingsOf, AttemptOutcomes
  <1> QED
    BY <1>2, <1>3, <1>4, SettleLedger

LEMMA DeadLetterLedger ==
  ASSUME IInv, LedgerConsistent, NEW j \in Jobs, NEW w \in Workers, NEW t \in Tokens,
         DeadLetterDeliveryJob(j, w, t)
  PROVE  LedgerConsistent'
  <1>1. CASE HoldsLease(j, w, t)
    BY <1>1, FailureLedger DEF DeadLetterDeliveryJob
  <1>2. CASE ~HoldsLease(j, w, t)
    BY <1>2, UnchangedLedger DEF DeadLetterDeliveryJob, RefuseOrRepeat
  <1> QED
    BY <1>1, <1>2

LEMMA RetryLedger ==
  ASSUME IInv, LedgerConsistent, NEW j \in Jobs, NEW w \in Workers, NEW t \in Tokens,
         NEW delay \in RetryDelays, RetryDeliveryJob(j, w, t, delay)
  PROVE  LedgerConsistent'
  <1> DEFINE row == [Unleased(jobs[j]) EXCEPT !.state = "pending", !.available_at = delay]
  <1>1. CASE /\ HoldsLease(j, w, t) /\ jobs' = [jobs EXCEPT ![j] = row]
             /\ CloseAttempt(t, "retry_scheduled")
    <2>1. delay \in Int
      BY DelayAssumption
    <2>2. row.state = "pending" /\ row.attempt_count = jobs[j].attempt_count
      BY <1>1, <2>1, HolderRow, RetriedRow
    <2>3. /\ jobs' = [jobs EXCEPT ![j] = row]
          /\ attempts' = [attempts EXCEPT ![t].outcome = "retry_scheduled"]
      BY <1>1 DEF CloseAttempt
    <2> HIDE DEF row
    <2>4. "retry_scheduled" \in EndingsOf(row) \cap AttemptOutcomes
      BY <2>2 DEF EndingsOf, AttemptOutcomes
    <2> QED
      BY <1>1, <2>2, <2>3, <2>4, SettleLedger
  <1>2. CASE /\ HoldsLease(j, w, t)
             /\ jobs' = [jobs EXCEPT ![j] = DeadLettered(jobs[j], "attempts_exhausted")]
             /\ CloseAttempt(t, "dead_lettered_failed")
    BY <1>2, FailureLedger
  <1>3. CASE UNCHANGED <<jobs, attempts>>
    BY <1>3, UnchangedLedger
  <1> HIDE DEF row
  <1> QED
    BY <1>1, <1>2, <1>3 DEF RetryDeliveryJob, RefuseOrRepeat, row

LEMMA RequeueLedger ==
  ASSUME IInv, LedgerConsistent, NEW j \in Jobs, NEW m \in 1..AttemptsCap,
         NEW delay \in Delays, ManuallyRequeueDeliveryJob(j, m, delay)
  PROVE  LedgerConsistent'
  <1>1. /\ jobs[j] \in JobRow /\ StateCheck(jobs[j]) /\ jobs[j].state = "dead_letter"
        /\ m \in Nat /\ delay \in Int
    BY LimitAssumption, DelayAssumption
       DEF ManuallyRequeueDeliveryJob, RequeueAllowed, IInv, TypeOK
  <1>2. jobs' = [jobs EXCEPT ![j] = Requeued(jobs[j], m, delay)] /\ attempts' = attempts
    BY DEF ManuallyRequeueDeliveryJob
  <1>3. /\ jobs'[j].state = "pending" /\ jobs'[j].attempt_count = jobs[j].attempt_count
        /\ \A k \in Jobs : k # j => jobs'[k] = jobs[k]
    BY <1>1, <1>2, RequeuedRow DEF IInv, TypeOK
  <1>4. EndingsOf(jobs[j]) \subseteq EndingsOf(jobs'[j])
    BY <1>1, <1>3 DEF EndingsOf
  <1> QED
    BY <1>1, <1>2, <1>3, <1>4, QuietLedger DEF Exists

LEMMA CleanupLedger ==
  ASSUME IInv, LedgerConsistent, NEW gone \in SUBSET Jobs, DeleteJobs(gone)
  PROVE  LedgerConsistent'
  <1> SUFFICES ASSUME NEW j \in Jobs, jobs'[j].state \notin {"absent", "deleted"}
               PROVE  Ledger(jobs'[j], attempts', j)
    BY LedgerOfEachJobNext
  <1>1. j \notin gone /\ jobs'[j] = jobs[j]
    BY EmptyRow DEF DeleteJobs
  <1>2. \A t \in Tokens : attempts'[t].job = attempts[t].job
    BY DEF DeleteJobs, IInv, TypeOK, AttemptRow
  <1>3. \A t \in Tokens : attempts[t].job = j \/ attempts'[t].job = j => attempts'[t] = attempts[t]
    BY <1>1, <1>2, DeletedAttempts
  <1>4. Ledger(jobs[j], attempts, j)
    BY <1>1, LedgerOfEachJob DEF Exists
  <1> QED
    BY <1>1, <1>3, <1>4, LedgerSame

LEMMA TickLedger ==
  ASSUME IInv, LedgerConsistent, Tick
  PROVE  LedgerConsistent'
  <1>1. \A j \in Jobs : /\ jobs'[j].state = jobs[j].state /\ jobs'[j].reason = jobs[j].reason
                        /\ jobs'[j].attempt_count = jobs[j].attempt_count
    BY OlderRow DEF Tick, IInv, TypeOK
  <1>2. \A j \in Jobs : EndingsOf(jobs'[j]) = EndingsOf(jobs[j])
    BY <1>1 DEF EndingsOf
  <1> QED
    BY <1>1, <1>2, QuietLedger DEF Tick, Exists

LEMMA NextLedger ==
  ASSUME IInv, LedgerConsistent, [Next]_vars
  PROVE  LedgerConsistent'
  <1>1. ASSUME NEW j \in Jobs, NEW m \in 1..AttemptsCap, NEW delay \in Delays,
               EnqueueDeliveryJob(j, m, delay)
        PROVE  LedgerConsistent'
    BY <1>1, EnqueueLedger
  <1>2. CASE Claim
    BY <1>2, ClaimCases, ClaimLedger
  <1>3. ASSUME NEW t \in Tokens, Issued(t), NEW w \in Workers,
               \/ CompleteDeliveryJob(attempts[t].job, w, t)
               \/ DeadLetterDeliveryJob(attempts[t].job, w, t)
               \/ \E delay \in RetryDelays : RetryDeliveryJob(attempts[t].job, w, t, delay)
        PROVE  LedgerConsistent'
    <2>1. attempts[t].job \in Jobs
      BY <1>3, JobOfIssued
    <2> QED
      BY <1>3, <2>1, CompleteLedger, DeadLetterLedger, RetryLedger
  <1>4. ASSUME NEW j \in Jobs, NEW m \in 1..AttemptsCap, NEW delay \in Delays,
               ManuallyRequeueDeliveryJob(j, m, delay)
        PROVE  LedgerConsistent'
    BY <1>4, RequeueLedger
  <1>5. ASSUME NEW locked \in HeldRows, CleanupTerminalDeliveryJobs(locked)
        PROVE  LedgerConsistent'
    BY <1>5, CleanupCases, CleanupLedger
  <1>6. CASE Tick
    BY <1>6, TickLedger
  <1>7. CASE UNCHANGED vars
    BY <1>7, UnchangedLedger DEF vars
  <1> QED
    BY <1>1, <1>2, <1>3, <1>4, <1>5, <1>6, <1>7 DEF Next, WorkerCall

\* A job's attempts are numbered without gap or repeat and its last one says how
\* the job came to stand where it stands, for any history of claims, answers,
\* expiries, requeues and cleanups.
THEOREM LedgerWhole == Spec => []LedgerConsistent
  <1>1. Init => LedgerConsistent
    <2> SUFFICES ASSUME Init PROVE LedgerConsistent
      OBVIOUS
    <2>1. \A j \in Jobs : ~Exists(j)
      BY EmptyRow DEF Init, Exists
    <2> QED
      BY <2>1, LedgerOfEachJob
  <1>2. IInv /\ LedgerConsistent /\ [Next]_vars => LedgerConsistent'
    BY NextLedger
  <1> QED
    BY <1>1, <1>2, Invariance, PTL DEF Spec

-----------------------------------------------------------------------------
(* The audits of manual requeues.  AuditsExplainBudget is inductive once   *)
(* the last audit is compared with the claims counted since.               *)

\* At least one attempt was claimed since the last requeue, unless the job still
\* waits for it, and a job that does not exist has no audits.
Explained(row, log) ==
  /\ \A i \in 1..Len(log) :
       /\ log[i].previous_attempt_count < log[i].next_max_attempts
       /\ i < Len(log) =>
            /\ log[i].previous_attempt_count < log[i + 1].previous_attempt_count
            /\ log[i + 1].previous_attempt_count <= log[i].next_max_attempts
  /\ log # <<>> =>
       /\ log[Len(log)].next_max_attempts = row.max_attempts
       /\ log[Len(log)].previous_attempt_count <= row.attempt_count
       /\ row.state # "pending" => log[Len(log)].previous_attempt_count < row.attempt_count
  /\ row.state \in {"absent", "deleted"} => log = <<>>

AuditsExplained == \A j \in Jobs : Explained(jobs[j], audits[j])

\* What a step other than a requeue makes of a row: the budget stays, claims are
\* only added, and a job leaves "pending" only by a claim.
Moves(row, new) ==
  /\ new.max_attempts = row.max_attempts
  /\ row.attempt_count <= new.attempt_count
  /\ new.state # "pending" => row.state # "pending" \/ row.attempt_count < new.attempt_count
  /\ new.state \notin {"absent", "deleted"} \/ new = row

LEMMA MoveExplained ==
  ASSUME NEW row \in JobRow, NEW new \in JobRow, NEW log \in Seq(Audit),
         Explained(row, log), Moves(row, new)
  PROVE  Explained(new, log)
  <1>1. CASE log = <<>>
    BY <1>1 DEF Explained
  <1>2. CASE log # <<>>
    <2>1. Len(log) \in 1..Len(log) /\ log[Len(log)] \in Audit
      BY <1>2
    <2>2. log[Len(log)].previous_attempt_count \in Nat
      BY <2>1 DEF Audit
    <2>3. row.attempt_count \in Nat /\ new.attempt_count \in Nat
      BY DEF JobRow
    <2> QED
      BY <1>2, <2>2, <2>3 DEF Explained, Moves
  <1> QED
    BY <1>1, <1>2

LEMMA RequeueExplained ==
  ASSUME NEW row \in JobRow, NEW log \in Seq(Audit), Explained(row, log),
         row.state = "dead_letter", row.attempt_count <= row.max_attempts,
         NEW new \in JobRow, new.state = "pending", new.attempt_count = row.attempt_count,
         row.attempt_count < new.max_attempts, NEW reason
  PROVE  Explained(new, Append(log, [previous_attempt_count |-> row.attempt_count,
                                     next_max_attempts |-> new.max_attempts,
                                     previous_reason |-> reason]))
  <1> DEFINE e == [previous_attempt_count |-> row.attempt_count,
                   next_max_attempts |-> new.max_attempts, previous_reason |-> reason]
             longer == Append(log, e)
  <1>1. /\ e.previous_attempt_count = row.attempt_count
        /\ e.next_max_attempts = new.max_attempts
    OBVIOUS
  <1> HIDE DEF e
  <1>2. /\ Len(longer) = Len(log) + 1 /\ longer[Len(log) + 1] = e /\ Len(log) \in Nat
        /\ \A i \in 1..Len(log) : longer[i] = log[i]
    OBVIOUS
  <1>3. row.attempt_count \in Nat /\ new.max_attempts \in Nat
    BY DEF JobRow
  <1> HIDE DEF longer
  <1>4. ASSUME NEW i \in 1..Len(longer)
        PROVE  /\ longer[i].previous_attempt_count < longer[i].next_max_attempts
               /\ i < Len(longer) =>
                    /\ longer[i].previous_attempt_count < longer[i + 1].previous_attempt_count
                    /\ longer[i + 1].previous_attempt_count <= longer[i].next_max_attempts
    <2>1. CASE i = Len(log) + 1
      BY <1>1, <1>2, <2>1
    <2>2. CASE i = Len(log) /\ i # Len(log) + 1
      <3>1. /\ log # <<>> /\ i \in 1..Len(log) /\ longer[i] = log[i] /\ longer[i + 1] = e
        BY <1>2, <2>2
      <3>2. /\ log[i].previous_attempt_count < row.attempt_count
            /\ log[i].next_max_attempts = row.max_attempts
            /\ log[i].previous_attempt_count < log[i].next_max_attempts
        BY <2>2, <3>1 DEF Explained
      <3> QED
        BY <1>1, <3>1, <3>2
    <2>3. CASE i < Len(log)
      <3>1. /\ i \in 1..Len(log) /\ i + 1 \in 1..Len(log)
            /\ longer[i] = log[i] /\ longer[i + 1] = log[i + 1]
        BY <1>2, <2>3
      <3> QED
        BY <2>3, <3>1 DEF Explained
    <2> QED
      BY <1>2, <2>1, <2>2, <2>3
  <1>5. /\ longer[Len(longer)].next_max_attempts = new.max_attempts
        /\ longer[Len(longer)].previous_attempt_count <= new.attempt_count
    BY <1>1, <1>2, <1>3
  <1>6. Explained(new, longer)
    BY <1>4, <1>5 DEF Explained
  <1> QED
    BY <1>6 DEF longer, e

\* A step of moves that writes no audit.
LEMMA MovesExplained ==
  ASSUME IInv, IInv', AuditsExplained, audits' = audits,
         \A j \in Jobs : Moves(jobs[j], jobs'[j])
  PROVE  AuditsExplained'
  <1>1. ASSUME NEW j \in Jobs
        PROVE  Explained(jobs'[j], audits'[j])
    <2>1. jobs[j] \in JobRow /\ jobs'[j] \in JobRow /\ audits[j] \in Seq(Audit)
      BY DEF IInv, TypeOK
    <2> QED
      BY <2>1, MoveExplained DEF AuditsExplained
  <1> QED
    BY <1>1 DEF AuditsExplained

LEMMA ClaimMoves ==
  ASSUME IInv, NEW w, NEW duration, NEW dead, NEW taken, NEW tok,
         ClaimArguments(w, duration, dead, taken, tok),
         ClaimRows(w, duration, dead, taken, tok)
  PROVE  \A j \in Jobs : Moves(jobs[j], jobs'[j])
  <1> TAKE j \in Jobs
  <1>1. jobs[j] \in JobRow /\ StateCheck(jobs[j]) /\ jobs[j].attempt_count \in Nat
    BY DEF IInv, TypeOK, JobRow
  <1>2. CASE j \in dead
    <2>1. jobs'[j] = DeadLettered(jobs[j], "lease_expired_after_final_claim")
      BY <1>2 DEF ClaimRows
    <2>2. jobs[j].state = "leased"
      BY <1>2 DEF ClaimArguments, FinalLeaseExpired, LeaseExpired
    <2>3. /\ jobs'[j].state = "dead_letter" /\ jobs'[j].attempt_count = jobs[j].attempt_count
          /\ jobs'[j].max_attempts = jobs[j].max_attempts
      BY <1>1, <2>1, DeadLetteredRow DEF Reasons
    <2> QED
      BY <1>1, <2>2, <2>3 DEF Moves
  <1>3. CASE j \notin dead /\ j \in taken
    <2>1. jobs'[j] = Leased(jobs[j], w, tok[j], duration)
      BY <1>3 DEF ClaimRows
    <2>2. /\ jobs[j].state \in {"pending", "leased"} /\ tok[j] \in Tokens
          /\ w \in Workers /\ duration \in LeaseDurations
      BY <1>3 DEF ClaimArguments, Claimable, LeaseExpired, TokenChoices, FreshTokens
    <2>3. /\ jobs'[j].state = "leased" /\ jobs'[j].attempt_count = jobs[j].attempt_count + 1
          /\ jobs'[j].max_attempts = jobs[j].max_attempts
      BY <1>1, <2>1, <2>2, LeasedRow
    <2> QED
      BY <1>1, <2>3 DEF Moves
  <1>4. CASE j \notin dead /\ j \notin taken
    BY <1>1, <1>4 DEF ClaimRows, Moves
  <1> QED
    BY <1>2, <1>3, <1>4

\* A settled row moves, and no other row of the table changes.
LEMMA SettleMoves ==
  ASSUME IInv, NEW j \in Jobs, NEW w \in Workers, NEW t \in Tokens, HoldsLease(j, w, t),
         NEW row, row.state \in {"pending"} \cup Terminal,
         row.attempt_count = jobs[j].attempt_count, row.max_attempts = jobs[j].max_attempts,
         jobs' = [jobs EXCEPT ![j] = row]
  PROVE  \A k \in Jobs : Moves(jobs[k], jobs'[k])
  <1>1. \A k \in Jobs : jobs[k].attempt_count \in Nat
    BY DEF IInv, TypeOK, JobRow
  <1>2. jobs'[j] = row /\ \A k \in Jobs : k # j => jobs'[k] = jobs[k]
    BY DEF IInv, TypeOK
  <1>3. Moves(jobs[j], row)
    BY <1>1 DEF Moves, HoldsLease, Terminal
  <1>4. \A k \in Jobs : Moves(jobs[k], jobs[k])
    BY <1>1 DEF Moves
  <1> QED
    BY <1>2, <1>3, <1>4

LEMMA CallMoves ==
  ASSUME IInv, NEW j \in Jobs, NEW w \in Workers, NEW t \in Tokens,
         \/ CompleteDeliveryJob(j, w, t)
         \/ DeadLetterDeliveryJob(j, w, t)
         \/ \E delay \in RetryDelays : RetryDeliveryJob(j, w, t, delay)
  PROVE  audits' = audits /\ \A k \in Jobs : Moves(jobs[k], jobs'[k])
  <1>0. \A k \in Jobs : jobs[k].attempt_count \in Nat
    BY DEF IInv, TypeOK, JobRow
  <1>1. CASE UNCHANGED <<jobs, audits>>
    BY <1>0, <1>1 DEF Moves
  <1> DEFINE done == [Unleased(jobs[j]) EXCEPT !.state = "completed",
                                               !.retention_expires_at = Retention]
             dead(reason) == DeadLettered(jobs[j], reason)
             again(delay) == [Unleased(jobs[j]) EXCEPT !.state = "pending", !.available_at = delay]
             Settles(row) == /\ HoldsLease(j, w, t) /\ jobs' = [jobs EXCEPT ![j] = row]
                             /\ audits' = audits
  <1>2. \/ UNCHANGED <<jobs, audits>>
        \/ Settles(done)
        \/ \E reason \in {"permanent_failure", "attempts_exhausted"} : Settles(dead(reason))
        \/ \E delay \in RetryDelays : Settles(again(delay))
    BY Zenon DEF CompleteDeliveryJob, DeadLetterDeliveryJob, RetryDeliveryJob, RefuseOrRepeat
  <1>3. CASE Settles(done)
    <2>1. /\ done.state = "completed" /\ done.attempt_count = jobs[j].attempt_count
          /\ done.max_attempts = jobs[j].max_attempts
      BY <1>3, HolderRow, CompletedRow
    <2> HIDE DEF done
    <2>2. done.state \in {"pending"} \cup Terminal
      BY <2>1 DEF Terminal
    <2> QED
      BY <1>3, <2>1, <2>2, SettleMoves
  <1>4. ASSUME NEW reason \in {"permanent_failure", "attempts_exhausted"}, Settles(dead(reason))
        PROVE  audits' = audits /\ \A k \in Jobs : Moves(jobs[k], jobs'[k])
    <2>1. reason \in Reasons \ {"none"}
      BY DEF Reasons
    <2>2. /\ dead(reason).state = "dead_letter"
          /\ dead(reason).attempt_count = jobs[j].attempt_count
          /\ dead(reason).max_attempts = jobs[j].max_attempts
      BY <1>4, <2>1, HolderRow, DeadLetteredRow
    <2> HIDE DEF dead
    <2>3. dead(reason).state \in {"pending"} \cup Terminal
      BY <2>2 DEF Terminal
    <2> QED
      BY <1>4, <2>2, <2>3, SettleMoves
  <1>5. ASSUME NEW delay \in RetryDelays, Settles(again(delay))
        PROVE  audits' = audits /\ \A k \in Jobs : Moves(jobs[k], jobs'[k])
    <2>1. delay \in Int
      BY DelayAssumption
    <2>2. /\ again(delay).state = "pending"
          /\ again(delay).attempt_count = jobs[j].attempt_count
          /\ again(delay).max_attempts = jobs[j].max_attempts
      BY <1>5, <2>1, HolderRow, RetriedRow
    <2> HIDE DEF again
    <2> QED
      BY <1>5, <2>2, SettleMoves
  <1> QED
    BY <1>1, <1>2, <1>3, <1>4, <1>5

LEMMA NextExplained ==
  ASSUME IInv, AuditsExplained, [Next]_vars
  PROVE  AuditsExplained'
  <1>0. IInv' /\ \A k \in Jobs : jobs[k] \in JobRow /\ jobs[k].attempt_count \in Nat
    BY NextKeeps DEF IInv, TypeOK, JobRow
  <1>1. ASSUME NEW j \in Jobs, NEW m \in 1..AttemptsCap, NEW delay \in Delays,
               EnqueueDeliveryJob(j, m, delay)
        PROVE  AuditsExplained'
    <2>1. audits[j] = <<>> /\ audits' = audits
      BY <1>1 DEF AuditsExplained, Explained, EnqueueDeliveryJob
    <2>2. \A k \in Jobs : k # j => jobs'[k] = jobs[k]
      BY <1>1 DEF EnqueueDeliveryJob, IInv, TypeOK
    <2>3. \A row : Explained(row, <<>>)
      BY DEF Explained
    <2> QED
      BY <2>1, <2>2, <2>3 DEF AuditsExplained
  <1>2. CASE Claim
    <2>1. PICK w, duration, dead, taken, tok : /\ ClaimArguments(w, duration, dead, taken, tok)
                                               /\ ClaimRows(w, duration, dead, taken, tok)
      BY <1>2, ClaimCases
    <2>2. \A k \in Jobs : Moves(jobs[k], jobs'[k])
      BY <2>1, ClaimMoves
    <2>3. audits' = audits
      BY <2>1 DEF ClaimRows
    <2> QED
      BY <1>0, <2>2, <2>3, MovesExplained
  <1>3. ASSUME NEW t \in Tokens, Issued(t), NEW w \in Workers,
               \/ CompleteDeliveryJob(attempts[t].job, w, t)
               \/ DeadLetterDeliveryJob(attempts[t].job, w, t)
               \/ \E delay \in RetryDelays : RetryDeliveryJob(attempts[t].job, w, t, delay)
        PROVE  AuditsExplained'
    <2>1. attempts[t].job \in Jobs
      BY <1>3, JobOfIssued
    <2>2. audits' = audits /\ \A k \in Jobs : Moves(jobs[k], jobs'[k])
      BY <1>3, <2>1, CallMoves
    <2> QED
      BY <1>0, <2>2, MovesExplained
  <1>4. ASSUME NEW j \in Jobs, NEW m \in 1..AttemptsCap, NEW delay \in Delays,
               ManuallyRequeueDeliveryJob(j, m, delay)
        PROVE  AuditsExplained'
    <2> DEFINE log == Append(audits[j], [previous_attempt_count |-> jobs[j].attempt_count,
                                         next_max_attempts |-> m,
                                         previous_reason |-> jobs[j].reason])
    <2>1. /\ jobs[j] \in JobRow /\ StateCheck(jobs[j]) /\ jobs[j].state = "dead_letter"
          /\ m \in Nat /\ delay \in Int /\ jobs[j].attempt_count < m
          /\ audits[j] \in Seq(Audit) /\ jobs[j].attempt_count <= jobs[j].max_attempts
      BY <1>4, LimitAssumption, DelayAssumption
         DEF ManuallyRequeueDeliveryJob, RequeueAllowed, IInv, TypeOK, BudgetLeft
    <2>2. /\ jobs'[j] = Requeued(jobs[j], m, delay) /\ audits'[j] = log
          /\ \A k \in Jobs : k # j => jobs'[k] = jobs[k] /\ audits'[k] = audits[k]
      BY <1>4 DEF ManuallyRequeueDeliveryJob, IInv, TypeOK
    <2>3. /\ jobs'[j] \in JobRow /\ jobs'[j].state = "pending"
          /\ jobs'[j].attempt_count = jobs[j].attempt_count /\ jobs'[j].max_attempts = m
      BY <2>1, <2>2, RequeuedRow
    <2>4. Explained(jobs[j], audits[j])
      BY DEF AuditsExplained
    <2>5. Explained(jobs'[j], log)
      BY <2>1, <2>3, <2>4, RequeueExplained
    <2> HIDE DEF log
    <2> QED
      BY <2>2, <2>5 DEF AuditsExplained
  <1>5. ASSUME NEW gone \in SUBSET Jobs, DeleteJobs(gone)
        PROVE  AuditsExplained'
    <2>1. \A k \in Jobs : \/ audits'[k] = <<>>
                          \/ jobs'[k] = jobs[k] /\ audits'[k] = audits[k]
      BY <1>5 DEF DeleteJobs
    <2>2. \A row : Explained(row, <<>>)
      BY DEF Explained
    <2> QED
      BY <2>1, <2>2 DEF AuditsExplained
  <1>6. CASE Tick
    <2>1. \A k \in Jobs : /\ jobs'[k].state = jobs[k].state
                          /\ jobs'[k].attempt_count = jobs[k].attempt_count
                          /\ jobs'[k].max_attempts = jobs[k].max_attempts
      BY <1>6, OlderRow DEF Tick, IInv, TypeOK
    <2>2. audits' = audits /\ \A j \in Jobs : Explained(jobs'[j], audits[j])
      BY <1>6, <2>1 DEF Tick, AuditsExplained, Explained
    <2> QED
      BY <2>2 DEF AuditsExplained
  <1>7. CASE UNCHANGED vars
    BY <1>7 DEF vars, AuditsExplained
  <1>8. ASSUME NEW locked \in HeldRows, CleanupTerminalDeliveryJobs(locked)
        PROVE  AuditsExplained'
    BY <1>5, <1>8, CleanupCases
  <1> QED
    BY <1>1, <1>2, <1>3, <1>4, <1>6, <1>7, <1>8 DEF Next, WorkerCall

\* A job runs under the budget its last audit granted, and between two manual
\* requeues at least one more attempt was made: no audit is lost or repeated.
THEOREM AuditsExplain == Spec => []AuditsExplainBudget
  <1>1. Init => AuditsExplained
    <2> SUFFICES ASSUME Init PROVE AuditsExplained
      OBVIOUS
    <2>1. \A row : Explained(row, <<>>)
      BY DEF Explained
    <2> QED
      BY <2>1 DEF Init, AuditsExplained
  <1>2. IInv /\ AuditsExplained /\ [Next]_vars => AuditsExplained'
    BY NextExplained
  <1>3. AuditsExplained => AuditsExplainBudget
    BY DEF AuditsExplained, Explained, AuditsExplainBudget
  <1> QED
    BY <1>1, <1>2, <1>3, Invariance, PTL DEF Spec

=============================================================================
