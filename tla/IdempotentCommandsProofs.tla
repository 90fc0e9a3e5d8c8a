----------------------- MODULE IdempotentCommandsProofs -----------------------
(***************************************************************************)
(* Proofs about IdempotentCommands, for any number of keys, request bodies *)
(* and callers: the inductive invariant, and that the table with its races *)
(* and its cleanup implements ExactlyOnce.                                 *)
(***************************************************************************)
EXTENDS IdempotentCommands, TLAPS

-----------------------------------------------------------------------------
(* The inductive invariant, in named parts                                 *)

InTransaction(c) == pc[c] \in {"claimed", "recorded"}

\* The run of the caller's command is its own, not yet anybody's outcome.
HasOwnRun(c) == pc[c] \in {"claiming", "claimed", "recorded", "conflicted", "waiting"}

\* A committed row is completed, about its key, and its changes are committed.
RowsComplete ==
  \A k \in Keys : stored[k] # NoRecord =>
    /\ stored[k].state = "completed"
    /\ stored[k].cmd.key = k
    /\ stored[k].cmd \in effects

\* Only rows expire.
ExpiredAreRows == \A k \in expired : stored[k] # NoRecord

\* Between its INSERT and its end a transaction alone holds its key's claim.
ClaimsHeld ==
  \A c \in Callers : InTransaction(c) =>
    writer[cmd[c].key] = c /\ stored[cmd[c].key] = NoRecord

HoldersClaim ==
  \A k \in Keys : writer[k] # Nobody =>
    InTransaction(writer[k]) /\ cmd[writer[k]].key = k

\* What is about to be answered has been committed.
AnswersCommitted ==
  /\ answers \subseteq effects
  /\ \A c \in Callers : pc[c] = "answered" => cmd[c] \in effects

\* No caller is refused as in progress.
NobodyInProgress == \A c \in Callers : pc[c] # "in_progress"

\* Runs name calls: an unanswered command's run is nobody else's.
RunsOfCalls ==
  /\ \A e \in effects : e.run <= called
  /\ \A c \in Callers : HasOwnRun(c) =>
       cmd[c].run <= called /\ \A e \in effects : e.run # cmd[c].run
  /\ \A c, d \in Callers :
       HasOwnRun(c) /\ HasOwnRun(d) /\ c # d => cmd[c].run # cmd[d].run

IInv ==
  /\ TypeOK
  /\ RowsComplete
  /\ ExpiredAreRows
  /\ ClaimsHeld
  /\ HoldersClaim
  /\ AnswersCommitted
  /\ NobodyInProgress
  /\ RunsOfCalls

-----------------------------------------------------------------------------
(* The invariant is inductive                                              *)

LEMMA InitIInv == Init => IInv
BY MaxCallsAssumption
DEF Init, IInv, TypeOK, RowsComplete, ExpiredAreRows, ClaimsHeld, HoldersClaim,
    AnswersCommitted, NobodyInProgress, RunsOfCalls, InTransaction, HasOwnRun

\* A call gets a run of its own.
LEMMA CallStep ==
  ASSUME IInv, NEW c \in Callers, NEW k \in Keys, NEW b \in Bodies, Call(c, k, b)
  PROVE  IInv'
<1>. USE DEF IInv
<1>1. TypeOK'
  BY NoCommandAssumption, MaxCallsAssumption DEF Call, Command, TypeOK, Goto, table
<1>2. RowsComplete'
  BY NoCommandAssumption, MaxCallsAssumption DEF Call, Command, RowsComplete, TypeOK, Goto, table
<1>3. ExpiredAreRows'
  BY DEF Call, ExpiredAreRows, table
<1>4. ClaimsHeld'
  BY DEF Call, ClaimsHeld, InTransaction, Goto, table
<1>5. HoldersClaim'
  BY DEF Call, HoldersClaim, InTransaction, Goto, table
<1>6. AnswersCommitted'
  BY DEF Call, AnswersCommitted, Goto
<1>7. NobodyInProgress'
  BY DEF Call, NobodyInProgress, Goto
<1>8. RunsOfCalls'
  BY DEF Call, Command, RunsOfCalls, HasOwnRun, TypeOK, Goto
<1>. QED  BY <1>1, <1>2, <1>3, <1>4, <1>5, <1>6, <1>7, <1>8

\* A claim is taken only where there is neither row nor claim.
LEMMA ClaimStep ==
  ASSUME IInv, NEW c \in Callers, Claim(c)
  PROVE  IInv'
<1>. USE DEF IInv
<1>1. TypeOK'
  BY DEF Claim, TypeOK, Goto, table
<1>2. RowsComplete'
  BY DEF Claim, RowsComplete, TypeOK, Goto, table
<1>3. ExpiredAreRows'
  BY DEF Claim, ExpiredAreRows, table
<1>4. ClaimsHeld'
  BY NobodyAssumption DEF Claim, Command, Claimable, ClaimsHeld, InTransaction, TypeOK, Goto, table
<1>5. HoldersClaim'
  BY NobodyAssumption DEF Claim, Command, Claimable, HoldersClaim, InTransaction, TypeOK, Goto, table
<1>6. AnswersCommitted'
  BY DEF Claim, AnswersCommitted, TypeOK, Goto
<1>7. NobodyInProgress'
  BY DEF Claim, NobodyInProgress, Goto
<1>8. RunsOfCalls'
  BY DEF Claim, RunsOfCalls, HasOwnRun, Goto
<1>. QED  BY <1>1, <1>2, <1>3, <1>4, <1>5, <1>6, <1>7, <1>8

\* Executing changes nothing that others see.
LEMMA ExecuteStep ==
  ASSUME IInv, NEW c \in Callers, Execute(c)
  PROVE  IInv'
<1>. USE DEF IInv
<1>1. TypeOK'
  BY DEF Execute, TypeOK, Goto, table
<1>2. RowsComplete'
  BY DEF Execute, RowsComplete, TypeOK, Goto, table
<1>3. ExpiredAreRows'
  BY DEF Execute, ExpiredAreRows, table
<1>4. ClaimsHeld'
  BY DEF Execute, ClaimsHeld, InTransaction, Goto, table
<1>5. HoldersClaim'
  BY DEF Execute, HoldersClaim, InTransaction, Goto, table
<1>6. AnswersCommitted'
  BY DEF Execute, AnswersCommitted, Goto
<1>7. NobodyInProgress'
  BY DEF Execute, NobodyInProgress, Goto
<1>8. RunsOfCalls'
  BY DEF Execute, RunsOfCalls, HasOwnRun, Goto
<1>. QED  BY <1>1, <1>2, <1>3, <1>4, <1>5, <1>6, <1>7, <1>8

\* A commit publishes row and changes together.
LEMMA CommitStep ==
  ASSUME IInv, NEW c \in Callers, Commit(c)
  PROVE  IInv'
<1>. USE DEF IInv
<1>1. TypeOK'
  BY DEF Commit, Committable, Row, States, TypeOK, Goto
<1>2. RowsComplete'
  BY DEF Commit, Committable, Row, States, RowsComplete, TypeOK, Goto
<1>3. ExpiredAreRows'
  BY NoRecordAssumption DEF Commit, Committable, Row, States, ExpiredAreRows, TypeOK
<1>4. ClaimsHeld'
  BY NoRecordAssumption DEF Commit, Committable, Row, States, ClaimsHeld, InTransaction, TypeOK, Goto
<1>5. HoldersClaim'
  BY DEF Commit, Committable, HoldersClaim, InTransaction, TypeOK, Goto
<1>6. AnswersCommitted'
  BY DEF Commit, Committable, AnswersCommitted, TypeOK, Goto
<1>7. NobodyInProgress'
  BY DEF Commit, Committable, NobodyInProgress, Goto
<1>8. RunsOfCalls'
  BY DEF Commit, Committable, RunsOfCalls, HasOwnRun, TypeOK, Goto
<1>. QED  BY <1>1, <1>2, <1>3, <1>4, <1>5, <1>6, <1>7, <1>8

\* A conflict only moves the caller.
LEMMA ConflictStep ==
  ASSUME IInv, NEW c \in Callers, Conflict(c)
  PROVE  IInv'
<1>. USE DEF IInv
<1>1. TypeOK'
  BY DEF Conflict, TypeOK, Goto, table
<1>2. RowsComplete'
  BY DEF Conflict, RowsComplete, TypeOK, Goto, table
<1>3. ExpiredAreRows'
  BY DEF Conflict, ExpiredAreRows, table
<1>4. ClaimsHeld'
  BY DEF Conflict, ClaimsHeld, InTransaction, Goto, table
<1>5. HoldersClaim'
  BY DEF Conflict, HoldersClaim, InTransaction, Goto, table
<1>6. AnswersCommitted'
  BY DEF Conflict, AnswersCommitted, Goto
<1>7. NobodyInProgress'
  BY DEF Conflict, NobodyInProgress, Goto
<1>8. RunsOfCalls'
  BY DEF Conflict, RunsOfCalls, HasOwnRun, Goto
<1>. QED  BY <1>1, <1>2, <1>3, <1>4, <1>5, <1>6, <1>7, <1>8

\* Waiting only moves the caller.
LEMMA WaitStep ==
  ASSUME IInv, NEW c \in Callers, Wait(c)
  PROVE  IInv'
<1>. USE DEF IInv
<1>1. TypeOK'
  BY DEF Wait, TypeOK, Goto, table
<1>2. RowsComplete'
  BY DEF Wait, RowsComplete, TypeOK, Goto, table
<1>3. ExpiredAreRows'
  BY DEF Wait, ExpiredAreRows, table
<1>4. ClaimsHeld'
  BY DEF Wait, ClaimsHeld, InTransaction, Goto, table
<1>5. HoldersClaim'
  BY DEF Wait, HoldersClaim, InTransaction, Goto, table
<1>6. AnswersCommitted'
  BY DEF Wait, AnswersCommitted, Goto
<1>7. NobodyInProgress'
  BY DEF Wait, NobodyInProgress, Goto
<1>8. RunsOfCalls'
  BY DEF Wait, RunsOfCalls, HasOwnRun, Goto
<1>. QED  BY <1>1, <1>2, <1>3, <1>4, <1>5, <1>6, <1>7, <1>8

\* A vanished row only moves the caller.
LEMMA VanishStep ==
  ASSUME IInv, NEW c \in Callers, Vanish(c)
  PROVE  IInv'
<1>. USE DEF IInv
<1>1. TypeOK'
  BY DEF Vanish, Reading, TypeOK, Goto, table
<1>2. RowsComplete'
  BY DEF Vanish, Reading, RowsComplete, TypeOK, Goto, table
<1>3. ExpiredAreRows'
  BY DEF Vanish, ExpiredAreRows, table
<1>4. ClaimsHeld'
  BY DEF Vanish, ClaimsHeld, InTransaction, Goto, table
<1>5. HoldersClaim'
  BY DEF Vanish, Reading, HoldersClaim, InTransaction, Goto, table
<1>6. AnswersCommitted'
  BY DEF Vanish, Reading, AnswersCommitted, Goto
<1>7. NobodyInProgress'
  BY DEF Vanish, NobodyInProgress, Goto
<1>8. RunsOfCalls'
  BY DEF Vanish, RunsOfCalls, HasOwnRun, Goto
<1>. QED  BY <1>1, <1>2, <1>3, <1>4, <1>5, <1>6, <1>7, <1>8

\* A refusal is a conflict: every row is completed.
LEMMA RefuseStep ==
  ASSUME IInv, NEW c \in Callers, Refuse(c)
  PROVE  IInv'
<1>. USE DEF IInv
<1>1. TypeOK'
  BY DEF Refuse, Reading, TypeOK, Goto, table
<1>2. RowsComplete'
  BY DEF Refuse, Reading, RowsComplete, TypeOK, Goto, table
<1>3. ExpiredAreRows'
  BY DEF Refuse, ExpiredAreRows, table
<1>4. ClaimsHeld'
  BY DEF Refuse, ClaimsHeld, InTransaction, Goto, table
<1>5. HoldersClaim'
  BY DEF Refuse, Reading, HoldersClaim, InTransaction, Goto, table
<1>6. AnswersCommitted'
  BY DEF Refuse, Reading, AnswersCommitted, Goto
<1>7. NobodyInProgress'
  BY DEF Refuse, Command, Reading, RowsComplete, NobodyInProgress, TypeOK, Goto
<1>8. RunsOfCalls'
  BY DEF Refuse, Command, Reading, RunsOfCalls, HasOwnRun, TypeOK, Goto
<1>. QED  BY <1>1, <1>2, <1>3, <1>4, <1>5, <1>6, <1>7, <1>8

\* A replay takes the run of a committed command with its key and body.
LEMMA ReplayStep ==
  ASSUME IInv, NEW c \in Callers, Replay(c)
  PROVE  IInv'
<1>. USE DEF IInv
<1>1. TypeOK'
  BY NoCommandAssumption DEF Replay, Command, Reading, Row, TypeOK, Goto, table
<1>2. RowsComplete'
  BY NoCommandAssumption DEF Replay, Command, Reading, Row, RowsComplete, TypeOK, Goto, table
<1>3. ExpiredAreRows'
  BY DEF Replay, ExpiredAreRows, table
<1>4. ClaimsHeld'
  BY DEF Replay, ClaimsHeld, InTransaction, Goto, table
<1>5. HoldersClaim'
  BY DEF Replay, Reading, HoldersClaim, InTransaction, Goto, table
<1>6. AnswersCommitted'
  BY DEF Replay, Command, Reading, SameRequest, RowsComplete, AnswersCommitted, TypeOK, Goto
<1>7. NobodyInProgress'
  BY DEF Replay, Command, Reading, SameRequest, NobodyInProgress, TypeOK, Goto
<1>8. RunsOfCalls'
  BY DEF Replay, RunsOfCalls, HasOwnRun, TypeOK, Goto
<1>. QED  BY <1>1, <1>2, <1>3, <1>4, <1>5, <1>6, <1>7, <1>8

\* An answer tells what is committed.
LEMMA AnswerStep ==
  ASSUME IInv, NEW c \in Callers, Answer(c)
  PROVE  IInv'
<1>. USE DEF IInv
<1>1. TypeOK'
  BY DEF Answer, TypeOK, Goto, table
<1>2. RowsComplete'
  BY DEF Answer, RowsComplete, TypeOK, Goto, table
<1>3. ExpiredAreRows'
  BY DEF Answer, ExpiredAreRows, table
<1>4. ClaimsHeld'
  BY DEF Answer, Finished, ClaimsHeld, InTransaction, Goto, table
<1>5. HoldersClaim'
  BY DEF Answer, Finished, HoldersClaim, InTransaction, Goto, table
<1>6. AnswersCommitted'
  BY DEF Answer, Finished, AnswersCommitted, TypeOK, Goto
<1>7. NobodyInProgress'
  BY DEF Answer, NobodyInProgress, TypeOK, Goto
<1>8. RunsOfCalls'
  BY DEF Answer, Finished, RunsOfCalls, HasOwnRun, Goto
<1>. QED  BY <1>1, <1>2, <1>3, <1>4, <1>5, <1>6, <1>7, <1>8

\* A lost transaction takes its claim with it.
LEMMA LoseStep ==
  ASSUME IInv, NEW c \in Callers, Lose(c)
  PROVE  IInv'
<1>. USE DEF IInv
<1>1. TypeOK'
  BY DEF Lose, Unclaimed, TypeOK, Goto, table
<1>2. RowsComplete'
  BY DEF Lose, Unclaimed, RowsComplete, TypeOK, Goto, table
<1>3. ExpiredAreRows'
  BY DEF Lose, ExpiredAreRows, table
<1>4. ClaimsHeld'
  BY DEF Lose, Command, Unclaimed, ClaimsHeld, InTransaction, TypeOK, Goto, table
<1>5. HoldersClaim'
  BY DEF Lose, Command, Unclaimed, HoldersClaim, InTransaction, TypeOK, Goto, table
<1>6. AnswersCommitted'
  BY DEF Lose, Unclaimed, AnswersCommitted, TypeOK, Goto
<1>7. NobodyInProgress'
  BY DEF Lose, NobodyInProgress, TypeOK, Goto
<1>8. RunsOfCalls'
  BY DEF Lose, RunsOfCalls, HasOwnRun, TypeOK, Goto
<1>. QED  BY <1>1, <1>2, <1>3, <1>4, <1>5, <1>6, <1>7, <1>8

\* Only a row expires.
LEMMA ExpireStep ==
  ASSUME IInv, NEW k \in Keys, Expire(k)
  PROVE  IInv'
<1>. USE DEF IInv
<1>1. TypeOK'
  BY DEF Expire, TypeOK
<1>2. RowsComplete'
  BY DEF Expire, RowsComplete, TypeOK
<1>3. ExpiredAreRows'
  BY DEF Expire, Retained, ExpiredAreRows
<1>4. ClaimsHeld'
  BY DEF Expire, Retained, ClaimsHeld, InTransaction
<1>5. HoldersClaim'
  BY DEF Expire, HoldersClaim, InTransaction
<1>6. AnswersCommitted'
  BY DEF Expire, AnswersCommitted
<1>7. NobodyInProgress'
  BY DEF Expire, NobodyInProgress
<1>8. RunsOfCalls'
  BY DEF Expire, RunsOfCalls, HasOwnRun
<1>. QED  BY <1>1, <1>2, <1>3, <1>4, <1>5, <1>6, <1>7, <1>8

\* A sweep locks rows that have expired.
LEMMA SweepStep ==
  ASSUME IInv, NEW K \in SUBSET Keys, Sweep(K)
  PROVE  IInv'
<1>. USE DEF IInv
<1>1. TypeOK'
  BY DEF Sweep, Sweepable, TypeOK
<1>2. RowsComplete'
  BY DEF Sweep, Sweepable, RowsComplete, TypeOK
<1>3. ExpiredAreRows'
  BY DEF Sweep, ExpiredAreRows
<1>4. ClaimsHeld'
  BY DEF Sweep, ClaimsHeld, InTransaction
<1>5. HoldersClaim'
  BY DEF Sweep, HoldersClaim, InTransaction
<1>6. AnswersCommitted'
  BY DEF Sweep, AnswersCommitted
<1>7. NobodyInProgress'
  BY DEF Sweep, NobodyInProgress
<1>8. RunsOfCalls'
  BY DEF Sweep, RunsOfCalls, HasOwnRun
<1>. QED  BY <1>1, <1>2, <1>3, <1>4, <1>5, <1>6, <1>7, <1>8

\* A deleted row is nobody's claim.
LEMMA DeleteStep ==
  ASSUME IInv, NEW K \in SUBSET Keys, Delete(K)
  PROVE  IInv'
<1>. USE DEF IInv
<1>1. TypeOK'
  BY DEF Delete, TypeOK
<1>2. RowsComplete'
  BY DEF Delete, RowsComplete, TypeOK
<1>3. ExpiredAreRows'
  BY DEF Delete, ExpiredAreRows, TypeOK
<1>4. ClaimsHeld'
  BY DEF Delete, Command, ClaimsHeld, InTransaction, TypeOK
<1>5. HoldersClaim'
  BY DEF Delete, Command, HoldersClaim, InTransaction, TypeOK
<1>6. AnswersCommitted'
  BY DEF Delete, AnswersCommitted, TypeOK
<1>7. NobodyInProgress'
  BY DEF Delete, NobodyInProgress
<1>8. RunsOfCalls'
  BY DEF Delete, RunsOfCalls, HasOwnRun
<1>. QED  BY <1>1, <1>2, <1>3, <1>4, <1>5, <1>6, <1>7, <1>8

\* An abandoned sweep leaves every row.
LEMMA AbandonStep ==
  ASSUME IInv, NEW K \in SUBSET Keys, Abandon(K)
  PROVE  IInv'
<1>. USE DEF IInv
<1>1. TypeOK'
  BY DEF Abandon, TypeOK
<1>2. RowsComplete'
  BY DEF Abandon, RowsComplete, TypeOK
<1>3. ExpiredAreRows'
  BY DEF Abandon, ExpiredAreRows
<1>4. ClaimsHeld'
  BY DEF Abandon, ClaimsHeld, InTransaction
<1>5. HoldersClaim'
  BY DEF Abandon, HoldersClaim, InTransaction
<1>6. AnswersCommitted'
  BY DEF Abandon, AnswersCommitted
<1>7. NobodyInProgress'
  BY DEF Abandon, NobodyInProgress
<1>8. RunsOfCalls'
  BY DEF Abandon, RunsOfCalls, HasOwnRun
<1>. QED  BY <1>1, <1>2, <1>3, <1>4, <1>5, <1>6, <1>7, <1>8

LEMMA StutterStep == ASSUME IInv, UNCHANGED vars PROVE IInv'
BY DEF IInv, vars, table, TypeOK, RowsComplete, ExpiredAreRows, ClaimsHeld, HoldersClaim,
       AnswersCommitted, NobodyInProgress, RunsOfCalls, InTransaction, HasOwnRun

LEMMA NextIInv == IInv /\ [Next]_vars => IInv'
<1>. SUFFICES ASSUME IInv, [Next]_vars PROVE IInv'
  OBVIOUS
<1>1. ASSUME NEW c \in Callers, NEW k \in Keys, NEW b \in Bodies, Call(c, k, b) PROVE IInv'
  BY <1>1, CallStep
<1>2. ASSUME NEW c \in Callers, Step(c) PROVE IInv'
  BY <1>2, ClaimStep, ExecuteStep, CommitStep, ConflictStep, WaitStep, VanishStep, RefuseStep,
     ReplayStep, AnswerStep DEF Step
<1>3. ASSUME NEW c \in Callers, Lose(c) PROVE IInv'
  BY <1>3, LoseStep
<1>4. CASE Cleanup
  BY <1>4, ExpireStep, SweepStep, DeleteStep, AbandonStep DEF Cleanup
<1>5. CASE UNCHANGED vars
  BY <1>5, StutterStep
<1>. QED  BY <1>1, <1>2, <1>3, <1>4, <1>5 DEF Next

\* Every reachable state satisfies the inductive invariant.
THEOREM Invariance == Spec => []IInv
<1>. QED  BY InitIInv, NextIInv, PTL DEF Spec

\* The table, the claims and the callers always have their types.
THEOREM TypeCorrect == Spec => []TypeOK
<1>1. IInv => TypeOK
  BY DEF IInv
<1>. QED  BY <1>1, Invariance, PTL

\* No claim is ever committed without its outcome, and no caller is ever told
\* that its command is still in progress.
THEOREM ClaimsCommitCompleted == Spec => []NeverInProgress
<1>1. IInv => NeverInProgress
  BY DEF IInv, NeverInProgress, RowsComplete, NobodyInProgress
<1>. QED  BY <1>1, Invariance, PTL

-----------------------------------------------------------------------------
(* Refinement of ExactlyOnce                                               *)

LEMMA InitRefines == Init => Once!Init
BY DEF Init, Once!Init, done

\* What a step leaves alone in the concrete state it leaves alone in the
\* abstract one.
LEMMA Unmoved ==
  ASSUME UNCHANGED <<stored, expired, effects, answers>>
  PROVE  UNCHANGED Once!vars
BY DEF Once!vars, done

LEMMA CommitRefines ==
  ASSUME IInv, NEW c \in Callers, Commit(c)
  PROVE  Once!Next
<1>. DEFINE x == cmd[c]
<1>1. pc[c] = "recorded" /\ x \in Command /\ x.key \in Keys
  BY DEF Commit, Committable, IInv, TypeOK, Command
<1>2. x \in Once!Command
  BY <1>1 DEF Command, Once!Command
<1>3. stored[x.key] = NoRecord
  BY <1>1 DEF IInv, ClaimsHeld, InTransaction
<1>4. done[x.key] = NoRecord
  BY <1>1, <1>3 DEF done
<1>5. \A e \in effects : e.run # x.run
  BY <1>1 DEF IInv, RunsOfCalls, HasOwnRun
<1>6. stored' = [stored EXCEPT ![x.key] = [cmd |-> x, state |-> "completed"]]
  BY <1>1 DEF Commit
<1>7. [cmd |-> x, state |-> "completed"] # NoRecord
  BY <1>1, NoRecordAssumption DEF Row, States
<1>8. done' = [done EXCEPT ![x.key] = x]
  BY <1>1, <1>6, <1>7 DEF done, IInv, TypeOK
<1>9. effects' = effects \cup {x} /\ UNCHANGED <<expired, answers>>
  BY <1>1 DEF Commit
<1>10. Once!Perform(x)
  BY <1>4, <1>5, <1>8, <1>9 DEF Once!Perform
<1>. QED  BY <1>2, <1>10 DEF Once!Next

LEMMA AnswerRefines ==
  ASSUME IInv, NEW c \in Callers, Answer(c)
  PROVE  Once!Next \/ UNCHANGED Once!vars
<1>1. CASE pc[c] = "answered"
  <2>1. cmd[c] \in effects /\ cmd[c] \in Once!Command
    BY <1>1 DEF IInv, AnswersCommitted, TypeOK, Command, Once!Command
  <2>2. Once!Tell(cmd[c])
    BY <1>1, <2>1 DEF Answer, Once!Tell, table, done
  <2>. QED  BY <2>1, <2>2 DEF Once!Next
<1>2. CASE pc[c] # "answered"
  BY <1>2, Unmoved DEF Answer, table
<1>. QED  BY <1>1, <1>2

LEMMA ExpireRefines ==
  ASSUME IInv, NEW k \in Keys, Expire(k)
  PROVE  Once!Next
<1>1. done[k] # NoRecord
  BY NoRecordAssumption DEF Expire, Retained, done, IInv, TypeOK, Row
<1>2. Once!Expire(k)
  BY <1>1 DEF Expire, Once!Expire, done
<1>. QED  BY <1>2 DEF Once!Next

LEMMA DeleteRefines ==
  ASSUME IInv, NEW K \in SUBSET Keys, Delete(K)
  PROVE  Once!Next
<1>1. K \subseteq expired
  BY DEF Delete, IInv, TypeOK
<1>2. done' = [k \in Keys |-> IF k \in K THEN NoRecord ELSE done[k]]
  BY DEF Delete, done
<1>3. Once!Forget(K)
  BY <1>1, <1>2 DEF Delete, Once!Forget
<1>. QED  BY <1>3 DEF Once!Next

LEMMA NextRefines == IInv /\ [Next]_vars => [Once!Next]_(Once!vars)
<1>. SUFFICES ASSUME IInv, [Next]_vars PROVE Once!Next \/ UNCHANGED Once!vars
  OBVIOUS
<1>1. ASSUME NEW c \in Callers, NEW k \in Keys, NEW b \in Bodies, Call(c, k, b)
      PROVE  UNCHANGED Once!vars
  BY <1>1, Unmoved DEF Call, table
<1>2. ASSUME NEW c \in Callers, Step(c)
      PROVE  Once!Next \/ UNCHANGED Once!vars
  <2>1. CASE Commit(c)
    BY <2>1, CommitRefines
  <2>2. CASE Answer(c)
    BY <2>2, AnswerRefines
  <2>3. CASE Claim(c) \/ Execute(c) \/ Conflict(c) \/ Wait(c) \/ Vanish(c) \/ Refuse(c) \/ Replay(c)
    BY <2>3, Unmoved DEF Claim, Execute, Conflict, Wait, Vanish, Refuse, Replay, table
  <2>. QED  BY <1>2, <2>1, <2>2, <2>3 DEF Step
<1>3. ASSUME NEW c \in Callers, Lose(c)
      PROVE  UNCHANGED Once!vars
  BY <1>3, Unmoved DEF Lose, table
<1>4. ASSUME Cleanup
      PROVE  Once!Next \/ UNCHANGED Once!vars
  <2>1. ASSUME NEW k \in Keys, Expire(k) PROVE Once!Next
    BY <2>1, ExpireRefines
  <2>2. ASSUME NEW K \in SUBSET Keys, Delete(K) PROVE Once!Next
    BY <2>2, DeleteRefines
  <2>3. ASSUME NEW K \in SUBSET Keys, Sweep(K) \/ Abandon(K) PROVE UNCHANGED Once!vars
    BY <2>3, Unmoved DEF Sweep, Abandon
  <2>. QED  BY <1>4, <2>1, <2>2, <2>3 DEF Cleanup
<1>5. CASE UNCHANGED vars
  BY <1>5, Unmoved DEF vars, table
<1>. QED  BY <1>1, <1>2, <1>3, <1>4, <1>5 DEF Next

\* Repeated, raced, lost and swept commands implement ExactlyOnce: a key
\* performs one request once until its record has expired, and every answer is
\* the result of a performed command with that key and body.
THEOREM Refinement == Spec => ExactlyOnceSpec
<1>. QED  BY InitRefines, NextRefines, Invariance, PTL DEF Spec, ExactlyOnceSpec, Once!Spec

=============================================================================
