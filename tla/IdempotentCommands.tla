-------------------------- MODULE IdempotentCommands --------------------------
(***************************************************************************)
(* runIdempotentCommand and cleanupCompletedIdempotencyRecords of          *)
(* src/src/services/command-idempotency-service.ts over the table          *)
(* command_idempotency: a claim, the command's own changes and its stored  *)
(* outcome are one PostgreSQL READ COMMITTED transaction; a repeated       *)
(* command finds the claim's row and replays its outcome.                  *)
(*                                                                         *)
(* A key stands for (actor, command name, idempotency key), a body for the *)
(* request fingerprint with the command version.  A run numbers the calls, *)
(* so that a replay can be told from a second execution.                   *)
(***************************************************************************)
EXTENDS Naturals

CONSTANTS
  Keys, Bodies, Callers,
  NoRecord, Nobody, NoCommand,
  MaxCalls      \* bound: calls made

ASSUME MaxCallsAssumption == MaxCalls \in Nat
ASSUME NobodyAssumption == Nobody \notin Callers

Command == [key : Keys, body : Bodies, run : 1..MaxCalls]
States == {"in_progress", "completed"}
Row == [cmd : Command, state : States]

ASSUME NoRecordAssumption == NoRecord \notin Row \cup Command
ASSUME NoCommandAssumption == NoCommand \notin Command

VARIABLES
  stored,   \* the committed row of each key, or NoRecord
  expired,  \* the keys whose row is past its retention
  writer,   \* the transaction with an uncommitted claim of the key, or Nobody
  sweeping, \* the rows a cleanup has locked and is about to delete
  effects,  \* the commands whose changes are committed
  pc, cmd,  \* each caller's place and command
  answers,  \* the results clients have received
  called    \* calls so far

vars == <<stored, expired, writer, sweeping, effects, pc, cmd, answers, called>>

table == <<stored, expired, sweeping>>

Init ==
  /\ stored = [k \in Keys |-> NoRecord]
  /\ expired = {} /\ sweeping = {}
  /\ writer = [k \in Keys |-> Nobody]
  /\ effects = {} /\ answers = {}
  /\ pc = [c \in Callers |-> "idle"]
  /\ cmd = [c \in Callers |-> NoCommand]
  /\ called = 0

-----------------------------------------------------------------------------
(* The command                                                             *)

Goto(c, place) == pc' = [pc EXCEPT ![c] = place]

\* A client sends a command, or repeats one whose answer it did not get.
Call(c, k, b) ==
  /\ pc[c] = "idle"
  /\ called < MaxCalls
  /\ called' = called + 1
  /\ cmd' = [cmd EXCEPT ![c] = [key |-> k, body |-> b, run |-> called + 1]]
  /\ Goto(c, "claiming")
  /\ UNCHANGED <<table, writer, effects, answers>>

\* Mutation: no unique index on (actor, command, key).
ClaimableTwice(k) == TRUE

\* INSERT ... ON CONFLICT DO NOTHING waits for another uncommitted claim.
Claimable(k) == writer[k] = Nobody /\ stored[k] = NoRecord

Claim(c) ==
  /\ pc[c] = "claiming"
  /\ Claimable(cmd[c].key)
  /\ writer' = [writer EXCEPT ![cmd[c].key] = c]
  /\ Goto(c, "claimed")
  /\ UNCHANGED <<table, effects, cmd, answers, called>>

\* execute(tx), then the row is completed in the same transaction.
Execute(c) ==
  /\ pc[c] = "claimed"
  /\ Goto(c, "recorded")
  /\ UNCHANGED <<table, writer, effects, cmd, answers, called>>

\* Mutation: the claim is committed on its own, before the command executes.
CommittableEarly(c) == pc[c] \in {"claimed", "recorded"}

Committable(c) == pc[c] = "recorded"

Commit(c) ==
  LET executed == pc[c] = "recorded" IN
  /\ Committable(c)
  /\ stored' = [stored EXCEPT ![cmd[c].key] =
       [cmd |-> cmd[c], state |-> IF executed THEN "completed" ELSE "in_progress"]]
  /\ effects' = IF executed THEN effects \cup {cmd[c]} ELSE effects
  /\ writer' = [writer EXCEPT ![cmd[c].key] = Nobody]
  /\ Goto(c, IF executed THEN "answered" ELSE "idle")
  /\ UNCHANGED <<expired, sweeping, cmd, answers, called>>

\* The INSERT met a committed row.
Conflict(c) ==
  /\ pc[c] = "claiming"
  /\ stored[cmd[c].key] # NoRecord
  /\ Goto(c, "conflicted")
  /\ UNCHANGED <<table, writer, effects, cmd, answers, called>>

\* SELECT ... FOR UPDATE waits for the cleanup that has locked the row.
Wait(c) ==
  /\ pc[c] = "conflicted"
  /\ cmd[c].key \in sweeping
  /\ Goto(c, "waiting")
  /\ UNCHANGED <<table, writer, effects, cmd, answers, called>>

\* The row is not locked: the SELECT reads what is committed now.
Reading(c) == pc[c] \in {"conflicted", "waiting"} /\ cmd[c].key \notin sweeping

SameRequest(c) == stored[cmd[c].key].cmd.body = cmd[c].body

\* "Idempotency conflict row disappeared during claim": the call throws.
Vanish(c) ==
  /\ Reading(c)
  /\ stored[cmd[c].key] = NoRecord
  /\ Goto(c, "vanished")
  /\ UNCHANGED <<table, writer, effects, cmd, answers, called>>

\* idempotency_conflict, or idempotency_in_progress for a row without outcome.
Refuse(c) ==
  /\ Reading(c)
  /\ stored[cmd[c].key] # NoRecord
  /\ SameRequest(c) => stored[cmd[c].key].state # "completed"
  /\ Goto(c, IF SameRequest(c) THEN "in_progress" ELSE "conflict")
  /\ UNCHANGED <<table, writer, effects, cmd, answers, called>>

\* The stored outcome is the answer.
Replay(c) ==
  /\ Reading(c)
  /\ stored[cmd[c].key] # NoRecord
  /\ SameRequest(c)
  /\ stored[cmd[c].key].state = "completed"
  /\ cmd' = [cmd EXCEPT ![c] = [key |-> cmd[c].key, body |-> cmd[c].body,
                                run |-> stored[cmd[c].key].cmd.run]]
  /\ Goto(c, "answered")
  /\ UNCHANGED <<table, writer, effects, answers, called>>

Finished(c) == pc[c] \in {"answered", "conflict", "in_progress", "vanished"}

\* The client receives the answer.
Answer(c) ==
  /\ Finished(c)
  /\ answers' = IF pc[c] = "answered" THEN answers \cup {cmd[c]} ELSE answers
  /\ cmd' = [cmd EXCEPT ![c] = NoCommand]
  /\ Goto(c, "idle")
  /\ UNCHANGED <<table, writer, effects, called>>

\* Mutation: the claim is not part of the transaction.
StillClaimed(c) == writer

Unclaimed(c) == [k \in Keys |-> IF writer[k] = c THEN Nobody ELSE writer[k]]

\* The connection or the process is lost: before the commit the claim goes
\* with the transaction, after it only the answer is lost.
Lose(c) ==
  /\ pc[c] # "idle"
  /\ writer' = Unclaimed(c)
  /\ cmd' = [cmd EXCEPT ![c] = NoCommand]
  /\ Goto(c, "idle")
  /\ UNCHANGED <<table, effects, answers, called>>

-----------------------------------------------------------------------------
(* Retention                                                               *)

\* Only a completed row has a retention_expires_at.
Retained(k) == stored[k] # NoRecord /\ stored[k].state = "completed"

Expire(k) ==
  /\ Retained(k)
  /\ expired' = expired \cup {k}
  /\ UNCHANGED <<stored, writer, sweeping, effects, pc, cmd, answers, called>>

Sweepable == expired \ sweeping

\* SELECT ... FOR UPDATE SKIP LOCKED LIMIT batchSize.
Sweep(K) ==
  /\ K # {} /\ K \subseteq Sweepable
  /\ sweeping' = sweeping \cup K
  /\ UNCHANGED <<stored, expired, writer, effects, pc, cmd, answers, called>>

\* The DELETE commits; a SELECT that waited for one of the rows finds none.
Delete(K) ==
  /\ K # {} /\ K \subseteq sweeping
  /\ stored' = [k \in Keys |-> IF k \in K THEN NoRecord ELSE stored[k]]
  /\ expired' = expired \ K
  /\ sweeping' = sweeping \ K
  /\ pc' = [c \in Callers |->
       IF pc[c] = "waiting" /\ cmd[c].key \in K THEN "vanished" ELSE pc[c]]
  /\ UNCHANGED <<writer, effects, cmd, answers, called>>

\* The cleanup's transaction is rolled back.
Abandon(K) ==
  /\ K # {} /\ K \subseteq sweeping
  /\ sweeping' = sweeping \ K
  /\ UNCHANGED <<stored, expired, writer, effects, pc, cmd, answers, called>>

Step(c) ==
  \/ Claim(c) \/ Execute(c) \/ Commit(c)
  \/ Conflict(c) \/ Wait(c) \/ Vanish(c) \/ Refuse(c) \/ Replay(c)
  \/ Answer(c)

Cleanup ==
  \/ \E k \in Keys : Expire(k)
  \/ \E K \in SUBSET Keys : Sweep(K) \/ Delete(K) \/ Abandon(K)

Next ==
  \/ \E c \in Callers, k \in Keys, b \in Bodies : Call(c, k, b)
  \/ \E c \in Callers : Step(c) \/ Lose(c)
  \/ Cleanup

Spec == Init /\ [][Next]_vars

\* Transactions under way run on, a cleanup ends one way or the other, and a
\* SELECT that waits for a row is granted it when the row is released: the
\* next cleanup skips locked rows.
FairSpec ==
  /\ Spec
  /\ \A c \in Callers : SF_vars(Step(c))
  /\ \A k \in Keys : WF_vars(Delete({k}) \/ Abandon({k}))

-----------------------------------------------------------------------------
(* Properties                                                              *)

TypeOK ==
  /\ stored \in [Keys -> Row \cup {NoRecord}]
  /\ expired \subseteq Keys /\ sweeping \subseteq expired
  /\ writer \in [Keys -> Callers \cup {Nobody}]
  /\ effects \subseteq Command /\ answers \subseteq Command
  /\ pc \in [Callers -> {"idle", "claiming", "claimed", "recorded", "conflicted", "waiting",
                         "vanished", "conflict", "in_progress", "answered"}]
  /\ cmd \in [Callers -> Command \cup {NoCommand}]
  /\ \A c \in Callers : pc[c] = "idle" <=> cmd[c] = NoCommand
  /\ called \in 0..MaxCalls

\* What clients rely on (ADR 0006): the table, its races, lost answers and the
\* cleanup implement ExactlyOnce.  A row is done as soon as it is committed.
done == [k \in Keys |-> IF stored[k] = NoRecord THEN NoRecord ELSE stored[k].cmd]

Once == INSTANCE ExactlyOnce WITH Runs <- 1..MaxCalls

ExactlyOnceSpec == Once!Spec

\* A claim commits only together with its outcome: no caller is ever told
\* idempotency_in_progress, and no row needs listNonterminalIdempotencyDiagnostics.
NeverInProgress ==
  /\ \A k \in Keys : stored[k] # NoRecord => stored[k].state = "completed"
  /\ \A c \in Callers : pc[c] # "in_progress"

\* The assertion "Idempotency conflict row disappeared during claim" cannot
\* fail: a key that conflicts is still there when it is read.
ConflictRowStays == \A c \in Callers : pc[c] # "vanished"

\* Every call ends, whoever holds the claim or the row and however it fails.
EveryCommandEnds == \A c \in Callers : pc[c] = "claiming" ~> pc[c] = "idle"

=============================================================================
