---------------------------- MODULE DurableEvents ----------------------------
(***************************************************************************)
(* The durable event log: appendDurableEventsInTransaction,                *)
(* validateDurableEventCheckpoint and pruneExpiredDurableEvents of         *)
(* src/src/services/durable-event-service.ts with the triggers of          *)
(* migration 20260723170425_f3_durable_substrate, which run inside the     *)
(* same statements.                                                        *)
(*                                                                         *)
(* Transactions are READ COMMITTED.  An append updates its scope's row and *)
(* so holds the row's lock until it ends.  The delete trigger of a cleanup *)
(* updates the scope rows too, but its subquery keeps the snapshot of the  *)
(* statement's start, even when the row it waited for has moved on; the    *)
(* check that follows reads a new snapshot.                                *)
(*                                                                         *)
(* Scopes are numbered in the order (kind, id) in which a chat transaction *)
(* lists its events.  One cleanup runs at a time: the others return at     *)
(* once when they do not get the advisory lock.                            *)
(***************************************************************************)
EXTENDS Integers, FiniteSets, Sequences, FiniteSetsExt

CONSTANTS
  Scopes,       \* numbers: the order of chat's batches
  Writers,      \* transactions that append
  Cleanup, Free,
  MaxBatch,     \* bound: events of a transaction
  MaxHigh       \* bound: events of a scope

ASSUME ScopesAssumption == Scopes \subseteq Nat
ASSUME HoldersAssumption == Cleanup \notin Writers /\ Free \notin Writers \cup {Cleanup}
ASSUME BoundsAssumption == MaxBatch \in Nat /\ MaxHigh \in Nat

VARIABLES
  high, floor,  \* durable_event_scope: high_water_sequence, retention_floor_sequence
  events,       \* durable_event: the committed sequences of each scope
  expired,      \* the sequences past their retention
  lock,         \* the transaction that has updated a scope's row
  todo,         \* the scopes a writer has still to append to, in order
  draft,        \* the uncommitted events of a writer in each scope
  cleaning      \* the cleanup

vars == <<high, floor, events, expired, lock, todo, draft, cleaning>>
rows == <<high, floor, events>>

\* Mutation: the events of a batch are listed in any order.
AnyBatches == UNION {[1..n -> Scopes] : n \in 1..MaxBatch}

\* conversation scope first, then the sorted profiles, then the users by id.
Batches ==
  {b \in UNION {[1..n -> Scopes] : n \in 1..MaxBatch} :
     \A i \in DOMAIN b : i > 1 => b[i - 1] <= b[i]}

None == [s \in Scopes |-> {}]
Resting == [pc |-> "idle", picked |-> None, seen |-> None, floors |-> [s \in Scopes |-> 0]]

Init ==
  /\ high = [s \in Scopes |-> 0]
  /\ floor = [s \in Scopes |-> 1]
  /\ events = None /\ expired = None
  /\ lock = [s \in Scopes |-> Free]
  /\ todo = [w \in Writers |-> <<>>]
  /\ draft = [w \in Writers |-> None]
  /\ cleaning = Resting

Unlocked(t) == [s \in Scopes |-> IF lock[s] = t THEN Free ELSE lock[s]]

-----------------------------------------------------------------------------
(* Appending                                                               *)

Writing(w) == todo[w] # <<>> \/ draft[w] # None

Begin(w, batch) ==
  /\ ~Writing(w)
  /\ todo' = [todo EXCEPT ![w] = batch]
  /\ UNCHANGED <<rows, expired, lock, draft, cleaning>>

\* Mutation: the sequence is read without updating the scope's row.
LockedAnyway(s, t) == TRUE

Lockable(s, t) == lock[s] \in {Free, t}

\* The high water that the transaction sees: its own, or the committed one.
Reached(w, s) == IF draft[w][s] = {} THEN high[s] ELSE Max(draft[w][s])

\* The upsert of the scope row, which waits for its lock, and the insert at the
\* sequence it returns; durable_event_insert_guard finds that very sequence.
AppendNext(w) ==
  LET s == Head(todo[w]) IN
  /\ todo[w] # <<>>
  /\ Lockable(s, w)
  /\ Reached(w, s) < MaxHigh
  /\ lock' = [lock EXCEPT ![s] = w]
  /\ draft' = [draft EXCEPT ![w][s] = @ \cup {Reached(w, s) + 1}]
  /\ todo' = [todo EXCEPT ![w] = Tail(@)]
  /\ UNCHANGED <<rows, expired, cleaning>>

Commit(w) ==
  /\ Writing(w) /\ todo[w] = <<>>
  /\ events' = [s \in Scopes |-> events[s] \cup draft[w][s]]
  /\ high' = [s \in Scopes |-> Reached(w, s)]
  /\ draft' = [draft EXCEPT ![w] = None]
  /\ lock' = Unlocked(w)
  /\ UNCHANGED <<floor, expired, todo, cleaning>>

\* The transaction fails: refused, crashed, or the victim of a deadlock.
Abort(w) ==
  /\ Writing(w)
  /\ todo' = [todo EXCEPT ![w] = <<>>]
  /\ draft' = [draft EXCEPT ![w] = None]
  /\ lock' = Unlocked(w)
  /\ UNCHANGED <<rows, expired, cleaning>>

-----------------------------------------------------------------------------
(* Retention                                                               *)

\* Events have retentions of their own: a later one may expire first.
Expire(s, n) ==
  /\ n \in events[s] \ expired[s]
  /\ expired' = [expired EXCEPT ![s] = @ \cup {n}]
  /\ UNCHANGED <<rows, lock, todo, draft, cleaning>>

\* Mutation: whatever is older than an expired event goes with it.
UpToExpired(s) == {n \in events[s] : \E m \in expired[s] : n <= m}

\* The expired events with no unexpired one before them.
ExpiredPrefix(s) == {n \in expired[s] \cap events[s] : \A m \in events[s] : m < n => m \in expired[s]}

\* The SELECT: any of those events, because of the batch size and because each
\* row is compared with a clock that runs on.
Select(picked) ==
  /\ cleaning.pc = "idle"
  /\ picked # None
  /\ \A s \in Scopes : picked[s] \subseteq ExpiredPrefix(s)
  /\ cleaning' = [Resting EXCEPT !.pc = "selected", !.picked = picked]
  /\ UNCHANGED <<rows, expired, lock, todo, draft>>

\* The DELETE and the start of the trigger's UPDATE: its snapshot.
Delete ==
  /\ cleaning.pc = "selected"
  /\ cleaning' = [cleaning EXCEPT !.pc = "deleted",
                    !.seen = [s \in Scopes |-> events[s] \ cleaning.picked[s]]]
  /\ UNCHANGED <<rows, expired, lock, todo, draft>>

Touched == {s \in Scopes : cleaning.picked[s] # {}}

\* greatest(floor, coalesce(min retained, high water + 1)).
NewFloor(s) ==
  LET least == IF cleaning.seen[s] = {} THEN high[s] + 1 ELSE Min(cleaning.seen[s])
  IN IF least > floor[s] THEN least ELSE floor[s]

\* The UPDATE reaches one scope row, in no particular order: it waits for the
\* row's lock and sees the row as it is then.
Raise(s) ==
  /\ cleaning.pc = "deleted"
  /\ s \in Touched /\ lock[s] = Free
  /\ lock' = [lock EXCEPT ![s] = Cleanup]
  /\ cleaning' = [cleaning EXCEPT !.floors[s] = NewFloor(s)]
  /\ UNCHANGED <<rows, expired, todo, draft>>

Left(s) == events[s] \ cleaning.picked[s]

\* Mutation: the trigger does not check the retained range.
CheckedNever(s) == TRUE

\* "Durable event cleanup must retain a contiguous sequence range".
Checked(s) == Cardinality(Left(s)) = high[s] - cleaning.floors[s] + 1

Prune ==
  /\ cleaning.pc = "deleted"
  /\ \A s \in Touched : lock[s] = Cleanup /\ Checked(s)
  /\ events' = [s \in Scopes |-> Left(s)]
  /\ expired' = [s \in Scopes |-> expired[s] \ cleaning.picked[s]]
  /\ floor' = [s \in Scopes |-> IF s \in Touched THEN cleaning.floors[s] ELSE floor[s]]
  /\ lock' = Unlocked(Cleanup)
  /\ cleaning' = Resting
  /\ UNCHANGED <<high, todo, draft>>

\* The check raises, or the cleanup fails or is the victim of a deadlock.
Abandon ==
  /\ cleaning.pc # "idle"
  /\ lock' = Unlocked(Cleanup)
  /\ cleaning' = Resting
  /\ UNCHANGED <<rows, expired, todo, draft>>

Next ==
  \/ \E w \in Writers :
       \/ \E b \in Batches : Begin(w, b)
       \/ AppendNext(w) \/ Commit(w) \/ Abort(w)
  \/ \E s \in Scopes, n \in 1..MaxHigh : Expire(s, n)
  \/ \E picked \in [Scopes -> SUBSET (1..MaxHigh)] : Select(picked)
  \/ \E s \in Scopes : Raise(s)
  \/ Delete \/ Prune \/ Abandon

Spec == Init /\ [][Next]_vars

-----------------------------------------------------------------------------
(* Checkpoints                                                             *)

\* Mutation: a client at the floor itself is already too old.
CheckpointStrict(s, after) ==
  IF after < floor[s] THEN "before_retention" ELSE IF after > high[s] THEN "ahead" ELSE "ok"

\* validateDurableEventCheckpoint: one read of the scope's row.
Checkpoint(s, after) ==
  IF after < floor[s] - 1 THEN "before_retention" ELSE IF after > high[s] THEN "ahead" ELSE "ok"

-----------------------------------------------------------------------------
(* Properties                                                              *)

Sequences == 1..MaxHigh

TypeOK ==
  /\ high \in [Scopes -> 0..MaxHigh]
  /\ floor \in [Scopes -> 1..MaxHigh + 1]
  /\ events \in [Scopes -> SUBSET Sequences]
  /\ expired \in [Scopes -> SUBSET Sequences]
  /\ lock \in [Scopes -> Writers \cup {Cleanup, Free}]
  /\ todo \in [Writers -> Seq(Scopes)]
  /\ draft \in [Writers -> [Scopes -> SUBSET Sequences]]
  /\ cleaning \in [pc : {"idle", "selected", "deleted"}, picked : [Scopes -> SUBSET Sequences],
                   seen : [Scopes -> SUBSET Sequences], floors : [Scopes -> 0..MaxHigh + 1]]
  /\ \A w \in Writers, s \in Scopes : draft[w][s] # {} <=> lock[s] = w

\* What is retained of a scope is exactly the range its row announces, whatever
\* commits, aborts, expires and is cleaned up meanwhile: a replay from the floor
\* has no gap, and no retained event is below the floor.
RetainedRange == \A s \in Scopes : events[s] = floor[s]..high[s]

\* A checkpoint is accepted exactly when every event after it is still there,
\* and there is no later one that the scope has not reached (ADR 0002).
CheckpointsReplayable ==
  \A s \in Scopes, after \in 0..MaxHigh :
    Checkpoint(s, after) = "ok" <=> after <= high[s] /\ after + 1 .. high[s] \subseteq events[s]

\* A sequence is given once: what becomes visible continues the scope exactly
\* where it stood, even when everything before has been cleaned up.
SequencesContinue ==
  [][\A s \in Scopes :
       /\ events'[s] \ events[s] = high[s] + 1 .. high'[s]
       /\ high'[s] >= high[s] /\ floor'[s] >= floor[s]]_vars

\* Only what has expired is ever removed.
OnlyExpiredPruned == [][\A s \in Scopes : events[s] \ events'[s] \subseteq expired[s]]_vars

Awaits(w) == IF todo[w] = <<>> THEN Free ELSE lock[Head(todo[w])]

\* Transactions that append never wait for one another in a circle: every
\* batch lists its scopes in one order.
WritersNeverDeadlock ==
  \A W \in (SUBSET Writers) \ {{}} : \E w \in W : Awaits(w) \notin W \ {w}

=============================================================================
