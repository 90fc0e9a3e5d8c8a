----------------------------- MODULE ExactlyOnce -----------------------------
(***************************************************************************)
(* What command idempotency promises a client that may repeat a command:   *)
(* one key performs one request once, until its record has expired and is  *)
(* forgotten, and an answer is the result of a performed command with that *)
(* key and that body.                                                      *)
(***************************************************************************)
CONSTANTS
  Keys, Bodies, NoRecord,
  Runs    \* names of performed commands

VARIABLES
  done,     \* what each key has performed
  expired,  \* the keys whose record may be forgotten
  effects,  \* the domain changes: one per performed command
  answers   \* what clients have been told

vars == <<done, expired, effects, answers>>

Command == [key : Keys, body : Bodies, run : Runs]

Init ==
  /\ done = [k \in Keys |-> NoRecord]
  /\ expired = {} /\ effects = {} /\ answers = {}

Perform(x) ==
  /\ done[x.key] = NoRecord
  /\ \A e \in effects : e.run # x.run
  /\ done' = [done EXCEPT ![x.key] = x]
  /\ effects' = effects \cup {x}
  /\ UNCHANGED <<expired, answers>>

Tell(x) ==
  /\ x \in effects
  /\ answers' = answers \cup {x}
  /\ UNCHANGED <<done, expired, effects>>

Expire(k) ==
  /\ done[k] # NoRecord
  /\ expired' = expired \cup {k}
  /\ UNCHANGED <<done, effects, answers>>

Forget(K) ==
  /\ K \subseteq expired
  /\ done' = [k \in Keys |-> IF k \in K THEN NoRecord ELSE done[k]]
  /\ expired' = expired \ K
  /\ UNCHANGED <<effects, answers>>

Next ==
  \/ \E x \in Command : Perform(x) \/ Tell(x)
  \/ \E k \in Keys : Expire(k)
  \/ \E K \in SUBSET Keys : Forget(K)

Spec == Init /\ [][Next]_vars

=============================================================================
