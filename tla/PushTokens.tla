----------------------------- MODULE PushTokens -----------------------------
(***************************************************************************)
(* Registering push tokens: src/src/services/push-token-registration.ts,   *)
(* its repository in src/src/services/notification-service.ts, and the     *)
(* indexes of user_push_token (src/src/db/notification-schema.ts).         *)
(*                                                                         *)
(* A session is one registration, a transaction at READ COMMITTED.  What   *)
(* it has written is seen by the others when it commits, and until then    *)
(* the rows it wrote are locked.                                           *)
(***************************************************************************)
EXTENDS Naturals, FiniteSets

CONSTANTS
  Users, Tokens, Installations,
  Sessions,
  Asked,      \* [Sessions -> Requests]: what each session registers
  LowerCase,  \* [Tokens -> Tokens]: the spelling of an APNs token that is kept
  Hex,        \* the tokens that are hexadecimal
  NoUser, NoInstallation

\* An installation stands for an APNs environment and a device, trimmed;
\* NoInstallation for one of them missing or blank.
Requests ==
  [user : Users, provider : {"expo", "apns"}, token : Tokens, ios : BOOLEAN,
   environment : BOOLEAN, installation : Installations \cup {NoInstallation}]

ASSUME AskedAssumption == Asked \in [Sessions -> Requests]
ASSUME LowerCaseAssumption == LowerCase \in [Tokens -> Tokens]
ASSUME NoneAssumption == NoUser \notin Users /\ NoInstallation \notin Installations

VARIABLES
  rows,     \* the committed rows of user_push_token
  at,       \* where each session is
  written   \* what it has written and not committed

tokenVars == <<rows, at, written>>

\* The rows are unique by provider and token.
Keys == {"expo", "apns"} \X Tokens

Rows == [user : Users \cup {NoUser}, installation : Installations \cup {NoInstallation}, enabled : BOOLEAN]
NoRow == [user |-> NoUser, installation |-> NoInstallation, enabled |-> FALSE]
Untouched == [user |-> NoUser, installation |-> NoInstallation, enabled |-> TRUE]

-----------------------------------------------------------------------------
(* normalizePushTokenRegistration                                          *)

IsAccepted(q) ==
  IF q.provider = "expo" THEN ~q.environment
  ELSE q.ios /\ q.environment /\ q.installation # NoInstallation /\ q.token \in Hex

\* The row an accepted request becomes.  The index counts APNs rows only: the
\* installation of an Expo row does not matter.
KeyOf(q) == <<q.provider, IF q.provider = "apns" THEN LowerCase[q.token] ELSE q.token>>
RowOf(q) ==
  [user |-> q.user, enabled |-> TRUE,
   installation |-> IF q.provider = "apns" THEN q.installation ELSE NoInstallation]

-----------------------------------------------------------------------------
(* What a statement sees and waits for                                     *)

Active(s) == at[s] \in {"rotate", "upsert", "commit"}

Locked(s, k) == \E r \in Sessions \ {s} : written[r][k] # Untouched

Seen(s, k) == IF written[s][k] # Untouched THEN written[s][k] ELSE rows[k]

Occupies(row, i) == row.enabled /\ row.installation = i /\ i # NoInstallation

\* Mutation: registrations of one installation are not serialized.
NoLockNeeded(s) == TRUE

\* pg_advisory_xact_lock, held until the transaction ends.
LockIsFree(s) ==
  ~\E r \in Sessions \ {s} : Active(r) /\ Asked[r].provider = "apns"
                             /\ Asked[r].installation = Asked[s].installation

\* The rows that disableRotatedApnsTokens finds: a row another session wrote is
\* looked at again once that session has ended.
Rotated(s) ==
  {k \in Keys : k # KeyOf(Asked[s]) /\ Occupies(Seen(s, k), Asked[s].installation)}

\* The rows that would share the place of the session's row in the partial
\* unique index, were everything committed or rolled back.
Rivals(s) ==
  LET i == RowOf(Asked[s]).installation IN
  {k \in Keys \ {KeyOf(Asked[s])} :
     \/ Occupies(Seen(s, k), i)
     \/ \E r \in Sessions \ {s} : written[r][k] # Untouched /\ Occupies(written[r][k], i)}

-----------------------------------------------------------------------------
(* One registration                                                        *)

TokenInit ==
  /\ rows \in [Keys -> Rows]
  /\ \A k \in Keys : rows[k].user = NoUser => rows[k] = NoRow
  /\ \A k \in Keys : rows[k].installation # NoInstallation <=> rows[k].user # NoUser /\ k[1] = "apns"
  /\ \A i \in Installations, k, l \in Keys :
       Occupies(rows[k], i) /\ Occupies(rows[l], i) => k = l
  /\ at \in [Sessions -> {"idle", "done"}]
  /\ written = [s \in Sessions |-> [k \in Keys |-> Untouched]]

\* The request is refused, or its transaction begins.
Begin(s) ==
  /\ at[s] = "idle"
  /\ at' = [at EXCEPT ![s] = IF ~IsAccepted(Asked[s]) THEN "refused"
                             ELSE IF Asked[s].provider = "apns" THEN "lock" ELSE "upsert"]
  /\ UNCHANGED <<rows, written>>

LockApnsInstallation(s) ==
  /\ at[s] = "lock" /\ LockIsFree(s)
  /\ at' = [at EXCEPT ![s] = "rotate"]
  /\ UNCHANGED <<rows, written>>

DisableRotatedApnsTokens(s) ==
  /\ at[s] = "rotate"
  /\ \A k \in Rotated(s) : ~Locked(s, k)
  /\ written' = [written EXCEPT ![s] =
       [k \in Keys |-> IF k \in Rotated(s) THEN [Seen(s, k) EXCEPT !.enabled = FALSE] ELSE @[k]]]
  /\ at' = [at EXCEPT ![s] = "upsert"]
  /\ UNCHANGED rows

\* The insert becomes an update of the token's row when there is one, whoever
\* owned it.  The index refuses a second enabled row of an installation.
UpsertPushToken(s) ==
  LET k == KeyOf(Asked[s]) IN
  /\ at[s] = "upsert"
  /\ ~Locked(s, k) /\ \A l \in Rivals(s) : ~Locked(s, l)
  /\ IF Rivals(s) = {}
     THEN /\ written' = [written EXCEPT ![s][k] = RowOf(Asked[s])]
          /\ at' = [at EXCEPT ![s] = "commit"]
     ELSE /\ written' = [written EXCEPT ![s] = [l \in Keys |-> Untouched]]
          /\ at' = [at EXCEPT ![s] = "rejected"]
  /\ UNCHANGED rows

Commit(s) ==
  /\ at[s] = "commit"
  /\ rows' = [k \in Keys |-> Seen(s, k)]
  /\ written' = [written EXCEPT ![s] = [k \in Keys |-> Untouched]]
  /\ at' = [at EXCEPT ![s] = "done"]

\* The connection fails, or PostgreSQL ends a circle of waiting sessions.
Abort(s) ==
  /\ at[s] \in {"lock", "rotate", "upsert", "commit"}
  /\ written' = [written EXCEPT ![s] = [k \in Keys |-> Untouched]]
  /\ at' = [at EXCEPT ![s] = "aborted"]
  /\ UNCHANGED rows

-----------------------------------------------------------------------------
(* Single statements                                                       *)

Unlocked(k) == \A s \in Sessions : written[s][k] = Untouched

\* A row is disabled, by its identity.
Disabled(k) == [rows EXCEPT ![k].enabled = FALSE]

\* disablePushToken, of a token the user owns.
DisablePushToken(u, k) ==
  /\ Unlocked(k) /\ rows[k].user = u
  /\ rows' = Disabled(k)
  /\ UNCHANGED <<at, written>>

RegistrationStep(s) ==
  \/ Begin(s) \/ LockApnsInstallation(s) \/ DisableRotatedApnsTokens(s)
  \/ UpsertPushToken(s) \/ Commit(s) \/ Abort(s)

TokenNext ==
  \/ \E s \in Sessions : RegistrationStep(s)
  \/ \E u \in Users, k \in Keys : DisablePushToken(u, k)

TokenSpec == TokenInit /\ [][TokenNext]_tokenVars

-----------------------------------------------------------------------------
(* Properties                                                              *)

TokenTypeOK ==
  /\ rows \in [Keys -> Rows]
  /\ at \in [Sessions -> {"idle", "refused", "lock", "rotate", "upsert", "commit",
                          "done", "rejected", "aborted"}]
  /\ written \in [Sessions -> [Keys -> Rows]]

\* "rotates an installation token and safely reassigns it to the authenticated
\* user" (test/push-notifications.test.ts:210): an installation has one enabled
\* token at most, and no registration ever fails on the index that says so,
\* whichever registrations run at the same time and whichever tokens change
\* places between installations.
InstallationsHoldOneToken ==
  /\ \A i \in Installations, k, l \in Keys :
       Occupies(rows[k], i) /\ Occupies(rows[l], i) => k = l
  /\ \A s \in Sessions : at[s] # "rejected"

=============================================================================
