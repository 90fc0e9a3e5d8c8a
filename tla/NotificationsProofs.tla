------------------------ MODULE NotificationsProofs ------------------------
(***************************************************************************)
(* What holds of Notifications, and of the registration of push tokens in  *)
(* it, for every number of notifications, sockets, tokens and users.       *)
(*                                                                         *)
(* Tokens: an installation holds one enabled token, and no registration    *)
(* fails on the index that says so.  The lock makes registrations of one   *)
(* installation take turns; what a session has written is disabled, but    *)
(* for the row it brings; and from its rotation on, a session that holds   *)
(* the lock sees no other enabled row of its installation (TokenInv).      *)
(*                                                                         *)
(* Notifications: the registrations keep their promise beside all that     *)
(* touches the tokens, and the deliveries tell what the providers and the  *)
(* sockets did.  The invariant has three parts: PushInv, on the deliveries *)
(* to the providers; AppInv, on the deliveries in the application and the  *)
(* handlers under way; and NoneAsked, that ties the two together.          *)
(*                                                                         *)
(* Counts: an open socket heard the true count last, or a handler is left  *)
(* that will tell it (Settling), where handlers are served one by one,     *)
(* whether or not sends throw.                                             *)
(*                                                                         *)
(* Payloads: the recursive functions that count bytes and search for the   *)
(* cut exist and end where they should, by the least number at which they  *)
(* would not; the arithmetic of a cut follows.                             *)
(***************************************************************************)
EXTENDS Notifications, TLAPS, FiniteSetTheorems, SequenceTheorems, WellFoundedInduction

-----------------------------------------------------------------------------
(* Push token registration                                                 *)

Holds(s) == Active(s) /\ Asked[s].provider = "apns"

OneCommitted ==
  \A i \in Installations, k, l \in Keys : Occupies(rows[k], i) /\ Occupies(rows[l], i) => k = l

NeverRejected == \A s \in Sessions : at[s] # "rejected"

WrittenLate ==
  \A s \in Sessions, k \in Keys : at[s] \notin {"upsert", "commit"} => written[s][k] = Untouched

LockExclusive ==
  \A r, s \in Sessions :
    r # s /\ Holds(r) /\ Holds(s) => Asked[r].installation # Asked[s].installation

EnabledIsOwn ==
  \A s \in Sessions, k \in Keys :
    written[s][k] # Untouched /\ written[s][k].enabled =>
      at[s] = "commit" /\ k = KeyOf(Asked[s]) /\ written[s][k] = RowOf(Asked[s])

SeesNoOther ==
  \A s \in Sessions, k \in Keys :
    at[s] \in {"upsert", "commit"} /\ Asked[s].provider = "apns" /\ k # KeyOf(Asked[s]) =>
      ~Occupies(Seen(s, k), Asked[s].installation)

RowLocksExclusive ==
  \A r, s \in Sessions, k \in Keys :
    r # s /\ written[r][k] # Untouched => written[s][k] = Untouched

TokenInv ==
  /\ TokenTypeOK
  /\ OneCommitted /\ NeverRejected
  /\ WrittenLate /\ LockExclusive /\ EnabledIsOwn /\ SeesNoOther /\ RowLocksExclusive

-----------------------------------------------------------------------------
\* The row a request becomes occupies its installation, and no other.
LEMMA RowOfOccupies ==
  ASSUME NEW q \in Requests, NEW i, Occupies(RowOf(q), i)
  PROVE  q.provider = "apns" /\ q.installation = i
BY DEF Occupies, RowOf, Requests

LEMMA RowOfType ==
  ASSUME NEW q \in Requests
  PROVE  RowOf(q) \in Rows /\ KeyOf(q) \in Keys /\ RowOf(q) # Untouched
BY LowerCaseAssumption, NoneAssumption DEF Requests, RowOf, Rows, KeyOf, Keys, Untouched

LEMMA UntouchedType == Untouched \in Rows /\ NoRow \in Rows
BY DEF Untouched, NoRow, Rows

LEMMA DisabledRow ==
  ASSUME NEW row \in Rows, NEW i
  PROVE  /\ [row EXCEPT !.enabled = FALSE] \in Rows
         /\ [row EXCEPT !.enabled = FALSE].enabled = FALSE
         /\ ~Occupies([row EXCEPT !.enabled = FALSE], i)
         /\ [row EXCEPT !.enabled = FALSE] # Untouched
BY DEF Rows, Occupies, Untouched

LEMMA SeenType ==
  ASSUME TokenTypeOK, NEW s \in Sessions, NEW k \in Keys
  PROVE  Seen(s, k) \in Rows
BY DEF TokenTypeOK, Seen

-----------------------------------------------------------------------------
LEMMA TokenInitInv == TokenInit => TokenInv
<1>1. SUFFICES ASSUME TokenInit PROVE TokenInv
  OBVIOUS
<1>2. \A s \in Sessions : at[s] \in {"idle", "done"}
  BY <1>1 DEF TokenInit
<1>3. \A s \in Sessions, k \in Keys : written[s][k] = Untouched
  BY <1>1 DEF TokenInit
<1>4. TokenTypeOK
  BY <1>1, UntouchedType DEF TokenInit, TokenTypeOK
<1>5. OneCommitted
  BY <1>1 DEF TokenInit, OneCommitted
<1>6. QED
  BY <1>2, <1>3, <1>4, <1>5 DEF TokenInv, NeverRejected, WrittenLate, LockExclusive, Holds, Active,
     EnabledIsOwn, SeesNoOther, RowLocksExclusive

LEMMA BeginInv ==
  ASSUME TokenInv, NEW s \in Sessions, Begin(s)
  PROVE  TokenInv'
<1>1. Asked[s] \in Requests
  BY AskedAssumption
<1>2. /\ at'[s] \in {"refused", "lock", "upsert"}
      /\ at'[s] = "upsert" => Asked[s].provider = "expo"
      /\ \A r \in Sessions \ {s} : at'[r] = at[r]
      /\ rows' = rows /\ written' = written
  BY <1>1 DEF Begin, TokenInv, TokenTypeOK, Requests
<1>3. at[s] = "idle" /\ \A k \in Keys : written[s][k] = Untouched
  BY DEF Begin, TokenInv, WrittenLate
<1>4. TokenTypeOK'
  BY <1>1, <1>2 DEF TokenInv, TokenTypeOK, Begin
<1>5. OneCommitted' /\ NeverRejected' /\ WrittenLate' /\ RowLocksExclusive'
  BY <1>2, <1>3 DEF TokenInv, OneCommitted, NeverRejected, WrittenLate, RowLocksExclusive
<1>6. LockExclusive'
  BY <1>2 DEF TokenInv, LockExclusive, Holds, Active
<1>7. EnabledIsOwn'
  BY <1>2, <1>3 DEF TokenInv, EnabledIsOwn
<1>8. SeesNoOther'
  BY <1>2 DEF TokenInv, SeesNoOther, Seen
<1>9. QED
  BY <1>4, <1>5, <1>6, <1>7, <1>8 DEF TokenInv

LEMMA LockInv ==
  ASSUME TokenInv, NEW s \in Sessions, LockApnsInstallation(s)
  PROVE  TokenInv'
<1>1. /\ at[s] = "lock" /\ at'[s] = "rotate"
      /\ \A r \in Sessions \ {s} : at'[r] = at[r]
      /\ rows' = rows /\ written' = written
  BY DEF LockApnsInstallation, TokenInv, TokenTypeOK
<1>2. TokenTypeOK'
  BY DEF TokenInv, TokenTypeOK, LockApnsInstallation
<1>3. OneCommitted' /\ NeverRejected' /\ WrittenLate' /\ RowLocksExclusive' /\ EnabledIsOwn'
  BY <1>1 DEF TokenInv, OneCommitted, NeverRejected, WrittenLate, RowLocksExclusive, EnabledIsOwn
<1>4. LockExclusive'
  BY <1>1 DEF TokenInv, LockExclusive, Holds, Active, LockApnsInstallation, LockIsFree
<1>5. SeesNoOther'
  BY <1>1 DEF TokenInv, SeesNoOther, Seen
<1>6. QED
  BY <1>2, <1>3, <1>4, <1>5 DEF TokenInv

LEMMA RotateInv ==
  ASSUME TokenInv, NEW s \in Sessions, DisableRotatedApnsTokens(s)
  PROVE  TokenInv'
<1>1. /\ at[s] = "rotate" /\ at'[s] = "upsert"
      /\ \A r \in Sessions \ {s} : at'[r] = at[r] /\ written'[r] = written[r]
      /\ rows' = rows
  BY DEF DisableRotatedApnsTokens, TokenInv, TokenTypeOK
<1>2. \A k \in Keys : written[s][k] = Untouched
  BY <1>1 DEF TokenInv, WrittenLate
<1>3. \A k \in Keys :
        written'[s][k] = IF k \in Rotated(s) THEN [Seen(s, k) EXCEPT !.enabled = FALSE] ELSE Untouched
  BY <1>2 DEF DisableRotatedApnsTokens, TokenInv, TokenTypeOK
<1>4. \A k \in Keys : Seen(s, k) \in Rows
  BY SeenType DEF TokenInv
<1>5. ASSUME NEW k \in Keys
      PROVE  /\ written'[s][k] \in Rows
             /\ written'[s][k] # Untouched => k \in Rotated(s) /\ ~written'[s][k].enabled
  BY <1>3, <1>4, <1>5, DisabledRow, UntouchedType
<1>6. TokenTypeOK'
  <2>1. written' \in [Sessions -> [Keys -> Rows]]
    <3>1. written' = [written EXCEPT ![s] = written'[s]]
      BY DEF DisableRotatedApnsTokens, TokenInv, TokenTypeOK
    <3>2. written'[s] \in [Keys -> Rows]
      <4>1. written'[s] =
              [k \in Keys |-> IF k \in Rotated(s) THEN [Seen(s, k) EXCEPT !.enabled = FALSE] ELSE written[s][k]]
        BY DEF DisableRotatedApnsTokens, TokenInv, TokenTypeOK
      <4>2. QED
        BY <4>1, <1>5
    <3>3. QED
      BY <3>1, <3>2 DEF TokenInv, TokenTypeOK
  <2>2. QED
    BY <2>1 DEF DisableRotatedApnsTokens, TokenInv, TokenTypeOK
<1>7. OneCommitted' /\ NeverRejected' /\ WrittenLate'
  BY <1>1 DEF TokenInv, OneCommitted, NeverRejected, WrittenLate
<1>8. LockExclusive'
  BY <1>1 DEF TokenInv, LockExclusive, Holds, Active
<1>9. EnabledIsOwn'
  BY <1>1, <1>5 DEF TokenInv, EnabledIsOwn
<1>10. SeesNoOther'
  <2>1. SUFFICES ASSUME NEW r \in Sessions, NEW k \in Keys,
                        at'[r] \in {"upsert", "commit"}, Asked[r].provider = "apns",
                        k # KeyOf(Asked[r])
                 PROVE  ~Occupies(Seen(r, k)', Asked[r].installation)
    BY DEF SeesNoOther
  <2>2. CASE r # s
    BY <2>1, <2>2, <1>1 DEF TokenInv, SeesNoOther, Seen
  <2>3. CASE r = s /\ k \in Rotated(s)
    <3>1. Seen(r, k)' = [Seen(s, k) EXCEPT !.enabled = FALSE]
      BY <2>3, <1>3, <1>4, DisabledRow DEF Seen
    <3>2. QED
      BY <3>1, <1>4, DisabledRow
  <2>4. CASE r = s /\ k \notin Rotated(s)
    <3>1. Seen(r, k)' = Seen(s, k)
      BY <2>4, <1>1, <1>2, <1>3 DEF Seen
    <3>2. QED
      BY <3>1, <2>1, <2>4 DEF Rotated
  <2>5. QED
    BY <2>2, <2>3, <2>4
<1>11. RowLocksExclusive'
  <2>1. \A k \in Keys : written'[s][k] # Untouched => \A r \in Sessions \ {s} : written[r][k] = Untouched
    BY <1>5 DEF DisableRotatedApnsTokens, Locked
  <2>2. QED
    BY <1>1, <2>1 DEF TokenInv, RowLocksExclusive
<1>12. QED
  BY <1>6, <1>7, <1>8, <1>9, <1>10, <1>11 DEF TokenInv

\* No row can stand in the way of the one a session brings.
LEMMA NoRivals ==
  ASSUME TokenInv, NEW s \in Sessions, at[s] = "upsert"
  PROVE  Rivals(s) = {}
<1>1. \A r \in Sessions : Asked[r] \in Requests
  BY AskedAssumption
<1>2. SUFFICES ASSUME NEW k \in Rivals(s) PROVE FALSE
  OBVIOUS
<1>3. k \in Keys /\ k # KeyOf(Asked[s])
  BY DEF Rivals
<1> DEFINE i == RowOf(Asked[s]).installation
<1>4. i # NoInstallation => Asked[s].provider = "apns" /\ Asked[s].installation = i
  BY <1>1 DEF RowOf
<1>5. CASE Occupies(Seen(s, k), i)
  <2>1. i # NoInstallation
    BY <1>5 DEF Occupies
  <2>2. QED
    BY <1>3, <1>4, <1>5, <2>1 DEF TokenInv, SeesNoOther
<1>6. CASE \E r \in Sessions \ {s} : written[r][k] # Untouched /\ Occupies(written[r][k], i)
  <2>1. PICK r \in Sessions \ {s} : written[r][k] # Untouched /\ Occupies(written[r][k], i)
    BY <1>6
  <2>2. at[r] = "commit" /\ Occupies(RowOf(Asked[r]), i) /\ i # NoInstallation
    BY <1>3, <2>1 DEF TokenInv, EnabledIsOwn, Occupies
  <2>3. Asked[r].provider = "apns" /\ Asked[r].installation = i
    BY <1>1, <2>2, RowOfOccupies
  <2>4. QED
    BY <1>4, <2>2, <2>3 DEF TokenInv, LockExclusive, Holds, Active
<1>7. QED
  BY <1>5, <1>6 DEF Rivals

LEMMA UpsertInv ==
  ASSUME TokenInv, NEW s \in Sessions, UpsertPushToken(s)
  PROVE  TokenInv'
<1> DEFINE own == KeyOf(Asked[s])
<1>1. Asked[s] \in Requests /\ at[s] = "upsert"
  BY AskedAssumption DEF UpsertPushToken
<1>2. own \in Keys /\ RowOf(Asked[s]) \in Rows /\ RowOf(Asked[s]) # Untouched
  BY <1>1, RowOfType
<1>3. /\ at' = [at EXCEPT ![s] = "commit"] /\ rows' = rows
      /\ written' = [written EXCEPT ![s][own] = RowOf(Asked[s])]
      /\ ~Locked(s, own)
  BY <1>1, NoRivals DEF UpsertPushToken
<1>4. /\ at'[s] = "commit" /\ \A r \in Sessions \ {s} : at'[r] = at[r] /\ written'[r] = written[r]
      /\ written'[s][own] = RowOf(Asked[s])
      /\ \A k \in Keys \ {own} : written'[s][k] = written[s][k]
  BY <1>2, <1>3 DEF TokenInv, TokenTypeOK
<1>5. TokenTypeOK'
  BY <1>2, <1>3 DEF TokenInv, TokenTypeOK
<1>6. OneCommitted' /\ NeverRejected' /\ WrittenLate'
  BY <1>3, <1>4 DEF TokenInv, OneCommitted, NeverRejected, WrittenLate
<1>7. LockExclusive'
  BY <1>1, <1>4 DEF TokenInv, LockExclusive, Holds, Active
<1>8. EnabledIsOwn'
  <2>1. \A k \in Keys : at[s] = "upsert" => (written[s][k] # Untouched => ~written[s][k].enabled)
    BY DEF TokenInv, EnabledIsOwn
  <2>2. QED
    BY <1>1, <1>4, <2>1 DEF TokenInv, EnabledIsOwn
<1>9. SeesNoOther'
  BY <1>1, <1>3, <1>4 DEF TokenInv, SeesNoOther, Seen
<1>10. RowLocksExclusive'
  BY <1>3, <1>4 DEF TokenInv, RowLocksExclusive, Locked
<1>11. QED
  BY <1>5, <1>6, <1>7, <1>8, <1>9, <1>10 DEF TokenInv

LEMMA CommitInv ==
  ASSUME TokenInv, NEW s \in Sessions, Commit(s)
  PROVE  TokenInv'
<1>1. at[s] = "commit" /\ \A r \in Sessions : Asked[r] \in Requests
  BY AskedAssumption DEF Commit
<1>2. /\ at'[s] = "done" /\ \A r \in Sessions \ {s} : at'[r] = at[r] /\ written'[r] = written[r]
      /\ \A k \in Keys : rows'[k] = Seen(s, k) /\ written'[s][k] = Untouched
  BY DEF Commit, TokenInv, TokenTypeOK
\* A row that the commit makes an enabled one of an installation is the session's own.
<1>3. ASSUME NEW k \in Keys, NEW i, Occupies(Seen(s, k), i), ~Occupies(rows[k], i)
      PROVE  k = KeyOf(Asked[s]) /\ Asked[s].provider = "apns" /\ Asked[s].installation = i
  <2>1. written[s][k] # Untouched /\ Occupies(written[s][k], i)
    BY <1>3 DEF Seen
  <2>2. k = KeyOf(Asked[s]) /\ Occupies(RowOf(Asked[s]), i)
    BY <2>1 DEF TokenInv, EnabledIsOwn, Occupies
  <2>3. QED
    BY <1>1, <2>2, RowOfOccupies
<1>4. TokenTypeOK'
  <2>1. rows' \in [Keys -> Rows]
    BY SeenType DEF Commit, TokenInv
  <2>2. QED
    BY <2>1, UntouchedType DEF Commit, TokenInv, TokenTypeOK
<1>5. OneCommitted'
  <2>1. SUFFICES ASSUME NEW i \in Installations, NEW k \in Keys, NEW l \in Keys,
                        Occupies(Seen(s, k), i), Occupies(Seen(s, l), i), k # l
                 PROVE  FALSE
    BY <1>2 DEF OneCommitted
  <2>2. Occupies(rows[k], i) \/ Occupies(rows[l], i)
    BY <1>3, <2>1
  <2>3. ~(Occupies(rows[k], i) /\ Occupies(rows[l], i))
    BY <2>1 DEF TokenInv, OneCommitted
  <2>4. CASE ~Occupies(rows[k], i)
    BY <1>1, <1>3, <2>1, <2>4 DEF TokenInv, SeesNoOther
  <2>5. CASE ~Occupies(rows[l], i)
    BY <1>1, <1>3, <2>1, <2>5 DEF TokenInv, SeesNoOther
  <2>6. QED
    BY <2>3, <2>4, <2>5
<1>6. NeverRejected' /\ WrittenLate' /\ RowLocksExclusive'
  BY <1>2 DEF TokenInv, NeverRejected, WrittenLate, RowLocksExclusive
<1>7. LockExclusive'
  BY <1>2 DEF TokenInv, LockExclusive, Holds, Active
<1>8. EnabledIsOwn'
  BY <1>2 DEF TokenInv, EnabledIsOwn
<1>9. SeesNoOther'
  <2>1. SUFFICES ASSUME NEW r \in Sessions, NEW k \in Keys,
                        at'[r] \in {"upsert", "commit"}, Asked[r].provider = "apns",
                        k # KeyOf(Asked[r])
                 PROVE  ~Occupies(Seen(r, k)', Asked[r].installation)
    BY DEF SeesNoOther
  <2> DEFINE i == Asked[r].installation
  <2>2. r # s /\ at[r] \in {"upsert", "commit"} /\ ~Occupies(Seen(r, k), i)
    BY <1>2, <2>1 DEF TokenInv, SeesNoOther
  <2>3. CASE written[r][k] # Untouched
    BY <1>2, <2>2, <2>3 DEF Seen
  <2>4. CASE written[r][k] = Untouched
    <3>1. Seen(r, k)' = Seen(s, k) /\ ~Occupies(rows[k], i)
      BY <1>2, <2>2, <2>4 DEF Seen
    <3>2. Occupies(Seen(s, k), i) => FALSE
      BY <1>1, <1>3, <2>1, <2>2, <3>1 DEF TokenInv, LockExclusive, Holds, Active
    <3>3. QED
      BY <3>1, <3>2
  <2>5. QED
    BY <2>3, <2>4
<1>10. QED
  BY <1>4, <1>5, <1>6, <1>7, <1>8, <1>9 DEF TokenInv

\* A session, or with the process every one, may be rolled back at any time.
LEMMA AbortedInv ==
  ASSUME TokenInv, NEW S \in SUBSET Sessions,
         at' \in [Sessions -> {"idle", "refused", "lock", "rotate", "upsert", "commit",
                               "done", "rejected", "aborted"}],
         \A s \in S : at'[s] \in {"idle", "refused", "done", "aborted"},
         \A s \in Sessions \ S : at'[s] = at[s],
         written' = [s \in Sessions |-> IF s \in S THEN [k \in Keys |-> Untouched] ELSE written[s]],
         rows' = rows
  PROVE  TokenInv'
<1>1. /\ \A s \in S, k \in Keys : written'[s][k] = Untouched
      /\ \A s \in Sessions \ S : written'[s] = written[s]
  OBVIOUS
<1>2. TokenTypeOK'
  BY UntouchedType DEF TokenInv, TokenTypeOK
<1>3. OneCommitted' /\ NeverRejected' /\ WrittenLate' /\ RowLocksExclusive' /\ EnabledIsOwn'
  BY <1>1 DEF TokenInv, OneCommitted, NeverRejected, WrittenLate, RowLocksExclusive, EnabledIsOwn
<1>4. LockExclusive'
  BY DEF TokenInv, LockExclusive, Holds, Active
<1>5. SeesNoOther'
  BY <1>1 DEF TokenInv, SeesNoOther, Seen
<1>6. QED
  BY <1>2, <1>3, <1>4, <1>5 DEF TokenInv

LEMMA AbortInv ==
  ASSUME TokenInv, NEW s \in Sessions, Abort(s)
  PROVE  TokenInv'
<1>1. written' = [r \in Sessions |-> IF r \in {s} THEN [k \in Keys |-> Untouched] ELSE written[r]]
  BY DEF Abort, TokenInv, TokenTypeOK
<1>2. /\ at' \in [Sessions -> {"idle", "refused", "lock", "rotate", "upsert", "commit",
                               "done", "rejected", "aborted"}]
      /\ at'[s] = "aborted" /\ \A r \in Sessions \ {s} : at'[r] = at[r]
      /\ rows' = rows
  BY DEF Abort, TokenInv, TokenTypeOK
<1>3. QED
  BY <1>1, <1>2, AbortedInv

LEMMA DisabledInv ==
  ASSUME TokenInv, NEW k \in Keys, Unlocked(k), rows' = Disabled(k), at' = at, written' = written
  PROVE  TokenInv'
<1>1. rows[k] \in Rows
  BY DEF TokenInv, TokenTypeOK
<1>2. /\ rows'[k] = [rows[k] EXCEPT !.enabled = FALSE]
      /\ \A l \in Keys \ {k} : rows'[l] = rows[l]
  BY DEF Disabled, TokenInv, TokenTypeOK
<1>3. \A i : ~Occupies(rows'[k], i)
  BY <1>1, <1>2, DisabledRow
<1>4. TokenTypeOK'
  BY <1>1, DisabledRow DEF Disabled, TokenInv, TokenTypeOK
<1>5. OneCommitted'
  BY <1>2, <1>3 DEF TokenInv, OneCommitted
<1>6. NeverRejected' /\ WrittenLate' /\ RowLocksExclusive' /\ EnabledIsOwn' /\ LockExclusive'
  BY DEF TokenInv, NeverRejected, WrittenLate, RowLocksExclusive, EnabledIsOwn, LockExclusive,
         Holds, Active
<1>7. SeesNoOther'
  BY <1>2, <1>3 DEF TokenInv, SeesNoOther, Seen, Unlocked
<1>8. QED
  BY <1>4, <1>5, <1>6, <1>7 DEF TokenInv

LEMMA TokenStepInv == TokenInv /\ [TokenNext]_tokenVars => TokenInv'
<1>1. SUFFICES ASSUME TokenInv, [TokenNext]_tokenVars PROVE TokenInv'
  OBVIOUS
<1>2. ASSUME NEW s \in Sessions, RegistrationStep(s) PROVE TokenInv'
  BY <1>1, <1>2, BeginInv, LockInv, RotateInv, UpsertInv, CommitInv, AbortInv DEF RegistrationStep
<1>3. ASSUME NEW u \in Users, NEW k \in Keys, DisablePushToken(u, k) PROVE TokenInv'
  BY <1>1, <1>3, DisabledInv DEF DisablePushToken
<1>4. CASE UNCHANGED tokenVars
  BY <1>1, <1>4 DEF tokenVars, TokenInv, TokenTypeOK, OneCommitted, NeverRejected, WrittenLate,
     LockExclusive, Holds, Active, EnabledIsOwn, SeesNoOther, Seen, RowLocksExclusive
<1>5. QED
  BY <1>1, <1>2, <1>3, <1>4 DEF TokenNext

LEMMA TokenInvImplies == TokenInv => InstallationsHoldOneToken
BY DEF TokenInv, OneCommitted, NeverRejected, InstallationsHoldOneToken

\* Registrations alone: however many there are, of whatever tokens and
\* installations, none fails on the index and no installation has two tokens.
THEOREM RegistrationsHold == TokenSpec => []InstallationsHoldOneToken
<1>1. TokenInit => TokenInv
  BY TokenInitInv
<1>2. TokenInv /\ [TokenNext]_tokenVars => TokenInv'
  BY TokenStepInv
<1>3. TokenInv => InstallationsHoldOneToken
  BY TokenInvImplies
<1>4. QED
  BY <1>1, <1>2, <1>3, PTL DEF TokenSpec


-----------------------------------------------------------------------------
(* The tokens beside the notifications                                     *)

\* The process ends: what was not committed is forgotten.
LEMMA CrashInv ==
  ASSUME TokenInv, Crash
  PROVE  TokenInv'
<1>1. at' \in [Sessions -> {"idle", "refused", "lock", "rotate", "upsert", "commit",
                            "done", "rejected", "aborted"}]
  BY DEF Crash, TokenInv, TokenTypeOK
<1>2. \A s \in Sessions : at'[s] \in {"idle", "refused", "done", "aborted"}
  BY DEF Crash, TokenInv, TokenTypeOK, NeverRejected
<1>3. rows' = rows
      /\ written' = [s \in Sessions |-> IF s \in Sessions THEN [k \in Keys |-> Untouched] ELSE written[s]]
  BY DEF Crash
<1>4. QED
  BY <1>1, <1>2, <1>3, AbortedInv

\* A row that is not there cannot be disabled.
LEMMA NothingDisabled ==
  ASSUME TokenInv, NEW k, k \notin Keys
  PROVE  Disabled(k) = rows
BY DEF Disabled, TokenInv, TokenTypeOK

\* A recorded answer may disable a token, as a user may.
LEMMA RecordInv ==
  ASSUME TokenInv, NEW n \in Notes, NEW a \in sending[n].attempts, RecordPushDeliveryAttempt(n, a)
  PROVE  TokenInv'
<1>1. at' = at /\ written' = written
  BY DEF RecordPushDeliveryAttempt
<1>2. CASE UNCHANGED rows
  BY <1>1, <1>2, TokenStepInv DEF tokenVars
<1>3. CASE Unlocked(a.target) /\ rows' = Disabled(a.target) /\ a.target \in Keys
  BY <1>1, <1>3, DisabledInv
<1>4. CASE rows' = Disabled(a.target) /\ a.target \notin Keys
  BY <1>2, <1>4, NothingDisabled
<1>5. QED
  BY <1>2, <1>3, <1>4 DEF RecordPushDeliveryAttempt

\* Sockets, and readers, have nothing to do with the tokens.
LEMMA SocketsLeaveTokens == SocketNext => UNCHANGED tokenVars
BY DEF SocketNext, Connect, Vanish, Close, ReadCount, BroadcastCount, AnswerConnected,
       TellCreated, SettleInApp, TellMessage

LEMMA NotesLeaveTokens == NoteNext => UNCHANGED tokenVars
BY DEF NoteNext, MarkNotificationRead, ArchiveNotification, CreateNotification, CreateMessage,
       MarkAllNotificationsRead

\* Of the askings only the record touches a token.
LEMMA PushesKeepInv == TokenInv /\ PushNext => TokenInv'
<1>1. SUFFICES ASSUME TokenInv, NEW n \in Notes,
                      \/ DispatchPushNotifications(n)
                      \/ \E k \in Keys, outcome \in Outcomes : AnswerApns(n, k, outcome)
                      \/ \E tickets : AnswerExpoChunk(n, tickets)
                      \/ \E a \in sending[n].attempts : RecordPushDeliveryAttempt(n, a)
               PROVE  TokenInv'
  BY DEF PushNext
<1>2. CASE DispatchPushNotifications(n)
  BY <1>1, <1>2, TokenStepInv DEF DispatchPushNotifications
<1>3. CASE \E k \in Keys, outcome \in Outcomes : AnswerApns(n, k, outcome)
  BY <1>1, <1>3, TokenStepInv DEF AnswerApns
<1>4. CASE \E tickets : AnswerExpoChunk(n, tickets)
  BY <1>1, <1>4, TokenStepInv DEF AnswerExpoChunk
<1>5. CASE \E a \in sending[n].attempts : RecordPushDeliveryAttempt(n, a)
  BY <1>1, <1>5, RecordInv
<1>6. QED
  BY <1>1, <1>2, <1>3, <1>4, <1>5

\* Every step keeps the invariant of the tokens.
LEMMA StepInv == TokenInv /\ [Next]_vars => TokenInv'
<1>1. TokenInv /\ TokenNext => TokenInv'
  BY TokenStepInv
<1>2. TokenInv /\ UNCHANGED tokenVars => TokenInv'
  BY TokenStepInv
<1>3. CASE UNCHANGED vars
  BY <1>2, <1>3 DEF vars
<1>4. QED
  BY <1>1, <1>2, <1>3, SocketsLeaveTokens, NotesLeaveTokens, PushesKeepInv, CrashInv DEF Next

\* However registrations, deliveries that give tokens up, users who disable
\* their own and crashes interleave, an installation has one enabled token at
\* most and no registration fails on the index.
THEOREM InstallationsHold == Spec => []InstallationsHoldOneToken
<1>1. Init => TokenInv
  BY TokenInitInv DEF Init
<1>2. TokenInv /\ [Next]_vars => TokenInv'
  BY StepInv
<1>3. TokenInv => InstallationsHoldOneToken
  BY TokenInvImplies
<1>4. QED
  BY <1>1, <1>2, <1>3, PTL DEF Spec

-----------------------------------------------------------------------------
(* Deliveries and what the providers have said of them                     *)

Statuses == {"none", "pending", "retried", "delivered", "failed"}
Said == Outcomes \cup {"nothing"}

\* The tokens a provider has still to answer for, and those whose answer has
\* still to be recorded.
Unanswered(s) == s.awaited \cup {s.queue[i] : i \in s.cut + 1 .. Len(s.queue)}
Unrecorded(s) == {a.target : a \in s.attempts}

\* What the deliveries p of one notification have to do with the asking s and
\* with what was said w.  A delivery waits for exactly one answer or record, and
\* Expo's targets are found where its messages are.
PushesKept(s, p, w) ==
  /\ s.cut <= Len(s.queue) /\ s.chunkStart = s.cut
  /\ \A i, j \in 1..Len(s.queue) : s.queue[i] = s.queue[j] => i = j
  /\ \A i \in 1..Len(s.queue) : s.queue[i] \notin s.awaited
  /\ s.at # "asked" => s.awaited = {} /\ s.queue = <<>> /\ s.attempts = {}
  /\ \A k \in Unanswered(s) : p[k] = "pending" /\ k \notin Unrecorded(s)
  /\ \A a \in s.attempts : p[a.target] = "pending" /\ w[a.target] = a.outcome
  /\ s.at = "asked" =>
       \A k \in Keys : p[k] = "pending" => k \in Unanswered(s) \cup Unrecorded(s)
  /\ \A k \in Keys :
       /\ p[k] = "delivered" => w[k] = "accepted"
       /\ p[k] = "retried" => w[k] = "retryable"
       /\ p[k] = "failed" => w[k] \in {"failed", "rejected"}

-----------------------------------------------------------------------------
(* Asking the providers keeps the deliveries and the answers together      *)

\* A set that is asked one by one: every member once.
LEMMA QueueOfSet ==
  ASSUME NEW S, IsFiniteSet(S)
  PROVE  /\ SetToSeq(S) \in Seq(S)
         /\ \A i, j \in 1..Len(SetToSeq(S)) : SetToSeq(S)[i] = SetToSeq(S)[j] => i = j
         /\ \A k \in S : \E i \in 1..Len(SetToSeq(S)) : SetToSeq(S)[i] = k
<1> DEFINE n == Cardinality(S)
           q == SetToSeq(S)
<1>1. n \in Nat /\ ExistsBijection(1..n, S)
  BY FS_CardinalityType
<1>2. \E f \in [1..n -> S] : IsInjective(f)
  BY <1>1 DEF ExistsBijection, Bijection, Injection
<1>3. q \in [1..n -> S] /\ IsInjective(q)
  BY <1>2 DEF SetToSeq
<1>4. q \in Seq(S) /\ Len(q) = n
  BY <1>1, <1>3
<1>5. q \in Injection(1..n, S)
  BY <1>3 DEF Injection
<1>6. Cardinality(1..n) = n
  BY <1>1, FS_Interval
<1>7. q \in Surjection(1..n, S)
  BY <1>5, <1>6, FS_Injection
<1>8. \A k \in S : \E i \in 1..n : q[i] = k
  BY <1>7 DEF Surjection
<1> QED
  BY <1>3, <1>4, <1>8 DEF IsInjective

\* A member of Expo's queue.
LEMMA QueueTyped ==
  ASSUME NEW s \in SendingType
  PROVE  /\ s.queue \in Seq(Keys) /\ Len(s.queue) \in Nat /\ s.cut \in Nat /\ s.chunkStart \in Nat
         /\ \A i \in 1..Len(s.queue) : s.queue[i] \in Keys
         /\ s.awaited \subseteq Keys
         /\ s.attempts \subseteq [target : Keys, outcome : Outcomes]
BY DEF SendingType

\* The answer of APNs for one device.
LEMMA ApnsKept ==
  ASSUME NEW s \in SendingType, NEW p \in [Keys -> Statuses], NEW w \in [Keys -> Said],
         PushesKept(s, p, w), NEW k \in s.awaited, NEW outcome \in Outcomes,
         NEW t \in SendingType, t.at = s.at, t.queue = s.queue, t.cut = s.cut,
         t.chunkStart = s.chunkStart, t.awaited = s.awaited \ {k},
         t.attempts = s.attempts \cup {Attempt(k, outcome)}
  PROVE  PushesKept(t, p, [w EXCEPT ![k] = outcome])
<1> DEFINE v == [w EXCEPT ![k] = outcome]
<1>1. k \in Keys /\ p[k] = "pending" /\ k \notin Unrecorded(s)
  BY QueueTyped DEF PushesKept, Unanswered
<1>2. v[k] = outcome /\ \A l \in Keys \ {k} : v[l] = w[l]
  BY <1>1
<1>3. k \notin {s.queue[i] : i \in s.cut + 1 .. Len(s.queue)}
  BY QueueTyped DEF PushesKept
<1>4. Unanswered(t) = Unanswered(s) \ {k}
  BY <1>3 DEF Unanswered
<1>5. Unrecorded(t) = Unrecorded(s) \cup {k}
  <2>1. Attempt(k, outcome).target = k
    BY DEF Attempt
  <2> QED
    BY <2>1 DEF Unrecorded
<1>6. \A a \in s.attempts : a.target \in Keys \ {k}
  BY <1>1, QueueTyped DEF Unrecorded
<1>7. \A a \in t.attempts : p[a.target] = "pending" /\ v[a.target] = a.outcome
  BY <1>1, <1>2, <1>6 DEF PushesKept, Attempt
<1>8. \A l \in Keys : /\ p[l] = "delivered" => v[l] = "accepted"
                      /\ p[l] = "retried" => v[l] = "retryable"
                      /\ p[l] = "failed" => v[l] \in {"failed", "rejected"}
  BY <1>1, <1>2 DEF PushesKept
<1>9. s.at = "asked"
  BY DEF PushesKept
<1>10. \A l \in Unanswered(t) : p[l] = "pending" /\ l \notin Unrecorded(t)
  BY <1>4, <1>5 DEF PushesKept
<1>11. \A l \in Keys : p[l] = "pending" => l \in Unanswered(t) \cup Unrecorded(t)
  BY <1>4, <1>5, <1>9 DEF PushesKept
<1> HIDE DEF v
<1> QED
  BY <1>7, <1>8, <1>9, <1>10, <1>11 DEF PushesKept, v

\* The tickets of Expo for the next chunk.
LEMMA ExpoKept ==
  ASSUME NEW s \in SendingType, NEW p \in [Keys -> Statuses], NEW w \in [Keys -> Said],
         PushesKept(s, p, w), s.at = "asked", NEW length \in Nat, s.cut + length <= Len(s.queue),
         NEW o \in [1..length -> Outcomes],
         NEW t \in SendingType, t.at = s.at, t.queue = s.queue, t.cut = s.cut + length,
         t.chunkStart = s.chunkStart + length, t.awaited = s.awaited,
         \A a : a \in t.attempts <=>
           a \in s.attempts \/ \E j \in 1..length : a = Attempt(s.queue[s.chunkStart + j], o[j]),
         NEW v \in [Keys -> Said],
         \A j \in 1..length : v[s.queue[s.cut + j]] = o[j],
         \A k \in Keys : (\A j \in 1..length : s.queue[s.cut + j] # k) => v[k] = w[k]
  PROVE  PushesKept(t, p, v)
<1> DEFINE q == s.queue
           start == s.cut
           Chunk == {q[start + j] : j \in 1..length}
<1>1. /\ q \in Seq(Keys) /\ Len(q) \in Nat /\ start \in Nat /\ s.chunkStart = start
      /\ \A i, j \in 1..Len(q) : q[i] = q[j] => i = j
  BY QueueTyped DEF PushesKept
<1>2. \A j \in 1..length : start + j \in start + 1 .. Len(q) /\ start + j \in 1..Len(q)
  BY <1>1
<1>3. \A j \in 1..length : q[start + j] \in Keys /\ q[start + j] \in Unanswered(s)
  BY <1>1, <1>2 DEF Unanswered
<1>4. \A j \in 1..length : v[q[start + j]] = o[j]
  OBVIOUS
<1>5. \A k \in Keys \ Chunk : v[k] = w[k]
  <2> TAKE k \in Keys \ Chunk
  <2>1. \A j \in 1..length : q[start + j] # k
    OBVIOUS
  <2> QED
    BY <2>1
<1>6. Chunk \subseteq Unanswered(s) /\ \A k \in Chunk : k \notin Unrecorded(s) /\ p[k] = "pending"
  BY <1>3 DEF PushesKept
<1>7. Unrecorded(t) = Unrecorded(s) \cup Chunk
  <2> DEFINE New(j) == Attempt(q[s.chunkStart + j], o[j])
  <2>1. \A j \in 1..length : New(j).target = q[start + j]
    BY <1>1 DEF Attempt
  <2>2. t.attempts = s.attempts \cup {New(j) : j \in 1..length}
    <3> HIDE DEF New
    <3>1. \A a : a \in t.attempts <=> a \in s.attempts \/ \E j \in 1..length : a = New(j)
      BY DEF New
    <3> QED
      BY <3>1
  <2>3. Unrecorded(t) = Unrecorded(s) \cup {New(j).target : j \in 1..length}
    <3> HIDE DEF New
    <3> QED
      BY <2>2 DEF Unrecorded
  <2>4. {New(j).target : j \in 1..length} = Chunk
    <3> HIDE DEF New
    <3> QED
      BY <2>1
  <2> QED
    BY <2>3, <2>4
<1>8. Unanswered(t) = Unanswered(s) \ Chunk
  <2>1. \A i \in start + 1 .. Len(q) : q[i] \in Chunk <=> i \in start + 1 .. start + length
    <3> TAKE i \in start + 1 .. Len(q)
    <3>1. ASSUME i \in start + 1 .. start + length PROVE q[i] \in Chunk
      <4>1. i - start \in 1..length /\ start + (i - start) = i
        BY <1>1, <3>1
      <4> QED
        BY <4>1
    <3>2. ASSUME q[i] \in Chunk PROVE i \in start + 1 .. start + length
      <4>1. PICK j \in 1..length : q[i] = q[start + j]
        BY <3>2
      <4>2. i = start + j
        BY <1>1, <1>2, <4>1
      <4> QED
        BY <1>1, <4>2
    <3> QED
      BY <3>1, <3>2
  <2>2. \A k \in s.awaited : k \notin Chunk
    BY <1>2 DEF PushesKept
  <2>4. Unanswered(t) = s.awaited \cup {q[i] : i \in start + length + 1 .. Len(q)}
    BY DEF Unanswered
  <2>3. {q[i] : i \in start + length + 1 .. Len(q)} = {q[i] : i \in start + 1 .. Len(q)} \ Chunk
    <3>1. \A i : i \in start + length + 1 .. Len(q) <=>
                   i \in start + 1 .. Len(q) /\ i \notin start + 1 .. start + length
      BY <1>1
    <3> HIDE DEF Chunk
    <3> QED
      BY <2>1, <3>1
  <2> HIDE DEF Chunk, q, start
  <2> QED
    BY <2>2, <2>3, <2>4 DEF Unanswered, q, start
<1>9. \A a \in s.attempts : a.target \in Keys \ Chunk
  <2>1. \A a \in s.attempts : a.target \in Keys /\ a.target \in Unrecorded(s)
    BY QueueTyped DEF Unrecorded
  <2> HIDE DEF Chunk
  <2> QED
    BY <1>6, <2>1
<1>10. \A a \in t.attempts : p[a.target] = "pending" /\ v[a.target] = a.outcome
  <2> TAKE a \in t.attempts
  <2>1. CASE a \in s.attempts
    BY <1>5, <1>9, <2>1 DEF PushesKept
  <2>2. CASE \E j \in 1..length : a = Attempt(q[start + j], o[j])
    BY <1>4, <1>6, <2>2 DEF Attempt
  <2> QED
    BY <1>1, <2>1, <2>2
<1>11. \A l \in Keys : /\ p[l] = "delivered" => v[l] = "accepted"
                       /\ p[l] = "retried" => v[l] = "retryable"
                       /\ p[l] = "failed" => v[l] \in {"failed", "rejected"}
  <2> HIDE DEF Chunk
  <2> QED
    BY <1>5, <1>6 DEF PushesKept
<1>12. \A l \in Unanswered(t) : p[l] = "pending" /\ l \notin Unrecorded(t)
  BY <1>7, <1>8 DEF PushesKept
<1>13. \A l \in Keys : p[l] = "pending" => l \in Unanswered(t) \cup Unrecorded(t)
  BY <1>7, <1>8 DEF PushesKept
<1>14. t.cut <= Len(t.queue) /\ t.chunkStart = t.cut
  BY <1>1
<1> QED
  BY <1>10, <1>11, <1>12, <1>13, <1>14 DEF PushesKept

\* One answer is recorded.
LEMMA RecordKept ==
  ASSUME NEW s \in SendingType, NEW p \in [Keys -> Statuses], NEW w \in [Keys -> Said],
         PushesKept(s, p, w), NEW a \in s.attempts,
         NEW t \in SendingType, t.at = s.at, t.queue = s.queue, t.cut = s.cut,
         t.chunkStart = s.chunkStart, t.awaited = s.awaited, t.attempts = s.attempts \ {a}
  PROVE  /\ PushesKept(t, [p EXCEPT ![a.target] = StatusOf(a.outcome)], w)
         /\ [p EXCEPT ![a.target] = StatusOf(a.outcome)] \in [Keys -> Statuses]
<1> DEFINE k == a.target
           r == [p EXCEPT ![k] = StatusOf(a.outcome)]
<1>1. /\ k \in Keys /\ w[k] = a.outcome /\ a.outcome \in Outcomes
      /\ \A b \in s.attempts : b.target = k => b = a
  <2>1. \A b \in s.attempts : b \in [target : Keys, outcome : Outcomes] /\ w[b.target] = b.outcome
    BY QueueTyped DEF PushesKept
  <2> QED
    BY <2>1
<1>2. StatusOf(a.outcome) \in Statuses \ {"none", "pending"}
  BY <1>1 DEF StatusOf, Statuses
<1>3. r \in [Keys -> Statuses] /\ r[k] = StatusOf(a.outcome) /\ \A l \in Keys \ {k} : r[l] = p[l]
  BY <1>1, <1>2
<1>4. Unanswered(t) = Unanswered(s) /\ k \notin Unanswered(s)
  BY DEF Unanswered, Unrecorded, PushesKept
<1>5. Unrecorded(t) = Unrecorded(s) \ {k}
  BY <1>1 DEF Unrecorded
<1>6. \A l \in Unanswered(t) : r[l] = "pending" /\ l \notin Unrecorded(t)
  <2>1. Unanswered(s) \subseteq Keys
    BY QueueTyped DEF Unanswered
  <2> QED
    BY <1>3, <1>4, <1>5, <2>1 DEF PushesKept
<1>7. \A b \in t.attempts : r[b.target] = "pending" /\ w[b.target] = b.outcome
  BY <1>1, <1>3, QueueTyped DEF PushesKept
<1>8. \A l \in Keys : r[l] = "pending" => l # k
  BY <1>2, <1>3
<1>9. s.at = "asked"
  BY DEF PushesKept
<1>10. \A l \in Keys : r[l] = "pending" => l \in Unanswered(t) \cup Unrecorded(t)
  BY <1>3, <1>4, <1>5, <1>8, <1>9 DEF PushesKept
<1>11. \A l \in Keys : /\ r[l] = "delivered" => w[l] = "accepted"
                       /\ r[l] = "retried" => w[l] = "retryable"
                       /\ r[l] = "failed" => w[l] \in {"failed", "rejected"}
  <2>1. /\ r[k] = "delivered" => w[k] = "accepted"
        /\ r[k] = "retried" => w[k] = "retryable"
        /\ r[k] = "failed" => w[k] \in {"failed", "rejected"}
    BY <1>1, <1>3 DEF StatusOf, Outcomes
  <2> HIDE DEF r, k
  <2> QED
    BY <1>3, <2>1 DEF PushesKept
<1> HIDE DEF r
<1> QED
  BY <1>3, <1>6, <1>7, <1>9, <1>10, <1>11 DEF PushesKept, r
\* The keys of a finite set of tokens.
LEMMA KeysFinite == IsFiniteSet(Keys)
<1>1. IsFiniteSet({"expo"}) /\ IsFiniteSet({"apns"})
  BY FS_Singleton
<1>2. IsFiniteSet({"expo"} \cup {"apns"})
  BY <1>1, FS_Union
<1>3. {"expo", "apns"} = {"expo"} \cup {"apns"}
  OBVIOUS
<1>4. IsFiniteSet({"expo", "apns"})
  BY <1>2, <1>3
<1> QED
  BY <1>4, FiniteAssumption, FS_Product DEF Keys

PushTyped ==
  /\ push \in [Notes -> [Keys -> Statuses]]
  /\ sending \in [Notes -> SendingType]
  /\ said \in [Notes -> [Keys -> Said]]

PushInv == PushTyped /\ \A n \in Notes : PushesKept(sending[n], push[n], said[n])

\* The providers are asked.
LEMMA DispatchInv ==
  ASSUME PushInv, NEW n \in Notes, DispatchPushNotifications(n)
  PROVE  PushInv'
<1> DEFINE targets == {k \in Keys : push[n][k] = "pending"}
           apns == {k \in targets : k[1] = "apns"}
           given == targets \cap Malformed
           rest == (targets \ apns) \ given
           s == sending[n]
           c == content[n]
<1>1. /\ s \in SendingType /\ s.at = "due" /\ s.awaited = {} /\ s.queue = <<>> /\ s.attempts = {}
      /\ s.cut = 0 /\ s.chunkStart = 0
      /\ push[n] \in [Keys -> Statuses] /\ said[n] \in [Keys -> Said]
  <2>1. s \in SendingType /\ s.at = "due" /\ push[n] \in [Keys -> Statuses] /\ said[n] \in [Keys -> Said]
    BY DEF DispatchPushNotifications, PushInv, PushTyped
  <2>2. /\ s.awaited = {} /\ s.queue = <<>> /\ s.attempts = {}
        /\ s.cut <= Len(s.queue) /\ s.chunkStart = s.cut
    BY <2>1 DEF PushInv, PushesKept
  <2> QED
    BY <2>1, <2>2, QueueTyped
<1>2. PICK configured \in BOOLEAN :
        LET unasked == IF configured THEN {} ELSE apns
            Judge(k) == IF k \in unasked THEN "failed" ELSE IF k \in given THEN "rejected" ELSE said[n][k]
        IN /\ sending' = [sending EXCEPT ![n].at = "asked",
                                         ![n].awaited = apns \ unasked,
                                         ![n].queue = SetToSeq(rest),
                                         ![n].attempts = {Attempt(k, Judge(k)) : k \in unasked \cup given}]
           /\ said' = [said EXCEPT ![n] = [k \in Keys |-> Judge(k)]]
  BY DEF DispatchPushNotifications
<1> DEFINE unasked == IF configured THEN {} ELSE apns
           Judge(k) == IF k \in unasked THEN "failed" ELSE IF k \in given THEN "rejected" ELSE said[n][k]
           t == sending'[n]
           v == said'[n]
<1>3. push' = push
  BY DEF DispatchPushNotifications, noteVars
<1>4. /\ apns \subseteq targets /\ given \subseteq targets /\ unasked \subseteq apns
      /\ apns \cap given = {} /\ targets \subseteq Keys
  BY MalformedAssumption
<1>5. /\ rest \subseteq Keys /\ SetToSeq(rest) \in Seq(rest)
      /\ \A i, j \in 1..Len(SetToSeq(rest)) : SetToSeq(rest)[i] = SetToSeq(rest)[j] => i = j
      /\ \A k \in rest : \E i \in 1..Len(SetToSeq(rest)) : SetToSeq(rest)[i] = k
  <2>1. rest \in SUBSET Keys
    OBVIOUS
  <2>2. IsFiniteSet(rest)
    BY <2>1, KeysFinite, FS_Subset
  <2> QED
    BY <2>1, <2>2, QueueOfSet
<1> HIDE DEF apns, given, rest
<1>6. \A k \in Keys : Judge(k) \in Said
  BY <1>1 DEF Said, Outcomes
<1>7. \A k \in unasked \cup given : Judge(k) \in {"failed", "rejected"}
  OBVIOUS
<1>8. \A k \in Keys \ targets : Judge(k) = said[n][k]
  BY <1>4
<1> DEFINE attempts == {Attempt(k, Judge(k)) : k \in unasked \cup given}
<1>9. \A k \in unasked \cup given : Attempt(k, Judge(k)).target = k /\ Attempt(k, Judge(k)).outcome = Judge(k)
  BY DEF Attempt
<1>10. attempts \subseteq [target : Keys, outcome : Outcomes]
  <2>1. \A k \in unasked \cup given : k \in Keys /\ Judge(k) \in Outcomes
    BY <1>4, <1>7 DEF Outcomes
  <2> HIDE DEF Judge, unasked
  <2> QED
    BY <2>1 DEF Attempt
<1>11. /\ t = [s EXCEPT !.at = "asked", !.awaited = apns \ unasked, !.queue = SetToSeq(rest),
                        !.attempts = attempts]
       /\ \A m \in Notes \ {n} : sending'[m] = sending[m]
       /\ sending' \in [Notes -> SendingType]
  <2> DEFINE u == [s EXCEPT !.at = "asked", !.awaited = apns \ unasked, !.queue = SetToSeq(rest),
                            !.attempts = attempts]
  <2>1. SetToSeq(rest) \in Seq(Keys) /\ apns \ unasked \subseteq Keys
    BY <1>4, <1>5, SeqMonotonic
  <2>2. u \in SendingType
    <3> HIDE DEF attempts, unasked, targets, s
    <3> QED
      BY <1>1, <1>10, <2>1 DEF SendingType
  <2>3. sending' = [sending EXCEPT ![n] = u]
    <3> HIDE DEF attempts
    <3> QED
      BY <1>2 DEF attempts
  <2> HIDE DEF u
  <2>4. t = u /\ (\A m \in Notes \ {n} : sending'[m] = sending[m]) /\ sending' \in [Notes -> SendingType]
    BY <2>2, <2>3 DEF PushInv, PushTyped
  <2> QED
    BY <2>4 DEF u
<1>12. /\ v = [k \in Keys |-> Judge(k)]
       /\ \A m \in Notes \ {n} : said'[m] = said[m]
       /\ said' \in [Notes -> [Keys -> Said]]
  <2> DEFINE f == [k \in Keys |-> Judge(k)]
  <2>1. f \in [Keys -> Said]
    BY <1>6
  <2>2. said' = [said EXCEPT ![n] = f]
    BY <1>2
  <2> HIDE DEF f
  <2>3. v = f /\ (\A m \in Notes \ {n} : said'[m] = said[m]) /\ said' \in [Notes -> [Keys -> Said]]
    BY <2>1, <2>2 DEF PushInv, PushTyped
  <2> QED
    BY <2>3 DEF f
<1>13. /\ t.at = "asked" /\ t.awaited = apns \ unasked /\ t.queue = SetToSeq(rest)
       /\ t.attempts = attempts /\ t.cut = 0 /\ t.chunkStart = 0
  <2> HIDE DEF attempts, unasked, s, t
  <2> QED
    BY <1>1, <1>11 DEF SendingType
<1>14. PushesKept(t, push[n], v)
  <2>1. \A k \in Keys : v[k] = Judge(k)
    BY <1>12
  <2>2. Unrecorded(t) = unasked \cup given
    <3>1. Unrecorded(t) = {Attempt(k, Judge(k)).target : k \in unasked \cup given}
      <4> HIDE DEF Judge, unasked
      <4> QED
        BY <1>13 DEF Unrecorded
    <3> HIDE DEF Judge, unasked
    <3> QED
      BY <1>9, <3>1
  <2>3. Len(t.queue) \in Nat /\ \A i \in 1..Len(t.queue) : t.queue[i] \in rest
    BY <1>5, <1>13
  <2>4. Unanswered(t) = (apns \ unasked) \cup rest
    <3>1. {t.queue[i] : i \in 1..Len(t.queue)} = rest
      BY <1>5, <1>13, <2>3
    <3> QED
      BY <1>13, <3>1 DEF Unanswered
  <2>5. /\ (apns \ unasked) \cap rest = {} /\ rest \cap (unasked \cup given) = {}
        /\ (apns \ unasked) \cap (unasked \cup given) = {}
        /\ targets = (apns \ unasked) \cup rest \cup unasked \cup given
    BY <1>4 DEF rest
  <2>6. \A i \in 1..Len(t.queue) : t.queue[i] \notin t.awaited
    BY <1>13, <2>3, <2>5
  <2>7. \A k \in Unanswered(t) : push[n][k] = "pending" /\ k \notin Unrecorded(t)
    <3>1. \A k \in targets : push[n][k] = "pending"
      OBVIOUS
    <3> HIDE DEF targets, unasked
    <3> QED
      BY <2>2, <2>4, <2>5, <3>1
  <2>8. \A a \in t.attempts : push[n][a.target] = "pending" /\ v[a.target] = a.outcome
    <3>1. \A k \in unasked \cup given : push[n][k] = "pending" /\ k \in Keys
      BY <1>4
    <3> HIDE DEF Judge, unasked
    <3> QED
      BY <1>9, <1>13, <2>1, <3>1
  <2>9. \A k \in Keys : push[n][k] = "pending" => k \in Unanswered(t) \cup Unrecorded(t)
    <3>1. \A k \in Keys : push[n][k] = "pending" => k \in targets
      OBVIOUS
    <3> HIDE DEF targets, unasked
    <3> QED
      BY <2>2, <2>4, <2>5, <3>1
  <2>10. \A k \in Keys : /\ push[n][k] = "delivered" => v[k] = "accepted"
                         /\ push[n][k] = "retried" => v[k] = "retryable"
                         /\ push[n][k] = "failed" => v[k] \in {"failed", "rejected"}
    <3>1. \A k \in Keys : push[n][k] # "pending" => v[k] = said[n][k]
      <4>1. \A k \in Keys : push[n][k] # "pending" => k \in Keys \ targets
        OBVIOUS
      <4> QED
        BY <1>8, <2>1, <4>1
    <3>2. PushesKept(s, push[n], said[n])
      BY DEF PushInv
    <3> QED
      BY <3>1, <3>2 DEF PushesKept
  <2> HIDE DEF t, v
  <2> QED
    BY <1>5, <1>13, <2>3, <2>6, <2>7, <2>8, <2>9, <2>10 DEF PushesKept
<1>15. ASSUME NEW m \in Notes PROVE PushesKept(sending[m], push[m], said[m])'
  <2>1. CASE m = n
    BY <1>3, <1>14, <2>1
  <2>2. CASE m # n
    BY <1>3, <1>11, <1>12, <2>2 DEF PushInv
  <2> QED
    BY <2>1, <2>2
<1> QED
  BY <1>3, <1>11, <1>12, <1>15 DEF PushInv, PushTyped
\* The other notifications are not asked about.
LEMMA OthersKept ==
  ASSUME PushInv, PushTyped', NEW n \in Notes,
         \A m \in Notes \ {n} : sending'[m] = sending[m] /\ push'[m] = push[m] /\ said'[m] = said[m],
         PushesKept(sending'[n], push'[n], said'[n])
  PROVE  PushInv'
BY DEF PushInv

\* ApnsKept and ExpoKept, for the actions that take the answers.
LEMMA ApnsInv ==
  ASSUME PushInv, NEW n \in Notes, NEW k \in Keys, NEW outcome \in Outcomes, AnswerApns(n, k, outcome)
  PROVE  PushInv'
<1> DEFINE s == sending[n]
           t == [s EXCEPT !.awaited = @ \ {k}, !.attempts = @ \cup {Attempt(k, outcome)}]
           v == [said[n] EXCEPT ![k] = outcome]
<1>1. s \in SendingType /\ push[n] \in [Keys -> Statuses] /\ said[n] \in [Keys -> Said]
  BY DEF PushInv, PushTyped
<1>2. sending' = [sending EXCEPT ![n] = t] /\ said' = [said EXCEPT ![n] = v] /\ push' = push
  BY DEF AnswerApns, noteVars
<1>3. /\ t \in SendingType /\ t.at = s.at /\ t.queue = s.queue /\ t.cut = s.cut
      /\ t.chunkStart = s.chunkStart /\ t.awaited = s.awaited \ {k}
      /\ t.attempts = s.attempts \cup {Attempt(k, outcome)}
  <2>1. Attempt(k, outcome) \in [target : Keys, outcome : Outcomes]
    BY DEF Attempt
  <2> HIDE DEF s
  <2> QED
    BY <1>1, <2>1 DEF SendingType
<1>4. v \in [Keys -> Said]
  BY <1>1 DEF Said
<1>5. PushesKept(t, push[n], v)
  <2>1. k \in s.awaited /\ PushesKept(s, push[n], said[n])
    BY DEF AnswerApns, PushInv
  <2> HIDE DEF s, t
  <2> QED
    BY <1>1, <1>3, <2>1, ApnsKept
<1> HIDE DEF t, v, s
<1>6. PushTyped' /\ sending'[n] = t /\ said'[n] = v /\ push'[n] = push[n]
  BY <1>2, <1>3, <1>4 DEF PushInv, PushTyped
<1>7. \A m \in Notes \ {n} : sending'[m] = sending[m] /\ push'[m] = push[m] /\ said'[m] = said[m]
  BY <1>2 DEF PushInv, PushTyped
<1> QED
  BY <1>5, <1>6, <1>7, OthersKept

\* Every ticket is read as an outcome, one that is missing too.
LEMMA TicketRead == \A ticket : ApplyExpoPushTicket(ticket) \in Outcomes
BY DEF ApplyExpoPushTicket, Outcomes

LEMMA ExpoInv ==
  ASSUME PushInv, NEW n \in Notes, NEW tickets,
         Len(tickets) \in 1..(Len(sending[n].queue) - sending[n].cut), AnswerExpoChunk(n, tickets)
  PROVE  PushInv'
<1> DEFINE s == sending[n]
           q == s.queue
           cut == s.cut
           start == s.chunkStart
           length == Len(tickets)
<1>1. s \in SendingType /\ push[n] \in [Keys -> Statuses] /\ said[n] \in [Keys -> Said]
  BY DEF PushInv, PushTyped
<1>2. PushesKept(s, push[n], said[n]) /\ s.at = "asked"
  BY DEF PushInv, AnswerExpoChunk
<1>3. /\ Len(q) \in Nat /\ cut \in Nat /\ start = cut /\ \A i \in 1..Len(q) : q[i] \in Keys
      /\ length \in Nat /\ cut + length <= Len(q)
      /\ \A i, j \in 1..Len(q) : q[i] = q[j] => i = j
  <2>1. start = cut /\ \A i, j \in 1..Len(q) : q[i] = q[j] => i = j
    BY <1>2 DEF PushesKept
  <2>2. Len(q) \in Nat /\ cut \in Nat /\ \A i \in 1..Len(q) : q[i] \in Keys
    BY <1>1, QueueTyped
  <2>3. length \in 1..(Len(q) - cut)
    OBVIOUS
  <2> HIDE DEF q, cut, start, length
  <2> QED
    BY <2>1, <2>2, <2>3
<1>4. PICK answered \in 0..length :
        LET Outcome(j) == ApplyExpoPushTicket(IF j <= answered THEN tickets[j] ELSE "none")
        IN /\ sending' = [sending EXCEPT ![n].cut = cut + length,
                                         ![n].chunkStart = NextChunkStart(start, length),
                                         ![n].attempts = @ \cup {Attempt(q[start + j], Outcome(j)) : j \in 1..length}]
           /\ said' = [said EXCEPT ![n] =
                [k \in Keys |-> IF \E j \in 1..length : q[cut + j] = k
                                THEN Outcome(CHOOSE j \in 1..length : q[cut + j] = k)
                                ELSE @[k]]]
  BY DEF AnswerExpoChunk
<1> DEFINE Outcome(j) == ApplyExpoPushTicket(IF j <= answered THEN tickets[j] ELSE "none")
           o == [j \in 1..length |-> Outcome(j)]
           Found(k) == \E j \in 1..length : q[cut + j] = k
           Where(k) == CHOOSE j \in 1..length : q[cut + j] = k
           v == [k \in Keys |-> IF Found(k) THEN Outcome(Where(k)) ELSE said[n][k]]
           old == s.attempts
           new == {Attempt(q[start + j], Outcome(j)) : j \in 1..length}
           t == [s EXCEPT !.cut = cut + length, !.chunkStart = start + length, !.attempts = old \cup new]
<1>5. \A j : Outcome(j) \in Outcomes
  BY TicketRead
<1>6. o \in [1..length -> Outcomes] /\ \A j \in 1..length : o[j] = Outcome(j)
  <2> HIDE DEF Outcome, length
  <2> QED
    BY <1>5
<1>7. \A j \in 1..length : cut + j \in 1..Len(q)
  <2> HIDE DEF q, cut, length
  <2> QED
    BY <1>3
<1>8. \A k : Found(k) => Where(k) \in 1..length /\ q[cut + Where(k)] = k
  OBVIOUS
<1>9. \A j \in 1..length : Where(q[cut + j]) = j
  <2> TAKE j \in 1..length
  <2> DEFINE c == Where(q[cut + j])
  <2>1. Found(q[cut + j])
    OBVIOUS
  <2>2. c \in 1..length /\ q[cut + c] = q[cut + j]
    BY <1>8, <2>1
  <2> HIDE DEF c, q, cut, length
  <2>3. cut + c = cut + j
    BY <1>3, <1>7, <2>2
  <2> QED
    BY <1>3, <2>2, <2>3 DEF c
<1>10. /\ sending' = [sending EXCEPT ![n] = t] /\ push' = push
       /\ said' = [said EXCEPT ![n] = v]
  <2>1. said' = [said EXCEPT ![n] = v]
    <3> HIDE DEF Outcome
    <3> QED
      BY <1>4 DEF Outcome
  <2>2. sending' = [sending EXCEPT ![n] = t]
    <3> HIDE DEF new
    <3> QED
      BY <1>4 DEF NextChunkStart, new
  <2> QED
    BY <2>1, <2>2 DEF AnswerExpoChunk, noteVars
<1>11. new \subseteq [target : Keys, outcome : Outcomes]
  <2>1. \A j \in 1..length : q[start + j] \in Keys
    <3> HIDE DEF q, cut, start, length
    <3> QED
      BY <1>3, <1>7
  <2> HIDE DEF Outcome, q, start, length
  <2> QED
    BY <1>5, <2>1 DEF Attempt
<1>12. /\ t \in SendingType /\ t.at = s.at /\ t.queue = q /\ t.cut = cut + length
       /\ t.chunkStart = start + length /\ t.awaited = s.awaited
       /\ t.attempts = old \cup new
  <2>1. old \cup new \in SUBSET [target : Keys, outcome : Outcomes]
    BY <1>1, <1>11, QueueTyped
  <2>2. cut + length \in Nat /\ start + length \in Nat
    <3> HIDE DEF cut, start, length
    <3> QED
      BY <1>3
  <2> HIDE DEF new, s, length
  <2> QED
    BY <1>1, <2>1, <2>2 DEF SendingType
<1>13. \A k \in Keys : v[k] = IF Found(k) THEN Outcome(Where(k)) ELSE said[n][k]
  <2> HIDE DEF Found, Where, Outcome
  <2> QED
    OBVIOUS
<1>14. v \in [Keys -> Said]
  <2>1. \A k \in Keys : said[n][k] \in Said /\ \A j : Outcome(j) \in Said
    BY <1>1, <1>5 DEF Said
  <2> HIDE DEF Found, Where, Outcome
  <2> QED
    BY <2>1
<1>15. \A j \in 1..length : v[q[cut + j]] = o[j]
  <2> TAKE j \in 1..length
  <2>1. Found(q[cut + j]) /\ Where(q[cut + j]) = j /\ q[cut + j] \in Keys
    BY <1>3, <1>7, <1>9
  <2> HIDE DEF v, Found, Where, Outcome, o
  <2> QED
    BY <1>6, <1>13, <2>1
<1>16. \A k \in Keys : (\A j \in 1..length : q[cut + j] # k) => v[k] = said[n][k]
  <2>1. \A k : (\A j \in 1..length : q[cut + j] # k) => ~Found(k)
    OBVIOUS
  <2> HIDE DEF v, Found, Where, Outcome
  <2> QED
    BY <1>13, <2>1
<1>17. \A a : a \in t.attempts <=>
         a \in s.attempts \/ \E j \in 1..length : a = Attempt(q[start + j], o[j])
  <2>1. t.attempts = s.attempts \cup new
    BY <1>12
  <2> HIDE DEF o, Outcome, t
  <2> QED
    BY <1>6, <2>1
<1>18. PushesKept(t, push[n], v)
  <2>1. /\ s \in SendingType /\ push[n] \in [Keys -> Statuses] /\ said[n] \in [Keys -> Said]
        /\ PushesKept(s, push[n], said[n]) /\ s.at = "asked"
        /\ length \in Nat /\ s.cut + length <= Len(s.queue)
        /\ o \in [1..length -> Outcomes] /\ t \in SendingType /\ v \in [Keys -> Said]
    BY <1>1, <1>2, <1>3, <1>6, <1>12, <1>14
  <2>2. /\ t.at = s.at /\ t.queue = s.queue /\ t.cut = s.cut + length
        /\ t.chunkStart = s.chunkStart + length /\ t.awaited = s.awaited
    BY <1>12
  <2>3. \A a : a \in t.attempts <=>
          a \in s.attempts \/ \E j \in 1..length : a = Attempt(s.queue[s.chunkStart + j], o[j])
    BY <1>17
  <2>4. /\ \A j \in 1..length : v[s.queue[s.cut + j]] = o[j]
        /\ \A k \in Keys : (\A j \in 1..length : s.queue[s.cut + j] # k) => v[k] = said[n][k]
    BY <1>15, <1>16
  <2> HIDE DEF s, t, v, o, length
  <2> QED
    BY <2>1, <2>2, <2>3, <2>4, ExpoKept
<1> HIDE DEF t, v, s
<1>19. PushTyped' /\ sending'[n] = t /\ said'[n] = v /\ push'[n] = push[n]
  BY <1>10, <1>12, <1>14 DEF PushInv, PushTyped
<1>20. \A m \in Notes \ {n} : sending'[m] = sending[m] /\ push'[m] = push[m] /\ said'[m] = said[m]
  BY <1>10 DEF PushInv, PushTyped
<1> QED
  BY <1>18, <1>19, <1>20, OthersKept

\* RecordKept, for the transaction that records.
LEMMA PushRecordInv ==
  ASSUME PushInv, NEW n \in Notes, NEW a \in sending[n].attempts, RecordPushDeliveryAttempt(n, a)
  PROVE  PushInv'
<1> DEFINE s == sending[n]
           t == [s EXCEPT !.attempts = @ \ {a}]
           r == [push[n] EXCEPT ![a.target] = StatusOf(a.outcome)]
<1>1. s \in SendingType /\ push[n] \in [Keys -> Statuses] /\ said[n] \in [Keys -> Said]
  BY DEF PushInv, PushTyped
<1>2. sending' = [sending EXCEPT ![n] = t] /\ push' = [push EXCEPT ![n] = r] /\ said' = said
  BY DEF RecordPushDeliveryAttempt
<1>3. /\ t \in SendingType /\ t.at = s.at /\ t.queue = s.queue /\ t.cut = s.cut
      /\ t.chunkStart = s.chunkStart /\ t.awaited = s.awaited
      /\ t.attempts = s.attempts \ {a}
  <2> HIDE DEF s
  <2> QED
    BY <1>1 DEF SendingType
<1>4. PushesKept(t, r, said[n]) /\ r \in [Keys -> Statuses]
  <2>1. PushesKept(s, push[n], said[n])
    BY DEF PushInv
  <2> HIDE DEF t
  <2> QED
    BY <1>1, <1>3, <2>1, RecordKept
<1> HIDE DEF t, r, s
<1>5. PushTyped' /\ sending'[n] = t /\ push'[n] = r /\ said'[n] = said[n]
  BY <1>2, <1>3, <1>4 DEF PushInv, PushTyped
<1>6. \A m \in Notes \ {n} : sending'[m] = sending[m] /\ push'[m] = push[m] /\ said'[m] = said[m]
  BY <1>2 DEF PushInv, PushTyped
<1> QED
  BY <1>4, <1>5, <1>6, OthersKept

\* Nobody has been asked: there is nothing to be answered or recorded.
LEMMA UnaskedKept ==
  ASSUME NEW s \in SendingType, NEW p \in [Keys -> Statuses], NEW w \in [Keys -> Said],
         s.at # "asked", s.awaited = {}, s.queue = <<>>, s.attempts = {}, s.cut = 0, s.chunkStart = 0,
         \A k \in Keys : /\ p[k] = "delivered" => w[k] = "accepted"
                         /\ p[k] = "retried" => w[k] = "retryable"
                         /\ p[k] = "failed" => w[k] \in {"failed", "rejected"}
  PROVE  PushesKept(s, p, w)
BY DEF PushesKept, Unanswered, Unrecorded

\* The asking before it begins, and after a crash.
LEMMA NotAskedTyped ==
  ASSUME NEW x \in {"none", "lost"}
  PROVE  /\ [NotAsked EXCEPT !.at = x] \in SendingType
         /\ NotAsked \in SendingType
         /\ [NotAsked EXCEPT !.at = x].at = x
         /\ \A s \in {NotAsked, [NotAsked EXCEPT !.at = x]} :
              /\ s.at # "asked" /\ s.awaited = {} /\ s.queue = <<>> /\ s.attempts = {}
              /\ s.cut = 0 /\ s.chunkStart = 0
<1>1. <<>> \in Seq(Keys)
  BY EmptySeq
<1>2. NotAsked \in SendingType
  BY <1>1 DEF NotAsked, SendingType
<1>3. [NotAsked EXCEPT !.at = x] \in SendingType /\ [NotAsked EXCEPT !.at = x].at = x
  BY <1>2 DEF SendingType
<1>4. \A s \in {NotAsked, [NotAsked EXCEPT !.at = x]} :
        /\ s.at # "asked" /\ s.awaited = {} /\ s.queue = <<>> /\ s.attempts = {}
        /\ s.cut = 0 /\ s.chunkStart = 0
  BY DEF NotAsked
<1> QED
  BY <1>2, <1>3, <1>4

\* A step that only lets the asking be due, or wait.
LEMMA DueKept ==
  ASSUME NEW s \in SendingType, NEW p \in [Keys -> Statuses], NEW w \in [Keys -> Said],
         NEW x \in {"waiting", "due"}, s.at # "asked", PushesKept(s, p, w),
         NEW r \in [Keys -> Statuses], r = p \/ \A k \in Keys : r[k] \in {"none", "pending"}
  PROVE  [s EXCEPT !.at = x] \in SendingType /\ PushesKept([s EXCEPT !.at = x], r, w)
<1> DEFINE t == [s EXCEPT !.at = x]
<1>1. /\ t \in SendingType /\ t.at = x /\ t.awaited = s.awaited /\ t.queue = s.queue
      /\ t.attempts = s.attempts /\ t.cut = s.cut /\ t.chunkStart = s.chunkStart
  BY DEF SendingType
<1>2. s.awaited = {} /\ s.queue = <<>> /\ s.attempts = {} /\ s.cut = 0 /\ s.chunkStart = 0
  <2>1. s.awaited = {} /\ s.queue = <<>> /\ s.attempts = {} /\ s.cut <= Len(s.queue) /\ s.chunkStart = s.cut
    BY DEF PushesKept
  <2> QED
    BY <2>1, QueueTyped
<1>3. \A k \in Keys : /\ r[k] = "delivered" => w[k] = "accepted"
                      /\ r[k] = "retried" => w[k] = "retryable"
                      /\ r[k] = "failed" => w[k] \in {"failed", "rejected"}
  BY DEF PushesKept
<1> HIDE DEF t
<1>4. PushesKept(t, r, w)
  BY <1>1, <1>2, <1>3, UnaskedKept
<1> QED
  BY <1>1, <1>4 DEF t

\* The deliveries are created, with nobody asked.
LEMMA CreatePushInv ==
  ASSUME PushInv, NEW n \in Notes, CreateNotification(n), sending[n].at = "none"
  PROVE  PushInv'
<1>1. CASE UNCHANGED <<push, sending>>
  BY <1>1 DEF CreateNotification, PushInv, PushTyped
<1>2. CASE "push" \in Channels[n]
  <2> DEFINE s == sending[n]
             x == IF "in_app" \in Channels[n] THEN "waiting" ELSE "due"
             r == [k \in Keys |-> IF rows[k].user = RecipientOf[n] /\ rows[k].enabled THEN "pending" ELSE "none"]
             t == [s EXCEPT !.at = x]
  <2>1. s \in SendingType /\ push[n] \in [Keys -> Statuses] /\ said[n] \in [Keys -> Said]
    BY DEF PushInv, PushTyped
  <2>2. push' = [push EXCEPT ![n] = r] /\ sending' = [sending EXCEPT ![n] = t] /\ said' = said
    BY <1>2 DEF CreateNotification
  <2>3. /\ r \in [Keys -> Statuses] /\ \A k \in Keys : r[k] \in {"none", "pending"}
        /\ x \in {"waiting", "due"}
    BY DEF Statuses
  <2>4. PushesKept(s, push[n], said[n])
    BY DEF PushInv
  <2> HIDE DEF r, x
  <2>5. t \in SendingType /\ PushesKept(t, r, said[n])
    BY <2>1, <2>3, <2>4, DueKept
  <2> HIDE DEF t, s
  <2>6. PushTyped' /\ sending'[n] = t /\ push'[n] = r /\ said'[n] = said[n]
    BY <2>2, <2>3, <2>5 DEF PushInv, PushTyped
  <2>7. \A m \in Notes \ {n} : sending'[m] = sending[m] /\ push'[m] = push[m] /\ said'[m] = said[m]
    BY <2>2 DEF PushInv, PushTyped
  <2> QED
    BY <2>5, <2>6, <2>7, OthersKept
<1> QED
  BY <1>1, <1>2 DEF CreateNotification

\* A delivery that was waiting for the one in the application becomes due.
LEMMA SettlePushInv ==
  ASSUME PushInv, NEW i, SettleInApp(i), tasks[i].note \in Notes
  PROVE  PushInv'
<1> DEFINE n == tasks[i].note
           s == sending[n]
           t == [s EXCEPT !.at = IF @ = "waiting" THEN "due" ELSE @]
<1>1. s \in SendingType /\ push[n] \in [Keys -> Statuses] /\ said[n] \in [Keys -> Said]
  BY DEF PushInv, PushTyped
<1>2. sending' = [sending EXCEPT ![n] = t] /\ push' = push /\ said' = said
  BY DEF SettleInApp
<1>3. t \in SendingType /\ PushesKept(t, push[n], said[n])
  <2>1. PushesKept(s, push[n], said[n])
    BY DEF PushInv
  <2>2. CASE s.at = "waiting"
    <3>1. t = [s EXCEPT !.at = "due"]
      BY <2>2
    <3> HIDE DEF t, s
    <3> QED
      BY <1>1, <2>1, <2>2, <3>1, DueKept
  <2>3. CASE s.at # "waiting"
    <3>1. t = s
      <4> HIDE DEF s
      <4> QED
        BY <1>1, <2>3 DEF SendingType
    <3> QED
      BY <1>1, <2>1, <3>1
  <2> QED
    BY <2>2, <2>3
<1> HIDE DEF t, s
<1>4. PushTyped' /\ sending'[n] = t /\ push'[n] = push[n] /\ said'[n] = said[n]
  BY <1>2, <1>3 DEF PushInv, PushTyped
<1>5. \A m \in Notes \ {n} : sending'[m] = sending[m] /\ push'[m] = push[m] /\ said'[m] = said[m]
  BY <1>2 DEF PushInv, PushTyped
<1> QED
  BY <1>3, <1>4, <1>5, OthersKept

\* Statuses and answers outlive the process, the asking does not.
LEMMA CrashPushInv ==
  ASSUME PushInv, Crash
  PROVE  PushInv'
<1>1. push' = push /\ said' = said
  BY DEF Crash, noteVars
<1>2. ASSUME NEW n \in Notes
      PROVE  sending'[n] \in SendingType /\ PushesKept(sending'[n], push[n], said[n])
  <2> DEFINE t == sending'[n]
  <2>1. t = NotAsked \/ t = [NotAsked EXCEPT !.at = "lost"]
    BY DEF Crash
  <2>2. /\ t \in SendingType
        /\ t.at # "asked" /\ t.awaited = {} /\ t.queue = <<>> /\ t.attempts = {}
        /\ t.cut = 0 /\ t.chunkStart = 0
    <3> HIDE DEF t
    <3> QED
      BY <2>1, NotAskedTyped
  <2>3. PushesKept(sending[n], push[n], said[n]) /\ push[n] \in [Keys -> Statuses] /\ said[n] \in [Keys -> Said]
    BY DEF PushInv, PushTyped
  <2>4. \A k \in Keys : /\ push[n][k] = "delivered" => said[n][k] = "accepted"
                        /\ push[n][k] = "retried" => said[n][k] = "retryable"
                        /\ push[n][k] = "failed" => said[n][k] \in {"failed", "rejected"}
    BY <2>3 DEF PushesKept
  <2> HIDE DEF t
  <2>5. PushesKept(t, push[n], said[n])
    BY <2>2, <2>3, <2>4, UnaskedKept
  <2> QED
    BY <2>2, <2>5 DEF t
<1>3. sending' \in [Notes -> SendingType]
  <2>1. sending' = [n \in Notes |-> sending'[n]]
    BY DEF Crash
  <2> QED
    BY <1>2, <2>1
<1> QED
  BY <1>1, <1>2, <1>3 DEF PushInv, PushTyped
-----------------------------------------------------------------------------
(* Handlers and the deliveries in the application                          *)

\* What a handler t knows of the notification it is about, where ns are the
\* notifications, ia the deliveries in the application, rd those a client was
\* told of, and th says whether a send may throw: until the handler settles the
\* delivery nobody else does, and what it has sent says whether a client was told.
TaskSound(t, ns, ia, rd, th) ==
  /\ t.kind \in {"created", "settle", "message"} => t.note # NoNote
  /\ t.kind = "connected" => t.note = NoNote
  /\ t.note # NoNote =>
       /\ ns[t.note] # "none"
       /\ IF t.kind = "message" THEN ia[t.note] = "none" ELSE ia[t.note] = "pending"
       /\ t.kind = "created" => t.note \notin rd
       /\ t.kind \in {"count", "settle"} /\ t.sent = 0 => t.note \notin rd
       /\ t.kind \in {"count", "settle"} /\ t.sent > 0 /\ th => t.note \in rd

\* No other handler is about the notification that the i-th one is about.
Alone(q, i) == \A j \in 1..Len(q) : q[i].note # NoNote /\ q[i].note = q[j].note => i = j

TasksSound(q, ns, ia, rd, th) ==
  \A i \in 1..Len(q) : TaskSound(q[i], ns, ia, rd, th) /\ Alone(q, i)

InAppKept ==
  \A n \in Notes :
    /\ notes[n] = "none" => inApp[n] = "none" /\ n \notin reached
    /\ inApp[n] = "skipped" => n \notin reached
    /\ inApp[n] = "delivered" /\ env.throws => n \in reached

AppTyped ==
  /\ notes \in [Notes -> {"none", "unread", "read", "archived"}]
  /\ content \in [Notes -> Contents]
  /\ inApp \in [Notes -> {"none", "pending", "delivered", "skipped"}]
  /\ hub \subseteq Sockets /\ reached \subseteq Notes
  /\ conn \in [Sockets -> {"new", "open", "closed", "gone"}]
  /\ heard \in [Sockets -> 0..Cardinality(Notes)]
  /\ tasks \in Seq(TaskType)

AppInv == /\ AppTyped /\ InAppKept
          /\ TasksSound(tasks, notes, inApp, reached, env.throws)


\* A handler about another notification than those that change stays sound.
LEMMA OtherSound ==
  ASSUME NEW t, NEW ns, NEW ia, NEW rd, NEW th, TaskSound(t, ns, ia, rd, th),
         NEW ns2, NEW ia2, NEW rd2,
         \/ t.note = NoNote
         \/ ns2[t.note] # "none" /\ ia2[t.note] = ia[t.note] /\ (t.note \in rd2 <=> t.note \in rd)
  PROVE  TaskSound(t, ns2, ia2, rd2, th)
BY DEF TaskSound

\* One handler more: nobody else is about its notification.
LEMMA AppendSound ==
  ASSUME NEW q \in Seq(TaskType), NEW t \in TaskType, NEW ns, NEW ia, NEW rd, NEW th,
         TasksSound(q, ns, ia, rd, th), TaskSound(t, ns, ia, rd, th),
         t.note = NoNote \/ \A i \in 1..Len(q) : q[i].note # t.note
  PROVE  Append(q, t) \in Seq(TaskType) /\ TasksSound(Append(q, t), ns, ia, rd, th)
<1> DEFINE r == Append(q, t)
<1>1. /\ Len(q) \in Nat /\ r \in Seq(TaskType) /\ Len(r) = Len(q) + 1
      /\ \A i \in 1..Len(q) : r[i] = q[i]
      /\ r[Len(q) + 1] = t
  BY AppendProperties, LenProperties
<1>2. \A i \in 1..Len(r) : i \in 1..Len(q) \/ i = Len(q) + 1
  BY <1>1
<1> HIDE DEF r
<1>3. \A i \in 1..Len(r) : TaskSound(r[i], ns, ia, rd, th)
  BY <1>1, <1>2 DEF TasksSound
<1>4. \A i \in 1..Len(r) : Alone(r, i)
  BY <1>1, <1>2 DEF TasksSound, Alone
<1> QED
  BY <1>1, <1>3, <1>4 DEF TasksSound, r

\* Where the handlers are once the i-th has ended.
LEMMA WithoutAt ==
  ASSUME tasks \in Seq(TaskType), NEW i \in 1..Len(tasks)
  PROVE  /\ Without(i) \in Seq(TaskType) /\ Len(Without(i)) = Len(tasks) - 1
         /\ \A j \in 1 .. Len(tasks) - 1 : Without(i)[j] = tasks[IF j < i THEN j ELSE j + 1]
<1> DEFINE r == Without(i)
           was(j) == IF j < i THEN j ELSE j + 1
           front == SubSeq(tasks, 1, i - 1)
           back == SubSeq(tasks, i + 1, Len(tasks))
<1>1. Len(tasks) \in Nat /\ \A j \in 1..Len(tasks) : tasks[j] \in TaskType
  OBVIOUS
<1>2. /\ front \in Seq(TaskType) /\ Len(front) = i - 1
      /\ \A j \in 1 .. i - 1 : front[j] = tasks[j]
  BY <1>1, SubSeqProperties
<1>3. /\ back \in Seq(TaskType) /\ Len(back) = Len(tasks) - i
      /\ \A j \in 1 .. Len(tasks) - i : back[j] = tasks[i + j]
  BY <1>1, SubSeqProperties
<1>4. /\ r \in Seq(TaskType) /\ Len(r) = Len(front) + Len(back)
      /\ \A j \in 1 .. Len(front) + Len(back) :
           r[j] = IF j <= Len(front) THEN front[j] ELSE back[j - Len(front)]
  BY <1>2, <1>3, ConcatProperties DEF Without
<1> HIDE DEF front, back, r
<1>5. Len(r) = Len(tasks) - 1
  BY <1>1, <1>2, <1>3, <1>4
<1>6. ASSUME NEW j \in 1 .. Len(tasks) - 1 PROVE r[j] = tasks[was(j)]
  <2>1. CASE j < i
    <3>1. j \in 1 .. Len(front) + Len(back) /\ j <= Len(front)
      BY <1>1, <1>2, <1>3, <2>1
    <3>2. r[j] = front[j]
      BY <1>4, <3>1
    <3>3. front[j] = tasks[j]
      BY <1>1, <1>2, <2>1
    <3> QED
      BY <2>1, <3>2, <3>3
  <2>2. CASE j >= i
    <3>0. /\ j \in 1 .. Len(front) + Len(back) /\ ~ (j <= Len(front))
          /\ j - Len(front) = j - (i - 1)
      BY <1>1, <1>2, <1>3, <2>2
    <3>1. r[j] = back[j - (i - 1)]
      BY <1>4, <3>0
    <3>2. back[j - (i - 1)] = tasks[i + (j - (i - 1))]
      BY <1>1, <1>3, <2>2
    <3> QED
      BY <1>1, <2>2, <3>1, <3>2
  <2> QED
    BY <1>1, <2>1, <2>2
<1>7. \A j \in 1 .. Len(tasks) - 1 : r[j] = tasks[IF j < i THEN j ELSE j + 1]
  BY <1>6
<1>8. r \in Seq(TaskType)
  BY <1>4
<1> QED
  BY <1>5, <1>7, <1>8 DEF r

\* The handler that ends; the others move up.
LEMMA WithoutSound ==
  ASSUME tasks \in Seq(TaskType), NEW i \in 1..Len(tasks), NEW ns, NEW ia, NEW rd, NEW th,
         \A j \in 1..Len(tasks) : Alone(tasks, j),
         \A j \in 1..Len(tasks) \ {i} : TaskSound(tasks[j], ns, ia, rd, th)
  PROVE  Without(i) \in Seq(TaskType) /\ TasksSound(Without(i), ns, ia, rd, th)
<1> DEFINE r == Without(i)
           was(j) == IF j < i THEN j ELSE j + 1
<1>1. /\ r \in Seq(TaskType) /\ Len(r) = Len(tasks) - 1 /\ Len(tasks) \in Nat
      /\ \A j \in 1 .. Len(tasks) - 1 : r[j] = tasks[was(j)]
  BY WithoutAt
<1>2. \A j \in 1..Len(r) : was(j) \in 1..Len(tasks) \ {i}
  BY <1>1
<1>3. \A j, k \in 1..Len(r) : was(j) = was(k) => j = k
  BY <1>1
<1> HIDE DEF r, was
<1>4. \A j \in 1..Len(r) : TaskSound(r[j], ns, ia, rd, th)
  BY <1>1, <1>2
<1>5. \A j \in 1..Len(r) : Alone(r, j)
  BY <1>1, <1>2, <1>3 DEF Alone
<1> QED
  BY <1>1, <1>4, <1>5 DEF TasksSound, r

\* The handler that goes on with the same notification.
LEMMA UpdateSound ==
  ASSUME tasks \in Seq(TaskType), NEW i \in 1..Len(tasks), NEW u \in TaskType,
         NEW ns, NEW ia, NEW rd, NEW th,
         \A j \in 1..Len(tasks) : Alone(tasks, j),
         \A j \in 1..Len(tasks) \ {i} : TaskSound(tasks[j], ns, ia, rd, th),
         u.note = tasks[i].note, TaskSound(u, ns, ia, rd, th)
  PROVE  /\ [tasks EXCEPT ![i] = u] \in Seq(TaskType)
         /\ TasksSound([tasks EXCEPT ![i] = u], ns, ia, rd, th)
<1> DEFINE r == [tasks EXCEPT ![i] = u]
<1>1. /\ r \in Seq(TaskType) /\ Len(r) = Len(tasks)
      /\ \A j \in 1..Len(tasks) : r[j] = IF j = i THEN u ELSE tasks[j]
  BY ExceptSeq
<1> HIDE DEF r
<1>2. \A j \in 1..Len(r) : r[j].note = tasks[j].note
  BY <1>1
<1>3. \A j \in 1..Len(r) : Alone(r, j)
  BY <1>1, <1>2 DEF Alone
<1>4. \A j \in 1..Len(r) : TaskSound(r[j], ns, ia, rd, th)
  BY <1>1
<1> QED
  BY <1>1, <1>3, <1>4 DEF TasksSound, r

\* What the i-th handler is, and what the others are when only its notification
\* changes.
LEMMA AtTask ==
  ASSUME AppInv, NEW i \in 1..Len(tasks)
  PROVE  /\ tasks[i] \in TaskType
         /\ TaskSound(tasks[i], notes, inApp, reached, env.throws)
         /\ \A j \in 1..Len(tasks) : Alone(tasks, j)
         /\ \A j \in 1..Len(tasks) \ {i} :
              /\ tasks[j] \in TaskType
              /\ TaskSound(tasks[j], notes, inApp, reached, env.throws)
              /\ tasks[j].note = NoNote \/ tasks[j].note # tasks[i].note
<1>1. tasks \in Seq(TaskType) /\ \A j \in 1..Len(tasks) : tasks[j] \in TaskType
  BY ElementOfSeq DEF AppInv, AppTyped
<1>2. \A j \in 1..Len(tasks) : TaskSound(tasks[j], notes, inApp, reached, env.throws) /\ Alone(tasks, j)
  BY DEF AppInv, TasksSound
<1> QED
  BY <1>1, <1>2 DEF Alone

LEMMA OthersSound ==
  ASSUME AppInv, NEW i \in 1..Len(tasks), NEW ia, NEW rd,
         \A m \in Notes \ {tasks[i].note} : ia[m] = inApp[m] /\ (m \in rd <=> m \in reached)
  PROVE  \A j \in 1..Len(tasks) \ {i} : TaskSound(tasks[j], notes, ia, rd, env.throws)
<1> TAKE j \in 1..Len(tasks) \ {i}
<1>1. /\ tasks[j] \in TaskType
      /\ TaskSound(tasks[j], notes, inApp, reached, env.throws)
      /\ tasks[j].note = NoNote \/ tasks[j].note # tasks[i].note
  BY AtTask
<1>2. tasks[j].note \in Notes \cup {NoNote}
  BY <1>1 DEF TaskType
<1>3. \/ tasks[j].note = NoNote
      \/ /\ notes[tasks[j].note] # "none"
         /\ ia[tasks[j].note] = inApp[tasks[j].note]
         /\ tasks[j].note \in rd <=> tasks[j].note \in reached
  BY <1>1, <1>2 DEF TaskSound
<1> QED
  BY <1>1, <1>3, OtherSound

\* The new handlers.
LEMMA TasksTyped ==
  /\ \A u \in Users : CountTask(u) \in TaskType
  /\ \A s \in Sockets : ConnectedTask(s) \in TaskType
  /\ \A n \in Notes : CreatedTask(n) \in TaskType
  /\ \A n \in Notes, c \in 0..Cardinality(Notes) : MessageTask(n, c) \in TaskType
<1>1. 0 \in 0..Cardinality(Notes) /\ 0 \in 0..Cardinality(Sockets)
  BY FiniteAssumption, FS_CardinalityType
<1>2. \A u \in Users : CountTask(u) \in TaskType
  BY <1>1 DEF CountTask, TaskType
<1>3. \A s \in Sockets : ConnectedTask(s) \in TaskType
  <2> TAKE s \in Sockets
  <2>1. CountTask(UserOf[s]) \in TaskType
    BY <1>2, RecipientAssumption
  <2> QED
    BY <2>1 DEF ConnectedTask, TaskType
<1>4. \A n \in Notes : CreatedTask(n) \in TaskType
  <2> TAKE n \in Notes
  <2>1. CountTask(RecipientOf[n]) \in TaskType
    BY <1>2, RecipientAssumption
  <2> QED
    BY <2>1 DEF CreatedTask, TaskType
<1>5. \A n \in Notes, c \in 0..Cardinality(Notes) : MessageTask(n, c) \in TaskType
  <2> TAKE n \in Notes, c \in 0..Cardinality(Notes)
  <2>1. CountTask(RecipientOf[n]) \in TaskType
    BY <1>2, RecipientAssumption
  <2> QED
    BY <2>1 DEF MessageTask, TaskType
<1> QED
  BY <1>2, <1>3, <1>4, <1>5

LEMMA NewTasks ==
  /\ \A u \in Users : CountTask(u).note = NoNote /\ CountTask(u).kind = "count"
  /\ \A s \in Sockets : ConnectedTask(s).note = NoNote /\ ConnectedTask(s).kind = "connected"
  /\ \A n \in Notes : CreatedTask(n).note = n /\ CreatedTask(n).kind = "created"
  /\ \A n \in Notes : \A c : MessageTask(n, c).note = n /\ MessageTask(n, c).kind = "message"
BY RecipientAssumption DEF CountTask, ConnectedTask, CreatedTask, MessageTask

\* A user has at most every notification unread.
LEMMA CountTyped ==
  ASSUME NEW u, NEW ns
  PROVE  UnreadOf(u, ns) \in 0..Cardinality(Notes)
<1> DEFINE S == {n \in Notes : RecipientOf[n] = u /\ ns[n] = "unread"}
<1>1. S \in SUBSET Notes
  OBVIOUS
<1>2. IsFiniteSet(S) /\ Cardinality(S) <= Cardinality(Notes)
  BY <1>1, FiniteAssumption, FS_Subset
<1>3. Cardinality(S) \in Nat /\ Cardinality(Notes) \in Nat
  BY <1>2, FiniteAssumption, FS_CardinalityType
<1> QED
  BY <1>2, <1>3 DEF UnreadOf

\* What a send says of whom it reached.
LEMMA SendTold ==
  ASSUME AppTyped, NEW u
  PROVE  /\ SentConnections(u) \in 0..Cardinality(Sockets)
         /\ SentConnections(u) = 0 => Reached(u) = {}
         /\ SentConnections(u) > 0 /\ env.throws => Reached(u) # {}
<1> DEFINE S == SocketsOf(u) \ Throwing(u)
<1>1. S \in SUBSET Sockets
  BY DEF SocketsOf, AppTyped
<1>2. IsFiniteSet(S) /\ Cardinality(S) <= Cardinality(Sockets)
  BY <1>1, FiniteAssumption, FS_Subset
<1>3. Cardinality(S) \in Nat /\ Cardinality(Sockets) \in Nat
  BY <1>2, FiniteAssumption, FS_CardinalityType
<1>4. Cardinality(S) = 0 <=> S = {}
  BY <1>2, FS_EmptySet
<1>5. Reached(u) \subseteq S /\ (env.throws => S = Reached(u))
  BY DEF Reached, Throwing
<1> HIDE DEF S
<1> QED
  BY <1>2, <1>3, <1>4, <1>5 DEF SentConnections, S

\* Telling forgets sockets and adds none.
LEMMA TellTyped ==
  ASSUME AppTyped, NEW u, NEW count \in 0..Cardinality(Notes)
  PROVE  /\ SendToUser(u) => hub' \subseteq Sockets
         /\ TellCount(u, count) => hub' \subseteq Sockets /\ heard' \in [Sockets -> 0..Cardinality(Notes)]
BY DEF AppTyped, SendToUser, TellCount
-----------------------------------------------------------------------------
(* Each step keeps the handlers and the deliveries in the application      *)

\* Steps that do not concern notifications.
LEMMA AppSame ==
  ASSUME AppInv, AppTyped', UNCHANGED <<notes, inApp, reached, env>>,
         TasksSound(tasks', notes, inApp, reached, env.throws)
  PROVE  AppInv'
BY DEF AppInv, InAppKept

\* Only the count changes, which the invariant does not speak of.
LEMMA ReadCountInv ==
  ASSUME AppInv, NEW i \in 1..Len(tasks), ReadCount(i)
  PROVE  AppInv'
<1> DEFINE t == tasks[i]
           u == [t EXCEPT !.read = TRUE, !.count = UnreadOf(t.user, notes)]
<1>1. t \in TaskType /\ TaskSound(t, notes, inApp, reached, env.throws)
  BY AtTask
<1>2. UnreadOf(t.user, notes) \in 0..Cardinality(Notes)
  BY CountTyped
<1>3. u \in TaskType /\ u.kind = t.kind /\ u.note = t.note /\ u.sent = t.sent
  <2> HIDE DEF t
  <2> QED
    BY <1>1, <1>2 DEF TaskType
<1>4. TaskSound(u, notes, inApp, reached, env.throws)
  <2> HIDE DEF u, t
  <2> QED
    BY <1>1, <1>3 DEF TaskSound
<1>5. tasks' = [tasks EXCEPT ![i] = u]
  BY DEF ReadCount
<1> HIDE DEF u
<1>6. tasks' \in Seq(TaskType) /\ TasksSound(tasks', notes, inApp, reached, env.throws)
  BY <1>3, <1>4, <1>5, AtTask, UpdateSound DEF AppInv, AppTyped
<1>7. AppTyped' /\ UNCHANGED <<notes, inApp, reached, env>>
  BY <1>6 DEF ReadCount, noteVars, socketVars, AppInv, AppTyped
<1> QED
  BY <1>6, <1>7, AppSame

\* The i-th handler ends and leaves notifications alone.
LEMMA EndedSound ==
  ASSUME AppInv, NEW i \in 1..Len(tasks)
  PROVE  Without(i) \in Seq(TaskType) /\ TasksSound(Without(i), notes, inApp, reached, env.throws)
BY AtTask, WithoutSound DEF AppInv, AppTyped

\* The handler ends, or goes on to settle with what it has sent.
LEMMA BroadcastCountInv ==
  ASSUME AppInv, NEW i \in 1..Len(tasks), BroadcastCount(i)
  PROVE  AppInv'
<1> DEFINE t == tasks[i]
           u == [t EXCEPT !.kind = "settle"]
<1>1. t \in TaskType /\ TaskSound(t, notes, inApp, reached, env.throws) /\ t.kind = "count"
  BY AtTask DEF BroadcastCount, Moving
<1>2. hub' \subseteq Sockets /\ heard' \in [Sockets -> 0..Cardinality(Notes)]
  <2>1. t.count \in 0..Cardinality(Notes)
    BY <1>1 DEF TaskType
  <2>2. TellCount(t.user, t.count) /\ AppTyped
    BY DEF BroadcastCount, AppInv
  <2> QED
    BY <2>1, <2>2, TellTyped
<1>3. tasks' \in Seq(TaskType) /\ TasksSound(tasks', notes, inApp, reached, env.throws)
  <2>1. CASE t.note = NoNote
    <3>1. tasks' = Without(i)
      BY <2>1 DEF BroadcastCount
    <3> QED
      BY <3>1, EndedSound
  <2>2. CASE t.note # NoNote
    <3>1. tasks' = [tasks EXCEPT ![i] = u]
      BY <2>2 DEF BroadcastCount
    <3>2. u \in TaskType /\ u.kind = "settle" /\ u.note = t.note /\ u.sent = t.sent
      <4> HIDE DEF t
      <4> QED
        BY <1>1 DEF TaskType
    <3>3. TaskSound(u, notes, inApp, reached, env.throws)
      <4> HIDE DEF u, t
      <4> QED
        BY <1>1, <2>2, <3>2 DEF TaskSound
    <3> HIDE DEF u
    <3> QED
      BY <3>1, <3>2, <3>3, AtTask, UpdateSound DEF AppInv, AppTyped
  <2> QED
    BY <2>1, <2>2
<1>4. AppTyped' /\ UNCHANGED <<notes, inApp, reached, env>>
  BY <1>2, <1>3 DEF BroadcastCount, noteVars, AppInv, AppTyped
<1> QED
  BY <1>3, <1>4, AppSame

\* A handler that is about no notification begins.
LEMMA BegunSound ==
  ASSUME AppInv, NEW t \in TaskType, t.note = NoNote, t.kind \in {"count", "connected"}
  PROVE  Append(tasks, t) \in Seq(TaskType) /\ TasksSound(Append(tasks, t), notes, inApp, reached, env.throws)
<1>1. TaskSound(t, notes, inApp, reached, env.throws)
  BY DEF TaskSound
<1> QED
  BY <1>1, AppendSound DEF AppInv, AppTyped

\* Handlers of connections are about no notification.
LEMMA ConnectInv ==
  ASSUME AppInv, NEW s \in Sockets, Connect(s)
  PROVE  AppInv'
<1>1. tasks' \in Seq(TaskType) /\ TasksSound(tasks', notes, inApp, reached, env.throws)
  BY BegunSound, TasksTyped, NewTasks DEF Connect
<1>2. AppTyped' /\ UNCHANGED <<notes, inApp, reached, env>>
  BY <1>1 DEF Connect, noteVars, AppInv, AppTyped
<1> QED
  BY <1>1, <1>2, AppSame

LEMMA AnswerConnectedInv ==
  ASSUME AppInv, NEW i \in 1..Len(tasks), AnswerConnected(i)
  PROVE  AppInv'
<1> DEFINE t == tasks[i]
<1>1. t.count \in 0..Cardinality(Notes)
  BY AtTask DEF TaskType
<1>2. tasks' \in Seq(TaskType) /\ TasksSound(tasks', notes, inApp, reached, env.throws)
  BY EndedSound DEF AnswerConnected
<1>3. heard' \in [Sockets -> 0..Cardinality(Notes)]
  <2>1. heard' = [heard EXCEPT ![t.socket] = IF conn[t.socket] = "open" THEN t.count ELSE @]
    BY DEF AnswerConnected
  <2> HIDE DEF t
  <2> QED
    BY <1>1, <2>1 DEF AppInv, AppTyped
<1>4. AppTyped' /\ UNCHANGED <<notes, inApp, reached, env>>
  BY <1>2, <1>3 DEF AnswerConnected, noteVars, AppInv, AppTyped
<1> QED
  BY <1>2, <1>4, AppSame

LEMMA ConnectionInv ==
  ASSUME AppInv, NEW s \in Sockets, Vanish(s) \/ Close(s)
  PROVE  AppInv'
<1>1. 0 \in 0..Cardinality(Notes)
  BY FiniteAssumption, FS_CardinalityType
<1>2. AppTyped' /\ UNCHANGED <<notes, inApp, reached, env>> /\ tasks' = tasks
  BY <1>1 DEF Vanish, Close, noteVars, AppInv, AppTyped
<1> QED
  BY <1>2, AppSame DEF AppInv

\* Reading and archiving: what is there stays, and only its state changes.
LEMMA ChangedSound ==
  ASSUME AppInv, NEW ns, \A n \in Notes : ns[n] = "none" <=> notes[n] = "none"
  PROVE  TasksSound(tasks, ns, inApp, reached, env.throws)
<1>1. \A i \in 1..Len(tasks) : TaskSound(tasks[i], notes, inApp, reached, env.throws) /\ Alone(tasks, i)
  BY DEF AppInv, TasksSound
<1>2. \A i \in 1..Len(tasks) : TaskSound(tasks[i], ns, inApp, reached, env.throws)
  <2> TAKE i \in 1..Len(tasks)
  <2>1. tasks[i].note = NoNote \/ ns[tasks[i].note] # "none"
    <3>1. tasks[i].note \in Notes \cup {NoNote}
      BY AtTask DEF TaskType
    <3> QED
      BY <1>1, <3>1 DEF TaskSound
  <2> QED
    BY <1>1, <2>1, OtherSound
<1> QED
  BY <1>1, <1>2 DEF TasksSound

\* Reading creates no notification, and its handlers are about none.
LEMMA ReadingInv ==
  ASSUME AppInv, AppTyped', UNCHANGED <<inApp, reached, env>>,
         \A n \in Notes : notes'[n] = "none" <=> notes[n] = "none",
         \/ tasks' = tasks
         \/ \E u \in Users : tasks' = Append(tasks, CountTask(u))
  PROVE  AppInv'
<1>1. TasksSound(tasks, notes', inApp, reached, env.throws)
  BY ChangedSound
<1>2. TasksSound(tasks', notes', inApp, reached, env.throws)
  <2>1. ASSUME NEW u \in Users, tasks' = Append(tasks, CountTask(u))
        PROVE  TasksSound(tasks', notes', inApp, reached, env.throws)
    <3>1. CountTask(u) \in TaskType /\ CountTask(u).note = NoNote /\ CountTask(u).kind = "count"
      BY TasksTyped, NewTasks
    <3>2. TaskSound(CountTask(u), notes', inApp, reached, env.throws)
      BY <3>1 DEF TaskSound
    <3> QED
      BY <1>1, <2>1, <3>1, <3>2, AppendSound DEF AppInv, AppTyped
  <2> QED
    BY <1>1, <2>1
<1>3. InAppKept'
  BY DEF AppInv, InAppKept
<1> QED
  BY <1>2, <1>3 DEF AppInv

LEMMA MarkReadInv ==
  ASSUME AppInv, NEW n \in Notes, MarkNotificationRead(n) \/ ArchiveNotification(n)
  PROVE  AppInv'
<1>1. RecipientOf[n] \in Users
  BY RecipientAssumption
<1>2. notes' \in [Notes -> {"none", "unread", "read", "archived"}]
      /\ \A m \in Notes : notes'[m] = "none" <=> notes[m] = "none"
  BY DEF MarkNotificationRead, ArchiveNotification, AppInv, AppTyped
<1>3. tasks' = tasks \/ tasks' = Append(tasks, CountTask(RecipientOf[n]))
  BY DEF MarkNotificationRead, ArchiveNotification
<1>4. tasks' \in Seq(TaskType)
  <2>1. CountTask(RecipientOf[n]) \in TaskType /\ tasks \in Seq(TaskType)
    BY <1>1, TasksTyped DEF AppInv, AppTyped
  <2> QED
    BY <1>3, <2>1, AppendProperties
<1>5. AppTyped' /\ UNCHANGED <<inApp, reached, env>>
  BY <1>2, <1>4 DEF MarkNotificationRead, ArchiveNotification, socketVars, AppInv, AppTyped
<1> QED
  BY <1>1, <1>2, <1>3, <1>5, ReadingInv

LEMMA MarkAllReadInv ==
  ASSUME AppInv, NEW u \in Users, MarkAllNotificationsRead(u)
  PROVE  AppInv'
<1>1. notes' \in [Notes -> {"none", "unread", "read", "archived"}]
      /\ \A m \in Notes : notes'[m] = "none" <=> notes[m] = "none"
  BY DEF MarkAllNotificationsRead, AppInv, AppTyped
<1>2. tasks' = Append(tasks, CountTask(u))
  BY DEF MarkAllNotificationsRead
<1>3. tasks' \in Seq(TaskType)
  BY <1>2, TasksTyped, AppendProperties DEF AppInv, AppTyped
<1>4. AppTyped' /\ UNCHANGED <<inApp, reached, env>>
  BY <1>1, <1>3 DEF MarkAllNotificationsRead, socketVars, AppInv, AppTyped
<1> QED
  BY <1>1, <1>2, <1>4, ReadingInv

\* No handler is about a notification that does not exist.
LEMMA NoneAbout ==
  ASSUME AppInv, NEW n \in Notes, notes[n] = "none"
  PROVE  /\ \A i \in 1..Len(tasks) : tasks[i].note # n
         /\ inApp[n] = "none" /\ n \notin reached /\ n # NoNote
BY NothingAssumption DEF AppInv, InAppKept, TasksSound, TaskSound

\* No handler is about a notification that is only created now.
LEMMA CreateSound ==
  ASSUME AppInv, NEW n \in Notes, notes[n] = "none",
         NEW ia, \A m \in Notes \ {n} : ia[m] = inApp[m]
  PROVE  TasksSound(tasks, [notes EXCEPT ![n] = "unread"], ia, reached, env.throws)
<1> DEFINE ns == [notes EXCEPT ![n] = "unread"]
<1>1. \A i \in 1..Len(tasks) : TaskSound(tasks[i], notes, inApp, reached, env.throws) /\ Alone(tasks, i)
  BY DEF AppInv, TasksSound
<1>2. \A m \in Notes \ {n} : ns[m] = notes[m]
  BY DEF AppInv, AppTyped
<1> HIDE DEF ns
<1>3. \A i \in 1..Len(tasks) : TaskSound(tasks[i], ns, ia, reached, env.throws)
  <2> TAKE i \in 1..Len(tasks)
  <2>1. tasks[i].note \in (Notes \ {n}) \cup {NoNote}
    BY AtTask, NoneAbout DEF TaskType
  <2>2. tasks[i].note # NoNote =>
          ns[tasks[i].note] # "none" /\ ia[tasks[i].note] = inApp[tasks[i].note]
    BY <1>1, <1>2, <2>1 DEF TaskSound
  <2> QED
    BY <1>1, <2>2, OtherSound
<1> QED
  BY <1>1, <1>3 DEF TasksSound, ns

LEMMA CreateInv ==
  ASSUME AppInv, NEW n \in Notes, CreateNotification(n)
  PROVE  AppInv'
<1> DEFINE live == "in_app" \in Channels[n]
           ns == [notes EXCEPT ![n] = "unread"]
<1>1. /\ notes[n] = "none" /\ notes' = ns
      /\ inApp' = [inApp EXCEPT ![n] = IF live THEN "pending" ELSE "none"]
      /\ tasks' = IF live THEN Append(tasks, CreatedTask(n)) ELSE tasks
      /\ UNCHANGED <<reached, env, content, hub, conn, heard>>
  BY DEF CreateNotification, socketVars
<1>2. /\ inApp' \in [Notes -> {"none", "pending", "delivered", "skipped"}]
      /\ inApp'[n] = IF live THEN "pending" ELSE "none"
      /\ \A m \in Notes \ {n} : inApp'[m] = inApp[m]
  BY <1>1 DEF AppInv, AppTyped
<1>3. /\ ns \in [Notes -> {"none", "unread", "read", "archived"}]
      /\ ns[n] = "unread" /\ \A m \in Notes \ {n} : ns[m] = notes[m]
  BY DEF AppInv, AppTyped
<1>4. TasksSound(tasks, ns, inApp', reached, env.throws)
  BY <1>1, <1>2, CreateSound
<1> HIDE DEF live, ns
<1>5. tasks' \in Seq(TaskType) /\ TasksSound(tasks', ns, inApp', reached, env.throws)
  <2>1. CASE live
    <3>1. CreatedTask(n) \in TaskType /\ CreatedTask(n).note = n /\ CreatedTask(n).kind = "created"
      BY TasksTyped, NewTasks
    <3>2. TaskSound(CreatedTask(n), ns, inApp', reached, env.throws)
      BY <1>1, <1>2, <1>3, <2>1, <3>1, NoneAbout DEF TaskSound
    <3>3. \A i \in 1..Len(tasks) : tasks[i].note # CreatedTask(n).note
      BY <1>1, <3>1, NoneAbout
    <3>4. tasks' = Append(tasks, CreatedTask(n)) /\ tasks \in Seq(TaskType)
      BY <1>1, <2>1 DEF AppInv, AppTyped
    <3> QED
      BY <1>4, <3>1, <3>2, <3>3, <3>4, AppendSound
  <2>2. CASE ~live
    BY <1>1, <1>4, <2>2 DEF AppInv, AppTyped
  <2> QED
    BY <2>1, <2>2
<1>6. AppTyped'
  BY <1>1, <1>2, <1>3, <1>5 DEF AppInv, AppTyped
<1>7. InAppKept'
  BY <1>1, <1>2, <1>3 DEF AppInv, InAppKept
<1> QED
  BY <1>1, <1>5, <1>6, <1>7 DEF AppInv

LEMMA CreateMessageInv ==
  ASSUME AppInv, NEW n \in Notes, CreateMessage(n)
  PROVE  AppInv'
<1> DEFINE ns == [notes EXCEPT ![n] = "unread"]
           t == MessageTask(n, UnreadOf(RecipientOf[n], notes'))
<1>1. /\ notes[n] = "none" /\ notes' = ns /\ tasks' = Append(tasks, t)
      /\ UNCHANGED <<inApp, reached, env, content, hub, conn, heard>>
  BY DEF CreateMessage, socketVars
<1>2. /\ ns \in [Notes -> {"none", "unread", "read", "archived"}]
      /\ ns[n] = "unread" /\ \A m \in Notes \ {n} : ns[m] = notes[m]
  BY DEF AppInv, AppTyped
<1>3. TasksSound(tasks, ns, inApp, reached, env.throws)
  BY <1>1, CreateSound
<1>4. t \in TaskType /\ t.note = n /\ t.kind = "message"
  BY TasksTyped, NewTasks, CountTyped
<1> HIDE DEF t, ns
<1>5. TaskSound(t, ns, inApp, reached, env.throws)
  BY <1>1, <1>2, <1>4, NoneAbout DEF TaskSound
<1>6. \A i \in 1..Len(tasks) : tasks[i].note # t.note
  BY <1>1, <1>4, NoneAbout
<1>7. tasks' \in Seq(TaskType) /\ TasksSound(tasks', ns, inApp, reached, env.throws)
  BY <1>1, <1>3, <1>4, <1>5, <1>6, AppendSound DEF AppInv, AppTyped
<1>8. AppTyped'
  BY <1>1, <1>2, <1>7 DEF AppInv, AppTyped
<1>9. InAppKept'
  BY <1>1, <1>2 DEF AppInv, InAppKept
<1> QED
  BY <1>1, <1>7, <1>8, <1>9 DEF AppInv

\* The notification a handler is about, which is there.
LEMMA AboutNote ==
  ASSUME AppInv, NEW i \in 1..Len(tasks), tasks[i].kind \in {"created", "settle", "message"}
  PROVE  tasks[i].note \in Notes /\ notes[tasks[i].note] # "none"
BY AtTask DEF TaskSound, TaskType

\* The handler keeps how many sends did not throw.
LEMMA TellCreatedInv ==
  ASSUME AppInv, NEW i \in 1..Len(tasks), TellCreated(i)
  PROVE  AppInv'
<1> DEFINE t == tasks[i]
           n == t.note
           sent == SentConnections(t.user)
           u == [t EXCEPT !.kind = "count", !.sent = sent]
<1>1. /\ t \in TaskType /\ t.kind = "created"
      /\ TaskSound(t, notes, inApp, reached, env.throws)
  BY AtTask DEF TellCreated, Moving
<1>2. n \in Notes /\ n # NoNote /\ notes[n] # "none" /\ inApp[n] = "pending" /\ n \notin reached
  BY <1>1, AboutNote, NothingAssumption DEF TaskSound
<1>3. /\ tasks' = [tasks EXCEPT ![i] = u] /\ SendToUser(t.user)
      /\ reached' = (IF Reached(t.user) # {} THEN reached \cup {n} ELSE reached)
      /\ UNCHANGED <<notes, content, inApp, conn, heard, env>>
  BY DEF TellCreated, noteVars
<1>4. /\ sent \in 0..Cardinality(Sockets)
      /\ sent = 0 => Reached(t.user) = {}
      /\ sent > 0 /\ env.throws => Reached(t.user) # {}
  BY SendTold DEF AppInv
<1>5. u \in TaskType /\ u.kind = "count" /\ u.note = n /\ u.sent = sent
  <2> HIDE DEF t, sent
  <2> QED
    BY <1>1, <1>4 DEF TaskType
<1>6. hub' \subseteq Sockets
  <2>1. 0 \in 0..Cardinality(Notes)
    BY FiniteAssumption, FS_CardinalityType
  <2> QED
    BY <1>3, <2>1, TellTyped DEF AppInv
<1> HIDE DEF u, sent
<1>7. TaskSound(u, notes, inApp, reached', env.throws)
  <2>1. sent = 0 => n \notin reached'
    BY <1>2, <1>3, <1>4
  <2>2. sent > 0 /\ env.throws => n \in reached'
    BY <1>3, <1>4
  <2> HIDE DEF n
  <2> QED
    BY <1>2, <1>5, <2>1, <2>2 DEF TaskSound
<1>8. \A m \in Notes \ {n} : m \in reached' <=> m \in reached
  BY <1>3
<1>9. \A j \in 1..Len(tasks) \ {i} : TaskSound(tasks[j], notes, inApp, reached', env.throws)
  BY <1>8, OthersSound
<1>10. tasks' \in Seq(TaskType) /\ TasksSound(tasks', notes, inApp, reached', env.throws)
  BY <1>3, <1>5, <1>7, <1>9, AtTask, UpdateSound DEF AppInv, AppTyped
<1>11. AppTyped'
  BY <1>2, <1>3, <1>6, <1>10 DEF AppInv, AppTyped
<1>12. InAppKept'
  <2> HIDE DEF n
  <2> QED
    BY <1>2, <1>3, <1>8 DEF AppInv, InAppKept
<1> QED
  BY <1>3, <1>10, <1>11, <1>12 DEF AppInv

\* The status is settled by the one handler about the notification.
LEMMA SettleInv ==
  ASSUME AppInv, NEW i \in 1..Len(tasks), SettleInApp(i)
  PROVE  AppInv'
<1> DEFINE t == tasks[i]
           n == t.note
           x == IF t.sent > 0 THEN "delivered" ELSE "skipped"
<1>1. /\ t \in TaskType /\ t.kind = "settle"
      /\ TaskSound(t, notes, inApp, reached, env.throws)
  BY AtTask DEF SettleInApp, Moving
<1>2. /\ n \in Notes /\ n # NoNote /\ notes[n] # "none"
      /\ t.sent = 0 => n \notin reached
      /\ t.sent > 0 /\ env.throws => n \in reached
  BY <1>1, AboutNote, NothingAssumption DEF TaskSound
<1>3. /\ tasks' = Without(i) /\ inApp' = [inApp EXCEPT ![n] = x]
      /\ UNCHANGED <<notes, content, hub, conn, heard, reached, env>>
  BY DEF SettleInApp, socketVars
<1>4. x = "skipped" => t.sent = 0
  <2>1. t.sent \in Nat
    BY <1>1, FiniteAssumption, FS_CardinalityType DEF TaskType
  <2> QED
    BY <2>1
<1>5. x = "delivered" => t.sent > 0
  OBVIOUS
<1>6. x \in {"delivered", "skipped"}
  OBVIOUS
<1> HIDE DEF n, x
<1>7. /\ inApp' \in [Notes -> {"none", "pending", "delivered", "skipped"}]
      /\ inApp'[n] = x /\ \A m \in Notes \ {n} : inApp'[m] = inApp[m]
  BY <1>2, <1>3, <1>6 DEF AppInv, AppTyped
<1>8. \A j \in 1..Len(tasks) \ {i} : TaskSound(tasks[j], notes, inApp', reached, env.throws)
  BY <1>7, OthersSound DEF n
<1>9. tasks' \in Seq(TaskType) /\ TasksSound(tasks', notes, inApp', reached, env.throws)
  BY <1>3, <1>8, AtTask, WithoutSound DEF AppInv, AppTyped
<1>10. AppTyped'
  BY <1>3, <1>7, <1>9 DEF AppInv, AppTyped
<1>11. InAppKept'
  BY <1>2, <1>3, <1>4, <1>5, <1>6, <1>7 DEF AppInv, InAppKept
<1> QED
  BY <1>3, <1>9, <1>10, <1>11 DEF AppInv

\* A message has no delivery in the application.
LEMMA TellMessageInv ==
  ASSUME AppInv, NEW i \in 1..Len(tasks), TellMessage(i)
  PROVE  AppInv'
<1> DEFINE t == tasks[i]
           n == t.note
<1>1. /\ t \in TaskType /\ t.kind = "message"
      /\ TaskSound(t, notes, inApp, reached, env.throws)
  BY AtTask DEF TellMessage, Moving
<1>2. n \in Notes /\ notes[n] # "none" /\ inApp[n] = "none"
  BY <1>1, AboutNote, NothingAssumption DEF TaskSound
<1>3. /\ tasks' = Without(i) /\ TellCount(t.user, t.count)
      /\ reached' = (IF Reached(t.user) # {} THEN reached \cup {n} ELSE reached)
      /\ UNCHANGED <<notes, content, inApp, conn, env>>
  BY DEF TellMessage, noteVars
<1>4. hub' \subseteq Sockets /\ heard' \in [Sockets -> 0..Cardinality(Notes)]
  <2>1. t.count \in 0..Cardinality(Notes)
    BY <1>1 DEF TaskType
  <2> QED
    BY <1>3, <2>1, TellTyped DEF AppInv
<1>5. \A m \in Notes \ {n} : m \in reached' <=> m \in reached
  BY <1>3
<1>6. \A j \in 1..Len(tasks) \ {i} : TaskSound(tasks[j], notes, inApp, reached', env.throws)
  BY <1>5, OthersSound
<1>7. tasks' \in Seq(TaskType) /\ TasksSound(tasks', notes, inApp, reached', env.throws)
  BY <1>3, <1>6, AtTask, WithoutSound DEF AppInv, AppTyped
<1>8. AppTyped'
  BY <1>2, <1>3, <1>4, <1>7 DEF AppInv, AppTyped
<1>9. InAppKept'
  <2> HIDE DEF n
  <2> QED
    BY <1>2, <1>3, <1>5 DEF AppInv, InAppKept
<1> QED
  BY <1>3, <1>7, <1>8, <1>9 DEF AppInv

\* After a crash no handler is left.
LEMMA CrashAppInv ==
  ASSUME AppInv, Crash
  PROVE  AppInv'
<1>1. 0 \in 0..Cardinality(Notes)
  BY FiniteAssumption, FS_CardinalityType
<1>2. tasks' \in Seq(TaskType) /\ TasksSound(tasks', notes, inApp, reached, env.throws)
  <2>1. tasks' = <<>> /\ tasks' \in Seq(TaskType) /\ Len(tasks') = 0
    BY EmptySeq DEF Crash
  <2> QED
    BY <2>1 DEF TasksSound
<1>3. AppTyped' /\ UNCHANGED <<notes, inApp, reached, env>>
  BY <1>1, <1>2 DEF Crash, noteVars, AppInv, AppTyped
<1> QED
  BY <1>2, <1>3, AppSame

-----------------------------------------------------------------------------
(* Every step                                                              *)

\* A notification that is not there has nothing to be delivered.
NoneAsked == \A n \in Notes : notes[n] = "none" => sending[n].at = "none"

LedgerInv == PushInv /\ AppInv /\ NoneAsked

\* A step that leaves the deliveries to the providers alone.
LEMMA PushSame ==
  ASSUME PushInv, NoneAsked, UNCHANGED <<push, sending, said>>,
         \A n \in Notes : notes'[n] = "none" => notes[n] = "none"
  PROVE  PushInv' /\ NoneAsked'
BY DEF PushInv, PushTyped, NoneAsked

\* A step that leaves everything else alone.
LEMMA AppUnchanged ==
  ASSUME AppInv, UNCHANGED <<notes, content, inApp, socketVars, tasks, env>>
  PROVE  AppInv'
BY DEF AppInv, AppTyped, InAppKept, socketVars

\* Every step of Next, and with them [Next]_vars, keeps the invariant.
LEMMA SocketLedger == LedgerInv /\ SocketNext => LedgerInv'
<1>1. ASSUME LedgerInv, NEW s \in Sockets, Connect(s) \/ Vanish(s) \/ Close(s)
      PROVE  LedgerInv'
  <2>1. AppInv'
    BY <1>1, ConnectInv, ConnectionInv DEF LedgerInv
  <2>2. UNCHANGED <<push, sending, said, notes>>
    BY <1>1 DEF Connect, Vanish, Close, noteVars, pushVars
  <2> QED
    BY <1>1, <2>1, <2>2, PushSame DEF LedgerInv
<1>2. ASSUME LedgerInv, NEW i \in 1..Len(tasks),
             \/ ReadCount(i) \/ BroadcastCount(i) \/ AnswerConnected(i)
             \/ TellCreated(i) \/ TellMessage(i)
      PROVE  LedgerInv'
  <2>1. AppInv'
    BY <1>2, ReadCountInv, BroadcastCountInv, AnswerConnectedInv, TellCreatedInv, TellMessageInv
       DEF LedgerInv
  <2>2. UNCHANGED <<push, sending, said, notes>>
    BY <1>2 DEF ReadCount, BroadcastCount, AnswerConnected, TellCreated, TellMessage, noteVars, pushVars
  <2> QED
    BY <1>2, <2>1, <2>2, PushSame DEF LedgerInv
<1>3. ASSUME LedgerInv, NEW i \in 1..Len(tasks), SettleInApp(i)
      PROVE  LedgerInv'
  <2>1. tasks[i].note \in Notes /\ notes[tasks[i].note] # "none"
    BY <1>3, AboutNote DEF LedgerInv, SettleInApp, Moving
  <2>2. AppInv' /\ PushInv'
    BY <1>3, <2>1, SettleInv, SettlePushInv DEF LedgerInv
  <2>3. notes' = notes /\ \A n \in Notes \ {tasks[i].note} : sending'[n] = sending[n]
    BY <1>3 DEF SettleInApp, LedgerInv, PushInv, PushTyped
  <2>4. NoneAsked'
    BY <1>3, <2>1, <2>3 DEF LedgerInv, NoneAsked
  <2> QED
    BY <2>2, <2>4 DEF LedgerInv
<1> QED
  BY <1>1, <1>2, <1>3 DEF SocketNext

LEMMA NoteLedger == LedgerInv /\ NoteNext => LedgerInv'
<1>1. ASSUME LedgerInv, NEW n \in Notes, MarkNotificationRead(n) \/ ArchiveNotification(n)
      PROVE  LedgerInv'
  <2>1. AppInv'
    BY <1>1, MarkReadInv DEF LedgerInv
  <2>2. UNCHANGED <<push, sending, said>>
    BY <1>1 DEF MarkNotificationRead, ArchiveNotification, pushVars
  <2>3. \A m \in Notes : notes'[m] = "none" => notes[m] = "none"
    BY <1>1 DEF MarkNotificationRead, ArchiveNotification, LedgerInv, AppInv, AppTyped
  <2> QED
    BY <1>1, <2>1, <2>2, <2>3, PushSame DEF LedgerInv
<1>2. ASSUME LedgerInv, NEW u \in Users, MarkAllNotificationsRead(u)
      PROVE  LedgerInv'
  <2>1. AppInv'
    BY <1>2, MarkAllReadInv DEF LedgerInv
  <2>2. UNCHANGED <<push, sending, said>>
    BY <1>2 DEF MarkAllNotificationsRead, pushVars
  <2>3. \A m \in Notes : notes'[m] = "none" => notes[m] = "none"
    BY <1>2 DEF MarkAllNotificationsRead
  <2> QED
    BY <1>2, <2>1, <2>2, <2>3, PushSame DEF LedgerInv
<1>3. ASSUME LedgerInv, NEW n \in Notes, CreateMessage(n)
      PROVE  LedgerInv'
  <2>1. AppInv'
    BY <1>3, CreateMessageInv DEF LedgerInv
  <2>2. UNCHANGED <<push, sending, said>>
    BY <1>3 DEF CreateMessage, pushVars
  <2>3. \A m \in Notes : notes'[m] = "none" => notes[m] = "none"
    BY <1>3 DEF CreateMessage, LedgerInv, AppInv, AppTyped
  <2> QED
    BY <1>3, <2>1, <2>2, <2>3, PushSame DEF LedgerInv
<1>4. ASSUME LedgerInv, NEW n \in Notes, CreateNotification(n)
      PROVE  LedgerInv'
  <2>1. sending[n].at = "none"
    BY <1>4 DEF CreateNotification, LedgerInv, NoneAsked
  <2>2. AppInv' /\ PushInv'
    BY <1>4, <2>1, CreateInv, CreatePushInv DEF LedgerInv
  <2>3. notes'[n] = "unread"
        /\ \A m \in Notes \ {n} : notes'[m] = notes[m] /\ sending'[m] = sending[m]
    BY <1>4 DEF CreateNotification, LedgerInv, AppInv, AppTyped, PushInv, PushTyped
  <2>4. NoneAsked'
    BY <1>4, <2>3 DEF LedgerInv, NoneAsked
  <2> QED
    BY <2>2, <2>4 DEF LedgerInv
<1> QED
  BY <1>1, <1>2, <1>3, <1>4 DEF NoteNext

LEMMA PushLedger == LedgerInv /\ PushNext => LedgerInv'
<1> SUFFICES ASSUME LedgerInv, NEW n \in Notes,
                    \/ DispatchPushNotifications(n)
                    \/ \E k \in Keys, outcome \in Outcomes : AnswerApns(n, k, outcome)
                    \/ \E length \in 1..(Len(sending[n].queue) - sending[n].cut) :
                         \E tickets \in [1..length -> Tickets] : AnswerExpoChunk(n, tickets)
                    \/ \E a \in sending[n].attempts : RecordPushDeliveryAttempt(n, a)
             PROVE  LedgerInv'
  BY DEF PushNext
<1>1. PushInv'
  <2>1. CASE DispatchPushNotifications(n)
    BY <2>1, DispatchInv DEF LedgerInv
  <2>2. CASE \E k \in Keys, outcome \in Outcomes : AnswerApns(n, k, outcome)
    BY <2>2, ApnsInv DEF LedgerInv
  <2>3. CASE \E length \in 1..(Len(sending[n].queue) - sending[n].cut) :
               \E tickets \in [1..length -> Tickets] : AnswerExpoChunk(n, tickets)
    <3>1. PICK length \in 1..(Len(sending[n].queue) - sending[n].cut) :
            \E tickets \in [1..length -> Tickets] : AnswerExpoChunk(n, tickets)
      BY <2>3
    <3>2. PICK tickets \in [1..length -> Tickets] : AnswerExpoChunk(n, tickets)
      BY <3>1
    <3>3. length \in Nat
      BY <3>1
    <3>4. Len(tickets) = length
      BY <3>2, <3>3
    <3> QED
      BY <3>1, <3>2, <3>4, ExpoInv DEF LedgerInv
  <2>4. CASE \E a \in sending[n].attempts : RecordPushDeliveryAttempt(n, a)
    BY <2>4, PushRecordInv DEF LedgerInv
  <2> QED
    BY <2>1, <2>2, <2>3, <2>4
<1>2. UNCHANGED <<notes, content, inApp, socketVars, tasks, env>>
  BY DEF DispatchPushNotifications, AnswerApns, AnswerExpoChunk, RecordPushDeliveryAttempt, noteVars
<1>3. sending[n].at # "none" /\ \A m \in Notes \ {n} : sending'[m] = sending[m]
  <2>1. sending \in [Notes -> SendingType]
    BY DEF LedgerInv, PushInv, PushTyped
  <2> QED
    BY <2>1 DEF DispatchPushNotifications, AnswerApns, AnswerExpoChunk, RecordPushDeliveryAttempt, Answered
<1>4. AppInv' /\ NoneAsked'
  BY <1>2, <1>3, AppUnchanged DEF LedgerInv, NoneAsked
<1> QED
  BY <1>1, <1>4 DEF LedgerInv

LEMMA CrashLedger == LedgerInv /\ Crash => LedgerInv'
<1> SUFFICES ASSUME LedgerInv, Crash PROVE LedgerInv'
  OBVIOUS
<1>1. AppInv' /\ PushInv'
  BY CrashAppInv, CrashPushInv DEF LedgerInv
<1>2. NoneAsked'
  BY DEF LedgerInv, NoneAsked, Crash, NotAsked, noteVars
<1> QED
  BY <1>1, <1>2 DEF LedgerInv

LEMMA LedgerStep == LedgerInv /\ [Next]_vars => LedgerInv'
<1>1. ASSUME LedgerInv, UNCHANGED <<noteVars, pushVars, socketVars, tasks, env>>
      PROVE  LedgerInv'
  <2>1. UNCHANGED <<notes, content, inApp, push, sending, said, socketVars, tasks, env>>
    BY <1>1 DEF noteVars, pushVars
  <2> QED
    BY <1>1, <2>1, PushSame, AppUnchanged DEF LedgerInv
<1>2. UNCHANGED vars => UNCHANGED <<noteVars, pushVars, socketVars, tasks, env>>
  BY DEF vars
<1> QED
  BY <1>1, <1>2, SocketLedger, NoteLedger, PushLedger, CrashLedger DEF Next

\* Nothing is asked, told or under way at first.
LEMMA LedgerInit == Init => LedgerInv
<1> SUFFICES ASSUME Init PROVE LedgerInv
  OBVIOUS
<1>1. PushTyped
  BY NotAskedTyped DEF Init, PushTyped, Statuses, Said
<1>2. ASSUME NEW n \in Notes PROVE PushesKept(sending[n], push[n], said[n])
  <2>1. sending[n] = NotAsked /\ \A k \in Keys : push[n][k] = "none"
    BY DEF Init
  <2>2. sending[n] \in SendingType /\ push[n] \in [Keys -> Statuses] /\ said[n] \in [Keys -> Said]
    BY <1>1 DEF PushTyped
  <2> QED
    BY <2>1, <2>2, NotAskedTyped, UnaskedKept
<1>3. AppTyped
  <2>1. 0 \in 0..Cardinality(Notes)
    BY FiniteAssumption, FS_CardinalityType
  <2> QED
    BY <2>1, EmptySeq DEF Init, AppTyped
<1>4. InAppKept /\ NoneAsked
  BY DEF Init, InAppKept, NoneAsked, NotAsked
<1>5. TasksSound(tasks, notes, inApp, reached, env.throws)
  BY DEF Init, TasksSound
<1> QED
  BY <1>1, <1>2, <1>3, <1>4, <1>5 DEF LedgerInv, PushInv, AppInv

\* What the invariant says of one delivery is what the property says.
LEMMA LedgerImplies == LedgerInv => LedgerTellsAnswers
<1> SUFFICES ASSUME LedgerInv, NEW n \in Notes, NEW k \in Keys
             PROVE  /\ push[n][k] = "delivered" => said[n][k] = "accepted"
                    /\ push[n][k] = "retried" => said[n][k] = "retryable"
                    /\ push[n][k] = "failed" => said[n][k] \in {"failed", "rejected"}
                    /\ Answered(n) /\ sending[n].attempts = {} => push[n][k] # "pending"
  BY DEF LedgerInv, AppInv, InAppKept, LedgerTellsAnswers
<1>1. PushesKept(sending[n], push[n], said[n])
  BY DEF LedgerInv, PushInv
<1>2. ASSUME Answered(n), sending[n].attempts = {}
      PROVE  Unanswered(sending[n]) = {} /\ Unrecorded(sending[n]) = {} /\ sending[n].at = "asked"
  <2>1. sending[n] \in SendingType
    BY DEF LedgerInv, PushInv, PushTyped
  <2>2. sending[n].cut + 1 .. Len(sending[n].queue) = {}
    BY <1>2, <2>1, QueueTyped DEF Answered
  <2> QED
    BY <1>2, <2>2 DEF Answered, Unanswered, Unrecorded
<1> QED
  BY <1>1, <1>2 DEF PushesKept

LEMMA LedgerTypes == TokenInv /\ LedgerInv => TypeOK
BY DEF TokenInv, LedgerInv, PushInv, PushTyped, AppInv, AppTyped, InAppKept, Statuses, Said, TypeOK

\* Every handler, delivery and answer keeps its type, and a notification that
\* does not exist is neither delivered nor told of.
THEOREM NotificationsTyped == Spec => []TypeOK
<1>1. Init => TokenInv /\ LedgerInv
  BY TokenInitInv, LedgerInit DEF Init
<1>2. TokenInv /\ LedgerInv /\ [Next]_vars => TokenInv' /\ LedgerInv'
  BY StepInv, LedgerStep
<1> QED
  BY <1>1, <1>2, LedgerTypes, PTL DEF Spec

\* However the answers of APNs, Expo's chunks, the records, readers and sockets
\* that come and go and crashes interleave, a delivery has the status of what
\* was said of its very token, none stays pending once all is recorded, and the
\* one in the application says whether a client was told.
THEOREM AnswersRecorded == Spec => []LedgerTellsAnswers
<1>1. LedgerInv /\ [Next]_vars => LedgerInv'
  BY LedgerStep
<1> QED
  BY <1>1, LedgerInit, LedgerImplies, PTL DEF Spec

-----------------------------------------------------------------------------
(* The count every open socket is told in the end                          *)

\* Whoever creates a notification that is not of a message has it told in the
\* application: createNotification's callers (chat-service.ts,
\* test-notification-service.ts) leave the channels to its default, in_app and push.
ToldInApp == \A n \in Notes : Channels[n] = {} \/ "in_app" \in Channels[n]

\* The handler will tell socket s a count.
Tells(t, s) == \/ t.kind \in {"count", "created", "message"} /\ t.user = UserOf[s]
               \/ t.kind = "connected" /\ t.socket = s

LastTold(q, i, s) == Tells(q[i], s) /\ \A j \in 1..Len(q) : j > i => ~ Tells(q[j], s)

\* Of the handlers q that will tell s, the last tells it v if it has read its
\* count; and if none will, v is h, what s was told last.
WillHear(q, v, h, s) ==
  /\ \A i \in 1..Len(q) : LastTold(q, i, s) /\ q[i].read => q[i].count = v
  /\ (\A i \in 1..Len(q) : ~ Tells(q[i], s)) => h = v

\* When handlers have read their count, and whom a connected one tells.
Shaped(t) ==
  /\ t.kind = "connected" => t.socket \in Sockets /\ t.user = UserOf[t.socket] /\ t.note = NoNote
  /\ t.kind = "created" => ~ t.read
  /\ t.kind = "message" => t.read

AllShaped(q) == \A i \in 1..Len(q) : Shaped(q[i])

\* The hub holds every open socket: what it forgets is closed.
OpenHeld == \A s \in Sockets : conn[s] = "open" => s \in hub

AllWillHear ==
  \A s \in Sockets : conn[s] = "open" => WillHear(tasks, UnreadOf(UserOf[s], notes), heard[s], s)

Settling == /\ OpenHeld /\ AllShaped(tasks)
            /\ env.serial => AllWillHear

\* A handler that will tell s is appended; whatever s was to be told, this is last.
LEMMA TellerAppended ==
  ASSUME NEW q \in Seq(TaskType), NEW t \in TaskType, NEW s, NEW v, NEW h,
         Tells(t, s), t.read => t.count = v
  PROVE  WillHear(Append(q, t), v, h, s)
<1> DEFINE r == Append(q, t)
<1>1. /\ Len(q) \in Nat /\ Len(r) = Len(q) + 1 /\ r[Len(q) + 1] = t
  BY AppendProperties, LenProperties
<1> HIDE DEF r
<1>2. \A i \in 1..Len(r) : LastTold(r, i, s) => i = Len(r)
  BY <1>1 DEF LastTold
<1>3. Len(r) \in 1..Len(r)
  BY <1>1
<1> QED
  BY <1>1, <1>2, <1>3 DEF WillHear, r

\* One that will not changes nothing for s.
LEMMA OtherAppended ==
  ASSUME NEW q \in Seq(TaskType), NEW t \in TaskType, NEW s, NEW v, NEW h,
         ~ Tells(t, s), WillHear(q, v, h, s)
  PROVE  WillHear(Append(q, t), v, h, s)
<1> DEFINE r == Append(q, t)
<1>1. /\ Len(q) \in Nat /\ Len(r) = Len(q) + 1 /\ r[Len(q) + 1] = t
      /\ \A i \in 1..Len(q) : r[i] = q[i]
  BY AppendProperties, LenProperties
<1> HIDE DEF r
<1>2. ASSUME NEW i \in 1..Len(r), LastTold(r, i, s), r[i].read
      PROVE  r[i].count = v
  <2>1. i \in 1..Len(q)
    BY <1>1, <1>2 DEF LastTold
  <2>2. LastTold(q, i, s)
    BY <1>1, <1>2, <2>1 DEF LastTold
  <2> QED
    BY <1>1, <1>2, <2>1, <2>2 DEF WillHear
<1>3. ASSUME \A i \in 1..Len(r) : ~ Tells(r[i], s)
      PROVE  h = v
  <2>1. \A i \in 1..Len(q) : i \in 1..Len(r)
    BY <1>1
  <2> QED
    BY <1>1, <1>3, <2>1 DEF WillHear
<1> QED
  BY <1>2, <1>3 DEF WillHear, r

\* The first handler has told what it was to tell, and is gone.
LEMMA FirstGone ==
  ASSUME NEW q \in Seq(TaskType), NEW r \in Seq(TaskType), NEW s, NEW v, NEW h, NEW g,
         Len(q) > 0, Len(r) = Len(q) - 1, \A j \in 1 .. Len(q) - 1 : r[j] = q[j + 1],
         WillHear(q, v, h, s),
         IF Tells(q[1], s) THEN q[1].read /\ g = q[1].count ELSE g = h
  PROVE  WillHear(r, v, g, s)
<1>1. Len(q) \in Nat /\ 1 \in 1..Len(q)
  OBVIOUS
<1>2. \A i \in 1..Len(r) : i + 1 \in 1..Len(q) /\ r[i] = q[i + 1]
  BY <1>1
<1>3. \A j \in 1..Len(q) : j # 1 => j - 1 \in 1..Len(r) /\ q[j] = r[j - 1]
  <2> TAKE j \in 1..Len(q)
  <2> HAVE j # 1
  <2>1. j - 1 \in 1 .. Len(q) - 1 /\ (j - 1) + 1 = j
    BY <1>1
  <2> QED
    BY <1>1, <2>1
<1>4. ASSUME NEW i \in 1..Len(r), LastTold(r, i, s), r[i].read
      PROVE  r[i].count = v
  <2>1. ASSUME NEW j \in 1..Len(q), j > i + 1 PROVE ~ Tells(q[j], s)
    <3>1. j # 1 /\ j - 1 > i
      BY <1>1, <2>1
    <3> QED
      BY <1>3, <1>4, <3>1 DEF LastTold
  <2>2. LastTold(q, i + 1, s)
    BY <1>2, <1>4, <2>1 DEF LastTold
  <2> QED
    BY <1>2, <1>4, <2>2 DEF WillHear
<1>5. ASSUME \A i \in 1..Len(r) : ~ Tells(r[i], s)
      PROVE  g = v
  <2>1. \A j \in 1..Len(q) : j # 1 => ~ Tells(q[j], s)
    BY <1>3, <1>5
  <2>2. CASE Tells(q[1], s)
    <3>1. LastTold(q, 1, s)
      BY <1>1, <2>1, <2>2 DEF LastTold
    <3> QED
      BY <1>1, <2>2, <3>1 DEF WillHear
  <2>3. CASE ~ Tells(q[1], s)
    BY <1>1, <2>1, <2>3 DEF WillHear
  <2> QED
    BY <2>2, <2>3
<1> QED
  BY <1>4, <1>5 DEF WillHear

\* The first handler goes on, and will still tell s or still not.
LEMMA FirstGoesOn ==
  ASSUME NEW q \in Seq(TaskType), NEW u \in TaskType, NEW s, NEW v, NEW h,
         Len(q) > 0, WillHear(q, v, h, s),
         Tells(u, s) <=> Tells(q[1], s), Tells(u, s) /\ u.read => u.count = v
  PROVE  WillHear([q EXCEPT ![1] = u], v, h, s)
<1> DEFINE r == [q EXCEPT ![1] = u]
<1>1. /\ Len(r) = Len(q) /\ Len(q) \in Nat
      /\ r[1] = u /\ \A j \in 1..Len(q) : j # 1 => r[j] = q[j]
  BY ExceptSeq
<1> HIDE DEF r
<1>2. \A j \in 1..Len(q) : Tells(r[j], s) <=> Tells(q[j], s)
  BY <1>1
<1>3. ASSUME NEW i \in 1..Len(r), LastTold(r, i, s), r[i].read
      PROVE  r[i].count = v
  <2>1. CASE i = 1
    BY <1>1, <1>3, <2>1 DEF LastTold
  <2>2. CASE i # 1
    <3>1. LastTold(q, i, s) /\ r[i] = q[i]
      BY <1>1, <1>2, <1>3, <2>2 DEF LastTold
    <3> QED
      BY <1>1, <1>3, <3>1 DEF WillHear
  <2> QED
    BY <2>1, <2>2
<1> QED
  BY <1>1, <1>2, <1>3 DEF WillHear, r

\* The first handler has told what it was to tell, and stays for something else.
LEMMA FirstHasTold ==
  ASSUME NEW q \in Seq(TaskType), NEW u \in TaskType, NEW s, NEW v, NEW h, NEW g,
         Len(q) > 0, WillHear(q, v, h, s), ~ Tells(u, s),
         IF Tells(q[1], s) THEN q[1].read /\ g = q[1].count ELSE g = h
  PROVE  WillHear([q EXCEPT ![1] = u], v, g, s)
<1> DEFINE r == [q EXCEPT ![1] = u]
<1>1. /\ Len(r) = Len(q) /\ Len(q) \in Nat
      /\ r[1] = u /\ \A j \in 1..Len(q) : j # 1 => r[j] = q[j]
  BY ExceptSeq
<1> HIDE DEF r
<1>2. ASSUME NEW i \in 1..Len(r), LastTold(r, i, s), r[i].read
      PROVE  r[i].count = v
  <2>1. i # 1
    BY <1>1, <1>2 DEF LastTold
  <2>2. LastTold(q, i, s) /\ r[i] = q[i]
    BY <1>1, <1>2, <2>1 DEF LastTold
  <2> QED
    BY <1>1, <1>2, <2>2 DEF WillHear
<1>3. ASSUME \A i \in 1..Len(r) : ~ Tells(r[i], s)
      PROVE  g = v
  <2>1. \A j \in 1..Len(q) : j # 1 => ~ Tells(q[j], s)
    BY <1>1, <1>3
  <2>2. CASE Tells(q[1], s)
    <3>1. LastTold(q, 1, s) /\ 1 \in 1..Len(q)
      BY <1>1, <2>1, <2>2 DEF LastTold
    <3> QED
      BY <2>2, <3>1 DEF WillHear
  <2>3. CASE ~ Tells(q[1], s)
    BY <1>1, <2>1, <2>3 DEF WillHear
  <2> QED
    BY <2>2, <2>3
<1> QED
  BY <1>2, <1>3 DEF WillHear, r

\* Shapes, when a handler begins, ends or goes on.
LEMMA ShapesKept ==
  ASSUME tasks \in Seq(TaskType), AllShaped(tasks)
  PROVE  /\ \A t \in TaskType : Shaped(t) => AllShaped(Append(tasks, t))
         /\ \A i \in 1..Len(tasks) : AllShaped(Without(i))
         /\ \A i \in 1..Len(tasks), u \in TaskType : Shaped(u) => AllShaped([tasks EXCEPT ![i] = u])
<1>1. ASSUME NEW t \in TaskType, Shaped(t) PROVE AllShaped(Append(tasks, t))
  <2> DEFINE r == Append(tasks, t)
  <2>1. /\ Len(tasks) \in Nat /\ Len(r) = Len(tasks) + 1 /\ r[Len(tasks) + 1] = t
        /\ \A i \in 1..Len(tasks) : r[i] = tasks[i]
    BY AppendProperties, LenProperties
  <2> HIDE DEF r
  <2>2. \A i \in 1..Len(r) : i \in 1..Len(tasks) \/ i = Len(tasks) + 1
    BY <2>1
  <2>3. \A i \in 1..Len(r) : Shaped(r[i])
    BY <1>1, <2>1, <2>2 DEF AllShaped
  <2> QED
    BY <2>3 DEF AllShaped, r
<1>2. ASSUME NEW i \in 1..Len(tasks) PROVE AllShaped(Without(i))
  <2> DEFINE r == Without(i)
             was(j) == IF j < i THEN j ELSE j + 1
  <2>1. /\ Len(r) = Len(tasks) - 1 /\ Len(tasks) \in Nat
        /\ \A j \in 1 .. Len(tasks) - 1 : r[j] = tasks[was(j)]
    BY WithoutAt
  <2>2. \A j \in 1..Len(r) : was(j) \in 1..Len(tasks)
    BY <2>1
  <2> HIDE DEF r, was
  <2>3. \A j \in 1..Len(r) : Shaped(r[j])
    BY <2>1, <2>2 DEF AllShaped
  <2> QED
    BY <2>3 DEF AllShaped, r
<1>3. ASSUME NEW i \in 1..Len(tasks), NEW u \in TaskType, Shaped(u)
      PROVE  AllShaped([tasks EXCEPT ![i] = u])
  <2> DEFINE r == [tasks EXCEPT ![i] = u]
  <2>1. Len(r) = Len(tasks) /\ \A j \in 1..Len(tasks) : r[j] = IF j = i THEN u ELSE tasks[j]
    BY ExceptSeq
  <2> HIDE DEF r
  <2>2. \A j \in 1..Len(r) : Shaped(r[j])
    BY <1>3, <2>1 DEF AllShaped
  <2> QED
    BY <2>2 DEF AllShaped, r
<1> QED
  BY <1>1, <1>2, <1>3

\* A user's count changes only with that user's notifications.
LEMMA UnreadSame ==
  ASSUME NEW u, NEW ns, NEW os,
         \A n \in Notes : RecipientOf[n] = u => (ns[n] = "unread" <=> os[n] = "unread")
  PROVE  UnreadOf(u, ns) = UnreadOf(u, os)
<1>1. {n \in Notes : RecipientOf[n] = u /\ ns[n] = "unread"} =
        {n \in Notes : RecipientOf[n] = u /\ os[n] = "unread"}
  OBVIOUS
<1> QED
  BY <1>1 DEF UnreadOf

LEMMA SettlingSame ==
  ASSUME Settling, UNCHANGED <<notes, socketVars, tasks, env>>
  PROVE  Settling'
<1>1. UNCHANGED <<notes, hub, conn, heard, tasks, env>>
  BY DEF socketVars
<1> QED
  BY <1>1 DEF Settling, OpenHeld, AllShaped, AllWillHear, WillHear, LastTold, Tells, Shaped, UnreadOf

\* Notifications of one user change, and a handler begins that will tell it the count.
LEMMA BegunSettling ==
  ASSUME AppInv, Settling, UNCHANGED <<hub, conn, heard, env>>, NEW t \in TaskType,
         tasks' = Append(tasks, t), t.kind \in {"count", "created", "message"},
         Shaped(t), t.read => t.count = UnreadOf(t.user, notes'),
         \A n \in Notes : RecipientOf[n] # t.user => (notes'[n] = "unread" <=> notes[n] = "unread")
  PROVE  Settling'
<1>1. tasks \in Seq(TaskType)
  BY DEF AppInv, AppTyped
<1>2. OpenHeld' /\ AllShaped(tasks')
  BY <1>1, ShapesKept DEF Settling, OpenHeld
<1>3. ASSUME env.serial, NEW s \in Sockets, conn[s] = "open"
      PROVE  WillHear(tasks', UnreadOf(UserOf[s], notes'), heard[s], s)
  <2>1. Tells(t, s) <=> t.user = UserOf[s]
    BY DEF Tells
  <2>2. CASE t.user = UserOf[s]
    BY <1>1, <2>1, <2>2, TellerAppended
  <2>3. CASE t.user # UserOf[s]
    <3>1. UnreadOf(UserOf[s], notes') = UnreadOf(UserOf[s], notes)
      BY <2>3, UnreadSame
    <3>2. WillHear(tasks, UnreadOf(UserOf[s], notes), heard[s], s)
      BY <1>3 DEF Settling, AllWillHear
    <3> QED
      BY <1>1, <2>1, <2>3, <3>1, <3>2, OtherAppended
  <2> QED
    BY <2>2, <2>3
<1> QED
  BY <1>2, <1>3 DEF Settling, AllWillHear, AllShaped

\* The handler has told those it was to tell, and ends.
LEMMA EndedSettling ==
  ASSUME AppInv, Settling, NEW i \in 1..Len(tasks), env.serial => i = 1,
         tasks' = Without(i), UNCHANGED <<notes, conn, env>>, OpenHeld',
         \A s \in Sockets : conn[s] = "open" =>
           IF Tells(tasks[i], s) THEN tasks[i].read /\ heard'[s] = tasks[i].count
                                 ELSE heard'[s] = heard[s]
  PROVE  Settling'
<1>1. tasks \in Seq(TaskType)
  BY DEF AppInv, AppTyped
<1>2. AllShaped(tasks')
  BY <1>1, ShapesKept DEF Settling
<1>3. ASSUME env.serial, NEW s \in Sockets, conn[s] = "open"
      PROVE  WillHear(tasks', UnreadOf(UserOf[s], notes), heard'[s], s)
  <2>1. i = 1 /\ Len(tasks) > 0
    BY <1>1, <1>3
  <2>2. /\ tasks' \in Seq(TaskType) /\ Len(tasks') = Len(tasks) - 1
        /\ \A j \in 1 .. Len(tasks) - 1 : tasks'[j] = tasks[IF j < i THEN j ELSE j + 1]
    BY <1>1, WithoutAt
  <2>3. \A j \in 1 .. Len(tasks) - 1 : tasks'[j] = tasks[j + 1]
    BY <2>1, <2>2
  <2>4. WillHear(tasks, UnreadOf(UserOf[s], notes), heard[s], s)
    BY <1>3 DEF Settling, AllWillHear
  <2>5. IF Tells(tasks[1], s) THEN tasks[1].read /\ heard'[s] = tasks[1].count ELSE heard'[s] = heard[s]
    BY <1>3, <2>1
  <2> QED
    BY <1>1, <2>1, <2>2, <2>3, <2>4, <2>5, FirstGone
<1> QED
  BY <1>2, <1>3 DEF Settling, AllWillHear, AllShaped

\* Whom a send is lost on, the hub forgets; the open sockets it keeps, and they
\* hear the count.
LEMMA OpenHear ==
  ASSUME AppInv, OpenHeld, NEW u, UNCHANGED conn
  PROVE  /\ SendToUser(u) => OpenHeld'
         /\ \A count : TellCount(u, count) =>
              \A s \in Sockets : conn[s] = "open" =>
                heard'[s] = IF UserOf[s] = u THEN count ELSE heard[s]
<1>1. \A s \in Sockets : conn[s] = "open" =>
        s \notin Throwing(u) /\ (s \in Reached(u) <=> UserOf[s] = u)
  BY DEF OpenHeld, Throwing, Reached, SocketsOf
<1> QED
  BY <1>1 DEF OpenHeld, SendToUser, TellCount

LEMMA ConnectSettling ==
  ASSUME AppInv, Settling, NEW s \in Sockets, Connect(s)
  PROVE  Settling'
<1> DEFINE t == ConnectedTask(s)
<1>1. /\ tasks \in Seq(TaskType) /\ conn' = [conn EXCEPT ![s] = "open"] /\ hub' = hub \cup {s}
      /\ tasks' = Append(tasks, t) /\ UNCHANGED <<notes, heard, env>>
  BY DEF Connect, AppInv, AppTyped, noteVars
<1>2. \A r \in Sockets : r # s => conn'[r] = conn[r]
  BY <1>1 DEF AppInv, AppTyped
<1>3. /\ t \in TaskType /\ t.kind = "connected" /\ t.socket = s /\ t.user = UserOf[s]
      /\ t.note = NoNote /\ ~ t.read
  <2>1. t \in TaskType
    BY TasksTyped
  <2> QED
    BY <2>1 DEF ConnectedTask, CountTask
<1> HIDE DEF t
<1>4. OpenHeld' /\ AllShaped(tasks')
  <2>1. Shaped(t)
    BY <1>3 DEF Shaped
  <2> QED
    BY <1>1, <1>2, <1>3, <2>1, ShapesKept DEF Settling, OpenHeld
<1>5. ASSUME env.serial, NEW r \in Sockets, conn'[r] = "open"
      PROVE  WillHear(tasks', UnreadOf(UserOf[r], notes), heard[r], r)
  <2>1. Tells(t, r) <=> r = s
    BY <1>3 DEF Tells
  <2>2. CASE r = s
    BY <1>1, <1>3, <2>1, <2>2, TellerAppended
  <2>3. CASE r # s
    <3>1. WillHear(tasks, UnreadOf(UserOf[r], notes), heard[r], r)
      BY <1>2, <1>5, <2>3 DEF Settling, AllWillHear
    <3> QED
      BY <1>1, <1>3, <2>1, <2>3, <3>1, OtherAppended
  <2> QED
    BY <2>2, <2>3
<1> QED
  BY <1>1, <1>4, <1>5 DEF Settling, AllWillHear, AllShaped

\* A socket that is not open any more is to hear nothing.
LEMMA ConnectionSettling ==
  ASSUME AppInv, Settling, NEW s \in Sockets, Vanish(s) \/ Close(s)
  PROVE  Settling'
<1>1. /\ conn'[s] # "open" /\ \A r \in Sockets \ {s} : conn'[r] = conn[r]
      /\ \A r \in Sockets \ {s} : heard'[r] = heard[r] /\ (r \in hub' <=> r \in hub)
      /\ UNCHANGED <<notes, tasks, env>>
  BY DEF Vanish, Close, AppInv, AppTyped, noteVars
<1>2. \A r \in Sockets : conn'[r] = "open" =>
        conn[r] = "open" /\ heard'[r] = heard[r] /\ (r \in hub' <=> r \in hub)
  BY <1>1
<1>3. OpenHeld' /\ AllShaped(tasks)'
  BY <1>1, <1>2 DEF Settling, OpenHeld, AllShaped, Shaped
<1>4. ASSUME env.serial, NEW r \in Sockets, conn'[r] = "open"
      PROVE  WillHear(tasks, UnreadOf(UserOf[r], notes), heard'[r], r)
  BY <1>2, <1>4 DEF Settling, AllWillHear
<1> QED
  BY <1>1, <1>3, <1>4 DEF Settling, AllWillHear

\* The count read is the one of that moment.
LEMMA ReadCountSettling ==
  ASSUME AppInv, Settling, NEW i \in 1..Len(tasks), ReadCount(i)
  PROVE  Settling'
<1> DEFINE t == tasks[i]
           u == [t EXCEPT !.read = TRUE, !.count = UnreadOf(t.user, notes)]
<1>1. /\ tasks \in Seq(TaskType) /\ t \in TaskType /\ t.kind \in {"count", "connected"} /\ Shaped(t)
      /\ tasks' = [tasks EXCEPT ![i] = u] /\ (env.serial => i = 1)
      /\ UNCHANGED <<notes, hub, conn, heard, env>>
  BY AtTask DEF ReadCount, Moving, AppInv, AppTyped, Settling, AllShaped, noteVars, socketVars
<1>2. /\ u \in TaskType /\ u.kind = t.kind /\ u.user = t.user /\ u.socket = t.socket
      /\ u.note = t.note /\ u.count = UnreadOf(t.user, notes)
  <2>1. UnreadOf(t.user, notes) \in 0..Cardinality(Notes)
    BY CountTyped
  <2> HIDE DEF t
  <2> QED
    BY <1>1, <2>1 DEF TaskType
<1> HIDE DEF u, t
<1>3. Shaped(u)
  BY <1>1, <1>2 DEF Shaped
<1>4. OpenHeld' /\ AllShaped(tasks')
  BY <1>1, <1>2, <1>3, ShapesKept DEF Settling, OpenHeld
<1>5. ASSUME env.serial, NEW s \in Sockets, conn[s] = "open"
      PROVE  WillHear(tasks', UnreadOf(UserOf[s], notes), heard[s], s)
  <2>1. i = 1 /\ Len(tasks) > 0 /\ t = tasks[1]
    BY <1>1, <1>5 DEF t
  <2>2. WillHear(tasks, UnreadOf(UserOf[s], notes), heard[s], s)
    BY <1>5 DEF Settling, AllWillHear
  <2>3. Tells(u, s) <=> Tells(t, s)
    BY <1>2 DEF Tells
  <2>4. Tells(u, s) => u.count = UnreadOf(UserOf[s], notes)
    BY <1>1, <1>2 DEF Tells, Shaped
  <2> QED
    BY <1>1, <1>2, <2>1, <2>2, <2>3, <2>4, FirstGoesOn
<1> QED
  BY <1>1, <1>4, <1>5 DEF Settling, AllWillHear, AllShaped

\* All open sockets of the user hear the count.
LEMMA BroadcastSettling ==
  ASSUME AppInv, Settling, NEW i \in 1..Len(tasks), BroadcastCount(i)
  PROVE  Settling'
<1> DEFINE t == tasks[i]
           u == [t EXCEPT !.kind = "settle"]
<1>1. /\ tasks \in Seq(TaskType) /\ t \in TaskType /\ t.kind = "count" /\ t.read
      /\ TellCount(t.user, t.count) /\ (env.serial => i = 1)
      /\ tasks' = (IF t.note = NoNote THEN Without(i) ELSE [tasks EXCEPT ![i] = u])
      /\ UNCHANGED <<notes, conn, env>>
  BY AtTask DEF BroadcastCount, Moving, AppInv, AppTyped, noteVars
<1>2. u \in TaskType /\ u.kind = "settle"
  <2> HIDE DEF t
  <2> QED
    BY <1>1 DEF TaskType
<1>3. OpenHeld' /\ \A s \in Sockets : conn[s] = "open" =>
        heard'[s] = IF UserOf[s] = t.user THEN t.count ELSE heard[s]
  <2>1. OpenHeld /\ SendToUser(t.user) /\ conn' = conn
    BY <1>1 DEF Settling, TellCount
  <2> QED
    BY <1>1, <2>1, OpenHear
<1>4. \A s \in Sockets : conn[s] = "open" =>
        IF Tells(t, s) THEN t.read /\ heard'[s] = t.count ELSE heard'[s] = heard[s]
  BY <1>1, <1>3 DEF Tells
<1>5. CASE t.note = NoNote
  <2>1. tasks' = Without(i)
    BY <1>1, <1>5
  <2> QED
    BY <1>1, <1>3, <1>4, <2>1, EndedSettling
<1>6. CASE t.note # NoNote
  <2>1. tasks' = [tasks EXCEPT ![i] = u]
    BY <1>1, <1>6
  <2> HIDE DEF u
  <2>2. AllShaped(tasks')
    <3>1. Shaped(u)
      BY <1>2 DEF Shaped
    <3> QED
      BY <1>1, <1>2, <2>1, <3>1, ShapesKept DEF Settling
  <2>3. ASSUME env.serial, NEW s \in Sockets, conn[s] = "open"
        PROVE  WillHear(tasks', UnreadOf(UserOf[s], notes), heard'[s], s)
    <3>1. i = 1 /\ Len(tasks) > 0
      BY <1>1, <2>3
    <3>2. WillHear(tasks, UnreadOf(UserOf[s], notes), heard[s], s)
      BY <2>3 DEF Settling, AllWillHear
    <3>3. ~ Tells(u, s)
      BY <1>2 DEF Tells
    <3>4. IF Tells(tasks[1], s) THEN tasks[1].read /\ heard'[s] = tasks[1].count ELSE heard'[s] = heard[s]
      BY <1>4, <2>3, <3>1
    <3>5. tasks \in Seq(TaskType) /\ u \in TaskType /\ tasks' = [tasks EXCEPT ![1] = u]
      BY <1>1, <1>2, <2>1, <3>1
    <3> QED
      BY <3>1, <3>2, <3>3, <3>4, <3>5, FirstHasTold
  <2> QED
    BY <1>1, <1>3, <2>2, <2>3 DEF Settling, AllWillHear, AllShaped
<1> QED
  BY <1>5, <1>6

LEMMA AnswerSettling ==
  ASSUME AppInv, Settling, NEW i \in 1..Len(tasks), AnswerConnected(i)
  PROVE  Settling'
<1> DEFINE t == tasks[i]
<1>1. /\ t.kind = "connected" /\ t.read /\ (env.serial => i = 1)
      /\ heard' = [heard EXCEPT ![t.socket] = IF conn[t.socket] = "open" THEN t.count ELSE @]
      /\ tasks' = Without(i) /\ UNCHANGED <<notes, hub, conn, env>>
  BY DEF AnswerConnected, Moving, noteVars
<1>2. \A s \in Sockets : conn[s] = "open" =>
        IF Tells(t, s) THEN t.read /\ heard'[s] = t.count ELSE heard'[s] = heard[s]
  <2>1. heard \in [Sockets -> 0..Cardinality(Notes)]
    BY DEF AppInv, AppTyped
  <2> HIDE DEF t
  <2> QED
    BY <1>1, <2>1 DEF Tells
<1>3. OpenHeld'
  BY <1>1 DEF Settling, OpenHeld
<1> QED
  BY <1>1, <1>2, <1>3, EndedSettling

\* The handler will still tell the count, which it has yet to read.
LEMMA TellCreatedSettling ==
  ASSUME AppInv, Settling, NEW i \in 1..Len(tasks), TellCreated(i)
  PROVE  Settling'
<1> DEFINE t == tasks[i]
           sent == SentConnections(t.user)
           u == [t EXCEPT !.kind = "count", !.sent = sent]
<1>1. /\ tasks \in Seq(TaskType) /\ t \in TaskType /\ t.kind = "created" /\ Shaped(t)
      /\ tasks' = [tasks EXCEPT ![i] = u] /\ (env.serial => i = 1)
      /\ SendToUser(t.user) /\ UNCHANGED <<notes, conn, heard, env>>
  BY AtTask DEF TellCreated, Moving, AppInv, AppTyped, Settling, AllShaped, noteVars
<1>2. u \in TaskType /\ u.kind = "count" /\ u.user = t.user /\ ~ u.read
  <2>1. sent \in 0..Cardinality(Sockets)
    BY SendTold DEF AppInv
  <2> HIDE DEF t, sent
  <2> QED
    BY <1>1, <2>1 DEF TaskType, Shaped
<1> HIDE DEF u, sent
<1>3. OpenHeld'
  <2>1. OpenHeld /\ conn' = conn
    BY <1>1 DEF Settling
  <2> QED
    BY <1>1, <2>1, OpenHear
<1>4. AllShaped(tasks')
  <2>1. Shaped(u)
    BY <1>2 DEF Shaped
  <2> QED
    BY <1>1, <1>2, <2>1, ShapesKept DEF Settling
<1>5. ASSUME env.serial, NEW s \in Sockets, conn[s] = "open"
      PROVE  WillHear(tasks', UnreadOf(UserOf[s], notes), heard[s], s)
  <2>1. i = 1 /\ Len(tasks) > 0 /\ t = tasks[1]
    BY <1>1, <1>5
  <2>2. WillHear(tasks, UnreadOf(UserOf[s], notes), heard[s], s)
    BY <1>5 DEF Settling, AllWillHear
  <2>3. Tells(u, s) <=> Tells(t, s)
    BY <1>1, <1>2 DEF Tells
  <2> HIDE DEF t
  <2> QED
    BY <1>1, <1>2, <2>1, <2>2, <2>3, FirstGoesOn
<1> QED
  BY <1>1, <1>3, <1>4, <1>5 DEF Settling, AllWillHear, AllShaped

\* Settling a delivery tells nobody.
LEMMA SettleSettling ==
  ASSUME AppInv, Settling, NEW i \in 1..Len(tasks), SettleInApp(i)
  PROVE  Settling'
<1>1. /\ tasks[i].kind = "settle" /\ (env.serial => i = 1) /\ tasks' = Without(i)
      /\ UNCHANGED <<notes, hub, conn, heard, env>>
  BY DEF SettleInApp, Moving, socketVars
<1>2. OpenHeld' /\ \A s \in Sockets : ~ Tells(tasks[i], s)
  BY <1>1 DEF Settling, OpenHeld, Tells
<1> QED
  BY <1>1, <1>2, EndedSettling

\* The count of a message was read in its transaction.
LEMMA TellMessageSettling ==
  ASSUME AppInv, Settling, NEW i \in 1..Len(tasks), TellMessage(i)
  PROVE  Settling'
<1> DEFINE t == tasks[i]
<1>1. /\ t.kind = "message" /\ Shaped(t) /\ (env.serial => i = 1) /\ TellCount(t.user, t.count)
      /\ tasks' = Without(i) /\ UNCHANGED <<notes, conn, env>>
  BY DEF TellMessage, Moving, noteVars, Settling, AllShaped
<1>2. OpenHeld' /\ \A s \in Sockets : conn[s] = "open" =>
        heard'[s] = IF UserOf[s] = t.user THEN t.count ELSE heard[s]
  <2>1. OpenHeld /\ SendToUser(t.user) /\ conn' = conn
    BY <1>1 DEF Settling, TellCount
  <2> QED
    BY <1>1, <2>1, OpenHear
<1>3. \A s \in Sockets : conn[s] = "open" =>
        IF Tells(t, s) THEN t.read /\ heard'[s] = t.count ELSE heard'[s] = heard[s]
  BY <1>1, <1>2 DEF Tells, Shaped
<1> QED
  BY <1>1, <1>2, <1>3, EndedSettling

\* Reading a notification tells the count, and so does archiving an unread one.
LEMMA MarkSettling ==
  ASSUME AppInv, Settling, NEW n \in Notes, MarkNotificationRead(n) \/ ArchiveNotification(n)
  PROVE  Settling'
<1> DEFINE t == CountTask(RecipientOf[n])
<1>1. /\ t \in TaskType /\ t.kind = "count" /\ t.user = RecipientOf[n] /\ ~ t.read /\ Shaped(t)
  <2>1. t \in TaskType
    BY RecipientAssumption, TasksTyped
  <2> QED
    BY <2>1 DEF CountTask, Shaped
<1>2. /\ \A m \in Notes \ {n} : notes'[m] = notes[m]
      /\ notes'[n] # "unread"
      /\ UNCHANGED <<hub, conn, heard, env>>
  BY DEF MarkNotificationRead, ArchiveNotification, AppInv, AppTyped, socketVars
<1>3. \A m \in Notes : RecipientOf[m] # t.user => (notes'[m] = "unread" <=> notes[m] = "unread")
  BY <1>1, <1>2
<1>4. \/ tasks' = Append(tasks, t)
      \/ tasks' = tasks /\ notes[n] # "unread"
  BY DEF MarkNotificationRead, ArchiveNotification, CountChanges
<1> HIDE DEF t
<1>5. CASE tasks' = Append(tasks, t)
  BY <1>1, <1>2, <1>3, <1>5, BegunSettling
<1>6. CASE tasks' = tasks /\ notes[n] # "unread"
  <2>1. \A s \in Sockets : UnreadOf(UserOf[s], notes') = UnreadOf(UserOf[s], notes)
    <3>1. \A m \in Notes : notes'[m] = "unread" <=> notes[m] = "unread"
      BY <1>2, <1>6
    <3> QED
      BY <3>1, UnreadSame
  <2>2. OpenHeld' /\ AllShaped(tasks')
    BY <1>2, <1>6 DEF Settling, OpenHeld
  <2>3. ASSUME env.serial, NEW s \in Sockets, conn[s] = "open"
        PROVE  WillHear(tasks, UnreadOf(UserOf[s], notes'), heard[s], s)
    BY <2>1, <2>3 DEF Settling, AllWillHear
  <2> QED
    BY <1>2, <1>6, <2>2, <2>3 DEF Settling, AllWillHear, AllShaped
<1> QED
  BY <1>4, <1>5, <1>6

LEMMA MarkAllSettling ==
  ASSUME AppInv, Settling, NEW u \in Users, MarkAllNotificationsRead(u)
  PROVE  Settling'
<1> DEFINE t == CountTask(u)
<1>1. /\ t \in TaskType /\ t.kind = "count" /\ t.user = u /\ ~ t.read /\ Shaped(t)
  <2>1. t \in TaskType
    BY TasksTyped
  <2> QED
    BY <2>1 DEF CountTask, Shaped
<1>2. /\ \A m \in Notes : RecipientOf[m] # u => (notes'[m] = "unread" <=> notes[m] = "unread")
      /\ tasks' = Append(tasks, t) /\ UNCHANGED <<hub, conn, heard, env>>
  BY DEF MarkAllNotificationsRead, socketVars
<1> HIDE DEF t
<1> QED
  BY <1>1, <1>2, BegunSettling

\* A notification that is created is told in the application.
LEMMA CreateSettling ==
  ASSUME ToldInApp, AppInv, Settling, NEW n \in Notes, CreateNotification(n)
  PROVE  Settling'
<1> DEFINE t == CreatedTask(n)
<1>1. /\ t \in TaskType /\ t.kind = "created" /\ t.user = RecipientOf[n] /\ ~ t.read /\ Shaped(t)
  <2>1. t \in TaskType
    BY TasksTyped
  <2> QED
    BY <2>1 DEF CreatedTask, CountTask, Shaped
<1>2. /\ \A m \in Notes \ {n} : notes'[m] = notes[m]
      /\ tasks' = Append(tasks, t) /\ UNCHANGED <<hub, conn, heard, env>>
  BY DEF ToldInApp, CreateNotification, AppInv, AppTyped, socketVars
<1>3. \A m \in Notes : RecipientOf[m] # t.user => (notes'[m] = "unread" <=> notes[m] = "unread")
  BY <1>1, <1>2
<1> HIDE DEF t
<1> QED
  BY <1>1, <1>2, <1>3, BegunSettling

LEMMA MessageSettling ==
  ASSUME AppInv, Settling, NEW n \in Notes, CreateMessage(n)
  PROVE  Settling'
<1> DEFINE c == UnreadOf(RecipientOf[n], notes')
           t == MessageTask(n, c)
<1>1. /\ t \in TaskType /\ t.kind = "message" /\ t.user = RecipientOf[n] /\ t.read /\ t.count = c
  <2>1. t \in TaskType
    BY TasksTyped, CountTyped
  <2> QED
    BY <2>1 DEF MessageTask, CountTask
<1>2. /\ \A m \in Notes \ {n} : notes'[m] = notes[m]
      /\ tasks' = Append(tasks, t) /\ UNCHANGED <<hub, conn, heard, env>>
  BY DEF CreateMessage, AppInv, AppTyped, socketVars
<1> HIDE DEF t
<1>3. Shaped(t) /\ \A m \in Notes : RecipientOf[m] # t.user => (notes'[m] = "unread" <=> notes[m] = "unread")
  BY <1>1, <1>2 DEF Shaped
<1> QED
  BY <1>1, <1>2, <1>3, BegunSettling

LEMMA SettlingStep ==
  ASSUME ToldInApp
  PROVE  LedgerInv /\ Settling /\ [Next]_vars => Settling'
<1> SUFFICES ASSUME LedgerInv, Settling, [Next]_vars PROVE Settling'
  OBVIOUS
<1>1. AppInv
  BY DEF LedgerInv
<1>2. CASE SocketNext
  <2>1. ASSUME NEW s \in Sockets, Connect(s) \/ Vanish(s) \/ Close(s) PROVE Settling'
    BY <1>1, <2>1, ConnectSettling, ConnectionSettling
  <2>2. ASSUME NEW i \in 1..Len(tasks),
               \/ ReadCount(i) \/ BroadcastCount(i) \/ AnswerConnected(i)
               \/ TellCreated(i) \/ SettleInApp(i) \/ TellMessage(i)
        PROVE  Settling'
    BY <1>1, <2>2, ReadCountSettling, BroadcastSettling, AnswerSettling, TellCreatedSettling,
       SettleSettling, TellMessageSettling
  <2> QED
    BY <1>2, <2>1, <2>2 DEF SocketNext
<1>3. CASE NoteNext
  <2>1. ASSUME NEW n \in Notes, MarkNotificationRead(n) \/ ArchiveNotification(n) PROVE Settling'
    BY <1>1, <2>1, MarkSettling
  <2>2. ASSUME NEW n \in Notes, CreateNotification(n) PROVE Settling'
    BY <1>1, <2>2, CreateSettling
  <2>3. ASSUME NEW n \in Notes, CreateMessage(n) PROVE Settling'
    BY <1>1, <2>3, MessageSettling
  <2>4. ASSUME NEW u \in Users, MarkAllNotificationsRead(u) PROVE Settling'
    BY <1>1, <2>4, MarkAllSettling
  <2> QED
    BY <1>3, <2>1, <2>2, <2>3, <2>4 DEF NoteNext
<1>4. CASE PushNext
  <2>1. UNCHANGED <<notes, socketVars, tasks, env>>
    BY <1>4 DEF PushNext, DispatchPushNotifications, AnswerApns, AnswerExpoChunk,
       RecordPushDeliveryAttempt, noteVars
  <2> QED
    BY <2>1, SettlingSame
<1>5. CASE Crash
  <2>1. /\ hub' = {} /\ tasks' = <<>> /\ Len(tasks') = 0 /\ \A s \in Sockets : conn'[s] # "open"
    BY <1>5, EmptySeq DEF Crash
  <2> QED
    BY <2>1 DEF Settling, OpenHeld, AllShaped, AllWillHear
<1>6. CASE UNCHANGED <<noteVars, pushVars, socketVars, tasks, env>>
  <2>1. UNCHANGED <<notes, socketVars, tasks, env>>
    BY <1>6 DEF noteVars
  <2> QED
    BY <2>1, SettlingSame
<1>7. UNCHANGED vars => UNCHANGED <<noteVars, pushVars, socketVars, tasks, env>>
  BY DEF vars
<1> QED
  BY <1>2, <1>3, <1>4, <1>5, <1>6, <1>7 DEF Next

\* No socket is open at first.
LEMMA SettlingInit == Init => Settling
<1> SUFFICES ASSUME Init PROVE Settling
  OBVIOUS
<1>1. tasks = <<>> /\ Len(tasks) = 0 /\ \A s \in Sockets : conn[s] # "open"
  BY EmptySeq DEF Init
<1> QED
  BY <1>1 DEF Settling, OpenHeld, AllShaped, AllWillHear

\* While handlers are served in the order they began, every open socket has been
\* told the number of its user's unread notifications once none is under way:
\* however sockets come, go and break, notifications are created, read and
\* archived, and sends fail meanwhile.
THEOREM CountsSettle ==
  ASSUME ToldInApp
  PROVE  Spec => []UnreadSettles
<1>1. LedgerInv /\ Settling /\ [Next]_vars => LedgerInv' /\ Settling'
  BY LedgerStep, SettlingStep
<1>2. Settling => UnreadSettles
  <2> SUFFICES ASSUME Settling, tasks = <<>>, env.serial, NEW s \in Sockets, conn[s] = "open"
               PROVE  heard[s] = UnreadOf(UserOf[s], notes)
    BY DEF UnreadSettles
  <2>1. WillHear(tasks, UnreadOf(UserOf[s], notes), heard[s], s)
    BY DEF Settling, AllWillHear
  <2>2. Len(tasks) = 0
    BY EmptySeq
  <2> QED
    BY <2>1, <2>2 DEF WillHear
<1> QED
  BY <1>1, <1>2, LedgerInit, SettlingInit, PTL DEF Spec

-----------------------------------------------------------------------------
(* What APNs is given                                                      *)

LEMMA LeastNatural ==
  ASSUME NEW T \in SUBSET Nat, T # {}
  PROVE  \E n \in T : \A m \in Nat : m < n => m \notin T
<1>1. PICK n \in T : \A m \in T : ~ <<m, n>> \in OpToRel(<, Nat)
  BY NatLessThanWellFounded, WFMin
<1>2. ASSUME NEW m \in T PROVE ~ (m < n)
  <2>1. <<m, n>> \in Nat \X Nat /\ <<m, n>>[1] = m /\ <<m, n>>[2] = n
    OBVIOUS
  <2> QED
    BY <1>1, <2>1, Zenon DEF OpToRel
<1> QED
  BY <1>2

\* The beginnings of a text have the bytes of their characters: the recursive
\* function of PrefixBytes exists, since it can be extended character by
\* character, and its values are numbers.
LEMMA PrefixWorks ==
  ASSUME NEW text \in Seq(Nat)
  PROVE  /\ PrefixBytes(text) \in [0..Len(text) -> Nat]
         /\ PrefixBytes(text)[0] = 0
         /\ \A n \in 1..Len(text) : PrefixBytes(text)[n] = PrefixBytes(text)[n - 1] + text[n]
<1> DEFINE L == Len(text)
           Good(g, n) == g[0] = 0 /\ \A m \in 1..n : g[m] = g[m - 1] + text[m]
           Upto(n) == {g \in [0..L -> Nat] : Good(g, n)}
           Missing == {n \in 0..L : Upto(n) = {}}
<1>1. L \in Nat /\ \A n \in 1..L : text[n] \in Nat
  OBVIOUS
<1> HIDE DEF L
<1>2. Missing = {}
  <2> SUFFICES ASSUME Missing # {} PROVE FALSE
    OBVIOUS
  <2>1. PICK n \in Missing : \A m \in Nat : m < n => m \notin Missing
    <3>1. Missing \in SUBSET Nat
      BY <1>1
    <3> QED
      BY <3>1, LeastNatural
  <2>2. CASE n = 0
    <3>1. [m \in 0..L |-> 0] \in Upto(0)
      BY <1>1
    <3> QED
      BY <2>1, <2>2, <3>1
  <2>3. CASE n # 0
    <3>1. n \in 1..L /\ n - 1 \in 0..L /\ n - 1 \in Nat /\ n - 1 < n
      BY <1>1, <2>1, <2>3
    <3>2. Upto(n - 1) # {}
      BY <2>1, <3>1
    <3>3. PICK g \in [0..L -> Nat] : Good(g, n - 1)
      BY <3>2
    <3> DEFINE h == [g EXCEPT ![n] = g[n - 1] + text[n]]
    <3>4. h \in [0..L -> Nat]
      BY <1>1, <3>1, <3>3
    <3>5. /\ h[n] = g[n - 1] + text[n] /\ \A m \in 0..L : m # n => h[m] = g[m]
      BY <3>1, <3>3
    <3>6. Good(h, n)
      <4>1. h[0] = 0
        BY <1>1, <3>1, <3>3, <3>5
      <4>2. ASSUME NEW m \in 1..n PROVE h[m] = h[m - 1] + text[m]
        <5>1. m - 1 \in 0..L /\ m - 1 # n /\ m \in 0..L
          BY <1>1, <3>1
        <5>2. h[m - 1] = g[m - 1]
          BY <3>5, <5>1
        <5>3. CASE m = n
          BY <3>5, <5>2, <5>3
        <5>4. CASE m # n
          <6>1. m \in 1 .. n - 1
            BY <3>1, <5>4
          <6> QED
            BY <3>3, <3>5, <5>1, <5>2, <5>4, <6>1
        <5> QED
          BY <5>3, <5>4
      <4> QED
        BY <4>1, <4>2
    <3> HIDE DEF h
    <3>7. Upto(n) # {}
      BY <3>4, <3>6
    <3> QED
      BY <2>1, <3>7
  <2> QED
    BY <2>2, <2>3
<1>3. PICK g \in [0..L -> Nat] : Good(g, L)
  <2>1. L \in 0..L
    BY <1>1
  <2>2. Upto(L) # {}
    BY <1>2, <2>1
  <2> QED
    BY <2>2
<1> DEFINE bytes == PrefixBytes(text)
<1>4. bytes = [n \in 0..L |-> IF n = 0 THEN 0 ELSE bytes[n - 1] + text[n]]
  <2>1. \A n \in 0..L : n = 0 \/ n \in 1..L
    BY <1>1
  <2>2. g = [n \in 0..L |-> IF n = 0 THEN 0 ELSE g[n - 1] + text[n]]
    BY <1>3, <2>1
  <2> QED
    BY <2>2 DEF PrefixBytes, L
<1> HIDE DEF bytes
<1>5. /\ bytes[0] = 0 /\ DOMAIN bytes = 0..L
      /\ \A n \in 1..L : bytes[n] = bytes[n - 1] + text[n]
  BY <1>1, <1>4
<1> DEFINE Wrong == {n \in 0..L : bytes[n] \notin Nat}
<1>6. Wrong = {}
  <2> SUFFICES ASSUME Wrong # {} PROVE FALSE
    OBVIOUS
  <2>1. PICK n \in Wrong : \A m \in Nat : m < n => m \notin Wrong
    <3>1. Wrong \in SUBSET Nat
      BY <1>1
    <3> QED
      BY <3>1, LeastNatural
  <2>2. n # 0
    BY <1>5, <2>1
  <2>3. n \in 1..L /\ n - 1 \in 0..L /\ n - 1 \in Nat /\ n - 1 < n
    BY <1>1, <2>1, <2>2
  <2>4. bytes[n - 1] \in Nat
    BY <2>1, <2>3
  <2>5. bytes[n] = bytes[n - 1] + text[n] /\ text[n] \in Nat
    BY <1>1, <1>5, <2>3
  <2>6. bytes[n] \in Nat
    BY <2>4, <2>5
  <2> QED
    BY <2>1, <2>6
<1>7. bytes \in [0..L -> Nat]
  <2>1. \A n \in 0..L : bytes[n] \in Nat
    BY <1>6
  <2>2. bytes = [n \in 0..L |-> bytes[n]]
    BY <1>4
  <2> QED
    BY <2>1, <2>2
<1> QED
  BY <1>5, <1>7 DEF bytes, L

\* A beginning of a text has the bytes it has in the text.
LEMMA BeginningBytes ==
  ASSUME NEW text \in Seq(Nat), NEW n \in 0..Len(text)
  PROVE  Bytes(SubSeq(text, 1, n)) = PrefixBytes(text)[n]
<1> DEFINE part == SubSeq(text, 1, n)
           bytes == PrefixBytes(text)
           short == PrefixBytes(part)
           Wrong == {m \in 0..n : short[m] # bytes[m]}
<1>1. /\ part \in Seq(Nat) /\ Len(part) = n /\ \A m \in 1..n : part[m] = text[m]
      /\ Len(text) \in Nat /\ n \in Nat
  BY SubSeqProperties
<1>2. bytes[0] = 0 /\ \A m \in 1..Len(text) : bytes[m] = bytes[m - 1] + text[m]
  BY PrefixWorks
<1>3. short[0] = 0 /\ \A m \in 1..n : short[m] = short[m - 1] + part[m]
  BY <1>1, PrefixWorks
<1> HIDE DEF part, bytes, short
<1>4. Wrong = {}
  <2> SUFFICES ASSUME Wrong # {} PROVE FALSE
    OBVIOUS
  <2>1. PICK m \in Wrong : \A k \in Nat : k < m => k \notin Wrong
    <3>1. Wrong \in SUBSET Nat
      BY <1>1
    <3> QED
      BY <3>1, LeastNatural
  <2>2. m # 0
    BY <1>2, <1>3, <2>1
  <2>3. m \in 1..n /\ m \in 1..Len(text) /\ m - 1 \in 0..n /\ m - 1 \in Nat /\ m - 1 < m
    BY <1>1, <2>1, <2>2
  <2>4. short[m - 1] = bytes[m - 1]
    BY <2>1, <2>3
  <2>5. short[m] = short[m - 1] + part[m] /\ bytes[m] = bytes[m - 1] + text[m] /\ part[m] = text[m]
    BY <1>1, <1>2, <1>3, <2>3
  <2> QED
    BY <2>1, <2>4, <2>5
<1>5. short[n] = bytes[n]
  BY <1>1, <1>4
<1>6. Bytes(part) = short[n]
  BY <1>1 DEF Bytes, short
<1> QED
  BY <1>5, <1>6 DEF part, bytes

\* What Truncate compares and returns: each character adds its bytes.
LEMMA TextBytes ==
  ASSUME NEW text \in Seq(Nat)
  PROVE  /\ Bytes(text) \in Nat /\ SubSeq(text, 1, Len(text)) = text
         /\ Bytes(SubSeq(text, 1, 0)) = 0 /\ SubSeq(text, 1, 0) = <<>>
         /\ \A n \in 0..Len(text) : /\ Bytes(SubSeq(text, 1, n)) \in Nat
                                    /\ SubSeq(text, 1, n) \in Seq(Nat) /\ Len(SubSeq(text, 1, n)) = n
         /\ \A n \in 0..Len(text) : n < Len(text) =>
              /\ text[n + 1] \in Nat
              /\ Bytes(SubSeq(text, 1, n + 1)) = Bytes(SubSeq(text, 1, n)) + text[n + 1]
<1>1. /\ Len(text) \in Nat /\ PrefixBytes(text) \in [0..Len(text) -> Nat] /\ PrefixBytes(text)[0] = 0
      /\ \A n \in 1..Len(text) : PrefixBytes(text)[n] = PrefixBytes(text)[n - 1] + text[n]
      /\ \A n \in 1..Len(text) : text[n] \in Nat
  BY PrefixWorks
<1>2. \A n \in 0..Len(text) : Bytes(SubSeq(text, 1, n)) = PrefixBytes(text)[n]
  BY BeginningBytes
<1>3. \A n \in 0..Len(text) : SubSeq(text, 1, n) \in Seq(Nat) /\ Len(SubSeq(text, 1, n)) = n
  BY <1>1, SubSeqProperties
<1>4. SubSeq(text, 1, Len(text)) = text
  BY <1>1, <1>3, SubSeqProperties, SeqEqual
<1>5. SubSeq(text, 1, 0) = <<>>
  BY SubSeqEmpty
<1>6. 0 \in 0..Len(text) /\ Len(text) \in 0..Len(text)
  BY <1>1
<1>7. ASSUME NEW n \in 0..Len(text), n < Len(text)
      PROVE  /\ text[n + 1] \in Nat
             /\ Bytes(SubSeq(text, 1, n + 1)) = Bytes(SubSeq(text, 1, n)) + text[n + 1]
  <2>1. n + 1 \in 1..Len(text) /\ n + 1 \in 0..Len(text) /\ (n + 1) - 1 = n
    BY <1>1, <1>7
  <2> QED
    BY <1>1, <1>2, <2>1
<1>8. Bytes(text) \in Nat
  BY <1>1, <1>6 DEF Bytes
<1> QED
  BY <1>1, <1>2, <1>3, <1>4, <1>5, <1>6, <1>7, <1>8

\* The binary search: what is left to search, and one round.
Ranges(length) == (0..length) \X (0..length)

Round(fits, range) ==
  LET middle == (range[1] + range[2] + 1) \div 2 IN
  IF fits[middle] THEN <<middle, range[2]>> ELSE <<range[1], middle - 1>>

SearchResult(g, fits, range) == IF range[1] >= range[2] THEN range[1] ELSE g[Round(fits, range)]

Width(range) == range[2] - range[1]

\* A round leaves less to search.
LEMMA RoundShrinks ==
  ASSUME NEW length \in Nat, NEW fits, NEW range \in Ranges(length), range[1] < range[2]
  PROVE  /\ Round(fits, range) \in Ranges(length)
         /\ Width(Round(fits, range)) < Width(range)
<1> DEFINE low == range[1]
           high == range[2]
           middle == (low + high + 1) \div 2
<1>1. low \in 0..length /\ high \in 0..length /\ range = <<low, high>>
  BY DEF Ranges
<1>2. low < high
  OBVIOUS
<1> HIDE DEF low, high
<1>3. middle \in low + 1 .. high
  BY <1>1, <1>2
<1>4. middle - 1 \in low .. high
  BY <1>1, <1>3
<1>5. Round(fits, range) = IF fits[middle] THEN <<middle, high>> ELSE <<low, middle - 1>>
  BY <1>1 DEF Round
<1> HIDE DEF middle
<1>6. /\ <<middle, high>> \in Ranges(length) /\ <<low, middle - 1>> \in Ranges(length)
      /\ high - middle < high - low /\ (middle - 1) - low < high - low
  BY <1>1, <1>3, <1>4 DEF Ranges
<1>7. /\ Width(<<middle, high>>) = high - middle /\ Width(<<low, middle - 1>>) = (middle - 1) - low
      /\ Width(range) = high - low
  BY <1>1 DEF Width
<1> QED
  BY <1>5, <1>6, <1>7

LEMMA WidthTyped ==
  ASSUME NEW length \in Nat, NEW range \in Ranges(length)
  PROVE  /\ range[1] \in 0..length /\ range[2] \in 0..length
         /\ Width(range) \in Int /\ Width(range) <= length
         /\ Width(range) <= 0 <=> range[1] >= range[2]
BY DEF Ranges, Width

\* The recursive function of Search exists: it can be extended width by width.
LEMMA SearchWorks ==
  ASSUME NEW length \in Nat, NEW fits
  PROVE  \A range \in Ranges(length) :
           Search(fits, length)[range] = SearchResult(Search(fits, length), fits, range)
<1> DEFINE R == Ranges(length)
           Upto(k) == {g \in [R -> 0..length] : \A range \in R : Width(range) <= k => g[range] = SearchResult(g, fits, range)}
           Missing == {k \in Nat : Upto(k) = {}}
<1>1. Missing = {}
  <2> SUFFICES ASSUME Missing # {} PROVE FALSE
    OBVIOUS
  <2>1. PICK k \in Missing : \A m \in Nat : m < k => m \notin Missing
    <3>1. Missing \in SUBSET Nat
      OBVIOUS
    <3> QED
      BY <3>1, LeastNatural
  <2>2. CASE k = 0
    <3> DEFINE g == [range \in R |-> range[1]]
    <3>1. g \in [R -> 0..length]
      BY WidthTyped
    <3>2. \A range \in R : Width(range) <= 0 => g[range] = SearchResult(g, fits, range)
      BY WidthTyped DEF SearchResult
    <3> HIDE DEF g
    <3>3. Upto(0) # {}
      BY <3>1, <3>2
    <3> QED
      BY <2>1, <2>2, <3>3
  <2>3. CASE k # 0
    <3>1. k - 1 \in Nat /\ k - 1 < k
      BY <2>1, <2>3
    <3>2. Upto(k - 1) # {}
      BY <2>1, <3>1
    <3>3. PICK g \in [R -> 0..length] : \A range \in R : Width(range) <= k - 1 => g[range] = SearchResult(g, fits, range)
      BY <3>2
    <3> DEFINE h == [range \in R |-> SearchResult(g, fits, range)]
    <3>4. \A range \in R : h[range] = SearchResult(g, fits, range)
      OBVIOUS
    <3>5. h \in [R -> 0..length]
      <4>1. \A range \in R : SearchResult(g, fits, range) \in 0..length
        <5> TAKE range \in R
        <5>1. CASE range[1] >= range[2]
          BY <5>1, WidthTyped DEF SearchResult
        <5>2. CASE ~ (range[1] >= range[2])
          <6>1. range[1] < range[2]
            BY <5>2, WidthTyped
          <6>2. Round(fits, range) \in R
            BY <6>1, RoundShrinks
          <6> QED
            BY <3>3, <5>2, <6>2 DEF SearchResult
        <5> QED
          BY <5>1, <5>2
      <4> QED
        BY <4>1
    <3> HIDE DEF h
    <3>6. ASSUME NEW range \in R, Width(range) <= k PROVE h[range] = SearchResult(h, fits, range)
      <4>1. CASE range[1] >= range[2]
        BY <3>4, <4>1 DEF SearchResult
      <4>2. CASE ~ (range[1] >= range[2])
        <5>1. range[1] < range[2]
          BY <4>2, WidthTyped
        <5>2. Round(fits, range) \in R /\ Width(Round(fits, range)) < Width(range)
          BY <5>1, RoundShrinks
        <5>3. Width(Round(fits, range)) <= k - 1
          BY <2>1, <3>6, <5>2, WidthTyped
        <5>4. h[Round(fits, range)] = g[Round(fits, range)]
          BY <3>3, <3>4, <5>2, <5>3
        <5> QED
          BY <3>4, <4>2, <5>4 DEF SearchResult
      <4> QED
        BY <4>1, <4>2
    <3>7. Upto(k) # {}
      BY <3>5, <3>6
    <3> QED
      BY <2>1, <3>7
  <2> QED
    BY <2>2, <2>3
<1>2. PICK g \in [R -> 0..length] : \A range \in R : g[range] = SearchResult(g, fits, range)
  <2>1. Upto(length) # {}
    BY <1>1
  <2> QED
    BY <2>1, WidthTyped
<1>3. g = [range \in R |-> SearchResult(g, fits, range)]
  BY <1>2
<1>4. Search(fits, length) = [range \in R |-> SearchResult(Search(fits, length), fits, range)]
  BY <1>3 DEF Search, SearchResult, Round, Ranges
<1> HIDE DEF R
<1> QED
  BY <1>4 DEF R

\* Where the search ends: what is returned fits, unless it is where the search
\* began, and one character more does not, unless it is where the search ended.
LEMMA SearchEnds ==
  ASSUME NEW length \in Nat, NEW fits \in [0..length -> BOOLEAN]
  PROVE  LET r == Search(fits, length)[<<0, length>>] IN
           /\ r \in 0..length /\ (r = 0 \/ fits[r])
           /\ r = length \/ ~ fits[r + 1]
<1> DEFINE s == Search(fits, length)
           Right(range) == /\ s[range] \in range[1] .. range[2]
                           /\ s[range] = range[1] \/ fits[s[range]]
                           /\ s[range] = range[2] \/ ~ fits[s[range] + 1]
           Wrong == {k \in Nat : \E range \in Ranges(length) :
                       range[1] <= range[2] /\ Width(range) = k /\ ~ Right(range)}
<1>1. \A range \in Ranges(length) : s[range] = SearchResult(s, fits, range)
  BY SearchWorks
<1> HIDE DEF s
<1>2. Wrong = {}
  <2> SUFFICES ASSUME Wrong # {} PROVE FALSE
    OBVIOUS
  <2>1. PICK k \in Wrong : \A m \in Nat : m < k => m \notin Wrong
    <3>1. Wrong \in SUBSET Nat
      OBVIOUS
    <3> QED
      BY <3>1, LeastNatural
  <2>2. PICK range \in Ranges(length) : range[1] <= range[2] /\ Width(range) = k /\ ~ Right(range)
    BY <2>1
  <2> DEFINE low == range[1]
             high == range[2]
             middle == (low + high + 1) \div 2
             next == Round(fits, range)
  <2>3. low \in 0..length /\ high \in 0..length /\ low <= high
    BY <2>2, WidthTyped
  <2>4. low < high
    <3> SUFFICES ASSUME low = high PROVE FALSE
      BY <2>3
    <3>1. s[range] = low
      BY <1>1, <2>3 DEF SearchResult
    <3> QED
      BY <2>2, <2>3, <3>1
  <2>5. next \in Ranges(length) /\ Width(next) < k
    BY <2>2, <2>4, RoundShrinks
  <2>6. s[range] = s[next]
    BY <1>1, <2>3, <2>4 DEF SearchResult
  <2>7. next = IF fits[middle] THEN <<middle, high>> ELSE <<low, middle - 1>>
    BY DEF Round
  <2> HIDE DEF low, high
  <2>8. middle \in low + 1 .. high
    BY <2>3, <2>4
  <2> HIDE DEF middle, next
  <2>9. next[1] <= next[2]
    BY <2>3, <2>4, <2>7, <2>8
  <2>10. Right(next)
    <3>1. Width(next) \in Nat
      BY <2>5, <2>9 DEF Width, Ranges
    <3>2. Width(next) \notin Wrong
      BY <2>1, <2>5, <3>1
    <3> QED
      BY <2>5, <2>9, <3>1, <3>2
  <2>11. CASE fits[middle]
    <3>1. next[1] = middle /\ next[2] = high
      BY <2>7, <2>11
    <3> QED
      BY <2>2, <2>3, <2>6, <2>8, <2>10, <2>11, <3>1 DEF low, high
  <2>12. CASE ~ fits[middle]
    <3>1. next[1] = low /\ next[2] = middle - 1
      BY <2>7, <2>12
    <3> QED
      BY <2>2, <2>3, <2>6, <2>8, <2>10, <2>12, <3>1 DEF low, high
  <2> QED
    BY <2>11, <2>12
<1> DEFINE all == <<0, length>>
<1>3. all \in Ranges(length) /\ all[1] = 0 /\ all[2] = length /\ Width(all) \in Nat
  BY DEF Ranges, Width
<1> HIDE DEF all
<1>4. Right(all)
  BY <1>2, <1>3
<1> QED
  BY <1>3, <1>4 DEF all, s

\* truncateField: as many characters as fit, or none.
LEMMA TruncateCuts ==
  ASSUME NEW text \in Seq(Nat), NEW fits \in [0..Len(text) -> BOOLEAN]
  PROVE  \E n \in 0..Len(text) :
           /\ Truncate(text, fits) = SubSeq(text, 1, n)
           /\ n = 0 \/ fits[n]
           /\ n = Len(text) \/ ~ fits[n + 1]
<1>1. Len(text) \in Nat
  OBVIOUS
<1> QED
  BY <1>1, SearchEnds DEF Truncate

LEMMA NextInside ==
  ASSUME NEW length \in Nat, NEW n \in 0..length, n # length
  PROVE  n + 1 \in 0..length /\ n < length
OBVIOUS

\* One character more is too much when what is left is less than it takes.
LEMMA TooMuch ==
  ASSUME NEW limit \in Nat, NEW base \in Nat, NEW a \in Nat, NEW b \in Nat, NEW c \in Nat,
         ~ (base + a + (b + c) <= limit) \/ ~ (base + (b + c) + a <= limit)
  PROVE  limit - (base + a + b) < c /\ limit - (base + b + a) < c
OBVIOUS

\* fitAlertPayload: when the data leaves room for no text the payload stays too
\* large; otherwise it fits, and one more character of the text that was cut
\* would not.
LEMMA FitWorks ==
  ASSUME NEW title \in Seq(Nat), NEW body \in Seq(Nat), NEW route \in Nat
  PROVE  LET p == FitAlertPayload(title, body, route)
             left == PayloadLimit - PayloadBytes(p.title, p.body, p.route)
         IN /\ p.route = route /\ PayloadBytes(p.title, p.body, p.route) \in Int
            /\ FixedBytes + route > PayloadLimit => left < 0
            /\ FixedBytes + route <= PayloadLimit =>
                 /\ left >= 0
                 /\ p.body # body /\ p.title = title => left < body[Len(p.body) + 1]
                 /\ p.title # title => p.body = <<>> /\ left < title[Len(p.title) + 1]
<1> DEFINE base == FixedBytes + route
           B == [n \in 0..Len(body) |-> Bytes(SubSeq(body, 1, n))]
           T == [n \in 0..Len(title) |-> Bytes(SubSeq(title, 1, n))]
           whole == T[Len(title)]
           bodyFits == [n \in 0..Len(body) |-> PayloadBytes(title, SubSeq(body, 1, n), route) <= PayloadLimit]
           cut == IF bodyFits[Len(body)] THEN body ELSE Truncate(body, bodyFits)
           titleFits == [n \in 0..Len(title) |-> PayloadBytes(SubSeq(title, 1, n), cut, route) <= PayloadLimit]
           short == IF titleFits[Len(title)] THEN title ELSE Truncate(title, titleFits)
           p == FitAlertPayload(title, body, route)
<1>1. base \in Nat /\ PayloadLimit \in Nat
  BY LimitAssumption
<1>2. /\ Len(body) \in Nat /\ 0 \in 0..Len(body) /\ Len(body) \in 0..Len(body)
      /\ SubSeq(body, 1, Len(body)) = body /\ SubSeq(body, 1, 0) = <<>> /\ B[0] = 0
      /\ \A n \in 0..Len(body) : B[n] = Bytes(SubSeq(body, 1, n)) /\ B[n] \in Nat /\ Len(SubSeq(body, 1, n)) = n
      /\ \A n \in 0..Len(body) : n < Len(body) => body[n + 1] \in Nat /\ B[n + 1] = B[n] + body[n + 1]
  <2>1. Len(body) \in Nat /\ 0 \in 0..Len(body) /\ Len(body) \in 0..Len(body)
    OBVIOUS
  <2>2. \A n \in 0..Len(body) : B[n] = Bytes(SubSeq(body, 1, n))
    OBVIOUS
  <2>3. ASSUME NEW n \in 0..Len(body), n < Len(body)
        PROVE  body[n + 1] \in Nat /\ B[n + 1] = B[n] + body[n + 1]
    <3>1. n + 1 \in 0..Len(body)
      BY <2>1, <2>3
    <3> HIDE DEF B
    <3> QED
      BY <2>2, <2>3, <3>1, TextBytes
  <2> HIDE DEF B
  <2> QED
    BY <2>1, <2>2, <2>3, TextBytes
<1>3. /\ Len(title) \in Nat /\ 0 \in 0..Len(title) /\ Len(title) \in 0..Len(title)
      /\ SubSeq(title, 1, Len(title)) = title /\ T[0] = 0
      /\ \A n \in 0..Len(title) : T[n] = Bytes(SubSeq(title, 1, n)) /\ T[n] \in Nat /\ Len(SubSeq(title, 1, n)) = n
      /\ \A n \in 0..Len(title) : n < Len(title) => title[n + 1] \in Nat /\ T[n + 1] = T[n] + title[n + 1]
  <2>1. Len(title) \in Nat /\ 0 \in 0..Len(title) /\ Len(title) \in 0..Len(title)
    OBVIOUS
  <2>2. \A n \in 0..Len(title) : T[n] = Bytes(SubSeq(title, 1, n))
    OBVIOUS
  <2>3. ASSUME NEW n \in 0..Len(title), n < Len(title)
        PROVE  title[n + 1] \in Nat /\ T[n + 1] = T[n] + title[n + 1]
    <3>1. n + 1 \in 0..Len(title)
      BY <2>1, <2>3
    <3> HIDE DEF T
    <3> QED
      BY <2>2, <2>3, <3>1, TextBytes
  <2> HIDE DEF T
  <2> QED
    BY <2>1, <2>2, <2>3, TextBytes
<1>4. p = [title |-> short, body |-> cut, route |-> route]
  BY DEF FitAlertPayload
<1> HIDE DEF B, T
<1>5. whole = Bytes(title) /\ whole \in Nat
  BY <1>3
<1>6. /\ \A n \in 0..Len(body) : bodyFits[n] <=> base + whole + B[n] <= PayloadLimit
      /\ bodyFits \in [0..Len(body) -> BOOLEAN]
  <2>1. \A n \in 0..Len(body) : PayloadBytes(title, SubSeq(body, 1, n), route) = base + whole + B[n]
    BY <1>2, <1>5 DEF PayloadBytes
  <2> HIDE DEF whole, base
  <2>2. \A n \in 0..Len(body) : bodyFits[n] <=> base + whole + B[n] <= PayloadLimit
    BY <2>1
  <2>3. bodyFits \in [0..Len(body) -> BOOLEAN]
    OBVIOUS
  <2> HIDE DEF bodyFits
  <2> QED
    BY <2>2, <2>3
<1> HIDE DEF bodyFits
<1>7. PICK k \in 0..Len(body) :
        /\ cut = SubSeq(body, 1, k)
        /\ k = 0 \/ bodyFits[k]
        /\ k = Len(body) \/ ~ bodyFits[k + 1]
  <2>1. CASE bodyFits[Len(body)]
    BY <1>2, <2>1
  <2>2. CASE ~ bodyFits[Len(body)]
    <3>1. \E k \in 0..Len(body) :
            /\ Truncate(body, bodyFits) = SubSeq(body, 1, k)
            /\ k = 0 \/ bodyFits[k]
            /\ k = Len(body) \/ ~ bodyFits[k + 1]
      BY <1>6, TruncateCuts
    <3> QED
      BY <2>2, <3>1
  <2> QED
    BY <2>1, <2>2
<1> HIDE DEF cut
<1>8. /\ \A n \in 0..Len(title) : titleFits[n] <=> base + T[n] + B[k] <= PayloadLimit
      /\ titleFits \in [0..Len(title) -> BOOLEAN]
  <2>1. \A n \in 0..Len(title) : PayloadBytes(SubSeq(title, 1, n), cut, route) = base + T[n] + B[k]
    BY <1>2, <1>3, <1>7 DEF PayloadBytes
  <2> HIDE DEF base
  <2>2. \A n \in 0..Len(title) : titleFits[n] <=> base + T[n] + B[k] <= PayloadLimit
    BY <2>1
  <2>3. titleFits \in [0..Len(title) -> BOOLEAN]
    OBVIOUS
  <2> HIDE DEF titleFits
  <2> QED
    BY <2>2, <2>3
<1> HIDE DEF titleFits
<1>9. PICK j \in 0..Len(title) :
        /\ short = SubSeq(title, 1, j)
        /\ titleFits[Len(title)] => j = Len(title)
        /\ j = 0 \/ titleFits[j]
        /\ j = Len(title) \/ ~ titleFits[j + 1]
  <2>1. CASE titleFits[Len(title)]
    BY <1>3, <2>1
  <2>2. CASE ~ titleFits[Len(title)]
    <3>1. \E n \in 0..Len(title) :
            /\ Truncate(title, titleFits) = SubSeq(title, 1, n)
            /\ n = 0 \/ titleFits[n]
            /\ n = Len(title) \/ ~ titleFits[n + 1]
      BY <1>8, TruncateCuts
    <3> QED
      BY <2>2, <3>1
  <2> QED
    BY <2>1, <2>2
<1> HIDE DEF short, p
<1> DEFINE left == PayloadLimit - (base + T[j] + B[k])
<1>10. /\ p.title = SubSeq(title, 1, j) /\ p.body = SubSeq(body, 1, k) /\ p.route = route
       /\ PayloadBytes(p.title, p.body, p.route) \in Int
       /\ PayloadLimit - PayloadBytes(p.title, p.body, p.route) = left
       /\ Len(p.title) = j /\ Len(p.body) = k
  <2>1. p.title = SubSeq(title, 1, j) /\ p.body = SubSeq(body, 1, k) /\ p.route = route
    BY <1>4, <1>7, <1>9
  <2>2. PayloadBytes(p.title, p.body, p.route) = base + T[j] + B[k]
    BY <1>2, <1>3, <2>1 DEF PayloadBytes
  <2>3. base + T[j] + B[k] \in Int
    <3> HIDE DEF base
    <3> QED
      BY <1>1, <1>2, <1>3
  <2> QED
    BY <1>2, <1>3, <2>1, <2>2, <2>3
<1>11. B[k] \in Nat /\ T[j] \in Nat /\ j \in Nat /\ k \in Nat
  BY <1>2, <1>3
<1> HIDE DEF base, whole
<1>12. left \in Int /\ (left >= 0 <=> base + T[j] + B[k] <= PayloadLimit)
  BY <1>1, <1>11
<1>13. ASSUME k # Len(body)
       PROVE  PayloadLimit - (base + whole + B[k]) < body[k + 1]
  <2>1. k + 1 \in 0..Len(body) /\ k < Len(body)
    BY <1>2, <1>13, NextInside
  <2>2. body[k + 1] \in Nat /\ B[k + 1] = B[k] + body[k + 1] /\ ~ bodyFits[k + 1]
    BY <1>2, <1>7, <1>13, <2>1
  <2>3. ~ (base + whole + (B[k] + body[k + 1]) <= PayloadLimit)
    BY <1>6, <2>1, <2>2
  <2> QED
    BY <1>1, <1>5, <1>11, <2>2, <2>3, TooMuch
<1>14. ASSUME j # Len(title) PROVE left < title[j + 1]
  <2>1. j + 1 \in 0..Len(title) /\ j < Len(title)
    BY <1>3, <1>14, NextInside
  <2>2. title[j + 1] \in Nat /\ T[j + 1] = T[j] + title[j + 1] /\ ~ titleFits[j + 1]
    BY <1>3, <1>9, <1>14, <2>1
  <2>3. ~ (base + (T[j] + title[j + 1]) + B[k] <= PayloadLimit)
    BY <1>8, <2>1, <2>2
  <2> QED
    BY <1>1, <1>11, <2>2, <2>3, TooMuch
<1>15. /\ bodyFits[k] <=> base + whole + B[k] <= PayloadLimit
       /\ titleFits[Len(title)] <=> base + whole + B[k] <= PayloadLimit
       /\ titleFits[j] <=> left >= 0
  BY <1>3, <1>6, <1>8, <1>12 DEF whole
<1>16. /\ p.body # body => k # Len(body)
       /\ k = 0 => p.body = <<>> /\ B[k] = 0
       /\ j = Len(title) => p.title = title /\ T[j] = whole
       /\ j = 0 => T[j] = 0
  BY <1>2, <1>3, <1>10 DEF whole
<1>17. ASSUME base > PayloadLimit PROVE left < 0
  BY <1>1, <1>11, <1>17
<1>18. ASSUME base <= PayloadLimit
       PROVE  /\ left >= 0
              /\ p.body # body /\ p.title = title => left < body[Len(p.body) + 1]
              /\ p.title # title => p.body = <<>> /\ left < title[Len(p.title) + 1]
  <2>1. CASE bodyFits[k]
    <3>1. j = Len(title) /\ p.title = title /\ T[j] = whole
      BY <1>9, <1>15, <1>16, <2>1
    <3>2. left >= 0
      BY <1>12, <1>15, <2>1, <3>1
    <3>3. ASSUME p.body # body PROVE left < body[k + 1]
      BY <1>13, <1>16, <3>1, <3>3
    <3> QED
      BY <1>10, <3>1, <3>2, <3>3
  <2>2. CASE ~ bodyFits[k]
    <3>1. k = 0 /\ p.body = <<>> /\ B[k] = 0
      BY <1>7, <1>16, <2>2
    <3>2. ~ titleFits[Len(title)]
      BY <1>15, <2>2
    <3>3. left >= 0
      <4>1. CASE j = 0
        <5>1. T[j] = 0
          BY <1>16, <4>1
        <5> QED
          BY <1>1, <1>12, <1>18, <3>1, <5>1
      <4>2. CASE j # 0
        BY <1>9, <1>15, <4>2
      <4> QED
        BY <4>1, <4>2
    <3>4. j # Len(title)
      <4> SUFFICES ASSUME j = Len(title) PROVE FALSE
        OBVIOUS
      <4> QED
        BY <1>15, <3>2, <3>3
    <3>5. p.title # title
      BY <1>10, <3>4
    <3> QED
      BY <1>10, <1>14, <3>1, <3>3, <3>4, <3>5
  <2> QED
    BY <2>1, <2>2
<1> HIDE DEF left
<1> QED
  BY <1>10, <1>17, <1>18 DEF p, base

\* buildApnsPayload: the data goes when it leaves no room for any text.
LEMMA BuildWorks ==
  ASSUME NEW title \in Seq(Nat), NEW body \in Seq(Nat), NEW data \in Nat
  PROVE  IsBestPayload(BuildApnsPayload(title, body, data), title, body, data)
<1> DEFINE full == FitAlertPayload(title, body, data)
           bare == FitAlertPayload(title, body, FallbackBytes)
           Left(p) == PayloadLimit - PayloadBytes(p.title, p.body, p.route)
<1>1. /\ PayloadLimit \in Nat /\ FixedBytes \in Nat /\ FallbackBytes \in Nat
      /\ FixedBytes + FallbackBytes <= PayloadLimit
  BY LimitAssumption
<1>2. PayloadBytes(full.title, full.body, full.route) \in Int
  BY FitWorks
<1>3. BuildApnsPayload(title, body, data) = IF Left(full) >= 0 THEN full ELSE bare
  BY <1>1, <1>2 DEF BuildApnsPayload
<1>4. CASE FixedBytes + data <= PayloadLimit
  <2>1. Left(full) >= 0 /\ IsBestPayload(full, title, body, data)
    BY <1>4, FitWorks DEF IsBestPayload
  <2> QED
    BY <1>3, <2>1
<1>5. CASE ~ (FixedBytes + data <= PayloadLimit)
  <2>1. Left(full) < 0
    BY <1>1, <1>5, FitWorks
  <2>2. IsBestPayload(bare, title, body, data)
    BY <1>1, <1>5, FitWorks DEF IsBestPayload
  <2>3. ~ (Left(full) >= 0)
    BY <1>1, <1>2, <2>1
  <2> QED
    BY <1>3, <2>2, <2>3
<1> QED
  BY <1>4, <1>5

PayloadInv == content \in [Notes -> Contents] /\ DOMAIN alert = Notes /\ PayloadsFit

LEMMA OnlyDispatched ==
  [Next]_vars =>
    \/ UNCHANGED <<content, alert>>
    \/ \E n \in Notes : DispatchPushNotifications(n)
<1> SUFFICES ASSUME [Next]_vars, ~ \E n \in Notes : DispatchPushNotifications(n)
             PROVE  UNCHANGED <<content, alert>>
  OBVIOUS
<1>1. CASE UNCHANGED vars
  BY <1>1 DEF vars, noteVars, pushVars
<1>2. CASE TokenNext /\ UNCHANGED <<noteVars, pushVars, socketVars, tasks, env>>
  BY <1>2 DEF noteVars, pushVars
<1>3. CASE SocketNext
  BY <1>3 DEF SocketNext, Connect, Vanish, Close, ReadCount, BroadcastCount, AnswerConnected,
       TellCreated, SettleInApp, TellMessage, noteVars, pushVars
<1>4. CASE NoteNext
  BY <1>4 DEF NoteNext, MarkNotificationRead, ArchiveNotification, CreateNotification, CreateMessage,
       MarkAllNotificationsRead, noteVars, pushVars
<1>5. CASE PushNext
  <2>1. PICK n \in Notes :
          \/ \E k \in Keys, outcome \in Outcomes : AnswerApns(n, k, outcome)
          \/ \E length \in 1..(Len(sending[n].queue) - sending[n].cut) :
               \E tickets \in [1..length -> Tickets] : AnswerExpoChunk(n, tickets)
          \/ \E a \in sending[n].attempts : RecordPushDeliveryAttempt(n, a)
    BY <1>5 DEF PushNext
  <2> QED
    BY <2>1 DEF AnswerApns, AnswerExpoChunk, RecordPushDeliveryAttempt, noteVars
<1>6. CASE Crash
  BY <1>6 DEF Crash, noteVars
<1> QED
  BY <1>1, <1>2, <1>3, <1>4, <1>5, <1>6 DEF Next

LEMMA PayloadStep == PayloadInv /\ [Next]_vars => PayloadInv'
<1> SUFFICES ASSUME PayloadInv, [Next]_vars PROVE PayloadInv'
  OBVIOUS
<1>1. CASE UNCHANGED <<content, alert>>
  BY <1>1 DEF PayloadInv, PayloadsFit
<1>2. ASSUME NEW n \in Notes, DispatchPushNotifications(n) PROVE PayloadInv'
  <2> DEFINE c == content[n]
             best == BuildApnsPayload(c.title, c.body, c.data)
  <2>1. c.title \in Seq(Nat) /\ c.body \in Seq(Nat) /\ c.data \in Nat
    BY ContentsAssumption DEF PayloadInv
  <2>2. IsBestPayload(best, c.title, c.body, c.data)
    BY <2>1, BuildWorks
  <2> HIDE DEF best
  <2>3. content' = content
    BY <1>2 DEF DispatchPushNotifications, noteVars
  <2>4. \E given : alert' = [alert EXCEPT ![n] = given] /\ (given = alert[n] \/ given = {best})
    <3>1. PICK unasked :
            alert' = [alert EXCEPT ![n] =
              IF {k \in {k \in Keys : push[n][k] = "pending"} : k[1] = "apns"} \ unasked = {}
              THEN @ ELSE {best}]
      BY <1>2, Zenon DEF DispatchPushNotifications, best
    <3> QED
      BY <3>1
  <2>5. /\ DOMAIN alert' = Notes
        /\ \A m \in Notes : alert'[m] = alert[m] \/ (m = n /\ alert'[m] = {best})
    BY <2>4 DEF PayloadInv
  <2>6. ASSUME NEW m \in Notes, NEW p \in alert'[m]
        PROVE  IsBestPayload(p, content'[m].title, content'[m].body, content'[m].data)
    <3>1. CASE alert'[m] = alert[m]
      BY <2>3, <2>6, <3>1 DEF PayloadInv, PayloadsFit
    <3>2. CASE m = n /\ alert'[m] = {best}
      BY <2>2, <2>3, <2>6, <3>2
    <3> QED
      BY <2>5, <3>1, <3>2
  <2> QED
    BY <2>3, <2>5, <2>6 DEF PayloadInv, PayloadsFit
<1> QED
  BY <1>1, <1>2, OnlyDispatched

\* What APNs is given fits its limit for every text, data and limit, keeps the
\* data whenever any text fits beside them, and the longest text that fits.
THEOREM PayloadsBest == Spec => []PayloadsFit
<1>1. Init => PayloadInv
  BY DEF Init, PayloadInv, PayloadsFit
<1>2. PayloadInv => PayloadsFit
  BY DEF PayloadInv
<1> QED
  BY <1>1, <1>2, PayloadStep, PTL DEF Spec

=============================================================================
