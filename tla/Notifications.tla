--------------------------- MODULE Notifications ---------------------------
(***************************************************************************)
(* Notifications of one server process: creating, reading and archiving    *)
(* them (src/src/services/notification-service.ts), the sockets that are   *)
(* told the number of unread ones (src/src/services/notification-sockets   *)
(* .ts, src/src/routes/notifications.ts), and the push providers that are  *)
(* asked to deliver them (src/src/services/push), with the registration of *)
(* push tokens going on meanwhile.                                         *)
(*                                                                         *)
(* JavaScript runs a handler without interruption up to its next await.    *)
(* A handler that awaits rows to tell a count is a task, as is the update  *)
(* of an in-app delivery; asking the providers has a state of its own.     *)
(***************************************************************************)
EXTENDS PushTokens, PushProviders, SequencesExt

CONSTANTS
  Notes, Sockets,
  RecipientOf,   \* [Notes -> Users]
  UserOf,        \* [Sockets -> Users]
  Channels,      \* [Notes -> SUBSET {"in_app", "push"}]; {} for the one of a message
  Contents,      \* what a notification may say: its title, body and data bytes
  Malformed,     \* the Expo keys whose token has not the form of one
  MaxTasks,      \* bound: tasks under way
  NoNote, NoSocket

ASSUME RecipientAssumption == RecipientOf \in [Notes -> Users] /\ UserOf \in [Sockets -> Users]
ASSUME ChannelsAssumption == Channels \in [Notes -> SUBSET {"in_app", "push"}]
ASSUME ContentsAssumption == Contents \subseteq [title : Seq(Nat), body : Seq(Nat), data : Nat]
ASSUME NothingAssumption == NoNote \notin Notes /\ NoSocket \notin Sockets
ASSUME FiniteAssumption == IsFiniteSet(Notes) /\ IsFiniteSet(Sockets) /\ IsFiniteSet(Tokens)
ASSUME MalformedAssumption == Malformed \subseteq Keys /\ \A k \in Malformed : k[1] = "expo"

VARIABLES
  notes,     \* each notification: none, unread, read or archived
  content,   \* what it says
  inApp,     \* the status of its in-app delivery
  push,      \* the status of its delivery to each token
  sending,   \* how far the asking of the providers is
  said,      \* what a provider has said of each delivery
  alert,     \* the payload APNs was given
  hub,       \* the sockets of NotificationSocketHub
  conn,      \* each connection: new, open, closed, and gone once close was handled
  heard,     \* the count each open connection was told last
  reached,   \* the notifications that an open connection was told of
  tasks,     \* handlers that await rows, oldest first
  env        \* never changes: are tasks served one by one, may send throw, and who
             \* reads notifications (the others only get them)

noteVars == <<notes, content, inApp, push>>
pushVars == <<sending, said, alert>>
socketVars == <<hub, conn, heard, reached>>
vars == <<tokenVars, noteVars, pushVars, socketVars, tasks, env>>

-----------------------------------------------------------------------------
(* NotificationSocketHub                                                   *)

SocketsOf(u) == {s \in hub : UserOf[s] = u}

\* A send reaches an open connection; on any other it is lost, or throws.
Throwing(u) == {s \in SocketsOf(u) : env.throws /\ conn[s] # "open"}
Reached(u) == {s \in SocketsOf(u) : conn[s] = "open"}

\* sendToUser returns how many sends did not throw, and forgets the others.
SentConnections(u) == Cardinality(SocketsOf(u) \ Throwing(u))

SendToUser(u) == hub' = hub \ Throwing(u)

TellCount(u, count) ==
  /\ SendToUser(u)
  /\ heard' = [s \in Sockets |-> IF s \in Reached(u) THEN count ELSE heard[s]]

-----------------------------------------------------------------------------
(* Handlers that await rows                                                *)

\* getUnreadNotificationCount, in the rows ns.
UnreadOf(u, ns) == Cardinality({n \in Notes : RecipientOf[n] = u /\ ns[n] = "unread"})

\* A handler that will tell the user a count; sent is what createNotification
\* keeps of telling the notification itself.
CountTask(u) ==
  [kind |-> "count", user |-> u, socket |-> NoSocket, note |-> NoNote,
   read |-> FALSE, count |-> 0, sent |-> 0]
ConnectedTask(s) == [CountTask(UserOf[s]) EXCEPT !.kind = "connected", !.socket = s]
CreatedTask(n) == [CountTask(RecipientOf[n]) EXCEPT !.kind = "created", !.note = n]
MessageTask(n, count) ==
  [CountTask(RecipientOf[n]) EXCEPT !.kind = "message", !.note = n, !.read = TRUE, !.count = count]

Without(i) == SubSeq(tasks, 1, i - 1) \o SubSeq(tasks, i + 1, Len(tasks))
Room == Len(tasks) < MaxTasks

\* When tasks are served one by one, only the oldest moves.
Moving(i, kind) == tasks[i].kind = kind /\ (env.serial => i = 1)

ReadCount(i) ==
  /\ Moving(i, "count") \/ Moving(i, "connected")
  /\ ~tasks[i].read
  /\ tasks' = [tasks EXCEPT ![i].read = TRUE, ![i].count = UnreadOf(tasks[i].user, notes)]
  /\ UNCHANGED <<tokenVars, noteVars, pushVars, socketVars, env>>

\* broadcastUnreadNotificationCount, the count having been read.
BroadcastCount(i) ==
  LET t == tasks[i] IN
  /\ Moving(i, "count") /\ t.read
  /\ TellCount(t.user, t.count)
  /\ tasks' = IF t.note = NoNote THEN Without(i) ELSE [tasks EXCEPT ![i].kind = "settle"]
  /\ UNCHANGED <<tokenVars, noteVars, pushVars, conn, reached, env>>

-----------------------------------------------------------------------------
(* Open and close                                                          *)

\* open: the socket is added before the count is awaited.
Connect(s) ==
  /\ conn[s] = "new" /\ Room
  /\ conn' = [conn EXCEPT ![s] = "open"]
  /\ hub' = hub \cup {s}
  /\ tasks' = Append(tasks, ConnectedTask(s))
  /\ UNCHANGED <<tokenVars, noteVars, pushVars, heard, reached, env>>

AnswerConnected(i) ==
  LET t == tasks[i] IN
  /\ Moving(i, "connected") /\ t.read
  /\ heard' = [heard EXCEPT ![t.socket] = IF conn[t.socket] = "open" THEN t.count ELSE @]
  /\ tasks' = Without(i)
  /\ UNCHANGED <<tokenVars, noteVars, pushVars, hub, conn, reached, env>>

\* The connection is lost; the server has not noticed.
Vanish(s) ==
  /\ conn[s] = "open"
  /\ conn' = [conn EXCEPT ![s] = "closed"]
  /\ heard' = [heard EXCEPT ![s] = 0]
  /\ UNCHANGED <<tokenVars, noteVars, pushVars, hub, reached, tasks, env>>

Close(s) ==
  /\ conn[s] = "closed"
  /\ conn' = [conn EXCEPT ![s] = "gone"]
  /\ hub' = hub \ {s}
  /\ UNCHANGED <<tokenVars, noteVars, pushVars, heard, reached, tasks, env>>

-----------------------------------------------------------------------------
(* Reading and archiving                                                   *)

\* markNotificationRead; one already read is read again, and the count told.
MarkNotificationRead(n) ==
  /\ notes[n] \in {"unread", "read"} /\ RecipientOf[n] \in env.readers /\ Room
  /\ notes' = [notes EXCEPT ![n] = "read"]
  /\ tasks' = Append(tasks, CountTask(RecipientOf[n]))
  /\ UNCHANGED <<tokenVars, content, inApp, push, pushVars, socketVars, env>>

MarkAllNotificationsRead(u) ==
  /\ u \in env.readers /\ Room
  /\ notes' = [n \in Notes |-> IF RecipientOf[n] = u /\ notes[n] = "unread" THEN "read" ELSE notes[n]]
  /\ tasks' = Append(tasks, CountTask(u))
  /\ UNCHANGED <<tokenVars, content, inApp, push, pushVars, socketVars, env>>

\* Mutation: the count is told when a notification that was read is archived.
CountChangesAlways(n) == notes[n] = "read"

CountChanges(n) == notes[n] = "unread"

\* archiveNotification: nothing is told of one that was read before.
ArchiveNotification(n) ==
  /\ notes[n] \in {"unread", "read"} /\ RecipientOf[n] \in env.readers /\ Room
  /\ notes' = [notes EXCEPT ![n] = "archived"]
  /\ tasks' = IF CountChanges(n) THEN Append(tasks, CountTask(RecipientOf[n])) ELSE tasks
  /\ UNCHANGED <<tokenVars, content, inApp, push, pushVars, socketVars, env>>

-----------------------------------------------------------------------------
(* Creating                                                                *)

NotAsked ==
  [at |-> "none", awaited |-> {}, queue |-> <<>>, cut |-> 0, chunkStart |-> 0, attempts |-> {}]

\* createNotification, its transaction: the notification, a delivery for each
\* channel, and for push one for each enabled token of the recipient.
CreateNotification(n) ==
  LET u == RecipientOf[n]
      live == "in_app" \in Channels[n]
  IN
  /\ notes[n] = "none" /\ Channels[n] # {} /\ Room
  /\ notes' = [notes EXCEPT ![n] = "unread"]
  /\ inApp' = [inApp EXCEPT ![n] = IF live THEN "pending" ELSE "none"]
  /\ IF "push" \in Channels[n]
     THEN /\ push' = [push EXCEPT ![n] =
               [k \in Keys |-> IF rows[k].user = u /\ rows[k].enabled THEN "pending" ELSE "none"]]
          /\ sending' = [sending EXCEPT ![n].at = IF live THEN "waiting" ELSE "due"]
     ELSE UNCHANGED <<push, sending>>
  /\ tasks' = IF live THEN Append(tasks, CreatedTask(n)) ELSE tasks
  /\ UNCHANGED <<tokenVars, content, said, alert, socketVars, env>>

\* The commit has been answered: the notification is told, then the count.
TellCreated(i) ==
  LET t == tasks[i] IN
  /\ Moving(i, "created")
  /\ SendToUser(t.user)
  /\ reached' = IF Reached(t.user) # {} THEN reached \cup {t.note} ELSE reached
  /\ tasks' = [tasks EXCEPT ![i].kind = "count", ![i].sent = SentConnections(t.user)]
  /\ UNCHANGED <<tokenVars, noteVars, pushVars, conn, heard, env>>

\* The in-app delivery is settled, then the push providers are to be asked.
SettleInApp(i) ==
  LET t == tasks[i] IN
  /\ Moving(i, "settle")
  /\ inApp' = [inApp EXCEPT ![t.note] = IF t.sent > 0 THEN "delivered" ELSE "skipped"]
  /\ sending' = [sending EXCEPT ![t.note].at = IF @ = "waiting" THEN "due" ELSE @]
  /\ tasks' = Without(i)
  /\ UNCHANGED <<tokenVars, notes, content, push, said, alert, socketVars, env>>

\* A message's notification: its count is read in the message's transaction, and
\* told after it (chat-service.ts).  Delivery jobs see to its deliveries.
CreateMessage(n) ==
  /\ notes[n] = "none" /\ Channels[n] = {} /\ Room
  /\ notes' = [notes EXCEPT ![n] = "unread"]
  /\ tasks' = Append(tasks, MessageTask(n, UnreadOf(RecipientOf[n], notes')))
  /\ UNCHANGED <<tokenVars, content, inApp, push, pushVars, socketVars, env>>

TellMessage(i) ==
  LET t == tasks[i] IN
  /\ Moving(i, "message")
  /\ TellCount(t.user, t.count)
  /\ reached' = IF Reached(t.user) # {} THEN reached \cup {t.note} ELSE reached
  /\ tasks' = Without(i)
  /\ UNCHANGED <<tokenVars, noteVars, pushVars, conn, env>>

-----------------------------------------------------------------------------
(* Asking the providers                                                    *)

Attempt(k, outcome) == [target |-> k, outcome |-> outcome]

\* dispatchPushNotifications: each provider is asked for its own deliveries.
\* APNs fails them all when its configuration is invalid; an Expo token of the
\* wrong form is given up; the other messages wait to be cut into chunks.
DispatchPushNotifications(n) ==
  LET targets == {k \in Keys : push[n][k] = "pending"}
      apns == {k \in targets : k[1] = "apns"}
      given == targets \cap Malformed
      c == content[n]
  IN
  /\ sending[n].at = "due"
  /\ \E configured \in BOOLEAN :
       LET unasked == IF configured THEN {} ELSE apns
           Judge(k) == IF k \in unasked THEN "failed" ELSE IF k \in given THEN "rejected" ELSE said[n][k]
       IN
       /\ sending' = [sending EXCEPT ![n].at = "asked",
                                     ![n].awaited = apns \ unasked,
                                     ![n].queue = SetToSeq((targets \ apns) \ given),
                                     ![n].attempts = {Attempt(k, Judge(k)) : k \in unasked \cup given}]
       /\ said' = [said EXCEPT ![n] = [k \in Keys |-> Judge(k)]]
       /\ alert' = [alert EXCEPT ![n] =
            IF apns \ unasked = {} THEN @ ELSE {BuildApnsPayload(c.title, c.body, c.data)}]
  /\ UNCHANGED <<tokenVars, noteVars, socketVars, tasks, env>>

\* The answer of APNs for one device, or its request fails.
AnswerApns(n, k, outcome) ==
  /\ sending[n].at = "asked" /\ k \in sending[n].awaited
  /\ outcome \in {ClassifyApnsResponse(r) : r \in ApnsResponses} \cup {"retryable"}
  /\ sending' = [sending EXCEPT ![n].awaited = @ \ {k},
                                ![n].attempts = @ \cup {Attempt(k, outcome)}]
  /\ said' = [said EXCEPT ![n][k] = outcome]
  /\ UNCHANGED <<tokenVars, noteVars, alert, socketVars, tasks, env>>

\* Mutation: every chunk finds its targets from the first message on.
ChunkStartStays(start, length) == start

NextChunkStart(start, length) == start + length

\* Expo is asked chunk by chunk.  The messages of the next one are answered by
\* as many tickets, or fewer, or the request fails; each outcome is noted for
\* the target found from chunkStart.
AnswerExpoChunk(n, tickets) ==
  LET q == sending[n].queue
      cut == sending[n].cut
      start == sending[n].chunkStart
      length == Len(tickets)
  IN
  /\ sending[n].at = "asked"
  /\ \E answered \in 0..length :
       LET Outcome(j) == ApplyExpoPushTicket(IF j <= answered THEN tickets[j] ELSE "none")
       IN
       /\ sending' = [sending EXCEPT ![n].cut = cut + length,
                                     ![n].chunkStart = NextChunkStart(start, length),
                                     ![n].attempts = @ \cup {Attempt(q[start + j], Outcome(j)) : j \in 1..length}]
       /\ said' = [said EXCEPT ![n] =
            [k \in Keys |-> IF \E j \in 1..length : q[cut + j] = k
                            THEN Outcome(CHOOSE j \in 1..length : q[cut + j] = k)
                            ELSE @[k]]]
  /\ UNCHANGED <<tokenVars, noteVars, alert, socketVars, tasks, env>>

\* Every provider has answered for every delivery.
Answered(n) ==
  sending[n].at = "asked" /\ sending[n].awaited = {} /\ sending[n].cut = Len(sending[n].queue)

\* Mutation: the outcome is kept as the status.
StatusKept(outcome) == outcome

\* Retried is pending with a time for the next attempt; nothing makes one.
StatusOf(outcome) ==
  CASE outcome = "accepted" -> "delivered"
    [] outcome = "retryable" -> "retried"
    [] OTHER -> "failed"

\* recordPushDeliveryAttempt, once all have answered: a transaction that may
\* disable the token, whoever has registered it meanwhile.
RecordPushDeliveryAttempt(n, a) ==
  /\ Answered(n) /\ a \in sending[n].attempts
  /\ push' = [push EXCEPT ![n][a.target] = StatusOf(a.outcome)]
  /\ IF a.outcome = "rejected"
     THEN Unlocked(a.target) /\ rows' = Disabled(a.target)
     ELSE UNCHANGED rows
  /\ sending' = [sending EXCEPT ![n].attempts = @ \ {a}]
  /\ UNCHANGED <<at, written, notes, content, inApp, said, alert, socketVars, tasks, env>>

-----------------------------------------------------------------------------
(* The process                                                             *)

\* The process ends: its handlers, its sockets and its transactions with it.
Crash ==
  /\ at' = [s \in Sessions |-> IF at[s] \in {"lock", "rotate", "upsert", "commit"} THEN "aborted" ELSE at[s]]
  /\ written' = [s \in Sessions |-> [k \in Keys |-> Untouched]]
  /\ sending' = [n \in Notes |-> IF sending[n].at = "none" THEN NotAsked ELSE [NotAsked EXCEPT !.at = "lost"]]
  /\ hub' = {}
  /\ conn' = [s \in Sockets |-> IF conn[s] = "new" THEN "new" ELSE "gone"]
  /\ heard' = [s \in Sockets |-> 0]
  /\ tasks' = <<>>
  /\ UNCHANGED <<rows, noteVars, said, alert, reached, env>>

Init ==
  /\ TokenInit
  /\ notes \in [Notes -> {"none", "archived"}]
  /\ content \in [Notes -> Contents]
  /\ inApp = [n \in Notes |-> "none"]
  /\ push = [n \in Notes |-> [k \in Keys |-> "none"]]
  /\ sending = [n \in Notes |-> NotAsked]
  /\ said = [n \in Notes |-> [k \in Keys |-> "nothing"]]
  /\ alert = [n \in Notes |-> {}]
  /\ hub = {}
  /\ conn \in [Sockets -> {"new", "gone"}]
  /\ heard = [s \in Sockets |-> 0]
  /\ reached = {}
  /\ tasks = <<>>
  /\ env \in [serial : BOOLEAN, throws : BOOLEAN, readers : SUBSET Users]

SocketNext ==
  \/ \E s \in Sockets : Connect(s) \/ Vanish(s) \/ Close(s)
  \/ \E i \in 1..Len(tasks) :
       \/ ReadCount(i) \/ BroadcastCount(i) \/ AnswerConnected(i)
       \/ TellCreated(i) \/ SettleInApp(i) \/ TellMessage(i)

NoteNext ==
  \/ \E n \in Notes :
       \/ MarkNotificationRead(n) \/ ArchiveNotification(n)
       \/ CreateNotification(n) \/ CreateMessage(n)
  \/ \E u \in Users : MarkAllNotificationsRead(u)

PushNext ==
  \E n \in Notes :
    \/ DispatchPushNotifications(n)
    \/ \E k \in Keys, outcome \in Outcomes : AnswerApns(n, k, outcome)
    \/ \E length \in 1..(Len(sending[n].queue) - sending[n].cut) :
         \E tickets \in [1..length -> Tickets] : AnswerExpoChunk(n, tickets)
    \/ \E a \in sending[n].attempts : RecordPushDeliveryAttempt(n, a)

Next ==
  \/ TokenNext /\ UNCHANGED <<noteVars, pushVars, socketVars, tasks, env>>
  \/ SocketNext \/ NoteNext \/ PushNext \/ Crash

Spec == Init /\ [][Next]_vars

-----------------------------------------------------------------------------
(* Properties                                                              *)

SendingType ==
  [at : {"none", "waiting", "due", "asked", "lost"}, awaited : SUBSET Keys, queue : Seq(Keys),
   cut : Nat, chunkStart : Nat, attempts : SUBSET [target : Keys, outcome : Outcomes]]

TaskType ==
  [kind : {"count", "connected", "created", "settle", "message"}, user : Users,
   socket : Sockets \cup {NoSocket}, note : Notes \cup {NoNote}, read : BOOLEAN,
   count : 0..Cardinality(Notes), sent : 0..Cardinality(Sockets)]

\* The state and, with it, that deliveries belong to notifications that exist.
TypeOK ==
  /\ TokenTypeOK
  /\ notes \in [Notes -> {"none", "unread", "read", "archived"}]
  /\ content \in [Notes -> Contents]
  /\ inApp \in [Notes -> {"none", "pending", "delivered", "skipped"}]
  /\ push \in [Notes -> [Keys -> {"none", "pending", "retried", "delivered", "failed"}]]
  /\ \A n \in Notes : sending[n] \in SendingType
  /\ said \in [Notes -> [Keys -> Outcomes \cup {"nothing"}]]
  /\ hub \subseteq Sockets /\ reached \subseteq Notes
  /\ conn \in [Sockets -> {"new", "open", "closed", "gone"}]
  /\ heard \in [Sockets -> 0..Cardinality(Notes)]
  /\ tasks \in Seq(TaskType)
  /\ \A n \in Notes : notes[n] = "none" => inApp[n] = "none" /\ n \notin reached

\* "Carries the current canonical unread notification count"
\* (models/notification.ts:244): every open socket has been told the number of
\* its user's unread notifications once nothing is under way, provided that no
\* handler overtakes another at its awaits.
UnreadSettles ==
  tasks = <<>> /\ env.serial =>
    \A s \in Sockets : conn[s] = "open" => heard[s] = UnreadOf(UserOf[s], notes)

\* The deliveries tell what happened: a provider's answer is kept for the very
\* token it was given for, however Expo's messages are cut into chunks and
\* whatever APNs and Expo say meanwhile; no delivery stays pending when all
\* answers are recorded; and none in the application is skipped though a client
\* was told, or, where a lost send throws, delivered though none was.
LedgerTellsAnswers ==
  \A n \in Notes :
    /\ \A k \in Keys :
         /\ push[n][k] = "delivered" => said[n][k] = "accepted"
         /\ push[n][k] = "retried" => said[n][k] = "retryable"
         /\ push[n][k] = "failed" => said[n][k] \in {"failed", "rejected"}
         /\ Answered(n) /\ sending[n].attempts = {} => push[n][k] # "pending"
    /\ inApp[n] = "skipped" => n \notin reached
    /\ inApp[n] = "delivered" /\ env.throws => n \in reached

\* "keeps payloads within APNs limits and falls back when custom data is too
\* large" (test/push-notifications.test.ts:433): what APNs is given fits and
\* says as much as fits.
PayloadsFit ==
  \A n \in Notes : \A p \in alert[n] :
    IsBestPayload(p, content[n].title, content[n].body, content[n].data)

=============================================================================
