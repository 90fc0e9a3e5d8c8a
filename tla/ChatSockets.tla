---------------------------- MODULE ChatSockets ----------------------------
(***************************************************************************)
(* The chat sockets of one server process: the hub of                      *)
(* src/src/services/chat-sockets.ts, the open, message and close handlers  *)
(* of src/src/routes/chat.ts, and the broadcasts of                        *)
(* src/src/services/chat-service.ts that follow a commit.                  *)
(*                                                                         *)
(* JavaScript runs a handler without interruption up to its next await.    *)
(* A handler that awaits rows is a task: Read is the moment PostgreSQL     *)
(* answers its query, an Answer action what the handler does with the      *)
(* rows, up to its next await or its end.  A conversation row is its       *)
(* version, 0 while there is none.                                         *)
(***************************************************************************)
EXTENDS Naturals, Sequences, FiniteSets

CONSTANTS
  Profiles, Sockets, Conversations,
  ProfileOf,     \* [Sockets -> Profiles]: the profile of the socket's path
  Doubtful,      \* the sockets whose user may be found to be no member of it
  Ends,          \* [Conversations -> the sequence of its two profiles]
  Existing,      \* the conversations that exist when the behaviour starts
  MaxTasks,      \* bound: handlers under way
  MaxVersion     \* bound: versions of a conversation

ASSUME SocketsAssumption == ProfileOf \in [Sockets -> Profiles] /\ Doubtful \subseteq Sockets
ASSUME EndsAssumption == Ends \in [Conversations -> Profiles \X Profiles]
ASSUME BoundsAssumption == Existing \subseteq Conversations /\ MaxVersion \in Nat \ {0}
ASSUME SomeAssumption == Profiles # {} /\ Sockets # {} /\ Conversations # {}

VARIABLES
  hub,     \* the maps of ChatSocketHub
  conn,    \* each connection: new, open, closed, and gone once close was handled
  rows,    \* the version of each conversation
  tasks,   \* handlers that await rows, oldest first
  told,    \* the subscriptions each open connection was confirmed
  view,    \* the presence each open connection was told last
  shown,   \* the version of each conversation it was told last
  env      \* never changes: are tasks served one by one, and may send throw

vars == <<hub, conn, rows, tasks, told, view, shown, env>>

Presence == {"unknown", "online", "offline"}

-----------------------------------------------------------------------------
(* ChatSocketHub                                                           *)

EmptyHub ==
  [registered |-> {}, byProfile |-> [p \in Profiles |-> {}],
   bySocket |-> [s \in Sockets |-> {}], byConversation |-> [c \in Conversations |-> {}]]

\* Mutation: the profile is added to its own set in place of the socket.
AddProfile(h, s) ==
  [h EXCEPT !.registered = @ \cup {s}, !.byProfile[ProfileOf[s]] = @ \cup {ProfileOf[s]}]

Add(h, s) ==
  [h EXCEPT !.registered = @ \cup {s}, !.byProfile[ProfileOf[s]] = @ \cup {s}]

\* remove, of each socket of S that is registered: its subscriptions are found
\* through the map of the socket.
Remove(h, S) ==
  LET gone == S \cap h.registered IN
  [registered |-> h.registered \ gone,
   byProfile |-> [p \in Profiles |-> h.byProfile[p] \ gone],
   bySocket |-> [s \in Sockets |-> IF s \in gone THEN {} ELSE h.bySocket[s]],
   byConversation |->
     [c \in Conversations |-> {s \in h.byConversation[c] : ~(s \in gone /\ c \in h.bySocket[s])}]]

\* Mutation: the map of the sockets is not asked first.
SubscribeAnyway(h, s, c) ==
  [h EXCEPT !.bySocket[s] = @ \cup {c}, !.byConversation[c] = @ \cup {s}]

Subscribe(h, s, c) ==
  IF s \in h.registered
  THEN [h EXCEPT !.bySocket[s] = @ \cup {c}, !.byConversation[c] = @ \cup {s}]
  ELSE h

Unsubscribe(h, s, c) ==
  [h EXCEPT !.bySocket[s] = @ \ {c}, !.byConversation[c] = @ \ {s}]

IsSocketSubscribed(h, s, c) == c \in h.bySocket[s]

Online(h, p) == IF h.byProfile[p] # {} THEN "online" ELSE "offline"

\* A send reaches an open connection; on any other it is lost, or throws.
Throws(s) == env.throws /\ conn[s] # "open"
Reached(S) == {s \in S : conn[s] = "open"}

\* sendToSockets: the sockets whose send throws are removed, without a word to
\* the peers.
Sent(h, S) == Remove(h, {s \in S : Throws(s)})

-----------------------------------------------------------------------------
(* Handlers that await rows                                                *)

Task(kind) ==
  [kind |-> kind, socket |-> CHOOSE s \in Sockets : TRUE, profile |-> CHOOSE p \in Profiles : TRUE,
   conv |-> CHOOSE c \in Conversations : TRUE, online |-> "unknown", turn |-> 1,
   then |-> FALSE, read |-> FALSE, peers |-> {}, version |-> 0]

OpenTask(s) == [Task("open") EXCEPT !.socket = s, !.profile = ProfileOf[s]]
PresenceTask(p, online) == [Task("presence") EXCEPT !.profile = p, !.online = online]
SubscribeTask(s, c) == [Task("subscribe") EXCEPT !.socket = s, !.conv = c]
UpsertTask(c, then) == [Task("upsert") EXCEPT !.conv = c, !.then = then]

Without(i) == SubSeq(tasks, 1, i - 1) \o SubSeq(tasks, i + 1, Len(tasks))

\* When tasks are served one by one, only the oldest moves.
MayMove(i) == env.serial => i = 1

Answering(i, kind) == MayMove(i) /\ tasks[i].kind = kind /\ tasks[i].read

\* listConversationPeerProfileIds
Peers(p) ==
  {q \in Profiles \ {p} : \E c \in Conversations : rows[c] > 0 /\ Ends[c] \in {<<p, q>>, <<q, p>>}}

MatchedProfile(c, p) == IF Ends[c][1] = p THEN Ends[c][2] ELSE Ends[c][1]

\* The rows the task awaits, as they are now.
Read(i) ==
  LET t == tasks[i] IN
  /\ MayMove(i) /\ ~t.read
  /\ tasks' = [tasks EXCEPT ![i].read = TRUE,
                            ![i].peers = IF t.kind \in {"open", "presence"} THEN Peers(t.profile) ELSE {},
                            ![i].version = IF t.kind \in {"subscribe", "upsert"} THEN rows[t.conv] ELSE 0]
  /\ UNCHANGED <<hub, conn, rows, told, view, shown, env>>

-----------------------------------------------------------------------------
(* Open and close                                                          *)

NothingSeen == [p \in Profiles |-> "unknown"]
NothingShown == [c \in Conversations |-> 0]

Init ==
  /\ hub = EmptyHub
  /\ conn = [s \in Sockets |-> "new"]
  /\ rows = [c \in Conversations |-> IF c \in Existing THEN 1 ELSE 0]
  /\ tasks = <<>>
  /\ told = [s \in Sockets |-> {}]
  /\ view = [s \in Sockets |-> NothingSeen]
  /\ shown = [s \in Sockets |-> NothingShown]
  /\ env \in [serial : BOOLEAN, throws : BOOLEAN]

\* open: the handler first awaits the membership and the peers.
Connect(s) ==
  /\ conn[s] = "new" /\ Len(tasks) < MaxTasks
  /\ conn' = [conn EXCEPT ![s] = "open"]
  /\ tasks' = Append(tasks, OpenTask(s))
  /\ UNCHANGED <<hub, rows, told, view, shown, env>>

\* profile_not_found: an error, and the server closes the connection.
Refuse(i) ==
  LET s == tasks[i].socket IN
  /\ Answering(i, "open") /\ s \in Doubtful
  /\ conn' = [conn EXCEPT ![s] = IF @ = "open" THEN "closed" ELSE @]
  /\ tasks' = Without(i)
  /\ UNCHANGED <<hub, rows, told, view, shown, env>>

\* Mutation: the profile's sockets are looked up after the new one is added.
FirstOfProfileLate(s) == hub.byProfile[ProfileOf[s]] = {s}

FirstOfProfile(s) == hub.byProfile[ProfileOf[s]] = {}

\* The socket is added, told who is online, and announced when it is the first
\* of its profile.  It may have been closed meanwhile: a send that throws then
\* ends the handler.
Register(i) ==
  LET t == tasks[i]
      s == t.socket
  IN
  /\ Answering(i, "open")
  /\ hub' = Add(hub, s)
  /\ view' = [view EXCEPT ![s] =
       [p \in Profiles |-> IF conn[s] = "open" /\ p \in t.peers THEN Online(hub, p) ELSE @[p]]]
  /\ tasks' = IF FirstOfProfile(s) /\ ~Throws(s)
              THEN Append(Without(i), PresenceTask(ProfileOf[s], "online"))
              ELSE Without(i)
  /\ UNCHANGED <<conn, rows, told, shown, env>>

\* The connection is lost, and what the client knew; the server has not noticed.
Vanish(s) ==
  /\ conn[s] = "open"
  /\ conn' = [conn EXCEPT ![s] = "closed"]
  /\ told' = [told EXCEPT ![s] = {}]
  /\ view' = [view EXCEPT ![s] = NothingSeen]
  /\ shown' = [shown EXCEPT ![s] = NothingShown]
  /\ UNCHANGED <<hub, rows, tasks, env>>

\* close: a socket that is not registered, or was pruned, is not announced.
Close(s) ==
  LET left == Remove(hub, {s})
      p == ProfileOf[s]
  IN
  /\ conn[s] = "closed"
  /\ conn' = [conn EXCEPT ![s] = "gone"]
  /\ hub' = left
  /\ tasks' = IF s \in hub.registered /\ left.byProfile[p] = {}
              THEN Append(tasks, PresenceTask(p, "offline"))
              ELSE tasks
  /\ UNCHANGED <<rows, told, view, shown, env>>

\* broadcastChatPresenceChanged, with the peers it has read.
AnnouncePresence(i) ==
  LET t == tasks[i]
      S == UNION {hub.byProfile[p] : p \in t.peers}
  IN
  /\ Answering(i, "presence")
  /\ hub' = Sent(hub, S)
  /\ view' = [s \in Sockets |->
       IF s \in Reached(S) THEN [view[s] EXCEPT ![t.profile] = t.online] ELSE view[s]]
  /\ tasks' = Without(i)
  /\ UNCHANGED <<conn, rows, told, shown, env>>

-----------------------------------------------------------------------------
(* Commands of a client                                                    *)

AskSubscribe(s, c) ==
  /\ conn[s] = "open" /\ Len(tasks) < MaxTasks
  /\ c \notin told[s] /\ ProfileOf[s] \in {Ends[c][1], Ends[c][2]}
  /\ tasks' = Append(tasks, SubscribeTask(s, c))
  /\ UNCHANGED <<hub, conn, rows, told, view, shown, env>>

\* The answer of subscribe is not looked at: the client is told it subscribed.
AnswerSubscribe(i) ==
  LET t == tasks[i]
      s == t.socket
      q == MatchedProfile(t.conv, ProfileOf[s])
      heard == t.version > 0 /\ conn[s] = "open"
  IN
  /\ Answering(i, "subscribe")
  /\ hub' = IF t.version > 0 THEN Subscribe(hub, s, t.conv) ELSE hub
  /\ told' = IF heard THEN [told EXCEPT ![s] = @ \cup {t.conv}] ELSE told
  /\ shown' = IF heard THEN [shown EXCEPT ![s][t.conv] = t.version] ELSE shown
  /\ view' = IF heard THEN [view EXCEPT ![s][q] = Online(hub, q)] ELSE view
  /\ tasks' = Without(i)
  /\ UNCHANGED <<conn, rows, env>>

AskUnsubscribe(s, c) ==
  /\ conn[s] = "open" /\ c \in told[s]
  /\ hub' = Unsubscribe(hub, s, c)
  /\ told' = [told EXCEPT ![s] = @ \ {c}]
  /\ UNCHANGED <<conn, rows, tasks, view, shown, env>>

\* Typing is refused without a subscription and not sent back to its origin.
Typing(s, c) ==
  /\ conn[s] = "open" /\ IsSocketSubscribed(hub, s, c)
  /\ hub' = Sent(hub, hub.byConversation[c] \ {s})
  /\ UNCHANGED <<conn, rows, tasks, told, view, shown, env>>

-----------------------------------------------------------------------------
(* What follows a commit                                                   *)

\* A like or an unlike broadcasts the conversation, a send tells the subscribers
\* first, a read afterwards, an emoji reaction tells the subscribers only.
Mutate(c, kind) ==
  /\ Len(tasks) < MaxTasks /\ rows[c] < MaxVersion
  /\ kind # "like" => rows[c] > 0
  /\ rows' = [rows EXCEPT ![c] = IF kind = "react" THEN @ ELSE @ + 1]
  /\ hub' = IF kind \in {"send", "react"} THEN Sent(hub, hub.byConversation[c]) ELSE hub
  /\ tasks' = IF kind = "react" THEN tasks ELSE Append(tasks, UpsertTask(c, kind = "read"))
  /\ UNCHANGED <<conn, told, view, shown, env>>

NextParticipant(t) == Ends[t.conv][t.turn]

\* broadcastConversationUpsert, one participant: the row as loaded, and whether
\* the other side is online now.
Upsert(i) ==
  LET t == tasks[i]
      p == NextParticipant(t)
      q == MatchedProfile(t.conv, p)
      S == hub.byProfile[p]
      after == Sent(hub, S)
      last == t.turn = 2
  IN
  /\ Answering(i, "upsert")
  /\ hub' = IF last /\ t.then THEN Sent(after, after.byConversation[t.conv]) ELSE after
  /\ shown' = [s \in Sockets |->
       IF s \in Reached(S) THEN [shown[s] EXCEPT ![t.conv] = t.version] ELSE shown[s]]
  /\ view' = [s \in Sockets |->
       IF s \in Reached(S) THEN [view[s] EXCEPT ![q] = Online(after, q)] ELSE view[s]]
  /\ tasks' = IF last THEN Without(i)
              ELSE [tasks EXCEPT ![i].turn = 2, ![i].read = FALSE]
  /\ UNCHANGED <<conn, rows, told, env>>

Next ==
  \/ \E s \in Sockets :
       \/ Connect(s) \/ Vanish(s) \/ Close(s)
       \/ \E c \in Conversations : AskSubscribe(s, c) \/ AskUnsubscribe(s, c) \/ Typing(s, c)
  \/ \E c \in Conversations, kind \in {"like", "send", "read", "react"} : Mutate(c, kind)
  \/ \E i \in 1..Len(tasks) :
       \/ Read(i) \/ Refuse(i) \/ Register(i) \/ AnnouncePresence(i)
       \/ AnswerSubscribe(i) \/ Upsert(i)

Spec == Init /\ [][Next]_vars

-----------------------------------------------------------------------------
(* Properties                                                              *)

HubType ==
  [registered : SUBSET Sockets, byProfile : [Profiles -> SUBSET Sockets],
   bySocket : [Sockets -> SUBSET Conversations], byConversation : [Conversations -> SUBSET Sockets]]

TaskType ==
  [kind : {"open", "presence", "subscribe", "upsert"}, socket : Sockets, profile : Profiles,
   conv : Conversations, online : Presence, turn : {1, 2}, then : BOOLEAN, read : BOOLEAN,
   peers : SUBSET Profiles, version : 0..MaxVersion]

\* The state and, with it, that no client and no handler knows a version of a
\* conversation that was never written.
TypeOK ==
  /\ hub \in HubType
  /\ conn \in [Sockets -> {"new", "open", "closed", "gone"}]
  /\ rows \in [Conversations -> 0..MaxVersion]
  /\ tasks \in Seq(TaskType)
  /\ \A i \in 1..Len(tasks) : tasks[i].version <= rows[tasks[i].conv]
  /\ told \in [Sockets -> SUBSET Conversations]
  /\ view \in [Sockets -> [Profiles -> Presence]]
  /\ shown \in [Sockets -> [Conversations -> 0..MaxVersion]]
  /\ \A s \in Sockets, c \in Conversations : shown[s][c] <= rows[c]
  /\ env \in [serial : BOOLEAN, throws : BOOLEAN]

Agree(h) ==
  /\ \A p \in Profiles : h.byProfile[p] = {s \in h.registered : ProfileOf[s] = p}
  /\ \A s \in Sockets, c \in Conversations : c \in h.bySocket[s] <=> s \in h.byConversation[c]
  /\ \A s \in Sockets : h.bySocket[s] # {} => s \in h.registered

\* The four maps of the hub tell one story, whatever handlers end after their
\* socket was closed or pruned: the sockets of a profile are the registered
\* ones, both subscription maps agree, and only registered sockets subscribe.
IndexesAgree == Agree(hub)

\* Every open socket is registered, has the subscriptions it was told it has,
\* knows which peers are online, and was told no old version of a conversation.
ViewTrue(s) ==
  /\ s \in hub.registered
  /\ told[s] = hub.bySocket[s]
  /\ \A p \in Peers(ProfileOf[s]) : view[s][p] = Online(hub, p)
  /\ \A c \in Conversations : shown[s][c] \in {0, rows[c]}

\* "Reports a peer profile's latest online state" (models/chat.ts:670) and
\* "Carries the latest canonical conversation state" (576): what the clients
\* were told is true once nothing is under way, provided that no handler
\* overtakes another at its awaits and that a send to a lost connection does
\* not throw.
ViewsSettle ==
  tasks = <<>> /\ env = [serial |-> TRUE, throws |-> FALSE] =>
    \A s \in Sockets : conn[s] = "open" => ViewTrue(s)

=============================================================================
