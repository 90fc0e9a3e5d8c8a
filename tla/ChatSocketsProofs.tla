------------------------- MODULE ChatSocketsProofs -------------------------
(***************************************************************************)
(* The types of ChatSockets, the agreement of the hub's four maps whatever *)
(* overtakes whatever, and what the clients know once all is quiet, for    *)
(* any sockets, profiles, conversations and bounds.                        *)
(*                                                                         *)
(* The last needs to know, while handlers are under way, which of them     *)
(* will yet correct what a client was told: Settling says so, of the       *)
(* behaviours where no handler overtakes another and no send throws.       *)
(***************************************************************************)
EXTENDS ChatSockets, SequenceTheorems, TLAPS

-----------------------------------------------------------------------------
(* The operations of the hub                                               *)

\* add: the hub keeps its types and its maps agree when they did.
LEMMA AddKeeps ==
  ASSUME NEW h \in HubType, NEW s \in Sockets
  PROVE  Add(h, s) \in HubType /\ (Agree(h) => Agree(Add(h, s)))
<1>1. ProfileOf[s] \in Profiles
  BY SocketsAssumption
<1>2. Add(h, s) \in HubType
  BY <1>1 DEF Add, HubType
<1>3. ASSUME Agree(h) PROVE Agree(Add(h, s))
  <2>1. \A p \in Profiles : Add(h, s).byProfile[p] = {r \in Add(h, s).registered : ProfileOf[r] = p}
    BY <1>1, <1>3 DEF Add, HubType, Agree
  <2>2. /\ Add(h, s).bySocket = h.bySocket
        /\ Add(h, s).byConversation = h.byConversation
        /\ h.registered \subseteq Add(h, s).registered
    BY DEF Add, HubType
  <2> QED
    BY <1>3, <2>1, <2>2 DEF Agree
<1> QED
  BY <1>2, <1>3

\* remove, of any set of sockets.
LEMMA RemoveKeeps ==
  ASSUME NEW h \in HubType, NEW S
  PROVE  Remove(h, S) \in HubType /\ (Agree(h) => Agree(Remove(h, S)))
<1> DEFINE gone == S \cap h.registered
           r == Remove(h, S)
<1>1. /\ r.registered = h.registered \ gone
      /\ \A p \in Profiles : r.byProfile[p] = h.byProfile[p] \ gone
      /\ \A s \in Sockets : r.bySocket[s] = IF s \in gone THEN {} ELSE h.bySocket[s]
      /\ \A c \in Conversations : r.byConversation[c] =
            {s \in h.byConversation[c] : ~(s \in gone /\ c \in h.bySocket[s])}
  BY DEF Remove
<1>2. r \in HubType
  BY DEF Remove, HubType
<1>3. ASSUME Agree(h) PROVE Agree(r)
  <2>1. \A p \in Profiles : r.byProfile[p] = {s \in r.registered : ProfileOf[s] = p}
    BY <1>1, <1>3 DEF Agree
  <2>2. \A s \in Sockets, c \in Conversations : c \in r.bySocket[s] <=> s \in r.byConversation[c]
    BY <1>1, <1>3 DEF Agree
  <2>3. \A s \in Sockets : r.bySocket[s] # {} => s \in r.registered
    BY <1>1, <1>3 DEF Agree
  <2> QED
    BY <2>1, <2>2, <2>3 DEF Agree
<1> QED
  BY <1>2, <1>3

\* subscribe: a socket that was removed meanwhile gets no subscription.
LEMMA SubscribeKeeps ==
  ASSUME NEW h \in HubType, NEW s \in Sockets, NEW c \in Conversations
  PROVE  Subscribe(h, s, c) \in HubType /\ (Agree(h) => Agree(Subscribe(h, s, c)))
<1>1. CASE s \notin h.registered
  BY <1>1 DEF Subscribe
<1>2. CASE s \in h.registered
  <2> DEFINE r == Subscribe(h, s, c)
  <2>1. /\ r.registered = h.registered
        /\ r.byProfile = h.byProfile
        /\ \A q \in Sockets : r.bySocket[q] = IF q = s THEN h.bySocket[s] \cup {c} ELSE h.bySocket[q]
        /\ \A d \in Conversations : r.byConversation[d] =
              IF d = c THEN h.byConversation[c] \cup {s} ELSE h.byConversation[d]
    BY <1>2 DEF Subscribe, HubType
  <2>2. r \in HubType
    BY <1>2 DEF Subscribe, HubType
  <2>3. Agree(h) => Agree(r)
    BY <1>2, <2>1 DEF Agree
  <2> QED
    BY <2>2, <2>3
<1> QED
  BY <1>1, <1>2

\* unsubscribe.
LEMMA UnsubscribeKeeps ==
  ASSUME NEW h \in HubType, NEW s \in Sockets, NEW c \in Conversations
  PROVE  Unsubscribe(h, s, c) \in HubType /\ (Agree(h) => Agree(Unsubscribe(h, s, c)))
<1> DEFINE r == Unsubscribe(h, s, c)
<1>1. /\ r.registered = h.registered
      /\ r.byProfile = h.byProfile
      /\ \A q \in Sockets : r.bySocket[q] = IF q = s THEN h.bySocket[s] \ {c} ELSE h.bySocket[q]
      /\ \A d \in Conversations : r.byConversation[d] =
            IF d = c THEN h.byConversation[c] \ {s} ELSE h.byConversation[d]
  BY DEF Unsubscribe, HubType
<1>2. r \in HubType
  BY DEF Unsubscribe, HubType
<1>3. Agree(h) => Agree(r)
  BY <1>1 DEF Agree
<1> QED
  BY <1>2, <1>3

\* A send prunes sockets with remove.
LEMMA SentKeeps ==
  ASSUME NEW h \in HubType, NEW S
  PROVE  Sent(h, S) \in HubType /\ (Agree(h) => Agree(Sent(h, S)))
BY RemoveKeeps DEF Sent

-----------------------------------------------------------------------------
(* The handlers under way                                                  *)

\* A handler under way, none of whose rows is newer than the rows R.
TaskIn(R) == {t \in TaskType : t.version <= R[t.conv]}

\* TypeOK with its two conjuncts about the handlers as one membership.
LEMMA TasksTyped ==
  tasks \in Seq(TaskIn(rows)) <=>
    /\ tasks \in Seq(TaskType)
    /\ \A i \in 1..Len(tasks) : tasks[i].version <= rows[tasks[i].conv]
<1>1. ASSUME tasks \in Seq(TaskIn(rows))
      PROVE  tasks \in Seq(TaskType) /\ \A i \in 1..Len(tasks) : tasks[i] \in TaskIn(rows)
  BY <1>1, SeqDef DEF TaskIn
<1>2. ASSUME tasks \in Seq(TaskType),
             \A i \in 1..Len(tasks) : tasks[i].version <= rows[tasks[i].conv]
      PROVE  tasks \in Seq(TaskIn(rows))
  <2>1. \A i \in 1..Len(tasks) : tasks[i] \in TaskIn(rows)
    BY <1>2 DEF TaskIn
  <2> QED
    BY <1>2, <2>1, IsASeq
<1> QED
  BY <1>1, <1>2 DEF TaskIn

\* The handlers left when one ends.
LEMMA WithoutTyped ==
  ASSUME NEW S, tasks \in Seq(S), NEW i \in 1..Len(tasks)
  PROVE  Without(i) \in Seq(S)
<1>1. Len(tasks) \in Nat /\ \A j \in 1..Len(tasks) : tasks[j] \in S
  OBVIOUS
<1>2. SubSeq(tasks, 1, i - 1) \in Seq(S) /\ SubSeq(tasks, i + 1, Len(tasks)) \in Seq(S)
  BY <1>1, SubSeqProperties
<1> QED
  BY <1>2, ConcatProperties DEF Without

\* What each handler starts as.
LEMMA NewTasksTyped ==
  ASSUME NEW R \in [Conversations -> Nat]
  PROVE  /\ \A s \in Sockets : OpenTask(s) \in TaskIn(R)
         /\ \A p \in Profiles, o \in Presence : PresenceTask(p, o) \in TaskIn(R)
         /\ \A s \in Sockets, c \in Conversations : SubscribeTask(s, c) \in TaskIn(R)
         /\ \A c \in Conversations, b \in BOOLEAN : UpsertTask(c, b) \in TaskIn(R)
<1>1. \A kind \in {"open", "presence", "subscribe", "upsert"} : Task(kind) \in TaskType /\ Task(kind).version = 0
  <2>1. /\ (CHOOSE s \in Sockets : TRUE) \in Sockets
        /\ (CHOOSE p \in Profiles : TRUE) \in Profiles
        /\ (CHOOSE c \in Conversations : TRUE) \in Conversations
    BY SomeAssumption
  <2> QED
    BY <2>1, BoundsAssumption DEF Task, TaskType, Presence
<1>2. \A s \in Sockets : ProfileOf[s] \in Profiles
  BY SocketsAssumption
<1>3. \A s \in Sockets : OpenTask(s) \in TaskType /\ OpenTask(s).version = 0
  BY <1>1, <1>2 DEF OpenTask, TaskType
<1>4. \A p \in Profiles, o \in Presence : PresenceTask(p, o) \in TaskType /\ PresenceTask(p, o).version = 0
  BY <1>1 DEF PresenceTask, TaskType
<1>5. \A s \in Sockets, c \in Conversations : SubscribeTask(s, c) \in TaskType /\ SubscribeTask(s, c).version = 0
  BY <1>1 DEF SubscribeTask, TaskType
<1>6. \A c \in Conversations, b \in BOOLEAN : UpsertTask(c, b) \in TaskType /\ UpsertTask(c, b).version = 0
  BY <1>1 DEF UpsertTask, TaskType
<1> QED
  BY <1>3, <1>4, <1>5, <1>6 DEF TaskIn, TaskType

\* Handlers typed against some rows are typed against newer ones.
LEMMA RowsGrow ==
  ASSUME NEW R \in [Conversations -> Nat], NEW Q \in [Conversations -> Nat],
         \A c \in Conversations : R[c] <= Q[c],
         NEW q \in Seq(TaskIn(R))
  PROVE  q \in Seq(TaskIn(Q))
<1>1. \A t \in TaskIn(R) : t \in TaskIn(Q)
  BY BoundsAssumption DEF TaskIn, TaskType
<1>2. \A i \in 1..Len(q) : q[i] \in TaskIn(Q)
  BY <1>1
<1> QED
  BY <1>2, IsASeq

-----------------------------------------------------------------------------
(* Types                                                                   *)

\* The conjuncts of TypeOK about the handlers as one.
Typed ==
  /\ hub \in HubType
  /\ conn \in [Sockets -> {"new", "open", "closed", "gone"}]
  /\ rows \in [Conversations -> 0..MaxVersion]
  /\ tasks \in Seq(TaskIn(rows))
  /\ told \in [Sockets -> SUBSET Conversations]
  /\ view \in [Sockets -> [Profiles -> Presence]]
  /\ shown \in [Sockets -> [Conversations -> 0..MaxVersion]]
  /\ \A s \in Sockets, c \in Conversations : shown[s][c] <= rows[c]
  /\ env \in [serial : BOOLEAN, throws : BOOLEAN]

LEMMA TypedIsTypeOK == Typed <=> TypeOK
BY TasksTyped DEF Typed, TypeOK

LEMMA InitTyped == Init => Typed
<1> SUFFICES ASSUME Init PROVE Typed
  OBVIOUS
<1>1. hub \in HubType
  BY DEF Init, EmptyHub, HubType
<1>2. rows \in [Conversations -> 0..MaxVersion]
  BY BoundsAssumption DEF Init
<1>3. NothingSeen \in [Profiles -> Presence] /\ NothingShown \in [Conversations -> 0..MaxVersion]
  BY BoundsAssumption DEF NothingSeen, NothingShown, Presence
<1>4. \A s \in Sockets, c \in Conversations : shown[s][c] <= rows[c]
  BY <1>2 DEF Init, NothingShown
<1>5. tasks \in Seq(TaskIn(rows))
  BY DEF Init
<1> QED
  BY <1>1, <1>2, <1>3, <1>4, <1>5 DEF Init, Typed

\* What a handler that moves holds, and what is left without it.
LEMMA AtTask ==
  ASSUME Typed, NEW i \in 1..Len(tasks)
  PROVE  /\ tasks[i] \in TaskType
         /\ tasks[i].version <= rows[tasks[i].conv]
         /\ Without(i) \in Seq(TaskIn(rows))
BY WithoutTyped DEF Typed, TaskIn

LEMMA OnlineTyped ==
  ASSUME NEW h \in HubType, NEW p \in Profiles
  PROVE  Online(h, p) \in Presence
BY DEF Online, Presence

LEMMA MatchedTyped ==
  ASSUME NEW c \in Conversations, NEW p
  PROVE  MatchedProfile(c, p) \in Profiles
BY EndsAssumption DEF MatchedProfile

\* Every step keeps the types.
LEMMA NextTyped == Typed /\ [Next]_vars => Typed'
<1> SUFFICES ASSUME Typed, [Next]_vars PROVE Typed'
  OBVIOUS
<1> USE BoundsAssumption DEF Typed
<1>0. rows \in [Conversations -> Nat] /\ Len(tasks) \in Nat
  OBVIOUS
<1>1. ASSUME NEW s \in Sockets, Connect(s) PROVE Typed'
  <2>1. OpenTask(s) \in TaskIn(rows)
    BY <1>0, NewTasksTyped
  <2> QED
    BY <1>1, <2>1 DEF Connect
<1>2. ASSUME NEW s \in Sockets, Vanish(s) PROVE Typed'
  <2>1. NothingSeen \in [Profiles -> Presence] /\ NothingShown \in [Conversations -> 0..MaxVersion]
    BY DEF NothingSeen, NothingShown, Presence
  <2>2. (\A r \in Sockets, c \in Conversations : shown[r][c] <= rows[c])'
    BY <1>2 DEF Vanish, NothingShown
  <2> QED
    BY <1>2, <2>1, <2>2 DEF Vanish
<1>3. ASSUME NEW s \in Sockets, Close(s) PROVE Typed'
  <2>1. ProfileOf[s] \in Profiles /\ "offline" \in Presence
    BY SocketsAssumption DEF Presence
  <2>2. PresenceTask(ProfileOf[s], "offline") \in TaskIn(rows)
    BY <1>0, <2>1, NewTasksTyped
  <2>3. tasks' \in Seq(TaskIn(rows))
    BY <1>3, <2>2 DEF Close
  <2> QED
    BY <1>3, <2>3, RemoveKeeps DEF Close
<1>4. ASSUME NEW s \in Sockets, NEW c \in Conversations, AskSubscribe(s, c) PROVE Typed'
  <2>1. SubscribeTask(s, c) \in TaskIn(rows)
    BY <1>0, NewTasksTyped
  <2> QED
    BY <1>4, <2>1 DEF AskSubscribe
<1>5. ASSUME NEW s \in Sockets, NEW c \in Conversations, AskUnsubscribe(s, c) PROVE Typed'
  BY <1>5, UnsubscribeKeeps DEF AskUnsubscribe
<1>6. ASSUME NEW s \in Sockets, NEW c \in Conversations, Typing(s, c) PROVE Typed'
  BY <1>6, SentKeeps DEF Typing
<1>7. ASSUME NEW c \in Conversations, NEW kind \in {"like", "send", "read", "react"}, Mutate(c, kind)
      PROVE  Typed'
  <2>1. rows' \in [Conversations -> 0..MaxVersion] /\ \A d \in Conversations : rows[d] <= rows'[d]
    BY <1>7 DEF Mutate
  <2>2. rows' \in [Conversations -> Nat]
    BY <2>1
  <2>3. tasks \in Seq(TaskIn(rows'))
    BY <1>0, <2>1, <2>2, RowsGrow
  <2>4. UpsertTask(c, kind = "read") \in TaskIn(rows')
    BY <2>2, NewTasksTyped
  <2>5. tasks' \in Seq(TaskIn(rows'))
    BY <1>7, <2>3, <2>4 DEF Mutate
  <2>6. (\A r \in Sockets, d \in Conversations : shown[r][d] <= rows[d])'
    BY <1>7, <2>1 DEF Mutate
  <2>7. hub' \in HubType
    BY <1>7, SentKeeps DEF Mutate
  <2> QED
    BY <1>7, <2>1, <2>5, <2>6, <2>7 DEF Mutate
<1>8. ASSUME NEW i \in 1..Len(tasks), Read(i) PROVE Typed'
  <2> DEFINE t == tasks[i]
             peers == IF t.kind \in {"open", "presence"} THEN Peers(t.profile) ELSE {}
             version == IF t.kind \in {"subscribe", "upsert"} THEN rows[t.conv] ELSE 0
             u == [t EXCEPT !.read = TRUE, !.peers = peers, !.version = version]
  <2>1. t \in TaskType
    BY AtTask
  <2>2. t.conv \in Conversations /\ peers \in SUBSET Profiles
    BY <2>1 DEF Peers, TaskType
  <2>3. version \in 0..MaxVersion /\ version <= rows[t.conv]
    BY <2>2
  <2>4. u \in TaskType /\ u.conv = t.conv /\ u.version = version
    <3> HIDE DEF t, peers, version
    <3> QED
      BY <2>1, <2>2, <2>3 DEF TaskType
  <2>5. u \in TaskIn(rows)
    BY <2>3, <2>4 DEF TaskIn
  <2>6. tasks' = [tasks EXCEPT ![i] = u]
    BY <1>8 DEF Read
  <2>7. tasks' \in Seq(TaskIn(rows))
    BY <2>5, <2>6
  <2> QED
    BY <1>8, <2>7 DEF Read
<1>9. ASSUME NEW i \in 1..Len(tasks), Refuse(i) PROVE Typed'
  <2>1. Without(i) \in Seq(TaskIn(rows))
    BY AtTask
  <2> QED
    BY <1>9, <2>1 DEF Refuse
<1>10. ASSUME NEW i \in 1..Len(tasks), Register(i) PROVE Typed'
  <2> DEFINE s == tasks[i].socket
  <2>1. s \in Sockets /\ ProfileOf[s] \in Profiles
    BY AtTask, SocketsAssumption DEF TaskType
  <2>2. Without(i) \in Seq(TaskIn(rows)) /\ PresenceTask(ProfileOf[s], "online") \in TaskIn(rows)
    BY <1>0, <2>1, AtTask, NewTasksTyped DEF Presence
  <2>3. tasks' \in Seq(TaskIn(rows))
    BY <1>10, <2>2 DEF Register
  <2>4. hub' \in HubType
    BY <1>10, <2>1, AddKeeps DEF Register
  <2>5. view' \in [Sockets -> [Profiles -> Presence]]
    BY <1>10, OnlineTyped DEF Register
  <2> QED
    BY <1>10, <2>3, <2>4, <2>5 DEF Register
<1>11. ASSUME NEW i \in 1..Len(tasks), AnnouncePresence(i) PROVE Typed'
  <2>1. tasks[i] \in TaskType /\ Without(i) \in Seq(TaskIn(rows))
    BY AtTask
  <2>2. view' \in [Sockets -> [Profiles -> Presence]]
    BY <1>11, <2>1 DEF AnnouncePresence, TaskType
  <2>3. hub' \in HubType
    BY <1>11, SentKeeps DEF AnnouncePresence
  <2> QED
    BY <1>11, <2>1, <2>2, <2>3 DEF AnnouncePresence
<1>12. ASSUME NEW i \in 1..Len(tasks), AnswerSubscribe(i) PROVE Typed'
  <2> DEFINE t == tasks[i]
             q == MatchedProfile(t.conv, ProfileOf[t.socket])
  <2>1. t \in TaskType /\ t.version <= rows[t.conv] /\ Without(i) \in Seq(TaskIn(rows))
    BY AtTask
  <2>2. t.socket \in Sockets /\ t.conv \in Conversations /\ t.version \in 0..MaxVersion
    BY <2>1 DEF TaskType
  <2>3. hub' \in HubType
    BY <1>12, <2>2, SubscribeKeeps DEF AnswerSubscribe
  <2>4. Online(hub, q) \in Presence
    BY <2>2, MatchedTyped, OnlineTyped
  <2>5. view' \in [Sockets -> [Profiles -> Presence]]
    BY <1>12, <2>4 DEF AnswerSubscribe
  <2>6. /\ shown' \in [Sockets -> [Conversations -> 0..MaxVersion]]
        /\ \A r \in Sockets, c \in Conversations : shown'[r][c] <= rows[c]
    BY <1>12, <2>1, <2>2 DEF AnswerSubscribe
  <2>7. told' \in [Sockets -> SUBSET Conversations]
    BY <1>12, <2>2 DEF AnswerSubscribe
  <2> QED
    BY <1>12, <2>1, <2>3, <2>5, <2>6, <2>7 DEF AnswerSubscribe
<1>13. ASSUME NEW i \in 1..Len(tasks), Upsert(i) PROVE Typed'
  <2> DEFINE t == tasks[i]
             q == MatchedProfile(t.conv, NextParticipant(t))
             S == hub.byProfile[NextParticipant(t)]
  <2>1. t \in TaskType /\ t.version <= rows[t.conv] /\ Without(i) \in Seq(TaskIn(rows))
    BY AtTask
  <2>2. t.conv \in Conversations /\ t.version \in 0..MaxVersion
    BY <2>1 DEF TaskType
  <2>3. Sent(hub, S) \in HubType
    BY SentKeeps
  <2>4. hub' \in HubType
    BY <1>13, <2>3, SentKeeps DEF Upsert
  <2>5. Online(Sent(hub, S), q) \in Presence
    BY <2>2, <2>3, MatchedTyped, OnlineTyped
  <2>6. view' \in [Sockets -> [Profiles -> Presence]]
    BY <1>13, <2>5 DEF Upsert
  <2>7. /\ shown' \in [Sockets -> [Conversations -> 0..MaxVersion]]
        /\ \A r \in Sockets, c \in Conversations : shown'[r][c] <= rows[c]
    BY <1>13, <2>1, <2>2 DEF Upsert
  <2>8. [tasks EXCEPT ![i].turn = 2, ![i].read = FALSE] \in Seq(TaskIn(rows))
    <3> DEFINE u == [t EXCEPT !.turn = 2, !.read = FALSE]
    <3>1. u \in TaskIn(rows)
      BY <2>1 DEF TaskIn, TaskType
    <3>2. [tasks EXCEPT ![i] = u] \in Seq(TaskIn(rows))
      BY <3>1
    <3> QED
      BY <3>2
  <2>9. tasks' \in Seq(TaskIn(rows))
    BY <1>13, <2>1, <2>8 DEF Upsert
  <2> QED
    BY <1>13, <2>4, <2>6, <2>7, <2>9 DEF Upsert
<1>14. CASE UNCHANGED vars
  BY <1>14 DEF vars
<1> QED
  BY <1>1, <1>2, <1>3, <1>4, <1>5, <1>6, <1>7, <1>8, <1>9, <1>10, <1>11, <1>12, <1>13, <1>14 DEF Next

\* Every state of the chat sockets is well typed, and neither a client nor a
\* handler ever holds a version of a conversation that was not written.
THEOREM SocketsTyped == Spec => []TypeOK
<1>1. Spec => []Typed
  BY InitTyped, NextTyped, PTL DEF Spec
<1> QED
  BY <1>1, TypedIsTypeOK, PTL

-----------------------------------------------------------------------------
(* The maps of the hub agree                                               *)

\* Only the five operations of the hub change it.
LEMMA NextAgree == Typed /\ Agree(hub) /\ [Next]_vars => Agree(hub)'
<1> SUFFICES ASSUME Typed, Agree(hub), [Next]_vars PROVE Agree(hub')
  OBVIOUS
<1>0. hub \in HubType
  BY DEF Typed
<1>1. CASE hub' = hub
  BY <1>1
<1>2. ASSUME NEW s \in Sockets, Close(s) PROVE Agree(hub')
  BY <1>0, <1>2, RemoveKeeps DEF Close
<1>3. ASSUME NEW s \in Sockets, NEW c \in Conversations, AskUnsubscribe(s, c) PROVE Agree(hub')
  BY <1>0, <1>3, UnsubscribeKeeps DEF AskUnsubscribe
<1>4. ASSUME NEW s \in Sockets, NEW c \in Conversations, Typing(s, c) PROVE Agree(hub')
  BY <1>0, <1>4, SentKeeps DEF Typing
<1>5. ASSUME NEW c \in Conversations, NEW kind, Mutate(c, kind) PROVE Agree(hub')
  BY <1>0, <1>5, SentKeeps DEF Mutate
<1>6. ASSUME NEW i \in 1..Len(tasks), Register(i) PROVE Agree(hub')
  <2>1. tasks[i].socket \in Sockets
    BY AtTask DEF TaskType
  <2> QED
    BY <1>0, <1>6, <2>1, AddKeeps DEF Register
<1>7. ASSUME NEW i \in 1..Len(tasks), AnnouncePresence(i) PROVE Agree(hub')
  BY <1>0, <1>7, SentKeeps DEF AnnouncePresence
<1>8. ASSUME NEW i \in 1..Len(tasks), AnswerSubscribe(i) PROVE Agree(hub')
  <2>1. tasks[i].socket \in Sockets /\ tasks[i].conv \in Conversations
    BY AtTask DEF TaskType
  <2> QED
    BY <1>0, <1>8, <2>1, SubscribeKeeps DEF AnswerSubscribe
<1>9. ASSUME NEW i \in 1..Len(tasks), Upsert(i) PROVE Agree(hub')
  <2> DEFINE after == Sent(hub, hub.byProfile[NextParticipant(tasks[i])])
  <2>1. after \in HubType /\ Agree(after)
    BY <1>0, SentKeeps
  <2> QED
    BY <1>9, <2>1, SentKeeps DEF Upsert
<1> QED
  BY <1>1, <1>2, <1>3, <1>4, <1>5, <1>6, <1>7, <1>8, <1>9
     DEF Next, vars, Connect, Vanish, AskSubscribe, Read, Refuse

\* Whatever handlers end after their socket was closed or pruned, and in
\* whatever order: the sockets of a profile are the registered ones, the two
\* subscription maps mirror each other, and only registered sockets subscribe.
THEOREM HubIndexesAgree == Spec => []IndexesAgree
<1>1. Init => Agree(hub)
  BY DEF Init, EmptyHub, Agree
<1>2. Spec => [](Typed /\ Agree(hub))
  <2>1. Init => Typed /\ Agree(hub)
    BY <1>1, InitTyped
  <2>2. Typed /\ Agree(hub) /\ [Next]_vars => (Typed /\ Agree(hub))'
    BY NextTyped, NextAgree
  <2> QED
    BY <2>1, <2>2, PTL DEF Spec
<1>3. Typed /\ Agree(hub) => IndexesAgree
  BY DEF IndexesAgree
<1> QED
  BY <1>2, <1>3, PTL

-----------------------------------------------------------------------------
(* What the clients are told                                               *)

\* Handlers are served one by one, and no send throws.
Calm == env.serial /\ ~ env.throws

\* The handlers of a queue, and those of it that wait for the first to end.
Handlers(q) == {q[i] : i \in 1..Len(q)}
Waiting(q) == {q[i] : i \in 2..Len(q)}

EndsIn(c, p) == p \in {Ends[c][1], Ends[c][2]}

\* The handler has yet to send the conversation to socket s.
ToTell(t, s) == t.kind = "upsert" /\ \E k \in t.turn..2 : Ends[t.conv][k] = ProfileOf[s]

\* The handler will tell s whether p is online.
TellsPresence(t, s, p) ==
  \/ t.kind = "presence" /\ t.profile = p /\ (t.read => ProfileOf[s] \in t.peers)
  \/ t.kind = "open" /\ t.socket = s /\ (t.read => p \in t.peers)
  \/ ToTell(t, s) /\ Ends[t.conv] \in {<<ProfileOf[s], p>>, <<p, ProfileOf[s]>>}

\* The handler will tell s the version of c that there is now.
TellsVersion(t, s, c) == ToTell(t, s) /\ t.conv = c /\ (t.read => t.version = rows[c])

OnlyFirst == \A t \in Waiting(tasks) : ~ t.read /\ t.turn = 1

OwnProfile == \A t \in Handlers(tasks) : t.kind = "open" => t.profile = ProfileOf[t.socket]

\* The last handler that will announce a profile announces what is so.
PresenceLast(q, h) ==
  \A i \in 1..Len(q) : q[i].kind = "presence" =>
    \/ q[i].online = Online(h, q[i].profile)
    \/ \E j \in 1..Len(q) : j > i /\ q[j].kind = "presence" /\ q[j].profile = q[i].profile

\* The rows of the first handler may be old by now, but then it is not the last
\* to tell of that conversation.
StaleFollowed ==
  tasks # <<>> /\ tasks[1].read /\ tasks[1].kind \in {"subscribe", "upsert"}
               /\ tasks[1].version # rows[tasks[1].conv] =>
    \E t \in Waiting(tasks) : t.kind = "upsert" /\ t.conv = tasks[1].conv

\* An open socket that is not registered yet will be, and has heard of nothing.
Openings ==
  \A s \in Sockets : conn[s] = "open" /\ s \notin hub.registered =>
    /\ \E t \in Handlers(tasks) : t.kind = "open" /\ t.socket = s
    /\ \A c \in Conversations : shown[s][c] = 0

\* The sockets of connections cn that are registered in reg, or will be before
\* they subscribe; and they subscribe to their own conversations.
SubscribeAfter(q, cn, reg) ==
  \A i \in 1..Len(q) : q[i].kind = "subscribe" =>
    /\ EndsIn(q[i].conv, ProfileOf[q[i].socket])
    /\ cn[q[i].socket] = "open" =>
         \/ q[i].socket \in reg
         \/ \E j \in 1..Len(q) : j < i /\ q[j].kind = "open" /\ q[j].socket = q[i].socket

NewIdle ==
  \A s \in Sockets : conn[s] = "new" =>
    /\ s \notin hub.registered /\ told[s] = {} /\ \A c \in Conversations : shown[s][c] = 0
    /\ \A t \in Handlers(tasks) : t.kind \in {"open", "subscribe"} => t.socket # s

ToldTrue == \A s \in Sockets : conn[s] = "open" => told[s] = hub.bySocket[s]

PresenceKnown ==
  \A s \in Sockets, p \in Profiles : conn[s] = "open" /\ p \in Peers(ProfileOf[s]) =>
    \/ view[s][p] = Online(hub, p)
    \/ \E t \in Handlers(tasks) : TellsPresence(t, s, p)

VersionKnown ==
  \A s \in Sockets, c \in Conversations : conn[s] = "open" /\ shown[s][c] # 0 =>
    /\ EndsIn(c, ProfileOf[s])
    /\ shown[s][c] = rows[c] \/ \E t \in Handlers(tasks) : TellsVersion(t, s, c)

Settling ==
  /\ OnlyFirst /\ OwnProfile /\ PresenceLast(tasks, hub) /\ StaleFollowed
  /\ Openings /\ SubscribeAfter(tasks, conn, hub.registered) /\ NewIdle
  /\ ToldTrue /\ PresenceKnown /\ VersionKnown

ViewInv == Typed /\ Agree(hub) /\ (Calm => Settling)

-----------------------------------------------------------------------------
(* The queue when a handler begins, goes on or ends                        *)

LEMMA QueueAppended ==
  ASSUME NEW q \in Seq(TaskType), NEW t \in TaskType
  PROVE  /\ Handlers(Append(q, t)) = Handlers(q) \cup {t}
         /\ Waiting(q) \subseteq Waiting(Append(q, t))
         /\ Waiting(Append(q, t)) \subseteq Waiting(q) \cup {t}
         /\ q # <<>> => t \in Waiting(Append(q, t)) /\ Append(q, t)[1] = q[1]
         /\ q = <<>> => Append(q, t)[1] = t
<1> DEFINE r == Append(q, t)
<1>1. /\ Len(q) \in Nat /\ Len(r) = Len(q) + 1 /\ r[Len(q) + 1] = t
      /\ \A i \in 1..Len(q) : r[i] = q[i]
  BY AppendProperties, LenProperties
<1>2. q = <<>> <=> Len(q) = 0
  BY EmptySeq
<1> HIDE DEF r
<1>3. Handlers(r) = Handlers(q) \cup {t}
  BY <1>1 DEF Handlers
<1>4. Waiting(q) \subseteq Waiting(r) /\ Waiting(r) \subseteq Waiting(q) \cup {t}
  BY <1>1 DEF Waiting
<1>5. q # <<>> => t \in Waiting(r) /\ r[1] = q[1]
  <2> SUFFICES ASSUME q # <<>> PROVE t \in Waiting(r) /\ r[1] = q[1]
    OBVIOUS
  <2>1. Len(q) + 1 \in 2..Len(r) /\ 1 \in 1..Len(q)
    BY <1>1, <1>2
  <2> QED
    BY <1>1, <2>1 DEF Waiting
<1>6. q = <<>> => r[1] = t
  BY <1>1, <1>2
<1> QED
  BY <1>3, <1>4, <1>5, <1>6 DEF r

\* Where the handlers are once the first has ended.
LEMMA FirstGone ==
  ASSUME tasks \in Seq(TaskType), 1 \in 1..Len(tasks)
  PROVE  /\ Without(1) \in Seq(TaskType) /\ Len(Without(1)) = Len(tasks) - 1
         /\ \A j \in 1 .. Len(tasks) - 1 : Without(1)[j] = tasks[j + 1]
<1>1. Len(tasks) \in Nat
  OBVIOUS
<1>2. SubSeq(tasks, 1, 0) = <<>>
  BY SubSeqEmpty
<1>3. Without(1) = <<>> \o SubSeq(tasks, 2, Len(tasks))
  BY <1>1, <1>2 DEF Without
<1>4. /\ SubSeq(tasks, 2, Len(tasks)) \in Seq(TaskType)
      /\ Len(SubSeq(tasks, 2, Len(tasks))) = Len(tasks) - 1
      /\ \A j \in 1 .. Len(tasks) - 1 : SubSeq(tasks, 2, Len(tasks))[j] = tasks[j + 1]
  BY <1>1, SubSeqProperties
<1>5. Without(1) = SubSeq(tasks, 2, Len(tasks))
  BY <1>3, <1>4, ConcatEmptySeq
<1> QED
  BY <1>4, <1>5

LEMMA QueueLeft ==
  ASSUME tasks \in Seq(TaskType), 1 \in 1..Len(tasks)
  PROVE  /\ Handlers(Without(1)) = Waiting(tasks)
         /\ Waiting(Without(1)) \subseteq Waiting(tasks)
         /\ Without(1) # <<>> => Without(1)[1] \in Waiting(tasks)
<1> DEFINE r == Without(1)
<1>1. /\ r \in Seq(TaskType) /\ Len(r) = Len(tasks) - 1 /\ Len(tasks) \in Nat
      /\ \A j \in 1 .. Len(tasks) - 1 : r[j] = tasks[j + 1]
  BY FirstGone
<1> HIDE DEF r
<1>2. \A j \in 1..Len(r) : j + 1 \in 2..Len(tasks) /\ r[j] = tasks[j + 1]
  BY <1>1
<1>3. \A i \in 2..Len(tasks) : i - 1 \in 1..Len(r) /\ tasks[i] = r[i - 1]
  <2> TAKE i \in 2..Len(tasks)
  <2>1. i - 1 \in 1 .. Len(tasks) - 1 /\ (i - 1) + 1 = i
    BY <1>1
  <2> QED
    BY <1>1, <2>1
<1>4. Handlers(r) = Waiting(tasks)
  <2>1. \A x \in Handlers(r) : x \in Waiting(tasks)
    BY <1>2 DEF Handlers, Waiting
  <2>2. \A x \in Waiting(tasks) : x \in Handlers(r)
    BY <1>3 DEF Handlers, Waiting
  <2> QED
    BY <2>1, <2>2
<1>5. Waiting(r) \subseteq Handlers(r)
  <2>1. \A i \in 2..Len(r) : i \in 1..Len(r)
    BY <1>1
  <2> QED
    BY <2>1 DEF Waiting, Handlers
<1>6. r # <<>> => r[1] \in Handlers(r)
  BY <1>1, EmptySeq DEF Handlers
<1> QED
  BY <1>4, <1>5, <1>6 DEF r

LEMMA QueueUpdated ==
  ASSUME NEW q \in Seq(TaskType), 1 \in 1..Len(q), NEW u \in TaskType
  PROVE  /\ Handlers([q EXCEPT ![1] = u]) = Waiting(q) \cup {u}
         /\ Waiting([q EXCEPT ![1] = u]) = Waiting(q)
         /\ [q EXCEPT ![1] = u][1] = u
<1> DEFINE r == [q EXCEPT ![1] = u]
<1>1. /\ Len(r) = Len(q) /\ Len(q) \in Nat
      /\ r[1] = u /\ \A j \in 2..Len(q) : r[j] = q[j]
  BY ExceptSeq
<1> HIDE DEF r
<1>2. \A i \in 1..Len(q) : i = 1 \/ i \in 2..Len(q)
  BY <1>1
<1>3. \A i \in 2..Len(q) : i \in 1..Len(q)
  BY <1>1
<1>4. Waiting(r) = Waiting(q)
  BY <1>1 DEF Waiting
<1>5. Handlers(r) = Waiting(q) \cup {u}
  BY <1>1, <1>2, <1>3 DEF Handlers, Waiting
<1> QED
  BY <1>1, <1>4, <1>5 DEF r

LEMMA HandlersTyped ==
  ASSUME NEW q \in Seq(TaskType)
  PROVE  \A t \in Handlers(q) : t \in TaskType
<1>1. \A i \in 1..Len(q) : q[i] \in TaskType
  OBVIOUS
<1> QED
  BY <1>1 DEF Handlers

LEMMA QueueFirst ==
  ASSUME NEW q \in Seq(TaskType), 1 \in 1..Len(q)
  PROVE  /\ Handlers(q) = Waiting(q) \cup {q[1]}
         /\ q # <<>>
         /\ q[1] \in TaskType
         /\ \A t \in Waiting(q) : t \in TaskType
<1>1. Len(q) \in Nat
  OBVIOUS
<1>2. \A i \in 1..Len(q) : i = 1 \/ i \in 2..Len(q)
  BY <1>1
<1>3. \A i \in 2..Len(q) : i \in 1..Len(q)
  BY <1>1
<1>4. Handlers(q) = Waiting(q) \cup {q[1]}
  BY <1>2, <1>3 DEF Handlers, Waiting
<1>5. \A i \in 1..Len(q) : q[i] \in TaskType
  OBVIOUS
<1> QED
  BY <1>3, <1>4, <1>5, EmptySeq DEF Waiting

\* What is said of the order of the handlers.
LEMMA PresenceSame ==
  ASSUME NEW q \in Seq(TaskType), NEW h, NEW g, PresenceLast(q, h),
         \A p \in Profiles : Online(g, p) = Online(h, p)
  PROVE  PresenceLast(q, g)
<1>1. \A i \in 1..Len(q) : q[i].profile \in Profiles
  <2>1. \A i \in 1..Len(q) : q[i] \in TaskType
    OBVIOUS
  <2> QED
    BY <2>1 DEF TaskType
<1> QED
  BY <1>1 DEF PresenceLast

LEMMA PresenceAppended ==
  ASSUME NEW q \in Seq(TaskType), NEW t \in TaskType, NEW h, NEW g, PresenceLast(q, h),
         t.kind = "presence" => t.online = Online(g, t.profile),
         \A p \in Profiles : Online(g, p) = Online(h, p) \/ (t.kind = "presence" /\ t.profile = p)
  PROVE  PresenceLast(Append(q, t), g)
<1> DEFINE r == Append(q, t)
<1>1. /\ Len(q) \in Nat /\ Len(r) = Len(q) + 1 /\ r[Len(q) + 1] = t
      /\ \A i \in 1..Len(q) : r[i] = q[i]
  BY AppendProperties, LenProperties
<1>2. \A i \in 1..Len(q) : q[i].profile \in Profiles
  <2>1. \A i \in 1..Len(q) : q[i] \in TaskType
    OBVIOUS
  <2> QED
    BY <2>1 DEF TaskType
<1> HIDE DEF r
<1>3. \A i \in 1..Len(q) : i \in 1..Len(r) /\ Len(r) > i
  BY <1>1
<1>4. Len(r) \in 1..Len(r) /\ r[Len(r)] = t /\ \A i \in 1..Len(r) : i = Len(r) \/ i \in 1..Len(q)
  BY <1>1
<1>5. ASSUME NEW i \in 1..Len(r), r[i].kind = "presence"
      PROVE  \/ r[i].online = Online(g, r[i].profile)
             \/ \E j \in 1..Len(r) : j > i /\ r[j].kind = "presence" /\ r[j].profile = r[i].profile
  <2>1. CASE i = Len(r)
    BY <1>4, <1>5, <2>1
  <2>2. CASE i \in 1..Len(q) /\ t.kind = "presence" /\ t.profile = q[i].profile
    BY <1>1, <1>3, <1>4, <2>2
  <2>3. CASE i \in 1..Len(q) /\ ~ (t.kind = "presence" /\ t.profile = q[i].profile)
    <3>1. Online(g, q[i].profile) = Online(h, q[i].profile) /\ q[i] = r[i]
      BY <1>1, <1>2, <2>3
    <3>2. CASE q[i].online = Online(h, q[i].profile)
      BY <3>1, <3>2
    <3>3. CASE \E j \in 1..Len(q) : j > i /\ q[j].kind = "presence" /\ q[j].profile = q[i].profile
      BY <1>1, <1>3, <3>1, <3>3
    <3> QED
      BY <1>5, <2>3, <3>1, <3>2, <3>3 DEF PresenceLast
  <2> QED
    BY <1>4, <2>1, <2>2, <2>3
<1> QED
  BY <1>5 DEF PresenceLast, r

LEMMA PresenceLeft ==
  ASSUME tasks \in Seq(TaskType), 1 \in 1..Len(tasks), NEW h, PresenceLast(tasks, h)
  PROVE  PresenceLast(Without(1), h)
<1> DEFINE r == Without(1)
<1>1. /\ r \in Seq(TaskType) /\ Len(r) = Len(tasks) - 1 /\ Len(tasks) \in Nat
      /\ \A j \in 1 .. Len(tasks) - 1 : r[j] = tasks[j + 1]
  BY FirstGone
<1> HIDE DEF r
<1>2. \A j \in 1..Len(r) : j + 1 \in 1..Len(tasks) /\ r[j] = tasks[j + 1]
  BY <1>1
<1>3. ASSUME NEW i \in 1..Len(r), NEW j \in 1..Len(tasks), j > i + 1
      PROVE  j - 1 \in 1..Len(r) /\ j - 1 > i /\ tasks[j] = r[j - 1]
  <2>1. j - 1 \in 1 .. Len(tasks) - 1 /\ (j - 1) + 1 = j /\ j - 1 > i
    BY <1>1, <1>3
  <2> QED
    BY <1>1, <2>1
<1>4. ASSUME NEW i \in 1..Len(r), r[i].kind = "presence"
      PROVE  \/ r[i].online = Online(h, r[i].profile)
             \/ \E j \in 1..Len(r) : j > i /\ r[j].kind = "presence" /\ r[j].profile = r[i].profile
  <2>1. \/ r[i].online = Online(h, r[i].profile)
        \/ \E j \in 1..Len(tasks) : j > i + 1 /\ tasks[j].kind = "presence" /\ tasks[j].profile = r[i].profile
    <3>1. i + 1 \in 1..Len(tasks) /\ tasks[i + 1] = r[i]
      BY <1>2
    <3> DEFINE n == i + 1
    <3> HIDE DEF n
    <3>2. n \in 1..Len(tasks) /\ tasks[n] = r[i]
      BY <3>1 DEF n
    <3>3. \/ r[i].online = Online(h, r[i].profile)
          \/ \E j \in 1..Len(tasks) : j > n /\ tasks[j].kind = "presence" /\ tasks[j].profile = r[i].profile
      BY <1>4, <3>2 DEF PresenceLast
    <3> QED
      BY <3>3 DEF n
  <2>2. ASSUME NEW j \in 1..Len(tasks), j > i + 1, tasks[j].kind = "presence",
               tasks[j].profile = r[i].profile
        PROVE  \E k \in 1..Len(r) : k > i /\ r[k].kind = "presence" /\ r[k].profile = r[i].profile
    BY <1>3, <2>2
  <2> QED
    BY <2>1, <2>2
<1> QED
  BY <1>4 DEF PresenceLast, r

LEMMA PresenceUpdated ==
  ASSUME NEW q \in Seq(TaskType), 1 \in 1..Len(q), NEW u \in TaskType, NEW h, PresenceLast(q, h),
         u.kind = q[1].kind, u.profile = q[1].profile, u.online = q[1].online
  PROVE  PresenceLast([q EXCEPT ![1] = u], h)
<1> DEFINE r == [q EXCEPT ![1] = u]
<1>1. Len(r) = Len(q) /\ \A j \in 1..Len(q) : r[j] = IF j = 1 THEN u ELSE q[j]
  BY ExceptSeq
<1> HIDE DEF r
<1>2. \A j \in 1..Len(q) : r[j].kind = q[j].kind /\ r[j].profile = q[j].profile /\ r[j].online = q[j].online
  BY <1>1
<1>3. PresenceLast(r, h)
  BY <1>1, <1>2 DEF PresenceLast
<1> QED
  BY <1>3 DEF r

LEMMA SubscribeSame ==
  ASSUME NEW q \in Seq(TaskType), NEW cn, NEW reg, NEW dn, NEW ref, SubscribeAfter(q, cn, reg),
         \A t \in Handlers(q) : t.kind = "subscribe" /\ dn[t.socket] = "open" =>
           cn[t.socket] = "open" /\ (t.socket \in reg => t.socket \in ref)
  PROVE  SubscribeAfter(q, dn, ref)
<1>1. \A i \in 1..Len(q) : q[i] \in Handlers(q)
  BY DEF Handlers
<1> QED
  BY <1>1 DEF SubscribeAfter

LEMMA SubscribeAppended ==
  ASSUME NEW q \in Seq(TaskType), NEW t \in TaskType, NEW cn, NEW reg, SubscribeAfter(q, cn, reg),
         t.kind = "subscribe" =>
           /\ EndsIn(t.conv, ProfileOf[t.socket])
           /\ cn[t.socket] = "open" =>
                \/ t.socket \in reg
                \/ \E x \in Handlers(q) : x.kind = "open" /\ x.socket = t.socket
  PROVE  SubscribeAfter(Append(q, t), cn, reg)
<1> DEFINE r == Append(q, t)
<1>1. /\ Len(q) \in Nat /\ Len(r) = Len(q) + 1 /\ r[Len(q) + 1] = t
      /\ \A i \in 1..Len(q) : r[i] = q[i]
  BY AppendProperties, LenProperties
<1> HIDE DEF r
<1>2. \A i \in 1..Len(q) : i \in 1..Len(r) /\ i < Len(r)
  BY <1>1
<1>3. r[Len(r)] = t /\ \A i \in 1..Len(r) : i = Len(r) \/ i \in 1..Len(q)
  BY <1>1
<1>4. ASSUME NEW i \in 1..Len(r), r[i].kind = "subscribe"
      PROVE  /\ EndsIn(r[i].conv, ProfileOf[r[i].socket])
             /\ cn[r[i].socket] = "open" =>
                  \/ r[i].socket \in reg
                  \/ \E j \in 1..Len(r) : j < i /\ r[j].kind = "open" /\ r[j].socket = r[i].socket
  <2>1. CASE i = Len(r)
    <3>1. \A x \in Handlers(q) : \E j \in 1..Len(r) : j < i /\ r[j] = x
      BY <1>1, <1>2, <2>1 DEF Handlers
    <3> QED
      BY <1>3, <1>4, <2>1, <3>1
  <2>2. CASE i \in 1..Len(q)
    BY <1>1, <1>2, <1>4, <2>2 DEF SubscribeAfter
  <2> QED
    BY <1>3, <2>1, <2>2
<1> QED
  BY <1>4 DEF SubscribeAfter, r

LEMMA SubscribeLeft ==
  ASSUME tasks \in Seq(TaskType), 1 \in 1..Len(tasks), NEW cn, NEW reg, SubscribeAfter(tasks, cn, reg),
         tasks[1].kind = "open" => cn[tasks[1].socket] # "open" \/ tasks[1].socket \in reg
  PROVE  SubscribeAfter(Without(1), cn, reg)
<1> DEFINE r == Without(1)
<1>1. /\ r \in Seq(TaskType) /\ Len(r) = Len(tasks) - 1 /\ Len(tasks) \in Nat
      /\ \A j \in 1 .. Len(tasks) - 1 : r[j] = tasks[j + 1]
  BY FirstGone
<1> HIDE DEF r
<1>2. \A j \in 1..Len(r) : j + 1 \in 1..Len(tasks) /\ r[j] = tasks[j + 1]
  BY <1>1
<1>3. ASSUME NEW i \in 1..Len(r), NEW j \in 1..Len(tasks), j < i + 1, j # 1
      PROVE  j - 1 \in 1..Len(r) /\ j - 1 < i /\ tasks[j] = r[j - 1]
  <2>1. j - 1 \in 1 .. Len(tasks) - 1 /\ (j - 1) + 1 = j /\ j - 1 < i
    BY <1>1, <1>3
  <2> QED
    BY <1>1, <2>1
<1>4. ASSUME NEW i \in 1..Len(r), r[i].kind = "subscribe"
      PROVE  /\ EndsIn(r[i].conv, ProfileOf[r[i].socket])
             /\ cn[r[i].socket] = "open" =>
                  \/ r[i].socket \in reg
                  \/ \E j \in 1..Len(r) : j < i /\ r[j].kind = "open" /\ r[j].socket = r[i].socket
  <2>1. /\ EndsIn(r[i].conv, ProfileOf[r[i].socket])
        /\ cn[r[i].socket] = "open" =>
             \/ r[i].socket \in reg
             \/ \E j \in 1..Len(tasks) : j < i + 1 /\ tasks[j].kind = "open" /\ tasks[j].socket = r[i].socket
    BY <1>2, <1>4 DEF SubscribeAfter
  <2>2. ASSUME NEW j \in 1..Len(tasks), j < i + 1, tasks[j].kind = "open", tasks[j].socket = r[i].socket,
               cn[r[i].socket] = "open", r[i].socket \notin reg
        PROVE  \E k \in 1..Len(r) : k < i /\ r[k].kind = "open" /\ r[k].socket = r[i].socket
    <3>1. j # 1
      BY <2>2
    <3> QED
      BY <1>3, <2>2, <3>1
  <2> QED
    BY <2>1, <2>2
<1> QED
  BY <1>4 DEF SubscribeAfter, r

LEMMA SubscribeUpdated ==
  ASSUME NEW q \in Seq(TaskType), 1 \in 1..Len(q), NEW u \in TaskType, NEW cn, NEW reg,
         SubscribeAfter(q, cn, reg), u.kind = q[1].kind, u.socket = q[1].socket, u.conv = q[1].conv
  PROVE  SubscribeAfter([q EXCEPT ![1] = u], cn, reg)
<1> DEFINE r == [q EXCEPT ![1] = u]
<1>1. Len(r) = Len(q) /\ \A j \in 1..Len(q) : r[j] = IF j = 1 THEN u ELSE q[j]
  BY ExceptSeq
<1> HIDE DEF r
<1>2. \A j \in 1..Len(q) : r[j].kind = q[j].kind /\ r[j].socket = q[j].socket /\ r[j].conv = q[j].conv
  BY <1>1
<1>3. SubscribeAfter(r, cn, reg)
  BY <1>1, <1>2 DEF SubscribeAfter
<1> QED
  BY <1>3 DEF r

\* A socket that is open when its subscription is answered is registered.
LEMMA SubscribeFirst ==
  ASSUME NEW q \in Seq(TaskType), 1 \in 1..Len(q), NEW cn, NEW reg, SubscribeAfter(q, cn, reg),
         q[1].kind = "subscribe"
  PROVE  /\ EndsIn(q[1].conv, ProfileOf[q[1].socket])
         /\ cn[q[1].socket] = "open" => q[1].socket \in reg
BY DEF SubscribeAfter

\* No send throws: nobody is pruned.
LEMMA CalmSent ==
  ASSUME ~ env.throws, NEW h \in HubType, NEW S
  PROVE  Sent(h, S) = h
<1>1. Sent(h, S) = Remove(h, {})
  BY DEF Sent, Throws
<1> DEFINE r == Remove(h, {})
<1>2. /\ r.registered = h.registered
      /\ r.byProfile = h.byProfile
      /\ r.bySocket = h.bySocket
      /\ r.byConversation = h.byConversation
  BY DEF Remove, HubType
<1>3. r \in HubType
  BY RemoveKeeps
<1>4. r = h
  <2> HIDE DEF r
  <2> QED
    BY <1>2, <1>3 DEF HubType
<1> QED
  BY <1>1, <1>4

-----------------------------------------------------------------------------
(* Each step keeps what the clients are told                               *)

Quiet == Typed /\ Agree(hub) /\ Calm /\ Settling

\* Who is registered, online and subscribed after each operation of the hub.
LEMMA AddTold ==
  ASSUME NEW h \in HubType, NEW s \in Sockets
  PROVE  /\ Add(h, s).registered = h.registered \cup {s}
         /\ Add(h, s).bySocket = h.bySocket
         /\ Online(Add(h, s), ProfileOf[s]) = "online"
         /\ \A p \in Profiles \ {ProfileOf[s]} : Online(Add(h, s), p) = Online(h, p)
<1>1. ProfileOf[s] \in Profiles
  BY SocketsAssumption
<1> DEFINE r == Add(h, s)
<1>2. /\ r.registered = h.registered \cup {s} /\ r.bySocket = h.bySocket
      /\ r.byProfile[ProfileOf[s]] = h.byProfile[ProfileOf[s]] \cup {s}
      /\ \A p \in Profiles \ {ProfileOf[s]} : r.byProfile[p] = h.byProfile[p]
  BY <1>1 DEF Add, HubType
<1> HIDE DEF r
<1>3. Online(r, ProfileOf[s]) = "online" /\ \A p \in Profiles \ {ProfileOf[s]} : Online(r, p) = Online(h, p)
  BY <1>2 DEF Online
<1> QED
  BY <1>2, <1>3 DEF r

LEMMA RemoveTold ==
  ASSUME NEW h \in HubType, Agree(h), NEW s \in Sockets
  PROVE  /\ Remove(h, {s}).registered = h.registered \ {s}
         /\ \A q \in Sockets \ {s} : Remove(h, {s}).bySocket[q] = h.bySocket[q]
         /\ \A p \in Profiles \ {ProfileOf[s]} : Online(Remove(h, {s}), p) = Online(h, p)
         /\ \/ Remove(h, {s}).byProfile[ProfileOf[s]] # {}
            \/ s \notin h.registered
            => Online(Remove(h, {s}), ProfileOf[s]) = Online(h, ProfileOf[s])
         /\ Remove(h, {s}).byProfile[ProfileOf[s]] = {} => Online(Remove(h, {s}), ProfileOf[s]) = "offline"
<1>1. ProfileOf[s] \in Profiles
  BY SocketsAssumption
<1> DEFINE r == Remove(h, {s})
<1>2. /\ r.registered = h.registered \ {s}
      /\ \A q \in Sockets \ {s} : r.bySocket[q] = h.bySocket[q]
      /\ \A p \in Profiles : r.byProfile[p] = h.byProfile[p] \ ({s} \cap h.registered)
  BY DEF Remove
<1>3. \A p \in Profiles \ {ProfileOf[s]} : r.byProfile[p] = h.byProfile[p]
  <2> TAKE p \in Profiles \ {ProfileOf[s]}
  <2>1. s \notin h.byProfile[p]
    BY DEF Agree
  <2>2. h.byProfile[p] \ ({s} \cap h.registered) = h.byProfile[p]
    BY <2>1
  <2> QED
    BY <1>2, <2>2
<1>4. s \notin h.registered => r.byProfile[ProfileOf[s]] = h.byProfile[ProfileOf[s]]
  <2> HAVE s \notin h.registered
  <2>1. h.byProfile[ProfileOf[s]] \ ({s} \cap h.registered) = h.byProfile[ProfileOf[s]]
    OBVIOUS
  <2> QED
    BY <1>1, <1>2, <2>1
<1>5. r.byProfile[ProfileOf[s]] # {} => h.byProfile[ProfileOf[s]] # {}
  BY <1>1, <1>2
<1> HIDE DEF r
<1> QED
  BY <1>2, <1>3, <1>4, <1>5 DEF Online, r

LEMMA SubscribeTold ==
  ASSUME NEW h \in HubType, NEW s \in Sockets, NEW c \in Conversations
  PROVE  /\ Subscribe(h, s, c).registered = h.registered
         /\ \A p : Online(Subscribe(h, s, c), p) = Online(h, p)
         /\ \A q \in Sockets \ {s} : Subscribe(h, s, c).bySocket[q] = h.bySocket[q]
         /\ s \in h.registered => Subscribe(h, s, c).bySocket[s] = h.bySocket[s] \cup {c}
BY DEF Subscribe, HubType, Online

LEMMA UnsubscribeTold ==
  ASSUME NEW h \in HubType, NEW s \in Sockets, NEW c \in Conversations
  PROVE  /\ Unsubscribe(h, s, c).registered = h.registered
         /\ \A p : Online(Unsubscribe(h, s, c), p) = Online(h, p)
         /\ \A q \in Sockets \ {s} : Unsubscribe(h, s, c).bySocket[q] = h.bySocket[q]
         /\ Unsubscribe(h, s, c).bySocket[s] = h.bySocket[s] \ {c}
BY DEF Unsubscribe, HubType, Online

LEMMA QuietTyped ==
  ASSUME Quiet
  PROVE  /\ tasks \in Seq(TaskType) /\ hub \in HubType /\ Settling
         /\ \A s \in Sockets : ProfileOf[s] \in Profiles
         /\ \A i \in 1..Len(tasks) : MayMove(i) => i = 1
BY TasksTyped, SocketsAssumption DEF Quiet, Typed, Calm, MayMove

\* A handler begins: those that wait have read nothing yet.
LEMMA BegunQueue ==
  ASSUME Quiet, NEW t \in TaskType, ~ t.read, t.turn = 1, tasks' = Append(tasks, t),
         t.kind = "open" => t.profile = ProfileOf[t.socket],
         \A c \in Conversations : rows'[c] = rows[c] \/ (t.kind = "upsert" /\ t.conv = c)
  PROVE  OnlyFirst' /\ OwnProfile' /\ StaleFollowed'
<1>1. /\ tasks \in Seq(TaskType) /\ OnlyFirst /\ OwnProfile /\ StaleFollowed
  BY QuietTyped DEF Settling
<1>2. /\ Handlers(tasks') = Handlers(tasks) \cup {t}
      /\ Waiting(tasks) \subseteq Waiting(tasks') /\ Waiting(tasks') \subseteq Waiting(tasks) \cup {t}
      /\ tasks # <<>> => t \in Waiting(tasks') /\ tasks'[1] = tasks[1]
      /\ tasks = <<>> => tasks'[1] = t
  BY <1>1, QueueAppended
<1>3. OnlyFirst' /\ OwnProfile'
  BY <1>1, <1>2 DEF OnlyFirst, OwnProfile
<1>4. StaleFollowed'
  <2> SUFFICES ASSUME tasks # <<>>, tasks[1].read, tasks[1].kind \in {"subscribe", "upsert"},
                      tasks[1].version # rows'[tasks[1].conv]
               PROVE  \E x \in Waiting(tasks') : x.kind = "upsert" /\ x.conv = tasks[1].conv
    BY <1>2 DEF StaleFollowed
  <2>1. tasks[1].conv \in Conversations
    <3>1. 1 \in 1..Len(tasks)
      BY <1>1, EmptySeq
    <3>2. tasks[1] \in TaskType
      BY <1>1, <3>1
    <3> QED
      BY <3>2 DEF TaskType
  <2>2. CASE rows'[tasks[1].conv] = rows[tasks[1].conv]
    BY <1>1, <1>2, <2>2 DEF StaleFollowed
  <2>3. CASE t.kind = "upsert" /\ t.conv = tasks[1].conv
    BY <1>2, <2>3
  <2> QED
    BY <2>1, <2>2, <2>3
<1> QED
  BY <1>3, <1>4

LEMMA ConnectViews == ASSUME Quiet, NEW s \in Sockets, Connect(s) PROVE Settling'
<1> DEFINE t == OpenTask(s)
<1>1. /\ tasks \in Seq(TaskType) /\ hub \in HubType /\ Settling /\ Agree(hub)
      /\ conn \in [Sockets -> {"new", "open", "closed", "gone"}] /\ rows \in [Conversations -> Nat]
  BY QuietTyped, BoundsAssumption DEF Quiet, Typed
<1>2. /\ t \in TaskType /\ t.kind = "open" /\ t.socket = s /\ t.profile = ProfileOf[s] /\ ~ t.read /\ t.turn = 1
  <2>1. t \in TaskType
    BY <1>1, NewTasksTyped DEF TaskIn
  <2> QED
    BY <2>1 DEF OpenTask, Task
<1> HIDE DEF t
<1>3. /\ conn[s] = "new" /\ conn'[s] = "open" /\ \A r \in Sockets \ {s} : conn'[r] = conn[r]
      /\ tasks' = Append(tasks, t) /\ UNCHANGED <<hub, rows, told, view, shown>>
  BY <1>1 DEF Connect, t
<1>4. Handlers(tasks') = Handlers(tasks) \cup {t}
  BY <1>1, <1>2, <1>3, QueueAppended
<1>5. OnlyFirst' /\ OwnProfile' /\ StaleFollowed'
  BY <1>2, <1>3, BegunQueue
<1>6. PresenceLast(tasks', hub')
  BY <1>1, <1>2, <1>3, PresenceAppended DEF Settling
<1>7. /\ s \notin hub.registered /\ told[s] = {} /\ \A c \in Conversations : shown[s][c] = 0
      /\ \A x \in Handlers(tasks) : x.kind \in {"open", "subscribe"} => x.socket # s
  BY <1>1, <1>3 DEF Settling, NewIdle
<1>8. Openings'
  BY <1>1, <1>2, <1>3, <1>4, <1>7 DEF Settling, Openings
<1>9. SubscribeAfter(tasks', conn', hub'.registered)
  <2>1. \A x \in Handlers(tasks) : x.socket \in Sockets
    BY <1>1, HandlersTyped DEF TaskType
  <2>2. \A x \in Handlers(tasks) : x.kind = "subscribe" /\ conn'[x.socket] = "open" => conn[x.socket] = "open"
    BY <1>3, <1>7, <2>1
  <2>3. SubscribeAfter(tasks, conn', hub.registered)
    BY <1>1, <2>2, SubscribeSame DEF Settling
  <2> QED
    BY <1>1, <1>2, <1>3, <2>3, SubscribeAppended
<1>10. NewIdle'
  BY <1>1, <1>2, <1>3, <1>4 DEF Settling, NewIdle
<1>11. ToldTrue'
  BY <1>1, <1>3, <1>7 DEF Settling, ToldTrue, Agree
<1>12. PresenceKnown'
  <2> SUFFICES ASSUME NEW r \in Sockets, NEW p \in Profiles, conn'[r] = "open", p \in Peers(ProfileOf[r])
               PROVE  view[r][p] = Online(hub, p) \/ \E x \in Handlers(tasks') : TellsPresence(x, r, p)
    BY <1>3 DEF PresenceKnown, Peers
  <2>1. CASE r = s
    BY <1>2, <1>4, <2>1 DEF TellsPresence
  <2>2. CASE r # s
    BY <1>1, <1>3, <1>4, <2>2 DEF Settling, PresenceKnown
  <2> QED
    BY <2>1, <2>2
<1>13. VersionKnown'
  <2> SUFFICES ASSUME NEW r \in Sockets, NEW c \in Conversations, conn'[r] = "open", shown[r][c] # 0
               PROVE  /\ EndsIn(c, ProfileOf[r])
                      /\ shown[r][c] = rows[c] \/ \E x \in Handlers(tasks') : TellsVersion(x, r, c)
    BY <1>3 DEF VersionKnown, TellsVersion
  <2>1. r # s
    BY <1>7
  <2> QED
    BY <1>1, <1>3, <1>4, <2>1 DEF Settling, VersionKnown
<1> QED
  BY <1>5, <1>6, <1>8, <1>9, <1>10, <1>11, <1>12, <1>13 DEF Settling

\* No handler begins or ends, and what changes concerns sockets that are not open
\* any more, or subscriptions that are told as they change.
LEMMA StillViews ==
  ASSUME Quiet, UNCHANGED <<rows, tasks>>,
         \A p \in Profiles : Online(hub', p) = Online(hub, p),
         \A r \in Sockets : conn'[r] \in {"open", "new"} =>
           /\ conn'[r] = conn[r] /\ view'[r] = view[r] /\ shown'[r] = shown[r]
           /\ r \in hub'.registered <=> r \in hub.registered
           /\ conn[r] = "new" => told'[r] = told[r]
           /\ conn[r] = "open" => (told[r] = hub.bySocket[r] => told'[r] = hub'.bySocket[r])
  PROVE  Settling'
<1>1. tasks \in Seq(TaskType) /\ Settling /\ \A s \in Sockets : ProfileOf[s] \in Profiles
  BY QuietTyped
<1>2. OnlyFirst' /\ OwnProfile' /\ StaleFollowed'
  BY <1>1 DEF Settling, OnlyFirst, OwnProfile, StaleFollowed
<1>3. PresenceLast(tasks', hub')
  BY <1>1, PresenceSame DEF Settling
<1>4. SubscribeAfter(tasks', conn', hub'.registered)
  <2>1. \A x \in Handlers(tasks) : x.socket \in Sockets
    BY <1>1, HandlersTyped DEF TaskType
  <2>2. \A x \in Handlers(tasks) : x.kind = "subscribe" /\ conn'[x.socket] = "open" =>
          conn[x.socket] = "open" /\ (x.socket \in hub.registered => x.socket \in hub'.registered)
    BY <2>1
  <2> QED
    BY <1>1, <2>2, SubscribeSame DEF Settling
<1>5. Openings' /\ NewIdle' /\ ToldTrue'
  BY <1>1 DEF Settling, Openings, NewIdle, ToldTrue
<1>6. PresenceKnown'
  BY <1>1 DEF Settling, PresenceKnown, Peers
<1>7. VersionKnown'
  BY <1>1 DEF Settling, VersionKnown, TellsVersion
<1> QED
  BY <1>2, <1>3, <1>4, <1>5, <1>6, <1>7 DEF Settling

\* A handler begins, other than that of a connection.
LEMMA BegunViews ==
  ASSUME Quiet, NEW t \in TaskType, ~ t.read, t.turn = 1, tasks' = Append(tasks, t),
         t.kind \in {"presence", "subscribe", "upsert"}, UNCHANGED <<told, view, shown>>,
         \A c \in Conversations : rows'[c] = rows[c] \/ (t.kind = "upsert" /\ t.conv = c),
         t.kind = "presence" => t.online = Online(hub', t.profile),
         \A p \in Profiles : Online(hub', p) = Online(hub, p) \/ (t.kind = "presence" /\ t.profile = p),
         t.kind = "subscribe" => EndsIn(t.conv, ProfileOf[t.socket]) /\ conn[t.socket] = "open",
         \A r \in Sockets : conn'[r] \in {"open", "new"} =>
           /\ conn'[r] = conn[r] /\ hub'.bySocket[r] = hub.bySocket[r]
           /\ r \in hub'.registered <=> r \in hub.registered
  PROVE  Settling'
<1>1. tasks \in Seq(TaskType) /\ Settling /\ \A s \in Sockets : ProfileOf[s] \in Profiles
  BY QuietTyped
<1>2. /\ Handlers(tasks') = Handlers(tasks) \cup {t}
      /\ \A x \in Handlers(tasks) : x.socket \in Sockets
      /\ t.socket \in Sockets /\ t.conv \in Conversations
  <2>1. \A x \in Handlers(tasks) : x \in TaskType
    BY <1>1, HandlersTyped
  <2>2. \A x \in TaskType : x.socket \in Sockets /\ x.conv \in Conversations
    BY DEF TaskType
  <2> QED
    BY <1>1, <2>1, <2>2, QueueAppended
<1>3. OnlyFirst' /\ OwnProfile' /\ StaleFollowed'
  BY BegunQueue
<1>4. PresenceLast(tasks', hub')
  BY <1>1, PresenceAppended DEF Settling
<1>5. SubscribeAfter(tasks', conn', hub'.registered)
  <2>1. \A x \in Handlers(tasks) : x.kind = "subscribe" /\ conn'[x.socket] = "open" =>
          conn[x.socket] = "open" /\ (x.socket \in hub.registered => x.socket \in hub'.registered)
    BY <1>2
  <2>2. SubscribeAfter(tasks, conn', hub'.registered)
    BY <1>1, <2>1, SubscribeSame DEF Settling
  <2>3. t.kind = "subscribe" =>
          /\ EndsIn(t.conv, ProfileOf[t.socket])
          /\ conn'[t.socket] = "open" =>
               \/ t.socket \in hub'.registered
               \/ \E x \in Handlers(tasks) : x.kind = "open" /\ x.socket = t.socket
    BY <1>1, <1>2 DEF Settling, Openings
  <2> QED
    BY <1>1, <2>2, <2>3, SubscribeAppended
<1>6. Openings' /\ ToldTrue'
  BY <1>1, <1>2 DEF Settling, Openings, ToldTrue
<1>7. NewIdle'
  BY <1>1, <1>2 DEF Settling, NewIdle
<1>8. PresenceKnown'
  <2> SUFFICES ASSUME NEW r \in Sockets, NEW p \in Profiles, conn'[r] = "open", p \in Peers(ProfileOf[r])'
               PROVE  view[r][p] = Online(hub', p) \/ \E x \in Handlers(tasks') : TellsPresence(x, r, p)
    BY DEF PresenceKnown
  <2>1. CASE t.kind = "presence" /\ t.profile = p
    BY <1>2, <2>1 DEF TellsPresence
  <2>2. CASE p \in Peers(ProfileOf[r]) /\ Online(hub', p) = Online(hub, p)
    BY <1>1, <1>2, <2>2 DEF Settling, PresenceKnown
  <2>3. CASE p \notin Peers(ProfileOf[r])
    <3>1. PICK c \in Conversations : rows'[c] > 0 /\ Ends[c] \in {<<ProfileOf[r], p>>, <<p, ProfileOf[r]>>}
      BY DEF Peers
    <3>2. rows'[c] # rows[c]
      BY <2>3, <3>1 DEF Peers
    <3>3. t.kind = "upsert" /\ t.conv = c
      BY <3>1, <3>2
    <3>4. ToTell(t, r)
      <4>1. 1 \in t.turn..2 /\ 2 \in t.turn..2
        OBVIOUS
      <4>2. Ends[c][1] = ProfileOf[r] \/ Ends[c][2] = ProfileOf[r]
        BY <3>1
      <4> QED
        BY <3>3, <4>1, <4>2 DEF ToTell
    <3> QED
      BY <1>2, <3>1, <3>3, <3>4 DEF TellsPresence
  <2> QED
    BY <2>1, <2>2, <2>3
<1>9. VersionKnown'
  <2> SUFFICES ASSUME NEW r \in Sockets, NEW c \in Conversations, conn'[r] = "open", shown[r][c] # 0
               PROVE  /\ EndsIn(c, ProfileOf[r])
                      /\ shown[r][c] = rows'[c] \/ \E x \in Handlers(tasks') : TellsVersion(x, r, c)'
    BY DEF VersionKnown
  <2>1. /\ EndsIn(c, ProfileOf[r])
        /\ shown[r][c] = rows[c] \/ \E x \in Handlers(tasks) : TellsVersion(x, r, c)
    BY <1>1 DEF Settling, VersionKnown
  <2>2. CASE rows'[c] = rows[c]
    BY <1>2, <2>1, <2>2 DEF TellsVersion
  <2>3. CASE t.kind = "upsert" /\ t.conv = c
    <3>1. ToTell(t, r)
      <4>1. 1 \in t.turn..2 /\ 2 \in t.turn..2
        OBVIOUS
      <4>2. Ends[c][1] = ProfileOf[r] \/ Ends[c][2] = ProfileOf[r]
        BY <2>1 DEF EndsIn
      <4> QED
        BY <2>3, <4>1, <4>2 DEF ToTell
    <3> QED
      BY <1>2, <2>1, <2>3, <3>1 DEF TellsVersion
  <2> QED
    BY <2>2, <2>3
<1> QED
  BY <1>3, <1>4, <1>5, <1>6, <1>7, <1>8, <1>9 DEF Settling

LEMMA VanishViews == ASSUME Quiet, NEW s \in Sockets, Vanish(s) PROVE Settling'
<1>1. /\ conn \in [Sockets -> {"new", "open", "closed", "gone"}]
      /\ told \in [Sockets -> SUBSET Conversations]
      /\ view \in [Sockets -> [Profiles -> Presence]]
      /\ shown \in [Sockets -> [Conversations -> 0..MaxVersion]]
  BY DEF Quiet, Typed
<1> QED
  BY <1>1, StillViews DEF Vanish

LEMMA CloseViews == ASSUME Quiet, NEW s \in Sockets, Close(s) PROVE Settling'
<1> DEFINE left == Remove(hub, {s})
           p == ProfileOf[s]
           t == PresenceTask(p, "offline")
<1>1. /\ hub \in HubType /\ Agree(hub) /\ p \in Profiles /\ rows \in [Conversations -> Nat]
      /\ conn \in [Sockets -> {"new", "open", "closed", "gone"}]
  BY QuietTyped, BoundsAssumption DEF Quiet, Typed
<1>2. /\ conn'[s] = "gone" /\ \A r \in Sockets \ {s} : conn'[r] = conn[r]
      /\ hub' = left
      /\ tasks' = (IF s \in hub.registered /\ left.byProfile[p] = {} THEN Append(tasks, t) ELSE tasks)
      /\ UNCHANGED <<rows, told, view, shown>>
  BY <1>1 DEF Close
<1>3. /\ left.registered = hub.registered \ {s}
      /\ \A r \in Sockets \ {s} : left.bySocket[r] = hub.bySocket[r]
      /\ \A q \in Profiles \ {p} : Online(left, q) = Online(hub, q)
      /\ left.byProfile[p] # {} \/ s \notin hub.registered => Online(left, p) = Online(hub, p)
      /\ left.byProfile[p] = {} => Online(left, p) = "offline"
  BY <1>1, RemoveTold
<1>4. /\ t \in TaskType /\ t.kind = "presence" /\ t.profile = p /\ t.online = "offline"
      /\ ~ t.read /\ t.turn = 1
  <2>1. t \in TaskType
    BY <1>1, NewTasksTyped DEF TaskIn, Presence
  <2> QED
    BY <2>1 DEF PresenceTask, Task
<1> HIDE DEF t, left, p
<1>5. CASE s \in hub.registered /\ left.byProfile[p] = {}
  BY <1>1, <1>2, <1>3, <1>4, <1>5, BegunViews
<1>6. CASE ~ (s \in hub.registered /\ left.byProfile[p] = {})
  <2>1. tasks' = tasks /\ \A q \in Profiles : Online(hub', q) = Online(hub, q)
    BY <1>2, <1>3, <1>6
  <2> QED
    BY <1>2, <1>3, <2>1, StillViews
<1> QED
  BY <1>5, <1>6

LEMMA AskViews ==
  ASSUME Quiet, NEW s \in Sockets, NEW c \in Conversations, AskSubscribe(s, c)
  PROVE  Settling'
<1> DEFINE t == SubscribeTask(s, c)
<1>1. rows \in [Conversations -> Nat]
  BY BoundsAssumption DEF Quiet, Typed
<1>2. /\ t \in TaskType /\ t.kind = "subscribe" /\ t.socket = s /\ t.conv = c /\ ~ t.read /\ t.turn = 1
  <2>1. t \in TaskType
    BY <1>1, NewTasksTyped DEF TaskIn
  <2> QED
    BY <2>1 DEF SubscribeTask, Task
<1>3. /\ tasks' = Append(tasks, t) /\ conn[s] = "open" /\ EndsIn(c, ProfileOf[s])
      /\ UNCHANGED <<hub, conn, rows, told, view, shown>>
  BY DEF AskSubscribe, EndsIn
<1> HIDE DEF t
<1> QED
  BY <1>2, <1>3, BegunViews

LEMMA AskUnsubscribeViews ==
  ASSUME Quiet, NEW s \in Sockets, NEW c \in Conversations, AskUnsubscribe(s, c)
  PROVE  Settling'
<1>1. hub \in HubType /\ told \in [Sockets -> SUBSET Conversations]
  BY DEF Quiet, Typed
<1>2. /\ conn[s] = "open" /\ hub' = Unsubscribe(hub, s, c)
      /\ told'[s] = told[s] \ {c} /\ \A r \in Sockets \ {s} : told'[r] = told[r]
      /\ UNCHANGED <<conn, rows, tasks, view, shown>>
  BY <1>1 DEF AskUnsubscribe
<1>3. /\ hub'.registered = hub.registered
      /\ \A p : Online(hub', p) = Online(hub, p)
      /\ \A r \in Sockets \ {s} : hub'.bySocket[r] = hub.bySocket[r]
      /\ hub'.bySocket[s] = hub.bySocket[s] \ {c}
  BY <1>1, <1>2, UnsubscribeTold
<1> QED
  BY <1>2, <1>3, StillViews

LEMMA MutateViews ==
  ASSUME Quiet, NEW c \in Conversations, NEW kind \in {"like", "send", "read", "react"}, Mutate(c, kind)
  PROVE  Settling'
<1> DEFINE t == UpsertTask(c, kind = "read")
<1>1. hub \in HubType /\ rows \in [Conversations -> Nat] /\ ~ env.throws
  BY BoundsAssumption DEF Quiet, Typed, Calm
<1>2. hub' = hub /\ UNCHANGED <<conn, told, view, shown>>
  BY <1>1, CalmSent DEF Mutate
<1>3. CASE kind = "react"
  <2>1. rows' = rows /\ tasks' = tasks
    BY <1>1, <1>3 DEF Mutate
  <2> QED
    BY <1>2, <2>1, StillViews
<1>4. CASE kind # "react"
  <2>1. /\ t \in TaskType /\ t.kind = "upsert" /\ t.conv = c /\ ~ t.read /\ t.turn = 1
    <3>1. t \in TaskType
      BY <1>1, NewTasksTyped DEF TaskIn
    <3> QED
      BY <3>1 DEF UpsertTask, Task
  <2>2. tasks' = Append(tasks, t) /\ \A d \in Conversations \ {c} : rows'[d] = rows[d]
    BY <1>1, <1>4 DEF Mutate
  <2> HIDE DEF t
  <2> QED
    BY <1>2, <2>1, <2>2, BegunViews
<1> QED
  BY <1>3, <1>4

\* What is known of the handler that moves, the only one that has read rows.
LEMMA QuietFirst ==
  ASSUME Quiet, 1 \in 1..Len(tasks)
  PROVE  /\ tasks # <<>> /\ Handlers(tasks) = Waiting(tasks) \cup {tasks[1]}
         /\ tasks[1] \in TaskType /\ \A x \in Waiting(tasks) : x \in TaskType /\ ~ x.read /\ x.turn = 1
         /\ \A x \in Handlers(tasks) : x.socket \in Sockets
         /\ tasks[1].kind = "open" => tasks[1].profile = ProfileOf[tasks[1].socket]
<1>1. tasks \in Seq(TaskType) /\ OnlyFirst /\ OwnProfile
  BY QuietTyped DEF Settling
<1>2. /\ tasks # <<>> /\ Handlers(tasks) = Waiting(tasks) \cup {tasks[1]}
      /\ tasks[1] \in TaskType /\ \A x \in Waiting(tasks) : x \in TaskType
  BY <1>1, QueueFirst
<1>3. \A x \in TaskType : x.socket \in Sockets
  BY DEF TaskType
<1> QED
  BY <1>1, <1>2, <1>3 DEF OnlyFirst, OwnProfile

\* The first handler ends, and another that has read nothing may begin.
LEMMA LeftQueue ==
  ASSUME Quiet, 1 \in 1..Len(tasks), NEW t \in TaskType, ~ t.read, t.turn = 1, t.kind # "open",
         tasks' = Without(1) \/ tasks' = Append(Without(1), t)
  PROVE  /\ OnlyFirst' /\ OwnProfile' /\ StaleFollowed'
         /\ tasks' = Without(1) => Handlers(tasks') = Waiting(tasks)
         /\ tasks' = Append(Without(1), t) => Handlers(tasks') = Waiting(tasks) \cup {t}
<1> DEFINE q == Without(1)
<1>1. /\ tasks \in Seq(TaskType) /\ \A x \in Waiting(tasks) : ~ x.read /\ x.turn = 1
      /\ \A x \in Waiting(tasks) : x.kind = "open" => x.profile = ProfileOf[x.socket]
  BY QuietTyped, QuietFirst DEF Settling, OwnProfile
<1>2. /\ q \in Seq(TaskType) /\ Handlers(q) = Waiting(tasks) /\ Waiting(q) \subseteq Waiting(tasks)
      /\ q # <<>> => q[1] \in Waiting(tasks)
  BY <1>1, FirstGone, QueueLeft
<1> HIDE DEF q
<1>3. /\ tasks' = q => Handlers(tasks') = Waiting(tasks)
      /\ tasks' = Append(q, t) => Handlers(tasks') = Waiting(tasks) \cup {t}
      /\ Waiting(tasks') \subseteq Waiting(tasks) \cup {t}
      /\ tasks' # <<>> => tasks'[1] \in Waiting(tasks) \cup {t}
  <2>1. CASE tasks' = q
    BY <1>2, <2>1, QueueAppended
  <2>2. CASE tasks' = Append(q, t)
    BY <1>2, <2>2, QueueAppended
  <2> QED
    BY <2>1, <2>2 DEF q
<1>4. OnlyFirst' /\ OwnProfile' /\ StaleFollowed'
  BY <1>1, <1>3 DEF OnlyFirst, OwnProfile, StaleFollowed, q
<1> QED
  BY <1>3, <1>4 DEF q

LEMMA EndedQueue ==
  ASSUME Quiet, 1 \in 1..Len(tasks), tasks' = Without(1)
  PROVE  OnlyFirst' /\ OwnProfile' /\ StaleFollowed' /\ Handlers(tasks') = Waiting(tasks)
<1>1. PICK t \in TaskType : ~ t.read /\ t.turn = 1 /\ t.kind # "open"
  <2>1. PICK c \in Conversations : TRUE
    BY SomeAssumption
  <2>2. rows \in [Conversations -> Nat]
    BY BoundsAssumption DEF Quiet, Typed
  <2>3. UpsertTask(c, FALSE) \in TaskType
    BY <2>2, NewTasksTyped DEF TaskIn
  <2> QED
    BY <2>3 DEF UpsertTask, Task
<1> QED
  BY <1>1, LeftQueue

\* The handler of a connection still counts as one while it waits.
LEMMA OpeningsKept ==
  ASSUME Quiet, hub'.registered = hub.registered, conn' = conn,
         \A x \in Handlers(tasks) : x.kind = "open" =>
           \E y \in Handlers(tasks') : y.kind = "open" /\ y.socket = x.socket,
         \A y \in Handlers(tasks') : \E x \in Handlers(tasks) : x.kind = y.kind /\ x.socket = y.socket,
         \A s \in Sockets : conn[s] = "new" => told'[s] = told[s] /\ shown'[s] = shown[s],
         \A s \in Sockets : conn[s] = "open" /\ s \notin hub.registered => shown'[s] = shown[s]
  PROVE  Openings' /\ NewIdle'
<1>1. Openings /\ NewIdle
  BY QuietTyped DEF Settling
<1>2. Openings'
  BY <1>1 DEF Openings
<1>3. NewIdle'
  BY <1>1 DEF NewIdle
<1> QED
  BY <1>2, <1>3

\* The first handler ends, and it is not that of a connection.
LEMMA EndedViews ==
  ASSUME Quiet, 1 \in 1..Len(tasks), tasks' = Without(1), UNCHANGED <<conn, rows>>,
         tasks[1].kind # "open", hub'.registered = hub.registered,
         \A p \in Profiles : Online(hub', p) = Online(hub, p),
         \A s \in Sockets : conn[s] = "open" => (told[s] = hub.bySocket[s] => told'[s] = hub'.bySocket[s]),
         \A s \in Sockets : conn[s] = "new" => told'[s] = told[s] /\ shown'[s] = shown[s],
         \A s \in Sockets : conn[s] = "open" /\ s \notin hub.registered => shown'[s] = shown[s]
  PROVE  /\ OnlyFirst' /\ OwnProfile' /\ PresenceLast(tasks', hub') /\ StaleFollowed'
         /\ Openings' /\ SubscribeAfter(tasks', conn', hub'.registered) /\ NewIdle' /\ ToldTrue'
         /\ Handlers(tasks') = Waiting(tasks)
<1>1. tasks \in Seq(TaskType) /\ Settling
  BY QuietTyped
<1>2. Handlers(tasks) = Waiting(tasks) \cup {tasks[1]}
  BY QuietFirst
<1>3. OnlyFirst' /\ OwnProfile' /\ StaleFollowed' /\ Handlers(tasks') = Waiting(tasks)
  BY EndedQueue
<1>4. Without(1) \in Seq(TaskType)
  BY <1>1, FirstGone
<1>5. PresenceLast(tasks', hub')
  <2>1. PresenceLast(tasks', hub)
    BY <1>1, PresenceLeft DEF Settling
  <2> QED
    BY <1>4, <2>1, PresenceSame
<1>6. SubscribeAfter(tasks', conn', hub'.registered)
  BY <1>1, SubscribeLeft DEF Settling
<1>7. Openings' /\ NewIdle'
  <2>1. \A x \in Handlers(tasks) : x.kind = "open" =>
          \E y \in Handlers(tasks') : y.kind = "open" /\ y.socket = x.socket
    BY <1>2, <1>3
  <2>2. \A y \in Handlers(tasks') : \E x \in Handlers(tasks) : x.kind = y.kind /\ x.socket = y.socket
    BY <1>2, <1>3
  <2> QED
    BY <2>1, <2>2, OpeningsKept
<1>8. ToldTrue'
  BY <1>1 DEF Settling, ToldTrue
<1> QED
  BY <1>3, <1>5, <1>6, <1>7, <1>8

\* The first handler goes on.
LEMMA UpdatedViews ==
  ASSUME Quiet, 1 \in 1..Len(tasks), NEW u \in TaskType, tasks' = [tasks EXCEPT ![1] = u],
         UNCHANGED <<hub, conn, rows, told>>,
         u.kind = tasks[1].kind, u.profile = tasks[1].profile, u.socket = tasks[1].socket,
         u.conv = tasks[1].conv, u.online = tasks[1].online,
         u.read /\ u.kind \in {"subscribe", "upsert"} => u.version = rows[u.conv],
         \A s \in Sockets : conn[s] = "new" => shown'[s] = shown[s],
         \A s \in Sockets : conn[s] = "open" /\ s \notin hub.registered => shown'[s] = shown[s]
  PROVE  /\ OnlyFirst' /\ OwnProfile' /\ PresenceLast(tasks', hub') /\ StaleFollowed'
         /\ Openings' /\ SubscribeAfter(tasks', conn', hub'.registered) /\ NewIdle' /\ ToldTrue'
         /\ Handlers(tasks') = Waiting(tasks) \cup {u}
<1>1. tasks \in Seq(TaskType) /\ Settling
  BY QuietTyped
<1>2. /\ Handlers(tasks) = Waiting(tasks) \cup {tasks[1]}
      /\ \A x \in Waiting(tasks) : ~ x.read /\ x.turn = 1
      /\ tasks[1].kind = "open" => tasks[1].profile = ProfileOf[tasks[1].socket]
  BY QuietFirst
<1>3. Handlers(tasks') = Waiting(tasks) \cup {u} /\ Waiting(tasks') = Waiting(tasks) /\ tasks'[1] = u
  BY <1>1, QueueUpdated
<1>4. OnlyFirst' /\ OwnProfile'
  BY <1>1, <1>2, <1>3 DEF OnlyFirst, OwnProfile, Settling
<1>5. StaleFollowed'
  BY <1>3 DEF StaleFollowed
<1>6. PresenceLast(tasks', hub') /\ SubscribeAfter(tasks', conn', hub'.registered)
  <2>1. PresenceLast(tasks, hub) /\ SubscribeAfter(tasks, conn, hub.registered)
    BY <1>1 DEF Settling
  <2> QED
    BY <1>1, <2>1, PresenceUpdated, SubscribeUpdated
<1>7. Openings' /\ NewIdle'
  <2>1. \A x \in Handlers(tasks) : x.kind = "open" =>
          \E y \in Handlers(tasks') : y.kind = "open" /\ y.socket = x.socket
    BY <1>2, <1>3
  <2>2. \A y \in Handlers(tasks') : \E x \in Handlers(tasks) : x.kind = y.kind /\ x.socket = y.socket
    BY <1>2, <1>3
  <2> HIDE DEF Quiet
  <2> QED
    BY <2>1, <2>2, OpeningsKept
<1>8. ToldTrue'
  BY <1>1 DEF Settling, ToldTrue
<1> QED
  BY <1>3, <1>4, <1>5, <1>6, <1>7, <1>8

LEMMA PeersMutual ==
  ASSUME NEW a \in Profiles, NEW b \in Profiles
  PROVE  b \in Peers(a) <=> a \in Peers(b)
BY DEF Peers

LEMMA ReadViews == ASSUME Quiet, NEW i \in 1..Len(tasks), Read(i) PROVE Settling'
<1> DEFINE t == tasks[1]
           peers == IF t.kind \in {"open", "presence"} THEN Peers(t.profile) ELSE {}
           version == IF t.kind \in {"subscribe", "upsert"} THEN rows[t.conv] ELSE 0
           u == [t EXCEPT !.read = TRUE, !.peers = peers, !.version = version]
<1>1. /\ i = 1 /\ 1 \in 1..Len(tasks) /\ tasks \in Seq(TaskType) /\ Settling
      /\ rows \in [Conversations -> 0..MaxVersion]
      /\ \A s \in Sockets : ProfileOf[s] \in Profiles
  BY QuietTyped DEF Read, Quiet, Typed
<1>2. /\ tasks' = [tasks EXCEPT ![1] = u] /\ UNCHANGED <<hub, conn, rows, told, view, shown>>
  BY <1>1 DEF Read
<1>3. /\ Handlers(tasks) = Waiting(tasks) \cup {t} /\ t \in TaskType
      /\ \A x \in Waiting(tasks) : ~ x.read /\ x.turn = 1
      /\ t.kind = "open" => t.profile = ProfileOf[t.socket]
  BY <1>1, QuietFirst
<1>4. /\ u \in TaskType /\ u.kind = t.kind /\ u.profile = t.profile /\ u.socket = t.socket
      /\ u.conv = t.conv /\ u.online = t.online /\ u.turn = t.turn
      /\ u.peers = peers /\ u.version = version
  <2>1. peers \in SUBSET Profiles /\ version \in 0..MaxVersion
    <3>1. t.conv \in Conversations
      BY <1>3 DEF TaskType
    <3> QED
      BY <1>1, <3>1, BoundsAssumption DEF Peers
  <2> HIDE DEF t, peers, version
  <2> QED
    BY <1>3, <2>1 DEF TaskType
<1> HIDE DEF u
<1>5. /\ OnlyFirst' /\ OwnProfile' /\ PresenceLast(tasks', hub') /\ StaleFollowed'
      /\ Openings' /\ SubscribeAfter(tasks', conn', hub'.registered) /\ NewIdle' /\ ToldTrue'
      /\ Handlers(tasks') = Waiting(tasks) \cup {u}
  <2>1. u.read /\ u.kind \in {"subscribe", "upsert"} => u.version = rows[u.conv]
    BY <1>4
  <2> HIDE DEF peers, version
  <2> QED
    BY <1>1, <1>2, <1>4, <2>1, UpdatedViews
<1> HIDE DEF t
<1>6. PresenceKnown'
  <2> SUFFICES ASSUME NEW r \in Sockets, NEW p \in Profiles, conn[r] = "open", p \in Peers(ProfileOf[r]),
                      view[r][p] # Online(hub, p)
               PROVE  \E x \in Handlers(tasks') : TellsPresence(x, r, p)
    BY <1>2 DEF PresenceKnown, Peers
  <2>1. PICK x \in Handlers(tasks) : TellsPresence(x, r, p)
    BY <1>1 DEF Settling, PresenceKnown
  <2>2. CASE x \in Waiting(tasks)
    BY <1>5, <2>1, <2>2
  <2>3. CASE x = t
    <3>1. t.kind = "presence" /\ t.profile = p => ProfileOf[r] \in u.peers
      BY <1>1, <1>4, PeersMutual
    <3>2. t.kind = "open" /\ t.socket = r => p \in u.peers
      BY <1>3, <1>4
    <3>3. TellsPresence(u, r, p)
      BY <1>4, <2>1, <2>3, <3>1, <3>2 DEF TellsPresence, ToTell
    <3> QED
      BY <1>5, <3>3
  <2> QED
    BY <1>3, <2>2, <2>3
<1>7. VersionKnown'
  <2> SUFFICES ASSUME NEW r \in Sockets, NEW c \in Conversations, conn[r] = "open", shown[r][c] # 0
               PROVE  /\ EndsIn(c, ProfileOf[r])
                      /\ shown[r][c] = rows[c] \/ \E x \in Handlers(tasks') : TellsVersion(x, r, c)
    BY <1>2 DEF VersionKnown, TellsVersion
  <2>1. /\ EndsIn(c, ProfileOf[r])
        /\ shown[r][c] = rows[c] \/ \E x \in Handlers(tasks) : TellsVersion(x, r, c)
    BY <1>1 DEF Settling, VersionKnown
  <2>2. TellsVersion(t, r, c) => TellsVersion(u, r, c)
    BY <1>4 DEF TellsVersion, ToTell
  <2> QED
    BY <1>3, <1>5, <2>1, <2>2
<1> QED
  BY <1>5, <1>6, <1>7 DEF Settling

\* The connection is closed, and nobody else was to hear from the handler.
LEMMA RefuseViews == ASSUME Quiet, NEW i \in 1..Len(tasks), Refuse(i) PROVE Settling'
<1> DEFINE t == tasks[1]
           s == t.socket
<1>1. /\ i = 1 /\ 1 \in 1..Len(tasks) /\ tasks \in Seq(TaskType) /\ Settling
      /\ conn \in [Sockets -> {"new", "open", "closed", "gone"}]
  BY QuietTyped DEF Refuse, Answering, Quiet, Typed
<1>2. /\ Handlers(tasks) = Waiting(tasks) \cup {t} /\ t \in TaskType
      /\ \A x \in Handlers(tasks) : x.socket \in Sockets
  BY <1>1, QuietFirst
<1>3. /\ t.kind = "open" /\ tasks' = Without(1) /\ conn' = [conn EXCEPT ![s] = IF @ = "open" THEN "closed" ELSE @]
      /\ UNCHANGED <<hub, rows, told, view, shown>>
  BY <1>1 DEF Refuse, Answering
<1> HIDE DEF t
<1>4. /\ s \in Sockets /\ conn'[s] # "open" /\ \A r \in Sockets \ {s} : conn'[r] = conn[r]
      /\ conn'[s] = "new" => conn[s] = "new"
  BY <1>1, <1>2, <1>3
<1>5. OnlyFirst' /\ OwnProfile' /\ StaleFollowed' /\ Handlers(tasks') = Waiting(tasks)
  BY <1>1, <1>3, EndedQueue
<1>6. PresenceLast(tasks', hub')
  BY <1>1, <1>3, PresenceLeft DEF Settling
<1>7. SubscribeAfter(tasks', conn', hub'.registered)
  <2>1. \A x \in Handlers(tasks) : x.kind = "subscribe" /\ conn'[x.socket] = "open" => conn[x.socket] = "open"
    BY <1>2, <1>4
  <2>2. SubscribeAfter(tasks, conn', hub.registered)
    BY <1>1, <2>1, SubscribeSame DEF Settling
  <2> QED
    BY <1>1, <1>3, <1>4, <2>2, SubscribeLeft DEF t
<1> HIDE DEF s
<1>8. Openings' /\ NewIdle' /\ ToldTrue'
  BY <1>1, <1>2, <1>3, <1>4, <1>5 DEF Settling, Openings, NewIdle, ToldTrue, s
<1>9. PresenceKnown'
  <2> SUFFICES ASSUME NEW r \in Sockets, NEW p \in Profiles, conn'[r] = "open", p \in Peers(ProfileOf[r]),
                      view[r][p] # Online(hub, p)
               PROVE  \E x \in Handlers(tasks') : TellsPresence(x, r, p)
    BY <1>3 DEF PresenceKnown, Peers
  <2>1. r # s /\ conn[r] = "open"
    BY <1>4
  <2>2. PICK x \in Handlers(tasks) : TellsPresence(x, r, p)
    BY <1>1, <2>1 DEF Settling, PresenceKnown
  <2>3. x # t
    BY <1>3, <2>1, <2>2 DEF TellsPresence, ToTell, s
  <2> QED
    BY <1>2, <1>5, <2>2, <2>3
<1>10. VersionKnown'
  <2> SUFFICES ASSUME NEW r \in Sockets, NEW c \in Conversations, conn'[r] = "open", shown[r][c] # 0
               PROVE  /\ EndsIn(c, ProfileOf[r])
                      /\ shown[r][c] = rows[c] \/ \E x \in Handlers(tasks') : TellsVersion(x, r, c)
    BY <1>3 DEF VersionKnown, TellsVersion
  <2>1. conn[r] = "open"
    BY <1>4
  <2>2. /\ EndsIn(c, ProfileOf[r])
        /\ shown[r][c] = rows[c] \/ \E x \in Handlers(tasks) : TellsVersion(x, r, c)
    BY <1>1, <2>1 DEF Settling, VersionKnown
  <2>3. ~ TellsVersion(t, r, c)
    BY <1>3 DEF TellsVersion, ToTell
  <2> QED
    BY <1>2, <1>5, <2>2, <2>3
<1> QED
  BY <1>5, <1>6, <1>7, <1>8, <1>9, <1>10 DEF Settling

\* What is announced is so, or the next to announce the profile says so.
LEMMA AnnounceViews == ASSUME Quiet, NEW i \in 1..Len(tasks), AnnouncePresence(i) PROVE Settling'
<1> DEFINE t == tasks[1]
           p == t.profile
           S == UNION {hub.byProfile[q] : q \in t.peers}
<1>1. /\ i = 1 /\ 1 \in 1..Len(tasks) /\ tasks \in Seq(TaskType) /\ Settling /\ hub \in HubType /\ Agree(hub)
      /\ view \in [Sockets -> [Profiles -> Presence]] /\ ~ env.throws
      /\ \A s \in Sockets : ProfileOf[s] \in Profiles
  BY QuietTyped DEF AnnouncePresence, Answering, Quiet, Typed, Calm
<1>2. /\ Handlers(tasks) = Waiting(tasks) \cup {t} /\ t \in TaskType
      /\ \A x \in Waiting(tasks) : ~ x.read
  BY <1>1, QuietFirst
<1>3. /\ t.kind = "presence" /\ t.read /\ tasks' = Without(1) /\ hub' = hub
      /\ UNCHANGED <<conn, rows, told, shown>>
  BY <1>1, CalmSent DEF AnnouncePresence, Answering
<1>4. \A r \in Sockets, q \in Profiles :
        view'[r][q] = IF r \in Reached(S) /\ q = p THEN t.online ELSE view[r][q]
  BY <1>1 DEF AnnouncePresence
<1>5. t.online = Online(hub, p) \/ \E x \in Waiting(tasks) : x.kind = "presence" /\ x.profile = p
  <2>1. PresenceLast(tasks, hub) /\ Len(tasks) \in Nat
    BY <1>1 DEF Settling
  <2>2. \A j \in 1..Len(tasks) : j > 1 => j \in 2..Len(tasks)
    BY <2>1
  <2>3. t.online = Online(hub, p) \/ \E j \in 1..Len(tasks) : j > 1 /\ tasks[j].kind = "presence" /\ tasks[j].profile = p
    BY <1>1, <1>3, <2>1 DEF PresenceLast
  <2> QED
    BY <2>2, <2>3 DEF Waiting
<1>6. \A r \in Sockets : conn[r] = "open" /\ ProfileOf[r] \in t.peers =>
        r \in Reached(S) \/ \E x \in Waiting(tasks) : x.kind = "open" /\ x.socket = r
  <2> TAKE r \in Sockets
  <2> HAVE conn[r] = "open" /\ ProfileOf[r] \in t.peers
  <2>1. CASE r \in hub.registered
    <3>1. r \in hub.byProfile[ProfileOf[r]]
      BY <1>1, <2>1 DEF Agree
    <3> QED
      BY <3>1 DEF Reached
  <2>2. CASE r \notin hub.registered
    BY <1>1, <1>2, <1>3, <2>2 DEF Settling, Openings
  <2> QED
    BY <2>1, <2>2
<1>7. tasks[1].kind # "open"
  BY <1>3
<1> HIDE DEF t, p, S
<1>8. /\ OnlyFirst' /\ OwnProfile' /\ PresenceLast(tasks', hub') /\ StaleFollowed'
      /\ Openings' /\ SubscribeAfter(tasks', conn', hub'.registered) /\ NewIdle' /\ ToldTrue'
      /\ Handlers(tasks') = Waiting(tasks)
  BY <1>1, <1>3, <1>7, EndedViews
<1>9. PresenceKnown'
  <2> SUFFICES ASSUME NEW r \in Sockets, NEW q \in Profiles, conn[r] = "open", q \in Peers(ProfileOf[r]),
                      view'[r][q] # Online(hub, q)
               PROVE  \E x \in Waiting(tasks) : TellsPresence(x, r, q)
    BY <1>3, <1>8 DEF PresenceKnown, Peers
  <2>1. CASE r \in Reached(S) /\ q = p
    BY <1>2, <1>4, <1>5, <2>1 DEF TellsPresence
  <2>2. CASE ~ (r \in Reached(S) /\ q = p)
    <3>1. PICK x \in Handlers(tasks) : TellsPresence(x, r, q)
      BY <1>1, <1>4, <2>2 DEF Settling, PresenceKnown
    <3>2. CASE x \in Waiting(tasks)
      BY <3>1, <3>2
    <3>3. CASE x = t
      <4>1. q = p /\ ProfileOf[r] \in t.peers
        BY <1>3, <3>1, <3>3 DEF TellsPresence, ToTell, p
      <4>2. PICK y \in Waiting(tasks) : y.kind = "open" /\ y.socket = r
        BY <1>6, <2>2, <4>1
      <4> QED
        BY <1>2, <4>2 DEF TellsPresence
    <3> QED
      BY <1>2, <3>2, <3>3
  <2> QED
    BY <2>1, <2>2
<1>10. VersionKnown'
  <2> SUFFICES ASSUME NEW r \in Sockets, NEW c \in Conversations, conn[r] = "open", shown[r][c] # 0
               PROVE  /\ EndsIn(c, ProfileOf[r])
                      /\ shown[r][c] = rows[c] \/ \E x \in Waiting(tasks) : TellsVersion(x, r, c)
    BY <1>3, <1>8 DEF VersionKnown, TellsVersion
  <2>1. ~ TellsVersion(t, r, c)
    BY <1>3 DEF TellsVersion, ToTell
  <2> QED
    BY <1>1, <1>2, <2>1 DEF Settling, VersionKnown
<1> QED
  BY <1>8, <1>9, <1>10 DEF Settling

\* A handler that has read nothing will still tell both sides of a conversation.
LEMMA UpsertTells ==
  ASSUME NEW x, x.kind = "upsert", ~ x.read, x.turn = 1, NEW r \in Sockets, EndsIn(x.conv, ProfileOf[r])
  PROVE  TellsVersion(x, r, x.conv)
<1>1. 1 \in 1..2 /\ 2 \in 1..2
  OBVIOUS
<1>2. ToTell(x, r)
  BY <1>1 DEF ToTell, EndsIn
<1> QED
  BY <1>2 DEF TellsVersion

\* The socket is told the subscription it gets: it was open, so it is registered.
LEMMA AnswerSubscribeViews ==
  ASSUME Quiet, NEW i \in 1..Len(tasks), AnswerSubscribe(i)
  PROVE  Settling'
<1> DEFINE t == tasks[1]
           s == t.socket
           c == t.conv
           q == MatchedProfile(c, ProfileOf[s])
           heard == t.version > 0 /\ conn[s] = "open"
<1>1. /\ i = 1 /\ 1 \in 1..Len(tasks) /\ tasks \in Seq(TaskType) /\ Settling /\ hub \in HubType
      /\ told \in [Sockets -> SUBSET Conversations]
      /\ view \in [Sockets -> [Profiles -> Presence]]
      /\ shown \in [Sockets -> [Conversations -> 0..MaxVersion]]
  BY QuietTyped DEF AnswerSubscribe, Answering, Quiet, Typed
<1>2. /\ Handlers(tasks) = Waiting(tasks) \cup {t} /\ t \in TaskType
      /\ \A x \in Waiting(tasks) : ~ x.read /\ x.turn = 1
  BY <1>1, QuietFirst
<1>3. /\ t.kind = "subscribe" /\ t.read /\ tasks' = Without(1)
      /\ hub' = (IF t.version > 0 THEN Subscribe(hub, s, c) ELSE hub)
      /\ UNCHANGED <<conn, rows>>
  BY <1>1 DEF AnswerSubscribe, Answering
<1>4. s \in Sockets /\ c \in Conversations
  BY <1>2 DEF TaskType
<1>5. /\ \A r \in Sockets : told'[r] = IF r = s /\ heard THEN told[s] \cup {c} ELSE told[r]
      /\ \A r \in Sockets : ~ (r = s /\ heard) => shown'[r] = shown[r]
      /\ \A r \in Sockets, d \in Conversations :
           shown'[r][d] = IF r = s /\ d = c /\ heard THEN t.version ELSE shown[r][d]
      /\ \A r \in Sockets, p \in Profiles :
           view'[r][p] = IF r = s /\ p = q /\ heard THEN Online(hub, q) ELSE view[r][p]
  BY <1>1, <1>4 DEF AnswerSubscribe
<1>6. EndsIn(c, ProfileOf[s]) /\ (conn[s] = "open" => s \in hub.registered)
  <2>1. SubscribeAfter(tasks, conn, hub.registered)
    BY <1>1 DEF Settling
  <2> QED
    BY <1>1, <1>3, <2>1, SubscribeFirst
<1>7. tasks[1].kind # "open"
  BY <1>3
<1> HIDE DEF t, s, c, q
<1>8. /\ hub'.registered = hub.registered
      /\ \A p : Online(hub', p) = Online(hub, p)
      /\ \A r \in Sockets \ {s} : hub'.bySocket[r] = hub.bySocket[r]
      /\ heard => hub'.bySocket[s] = hub.bySocket[s] \cup {c}
      /\ conn[s] = "open" /\ ~ heard => hub' = hub
  BY <1>1, <1>3, <1>4, <1>6, SubscribeTold
<1> HIDE DEF heard
<1>9. /\ OnlyFirst' /\ OwnProfile' /\ PresenceLast(tasks', hub') /\ StaleFollowed'
      /\ Openings' /\ SubscribeAfter(tasks', conn', hub'.registered) /\ NewIdle' /\ ToldTrue'
      /\ Handlers(tasks') = Waiting(tasks)
  <2>1. \A r \in Sockets : conn[r] = "open" => (told[r] = hub.bySocket[r] => told'[r] = hub'.bySocket[r])
    BY <1>5, <1>8
  <2>2. heard => conn[s] = "open" /\ s \in hub.registered
    BY <1>6 DEF heard
  <2>3. /\ \A r \in Sockets : conn[r] = "new" => told'[r] = told[r] /\ shown'[r] = shown[r]
        /\ \A r \in Sockets : conn[r] = "open" /\ r \notin hub.registered => shown'[r] = shown[r]
    BY <1>5, <2>2
  <2> QED
    BY <1>1, <1>3, <1>7, <1>8, <2>1, <2>3, EndedViews
<1>10. PresenceKnown'
  <2> SUFFICES ASSUME NEW r \in Sockets, NEW p \in Profiles, conn[r] = "open", p \in Peers(ProfileOf[r])
               PROVE  \/ view'[r][p] = Online(hub, p)
                      \/ \E x \in Waiting(tasks) : TellsPresence(x, r, p)
    BY <1>3, <1>8, <1>9 DEF PresenceKnown, Peers
  <2>1. ~ TellsPresence(t, r, p)
    BY <1>3 DEF TellsPresence, ToTell
  <2> QED
    BY <1>1, <1>2, <1>5, <2>1 DEF Settling, PresenceKnown
<1>11. VersionKnown'
  <2> SUFFICES ASSUME NEW r \in Sockets, NEW d \in Conversations, conn[r] = "open", shown'[r][d] # 0
               PROVE  /\ EndsIn(d, ProfileOf[r])
                      /\ shown'[r][d] = rows[d] \/ \E x \in Waiting(tasks) : TellsVersion(x, r, d)
    BY <1>3, <1>9 DEF VersionKnown, TellsVersion
  <2>1. CASE r = s /\ d = c /\ heard
    <3>1. shown'[r][d] = t.version
      BY <1>5, <2>1
    <3>2. CASE t.version # rows[c]
      <4>1. PICK x \in Waiting(tasks) : x.kind = "upsert" /\ x.conv = c
        BY <1>1, <1>3, <3>2, EmptySeq DEF Settling, StaleFollowed, t, c
      <4> QED
        BY <1>2, <1>6, <2>1, <4>1, UpsertTells
    <3> QED
      BY <1>6, <2>1, <3>1, <3>2
  <2>2. CASE ~ (r = s /\ d = c /\ heard)
    <3>1. ~ TellsVersion(t, r, d)
      BY <1>3 DEF TellsVersion, ToTell
    <3>2. shown'[r][d] = shown[r][d]
      BY <1>5, <2>2
    <3> QED
      BY <1>1, <1>2, <3>1, <3>2 DEF Settling, VersionKnown
  <2> QED
    BY <2>1, <2>2
<1> QED
  BY <1>9, <1>10, <1>11 DEF Settling

\* One side is told the row as it was loaded; the other is told next.
LEMMA UpsertViews == ASSUME Quiet, NEW i \in 1..Len(tasks), Upsert(i) PROVE Settling'
<1> DEFINE t == tasks[1]
           c == t.conv
           p == NextParticipant(t)
           q == MatchedProfile(c, p)
           S == hub.byProfile[p]
           u == [t EXCEPT !.turn = 2, !.read = FALSE]
<1>1. /\ i = 1 /\ 1 \in 1..Len(tasks) /\ tasks \in Seq(TaskType) /\ Settling /\ hub \in HubType /\ Agree(hub)
      /\ view \in [Sockets -> [Profiles -> Presence]] /\ ~ env.throws
      /\ shown \in [Sockets -> [Conversations -> 0..MaxVersion]]
      /\ \A r \in Sockets : ProfileOf[r] \in Profiles
  BY QuietTyped DEF Upsert, Answering, Quiet, Typed, Calm
<1>2. /\ Handlers(tasks) = Waiting(tasks) \cup {t} /\ t \in TaskType
      /\ \A x \in Waiting(tasks) : ~ x.read /\ x.turn = 1
  BY <1>1, QuietFirst
<1>3. /\ c \in Conversations /\ t.turn \in {1, 2} /\ p = Ends[c][t.turn] /\ p \in Profiles
      /\ Ends[c] \in Profiles \X Profiles
  <2>1. c \in Conversations /\ t.turn \in {1, 2}
    BY <1>2 DEF TaskType
  <2> QED
    BY <2>1, EndsAssumption DEF NextParticipant
<1>4. /\ t.kind = "upsert" /\ t.read /\ hub' = hub /\ UNCHANGED <<conn, rows, told>>
      /\ tasks' = IF t.turn = 2 THEN Without(1) ELSE [tasks EXCEPT ![1].turn = 2, ![1].read = FALSE]
  BY <1>1, CalmSent DEF Upsert, Answering
<1>5. /\ \A r \in Sockets : r \notin Reached(S) => shown'[r] = shown[r]
      /\ \A r \in Sockets, d \in Conversations :
           shown'[r][d] = IF r \in Reached(S) /\ d = c THEN t.version ELSE shown[r][d]
      /\ \A r \in Sockets, o \in Profiles :
           view'[r][o] = IF r \in Reached(S) /\ o = q THEN Online(hub, q) ELSE view[r][o]
  <2>1. Sent(hub, S) = hub
    BY <1>1, CalmSent
  <2> QED
    BY <1>1, <2>1 DEF Upsert
<1>6. /\ \A r \in Sockets : r \in Reached(S) <=> conn[r] = "open" /\ r \in hub.registered /\ ProfileOf[r] = p
  BY <1>1, <1>3 DEF Reached, Agree
<1>7. /\ u \in TaskType /\ u.kind = t.kind /\ u.profile = t.profile /\ u.socket = t.socket
      /\ u.conv = t.conv /\ u.online = t.online /\ u.turn = 2 /\ ~ u.read
  <2> HIDE DEF t
  <2> QED
    BY <1>2 DEF TaskType
<1>8. tasks' = IF t.turn = 2 THEN Without(1) ELSE [tasks EXCEPT ![1] = u]
  BY <1>1, <1>2, <1>4
<1>9. tasks[1].kind # "open" /\ t = tasks[1]
  BY <1>4
<1> HIDE DEF t, c, p, q, S, u
<1>10. /\ OnlyFirst' /\ OwnProfile' /\ PresenceLast(tasks', hub') /\ StaleFollowed'
       /\ Openings' /\ SubscribeAfter(tasks', conn', hub'.registered) /\ NewIdle' /\ ToldTrue'
       /\ Waiting(tasks) \subseteq Handlers(tasks') /\ (t.turn = 1 => u \in Handlers(tasks'))
  <2>1. /\ \A r \in Sockets : conn[r] = "new" => shown'[r] = shown[r]
        /\ \A r \in Sockets : conn[r] = "open" /\ r \notin hub.registered => shown'[r] = shown[r]
    BY <1>5, <1>6
  <2>2. CASE t.turn = 2
    <3>1. tasks' = Without(1)
      BY <1>8, <2>2
    <3> QED
      BY <1>1, <1>4, <1>9, <2>1, <2>2, <3>1, EndedViews
  <2>3. CASE t.turn = 1
    <3>1. tasks' = [tasks EXCEPT ![1] = u]
      BY <1>8, <2>3
    <3>2. /\ u.kind = tasks[1].kind /\ u.profile = tasks[1].profile /\ u.socket = tasks[1].socket
          /\ u.conv = tasks[1].conv /\ u.online = tasks[1].online
      BY <1>7, <1>9
    <3>3. /\ OnlyFirst' /\ OwnProfile' /\ PresenceLast(tasks', hub') /\ StaleFollowed'
          /\ Openings' /\ SubscribeAfter(tasks', conn', hub'.registered) /\ NewIdle' /\ ToldTrue'
          /\ Handlers(tasks') = Waiting(tasks) \cup {u}
      BY <1>1, <1>4, <1>7, <2>1, <3>1, <3>2, UpdatedViews
    <3> QED
      BY <3>3
  <2> QED
    BY <1>3, <2>2, <2>3
\* Whom the handler was to tell, it tells now or next, or the socket is not registered.
<1>11. ASSUME NEW r \in Sockets, conn[r] = "open", ToTell(t, r), r \notin Reached(S)
       PROVE  r \notin hub.registered \/ (t.turn = 1 /\ ToTell(u, r))
  <2>1. PICK k \in t.turn..2 : Ends[c][k] = ProfileOf[r]
    BY <1>11 DEF ToTell, c
  <2>2. CASE k = t.turn
    BY <1>3, <1>6, <1>11, <2>1, <2>2
  <2>3. CASE k # t.turn
    <3>1. t.turn = 1 /\ k = 2 /\ 2 \in 2..2
      BY <1>3, <2>1, <2>3
    <3> QED
      BY <1>4, <1>7, <2>1, <3>1 DEF ToTell, c
  <2> QED
    BY <2>2, <2>3
<1>12. PresenceKnown'
  <2> SUFFICES ASSUME NEW r \in Sockets, NEW o \in Profiles, conn[r] = "open", o \in Peers(ProfileOf[r]),
                      view'[r][o] # Online(hub, o)
               PROVE  \E x \in Handlers(tasks') : TellsPresence(x, r, o)
    BY <1>4 DEF PresenceKnown, Peers
  <2>1. PICK x \in Handlers(tasks) : TellsPresence(x, r, o)
    BY <1>1, <1>5 DEF Settling, PresenceKnown
  <2>2. CASE x \in Waiting(tasks)
    BY <1>10, <2>1, <2>2
  <2>3. CASE x = t
    <3>1. ToTell(t, r) /\ Ends[c] \in {<<ProfileOf[r], o>>, <<o, ProfileOf[r]>>}
      BY <1>4, <2>1, <2>3 DEF TellsPresence, c
    <3>2. CASE r \in Reached(S)
      <4>1. ProfileOf[r] = p /\ o # p
        BY <1>6, <3>2 DEF Peers
      <4>2. q = o
        BY <1>3, <3>1, <4>1 DEF MatchedProfile, q
      <4> QED
        BY <1>5, <3>2, <4>2
    <3>3. CASE r \notin hub.registered
      <4>1. PICK y \in Handlers(tasks) : y.kind = "open" /\ y.socket = r
        BY <1>1, <3>3 DEF Settling, Openings
      <4>2. y \in Waiting(tasks)
        BY <1>2, <1>4, <4>1
      <4> QED
        BY <1>2, <1>10, <4>1, <4>2 DEF TellsPresence
    <3>4. CASE t.turn = 1 /\ ToTell(u, r)
      BY <1>7, <1>10, <3>1, <3>4 DEF TellsPresence, c
    <3> QED
      BY <1>11, <3>1, <3>2, <3>3, <3>4
  <2> QED
    BY <1>2, <2>2, <2>3
<1>13. VersionKnown'
  <2> SUFFICES ASSUME NEW r \in Sockets, NEW d \in Conversations, conn[r] = "open", shown'[r][d] # 0
               PROVE  /\ EndsIn(d, ProfileOf[r])
                      /\ shown'[r][d] = rows[d] \/ \E x \in Handlers(tasks') : TellsVersion(x, r, d)
    <3>1. conn' = conn /\ rows' = rows
      BY <1>4
    <3> QED
      BY <3>1 DEF VersionKnown, TellsVersion
  <2>1. CASE r \in Reached(S) /\ d = c
    <3>1. shown'[r][d] = t.version /\ EndsIn(c, ProfileOf[r])
      BY <1>3, <1>5, <1>6, <2>1 DEF EndsIn
    <3>2. CASE t.version # rows[c]
      <4>1. PICK x \in Waiting(tasks) : x.kind = "upsert" /\ x.conv = c
        BY <1>1, <1>4, <3>2, EmptySeq DEF Settling, StaleFollowed, t, c
      <4> QED
        BY <1>2, <1>10, <2>1, <3>1, <4>1, UpsertTells
    <3> QED
      BY <2>1, <3>1, <3>2
  <2>2. CASE ~ (r \in Reached(S) /\ d = c)
    <3>1. shown'[r][d] = shown[r][d]
      BY <1>5, <2>2
    <3>2. /\ EndsIn(d, ProfileOf[r])
          /\ shown[r][d] = rows[d] \/ \E x \in Handlers(tasks) : TellsVersion(x, r, d)
      BY <1>1, <3>1 DEF Settling, VersionKnown
    <3>3. ASSUME TellsVersion(t, r, d) PROVE \E x \in Handlers(tasks') : TellsVersion(x, r, d)
      <4>1. ToTell(t, r) /\ d = c /\ r \notin Reached(S)
        BY <2>2, <3>3 DEF TellsVersion, c
      <4>2. r \in hub.registered
        BY <1>1, <3>1 DEF Settling, Openings
      <4>3. t.turn = 1 /\ ToTell(u, r)
        BY <1>11, <4>1, <4>2
      <4> QED
        BY <1>7, <1>10, <4>1, <4>3 DEF TellsVersion, c
    <3> QED
      BY <1>2, <1>10, <3>1, <3>2, <3>3
  <2> QED
    BY <2>1, <2>2
<1> QED
  BY <1>10, <1>12, <1>13 DEF Settling

\* The socket is told who is online; its own profile is announced if it was not.
LEMMA RegisterViews == ASSUME Quiet, NEW i \in 1..Len(tasks), Register(i) PROVE Settling'
<1> DEFINE t == tasks[1]
           s == t.socket
           own == ProfileOf[s]
           a == PresenceTask(own, "online")
           first == FirstOfProfile(s)
<1>1. /\ i = 1 /\ 1 \in 1..Len(tasks) /\ tasks \in Seq(TaskType) /\ Settling /\ hub \in HubType
      /\ view \in [Sockets -> [Profiles -> Presence]] /\ ~ env.throws
      /\ rows \in [Conversations -> Nat]
  BY QuietTyped, BoundsAssumption DEF Register, Answering, Quiet, Typed, Calm
<1>2. /\ Handlers(tasks) = Waiting(tasks) \cup {t} /\ t \in TaskType
      /\ s \in Sockets /\ t.kind = "open" /\ t.read
  BY <1>1, QuietFirst DEF Register, Answering, TaskType
<1>3. /\ hub' = Add(hub, s) /\ UNCHANGED <<conn, rows, told, shown>>
      /\ tasks' = IF first THEN Append(Without(1), a) ELSE Without(1)
  BY <1>1 DEF Register, Throws
<1>4. \A r \in Sockets, p \in Profiles :
        view'[r][p] = IF r = s /\ conn[s] = "open" /\ p \in t.peers THEN Online(hub, p) ELSE view[r][p]
  BY <1>1, <1>2 DEF Register
<1>5. own \in Profiles
  BY <1>2, SocketsAssumption
<1>6. a \in TaskType /\ a.kind = "presence" /\ a.profile = own /\ a.online = "online" /\ ~ a.read /\ a.turn = 1
  <2>1. a \in TaskType
    BY <1>1, <1>5, NewTasksTyped DEF TaskIn, Presence
  <2> QED
    BY <2>1 DEF PresenceTask, Task
<1>7. /\ hub'.registered = hub.registered \cup {s} /\ hub'.bySocket = hub.bySocket
      /\ Online(hub', own) = "online" /\ \A p \in Profiles \ {own} : Online(hub', p) = Online(hub, p)
      /\ ~ first => Online(hub', own) = Online(hub, own)
  BY <1>1, <1>2, <1>3, AddTold DEF FirstOfProfile, Online
<1>8. tasks[1] = t
  OBVIOUS
<1> HIDE DEF t, s, own, a, first
<1>9. /\ OnlyFirst' /\ OwnProfile' /\ StaleFollowed'
      /\ Waiting(tasks) \subseteq Handlers(tasks') /\ Handlers(tasks') \subseteq Waiting(tasks) \cup {a}
      /\ first => a \in Handlers(tasks')
  BY <1>1, <1>3, <1>6, LeftQueue
<1>10. Without(1) \in Seq(TaskType)
  BY <1>1, FirstGone
<1>11. PresenceLast(tasks', hub')
  <2>1. PresenceLast(Without(1), hub)
    BY <1>1, PresenceLeft DEF Settling
  <2>2. CASE first
    BY <1>3, <1>6, <1>7, <1>10, <2>1, <2>2, PresenceAppended
  <2>3. CASE ~ first
    BY <1>3, <1>7, <1>10, <2>1, <2>3, PresenceSame
  <2> QED
    BY <2>2, <2>3
<1>12. SubscribeAfter(tasks', conn', hub'.registered)
  <2>1. SubscribeAfter(tasks, conn, hub'.registered)
    BY <1>1, <1>7, SubscribeSame DEF Settling
  <2>2. SubscribeAfter(Without(1), conn, hub'.registered)
    BY <1>1, <1>7, <1>8, <2>1, SubscribeLeft DEF s
  <2>3. SubscribeAfter(Append(Without(1), a), conn, hub'.registered)
    BY <1>6, <1>10, <2>2, SubscribeAppended
  <2> QED
    BY <1>3, <2>2, <2>3
<1>13. Openings'
  <2> SUFFICES ASSUME NEW r \in Sockets, conn[r] = "open", r \notin hub'.registered
               PROVE  /\ \E x \in Handlers(tasks') : x.kind = "open" /\ x.socket = r
                      /\ \A c \in Conversations : shown[r][c] = 0
    BY <1>3 DEF Openings
  <2>1. r # s /\ r \notin hub.registered
    BY <1>7
  <2>2. /\ \E x \in Handlers(tasks) : x.kind = "open" /\ x.socket = r
        /\ \A c \in Conversations : shown[r][c] = 0
    BY <1>1, <2>1 DEF Settling, Openings
  <2> QED
    BY <1>2, <1>9, <2>1, <2>2 DEF s
<1>14. NewIdle'
  <2> SUFFICES ASSUME NEW r \in Sockets, conn[r] = "new"
               PROVE  /\ r \notin hub'.registered /\ told[r] = {} /\ \A c \in Conversations : shown[r][c] = 0
                      /\ \A x \in Handlers(tasks') : x.kind \in {"open", "subscribe"} => x.socket # r
    BY <1>3 DEF NewIdle
  <2>1. /\ r \notin hub.registered /\ told[r] = {} /\ \A c \in Conversations : shown[r][c] = 0
        /\ \A x \in Handlers(tasks) : x.kind \in {"open", "subscribe"} => x.socket # r
    BY <1>1 DEF Settling, NewIdle
  <2>2. r # s
    BY <1>2, <2>1 DEF s
  <2> QED
    BY <1>2, <1>6, <1>7, <1>9, <2>1, <2>2
<1>15. ToldTrue'
  BY <1>1, <1>3, <1>7 DEF Settling, ToldTrue
<1>16. PresenceKnown'
  <2> SUFFICES ASSUME NEW r \in Sockets, NEW p \in Profiles, conn[r] = "open", p \in Peers(ProfileOf[r]),
                      view'[r][p] # Online(hub', p)
               PROVE  \E x \in Handlers(tasks') : TellsPresence(x, r, p)
    BY <1>3 DEF PresenceKnown, Peers
  <2>1. CASE p = own /\ first
    <3>1. TellsPresence(a, r, p)
      BY <1>6, <2>1 DEF TellsPresence
    <3> QED
      BY <1>9, <2>1, <3>1
  <2>2. CASE ~ (p = own /\ first)
    <3>1. Online(hub', p) = Online(hub, p)
      BY <1>7, <2>2
    <3>2. ~ (r = s /\ p \in t.peers) /\ view[r][p] # Online(hub, p)
      BY <1>4, <3>1
    <3>3. PICK x \in Handlers(tasks) : TellsPresence(x, r, p)
      BY <1>1, <3>2 DEF Settling, PresenceKnown
    <3>4. x # t
      BY <1>2, <3>2, <3>3 DEF TellsPresence, ToTell, s
    <3> QED
      BY <1>2, <1>9, <3>3, <3>4
  <2> QED
    BY <2>1, <2>2
<1>17. VersionKnown'
  <2> SUFFICES ASSUME NEW r \in Sockets, NEW c \in Conversations, conn[r] = "open", shown[r][c] # 0
               PROVE  /\ EndsIn(c, ProfileOf[r])
                      /\ shown[r][c] = rows[c] \/ \E x \in Handlers(tasks') : TellsVersion(x, r, c)
    <3>1. conn' = conn /\ rows' = rows /\ shown' = shown
      BY <1>3
    <3> QED
      BY <3>1 DEF VersionKnown, TellsVersion
  <2>1. ~ TellsVersion(t, r, c)
    BY <1>2 DEF TellsVersion, ToTell
  <2> QED
    BY <1>1, <1>2, <1>9, <2>1 DEF Settling, VersionKnown
<1> QED
  BY <1>9, <1>11, <1>12, <1>13, <1>14, <1>15, <1>16, <1>17 DEF Settling

LEMMA TypingViews ==
  ASSUME Quiet, NEW s \in Sockets, NEW c \in Conversations, Typing(s, c)
  PROVE  Settling'
<1>1. hub \in HubType /\ ~ env.throws
  BY QuietTyped DEF Quiet, Calm
<1>2. hub' = hub /\ UNCHANGED <<conn, rows, tasks, told, view, shown>>
  BY <1>1, CalmSent DEF Typing
<1> QED
  BY <1>2, StillViews

LEMMA ViewInit == Init => ViewInv
<1> SUFFICES ASSUME Init PROVE ViewInv
  OBVIOUS
<1>1. tasks = <<>> /\ Len(tasks) = 0 /\ Handlers(tasks) = {} /\ Waiting(tasks) = {}
  <2>1. tasks = <<>> /\ Len(tasks) = 0
    BY DEF Init
  <2> QED
    BY <2>1 DEF Handlers, Waiting
<1>2. \A s \in Sockets : /\ conn[s] = "new" /\ s \notin hub.registered /\ told[s] = {}
                         /\ \A c \in Conversations : shown[s][c] = 0
  BY DEF Init, EmptyHub, NothingShown
<1>3. OnlyFirst /\ OwnProfile /\ StaleFollowed /\ PresenceLast(tasks, hub) /\ SubscribeAfter(tasks, conn, hub.registered)
  BY <1>1 DEF OnlyFirst, OwnProfile, StaleFollowed, PresenceLast, SubscribeAfter
<1>4. Openings /\ NewIdle /\ ToldTrue /\ PresenceKnown /\ VersionKnown
  BY <1>1, <1>2 DEF Openings, NewIdle, ToldTrue, PresenceKnown, VersionKnown
<1>5. Typed /\ Agree(hub)
  BY InitTyped DEF Init, EmptyHub, Agree
<1> QED
  BY <1>3, <1>4, <1>5 DEF ViewInv, Settling

LEMMA ViewStep == ViewInv /\ [Next]_vars => ViewInv'
<1> SUFFICES ASSUME ViewInv, [Next]_vars PROVE ViewInv'
  OBVIOUS
<1>1. Typed' /\ Agree(hub)'
  BY NextTyped, NextAgree DEF ViewInv
<1>2. ASSUME Calm' PROVE Settling'
  <2>1. env' = env
    <3>1. \A s \in Sockets : Connect(s) \/ Vanish(s) \/ Close(s) => env' = env
      BY DEF Connect, Vanish, Close
    <3>2. \A s \in Sockets, c \in Conversations :
            AskSubscribe(s, c) \/ AskUnsubscribe(s, c) \/ Typing(s, c) => env' = env
      BY DEF AskSubscribe, AskUnsubscribe, Typing
    <3>3. \A c \in Conversations, kind \in {"like", "send", "read", "react"} : Mutate(c, kind) => env' = env
      BY DEF Mutate
    <3>4. \A i \in 1..Len(tasks) :
            Read(i) \/ Refuse(i) \/ Register(i) \/ AnnouncePresence(i) \/ AnswerSubscribe(i) \/ Upsert(i)
              => env' = env
      BY DEF Read, Refuse, Register, AnnouncePresence, AnswerSubscribe, Upsert
    <3> QED
      BY <3>1, <3>2, <3>3, <3>4 DEF Next, vars
  <2>2. Quiet
    BY <1>2, <2>1 DEF ViewInv, Quiet, Calm
  <2>3. CASE UNCHANGED vars
    <3>1. UNCHANGED <<hub, conn, rows, tasks, told, view, shown>>
      BY <2>3 DEF vars
    <3> QED
      BY <2>2, <3>1, StillViews
  <2>4. ASSUME NEW s \in Sockets, Connect(s) \/ Vanish(s) \/ Close(s) PROVE Settling'
    BY <2>2, <2>4, ConnectViews, VanishViews, CloseViews
  <2>5. ASSUME NEW s \in Sockets, NEW c \in Conversations,
               AskSubscribe(s, c) \/ AskUnsubscribe(s, c) \/ Typing(s, c)
        PROVE  Settling'
    BY <2>2, <2>5, AskViews, AskUnsubscribeViews, TypingViews
  <2>6. ASSUME NEW c \in Conversations, NEW kind \in {"like", "send", "read", "react"}, Mutate(c, kind)
        PROVE  Settling'
    BY <2>2, <2>6, MutateViews
  <2>7. ASSUME NEW i \in 1..Len(tasks),
               \/ Read(i) \/ Refuse(i) \/ Register(i) \/ AnnouncePresence(i)
               \/ AnswerSubscribe(i) \/ Upsert(i)
        PROVE  Settling'
    BY <2>2, <2>7, ReadViews, RefuseViews, RegisterViews, AnnounceViews, AnswerSubscribeViews, UpsertViews
  <2> QED
    BY <2>3, <2>4, <2>5, <2>6, <2>7 DEF Next
<1> QED
  BY <1>1, <1>2 DEF ViewInv

\* Once nothing is under way, where no handler overtakes another at its awaits
\* and a send to a lost connection does not throw, what the clients were told is
\* true: every open socket is registered, has the subscriptions it was told it
\* has, knows which of its peers are online, and was told the version of a
\* conversation that there is.
THEOREM ClientsSettle == Spec => []ViewsSettle
<1>1. ViewInv => ViewsSettle
  <2> SUFFICES ASSUME ViewInv, tasks = <<>>, env = [serial |-> TRUE, throws |-> FALSE],
                      NEW s \in Sockets, conn[s] = "open"
               PROVE  ViewTrue(s)
    BY DEF ViewsSettle
  <2>1. Settling
    BY DEF ViewInv, Calm
  <2>2. Handlers(tasks) = {}
    <3>1. Len(tasks) = 0
      OBVIOUS
    <3> QED
      BY <3>1 DEF Handlers
  <2>3. s \in hub.registered /\ told[s] = hub.bySocket[s]
    BY <2>1, <2>2 DEF Settling, Openings, ToldTrue
  <2>4. \A p \in Peers(ProfileOf[s]) : view[s][p] = Online(hub, p)
    <3>1. \A p \in Peers(ProfileOf[s]) : p \in Profiles
      BY DEF Peers
    <3> QED
      BY <2>1, <2>2, <3>1 DEF Settling, PresenceKnown
  <2>5. \A c \in Conversations : shown[s][c] \in {0, rows[c]}
    BY <2>1, <2>2 DEF Settling, VersionKnown
  <2> QED
    BY <2>3, <2>4, <2>5 DEF ViewTrue
<1> QED
  BY <1>1, ViewInit, ViewStep, PTL DEF Spec

=============================================================================
