-------------------------------- MODULE Chat --------------------------------
(***************************************************************************)
(* The transactional chat core of src/src/services/chat-service.ts: like   *)
(* and unlike, send, mark read, and emoji reactions, each one PostgreSQL   *)
(* READ COMMITTED transaction that serialises on the common profile-pair   *)
(* lock and appends durable events to the conversation, profile and user   *)
(* scopes it affects.                                                      *)
(*                                                                         *)
(* A transaction is four steps, because other transactions run between     *)
(* them: Begin (BEGIN: created_at defaults to now(), the time of this      *)
(* step), Lock (the pair lock is granted; the unread counts before the     *)
(* change are read), Prepare (the checks, and the counts and projections   *)
(* the events will carry), Commit (rows and events become visible and the  *)
(* lock is released).  A transaction may fail at any step and leaves       *)
(* nothing.  After a like that made a match its handler notifies the       *)
(* members of both profiles one by one (NotifyMatch).  Users read and      *)
(* archive notifications under no lock of the chat at all.  Neither of     *)
(* the two appends a durable event.                                        *)
(*                                                                         *)
(* A conversation is named by its profile pair, a message by its           *)
(* created_at (transactions begin at distinct microseconds), and a read    *)
(* position by the message it points at, 0 when there is none.             *)
(***************************************************************************)
EXTENDS Naturals, Sequences, FiniteSets, SequencesExt

CONSTANTS
  Profiles, Users,
  Members,      \* profile_user: [Profiles -> SUBSET Users]
  Pushable,     \* the users with an enabled push token
  Matches,      \* the pairs that may be matched when the behaviour starts
  Requests,     \* concurrent transactions
  Readers,      \* bound: the users that read or archive notifications
  Free,         \* the pair lock is not held
  MaxClock      \* bound: transactions begun

Pairs == {c \in SUBSET Profiles : Cardinality(c) = 2}

ASSUME MembersAssumption == Members \in [Profiles -> SUBSET Users]
ASSUME MatchesAssumption == Matches \subseteq Pairs
ASSUME UsersAssumption == Pushable \subseteq Users /\ Readers \subseteq Users
ASSUME FiniteAssumption == IsFiniteSet(Profiles)
ASSUME LockAssumption == Free \notin Requests /\ MaxClock \in Nat

VARIABLES
  db,       \* the rows that the transactions have committed
  notices,  \* notification rows: the matches', and those read or archived
  log,      \* the committed durable events, by scope
  lock,     \* holder of each pair lock
  req,      \* the transactions, and what is left of a handler after its commit
  clock     \* begins so far: the database time

vars == <<db, notices, log, lock, req, clock>>

-----------------------------------------------------------------------------
(* Reading the rows                                                        *)

Other(c, p) == CHOOSE q \in c : q # p

\* areProfilesMatched: both directions are "like".
Matched(d, c) == \A p \in c : <<p, Other(c, p)>> \in d.likes

MessagesOf(d, c) == {m \in d.messages : m.conv = c}

Unseen(d, p, m) == p \in m.conv /\ m.from # p /\ m.at > d.reads[m.conv][p]

\* getChatUnreadCount: over all conversations of the profile.
UnreadCount(d, p) == Cardinality({m \in d.messages : Unseen(d, p, m)})

Latest(S) == IF S = {} THEN 0 ELSE CHOOSE t \in S : \A u \in S : u <= t

\* getUnreadNotificationCountInTransaction: the rows neither read nor archived,
\* of messages and of matches, those of the latter being in x.
UnreadNotifications(d, x, u) ==
  Cardinality({n \in (d.notifications \cup x.matches) \ x.seen : n.user = u})

\* Mutation: a member of both profiles is notified of his own message.
RecipientsWithSender(m) == Members[Other(m.conv, m.from)]

\* The members of the other profile, without the author.
Recipients(m) == Members[Other(m.conv, m.from)] \ {m.user}

\* createMessageNotificationState and enqueueMessagePushJobs: one notification
\* for each recipient, one delivery and job where the recipient has a token.
NotificationsOf(m) == {[user |-> u, at |-> m.at] : u \in Recipients(m)}
PushJobsOf(m) == {n \in NotificationsOf(m) : n.user \in Pushable}

\* notifyProfileMatchUsers: each member of either profile is notified, of each
\* profile that he is a member of.
MatchNotices(c, now) ==
  UNION {{[user |-> u, profile |-> p, at |-> now] : u \in Members[p]} : p \in c}

\* loadChatConversationForProfile: what conversation.upsert tells p about c.
Projection(d, c, p) ==
  [type |-> "upsert", conv |-> c, matched |-> Matched(d, c), lastMessageAt |-> d.lastMessageAt[c],
   lastMessage |-> Latest({m.at : m \in MessagesOf(d, c)}), reads |-> d.reads[c],
   unread |-> Cardinality({m \in MessagesOf(d, c) : Unseen(d, p, m)})]

-----------------------------------------------------------------------------
(* What each call writes, given the rows d it sees and the transaction's   *)
(* time                                                                    *)

\* advanceReadPosition: only a greater position is stored.
Advances(d, c, p, at) == at > d.reads[c][p]

ReadTarget(call, d) ==
  IF call.at = 0 THEN Latest({m.at : m \in MessagesOf(d, call.conv)}) ELSE call.at

\* Mutation: the conversation is not created on a match.
LikeOnly(call, d) == [d EXCEPT !.likes = @ \cup {<<call.profile, Other(call.conv, call.profile)>>}]

Like(call, d) ==
  LET liked == LikeOnly(call, d)
  IN IF Matched(liked, call.conv) THEN [liked EXCEPT !.convs = @ \cup {call.conv}] ELSE liked

Unlike(call, d) ==
  [d EXCEPT !.likes = @ \ {<<call.profile, Other(call.conv, call.profile)>>}]

\* Mutation: a repeated like of a matched profile notifies again.
AnnouncesAgain(call, d) == call.kind = "like" /\ Matched(Like(call, d), call.conv)

\* matched and shouldNotifyMatch: the profile had not liked the other one yet.
AnnouncesMatch(call, d) ==
  /\ call.kind = "like" /\ Matched(Like(call, d), call.conv)
  /\ <<call.profile, Other(call.conv, call.profile)>> \notin d.likes

Send(call, d, now) ==
  LET m == [conv |-> call.conv, from |-> call.profile, user |-> call.user, at |-> now]
  IN [d EXCEPT !.messages = @ \cup {m},
               !.reads[call.conv][call.profile] = now,
               !.lastMessageAt[call.conv] = now,
               !.notifications = @ \cup NotificationsOf(m),
               !.jobs = @ \cup PushJobsOf(m)]

MarkRead(call, d) ==
  IF Advances(d, call.conv, call.profile, ReadTarget(call, d))
  THEN [d EXCEPT !.reads[call.conv][call.profile] = ReadTarget(call, d)]
  ELSE d

React(call, d) == [d EXCEPT !.reactions = @ \cup {<<call.at, call.profile>>}]
Unreact(call, d) == [d EXCEPT !.reactions = @ \ {<<call.at, call.profile>>}]

Effect(call, d, now) ==
  CASE call.kind = "like" -> Like(call, d)
    [] call.kind = "unlike" -> Unlike(call, d)
    [] call.kind = "send" -> Send(call, d, now)
    [] call.kind = "read" -> MarkRead(call, d)
    [] call.kind = "react" -> React(call, d)
    [] call.kind = "unreact" -> Unreact(call, d)

-----------------------------------------------------------------------------
(* The durable events of a call that turns rows d into e, by scope; before *)
(* holds the unread counts read when the lock was granted, x the           *)
(* notification rows that others write                                     *)

StateEvent(call, e) == [type |-> "state", matched |-> Matched(e, call.conv)]
ReadEvent(call, e) ==
  [type |-> "read", profile |-> call.profile, at |-> e.reads[call.conv][call.profile]]
ReactionEvent(call) ==
  [type |-> "reaction", at |-> call.at, profile |-> call.profile, reacted |-> call.kind = "react"]

ConversationEvents(call, d, e, now) ==
  CASE call.kind \in {"like", "unlike"} -> <<StateEvent(call, e)>>
    [] call.kind = "send" ->
         <<[type |-> "message", at |-> now, from |-> call.profile], ReadEvent(call, e)>>
    [] call.kind = "read" -> <<ReadEvent(call, e)>>
    [] call.kind \in {"react", "unreact"} -> <<ReactionEvent(call)>>

\* Whose changed unread count is announced: both sides after a send, the
\* viewer's after a read, nobody's after a like, an unlike or a reaction.
CountsAggregate(call, p) == call.kind = "send" \/ (call.kind = "read" /\ p = call.profile)

ProfileEvents(call, e, before, p) ==
  IF p \notin call.conv \/ call.kind \in {"react", "unreact"} THEN <<>>
  ELSE <<Projection(e, call.conv, p)>>
       \o IF CountsAggregate(call, p) /\ before[p] # UnreadCount(e, p)
          THEN <<[type |-> "unread", count |-> UnreadCount(e, p)]>>
          ELSE <<>>

\* Mutation: the count is read before the notification is inserted.
UserEventsCountedEarly(call, e, x, now, u) ==
  IF call.kind = "send" /\ [user |-> u, at |-> now] \in e.notifications
  THEN <<[type |-> "notification", at |-> now, count |-> UnreadNotifications(e, x, u) - 1]>>
  ELSE <<>>

UserEvents(call, e, x, now, u) ==
  IF call.kind = "send" /\ [user |-> u, at |-> now] \in e.notifications
  THEN <<[type |-> "notification", at |-> now, count |-> UnreadNotifications(e, x, u)]>>
  ELSE <<>>

NoEvents == [conv |-> <<>>, profile |-> [p \in Profiles |-> <<>>], user |-> [u \in Users |-> <<>>]]

\* Reactions without a conversation, repeated acknowledgements and repeated
\* emoji reactions append nothing.
IsSilent(call, d, e) ==
  IF call.kind \in {"like", "unlike"} THEN call.conv \notin e.convs ELSE d = e

EventsOf(call, d, e, x, before, now) ==
  IF IsSilent(call, d, e) THEN NoEvents
  ELSE [conv |-> ConversationEvents(call, d, e, now),
        profile |-> [p \in Profiles |-> ProfileEvents(call, e, before, p)],
        user |-> [u \in Users |-> UserEvents(call, e, x, now, u)]]

-----------------------------------------------------------------------------
(* Initial state: the pairs of matches have liked each other, their        *)
(* notification was lost, and nothing has happened in their conversations  *)
(* yet                                                                     *)

EmptyRows ==
  [likes |-> {}, convs |-> {}, messages |-> {}, reads |-> [c \in Pairs |-> [p \in c |-> 0]],
   lastMessageAt |-> [c \in Pairs |-> 0], reactions |-> {}, notifications |-> {}, jobs |-> {}]

MatchedRows(matches) ==
  [EmptyRows EXCEPT !.convs = matches,
     !.likes = UNION {{<<p, Other(c, p)>> : p \in c} : c \in matches}]

NoCall == [kind |-> "none"]
Idle == [pc |-> "idle", call |-> NoCall, startedAt |-> 0,
         before |-> [p \in Profiles |-> 0], events |-> NoEvents, announce |-> {}]

InitMatched(matches) ==
  /\ db = MatchedRows(matches)
  /\ notices = [matches |-> {}, seen |-> {}]
  /\ log = [conv |-> [c \in Pairs |-> IF c \in matches
                        THEN <<[type |-> "state", matched |-> TRUE]>> ELSE <<>>],
            profile |-> [p \in Profiles |->
              SetToSeq({Projection(MatchedRows(matches), c, p) : c \in {k \in matches : p \in k}})],
            user |-> [u \in Users |-> <<>>]]
  /\ lock = [c \in Pairs |-> Free]
  /\ req = [r \in Requests |-> Idle]
  /\ clock = 0

Init == \E matches \in SUBSET Matches : InitMatched(matches)

-----------------------------------------------------------------------------
(* The calls                                                               *)

LikeCalls ==
  {[kind |-> k, profile |-> p, conv |-> c] : k \in {"like", "unlike"}, p \in Profiles, c \in Pairs}
SendCalls ==
  {[kind |-> "send", profile |-> p, user |-> u, conv |-> c] : p \in Profiles, u \in Users, c \in db.convs}
ReadCalls ==
  {[kind |-> "read", profile |-> p, conv |-> c, at |-> t] :
     p \in Profiles, c \in db.convs, t \in {0} \cup {m.at : m \in db.messages}}
EmojiCalls ==
  {[kind |-> k, profile |-> p, conv |-> m.conv, at |-> m.at] :
     k \in {"react", "unreact"}, p \in Profiles, m \in db.messages}

\* The candidate conversation is looked up before the lock, so it exists.
Calls ==
  {call \in LikeCalls \cup SendCalls \cup ReadCalls \cup EmojiCalls :
     /\ call.profile \in call.conv
     /\ call.kind = "send" => call.user \in Members[call.profile]
     /\ call.kind = "read" /\ call.at # 0 =>
          \E m \in db.messages : m.conv = call.conv /\ m.at = call.at}

-----------------------------------------------------------------------------
(* The transaction                                                         *)

Begin(r, call) ==
  /\ req[r].pc = "idle"
  /\ clock < MaxClock
  /\ clock' = clock + 1
  /\ req' = [req EXCEPT ![r] = [Idle EXCEPT !.pc = "waiting", !.call = call,
                                            !.startedAt = clock + 1]]
  /\ UNCHANGED <<db, notices, log, lock>>

\* Mutation: the pair lock is not waited for.
LockGrantedAnyway(c) == TRUE

LockGranted(c) == lock[c] = Free

Lock(r) ==
  /\ req[r].pc = "waiting"
  /\ LockGranted(req[r].call.conv)
  /\ lock' = [lock EXCEPT ![req[r].call.conv] = r]
  /\ req' = [req EXCEPT ![r].pc = "locked",
                        ![r].before = [p \in Profiles |-> UnreadCount(db, p)]]
  /\ UNCHANGED <<db, notices, log, clock>>

\* Mutation: the match was checked before the lock, not under it.
AllowedWithoutMatch(call, d) == TRUE

\* send and emoji reactions recheck the match under the lock.
Allowed(call, d) == call.kind \in {"send", "react", "unreact"} => Matched(d, call.conv)

\* "Sender read position did not advance to new message": the call throws.
SenderReadThrows(call, d, now) ==
  call.kind = "send" /\ ~Advances(d, call.conv, call.profile, now)

Prepare(r) ==
  LET call == req[r].call
      now == req[r].startedAt
  IN
  /\ req[r].pc = "locked"
  /\ Allowed(call, db)
  /\ ~SenderReadThrows(call, db, now)
  /\ req' = [req EXCEPT ![r].pc = "prepared",
               ![r].events = EventsOf(call, db, Effect(call, db, now), notices, req[r].before, now),
               ![r].announce = IF AnnouncesMatch(call, db) THEN MatchNotices(call.conv, now) ELSE {}]
  /\ UNCHANGED <<db, notices, log, lock, clock>>

\* pg_advisory_xact_lock: the lock goes with the transaction, however it ends.
Unlocked(r) == [c \in Pairs |-> IF lock[c] = r THEN Free ELSE lock[c]]

\* What is left of a handler that is to notify of the match.
Announcing(q, left) ==
  IF left = {} THEN Idle ELSE [Idle EXCEPT !.pc = "notifying", !.call = q.call, !.announce = left]

Commit(r) ==
  LET ev == req[r].events
      c == req[r].call.conv
  IN
  /\ req[r].pc = "prepared"
  /\ db' = Effect(req[r].call, db, req[r].startedAt)
  /\ log' = [conv |-> [log.conv EXCEPT ![c] = @ \o ev.conv],
             profile |-> [p \in Profiles |-> log.profile[p] \o ev.profile[p]],
             user |-> [u \in Users |-> log.user[u] \o ev.user[u]]]
  /\ lock' = Unlocked(r)
  /\ req' = [req EXCEPT ![r] = Announcing(@, @.announce)]
  /\ UNCHANGED <<notices, clock>>

\* Mutation: a session-level lock, which a rollback does not release.
RolledBackLocked(r) ==
  /\ lock' = lock
  /\ req' = [req EXCEPT ![r] = Idle]
  /\ UNCHANGED <<db, notices, log, clock>>

RolledBack(r) ==
  /\ lock' = Unlocked(r)
  /\ req' = [req EXCEPT ![r] = Idle]
  /\ UNCHANGED <<db, notices, log, clock>>

\* Not matched, or thrown: the call answers with an error.
Refuse(r) ==
  /\ req[r].pc = "locked"
  /\ Allowed(req[r].call, db) => SenderReadThrows(req[r].call, db, req[r].startedAt)
  /\ RolledBack(r)

\* A statement fails, or the process dies: before the commit nothing is left, and
\* after it the notifications of the match that remain are lost.
Fail(r) == req[r].pc # "idle" /\ RolledBack(r)

-----------------------------------------------------------------------------
(* Notifications outside the transactions of the chat                      *)

\* createNotification for one member, who is told in no durable event; the members
\* of the profile that liked come first.
NotifyMatch(r, n) ==
  LET left == req[r].announce
      own == {m \in left : m.profile = req[r].call.profile}
  IN
  /\ req[r].pc = "notifying"
  /\ n \in IF own = {} THEN left ELSE own
  /\ notices' = [notices EXCEPT !.matches = @ \cup {n}]
  /\ req' = [req EXCEPT ![r] = Announcing(@, left \ {n})]
  /\ UNCHANGED <<db, log, lock, clock>>

Unread(u) == {n \in (db.notifications \cup notices.matches) \ notices.seen : n.user = u}

\* markNotificationRead, archiveNotification: it no longer counts as unread.
See(n) ==
  /\ notices' = [notices EXCEPT !.seen = @ \cup {n}]
  /\ UNCHANGED <<db, log, lock, req, clock>>

\* markAllNotificationsRead: one statement.
SeeAll(u) ==
  /\ notices' = [notices EXCEPT !.seen = @ \cup Unread(u)]
  /\ UNCHANGED <<db, log, lock, req, clock>>

-----------------------------------------------------------------------------

Next ==
  \/ \E r \in Requests :
       \/ \E call \in Calls : Begin(r, call)
       \/ Lock(r)
       \/ Prepare(r)
       \/ Commit(r)
       \/ Refuse(r)
       \/ Fail(r)
       \/ \E n \in req[r].announce : NotifyMatch(r, n)
  \/ \E u \in Readers : SeeAll(u) \/ \E n \in Unread(u) : See(n)

Spec == Init /\ [][Next]_vars

-----------------------------------------------------------------------------
(* Properties                                                              *)

Times == 0..MaxClock

Message == [conv : Pairs, from : Profiles, user : Users, at : Times \ {0}]
MatchNotice == [user : Users, profile : Profiles, at : Times]

TypeOK ==
  /\ db.likes \subseteq Profiles \X Profiles
  /\ db.convs \subseteq Pairs
  /\ db.messages \subseteq Message
  /\ \A c \in Pairs : db.reads[c] \in [c -> Times] /\ db.lastMessageAt[c] \in Times
  /\ db.reactions \subseteq Times \X Profiles
  /\ db.jobs \subseteq db.notifications
  /\ db.notifications \subseteq [user : Users, at : Times]
  /\ notices.matches \subseteq MatchNotice
  /\ notices.seen \subseteq db.notifications \cup notices.matches
  /\ lock \in [Pairs -> Requests \cup {Free}]
  /\ \A r \in Requests :
       /\ req[r].pc \in {"idle", "waiting", "locked", "prepared", "notifying"}
       /\ req[r].announce \subseteq MatchNotice
       /\ req[r].startedAt <= clock
       /\ req[r].pc \in {"locked", "prepared"} <=> \E c \in Pairs : lock[c] = r
  /\ clock \in Times

\* The positions in a stream of the events of one type, and what the event at the
\* last of some positions says, or none when there are no such positions.
Typed(s, type) == {i \in 1..Len(s) : s[i].type = type}
LastAt(s, I, none) == IF I = {} THEN none ELSE s[Latest(I)]

\* A client that replays a conversation's stream knows the conversation: its
\* messages, each once; both read positions; whether it is matched; and who
\* reacted to what (conversation scope of F4).
LogTellsConversation ==
  \A c \in Pairs :
    LET s == log.conv[c]
        told == Typed(s, "message")
        state == Typed(s, "state")
        reads(p) == {i \in Typed(s, "read") : s[i].profile = p}
        reactions(m, p) == {i \in Typed(s, "reaction") : s[i].at = m.at /\ s[i].profile = p}
    IN
    /\ Cardinality(told) = Cardinality(MessagesOf(db, c))
    /\ {<<s[i].at, s[i].from>> : i \in told} = {<<m.at, m.from>> : m \in MessagesOf(db, c)}
    /\ \A p \in c : LastAt(s, reads(p), [at |-> 0]).at = db.reads[c][p]
    /\ c \in db.convs <=> state # {}
    /\ LastAt(s, state, [matched |-> FALSE]).matched <=> Matched(db, c)
    /\ \A m \in MessagesOf(db, c), p \in c :
         LastAt(s, reactions(m, p), [reacted |-> FALSE]).reacted <=> <<m.at, p>> \in db.reactions

\* The last upsert of a conversation on a member's profile stream is the
\* conversation list entry that REST would return now.
ProjectionsCurrent ==
  \A c \in db.convs : \A p \in c :
    LET s == log.profile[p]
        ups == {i \in Typed(s, "upsert") : s[i].conv = c}
    IN ups # {} /\ s[Latest(ups)] = Projection(db, c, p)

Quiescent == \A r \in Requests : req[r].pc = "idle"

UnreadTold(p) == LastAt(log.profile[p], Typed(log.profile[p], "unread"), [count |-> 0]).count
NotificationsTold(u) == LastAt(log.user[u], 1..Len(log.user[u]), [count |-> 0]).count

\* "Chat unread REST aggregate equals the database truth after
\* send/read/unlike sequences, and its profile-stream event converges another
\* device" (PLAN.md:343): with no call in flight, the last aggregate on a
\* profile's stream is its unread count.
UnreadConverges == Quiescent => \A p \in Profiles : UnreadTold(p) = UnreadCount(db, p)

InOneConversation(u) ==
  Cardinality({c \in db.convs : \E p \in c : u \in Members[p]}) <= 1

\* The user has not been notified of a match, and has read or archived nothing.
OnlyMessaged(x, u) == \A n \in x.matches \cup x.seen : n.user # u

\* "Every notification mutation emits an ordered notification-user event with
\* unambiguous resulting state: create/read carries the canonical notification and
\* authoritative unread count" (ADR 0004:27-30): with no call in flight, the last
\* count on the stream of a user with at most one conversation is what
\* getUnreadNotificationCount returns.
NotificationCountsConverge ==
  Quiescent =>
    \A u \in Users :
      InOneConversation(u) => NotificationsTold(u) = UnreadNotifications(db, notices, u)

\* What does hold of the two.  The aggregate is right for the profiles with at most
\* one conversation.  The notification count of notification.created
\* (chat-service.ts:624) is right for a user who is a member of such profiles
\* only, all of the same conversation, as long as messages are all that he was
\* notified of and he has read and archived nothing.
CountsConverge ==
  Quiescent =>
    /\ \A p \in Profiles :
         Cardinality({c \in db.convs : p \in c}) <= 1 => UnreadTold(p) = UnreadCount(db, p)
    /\ \A u \in Users :
         InOneConversation(u) /\ OnlyMessaged(notices, u) =>
           NotificationsTold(u) = UnreadNotifications(db, notices, u)

\* Of two profiles that like each other at the same moment, or again and again,
\* exactly the like that makes the match goes on to notify, and it notifies every
\* member of both: the decision is made before the commit, and is still right then.
MatchAnnouncedOnce ==
  [][/\ \A c \in Pairs :
          ~Matched(db, c) /\ Matched(db', c) =>
            \E r \in Requests :
              /\ req[r].pc = "prepared" /\ req[r].call.conv = c
              /\ req'[r].announce = MatchNotices(c, req[r].startedAt)
     /\ \A r \in Requests :
          req[r].pc = "prepared" /\ req'[r].pc = "notifying" =>
            ~Matched(db, req[r].call.conv) /\ Matched(db', req[r].call.conv)]_vars

\* Every member of the receiving profile but the author has one notification
\* per message, told once, with a push job when the device can be pushed to;
\* nobody has anything for a message that was not committed.
NotifiedOnce ==
  \A u \in Users :
    LET due == {m.at : m \in {n \in db.messages :
                  n.user # u /\ \E p \in n.conv : p # n.from /\ u \in Members[p]}}
    IN
    /\ {n.at : n \in {k \in db.notifications : k.user = u}} = due
    /\ {n.at : n \in {k \in db.jobs : k.user = u}} = IF u \in Pushable THEN due ELSE {}
    /\ Len(log.user[u]) = Cardinality(due)
    /\ {e.at : e \in ToSet(log.user[u])} = due

\* Calls that come late do no harm.  An unlike that commits before a send or an
\* emoji reaction wins: no message and no reaction is committed in a pair that is
\* not matched at that moment; and late or repeated acknowledgements, from several
\* devices and members, never move a profile's read position back.
LateCallsHarmless ==
  [][\A c \in Pairs :
       /\ \/ MessagesOf(db', c) # MessagesOf(db, c)
          \/ \E m \in MessagesOf(db, c), p \in c :
               (<<m.at, p>> \in db'.reactions) # (<<m.at, p>> \in db.reactions)
          => Matched(db, c)
       /\ \A p \in c : db'.reads[c][p] >= db.reads[c][p]]_vars

\* The assertion "Sender read position did not advance to new message" cannot
\* fail: a matched send under the lock is later than what its sender has read.
SenderReadAdvances ==
  \A r \in Requests :
    req[r].pc = "locked" /\ Allowed(req[r].call, db)
      => ~SenderReadThrows(req[r].call, db, req[r].startedAt)

=============================================================================
