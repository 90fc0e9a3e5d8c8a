----------------------------- MODULE ChatProofs -----------------------------
(***************************************************************************)
(* Proofs about the transactional chat core (Chat.tla), for any profiles,  *)
(* users, memberships and number of concurrent transactions.               *)
(*                                                                         *)
(* The argument: a transaction prepares its events from rows that it does  *)
(* not lock one by one; it holds the lock of its pair.  So between its     *)
(* Lock, Prepare and Commit steps the others only commit to other pairs    *)
(* (EffectApart), and what it has prepared remains, for whatever rows are  *)
(* there at the commit, what its own effect will be worth telling          *)
(* (Foretold, kept by ForetoldKept).  When it commits, the stream of the   *)
(* conversation, of each profile and of each user is extended by just the  *)
(* events that keep it telling the rows (TellsOutcome, ProfileEffect,      *)
(* UserEffect).  IInv says this of every transaction and every stream; the *)
(* counts, which go over all conversations of a profile and are the one    *)
(* thing another pair's commit can change, are in it only for a profile or *)
(* a user with one conversation; and the notification count, which matches *)
(* and reads change without an event, only for a user who has had neither  *)
(* (OnlyMessaged).                                                         *)
(***************************************************************************)
EXTENDS Chat, TLAPS, FiniteSetTheorems, SequenceTheorems, WellFoundedInduction

-----------------------------------------------------------------------------
(* Pairs and positions                                                     *)

LEMMA PairOf ==
  ASSUME NEW c \in Pairs, NEW p \in c
  PROVE  /\ p \in Profiles /\ Other(c, p) \in c /\ Other(c, p) \in Profiles /\ Other(c, p) # p
         /\ \A q \in c : q = p \/ q = Other(c, p)
<1>1. c \subseteq Profiles /\ IsFiniteSet(c) /\ Cardinality(c) = 2
  BY FiniteAssumption, FS_Subset DEF Pairs
<1>2. IsFiniteSet(c \ {p}) /\ Cardinality(c \ {p}) = 1
  BY <1>1, FS_RemoveElement
<1>3. PICK q : c \ {p} = {q}
  BY <1>2, FS_Singleton
<1>4. \A x : x \in c /\ x # p <=> x = q
  BY <1>3
<1>5. Other(c, p) = q
  BY <1>4 DEF Other
<1> QED
  BY <1>1, <1>4, <1>5

\* A pair is given by one of its profiles and the other one.
LEMMA SamePair ==
  ASSUME NEW c \in Pairs, NEW d \in Pairs, NEW p \in c, p \in d, Other(c, p) = Other(d, p)
  PROVE  c = d
BY PairOf

LEMMA LatestOf ==
  ASSUME NEW S, S \subseteq Nat, NEW n \in Nat, \A t \in S : t <= n, S # {}
  PROVE  Latest(S) \in S /\ \A t \in S : t <= Latest(S)
<1> DEFINE T == {x \in Nat : n - x \in S}
<1>1. T \subseteq Nat /\ T # {}
  <2>1. PICK t \in S : TRUE
    OBVIOUS
  <2>2. n - t \in Nat /\ n - (n - t) = t
    OBVIOUS
  <2> QED
    BY <2>1, <2>2
<1>2. PICK x \in T : \A y \in T : ~ (<<y, x>> \in OpToRel(<, Nat))
  BY <1>1, NatLessThanWellFounded, WFMin
<1>3. \A y \in T : x <= y
  <2> TAKE y \in T
  <2>1. ~(y < x)
    <3>1. <<y, x>> \in Nat \X Nat /\ <<y, x>>[1] = y /\ <<y, x>>[2] = x
      OBVIOUS
    <3> QED
      BY <1>2, <3>1, Zenon DEF OpToRel
  <2> QED
    BY <2>1
<1>4. \A u \in S : u <= n - x
  <2> TAKE u \in S
  <2>1. n - u \in Nat /\ n - (n - u) = u
    OBVIOUS
  <2>2. x <= n - u
    BY <1>3, <2>1
  <2> QED
    BY <2>1, <2>2
<1> QED
  BY <1>2, <1>4 DEF Latest

\* The latest of positions that are all before another one is that one.
LEMMA LatestAdded ==
  ASSUME NEW S, S \subseteq Nat, NEW n \in Nat, \A t \in S : t < n
  PROVE  Latest(S \cup {n}) = n
<1>1. \A t \in S \cup {n} : (\A u \in S \cup {n} : u <= t) <=> t = n
  OBVIOUS
<1>2. S \cup {n} # {} /\ n \in S \cup {n}
  OBVIOUS
<1> DEFINE T == S \cup {n}
<1>3. \A t \in T : (\A u \in T : u <= t) <=> t = n
  BY <1>1
<1>4. T # {} /\ n \in T
  BY <1>2
<1> HIDE DEF T
<1>5. Latest(T) = n
  BY <1>3, <1>4 DEF Latest
<1> QED
  BY <1>5 DEF T

LEMMA NumberedTypes == Times \subseteq Nat /\ 0 \in Times /\ \A t \in Times : t <= MaxClock
BY LockAssumption DEF Times

-----------------------------------------------------------------------------
(* Types                                                                   *)

Reads == UNION {[c -> Times] : c \in Pairs}
Notice == [user : Users, at : Times]

RowsType ==
  [likes : SUBSET (Profiles \X Profiles), convs : SUBSET Pairs, messages : SUBSET Message,
   reads : [Pairs -> Reads], lastMessageAt : [Pairs -> Times],
   reactions : SUBSET (Times \X Profiles), notifications : SUBSET Notice, jobs : SUBSET Notice]

CallType ==
  [kind : {"like", "unlike"}, profile : Profiles, conv : Pairs]
  \cup [kind : {"send"}, profile : Profiles, user : Users, conv : Pairs]
  \cup [kind : {"read", "react", "unreact"}, profile : Profiles, conv : Pairs, at : Times]

\* What the rows of the database are at any time, whoever has written them.
RowsSound(d) ==
  /\ d \in RowsType /\ IsFiniteSet(d.messages) /\ d.jobs \subseteq d.notifications
  /\ \A c \in Pairs : d.reads[c] \in [c -> Times]
  /\ \A m \in d.messages : m.from \in m.conv /\ m.conv \in d.convs
  /\ \A m, n \in d.messages : m.at = n.at => m = n
  /\ \A x \in d.reactions : \E m \in d.messages : m.at = x[1]
  /\ \A n \in d.notifications : \E m \in d.messages : m.at = n.at
  /\ \A c \in Pairs : Matched(d, c) => c \in d.convs

\* What a call is about is there, and stays.
CallSound(call, d) ==
  /\ call \in CallType /\ call.profile \in call.conv
  /\ call.kind \notin {"like", "unlike"} => call.conv \in d.convs
  /\ \/ call.kind \in {"react", "unreact"}
     \/ call.kind = "read" /\ call.at # 0
     => \E m \in MessagesOf(d, call.conv) : m.at = call.at

Fresh(now, d) == now \in Times \ {0} /\ \A m \in d.messages : m.at # now

\* The message of a send.
Sent(call, now) == [conv |-> call.conv, from |-> call.profile, user |-> call.user, at |-> now]

-----------------------------------------------------------------------------
(* What each call does to the rows                                         *)

LEMMA CallKinds ==
  ASSUME NEW call \in CallType
  PROVE  /\ call.kind \in {"like", "unlike", "send", "read", "react", "unreact"}
         /\ call.profile \in Profiles /\ call.conv \in Pairs
         /\ call.kind = "send" => call.user \in Users
         /\ call.kind \in {"read", "react", "unreact"} => call.at \in Times
BY DEF CallType

LEMMA RowsTyped ==
  ASSUME NEW d \in RowsType
  PROVE  /\ d.likes \subseteq Profiles \X Profiles /\ d.convs \subseteq Pairs
         /\ d.messages \subseteq Message
         /\ d.reads \in [Pairs -> Reads] /\ d.lastMessageAt \in [Pairs -> Times]
         /\ d.reactions \subseteq Times \X Profiles
         /\ d.notifications \subseteq Notice /\ d.jobs \subseteq Notice
BY DEF RowsType

\* Only the direction of one profile changes.
LEMMA LikeLocal ==
  ASSUME NEW c \in Pairs, NEW p \in c, NEW k \in Pairs, k # c, NEW q \in k
  PROVE  <<q, Other(k, q)>> # <<p, Other(c, p)>>
<1>1. SUFFICES ASSUME <<q, Other(k, q)>> = <<p, Other(c, p)>> PROVE FALSE
  OBVIOUS
<1>2. q = p /\ Other(k, q) = Other(c, p)
  BY <1>1
<1> QED
  BY <1>2, SamePair

LEMMA LikeRows ==
  ASSUME NEW d \in RowsType, NEW call \in CallType, call.profile \in call.conv, call.kind = "like"
  PROVE  LET e == Like(call, d)
             x == <<call.profile, Other(call.conv, call.profile)>>
         IN  /\ e \in RowsType /\ e.likes = d.likes \cup {x}
             /\ e.convs = IF Matched(LikeOnly(call, d), call.conv) THEN d.convs \cup {call.conv} ELSE d.convs
             /\ e.messages = d.messages /\ e.reads = d.reads /\ e.lastMessageAt = d.lastMessageAt
             /\ e.reactions = d.reactions /\ e.notifications = d.notifications /\ e.jobs = d.jobs
<1> DEFINE x == <<call.profile, Other(call.conv, call.profile)>>
           l == LikeOnly(call, d)
<1>1. x \in Profiles \X Profiles /\ call.conv \in Pairs
  BY PairOf, CallKinds
<1>2. /\ l \in RowsType /\ l.likes = d.likes \cup {x} /\ l.convs = d.convs
      /\ l.messages = d.messages /\ l.reads = d.reads /\ l.lastMessageAt = d.lastMessageAt
      /\ l.reactions = d.reactions /\ l.notifications = d.notifications /\ l.jobs = d.jobs
  BY <1>1 DEF LikeOnly, RowsType
<1> HIDE DEF l
<1> DEFINE f == [l EXCEPT !.convs = @ \cup {call.conv}]
<1>3. /\ f \in RowsType /\ f.likes = l.likes /\ f.convs = l.convs \cup {call.conv}
      /\ f.messages = l.messages /\ f.reads = l.reads /\ f.lastMessageAt = l.lastMessageAt
      /\ f.reactions = l.reactions /\ f.notifications = l.notifications /\ f.jobs = l.jobs
  BY <1>1, <1>2 DEF RowsType
<1>4. Like(call, d) = IF Matched(l, call.conv) THEN f ELSE l
  BY DEF Like, l
<1> HIDE DEF f, x
<1> QED
  BY <1>2, <1>3, <1>4 DEF l, x

LEMMA UnlikeRows ==
  ASSUME NEW d \in RowsType, NEW call \in CallType, call.kind = "unlike"
  PROVE  LET e == Unlike(call, d)
         IN  /\ e \in RowsType
             /\ e.likes = d.likes \ {<<call.profile, Other(call.conv, call.profile)>>}
             /\ e.convs = d.convs
             /\ e.messages = d.messages /\ e.reads = d.reads /\ e.lastMessageAt = d.lastMessageAt
             /\ e.reactions = d.reactions /\ e.notifications = d.notifications /\ e.jobs = d.jobs
BY DEF Unlike, RowsType

\* One read position more, or a greater one.
LEMMA ReadsAdvance ==
  ASSUME NEW d \in RowsType, \A c \in Pairs : d.reads[c] \in [c -> Times],
         NEW c \in Pairs, NEW p \in c, NEW t \in Times
  PROVE  LET r == [d.reads EXCEPT ![c][p] = t]
         IN  /\ r \in [Pairs -> Reads] /\ \A k \in Pairs : r[k] \in [k -> Times]
             /\ \A k \in Pairs \ {c} : r[k] = d.reads[k]
             /\ r[c] = [d.reads[c] EXCEPT ![p] = t]
<1> DEFINE f == [d.reads[c] EXCEPT ![p] = t]
           r == [d.reads EXCEPT ![c] = f]
<1>1. f \in [c -> Times]
  OBVIOUS
<1>2. \A k \in Pairs : [k -> Times] \subseteq Reads
  BY DEF Reads
<1>3. d.reads \in [Pairs -> Reads]
  BY RowsTyped
<1> HIDE DEF f
<1>4. r \in [Pairs -> Reads] /\ r[c] = f /\ \A k \in Pairs \ {c} : r[k] = d.reads[k]
  BY <1>1, <1>2, <1>3
<1>5. \A k \in Pairs : r[k] \in [k -> Times]
  BY <1>1, <1>4
<1> QED
  BY <1>4, <1>5 DEF f

\* What a send leaves, e, of the rows d.
SendsInto(call, d, e, now) ==
  LET m == Sent(call, now)
      c == call.conv
  IN  /\ e \in RowsType /\ e.likes = d.likes /\ e.convs = d.convs
      /\ m \in Message /\ e.messages = d.messages \cup {m}
      /\ \A k \in Pairs : e.reads[k] \in [k -> Times]
      /\ \A k \in Pairs \ {c} : e.reads[k] = d.reads[k] /\ e.lastMessageAt[k] = d.lastMessageAt[k]
      /\ e.reads[c] = [d.reads[c] EXCEPT ![call.profile] = now] /\ e.lastMessageAt[c] = now
      /\ e.reactions = d.reactions
      /\ e.notifications = d.notifications \cup NotificationsOf(m)
      /\ e.jobs = d.jobs \cup PushJobsOf(m)

LEMMA SendRows ==
  ASSUME NEW d \in RowsType, \A c \in Pairs : d.reads[c] \in [c -> Times],
         NEW call \in CallType, call.profile \in call.conv, call.kind = "send", NEW now \in Times \ {0}
  PROVE  SendsInto(call, d, Send(call, d, now), now)
<1> DEFINE e == Send(call, d, now)
           m == Sent(call, now)
<1>1. call.conv \in Pairs /\ call.profile \in Profiles /\ call.user \in Users
  BY CallKinds
<1>2. m \in Message
  BY <1>1 DEF Sent, Message
<1>3. NotificationsOf(m) \subseteq Notice /\ PushJobsOf(m) \subseteq Notice
  <2>1. Recipients(m) \subseteq Users
    <3>1. m.conv \in Pairs /\ m.from \in m.conv
      BY <1>1 DEF Sent
    <3>2. Other(m.conv, m.from) \in Profiles
      BY <3>1, PairOf
    <3> QED
      BY <3>2, MembersAssumption DEF Recipients
  <2>2. m.at \in Times
    BY <1>2 DEF Message
  <2> HIDE DEF m
  <2> QED
    BY <2>1, <2>2 DEF NotificationsOf, PushJobsOf, Notice
<1> DEFINE r == [d.reads EXCEPT ![call.conv][call.profile] = now]
           a == [d.lastMessageAt EXCEPT ![call.conv] = now]
<1>4. /\ r \in [Pairs -> Reads] /\ \A k \in Pairs : r[k] \in [k -> Times]
      /\ \A k \in Pairs \ {call.conv} : r[k] = d.reads[k]
      /\ r[call.conv] = [d.reads[call.conv] EXCEPT ![call.profile] = now]
  BY <1>1, ReadsAdvance
<1>5. /\ a \in [Pairs -> Times] /\ a[call.conv] = now
      /\ \A k \in Pairs \ {call.conv} : a[k] = d.lastMessageAt[k]
  BY <1>1, RowsTyped
<1>6. e = [d EXCEPT !.messages = @ \cup {m}, !.reads = r, !.lastMessageAt = a,
                    !.notifications = @ \cup NotificationsOf(m), !.jobs = @ \cup PushJobsOf(m)]
  BY DEF Send, Sent
<1> HIDE DEF e, r, a, m
<1>7. /\ e \in RowsType /\ e.likes = d.likes /\ e.convs = d.convs /\ e.messages = d.messages \cup {m}
      /\ e.reads = r /\ e.lastMessageAt = a /\ e.reactions = d.reactions
      /\ e.notifications = d.notifications \cup NotificationsOf(m)
      /\ e.jobs = d.jobs \cup PushJobsOf(m)
  BY <1>2, <1>3, <1>4, <1>5, <1>6 DEF RowsType
<1> QED
  BY <1>2, <1>4, <1>5, <1>7 DEF e, m, SendsInto

LEMMA LatestTime ==
  ASSUME NEW S, S \subseteq Times
  PROVE  Latest(S) \in Times
<1>1. CASE S = {}
  BY <1>1, NumberedTypes DEF Latest
<1>2. CASE S # {}
  <2>1. S \subseteq Nat /\ \A t \in S : t <= MaxClock
    BY NumberedTypes
  <2> QED
    BY <1>2, <2>1, LatestOf, LockAssumption
<1> QED
  BY <1>1, <1>2

\* The position that is acknowledged.
LEMMA TargetTyped ==
  ASSUME NEW d \in RowsType, NEW call \in CallType, call.kind = "read"
  PROVE  ReadTarget(call, d) \in Times
<1> DEFINE S == {m.at : m \in MessagesOf(d, call.conv)}
<1>1. S \subseteq Times
  BY RowsTyped DEF MessagesOf, Message
<1>2. Latest(S) \in Times
  BY <1>1, LatestTime
<1> QED
  BY <1>2, CallKinds DEF ReadTarget

LEMMA ReadRows ==
  ASSUME NEW d \in RowsType, \A c \in Pairs : d.reads[c] \in [c -> Times],
         NEW call \in CallType, call.profile \in call.conv, call.kind = "read"
  PROVE  LET e == MarkRead(call, d)
             t == ReadTarget(call, d)
         IN  /\ e \in RowsType /\ e.likes = d.likes /\ e.convs = d.convs /\ e.messages = d.messages
             /\ \A k \in Pairs : e.reads[k] \in [k -> Times]
             /\ \A k \in Pairs \ {call.conv} : e.reads[k] = d.reads[k]
             /\ e.reads[call.conv] = IF t > d.reads[call.conv][call.profile]
                                     THEN [d.reads[call.conv] EXCEPT ![call.profile] = t]
                                     ELSE d.reads[call.conv]
             /\ e.lastMessageAt = d.lastMessageAt /\ e.reactions = d.reactions
             /\ e.notifications = d.notifications /\ e.jobs = d.jobs
             /\ d = e <=> ~ (t > d.reads[call.conv][call.profile])
<1> DEFINE t == ReadTarget(call, d)
           r == [d.reads EXCEPT ![call.conv][call.profile] = t]
           f == [d EXCEPT !.reads = r]
<1>1. call.conv \in Pairs /\ call.profile \in Profiles /\ t \in Times
  BY CallKinds, TargetTyped
<1>2. /\ r \in [Pairs -> Reads] /\ \A k \in Pairs : r[k] \in [k -> Times]
      /\ \A k \in Pairs \ {call.conv} : r[k] = d.reads[k]
      /\ r[call.conv] = [d.reads[call.conv] EXCEPT ![call.profile] = t]
  BY <1>1, ReadsAdvance
<1>3. MarkRead(call, d) = IF t > d.reads[call.conv][call.profile] THEN f ELSE d
  BY DEF MarkRead, Advances
<1> HIDE DEF r
<1>4. /\ f \in RowsType /\ f.likes = d.likes /\ f.convs = d.convs /\ f.messages = d.messages
      /\ f.reads = r /\ f.lastMessageAt = d.lastMessageAt /\ f.reactions = d.reactions
      /\ f.notifications = d.notifications /\ f.jobs = d.jobs
  BY <1>2 DEF RowsType
<1>5. t > d.reads[call.conv][call.profile] => f # d
  <2>1. d.reads[call.conv][call.profile] \in Times /\ r[call.conv][call.profile] = t
    BY <1>1, <1>2
  <2> DEFINE now == d.reads[call.conv][call.profile]
  <2>2. now \in Nat /\ t \in Nat
    BY <1>1, <2>1, NumberedTypes
  <2>3. t > now => t # now
    <3> HIDE DEF now, t
    <3> QED
      BY <2>2
  <2>4. t > d.reads[call.conv][call.profile] => r # d.reads
    BY <2>1, <2>3
  <2> QED
    BY <1>4, <2>4
<1> HIDE DEF f, t
<1> QED
  BY <1>2, <1>3, <1>4, <1>5 DEF t

LEMMA ReactRows ==
  ASSUME NEW d \in RowsType, NEW call \in CallType, call.kind \in {"react", "unreact"}
  PROVE  LET e == IF call.kind = "react" THEN React(call, d) ELSE Unreact(call, d)
             x == <<call.at, call.profile>>
         IN  /\ e \in RowsType /\ e.likes = d.likes /\ e.convs = d.convs /\ e.messages = d.messages
             /\ e.reads = d.reads /\ e.lastMessageAt = d.lastMessageAt
             /\ e.reactions = IF call.kind = "react" THEN d.reactions \cup {x} ELSE d.reactions \ {x}
             /\ e.notifications = d.notifications /\ e.jobs = d.jobs
             /\ d = e <=> (x \in d.reactions <=> call.kind = "react")
<1> DEFINE x == <<call.at, call.profile>>
           R == IF call.kind = "react" THEN d.reactions \cup {x} ELSE d.reactions \ {x}
           e == IF call.kind = "react" THEN React(call, d) ELSE Unreact(call, d)
<1>1. x \in Times \X Profiles /\ d.reactions \subseteq Times \X Profiles
  BY CallKinds, RowsTyped
<1>2. R \subseteq Times \X Profiles
  BY <1>1
<1>3. e = [d EXCEPT !.reactions = R]
  BY DEF React, Unreact
<1>4. R = d.reactions <=> (x \in d.reactions <=> call.kind = "react")
  OBVIOUS
<1> HIDE DEF R, e
<1>5. /\ e \in RowsType /\ e.likes = d.likes /\ e.convs = d.convs /\ e.messages = d.messages
      /\ e.reads = d.reads /\ e.lastMessageAt = d.lastMessageAt /\ e.reactions = R
      /\ e.notifications = d.notifications /\ e.jobs = d.jobs
  BY <1>2, <1>3 DEF RowsType
<1>6. d = e <=> R = d.reactions
  BY <1>3, <1>5 DEF RowsType
<1> QED
  BY <1>4, <1>5, <1>6 DEF R, e

-----------------------------------------------------------------------------
(* Every call keeps the rows sound                                         *)

\* The notifications of a message are about it.
LEMMA NoticesOf ==
  ASSUME NEW m
  PROVE  /\ PushJobsOf(m) \subseteq NotificationsOf(m)
         /\ \A n \in NotificationsOf(m) : n.at = m.at
         /\ \A u, t : [user |-> u, at |-> t] \in NotificationsOf(m) <=> u \in Recipients(m) /\ t = m.at
         /\ \A u, t : [user |-> u, at |-> t] \in PushJobsOf(m)
                        <=> u \in Recipients(m) /\ u \in Pushable /\ t = m.at
<1>1. \A n \in NotificationsOf(m) : n.at = m.at
  BY DEF NotificationsOf
<1>2. ASSUME NEW u, NEW t
      PROVE  [user |-> u, at |-> t] \in NotificationsOf(m) <=> u \in Recipients(m) /\ t = m.at
  <2>1. ASSUME [user |-> u, at |-> t] \in NotificationsOf(m) PROVE u \in Recipients(m) /\ t = m.at
    <3>1. PICK v \in Recipients(m) : [user |-> u, at |-> t] = [user |-> v, at |-> m.at]
      BY <2>1 DEF NotificationsOf
    <3>2. [user |-> u, at |-> t].user = u /\ [user |-> u, at |-> t].at = t
          /\ [user |-> v, at |-> m.at].user = v /\ [user |-> v, at |-> m.at].at = m.at
      OBVIOUS
    <3> QED
      BY <3>1, <3>2
  <2> QED
    BY <2>1 DEF NotificationsOf
<1>3. ASSUME NEW u, NEW t
      PROVE  [user |-> u, at |-> t] \in PushJobsOf(m) <=> u \in Recipients(m) /\ u \in Pushable /\ t = m.at
  <2>1. [user |-> u, at |-> t].user = u
    OBVIOUS
  <2> QED
    BY <1>2, <2>1 DEF PushJobsOf
<1>4. PushJobsOf(m) \subseteq NotificationsOf(m)
  BY DEF PushJobsOf
<1> QED
  BY <1>1, <1>2, <1>3, <1>4

LEMMA EffectKinds ==
  ASSUME NEW call \in CallType, NEW d, NEW now
  PROVE  /\ call.kind = "like" => Effect(call, d, now) = Like(call, d)
         /\ call.kind = "unlike" => Effect(call, d, now) = Unlike(call, d)
         /\ call.kind = "send" => Effect(call, d, now) = Send(call, d, now)
         /\ call.kind = "read" => Effect(call, d, now) = MarkRead(call, d)
         /\ call.kind \in {"react", "unreact"} =>
              Effect(call, d, now) = IF call.kind = "react" THEN React(call, d) ELSE Unreact(call, d)
BY DEF Effect

LEMMA MatchedByLikes ==
  ASSUME NEW d, NEW e, NEW c, \A p \in c : <<p, Other(c, p)>> \in d.likes <=> <<p, Other(c, p)>> \in e.likes
  PROVE  Matched(d, c) <=> Matched(e, c)
BY DEF Matched

LEMMA LikeSound ==
  ASSUME NEW d, RowsSound(d), NEW call, CallSound(call, d), call.kind = "like"
  PROVE  RowsSound(Like(call, d))
<1> DEFINE e == Like(call, d)
           l == LikeOnly(call, d)
           x == <<call.profile, Other(call.conv, call.profile)>>
<1>1. d \in RowsType /\ call \in CallType /\ call.profile \in call.conv /\ call.conv \in Pairs
  BY CallKinds DEF RowsSound, CallSound
<1>2. /\ e \in RowsType /\ e.likes = d.likes \cup {x}
      /\ e.convs = IF Matched(l, call.conv) THEN d.convs \cup {call.conv} ELSE d.convs
      /\ e.messages = d.messages /\ e.reads = d.reads
      /\ e.reactions = d.reactions /\ e.notifications = d.notifications /\ e.jobs = d.jobs
  BY <1>1, LikeRows
<1>3. l.likes = d.likes \cup {x}
  BY <1>1 DEF LikeOnly, RowsType
<1> HIDE DEF e, l
<1>4. ASSUME NEW c \in Pairs, Matched(e, c) PROVE c \in e.convs
  <2>1. CASE c = call.conv
    BY <1>2, <1>3, <1>4, <2>1, MatchedByLikes
  <2>2. CASE c # call.conv
    <3>1. \A q \in c : <<q, Other(c, q)>> # x
      BY <1>1, <2>2, LikeLocal
    <3>2. Matched(d, c)
      BY <1>2, <1>4, <3>1 DEF Matched
    <3> QED
      BY <1>2, <3>2 DEF RowsSound
  <2> QED
    BY <2>1, <2>2
<1> QED
  BY <1>2, <1>4 DEF RowsSound, e

LEMMA UnlikeSound ==
  ASSUME NEW d, RowsSound(d), NEW call, CallSound(call, d), call.kind = "unlike"
  PROVE  RowsSound(Unlike(call, d))
<1> DEFINE e == Unlike(call, d)
<1>1. d \in RowsType /\ call \in CallType
  BY DEF RowsSound, CallSound
<1>2. /\ e \in RowsType /\ e.likes \subseteq d.likes /\ e.convs = d.convs
      /\ e.messages = d.messages /\ e.reads = d.reads
      /\ e.reactions = d.reactions /\ e.notifications = d.notifications /\ e.jobs = d.jobs
  BY <1>1, UnlikeRows
<1> HIDE DEF e
<1>3. \A c \in Pairs : Matched(e, c) => c \in e.convs
  BY <1>2 DEF RowsSound, Matched
<1> QED
  BY <1>2, <1>3 DEF RowsSound, e

LEMMA SendSound ==
  ASSUME NEW d, RowsSound(d), NEW call, CallSound(call, d), call.kind = "send",
         NEW now, Fresh(now, d)
  PROVE  RowsSound(Send(call, d, now))
<1> DEFINE e == Send(call, d, now)
           m == Sent(call, now)
<1>1. d \in RowsType /\ call \in CallType /\ call.profile \in call.conv /\ call.conv \in d.convs
      /\ \A c \in Pairs : d.reads[c] \in [c -> Times]
  BY DEF RowsSound, CallSound
<1>2. now \in Times \ {0} /\ \A n \in d.messages : n.at # now
  BY DEF Fresh
<1>3. /\ e \in RowsType /\ e.likes = d.likes /\ e.convs = d.convs
      /\ e.messages = d.messages \cup {m}
      /\ \A k \in Pairs : e.reads[k] \in [k -> Times]
      /\ e.reactions = d.reactions
      /\ e.notifications = d.notifications \cup NotificationsOf(m)
      /\ e.jobs = d.jobs \cup PushJobsOf(m)
  <2>1. SendsInto(call, d, e, now)
    BY <1>1, <1>2, SendRows
  <2> QED
    BY <2>1 DEF SendsInto
<1>4. m.from \in m.conv /\ m.conv \in d.convs /\ m.at = now
  BY <1>1 DEF Sent
<1> HIDE DEF e, m
<1>5. IsFiniteSet(e.messages)
  BY <1>3, FS_AddElement DEF RowsSound
<1>6. \A c \in Pairs : Matched(e, c) => c \in e.convs
  BY <1>3 DEF RowsSound, Matched
<1>7. e.jobs \subseteq e.notifications /\ \A n \in e.notifications : \E k \in e.messages : k.at = n.at
  BY <1>3, NoticesOf DEF RowsSound
<1>8. \A x \in e.reactions : \E k \in e.messages : k.at = x[1]
  BY <1>3 DEF RowsSound
<1>9. /\ \A k \in e.messages : k.from \in k.conv /\ k.conv \in e.convs
      /\ \A k, n \in e.messages : k.at = n.at => k = n
  BY <1>2, <1>3, <1>4 DEF RowsSound
<1> QED
  BY <1>3, <1>5, <1>6, <1>7, <1>8, <1>9 DEF RowsSound, e

LEMMA ReadSound ==
  ASSUME NEW d, RowsSound(d), NEW call, CallSound(call, d), call.kind = "read"
  PROVE  RowsSound(MarkRead(call, d))
<1> DEFINE e == MarkRead(call, d)
<1>1. d \in RowsType /\ call \in CallType /\ call.profile \in call.conv
      /\ \A c \in Pairs : d.reads[c] \in [c -> Times]
  BY DEF RowsSound, CallSound
<1>2. /\ e \in RowsType /\ e.likes = d.likes /\ e.convs = d.convs /\ e.messages = d.messages
      /\ \A k \in Pairs : e.reads[k] \in [k -> Times]
      /\ e.reactions = d.reactions /\ e.notifications = d.notifications /\ e.jobs = d.jobs
  BY <1>1, ReadRows
<1> HIDE DEF e
<1>3. \A c \in Pairs : Matched(e, c) => c \in e.convs
  BY <1>2 DEF RowsSound, Matched
<1> QED
  BY <1>2, <1>3 DEF RowsSound, e

LEMMA ReactSound ==
  ASSUME NEW d, RowsSound(d), NEW call, CallSound(call, d), call.kind \in {"react", "unreact"}
  PROVE  RowsSound(IF call.kind = "react" THEN React(call, d) ELSE Unreact(call, d))
<1> DEFINE e == IF call.kind = "react" THEN React(call, d) ELSE Unreact(call, d)
<1>1. d \in RowsType /\ call \in CallType
  BY DEF RowsSound, CallSound
<1>2. /\ e \in RowsType /\ e.likes = d.likes /\ e.convs = d.convs /\ e.messages = d.messages
      /\ e.reads = d.reads /\ e.notifications = d.notifications /\ e.jobs = d.jobs
      /\ \A x \in e.reactions : x \in d.reactions \/ x = <<call.at, call.profile>>
  <2> DEFINE y == <<call.at, call.profile>>
  <2>1. /\ e \in RowsType /\ e.likes = d.likes /\ e.convs = d.convs /\ e.messages = d.messages
        /\ e.reads = d.reads /\ e.notifications = d.notifications /\ e.jobs = d.jobs
        /\ e.reactions = IF call.kind = "react" THEN d.reactions \cup {y} ELSE d.reactions \ {y}
    BY <1>1, ReactRows
  <2> HIDE DEF e, y
  <2>2. \A x \in e.reactions : x \in d.reactions \/ x = y
    BY <2>1
  <2> QED
    BY <2>1, <2>2 DEF y
<1>3. PICK m \in MessagesOf(d, call.conv) : m.at = call.at
  BY DEF CallSound
<1>4. m \in d.messages
  BY <1>3 DEF MessagesOf
<1> HIDE DEF e
<1>5. \A x \in e.reactions : \E n \in e.messages : n.at = x[1]
  <2> TAKE x \in e.reactions
  <2>1. CASE x \in d.reactions
    BY <1>2, <2>1 DEF RowsSound
  <2>2. CASE x = <<call.at, call.profile>>
    BY <1>2, <1>3, <1>4, <2>2
  <2> QED
    BY <1>2, <2>1, <2>2
<1>6. \A c \in Pairs : Matched(e, c) => c \in e.convs
  BY <1>2 DEF RowsSound, Matched
<1> QED
  BY <1>2, <1>5, <1>6 DEF RowsSound, e

LEMMA EffectSound ==
  ASSUME NEW d, RowsSound(d), NEW call, CallSound(call, d), NEW now, Fresh(now, d)
  PROVE  RowsSound(Effect(call, d, now))
<1>1. call \in CallType
  BY DEF CallSound
<1> QED
  BY <1>1, CallKinds, EffectKinds, LikeSound, UnlikeSound, SendSound, ReadSound, ReactSound

-----------------------------------------------------------------------------
(* The outcome of any call, field by field                                 *)

LikeOf(call) == <<call.profile, Other(call.conv, call.profile)>>
ReactionOf(call) == <<call.at, call.profile>>

\* The read position of its author that a call moves, and where to.
Moves(call, d) ==
  \/ call.kind = "send"
  \/ call.kind = "read" /\ ReadTarget(call, d) > d.reads[call.conv][call.profile]
Position(call, d, now) == IF call.kind = "send" THEN now ELSE ReadTarget(call, d)

Outcome(call, d, e, now) ==
  LET c == call.conv
      m == Sent(call, now)
  IN
  /\ e.likes = CASE call.kind = "like" -> d.likes \cup {LikeOf(call)}
                 [] call.kind = "unlike" -> d.likes \ {LikeOf(call)}
                 [] OTHER -> d.likes
  /\ d.convs \subseteq e.convs /\ e.convs \subseteq d.convs \cup {c}
  /\ call.kind # "like" => e.convs = d.convs
  /\ call.kind = "like" => (c \in e.convs <=> c \in d.convs \/ Matched(e, c))
  /\ e.messages = IF call.kind = "send" THEN d.messages \cup {m} ELSE d.messages
  /\ \A k \in Pairs \ {c} : e.reads[k] = d.reads[k] /\ e.lastMessageAt[k] = d.lastMessageAt[k]
  /\ e.reads[c] = IF Moves(call, d)
                  THEN [d.reads[c] EXCEPT ![call.profile] = Position(call, d, now)] ELSE d.reads[c]
  /\ e.lastMessageAt[c] = IF call.kind = "send" THEN now ELSE d.lastMessageAt[c]
  /\ e.reactions = CASE call.kind = "react" -> d.reactions \cup {ReactionOf(call)}
                     [] call.kind = "unreact" -> d.reactions \ {ReactionOf(call)}
                     [] OTHER -> d.reactions
  /\ e.notifications = IF call.kind = "send" THEN d.notifications \cup NotificationsOf(m)
                       ELSE d.notifications
  /\ e.jobs = IF call.kind = "send" THEN d.jobs \cup PushJobsOf(m) ELSE d.jobs
  /\ call.kind = "read" => (d = e <=> ~ Moves(call, d))
  /\ call.kind \in {"react", "unreact"} =>
       (d = e <=> (ReactionOf(call) \in d.reactions <=> call.kind = "react"))

LEMMA EffectOutcome ==
  ASSUME NEW d, RowsSound(d), NEW call, CallSound(call, d), NEW now, Fresh(now, d)
  PROVE  Outcome(call, d, Effect(call, d, now), now)
<1> DEFINE e == Effect(call, d, now)
<1>1. d \in RowsType /\ call \in CallType /\ call.profile \in call.conv
      /\ \A c \in Pairs : d.reads[c] \in [c -> Times]
  BY DEF RowsSound, CallSound
<1>2. call.kind \in {"like", "unlike", "send", "read", "react", "unreact"} /\ call.conv \in Pairs
  BY <1>1, CallKinds
<1>3. CASE call.kind = "like"
  <2>1. e = Like(call, d)
    BY <1>1, <1>3, EffectKinds
  <2> DEFINE l == LikeOnly(call, d)
  <2>2. l.likes = d.likes \cup {LikeOf(call)}
    BY <1>1 DEF LikeOnly, RowsType, LikeOf
  <2> HIDE DEF e, l
  <2>3. /\ e.likes = d.likes \cup {LikeOf(call)}
        /\ e.convs = IF Matched(l, call.conv) THEN d.convs \cup {call.conv} ELSE d.convs
        /\ e.messages = d.messages /\ e.reads = d.reads /\ e.lastMessageAt = d.lastMessageAt
        /\ e.reactions = d.reactions /\ e.notifications = d.notifications /\ e.jobs = d.jobs
    BY <1>1, <1>3, <2>1, LikeRows DEF l, LikeOf
  <2>4. Matched(l, call.conv) <=> Matched(e, call.conv)
    BY <2>2, <2>3, MatchedByLikes
  <2>5. d.convs \subseteq e.convs /\ e.convs \subseteq d.convs \cup {call.conv}
        /\ (call.conv \in e.convs <=> call.conv \in d.convs \/ Matched(e, call.conv))
    BY <2>3, <2>4
  <2>6. ~ Moves(call, d)
    BY <1>3 DEF Moves
  <2> QED
    BY <1>3, <2>3, <2>5, <2>6 DEF Outcome, e
<1>4. CASE call.kind = "unlike"
  <2>1. e = Unlike(call, d)
    BY <1>1, <1>4, EffectKinds
  <2> HIDE DEF e
  <2>2. /\ e.likes = d.likes \ {LikeOf(call)} /\ e.convs = d.convs
        /\ e.messages = d.messages /\ e.reads = d.reads /\ e.lastMessageAt = d.lastMessageAt
        /\ e.reactions = d.reactions /\ e.notifications = d.notifications /\ e.jobs = d.jobs
    BY <1>1, <1>4, <2>1, UnlikeRows DEF LikeOf
  <2>3. ~ Moves(call, d)
    BY <1>4 DEF Moves
  <2> QED
    BY <1>4, <2>2, <2>3 DEF Outcome, e
<1>5. CASE call.kind = "send"
  <2>1. e = Send(call, d, now)
    BY <1>1, <1>5, EffectKinds
  <2>2. now \in Times \ {0}
    BY DEF Fresh
  <2> HIDE DEF e
  <2>3. SendsInto(call, d, e, now)
    BY <1>1, <1>5, <2>1, <2>2, SendRows
  <2>4. Moves(call, d) /\ Position(call, d, now) = now
    BY <1>5 DEF Moves, Position
  <2> QED
    BY <1>5, <2>3, <2>4 DEF Outcome, SendsInto, e
<1>6. CASE call.kind = "read"
  <2>1. e = MarkRead(call, d)
    BY <1>1, <1>6, EffectKinds
  <2> DEFINE t == ReadTarget(call, d)
  <2> HIDE DEF e
  <2>2. /\ e.likes = d.likes /\ e.convs = d.convs /\ e.messages = d.messages
        /\ \A k \in Pairs \ {call.conv} : e.reads[k] = d.reads[k]
        /\ e.reads[call.conv] = IF t > d.reads[call.conv][call.profile]
                                THEN [d.reads[call.conv] EXCEPT ![call.profile] = t]
                                ELSE d.reads[call.conv]
        /\ e.lastMessageAt = d.lastMessageAt /\ e.reactions = d.reactions
        /\ e.notifications = d.notifications /\ e.jobs = d.jobs
        /\ d = e <=> ~ (t > d.reads[call.conv][call.profile])
    BY <1>1, <1>6, <2>1, ReadRows
  <2>3. (Moves(call, d) <=> t > d.reads[call.conv][call.profile]) /\ Position(call, d, now) = t
    BY <1>6 DEF Moves, Position
  <2> HIDE DEF t
  <2> QED
    BY <1>6, <2>2, <2>3 DEF Outcome, e
<1>7. CASE call.kind \in {"react", "unreact"}
  <2>1. e = IF call.kind = "react" THEN React(call, d) ELSE Unreact(call, d)
    BY <1>1, <1>7, EffectKinds
  <2> DEFINE x == ReactionOf(call)
  <2> HIDE DEF e
  <2>2. /\ e.likes = d.likes /\ e.convs = d.convs /\ e.messages = d.messages
        /\ e.reads = d.reads /\ e.lastMessageAt = d.lastMessageAt
        /\ e.reactions = IF call.kind = "react" THEN d.reactions \cup {x} ELSE d.reactions \ {x}
        /\ e.notifications = d.notifications /\ e.jobs = d.jobs
        /\ d = e <=> (x \in d.reactions <=> call.kind = "react")
    BY <1>1, <1>7, <2>1, ReactRows DEF ReactionOf
  <2>3. ~ Moves(call, d)
    BY <1>7 DEF Moves
  <2> HIDE DEF x
  <2> QED
    BY <1>7, <2>2, <2>3 DEF Outcome, e, x
<1> HIDE DEF e
<1> QED
  BY <1>2, <1>3, <1>4, <1>5, <1>6, <1>7 DEF e

-----------------------------------------------------------------------------
(* What two states of the rows have in common for one conversation         *)

Tied(c, u) == \E p \in c : u \in Members[p]
Only(d, p, c) == \A k \in d.convs : p \in k => k = c
OnlyUser(d, u, c) == \A k \in d.convs : Tied(k, u) => k = c
NoticesFor(d, u) == {n \in d.notifications : n.user = u}
UnseenIn(d, c, p) == {m \in MessagesOf(d, c) : Unseen(d, p, m)}

SameConv(d, e, c) ==
  /\ c \in d.convs <=> c \in e.convs
  /\ \A p \in c : <<p, Other(c, p)>> \in d.likes <=> <<p, Other(c, p)>> \in e.likes
  /\ MessagesOf(d, c) = MessagesOf(e, c)
  /\ d.reads[c] = e.reads[c] /\ d.lastMessageAt[c] = e.lastMessageAt[c]
  /\ \A m \in MessagesOf(d, c), p \in Profiles :
       <<m.at, p>> \in d.reactions <=> <<m.at, p>> \in e.reactions

\* The rows have become e from d, and conversation c was not concerned.
Apart(d, e, c) ==
  /\ SameConv(d, e, c)
  /\ d.convs \subseteq e.convs
  /\ \A u : OnlyUser(e, u, c) => NoticesFor(e, u) = NoticesFor(d, u)

LEMMA SameReading ==
  ASSUME NEW d, NEW e, NEW c, SameConv(d, e, c)
  PROVE  /\ Matched(d, c) = Matched(e, c)
         /\ \A p : UnseenIn(d, c, p) = UnseenIn(e, c, p)
         /\ \A p : Projection(d, c, p) = Projection(e, c, p)
<1>1. Matched(d, c) = Matched(e, c)
  BY DEF SameConv, Matched
<1>2. MessagesOf(d, c) = MessagesOf(e, c) /\ d.reads[c] = e.reads[c]
      /\ d.lastMessageAt[c] = e.lastMessageAt[c]
  BY DEF SameConv
<1>3. ASSUME NEW p PROVE UnseenIn(d, c, p) = UnseenIn(e, c, p)
  <2>1. \A m \in MessagesOf(d, c) : m.conv = c
    BY DEF MessagesOf
  <2>2. \A m \in MessagesOf(d, c) : Unseen(d, p, m) <=> Unseen(e, p, m)
    BY <1>2, <2>1 DEF Unseen
  <2> QED
    BY <1>2, <2>2 DEF UnseenIn
<1>4. ASSUME NEW p PROVE Projection(d, c, p) = Projection(e, c, p)
  BY <1>1, <1>2, <1>3 DEF Projection, UnseenIn
<1> QED
  BY <1>1, <1>3, <1>4

\* A call concerns the conversation of its pair and no other.
LEMMA EffectApart ==
  ASSUME NEW d, RowsSound(d), NEW call, CallSound(call, d), NEW now, Fresh(now, d),
         NEW c \in Pairs, c # call.conv
  PROVE  Apart(d, Effect(call, d, now), c)
<1> DEFINE e == Effect(call, d, now)
           m == Sent(call, now)
<1>1. Outcome(call, d, e, now)
  BY EffectOutcome
<1>2. call \in CallType /\ call.profile \in call.conv
  BY DEF CallSound
<1>3. call.conv \in Pairs
  BY <1>2, CallKinds
<1> HIDE DEF e, m
<1>4. c \in d.convs <=> c \in e.convs
  BY <1>1 DEF Outcome
<1>5. ASSUME NEW p \in c PROVE <<p, Other(c, p)>> \in d.likes <=> <<p, Other(c, p)>> \in e.likes
  <2>1. <<p, Other(c, p)>> # LikeOf(call)
    BY <1>2, <1>3, LikeLocal DEF LikeOf
  <2> QED
    BY <1>1, <2>1 DEF Outcome
<1>6. MessagesOf(d, c) = MessagesOf(e, c)
  <2>1. m.conv = call.conv
    BY DEF m, Sent
  <2>2. e.messages = d.messages \/ e.messages = d.messages \cup {m}
    BY <1>1 DEF Outcome, m
  <2> QED
    BY <2>1, <2>2 DEF MessagesOf
<1>7. d.reads[c] = e.reads[c] /\ d.lastMessageAt[c] = e.lastMessageAt[c]
  BY <1>1 DEF Outcome
<1>8. ASSUME NEW n \in MessagesOf(d, c), NEW p \in Profiles
      PROVE  <<n.at, p>> \in d.reactions <=> <<n.at, p>> \in e.reactions
  <2>1. CASE call.kind \in {"react", "unreact"}
    <3>1. PICK k \in MessagesOf(d, call.conv) : k.at = call.at
      BY <2>1 DEF CallSound
    <3>2. n \in d.messages /\ k \in d.messages /\ n.conv = c /\ k.conv = call.conv
      BY <3>1 DEF MessagesOf
    <3>3. n.at # call.at
      BY <3>1, <3>2 DEF RowsSound
    <3>4. <<n.at, p>> # ReactionOf(call)
      BY <3>3 DEF ReactionOf
    <3> QED
      BY <1>1, <3>4 DEF Outcome
  <2>2. CASE call.kind \notin {"react", "unreact"}
    BY <1>1, <2>2 DEF Outcome
  <2> QED
    BY <2>1, <2>2
<1>9. d.convs \subseteq e.convs
  BY <1>1 DEF Outcome
<1>10. ASSUME NEW u, OnlyUser(e, u, c) PROVE NoticesFor(e, u) = NoticesFor(d, u)
  <2>1. CASE call.kind = "send"
    <3>1. e.notifications = d.notifications \cup NotificationsOf(m)
      BY <1>1, <2>1 DEF Outcome, m
    <3>2. call.conv \in e.convs
      BY <1>9, <2>1 DEF CallSound
    <3>3. ~ Tied(call.conv, u)
      BY <1>10, <3>2 DEF OnlyUser
    <3>4. u \notin Recipients(m)
      <4>1. m.conv = call.conv /\ m.from = call.profile
        BY DEF m, Sent
      <4>2. Other(call.conv, call.profile) \in call.conv
        BY <1>2, <1>3, PairOf
      <4> QED
        BY <3>3, <4>1, <4>2 DEF Recipients, Tied
    <3>5. \A n \in NotificationsOf(m) : n.user # u
      BY <3>4 DEF NotificationsOf
    <3> QED
      BY <3>1, <3>5 DEF NoticesFor
  <2>2. CASE call.kind # "send"
    BY <1>1, <2>2 DEF Outcome, NoticesFor
  <2> QED
    BY <2>1, <2>2
<1> QED
  BY <1>4, <1>5, <1>6, <1>7, <1>8, <1>9, <1>10 DEF Apart, SameConv, e

\* Calls stay sound as rows are added.
LEMMA CallStays ==
  ASSUME NEW d, NEW e, NEW call, CallSound(call, d), d.convs \subseteq e.convs,
         d.messages \subseteq e.messages
  PROVE  CallSound(call, e)
BY DEF CallSound, MessagesOf

\* What a call does to its conversation depends on this conversation only.
LEMMA EffectSame ==
  ASSUME NEW d, RowsSound(d), NEW e, RowsSound(e), NEW call, CallSound(call, d), CallSound(call, e),
         NEW now, Fresh(now, d), Fresh(now, e), SameConv(d, e, call.conv)
  PROVE  /\ SameConv(Effect(call, d, now), Effect(call, e, now), call.conv)
         /\ IsSilent(call, d, Effect(call, d, now)) <=> IsSilent(call, e, Effect(call, e, now))
         /\ Moves(call, d) <=> Moves(call, e)
<1> DEFINE c == call.conv
           m == Sent(call, now)
           f == Effect(call, d, now)
           g == Effect(call, e, now)
<1>1. Outcome(call, d, f, now) /\ Outcome(call, e, g, now)
  BY EffectOutcome
<1>2. call \in CallType /\ call.profile \in call.conv
  BY DEF CallSound
<1>3. call.conv \in Pairs /\ call.profile \in Profiles
      /\ call.kind \in {"like", "unlike", "send", "read", "react", "unreact"}
  BY <1>2, CallKinds
<1>4. SameConv(d, e, c)
  OBVIOUS
<1>5. ReadTarget(call, d) = ReadTarget(call, e)
  BY DEF ReadTarget, SameConv
<1>6. (Moves(call, d) <=> Moves(call, e)) /\ Position(call, d, now) = Position(call, e, now)
  BY <1>5 DEF Moves, Position, SameConv
<1>7. m.conv = c /\ m.at = now
  BY DEF Sent
<1>8. call.kind = "send" => d # f /\ e # g
  <2>1. SUFFICES ASSUME call.kind = "send" PROVE d # f /\ e # g
    OBVIOUS
  <2>2. m \in f.messages /\ m \in g.messages
    BY <1>1, <2>1 DEF Outcome
  <2> HIDE DEF m, f, g
  <2> QED
    BY <1>7, <2>2 DEF Fresh
<1> HIDE DEF c, f, g, m
<1>9. \A p \in c : <<p, Other(c, p)>> \in f.likes <=> <<p, Other(c, p)>> \in g.likes
  <2> TAKE p \in c
  <2> DEFINE x == <<p, Other(c, p)>>
  <2>1. x \in d.likes <=> x \in e.likes
    BY <1>4 DEF SameConv
  <2> HIDE DEF x
  <2>2. x \in f.likes <=> x \in g.likes
    BY <1>1, <2>1 DEF Outcome
  <2> QED
    BY <2>2 DEF x
<1>10. Matched(f, c) <=> Matched(g, c)
  BY <1>9 DEF Matched
<1>11. c \in f.convs <=> c \in g.convs
  BY <1>1, <1>4, <1>10 DEF Outcome, SameConv, c
<1>12. MessagesOf(f, c) = MessagesOf(g, c)
  <2>1. MessagesOf(d, c) = MessagesOf(e, c)
    BY <1>4 DEF SameConv
  <2>2. CASE call.kind = "send"
    <3>1. f.messages = d.messages \cup {m} /\ g.messages = e.messages \cup {m}
      BY <1>1, <2>2 DEF Outcome, m
    <3> QED
      BY <2>1, <3>1 DEF MessagesOf
  <2>3. CASE call.kind # "send"
    BY <1>1, <2>1, <2>3 DEF Outcome, MessagesOf
  <2> QED
    BY <2>2, <2>3
<1>13. f.reads[c] = g.reads[c] /\ f.lastMessageAt[c] = g.lastMessageAt[c]
  BY <1>1, <1>4, <1>6 DEF Outcome, SameConv, c
<1>14. ASSUME NEW n \in MessagesOf(f, c), NEW p \in Profiles
       PROVE  <<n.at, p>> \in f.reactions <=> <<n.at, p>> \in g.reactions
  <2> DEFINE x == <<n.at, p>>
  <2>1. x \in d.reactions <=> x \in e.reactions
    <3>1. CASE n \in MessagesOf(d, c)
      BY <1>4, <3>1 DEF SameConv
    <3>2. CASE n \notin MessagesOf(d, c)
      <4>1. call.kind = "send" /\ n = m
        BY <1>1, <1>14, <3>2 DEF MessagesOf, Outcome, m
      <4>2. x[1] = now
        BY <1>7, <4>1
      <4>3. x \notin d.reactions /\ x \notin e.reactions
        <5> HIDE DEF x
        <5> QED
          BY <4>2 DEF RowsSound, Fresh
      <4> QED
        BY <4>3
    <3> QED
      BY <3>1, <3>2
  <2> HIDE DEF x
  <2>2. x \in f.reactions <=> x \in g.reactions
    BY <1>1, <2>1 DEF Outcome
  <2> QED
    BY <2>2 DEF x
<1>15. SameConv(f, g, c)
  BY <1>9, <1>11, <1>12, <1>13, <1>14 DEF SameConv
<1>16. IsSilent(call, d, f) <=> IsSilent(call, e, g)
  <2>1. CASE call.kind \in {"like", "unlike"}
    BY <1>11, <2>1 DEF IsSilent, c
  <2>2. CASE call.kind = "send"
    BY <1>8, <2>2 DEF IsSilent
  <2>3. CASE call.kind = "read"
    BY <1>1, <1>6, <2>3 DEF IsSilent, Outcome
  <2>4. CASE call.kind \in {"react", "unreact"}
    <3>1. PICK n \in MessagesOf(d, c) : n.at = call.at
      BY <2>4 DEF CallSound, c
    <3>2. ReactionOf(call) \in d.reactions <=> ReactionOf(call) \in e.reactions
      BY <1>3, <1>4, <3>1 DEF SameConv, ReactionOf
    <3>3. ~ (call.kind \in {"like", "unlike"})
      BY <2>4
    <3> QED
      BY <1>1, <2>4, <3>2, <3>3 DEF IsSilent, Outcome
  <2> QED
    BY <1>3, <2>1, <2>2, <2>3, <2>4
<1> QED
  BY <1>6, <1>15, <1>16 DEF c, f, g

-----------------------------------------------------------------------------
(* Counts                                                                  *)

\* The unread messages of a profile with one conversation are those in it.
LEMMA UnreadLocal ==
  ASSUME NEW d, RowsSound(d), NEW c, NEW p, Only(d, p, c)
  PROVE  UnreadCount(d, p) = Cardinality(UnseenIn(d, c, p))
<1>1. \A m \in d.messages : Unseen(d, p, m) => m.conv = c
  BY DEF RowsSound, Only, Unseen
<1>2. {m \in d.messages : Unseen(d, p, m)} = UnseenIn(d, c, p)
  BY <1>1 DEF UnseenIn, MessagesOf
<1> QED
  BY <1>2 DEF UnreadCount

LEMMA UnseenFinite ==
  ASSUME NEW d, RowsSound(d), NEW c, NEW p
  PROVE  /\ Cardinality(UnseenIn(d, c, p)) \in Nat /\ UnreadCount(d, p) \in Nat
         /\ IsFiniteSet(MessagesOf(d, c)) /\ Cardinality(MessagesOf(d, c)) \in Nat
<1>1. IsFiniteSet(d.messages)
  BY DEF RowsSound
<1>2. \A S \in SUBSET d.messages : IsFiniteSet(S) /\ Cardinality(S) \in Nat
  BY <1>1, FS_Subset, FS_CardinalityType
<1>3. UnseenIn(d, c, p) \subseteq d.messages /\ MessagesOf(d, c) \subseteq d.messages
      /\ {m \in d.messages : Unseen(d, p, m)} \subseteq d.messages
  BY DEF UnseenIn, MessagesOf
<1> QED
  BY <1>2, <1>3 DEF UnreadCount

\* Only a send and the profile's own acknowledgements change what it has not seen.
LEMMA UnreadKept ==
  ASSUME NEW d, RowsSound(d), NEW call, CallSound(call, d), NEW now, Fresh(now, d),
         NEW p, p \notin call.conv \/ ~ CountsAggregate(call, p)
  PROVE  UnreadCount(Effect(call, d, now), p) = UnreadCount(d, p)
<1> DEFINE e == Effect(call, d, now)
           m == Sent(call, now)
<1>1. Outcome(call, d, e, now)
  BY EffectOutcome
<1>2. call \in CallType /\ call.profile \in call.conv /\ d \in RowsType
      /\ \A c \in Pairs : d.reads[c] \in [c -> Times]
  BY DEF CallSound, RowsSound
<1>3. call.conv \in Pairs /\ d.messages \subseteq Message
  BY <1>2, CallKinds, RowsTyped
<1>4. m.conv = call.conv
  BY DEF Sent
<1> HIDE DEF e, m
<1>5. \A n \in d.messages : p \in n.conv => e.reads[n.conv][p] = d.reads[n.conv][p]
  <2> SUFFICES ASSUME NEW n \in d.messages, p \in n.conv
               PROVE  e.reads[n.conv][p] = d.reads[n.conv][p]
    OBVIOUS
  <2>1. n.conv \in Pairs
    BY <1>3 DEF Message
  <2>2. CASE n.conv # call.conv
    BY <1>1, <2>1, <2>2 DEF Outcome
  <2>3. CASE n.conv = call.conv
    <3>1. call.kind # "send" /\ (call.kind = "read" => p # call.profile)
      BY <2>3 DEF CountsAggregate
    <3>2. CASE Moves(call, d)
      <4>1. p # call.profile
        BY <3>1, <3>2 DEF Moves
      <4>2. e.reads[call.conv] = [d.reads[call.conv] EXCEPT ![call.profile] = Position(call, d, now)]
        BY <1>1, <3>2 DEF Outcome
      <4>3. d.reads[call.conv] \in [call.conv -> Times]
        BY <1>2, <1>3
      <4> QED
        BY <2>3, <4>1, <4>2, <4>3
    <3>3. CASE ~ Moves(call, d)
      BY <1>1, <2>3, <3>3 DEF Outcome
    <3> QED
      BY <3>2, <3>3
  <2> QED
    BY <2>2, <2>3
<1>6. \A n \in d.messages : Unseen(e, p, n) <=> Unseen(d, p, n)
  BY <1>5 DEF Unseen
<1>7. \A n \in e.messages : n \in d.messages \/ ~ Unseen(e, p, n)
  <2>1. CASE call.kind = "send"
    <3>1. e.messages = d.messages \cup {m}
      BY <1>1, <2>1 DEF Outcome, m
    <3>2. p \notin call.conv
      BY <2>1 DEF CountsAggregate
    <3> QED
      BY <1>4, <3>1, <3>2 DEF Unseen
  <2>2. CASE call.kind # "send"
    BY <1>1, <2>2 DEF Outcome
  <2> QED
    BY <2>1, <2>2
<1>8. d.messages \subseteq e.messages
  BY <1>1 DEF Outcome
<1>9. {n \in e.messages : Unseen(e, p, n)} = {n \in d.messages : Unseen(d, p, n)}
  BY <1>6, <1>7, <1>8
<1> QED
  BY <1>9 DEF UnreadCount, e

-----------------------------------------------------------------------------
(* Streams                                                                 *)

Upsert == [type : {"upsert"}, conv : Pairs, matched : BOOLEAN, lastMessageAt : Times,
           lastMessage : Times, reads : Reads, unread : Nat]
ConvEvent == [type : {"state"}, matched : BOOLEAN]
             \cup [type : {"message"}, at : Times, from : Profiles]
             \cup [type : {"read"}, profile : Profiles, at : Times]
             \cup [type : {"reaction"}, at : Times, profile : Profiles, reacted : BOOLEAN]
ProfileEvent == Upsert \cup [type : {"unread"}, count : Nat]
UserEvent == [type : {"notification"}, at : Times, count : Nat]

LogType == [conv : [Pairs -> Seq(ConvEvent)], profile : [Profiles -> Seq(ProfileEvent)],
            user : [Users -> Seq(UserEvent)]]

ReadsBy(s, p) == {i \in Typed(s, "read") : s[i].profile = p}
ReactionsTo(s, at, p) == {i \in Typed(s, "reaction") : s[i].at = at /\ s[i].profile = p}
UpsertsOf(s, c) == {i \in Typed(s, "upsert") : s[i].conv = c}

LEMMA Appended ==
  ASSUME NEW S, NEW s \in Seq(S), NEW x \in S
  PROVE  /\ s \o <<x>> \in Seq(S) /\ Len(s) \in Nat /\ Len(s \o <<x>>) = Len(s) + 1
         /\ (s \o <<x>>)[Len(s) + 1] = x
         /\ \A i \in 1..Len(s) : (s \o <<x>>)[i] = s[i]
         /\ 1..Len(s \o <<x>>) = 1..Len(s) \cup {Len(s) + 1}
         /\ \A I \in SUBSET (1..Len(s)) : Len(s) + 1 \notin I
<1>1. Len(s) \in Nat /\ <<x>> \in Seq(S) /\ Len(<<x>>) = 1 /\ <<x>>[1] = x
  OBVIOUS
<1>2. s \o <<x>> \in Seq(S) /\ Len(s \o <<x>>) = Len(s) + 1
  BY <1>1
<1>3. (s \o <<x>>)[Len(s) + 1] = x
  BY <1>1
<1>4. \A i \in 1..Len(s) : (s \o <<x>>)[i] = s[i]
  BY <1>1
<1>5. 1..Len(s \o <<x>>) = 1..Len(s) \cup {Len(s) + 1}
  BY <1>1, <1>2
<1> QED
  BY <1>1, <1>2, <1>3, <1>4, <1>5

\* An event is added to the positions of its kind and to no others.
LEMMA AppendedKinds ==
  ASSUME NEW S, NEW s \in Seq(S), NEW x \in S
  PROVE  LET t == s \o <<x>>
             n == Len(s) + 1
         IN  /\ \A y : Typed(t, y) = IF x.type = y THEN Typed(s, y) \cup {n} ELSE Typed(s, y)
             /\ \A p : ReadsBy(t, p) = IF x.type = "read" /\ x.profile = p
                                       THEN ReadsBy(s, p) \cup {n} ELSE ReadsBy(s, p)
             /\ \A at, p : ReactionsTo(t, at, p) =
                  IF x.type = "reaction" /\ x.at = at /\ x.profile = p
                  THEN ReactionsTo(s, at, p) \cup {n} ELSE ReactionsTo(s, at, p)
             /\ \A c : UpsertsOf(t, c) = IF x.type = "upsert" /\ x.conv = c
                                         THEN UpsertsOf(s, c) \cup {n} ELSE UpsertsOf(s, c)
<1> DEFINE t == s \o <<x>>
           n == Len(s) + 1
<1>1. /\ 1..Len(t) = 1..Len(s) \cup {n} /\ t[n] = x /\ n \notin 1..Len(s)
      /\ \A i \in 1..Len(s) : t[i] = s[i]
  BY Appended
<1> HIDE DEF t, n
<1>2. \A y : Typed(t, y) = IF x.type = y THEN Typed(s, y) \cup {n} ELSE Typed(s, y)
  BY <1>1 DEF Typed
<1>3. \A y : Typed(s, y) \subseteq 1..Len(s)
  BY DEF Typed
<1>4. \A p : ReadsBy(t, p) = IF x.type = "read" /\ x.profile = p
                             THEN ReadsBy(s, p) \cup {n} ELSE ReadsBy(s, p)
  BY <1>1, <1>2, <1>3 DEF ReadsBy
<1>5. \A at, p : ReactionsTo(t, at, p) =
         IF x.type = "reaction" /\ x.at = at /\ x.profile = p
         THEN ReactionsTo(s, at, p) \cup {n} ELSE ReactionsTo(s, at, p)
  BY <1>1, <1>2, <1>3 DEF ReactionsTo
<1>6. \A c : UpsertsOf(t, c) = IF x.type = "upsert" /\ x.conv = c
                               THEN UpsertsOf(s, c) \cup {n} ELSE UpsertsOf(s, c)
  BY <1>1, <1>2, <1>3 DEF UpsertsOf
<1> QED
  BY <1>2, <1>4, <1>5, <1>6 DEF t, n

LEMMA KindsWithin ==
  ASSUME NEW s
  PROVE  /\ \A y : Typed(s, y) \subseteq 1..Len(s)
         /\ \A p : ReadsBy(s, p) \subseteq 1..Len(s)
         /\ \A at, p : ReactionsTo(s, at, p) \subseteq 1..Len(s)
         /\ \A c : UpsertsOf(s, c) \subseteq 1..Len(s)
BY DEF Typed, ReadsBy, ReactionsTo, UpsertsOf

\* The last of some positions, after an event was appended.
LEMMA LastAppended ==
  ASSUME NEW S, NEW s \in Seq(S), NEW x \in S, NEW I \in SUBSET (1..Len(s)), NEW none
  PROVE  /\ LastAt(s \o <<x>>, I, none) = LastAt(s, I, none)
         /\ LastAt(s \o <<x>>, I \cup {Len(s) + 1}, none) = x
<1> DEFINE t == s \o <<x>>
           n == Len(s) + 1
<1>1. /\ Len(s) \in Nat /\ t[n] = x /\ \A i \in 1..Len(s) : t[i] = s[i]
  BY Appended
<1>2. I # {} => Latest(I) \in I
  <2>1. I \subseteq Nat /\ \A i \in I : i <= Len(s)
    BY <1>1
  <2> QED
    BY <1>1, <2>1, LatestOf
<1>3. Latest(I \cup {n}) = n
  <2>1. I \subseteq Nat /\ n \in Nat /\ \A i \in I : i < n
    BY <1>1
  <2> HIDE DEF n
  <2> QED
    BY <2>1, LatestAdded
<1> HIDE DEF t, n
<1>4. LastAt(t, I, none) = LastAt(s, I, none)
  BY <1>1, <1>2 DEF LastAt
<1>5. LastAt(t, I \cup {n}, none) = x
  BY <1>1, <1>3 DEF LastAt
<1> QED
  BY <1>4, <1>5 DEF t, n

\* The stream t is s and then the event x.
Grown(s, x, t) ==
  LET n == Len(s) + 1
  IN  /\ \A i \in 1..Len(s) : t[i] = s[i]
      /\ \A y : Typed(t, y) = IF x.type = y THEN Typed(s, y) \cup {n} ELSE Typed(s, y)
      /\ \A p : ReadsBy(t, p) = IF x.type = "read" /\ x.profile = p
                                THEN ReadsBy(s, p) \cup {n} ELSE ReadsBy(s, p)
      /\ \A at, p : ReactionsTo(t, at, p) =
           IF x.type = "reaction" /\ x.at = at /\ x.profile = p
           THEN ReactionsTo(s, at, p) \cup {n} ELSE ReactionsTo(s, at, p)
      /\ \A c : UpsertsOf(t, c) = IF x.type = "upsert" /\ x.conv = c
                                  THEN UpsertsOf(s, c) \cup {n} ELSE UpsertsOf(s, c)
      /\ \A I \in SUBSET (1..Len(s)) : \A none :
           LastAt(t, I, none) = LastAt(s, I, none) /\ LastAt(t, I \cup {n}, none) = x
      /\ \A i \in 1..Len(s) : i # n
      /\ t[n] = x

LEMMA AppendTwo ==
  ASSUME NEW S, NEW s \in Seq(S), NEW x \in S, NEW y \in S
  PROVE  s \o <<x, y>> = (s \o <<x>>) \o <<y>> /\ s \o <<x, y>> \in Seq(S)
<1> DEFINE u == <<x>>
           w == <<x, y>>
<1>1. u \in Seq(S) /\ <<y>> \in Seq(S) /\ w \in Seq(S) /\ Len(u) = 1 /\ Len(w) = 2
      /\ u[1] = x /\ w[1] = x /\ w[2] = y
  OBVIOUS
<1> HIDE DEF u, w
<1>2. u \o <<y>> \in Seq(S) /\ Len(u \o <<y>>) = Len(u) + 1 /\ (u \o <<y>>)[Len(u) + 1] = y
      /\ \A i \in 1..Len(u) : (u \o <<y>>)[i] = u[i]
  <2>1. \A z \in Seq(S) : z \o <<y>> \in Seq(S) /\ Len(z \o <<y>>) = Len(z) + 1
                             /\ (z \o <<y>>)[Len(z) + 1] = y
                             /\ \A i \in 1..Len(z) : (z \o <<y>>)[i] = z[i]
    <3> TAKE z \in Seq(S)
    <3> QED
      BY Appended
  <2> QED
    BY <1>1, <2>1
<1>3. u \o <<y>> = w
  <2> DEFINE v == u \o <<y>>
  <2>1. v \in Seq(S) /\ Len(v) = 2 /\ v[1] = x /\ v[2] = y
    BY <1>1, <1>2
  <2> HIDE DEF v
  <2>2. \A i \in 1..2 : i = 1 \/ i = 2
    OBVIOUS
  <2>3. Len(v) = Len(w) /\ \A i \in 1..Len(v) : v[i] = w[i]
    BY <1>1, <2>1, <2>2
  <2> QED
    BY <1>1, <2>1, <2>3, SeqEqual DEF v
<1>4. (s \o u) \o <<y>> = s \o (u \o <<y>>)
  BY <1>1, ConcatAssociative
<1>5. s \o w \in Seq(S)
  BY <1>1, ConcatProperties
<1> QED
  BY <1>3, <1>4, <1>5 DEF u, w

LEMMA Growing ==
  ASSUME NEW S, NEW s \in Seq(S), NEW x \in S
  PROVE  Grown(s, x, s \o <<x>>)
<1> DEFINE t == s \o <<x>>
           n == Len(s) + 1
<1>1. /\ \A i \in 1..Len(s) : t[i] = s[i]
      /\ t[n] = x
  BY Appended
<1>2. \A i \in 1..Len(s) : i # n
  BY Appended
<1>3. \A I \in SUBSET (1..Len(s)) : \A none :
        LastAt(t, I, none) = LastAt(s, I, none) /\ LastAt(t, I \cup {n}, none) = x
  <2> TAKE I \in SUBSET (1..Len(s))
  <2> TAKE none
  <2> QED
    BY LastAppended
<1>4. /\ \A y : Typed(t, y) = IF x.type = y THEN Typed(s, y) \cup {n} ELSE Typed(s, y)
      /\ \A p : ReadsBy(t, p) = IF x.type = "read" /\ x.profile = p
                                THEN ReadsBy(s, p) \cup {n} ELSE ReadsBy(s, p)
      /\ \A at, p : ReactionsTo(t, at, p) =
           IF x.type = "reaction" /\ x.at = at /\ x.profile = p
           THEN ReactionsTo(s, at, p) \cup {n} ELSE ReactionsTo(s, at, p)
      /\ \A c : UpsertsOf(t, c) = IF x.type = "upsert" /\ x.conv = c
                                  THEN UpsertsOf(s, c) \cup {n} ELSE UpsertsOf(s, c)
  BY AppendedKinds
<1> HIDE DEF t, n
<1> QED
  BY <1>1, <1>2, <1>3, <1>4 DEF Grown, t, n

-----------------------------------------------------------------------------
(* The conversation stream                                                 *)

\* The stream s of conversation c tells what the rows d hold of it; the last
\* conjunct makes the others inductive: only what is there is reacted to.
Tells(s, d, c) ==
  /\ Cardinality(Typed(s, "message")) = Cardinality(MessagesOf(d, c))
  /\ {<<s[i].at, s[i].from>> : i \in Typed(s, "message")} = {<<m.at, m.from>> : m \in MessagesOf(d, c)}
  /\ \A p \in c : LastAt(s, ReadsBy(s, p), [at |-> 0]).at = d.reads[c][p]
  /\ c \in d.convs <=> Typed(s, "state") # {}
  /\ LastAt(s, Typed(s, "state"), [matched |-> FALSE]).matched <=> Matched(d, c)
  /\ \A m \in MessagesOf(d, c), p \in c :
       LastAt(s, ReactionsTo(s, m.at, p), [reacted |-> FALSE]).reacted <=> <<m.at, p>> \in d.reactions
  /\ \A i \in Typed(s, "reaction") : \E m \in MessagesOf(d, c) : m.at = s[i].at

LEMMA TellsSame ==
  ASSUME NEW d, NEW e, NEW c \in Pairs, NEW s, Tells(s, d, c), SameConv(d, e, c)
  PROVE  Tells(s, e, c)
<1>1. MessagesOf(d, c) = MessagesOf(e, c) /\ d.reads[c] = e.reads[c]
      /\ (c \in d.convs <=> c \in e.convs)
  BY DEF SameConv
<1>2. Matched(d, c) <=> Matched(e, c)
  BY SameReading
<1>3. ASSUME NEW m \in MessagesOf(d, c), NEW p \in c
      PROVE  <<m.at, p>> \in d.reactions <=> <<m.at, p>> \in e.reactions
  <2>1. p \in Profiles
    BY PairOf
  <2> QED
    BY <2>1 DEF SameConv
<1> QED
  BY <1>1, <1>2, <1>3 DEF Tells

LEMMA TellsState ==
  ASSUME NEW d, NEW e, NEW c \in Pairs, NEW s \in Seq(ConvEvent), Tells(s, d, c),
         MessagesOf(d, c) = MessagesOf(e, c), d.reads[c] = e.reads[c], d.reactions = e.reactions,
         c \in e.convs
  PROVE  Tells(s \o <<[type |-> "state", matched |-> Matched(e, c)]>>, e, c)
<1> DEFINE x == [type |-> "state", matched |-> Matched(e, c)]
           t == s \o <<x>>
           n == Len(s) + 1
<1>1. Matched(e, c) \in BOOLEAN
  BY DEF Matched
<1>2. x \in ConvEvent /\ x.type = "state" /\ (x.matched <=> Matched(e, c))
  BY <1>1 DEF ConvEvent
<1>g. Grown(s, x, t)
  BY <1>2, Growing
<1> HIDE DEF x, t, n
<1>3. \A i \in 1..Len(s) : t[i] = s[i]
  BY <1>g DEF Grown
<1>4. /\ Typed(t, "message") = Typed(s, "message") /\ Typed(t, "reaction") = Typed(s, "reaction")
      /\ Typed(t, "state") = Typed(s, "state") \cup {n}
      /\ \A p : ReadsBy(t, p) = ReadsBy(s, p)
      /\ \A at, p : ReactionsTo(t, at, p) = ReactionsTo(s, at, p)
  BY <1>2, <1>g DEF Grown, n
<1>5. \A I \in SUBSET (1..Len(s)) : \A none : LastAt(t, I, none) = LastAt(s, I, none)
  BY <1>g DEF Grown, n
<1>6. LastAt(t, Typed(t, "state"), [matched |-> FALSE]) = x
  <2>1. Typed(s, "state") \in SUBSET (1..Len(s))
    BY KindsWithin
  <2>2. LastAt(t, Typed(s, "state") \cup {n}, [matched |-> FALSE]) = x
    BY <1>g, <2>1 DEF Grown, n
  <2> QED
    BY <1>4, <2>2
<1>7. {<<t[i].at, t[i].from>> : i \in Typed(t, "message")} = {<<s[i].at, s[i].from>> : i \in Typed(s, "message")}
  BY <1>3, <1>4, KindsWithin
<1>8. \A p \in c : LastAt(t, ReadsBy(t, p), [at |-> 0]).at = e.reads[c][p]
  BY <1>4, <1>5, KindsWithin DEF Tells
<1>9. ASSUME NEW m \in MessagesOf(e, c), NEW p \in c
      PROVE  LastAt(t, ReactionsTo(t, m.at, p), [reacted |-> FALSE]).reacted <=> <<m.at, p>> \in e.reactions
  <2>1. ReactionsTo(t, m.at, p) = ReactionsTo(s, m.at, p) /\ ReactionsTo(s, m.at, p) \in SUBSET (1..Len(s))
    BY <1>4, KindsWithin
  <2>2. LastAt(t, ReactionsTo(t, m.at, p), [reacted |-> FALSE]) = LastAt(s, ReactionsTo(s, m.at, p), [reacted |-> FALSE])
    BY <1>5, <2>1
  <2> QED
    BY <2>2 DEF Tells
<1>10. \A i \in Typed(t, "reaction") : \E m \in MessagesOf(e, c) : m.at = t[i].at
  BY <1>3, <1>4, KindsWithin DEF Tells
<1>11. Typed(t, "state") # {}
  BY <1>4
<1>12. Cardinality(Typed(t, "message")) = Cardinality(MessagesOf(e, c))
  BY <1>4 DEF Tells
<1>13. {<<t[i].at, t[i].from>> : i \in Typed(t, "message")} = {<<m.at, m.from>> : m \in MessagesOf(e, c)}
  BY <1>7 DEF Tells
<1> QED
  BY <1>2, <1>6, <1>8, <1>9, <1>10, <1>11, <1>12, <1>13 DEF Tells, t, x

LEMMA TellsRead ==
  ASSUME NEW d, NEW e, NEW c \in Pairs, NEW s \in Seq(ConvEvent), Tells(s, d, c),
         NEW q \in c, NEW v \in Times, d.reads[c] \in [c -> Times],
         MessagesOf(d, c) = MessagesOf(e, c), e.reads[c] = [d.reads[c] EXCEPT ![q] = v],
         d.reactions = e.reactions, c \in d.convs, c \in e.convs, Matched(d, c) <=> Matched(e, c)
  PROVE  Tells(s \o <<[type |-> "read", profile |-> q, at |-> v]>>, e, c)
<1> DEFINE x == [type |-> "read", profile |-> q, at |-> v]
           t == s \o <<x>>
           n == Len(s) + 1
<1>1. q \in Profiles
  BY PairOf
<1>2. x \in ConvEvent /\ x.type = "read" /\ x.profile = q /\ x.at = v
  BY <1>1 DEF ConvEvent
<1>g. Grown(s, x, t)
  BY <1>2, Growing
<1> HIDE DEF x, t, n
<1>3. \A i \in 1..Len(s) : t[i] = s[i]
  BY <1>g DEF Grown
<1>4. /\ Typed(t, "message") = Typed(s, "message") /\ Typed(t, "reaction") = Typed(s, "reaction")
      /\ Typed(t, "state") = Typed(s, "state")
      /\ \A p : ReadsBy(t, p) = IF p = q THEN ReadsBy(s, p) \cup {n} ELSE ReadsBy(s, p)
      /\ \A at, p : ReactionsTo(t, at, p) = ReactionsTo(s, at, p)
  BY <1>2, <1>g DEF Grown, n
<1>5. \A I \in SUBSET (1..Len(s)) : \A none :
        LastAt(t, I, none) = LastAt(s, I, none) /\ LastAt(t, I \cup {n}, none) = x
  BY <1>g DEF Grown, n
<1>6. \A p \in c : LastAt(t, ReadsBy(t, p), [at |-> 0]).at = e.reads[c][p]
  <2> TAKE p \in c
  <2>1. CASE p = q
    <3>1. LastAt(t, ReadsBy(t, p), [at |-> 0]) = x
      BY <1>4, <1>5, <2>1, KindsWithin
    <3> QED
      BY <1>2, <2>1, <3>1
  <2>2. CASE p # q
    <3>1. LastAt(t, ReadsBy(t, p), [at |-> 0]) = LastAt(s, ReadsBy(s, p), [at |-> 0])
      BY <1>4, <1>5, <2>2, KindsWithin
    <3>2. e.reads[c][p] = d.reads[c][p]
      BY <2>2
    <3> QED
      BY <3>1, <3>2 DEF Tells
  <2> QED
    BY <2>1, <2>2
<1>7. {<<t[i].at, t[i].from>> : i \in Typed(t, "message")} = {<<s[i].at, s[i].from>> : i \in Typed(s, "message")}
  BY <1>3, <1>4, KindsWithin
<1>8. LastAt(t, Typed(t, "state"), [matched |-> FALSE]) = LastAt(s, Typed(s, "state"), [matched |-> FALSE])
  BY <1>4, <1>5, KindsWithin
<1>9. ASSUME NEW m \in MessagesOf(e, c), NEW p \in c
      PROVE  LastAt(t, ReactionsTo(t, m.at, p), [reacted |-> FALSE]).reacted <=> <<m.at, p>> \in e.reactions
  <2>1. ReactionsTo(t, m.at, p) = ReactionsTo(s, m.at, p) /\ ReactionsTo(s, m.at, p) \in SUBSET (1..Len(s))
    BY <1>4, KindsWithin
  <2>2. LastAt(t, ReactionsTo(t, m.at, p), [reacted |-> FALSE]) = LastAt(s, ReactionsTo(s, m.at, p), [reacted |-> FALSE])
    BY <1>5, <2>1
  <2> QED
    BY <2>2 DEF Tells
<1>10. \A i \in Typed(t, "reaction") : \E m \in MessagesOf(e, c) : m.at = t[i].at
  BY <1>3, <1>4, KindsWithin DEF Tells
<1>11. c \in e.convs <=> Typed(t, "state") # {}
  BY <1>4 DEF Tells
<1>12. Cardinality(Typed(t, "message")) = Cardinality(MessagesOf(e, c))
  BY <1>4 DEF Tells
<1>13. {<<t[i].at, t[i].from>> : i \in Typed(t, "message")} = {<<m.at, m.from>> : m \in MessagesOf(e, c)}
  BY <1>7 DEF Tells
<1>14. LastAt(t, Typed(t, "state"), [matched |-> FALSE]).matched <=> Matched(e, c)
  BY <1>8 DEF Tells
<1> QED
  BY <1>6, <1>9, <1>10, <1>11, <1>12, <1>13, <1>14 DEF Tells, t, x

LEMMA TellsReaction ==
  ASSUME NEW d, NEW e, NEW c \in Pairs, NEW s \in Seq(ConvEvent), Tells(s, d, c),
         NEW q \in c, NEW k \in MessagesOf(d, c), k.at \in Times, NEW b \in BOOLEAN,
         \A m, n \in MessagesOf(d, c) : m.at = n.at => m = n,
         MessagesOf(d, c) = MessagesOf(e, c), d.reads[c] = e.reads[c],
         e.reactions = IF b THEN d.reactions \cup {<<k.at, q>>} ELSE d.reactions \ {<<k.at, q>>},
         c \in d.convs <=> c \in e.convs, Matched(d, c) <=> Matched(e, c)
  PROVE  Tells(s \o <<[type |-> "reaction", at |-> k.at, profile |-> q, reacted |-> b]>>, e, c)
<1> DEFINE x == [type |-> "reaction", at |-> k.at, profile |-> q, reacted |-> b]
           t == s \o <<x>>
           n == Len(s) + 1
<1>1. q \in Profiles
  BY PairOf
<1>2. x \in ConvEvent /\ x.type = "reaction" /\ x.at = k.at /\ x.profile = q /\ x.reacted = b
  BY <1>1 DEF ConvEvent
<1>g. Grown(s, x, t)
  BY <1>2, Growing
<1> HIDE DEF x, t, n
<1>3. (\A i \in 1..Len(s) : t[i] = s[i]) /\ t[n] = x
  BY <1>g DEF Grown, n
<1>4. /\ Typed(t, "message") = Typed(s, "message") /\ Typed(t, "reaction") = Typed(s, "reaction") \cup {n}
      /\ Typed(t, "state") = Typed(s, "state")
      /\ \A p : ReadsBy(t, p) = ReadsBy(s, p)
  BY <1>2, <1>g DEF Grown, n
<1>5. \A I \in SUBSET (1..Len(s)) : \A none :
        LastAt(t, I, none) = LastAt(s, I, none) /\ LastAt(t, I \cup {n}, none) = x
  BY <1>g DEF Grown, n
<1>6. ASSUME NEW p \in c PROVE LastAt(t, ReadsBy(t, p), [at |-> 0]).at = e.reads[c][p]
  <2>1. ReadsBy(s, p) \in SUBSET (1..Len(s))
    BY KindsWithin
  <2>2. LastAt(t, ReadsBy(t, p), [at |-> 0]) = LastAt(s, ReadsBy(s, p), [at |-> 0])
    BY <1>4, <1>5, <2>1
  <2> QED
    BY <2>2 DEF Tells
<1>7. {<<t[i].at, t[i].from>> : i \in Typed(t, "message")} = {<<s[i].at, s[i].from>> : i \in Typed(s, "message")}
  BY <1>3, <1>4, KindsWithin
<1>8. LastAt(t, Typed(t, "state"), [matched |-> FALSE]) = LastAt(s, Typed(s, "state"), [matched |-> FALSE])
  BY <1>4, <1>5, KindsWithin
<1>9. ASSUME NEW m \in MessagesOf(e, c), NEW p \in c
      PROVE  LastAt(t, ReactionsTo(t, m.at, p), [reacted |-> FALSE]).reacted <=> <<m.at, p>> \in e.reactions
  <2> DEFINE I == ReactionsTo(s, m.at, p)
             none == [reacted |-> FALSE]
  <2>1. I \in SUBSET (1..Len(s))
    BY KindsWithin
  <2>2. CASE m.at = k.at /\ p = q
    <3>1. ReactionsTo(t, m.at, p) = I \cup {n}
      BY <1>2, <1>g, <2>2 DEF Grown, n
    <3>2. LastAt(t, ReactionsTo(t, m.at, p), none) = x
      <4> HIDE DEF I, none
      <4> QED
        BY <1>5, <2>1, <3>1
    <3>3. <<m.at, p>> \in e.reactions <=> b
      BY <2>2
    <3> QED
      BY <1>2, <3>2, <3>3
  <2>3. CASE ~ (m.at = k.at /\ p = q)
    <3>1. ReactionsTo(t, m.at, p) = I
      BY <1>2, <1>g, <2>3 DEF Grown, n
    <3>2. LastAt(t, ReactionsTo(t, m.at, p), none) = LastAt(s, I, none)
      <4> HIDE DEF I, none
      <4> QED
        BY <1>5, <2>1, <3>1
    <3>3. <<m.at, p>> \in e.reactions <=> <<m.at, p>> \in d.reactions
      BY <2>3
    <3> QED
      BY <3>2, <3>3 DEF Tells
  <2> QED
    BY <2>2, <2>3
<1>10. \A i \in Typed(t, "reaction") : \E m \in MessagesOf(e, c) : m.at = t[i].at
  <2> TAKE i \in Typed(t, "reaction")
  <2>1. CASE i = n
    BY <1>2, <1>3, <2>1
  <2>2. CASE i \in Typed(s, "reaction")
    <3>1. t[i] = s[i]
      BY <1>3, <2>2, KindsWithin
    <3> QED
      BY <2>2, <3>1 DEF Tells
  <2> QED
    BY <1>4, <2>1, <2>2
<1>11. c \in e.convs <=> Typed(t, "state") # {}
  BY <1>4 DEF Tells
<1>12. Cardinality(Typed(t, "message")) = Cardinality(MessagesOf(e, c))
  BY <1>4 DEF Tells
<1>13. {<<t[i].at, t[i].from>> : i \in Typed(t, "message")} = {<<m.at, m.from>> : m \in MessagesOf(e, c)}
  BY <1>7 DEF Tells
<1>14. LastAt(t, Typed(t, "state"), [matched |-> FALSE]).matched <=> Matched(e, c)
  BY <1>8 DEF Tells
<1> QED
  BY <1>6, <1>9, <1>10, <1>11, <1>12, <1>13, <1>14 DEF Tells, t, x

LEMMA TellsMessage ==
  ASSUME NEW d, NEW e, NEW c \in Pairs, NEW s \in Seq(ConvEvent), Tells(s, d, c),
         NEW m, m.at \in Times, m.from \in Profiles, IsFiniteSet(MessagesOf(d, c)),
         \A k \in MessagesOf(d, c) : k.at # m.at, \A x \in e.reactions : x[1] # m.at,
         MessagesOf(e, c) = MessagesOf(d, c) \cup {m}, d.reads[c] = e.reads[c],
         d.reactions = e.reactions, c \in d.convs <=> c \in e.convs, Matched(d, c) <=> Matched(e, c)
  PROVE  Tells(s \o <<[type |-> "message", at |-> m.at, from |-> m.from]>>, e, c)
<1> DEFINE x == [type |-> "message", at |-> m.at, from |-> m.from]
           t == s \o <<x>>
           n == Len(s) + 1
<1>2. x \in ConvEvent /\ x.type = "message" /\ x.at = m.at /\ x.from = m.from
  BY DEF ConvEvent
<1>g. Grown(s, x, t)
  BY <1>2, Growing
<1> HIDE DEF x, t, n
<1>3. (\A i \in 1..Len(s) : t[i] = s[i] /\ i # n) /\ t[n] = x
  BY <1>g DEF Grown, n
<1>4. /\ Typed(t, "message") = Typed(s, "message") \cup {n} /\ Typed(t, "reaction") = Typed(s, "reaction")
      /\ Typed(t, "state") = Typed(s, "state")
      /\ \A p : ReadsBy(t, p) = ReadsBy(s, p)
      /\ \A at, p : ReactionsTo(t, at, p) = ReactionsTo(s, at, p)
  BY <1>2, <1>g DEF Grown, n
<1>5. \A I \in SUBSET (1..Len(s)) : \A none : LastAt(t, I, none) = LastAt(s, I, none)
  BY <1>g DEF Grown, n
<1>6. ASSUME NEW p \in c PROVE LastAt(t, ReadsBy(t, p), [at |-> 0]).at = e.reads[c][p]
  <2>1. ReadsBy(s, p) \in SUBSET (1..Len(s))
    BY KindsWithin
  <2>2. LastAt(t, ReadsBy(t, p), [at |-> 0]) = LastAt(s, ReadsBy(s, p), [at |-> 0])
    BY <1>4, <1>5, <2>1
  <2> QED
    BY <2>2 DEF Tells
<1>8. LastAt(t, Typed(t, "state"), [matched |-> FALSE]) = LastAt(s, Typed(s, "state"), [matched |-> FALSE])
  BY <1>4, <1>5, KindsWithin
<1>9. ASSUME NEW k \in MessagesOf(e, c), NEW p \in c
      PROVE  LastAt(t, ReactionsTo(t, k.at, p), [reacted |-> FALSE]).reacted <=> <<k.at, p>> \in e.reactions
  <2> DEFINE I == ReactionsTo(s, k.at, p)
             none == [reacted |-> FALSE]
  <2>1. I \in SUBSET (1..Len(s)) /\ ReactionsTo(t, k.at, p) = I
    BY <1>4, KindsWithin
  <2>2. LastAt(t, ReactionsTo(t, k.at, p), none) = LastAt(s, I, none)
    <3> HIDE DEF I, none
    <3> QED
      BY <1>5, <2>1
  <2>3. CASE k \in MessagesOf(d, c)
    BY <2>2, <2>3 DEF Tells
  <2>4. CASE k = m
    <3>1. I = {}
      <4>1. \A i \in Typed(s, "reaction") : s[i].at # m.at
        BY DEF Tells
      <4> QED
        BY <2>4, <4>1 DEF ReactionsTo
    <3>2. LastAt(s, I, none) = none
      <4> HIDE DEF I, none
      <4> QED
        BY <3>1 DEF LastAt
    <3>3. <<k.at, p>> \notin e.reactions
      BY <2>4
    <3> QED
      BY <2>2, <3>2, <3>3
  <2> QED
    BY <2>3, <2>4
<1>10. \A i \in Typed(t, "reaction") : \E k \in MessagesOf(e, c) : k.at = t[i].at
  BY <1>3, <1>4, KindsWithin DEF Tells
<1>11. c \in e.convs <=> Typed(t, "state") # {}
  BY <1>4 DEF Tells
<1>12. Cardinality(Typed(t, "message")) = Cardinality(MessagesOf(e, c))
  <2>1. IsFiniteSet(Typed(s, "message")) /\ n \notin Typed(s, "message")
    <3>1. Typed(s, "message") \subseteq 1..Len(s) /\ Len(s) \in Nat
      BY KindsWithin
    <3>2. IsFiniteSet(1..Len(s))
      BY <3>1, FS_Interval
    <3> QED
      BY <1>3, <3>1, <3>2, FS_Subset
  <2>2. Cardinality(Typed(t, "message")) = Cardinality(Typed(s, "message")) + 1
    BY <1>4, <2>1, FS_AddElement
  <2>3. m \notin MessagesOf(d, c)
    OBVIOUS
  <2>4. Cardinality(MessagesOf(e, c)) = Cardinality(MessagesOf(d, c)) + 1
    BY <2>3, FS_AddElement
  <2> QED
    BY <2>2, <2>4 DEF Tells
<1>13. {<<t[i].at, t[i].from>> : i \in Typed(t, "message")} = {<<k.at, k.from>> : k \in MessagesOf(e, c)}
  <2> DEFINE A == {<<s[i].at, s[i].from>> : i \in Typed(s, "message")}
             B == {<<k.at, k.from>> : k \in MessagesOf(d, c)}
  <2>1. A = B
    BY DEF Tells
  <2>2. {<<t[i].at, t[i].from>> : i \in Typed(t, "message")} = A \cup {<<m.at, m.from>>}
    BY <1>2, <1>3, <1>4, KindsWithin
  <2>3. {<<k.at, k.from>> : k \in MessagesOf(e, c)} = B \cup {<<m.at, m.from>>}
    OBVIOUS
  <2> QED
    BY <2>1, <2>2, <2>3
<1>14. LastAt(t, Typed(t, "state"), [matched |-> FALSE]).matched <=> Matched(e, c)
  BY <1>8 DEF Tells
<1> QED
  BY <1>6, <1>9, <1>10, <1>11, <1>12, <1>13, <1>14 DEF Tells, t, x

\* The events of a call that was not silent.
ConversationTold(call, d, e, now) ==
  IF IsSilent(call, d, e) THEN <<>> ELSE ConversationEvents(call, d, e, now)

LEMMA SendLoud ==
  ASSUME NEW d, NEW call, CallSound(call, d), call.kind = "send", NEW now, Fresh(now, d),
         NEW e, Outcome(call, d, e, now)
  PROVE  ~ IsSilent(call, d, e)
<1> DEFINE m == Sent(call, now)
<1>1. m \in e.messages
  BY DEF Outcome
<1>2. m.at = now
  BY DEF Sent
<1> HIDE DEF m
<1>3. d # e
  BY <1>1, <1>2 DEF Fresh
<1> QED
  BY <1>3 DEF IsSilent

LEMMA TellsOutcome ==
  ASSUME NEW d, RowsSound(d), NEW call, CallSound(call, d), NEW now, Fresh(now, d),
         NEW e, RowsSound(e), Outcome(call, d, e, now), NEW c, c = call.conv,
         NEW s \in Seq(ConvEvent), Tells(s, d, c)
  PROVE  /\ s \o ConversationTold(call, d, e, now) \in Seq(ConvEvent)
         /\ Tells(s \o ConversationTold(call, d, e, now), e, c)
<1> DEFINE m == Sent(call, now)
           t == s \o ConversationTold(call, d, e, now)
<1>1. Outcome(call, d, e, now) /\ RowsSound(e) /\ c = call.conv
  OBVIOUS
<1>2. call \in CallType /\ call.profile \in c /\ d \in RowsType
  BY DEF CallSound, RowsSound
<1>3. c \in Pairs /\ call.profile \in Profiles
      /\ call.kind \in {"like", "unlike", "send", "read", "react", "unreact"}
  BY <1>2, CallKinds
<1>4. d.reads[c] \in [c -> Times] /\ e.reads[c] \in [c -> Times]
  BY <1>1, <1>3 DEF RowsSound
<1>5. s \o <<>> = s
  OBVIOUS
<1>6. ASSUME NEW x \in ConvEvent PROVE s \o <<x>> \in Seq(ConvEvent)
  BY <1>6
<1> HIDE DEF m
<1>7. call.kind # "send" => MessagesOf(e, c) = MessagesOf(d, c)
  BY <1>1 DEF Outcome, MessagesOf
<1>8. call.kind \notin {"like", "unlike"} => c \in d.convs /\ c \in e.convs /\ (Matched(d, c) <=> Matched(e, c))
  <2>1. SUFFICES ASSUME call.kind \notin {"like", "unlike"}
                 PROVE  c \in d.convs /\ c \in e.convs /\ (Matched(d, c) <=> Matched(e, c))
    OBVIOUS
  <2>2. d.likes = e.likes /\ d.convs = e.convs
    BY <1>1, <2>1 DEF Outcome
  <2> QED
    BY <2>1, <2>2 DEF CallSound, Matched
<1>9. CASE call.kind \in {"like", "unlike"}
  <2>1. MessagesOf(e, c) = MessagesOf(d, c) /\ e.reads[c] = d.reads[c] /\ e.reactions = d.reactions
        /\ d.convs \subseteq e.convs
    BY <1>1, <1>7, <1>9 DEF Outcome, Moves
  <2>2. CASE c \in e.convs
    <3>1. ~ IsSilent(call, d, e)
      BY <1>9, <2>2 DEF IsSilent
    <3>2. ConversationTold(call, d, e, now) = <<[type |-> "state", matched |-> Matched(e, c)]>>
      BY <1>9, <3>1 DEF ConversationTold, ConversationEvents, StateEvent
    <3>3. Tells(s \o <<[type |-> "state", matched |-> Matched(e, c)]>>, e, c)
      BY <1>3, <2>1, <2>2, TellsState
    <3>4. [type |-> "state", matched |-> Matched(e, c)] \in ConvEvent
      BY DEF Matched, ConvEvent
    <3> QED
      BY <1>6, <3>2, <3>3, <3>4
  <2>3. CASE c \notin e.convs
    <3>1. IsSilent(call, d, e)
      BY <1>9, <2>3 DEF IsSilent
    <3>2. t = s
      BY <1>5, <3>1 DEF ConversationTold
    <3>3. ~ Matched(e, c) /\ c \notin d.convs
      BY <1>1, <1>3, <2>1, <2>3 DEF RowsSound
    <3>4. ~ Matched(d, c)
      BY <1>3, <3>3 DEF RowsSound
    <3>5. Tells(s, e, c)
      BY <2>1, <2>3, <3>3, <3>4 DEF Tells
    <3> QED
      BY <3>2, <3>5
  <2> QED
    BY <2>2, <2>3
<1>10. CASE call.kind = "read"
  <2>1. MessagesOf(e, c) = MessagesOf(d, c) /\ e.reactions = d.reactions
    BY <1>1, <1>7, <1>10 DEF Outcome
  <2>2. CASE Moves(call, d)
    <3>1. ~ IsSilent(call, d, e)
      BY <1>1, <1>10, <2>2 DEF IsSilent, Outcome
    <3> DEFINE v == Position(call, d, now)
    <3>2. e.reads[c] = [d.reads[c] EXCEPT ![call.profile] = v]
      BY <1>1, <2>2 DEF Outcome
    <3>3. v \in Times
      BY <1>2, <1>10, TargetTyped DEF Position
    <3> HIDE DEF v
    <3>4. e.reads[c][call.profile] = v
      BY <1>2, <1>4, <3>2
    <3> DEFINE x == [type |-> "read", profile |-> call.profile, at |-> v]
    <3>5. ConversationTold(call, d, e, now) = <<x>>
      BY <1>10, <3>1, <3>4 DEF ConversationTold, ConversationEvents, ReadEvent
    <3>6. Tells(s \o <<x>>, e, c)
      BY <1>2, <1>3, <1>4, <1>8, <1>10, <2>1, <3>2, <3>3, TellsRead
    <3>7. x \in ConvEvent
      BY <1>3, <3>3 DEF ConvEvent
    <3> HIDE DEF x
    <3> QED
      BY <1>6, <3>5, <3>6, <3>7
  <2>3. CASE ~ Moves(call, d)
    <3>1. IsSilent(call, d, e) /\ d = e
      BY <1>1, <1>10, <2>3 DEF IsSilent, Outcome
    <3> QED
      BY <1>5, <3>1 DEF ConversationTold
  <2> QED
    BY <2>2, <2>3
<1>11. CASE call.kind \in {"react", "unreact"}
  <2>1. MessagesOf(e, c) = MessagesOf(d, c) /\ e.reads[c] = d.reads[c]
    BY <1>1, <1>7, <1>11 DEF Outcome, Moves
  <2>2. CASE IsSilent(call, d, e)
    <3>1. d = e
      BY <1>11, <2>2 DEF IsSilent
    <3> QED
      BY <1>5, <2>2, <3>1 DEF ConversationTold
  <2>3. CASE ~ IsSilent(call, d, e)
    <3>1. PICK k \in MessagesOf(d, c) : k.at = call.at
      BY <1>11 DEF CallSound
    <3> DEFINE b == call.kind = "react"
               x == [type |-> "reaction", at |-> k.at, profile |-> call.profile, reacted |-> b]
    <3>2. ConversationTold(call, d, e, now) = <<x>>
      BY <1>11, <2>3, <3>1 DEF ConversationTold, ConversationEvents, ReactionEvent
    <3>3. e.reactions = IF b THEN d.reactions \cup {<<k.at, call.profile>>} ELSE d.reactions \ {<<k.at, call.profile>>}
      BY <1>1, <1>11, <3>1 DEF Outcome, ReactionOf
    <3>4. k.at \in Times /\ b \in BOOLEAN
      BY <1>2, <1>11, <3>1, CallKinds
    <3>5. \A i, j \in MessagesOf(d, c) : i.at = j.at => i = j
      BY DEF RowsSound, MessagesOf
    <3>6. x \in ConvEvent
      BY <1>3, <3>4 DEF ConvEvent
    <3>7. Tells(s, d, c)
      OBVIOUS
    <3>8. (c \in d.convs <=> c \in e.convs) /\ (Matched(d, c) <=> Matched(e, c))
      BY <1>8, <1>11
    <3> HIDE DEF b
    <3>9. Tells(s \o <<x>>, e, c)
      BY <1>2, <1>3, <2>1, <3>3, <3>4, <3>5, <3>7, <3>8, TellsReaction
    <3> HIDE DEF x
    <3> QED
      BY <1>6, <3>2, <3>6, <3>9
  <2> QED
    BY <2>2, <2>3
<1>12. CASE call.kind = "send"
  <2>1. m.conv = c /\ m.from = call.profile /\ m.at = now
    BY DEF m, Sent
  <2>2. now \in Times \ {0} /\ \A k \in d.messages : k.at # now
    BY DEF Fresh
  <2>3. e.messages = d.messages \cup {m} /\ e.reactions = d.reactions
    BY <1>1, <1>12 DEF Outcome, m
  <2>4. MessagesOf(e, c) = MessagesOf(d, c) \cup {m}
    BY <2>1, <2>3 DEF MessagesOf
  <2>5. e.reads[c] = [d.reads[c] EXCEPT ![call.profile] = now] /\ e.reads[c][call.profile] = now
    BY <1>1, <1>2, <1>4, <1>12 DEF Outcome, Moves, Position
  <2>6. \A x \in d.reactions : x[1] # m.at
    BY <2>1, <2>2 DEF RowsSound
  <2>7. IsFiniteSet(MessagesOf(d, c)) /\ \A k \in MessagesOf(d, c) : k.at # m.at
    BY <2>1, <2>2, UnseenFinite DEF MessagesOf
  <2> DEFINE x == [type |-> "message", at |-> m.at, from |-> m.from]
             y == [type |-> "read", profile |-> call.profile, at |-> now]
             mid == [e EXCEPT !.reads = d.reads]
  <2>8. x \in ConvEvent /\ y \in ConvEvent
    BY <1>3, <2>1, <2>2 DEF ConvEvent
  <2>9. /\ mid.messages = e.messages /\ mid.reads = d.reads /\ mid.reactions = e.reactions
        /\ mid.convs = e.convs /\ mid.likes = e.likes
    BY <1>1 DEF RowsSound, RowsType
  <2> HIDE DEF mid
  <2>10. MessagesOf(mid, c) = MessagesOf(e, c) /\ (Matched(mid, c) <=> Matched(e, c))
    BY <2>9 DEF MessagesOf, Matched
  <2>11. Tells(s, d, c)
    OBVIOUS
  <2>12. Tells(s \o <<x>>, mid, c)
    BY <1>3, <1>8, <1>12, <2>1, <2>2, <2>3, <2>4, <2>6, <2>7, <2>9, <2>10, <2>11, TellsMessage
  <2>13. s \o <<x>> \in Seq(ConvEvent)
    BY <1>6, <2>8
  <2> DEFINE s1 == s \o <<x>>
  <2>14. Tells(s1 \o <<y>>, e, c)
    <3> HIDE DEF s1
    <3>1. s1 \in Seq(ConvEvent) /\ Tells(s1, mid, c)
      BY <2>12, <2>13 DEF s1
    <3>2. mid.reads[c] = d.reads[c] /\ now \in Times
      BY <2>2, <2>9
    <3>3. c \in mid.convs /\ c \in e.convs /\ mid.reactions = e.reactions
          /\ mid.reads[c] \in [c -> Times] /\ call.profile \in c /\ c \in Pairs
      BY <1>2, <1>3, <1>4, <1>8, <1>12, <2>9
    <3>4. e.reads[c] = [mid.reads[c] EXCEPT ![call.profile] = now]
      BY <2>5, <2>9
    <3> QED
      BY <2>10, <3>1, <3>2, <3>3, <3>4, TellsRead
  <2>15. ConversationTold(call, d, e, now) = <<x, y>>
    <3>1. ~ IsSilent(call, d, e)
      BY <1>1, <1>12, SendLoud
    <3> QED
      BY <1>12, <2>1, <2>5, <3>1 DEF ConversationTold, ConversationEvents, ReadEvent
  <2>16. s \o <<x, y>> = s1 \o <<y>> /\ s \o <<x, y>> \in Seq(ConvEvent)
    <3> HIDE DEF x, y
    <3> QED
      BY <2>8, AppendTwo
  <2> HIDE DEF x, y, s1
  <2> QED
    BY <2>14, <2>15, <2>16
<1> QED
  BY <1>3, <1>9, <1>10, <1>11, <1>12

-----------------------------------------------------------------------------
(* The profile streams                                                     *)

AtMostOne(d, p) == \A c, k \in d.convs : p \in c /\ p \in k => c = k

\* The stream s of profile p has the list entries of p, and its count.
Listed(s, d, p) ==
  \A c \in d.convs : p \in c =>
    UpsertsOf(s, c) # {} /\ LastAt(s, UpsertsOf(s, c), 0) = Projection(d, c, p)
Counted(s, d, p) ==
  AtMostOne(d, p) => LastAt(s, Typed(s, "unread"), [count |-> 0]).count = UnreadCount(d, p)

\* The events t that a call adds to the stream of p as it turns d into e: an
\* upsert as of e, and a count which is that of p when this is its one
\* conversation.
Announces(call, d, e, p) ==
  ~ IsSilent(call, d, e) /\ p \in call.conv /\ call.kind \notin {"react", "unreact"}

UnreadEvent(n) == [type |-> "unread", count |-> n]

ProfileForetold(call, d, e, t, p) ==
  LET c == call.conv
      after == Cardinality(UnseenIn(e, c, p))
  IN
  IF Announces(call, d, e, p)
  THEN \/ /\ t = <<Projection(e, c, p)>>
          /\ CountsAggregate(call, p) /\ Only(d, p, c) => Cardinality(UnseenIn(d, c, p)) = after
       \/ /\ CountsAggregate(call, p)
          /\ \E n \in Nat : t = <<Projection(e, c, p), UnreadEvent(n)>> /\ (Only(d, p, c) => n = after)
  ELSE t = <<>>

LEMMA UpsertTyped ==
  ASSUME NEW d, RowsSound(d), NEW c \in Pairs, NEW p
  PROVE  Projection(d, c, p) \in Upsert
<1>1. d \in RowsType /\ d.reads[c] \in Reads /\ d.lastMessageAt[c] \in Times
  BY RowsTyped DEF RowsSound
<1>2. Matched(d, c) \in BOOLEAN
  BY DEF Matched
<1>3. Cardinality({m \in MessagesOf(d, c) : Unseen(d, p, m)}) \in Nat
  BY UnseenFinite DEF UnseenIn
<1>4. Latest({m.at : m \in MessagesOf(d, c)}) \in Times
  <2>1. {m.at : m \in MessagesOf(d, c)} \subseteq Times
    BY <1>1, RowsTyped DEF MessagesOf, Message
  <2> QED
    BY <2>1, LatestTime
<1> QED
  BY <1>1, <1>2, <1>3, <1>4 DEF Projection, Upsert

LEMMA ReactionsUnlisted ==
  ASSUME NEW call, NEW d, NEW e, NEW now, Outcome(call, d, e, now)
  PROVE  call.kind \in {"react", "unreact"} =>
           \A p : Projection(e, call.conv, p) = Projection(d, call.conv, p)
<1> DEFINE c == call.conv
<1> SUFFICES ASSUME call.kind \in {"react", "unreact"}, NEW p
             PROVE  Projection(e, c, p) = Projection(d, c, p)
  OBVIOUS
<1>1. e.likes = d.likes /\ MessagesOf(e, c) = MessagesOf(d, c) /\ e.reads[c] = d.reads[c]
      /\ e.lastMessageAt[c] = d.lastMessageAt[c]
  BY DEF Outcome, Moves, MessagesOf
<1> HIDE DEF c
<1>2. Matched(e, c) = Matched(d, c)
  BY <1>1 DEF Matched
<1>3. \A m \in MessagesOf(d, c) : Unseen(e, p, m) <=> Unseen(d, p, m)
  BY <1>1 DEF Unseen, MessagesOf
<1>4. {m \in MessagesOf(e, c) : Unseen(e, p, m)} = {m \in MessagesOf(d, c) : Unseen(d, p, m)}
  BY <1>1, <1>3
<1> QED
  BY <1>1, <1>2, <1>4 DEF Projection, c

CountTold(s) == LastAt(s, Typed(s, "unread"), [count |-> 0]).count

\* The stream u is s and a profile's events, one or two or none.
ProfileTold(call, d, e, p, s, u) ==
  LET c == call.conv
      after == Cardinality(UnseenIn(e, c, p))
  IN
  /\ \A k : IF k = c /\ Announces(call, d, e, p)
            THEN UpsertsOf(u, k) # {} /\ LastAt(u, UpsertsOf(u, k), 0) = Projection(e, k, p)
            ELSE /\ UpsertsOf(u, k) = UpsertsOf(s, k)
                 /\ LastAt(u, UpsertsOf(u, k), 0) = LastAt(s, UpsertsOf(s, k), 0)
  /\ \/ /\ Announces(call, d, e, p) /\ CountsAggregate(call, p)
        /\ Only(d, p, c) => CountTold(u) = after
     \/ /\ CountTold(u) = CountTold(s)
        /\ Announces(call, d, e, p) /\ CountsAggregate(call, p) /\ Only(d, p, c)
             => Cardinality(UnseenIn(d, c, p)) = after

LEMMA ProfileGrown ==
  ASSUME NEW call, NEW d, NEW e, RowsSound(e), NEW p, NEW t, ProfileForetold(call, d, e, t, p),
         call.conv \in Pairs, NEW s \in Seq(ProfileEvent)
  PROVE  s \o t \in Seq(ProfileEvent) /\ ProfileTold(call, d, e, p, s, s \o t)
<1> DEFINE up == Projection(e, call.conv, p)
           told(x) == LastAt(x, Typed(x, "unread"), [count |-> 0])
           s1 == s \o <<up>>
           k == Len(s) + 1
           none == [count |-> 0]
<1>1. up \in ProfileEvent /\ up.type = "upsert" /\ up.conv = call.conv
  BY UpsertTyped DEF ProfileEvent, Projection
<1>2. s1 \in Seq(ProfileEvent) /\ Len(s1) = k /\ Len(s) \in Nat
  BY <1>1, Appended
<1>3. Grown(s, up, s1)
  BY <1>1, Growing
<1> HIDE DEF up, s1, k, none
<1>4. /\ \A c : c # call.conv => UpsertsOf(s1, c) = UpsertsOf(s, c)
                                 /\ LastAt(s1, UpsertsOf(s1, c), 0) = LastAt(s, UpsertsOf(s, c), 0)
      /\ UpsertsOf(s1, call.conv) # {} /\ LastAt(s1, UpsertsOf(s1, call.conv), 0) = up
      /\ told(s1) = told(s)
  <2>1. ASSUME NEW c, c # call.conv
        PROVE  UpsertsOf(s1, c) = UpsertsOf(s, c)
               /\ LastAt(s1, UpsertsOf(s1, c), 0) = LastAt(s, UpsertsOf(s, c), 0)
    <3>1. UpsertsOf(s, c) \in SUBSET (1..Len(s)) /\ UpsertsOf(s1, c) = UpsertsOf(s, c)
      BY <1>1, <1>3, <2>1, KindsWithin DEF Grown
    <3>2. LastAt(s1, UpsertsOf(s, c), 0) = LastAt(s, UpsertsOf(s, c), 0)
      BY <1>3, <3>1 DEF Grown
    <3> QED
      BY <3>1, <3>2
  <2>2. UpsertsOf(s1, call.conv) # {} /\ LastAt(s1, UpsertsOf(s1, call.conv), 0) = up
    <3> DEFINE I == UpsertsOf(s, call.conv)
    <3>1. I \in SUBSET (1..Len(s)) /\ UpsertsOf(s1, call.conv) = I \cup {k}
      BY <1>1, <1>3, KindsWithin DEF Grown, k
    <3> HIDE DEF I
    <3>2. LastAt(s1, I \cup {k}, 0) = up
      BY <1>3, <3>1 DEF Grown, k
    <3> QED
      BY <3>1, <3>2
  <2>3. told(s1) = told(s)
    <3>1. Typed(s, "unread") \in SUBSET (1..Len(s)) /\ Typed(s1, "unread") = Typed(s, "unread")
      BY <1>1, <1>3, KindsWithin DEF Grown
    <3>2. LastAt(s1, Typed(s, "unread"), none) = LastAt(s, Typed(s, "unread"), none)
      BY <1>3, <3>1 DEF Grown
    <3> QED
      BY <3>1, <3>2 DEF none
  <2> QED
    BY <2>1, <2>2, <2>3
<1>5. CASE t = <<>>
  <2>1. s \o t = s
    BY <1>5
  <2>2. ~ Announces(call, d, e, p)
    <3>1. \A n \in Nat : t # <<Projection(e, call.conv, p), UnreadEvent(n)>>
      BY <1>5
    <3>2. t # <<Projection(e, call.conv, p)>>
      BY <1>5
    <3> QED
      BY <3>1, <3>2 DEF ProfileForetold
  <2> QED
    BY <2>1, <2>2 DEF ProfileTold
<1>6. CASE Announces(call, d, e, p) /\ t = <<up>>
           /\ (CountsAggregate(call, p) /\ Only(d, p, call.conv)
                 => Cardinality(UnseenIn(d, call.conv, p)) = Cardinality(UnseenIn(e, call.conv, p)))
  <2>1. s \o t = s1
    BY <1>6 DEF s1
  <2> QED
    BY <1>2, <1>4, <1>6, <2>1 DEF up, ProfileTold, CountTold
<1>7. ASSUME NEW n \in Nat, Announces(call, d, e, p), t = <<up, UnreadEvent(n)>>, CountsAggregate(call, p),
             Only(d, p, call.conv) => n = Cardinality(UnseenIn(e, call.conv, p))
      PROVE  /\ s \o t \in Seq(ProfileEvent)
             /\ \A c : IF c = call.conv
                       THEN UpsertsOf(s \o t, c) # {} /\ LastAt(s \o t, UpsertsOf(s \o t, c), 0) = up
                       ELSE /\ UpsertsOf(s \o t, c) = UpsertsOf(s, c)
                            /\ LastAt(s \o t, UpsertsOf(s \o t, c), 0) = LastAt(s, UpsertsOf(s, c), 0)
             /\ told(s \o t) = UnreadEvent(n)
  <2> DEFINE x == UnreadEvent(n)
             s2 == s1 \o <<x>>
             j == Len(s1) + 1
  <2>1. x \in ProfileEvent /\ x.type = "unread"
    BY DEF UnreadEvent, ProfileEvent
  <2>2. s2 \in Seq(ProfileEvent) /\ Grown(s1, x, s2)
    BY <1>2, <2>1, Appended, Growing
  <2>3. s \o t = s2
    <3> HIDE DEF x
    <3>1. s \o <<up, x>> = (s \o <<up>>) \o <<x>>
      BY <1>1, <2>1, AppendTwo
    <3> QED
      BY <1>7, <3>1 DEF s1, x
  <2> HIDE DEF x, s2, j
  <2>4. ASSUME NEW c PROVE UpsertsOf(s2, c) = UpsertsOf(s1, c)
                           /\ LastAt(s2, UpsertsOf(s2, c), 0) = LastAt(s1, UpsertsOf(s1, c), 0)
    <3>1. UpsertsOf(s1, c) \in SUBSET (1..Len(s1)) /\ UpsertsOf(s2, c) = UpsertsOf(s1, c)
      BY <2>1, <2>2, KindsWithin DEF Grown
    <3>2. LastAt(s2, UpsertsOf(s1, c), 0) = LastAt(s1, UpsertsOf(s1, c), 0)
      BY <2>2, <3>1 DEF Grown
    <3> QED
      BY <3>1, <3>2
  <2>5. told(s2) = x
    <3> DEFINE I == Typed(s1, "unread")
    <3>1. I \in SUBSET (1..Len(s1)) /\ Typed(s2, "unread") = I \cup {j}
      BY <2>1, <2>2, KindsWithin DEF Grown, j
    <3> HIDE DEF I
    <3>2. LastAt(s2, I \cup {j}, none) = x
      BY <2>2, <3>1 DEF Grown, j
    <3> QED
      BY <3>1, <3>2 DEF none
  <2> QED
    BY <1>4, <2>2, <2>3, <2>4, <2>5 DEF x
<1>8. ASSUME NEW n \in Nat PROVE UnreadEvent(n).count = n
  BY DEF UnreadEvent
<1>9. \/ t = <<>>
      \/ /\ Announces(call, d, e, p)
         /\ \/ /\ t = <<up>>
               /\ CountsAggregate(call, p) /\ Only(d, p, call.conv)
                    => Cardinality(UnseenIn(d, call.conv, p)) = Cardinality(UnseenIn(e, call.conv, p))
            \/ /\ CountsAggregate(call, p)
               /\ \E n \in Nat : t = <<up, UnreadEvent(n)>>
                     /\ (Only(d, p, call.conv) => n = Cardinality(UnseenIn(e, call.conv, p)))
  BY DEF ProfileForetold, up
<1>10. CASE /\ Announces(call, d, e, p) /\ CountsAggregate(call, p)
            /\ \E n \in Nat : t = <<up, UnreadEvent(n)>>
                  /\ (Only(d, p, call.conv) => n = Cardinality(UnseenIn(e, call.conv, p)))
  <2>1. PICK n \in Nat : t = <<up, UnreadEvent(n)>>
                         /\ (Only(d, p, call.conv) => n = Cardinality(UnseenIn(e, call.conv, p)))
    BY <1>10
  <2> QED
    BY <1>7, <1>8, <1>10, <2>1 DEF up, ProfileTold, CountTold
<1> QED
  BY <1>5, <1>6, <1>9, <1>10

\* A call leaves the profile streams with the entries and the counts of the rows.
LEMMA ProfileEffect ==
  ASSUME NEW d, RowsSound(d), NEW call, CallSound(call, d), NEW now, Fresh(now, d),
         NEW e, e = Effect(call, d, now), NEW p \in Profiles, NEW t, ProfileForetold(call, d, e, t, p),
         NEW s \in Seq(ProfileEvent), Listed(s, d, p), Counted(s, d, p)
  PROVE  s \o t \in Seq(ProfileEvent) /\ Listed(s \o t, e, p) /\ Counted(s \o t, e, p)
<1> DEFINE c == call.conv
           u == s \o t
           after == Cardinality(UnseenIn(e, c, p))
<1>1. Outcome(call, d, e, now) /\ RowsSound(e)
  BY EffectOutcome, EffectSound
<1>2. call \in CallType /\ c \in Pairs /\ d.convs \subseteq Pairs /\ e.convs \subseteq Pairs
      /\ call.kind \in {"like", "unlike", "send", "read", "react", "unreact"}
  BY <1>1, CallKinds, RowsTyped DEF CallSound, RowsSound
<1>3. d.convs \subseteq e.convs /\ e.convs \subseteq d.convs \cup {c}
  BY <1>1 DEF Outcome
<1>g. u \in Seq(ProfileEvent) /\ ProfileTold(call, d, e, p, s, u)
  BY <1>1, <1>2, ProfileGrown
<1>4. /\ u \in Seq(ProfileEvent)
      /\ \A k : IF k = c /\ Announces(call, d, e, p)
                THEN UpsertsOf(u, k) # {} /\ LastAt(u, UpsertsOf(u, k), 0) = Projection(e, k, p)
                ELSE /\ UpsertsOf(u, k) = UpsertsOf(s, k)
                     /\ LastAt(u, UpsertsOf(u, k), 0) = LastAt(s, UpsertsOf(s, k), 0)
      /\ \/ /\ Announces(call, d, e, p) /\ CountsAggregate(call, p)
            /\ Only(d, p, c) => CountTold(u) = after
         \/ /\ CountTold(u) = CountTold(s)
            /\ Announces(call, d, e, p) /\ CountsAggregate(call, p) /\ Only(d, p, c)
                 => Cardinality(UnseenIn(d, c, p)) = after
  <2> HIDE DEF u
  <2> QED
    BY <1>g DEF ProfileTold
<1> HIDE DEF u
<1>5. ASSUME NEW k \in e.convs, p \in k
      PROVE  UpsertsOf(u, k) # {} /\ LastAt(u, UpsertsOf(u, k), 0) = Projection(e, k, p)
  <2>1. CASE k = c /\ Announces(call, d, e, p)
    BY <1>4, <2>1
  <2>2. CASE ~ (k = c /\ Announces(call, d, e, p))
    <3>1. k \in d.convs /\ Projection(e, k, p) = Projection(d, k, p)
      <4>1. CASE k # c
        <5>1. k \in Pairs
          BY <1>2
        <5>2. SameConv(d, e, k)
          BY <4>1, <5>1, EffectApart DEF Apart
        <5> QED
          BY <1>3, <4>1, <5>2, SameReading
      <4>2. CASE k = c /\ IsSilent(call, d, e)
        <5>1. call.kind \notin {"like", "unlike"} /\ d = e
          BY <1>5, <4>2 DEF IsSilent
        <5> QED
          BY <1>5, <5>1
      <4>3. CASE k = c /\ call.kind \in {"react", "unreact"}
        <5>1. call.kind # "like"
          BY <4>3
        <5>2. e.convs = d.convs
          BY <1>1, <5>1 DEF Outcome
        <5>3. Outcome(call, d, e, now) /\ call.kind \in {"react", "unreact"}
          BY <1>1, <4>3
        <5>4. Projection(e, call.conv, p) = Projection(d, call.conv, p)
          BY <5>3, ReactionsUnlisted
        <5> QED
          BY <1>5, <4>3, <5>2, <5>4
      <4>4. k # c \/ IsSilent(call, d, e) \/ call.kind \in {"react", "unreact"}
        BY <1>5, <2>2 DEF Announces
      <4> QED
        BY <4>1, <4>2, <4>3, <4>4
    <3>2. UpsertsOf(u, k) = UpsertsOf(s, k) /\ LastAt(u, UpsertsOf(u, k), 0) = LastAt(s, UpsertsOf(s, k), 0)
      BY <1>4, <2>2
    <3> QED
      BY <1>5, <3>1, <3>2 DEF Listed
  <2> QED
    BY <2>1, <2>2
<1>6. ASSUME AtMostOne(e, p) PROVE CountTold(u) = UnreadCount(e, p)
  <2>1. AtMostOne(d, p)
    BY <1>3, <1>6 DEF AtMostOne
  <2>2. CountTold(s) = UnreadCount(d, p)
    BY <2>1 DEF Counted, CountTold
  <2>3. CASE p \notin c \/ ~ CountsAggregate(call, p)
    <3>1. UnreadCount(e, p) = UnreadCount(d, p)
      BY <2>3, UnreadKept
    <3>2. CountTold(u) = CountTold(s)
      BY <1>4, <2>3 DEF Announces
    <3> QED
      BY <2>2, <3>1, <3>2
  <2>4. CASE p \in c /\ CountsAggregate(call, p)
    <3>1. call.kind \in {"send", "read"}
      BY <2>4 DEF CountsAggregate
    <3>2. c \in d.convs
      BY <3>1 DEF CallSound
    <3>3. Only(e, p, c) /\ Only(d, p, c)
      BY <1>3, <1>6, <2>4, <3>2 DEF AtMostOne, Only
    <3>4. UnreadCount(d, p) = Cardinality(UnseenIn(d, c, p)) /\ UnreadCount(e, p) = after
      BY <1>1, <3>3, UnreadLocal
    <3>5. CASE IsSilent(call, d, e)
      <4>1. d = e
        BY <3>1, <3>5 DEF IsSilent
      <4>2. CountTold(u) = CountTold(s)
        BY <1>4, <3>5 DEF Announces
      <4> QED
        BY <2>2, <4>1, <4>2
    <3>6. CASE ~ IsSilent(call, d, e)
      <4>1. Announces(call, d, e, p)
        BY <2>4, <3>1, <3>6 DEF Announces
      <4> QED
        BY <1>4, <2>2, <2>4, <3>3, <3>4, <4>1
    <3> QED
      BY <3>5, <3>6
  <2> QED
    BY <2>3, <2>4
<1> QED
  BY <1>4, <1>5, <1>6 DEF Listed, Counted, CountTold, u

-----------------------------------------------------------------------------
(* The user streams                                                        *)

\* The messages that user u is to be notified of.
Concerns(m, u) == m.user # u /\ \E p \in m.conv : p # m.from /\ u \in Members[p]
Due(d, u) == {m.at : m \in {n \in d.messages : Concerns(n, u)}}

Notified(s, d, u) ==
  /\ {n.at : n \in {k \in d.notifications : k.user = u}} = Due(d, u)
  /\ {n.at : n \in {k \in d.jobs : k.user = u}} = IF u \in Pushable THEN Due(d, u) ELSE {}
  /\ Len(s) = Cardinality(Due(d, u))
  /\ {e.at : e \in ToSet(s)} = Due(d, u)

AtMostOneOf(d, u) == \A c, k \in d.convs : Tied(c, u) /\ Tied(k, u) => c = k

NoticesTold(s) == LastAt(s, 1..Len(s), [count |-> 0]).count
NoticesCounted(s, d, x, u) ==
  AtMostOneOf(d, u) /\ OnlyMessaged(x, u) => NoticesTold(s) = Cardinality(NoticesFor(d, u))

NoticeEvent(at, n) == [type |-> "notification", at |-> at, count |-> n]

Notifies(call, now, u) == call.kind = "send" /\ u \in Recipients(Sent(call, now))

\* The events t that a call adds to the stream of user u.
UserForetold(call, d, e, x, now, t, u) ==
  IF Notifies(call, now, u)
  THEN \E n \in Nat :
         /\ t = <<NoticeEvent(now, n)>>
         /\ OnlyUser(d, u, call.conv) /\ OnlyMessaged(x, u) => n = Cardinality(NoticesFor(e, u))
  ELSE t = <<>>

LEMMA RecipientsAre ==
  ASSUME NEW m, m.conv \in Pairs, m.from \in m.conv, NEW u
  PROVE  u \in Recipients(m) <=> Concerns(m, u)
<1>1. Other(m.conv, m.from) \in m.conv /\ Other(m.conv, m.from) # m.from
      /\ \A p \in m.conv : p # m.from => p = Other(m.conv, m.from)
  BY PairOf
<1> QED
  BY <1>1 DEF Recipients, Concerns

LEMMA DueFinite ==
  ASSUME NEW d, RowsSound(d), NEW u
  PROVE  IsFiniteSet(Due(d, u)) /\ Due(d, u) \subseteq Times
<1>1. d.messages \subseteq Message
  BY RowsTyped DEF RowsSound
<1>2. Due(d, u) \subseteq Times
  BY <1>1 DEF Due, Message
<1>3. IsFiniteSet(Times)
  BY LockAssumption, FS_Interval DEF Times
<1> QED
  BY <1>2, <1>3, FS_Subset

\* The notified profile is one of the pair's, and its other one than the author's.
LEMMA NotifiesTied ==
  ASSUME NEW call, call.conv \in Pairs, call.profile \in call.conv, NEW now, NEW u,
         u \in Recipients(Sent(call, now))
  PROVE  Tied(call.conv, u)
<1>1. Other(call.conv, call.profile) \in call.conv
  BY PairOf
<1>2. u \in Members[Other(call.conv, call.profile)]
  BY DEF Recipients, Sent
<1> QED
  BY <1>1, <1>2 DEF Tied

LEMMA UserEffect ==
  ASSUME NEW d, RowsSound(d), NEW call, CallSound(call, d), NEW now, Fresh(now, d),
         NEW e, e = Effect(call, d, now), NEW u \in Users,
         NEW x, NEW t, UserForetold(call, d, e, x, now, t, u),
         NEW s \in Seq(UserEvent), Notified(s, d, u), NoticesCounted(s, d, x, u)
  PROVE  s \o t \in Seq(UserEvent) /\ Notified(s \o t, e, u) /\ NoticesCounted(s \o t, e, x, u)
<1> DEFINE m == Sent(call, now)
<1>1. Outcome(call, d, e, now)
  BY EffectOutcome
<1>2. call \in CallType /\ call.conv \in Pairs /\ call.profile \in call.conv
  BY CallKinds DEF CallSound
<1>3. d.convs \subseteq e.convs
  BY <1>1 DEF Outcome
<1>4. m.conv = call.conv /\ m.from = call.profile /\ m.at = now
  BY DEF Sent
<1>5. now \in Times /\ \A n \in d.messages : n.at # now
  BY DEF Fresh
<1> HIDE DEF m
<1>6. u \in Recipients(m) <=> Concerns(m, u)
  BY <1>2, <1>4, RecipientsAre
<1>7. AtMostOneOf(e, u) => AtMostOneOf(d, u)
  BY <1>3 DEF AtMostOneOf
<1>8. CASE ~ Notifies(call, now, u)
  <2>1. t = <<>> /\ s \o t = s
    BY <1>8 DEF UserForetold
  <2>2. CASE call.kind = "send"
    <3>1. ~ Concerns(m, u)
      BY <1>6, <1>8, <2>2 DEF Notifies, m
    <3>2. /\ e.messages = d.messages \cup {m}
          /\ e.notifications = d.notifications \cup NotificationsOf(m)
          /\ e.jobs = d.jobs \cup PushJobsOf(m)
      BY <1>1, <2>2 DEF Outcome, m
    <3>3. {n \in e.messages : Concerns(n, u)} = {n \in d.messages : Concerns(n, u)}
      BY <3>1, <3>2
    <3>4. \A n \in NotificationsOf(m) : n.user # u
      BY <1>6, <3>1 DEF NotificationsOf
    <3>5. \A n \in PushJobsOf(m) : n.user # u
      BY <3>4, NoticesOf
    <3>6. {k \in e.notifications : k.user = u} = {k \in d.notifications : k.user = u}
      BY <3>2, <3>4
    <3>7. {k \in e.jobs : k.user = u} = {k \in d.jobs : k.user = u}
      BY <3>2, <3>5
    <3>8. Due(e, u) = Due(d, u)
      BY <3>3 DEF Due
    <3>9. NoticesFor(e, u) = NoticesFor(d, u)
      BY <3>6 DEF NoticesFor
    <3> QED
      BY <1>7, <2>1, <3>6, <3>7, <3>8, <3>9 DEF Notified, NoticesCounted
  <2>3. CASE call.kind # "send"
    <3>1. e.messages = d.messages /\ e.notifications = d.notifications /\ e.jobs = d.jobs
      BY <1>1, <2>3 DEF Outcome
    <3> QED
      BY <1>7, <2>1, <3>1 DEF Notified, NoticesCounted, Due, NoticesFor
  <2> QED
    BY <2>2, <2>3
<1>9. CASE Notifies(call, now, u)
  <2>1. PICK n \in Nat :
          /\ t = <<NoticeEvent(now, n)>>
          /\ OnlyUser(d, u, call.conv) /\ OnlyMessaged(x, u) => n = Cardinality(NoticesFor(e, u))
    BY <1>9 DEF UserForetold
  <2>2. call.kind = "send" /\ Concerns(m, u) /\ u \in Recipients(m)
    BY <1>6, <1>9 DEF Notifies, m
  <2>3. /\ e.messages = d.messages \cup {m}
        /\ e.notifications = d.notifications \cup NotificationsOf(m)
        /\ e.jobs = d.jobs \cup PushJobsOf(m)
    BY <1>1, <2>2 DEF Outcome, m
  <2> DEFINE z == NoticeEvent(now, n)
             v == s \o <<z>>
             k == Len(s) + 1
  <2>4. z \in UserEvent /\ z.at = now /\ z.count = n
    BY <1>5 DEF NoticeEvent, UserEvent
  <2>5. s \o t = v
    BY <2>1
  <2> HIDE DEF z
  <2>6. v \in Seq(UserEvent) /\ Len(v) = k /\ Len(s) \in Nat /\ 1..Len(v) = 1..Len(s) \cup {k}
    BY <2>4, Appended
  <2>7. Grown(s, z, v)
    BY <2>4, Growing
  <2> HIDE DEF v, k
  <2>8. Due(e, u) = Due(d, u) \cup {now} /\ now \notin Due(d, u)
    BY <1>4, <1>5, <2>2, <2>3 DEF Due
  <2>9. Cardinality(Due(e, u)) = Cardinality(Due(d, u)) + 1
    BY <2>8, DueFinite, FS_AddElement
  <2>10. {y.at : y \in {i \in e.notifications : i.user = u}} = Due(e, u)
    <3>1. \A y \in NotificationsOf(m) : y.at = now
      BY <1>4, NoticesOf
    <3>2. [user |-> u, at |-> now] \in NotificationsOf(m)
      BY <1>4, <2>2, NoticesOf
    <3>3. [user |-> u, at |-> now].user = u /\ [user |-> u, at |-> now].at = now
      OBVIOUS
    <3> DEFINE w == [user |-> u, at |-> now]
               A == {i \in d.notifications : i.user = u}
               B == {i \in e.notifications : i.user = u}
    <3> HIDE DEF w
    <3>4. w \in B /\ w.at = now /\ A \subseteq B
      BY <2>3, <3>2, <3>3 DEF w
    <3>5. \A y \in B : y \in A \/ y.at = now
      BY <2>3, <3>1
    <3> HIDE DEF A, B
    <3>6. {y.at : y \in B} = {y.at : y \in A} \cup {now}
      BY <3>4, <3>5
    <3> QED
      BY <2>8, <3>6 DEF Notified, A, B
  <2>11. {y.at : y \in {i \in e.jobs : i.user = u}} = IF u \in Pushable THEN Due(e, u) ELSE {}
    <3> DEFINE w == [user |-> u, at |-> now]
               A == {i \in d.jobs : i.user = u}
               B == {i \in e.jobs : i.user = u}
    <3>1. \A y \in PushJobsOf(m) : y.at = now
      BY <1>4, NoticesOf
    <3>2. w.user = u /\ w.at = now /\ (w \in PushJobsOf(m) <=> u \in Pushable)
      BY <1>4, <2>2, NoticesOf
    <3> HIDE DEF w
    <3>3. A \subseteq B /\ \A y \in B : y \in A \/ (y.at = now /\ y \in PushJobsOf(m) /\ y.user = u)
      BY <2>3, <3>1
    <3>4. \A y \in PushJobsOf(m) : y.user = u => u \in Pushable
      BY DEF PushJobsOf
    <3>5. CASE u \in Pushable
      <4>1. w \in B
        BY <2>3, <3>2, <3>5
      <4> HIDE DEF A, B
      <4>2. {y.at : y \in B} = {y.at : y \in A} \cup {now}
        BY <3>2, <3>3, <4>1
      <4> QED
        BY <2>8, <3>5, <4>2 DEF Notified, A, B
    <3>6. CASE u \notin Pushable
      <4>1. A = B
        BY <3>3, <3>4, <3>6
      <4> QED
        BY <3>6, <4>1 DEF Notified
    <3> QED
      BY <3>5, <3>6
  <2>12. Len(v) = Cardinality(Due(e, u))
    BY <2>6, <2>9 DEF Notified, k
  <2>13. {y.at : y \in ToSet(v)} = Due(e, u)
    <3>1. DOMAIN v = 1..Len(v) /\ DOMAIN s = 1..Len(s)
      BY <2>6
    <3>2. ToSet(v) = ToSet(s) \cup {z}
      BY <2>6, <2>7, <3>1 DEF ToSet, Grown, k
    <3> QED
      BY <2>4, <2>8, <3>2 DEF Notified
  <2>14. NoticesCounted(v, e, x, u)
    <3> SUFFICES ASSUME AtMostOneOf(e, u), OnlyMessaged(x, u)
                 PROVE  NoticesTold(v) = Cardinality(NoticesFor(e, u))
      BY DEF NoticesCounted
    <3>1. call.conv \in d.convs /\ Tied(call.conv, u)
      BY <1>2, <2>2, NotifiesTied DEF CallSound, m
    <3>2. OnlyUser(d, u, call.conv)
      BY <1>7, <3>1 DEF AtMostOneOf, OnlyUser
    <3>3. LastAt(v, 1..Len(s) \cup {k}, [count |-> 0]) = z
      BY <2>7 DEF Grown, k
    <3> QED
      BY <2>1, <2>4, <2>6, <3>2, <3>3 DEF NoticesTold
  <2> QED
    BY <2>5, <2>6, <2>10, <2>11, <2>12, <2>13, <2>14 DEF Notified
<1> QED
  BY <1>8, <1>9

-----------------------------------------------------------------------------
(* What a prepared transaction has foretold                                *)

EventsType == [conv : Seq(ConvEvent), profile : [Profiles -> Seq(ProfileEvent)],
               user : [Users -> Seq(UserEvent)]]

\* The events ev that call has prepared are those of its effect on the rows d,
\* with the notification rows x of others.
Foretold(call, now, ev, d, x) ==
  LET e == Effect(call, d, now)
  IN  /\ Allowed(call, d) /\ ~ SenderReadThrows(call, d, now)
      /\ ev.conv = ConversationTold(call, d, e, now)
      /\ \A p \in Profiles : ProfileForetold(call, d, e, ev.profile[p], p)
      /\ \A u \in Users : UserForetold(call, d, e, x, now, ev.user[u], u)

\* The counts read under the lock are those of the rows d.
CountedBefore(call, before, d) ==
  \A p \in call.conv : Only(d, p, call.conv) => before[p] = Cardinality(UnseenIn(d, call.conv, p))

\* What the notification rows are that the transactions do not write.
NoticesTyped(x, d) ==
  /\ x \in [matches : SUBSET MatchNotice, seen : SUBSET (Notice \cup MatchNotice)]
  /\ x.seen \subseteq d.notifications \cup x.matches

LEMMA NoticesFinite ==
  ASSUME NEW d, RowsSound(d), NEW x, NoticesTyped(x, d), NEW u
  PROVE  UnreadNotifications(d, x, u) \in Nat /\ Cardinality(NoticesFor(d, u)) \in Nat
<1> DEFINE S == NoticesFor(d, u)
           f == [n \in S |-> n.at]
           T == {n \in x.matches : n.user = u}
           g == [n \in T |-> <<n.profile, n.at>>]
           R == {n \in (d.notifications \cup x.matches) \ x.seen : n.user = u}
<1>1. d.notifications \subseteq Notice
  BY RowsTyped DEF RowsSound
<1>2. \A n \in S : n = [user |-> u, at |-> n.at] /\ n.at \in Times
  BY <1>1 DEF NoticesFor, Notice
<1>3. \A n \in T : n = [user |-> u, profile |-> n.profile, at |-> n.at]
                   /\ n.profile \in Profiles /\ n.at \in Times
  BY DEF MatchNotice, NoticesTyped
<1>4. R \subseteq S \cup T
  BY DEF NoticesFor
<1> HIDE DEF S, T, R
<1>5. f \in Injection(S, Times)
  <2>1. f \in [S -> Times]
    BY <1>2
  <2>2. \A a, b \in S : f[a] = f[b] => a = b
    <3> TAKE a, b \in S
    <3>1. f[a] = a.at /\ f[b] = b.at
      OBVIOUS
    <3> HIDE DEF f
    <3> QED
      BY <1>2, <3>1
  <2> HIDE DEF f
  <2> QED
    BY <2>1, <2>2 DEF Injection, IsInjective
<1>6. g \in Injection(T, Profiles \X Times)
  <2>1. g \in [T -> Profiles \X Times]
    BY <1>3
  <2>2. \A a, b \in T : g[a] = g[b] => a = b
    <3> TAKE a, b \in T
    <3>1. g[a] = <<a.profile, a.at>> /\ g[b] = <<b.profile, b.at>>
      OBVIOUS
    <3> HIDE DEF g
    <3> QED
      BY <1>3, <3>1
  <2> HIDE DEF g
  <2> QED
    BY <2>1, <2>2 DEF Injection, IsInjective
<1>7. IsFiniteSet(Times)
  BY LockAssumption, FS_Interval DEF Times
<1>8. IsFiniteSet(S)
  BY <1>5, <1>7, FS_Injection
<1>9. IsFiniteSet(T)
  <2>1. IsFiniteSet(Profiles \X Times)
    BY <1>7, FiniteAssumption, FS_Product
  <2> QED
    BY <1>6, <2>1, FS_Injection
<1>10. IsFiniteSet(R)
  BY <1>4, <1>8, <1>9, FS_Union, FS_Subset
<1>11. Cardinality(R) \in Nat /\ Cardinality(S) \in Nat
  BY <1>8, <1>10, FS_CardinalityType
<1> QED
  BY <1>11 DEF UnreadNotifications, S, R

\* The count of a user who has had nothing but messages is that of their
\* notifications.
LEMMA MessagedCount ==
  ASSUME NEW d, NEW x, NEW u, OnlyMessaged(x, u)
  PROVE  UnreadNotifications(d, x, u) = Cardinality(NoticesFor(d, u))
<1>1. {n \in (d.notifications \cup x.matches) \ x.seen : n.user = u} = NoticesFor(d, u)
  BY DEF OnlyMessaged, NoticesFor
<1> QED
  BY <1>1 DEF UnreadNotifications

LEMMA EventsTyped ==
  ASSUME NEW d, RowsSound(d), NEW e, RowsSound(e), NEW call, CallSound(call, d),
         NEW now \in Times, NEW before, NEW x, NoticesTyped(x, e)
  PROVE  EventsOf(call, d, e, x, before, now) \in EventsType
<1>1. call \in CallType /\ call.conv \in Pairs /\ call.profile \in call.conv /\ call.profile \in Profiles
      /\ call.kind \in {"like", "unlike", "send", "read", "react", "unreact"}
      /\ (call.kind \in {"react", "unreact"} => call.at \in Times)
  BY CallKinds DEF CallSound
<1>2. NoEvents \in EventsType
  BY DEF NoEvents, EventsType
<1>3. StateEvent(call, e) \in ConvEvent
  BY DEF StateEvent, Matched, ConvEvent
<1>4. ReadEvent(call, e) \in ConvEvent
  <2>1. e.reads[call.conv][call.profile] \in Times
    BY <1>1 DEF RowsSound
  <2> QED
    BY <1>1, <2>1 DEF ReadEvent, ConvEvent
<1>5. call.kind \in {"react", "unreact"} => ReactionEvent(call) \in ConvEvent
  BY <1>1 DEF ReactionEvent, ConvEvent
<1>6. [type |-> "message", at |-> now, from |-> call.profile] \in ConvEvent
  BY <1>1 DEF ConvEvent
<1>7. ConversationEvents(call, d, e, now) \in Seq(ConvEvent)
  BY <1>1, <1>3, <1>4, <1>5, <1>6 DEF ConversationEvents
<1>8. ASSUME NEW p \in Profiles PROVE ProfileEvents(call, e, before, p) \in Seq(ProfileEvent)
  <2> DEFINE w == Projection(e, call.conv, p)
             y == [type |-> "unread", count |-> UnreadCount(e, p)]
             z == IF CountsAggregate(call, p) /\ before[p] # UnreadCount(e, p) THEN <<y>> ELSE <<>>
  <2>1. w \in ProfileEvent
    BY <1>1, UpsertTyped DEF ProfileEvent
  <2>2. y \in ProfileEvent
    BY UnseenFinite DEF ProfileEvent
  <2> HIDE DEF w, y
  <2>3. z \in Seq(ProfileEvent) /\ <<w>> \in Seq(ProfileEvent)
    BY <2>1, <2>2
  <2> HIDE DEF z
  <2>4. <<w>> \o z \in Seq(ProfileEvent)
    BY <2>3, ConcatProperties
  <2>5. ProfileEvents(call, e, before, p) =
          IF p \notin call.conv \/ call.kind \in {"react", "unreact"} THEN <<>> ELSE <<w>> \o z
    BY DEF ProfileEvents, w, y, z
  <2> QED
    BY <2>4, <2>5
<1>9. ASSUME NEW u \in Users PROVE UserEvents(call, e, x, now, u) \in Seq(UserEvent)
  <2>1. [type |-> "notification", at |-> now, count |-> UnreadNotifications(e, x, u)] \in UserEvent
    BY NoticesFinite DEF UserEvent
  <2> QED
    BY <2>1 DEF UserEvents
<1> QED
  BY <1>2, <1>7, <1>8, <1>9 DEF EventsOf, EventsType

LEMMA OneThenMore ==
  ASSUME NEW S, NEW x \in S, NEW y \in S
  PROVE  <<x>> \o <<y>> = <<x, y>> /\ <<x>> \o <<>> = <<x>>
<1>1. <<>> \o <<x, y>> = (<<>> \o <<x>>) \o <<y>>
  <2>1. \A z \in Seq(S) : z \o <<x, y>> = (z \o <<x>>) \o <<y>>
    <3> TAKE z \in Seq(S)
    <3> QED
      BY AppendTwo
  <2>2. <<>> \in Seq(S)
    OBVIOUS
  <2> QED
    BY <2>1, <2>2
<1>2. <<>> \o <<x, y>> = <<x, y>> /\ <<>> \o <<x>> = <<x>> /\ <<x>> \o <<>> = <<x>>
  <2>1. <<x, y>> \in Seq(S) /\ <<x>> \in Seq(S)
    OBVIOUS
  <2> QED
    BY <2>1, ConcatEmptySeq
<1> QED
  BY <1>1, <1>2

\* What is prepared is foretold.
LEMMA ForetoldStarts ==
  ASSUME NEW d, RowsSound(d), NEW call, CallSound(call, d), NEW now, Fresh(now, d), NEW before,
         CountedBefore(call, before, d), Allowed(call, d), ~ SenderReadThrows(call, d, now),
         NEW x, NoticesTyped(x, Effect(call, d, now))
  PROVE  Foretold(call, now, EventsOf(call, d, Effect(call, d, now), x, before, now), d, x)
<1> DEFINE e == Effect(call, d, now)
           c == call.conv
           m == Sent(call, now)
           ev == EventsOf(call, d, e, x, before, now)
<1>1. Outcome(call, d, e, now) /\ RowsSound(e)
  BY EffectOutcome, EffectSound
<1>2. call \in CallType /\ c \in Pairs /\ call.profile \in c /\ now \in Times
  BY CallKinds DEF CallSound, Fresh
<1>6. NoticesTyped(x, e)
  OBVIOUS
<1> HIDE DEF e, m
<1>3. ev.conv = ConversationTold(call, d, e, now)
  BY DEF EventsOf, NoEvents, ConversationTold
<1>4. ASSUME NEW p \in Profiles PROVE ProfileForetold(call, d, e, ev.profile[p], p)
  <2> DEFINE w == Projection(e, c, p)
             y == UnreadEvent(UnreadCount(e, p))
  <2>1. w \in ProfileEvent /\ y \in ProfileEvent /\ UnreadCount(e, p) \in Nat
    <3>1. UnreadCount(e, p) \in Nat
      BY <1>1, UnseenFinite
    <3> QED
      BY <1>1, <1>2, <3>1, UpsertTyped DEF ProfileEvent, UnreadEvent
  <2>2. <<w>> \o <<y>> = <<w, y>> /\ <<w>> \o <<>> = <<w>>
    <3> HIDE DEF w, y
    <3> QED
      BY <2>1, OneThenMore
  <2>3. ev.profile[p] = IF IsSilent(call, d, e) THEN <<>> ELSE ProfileEvents(call, e, before, p)
    BY DEF EventsOf, NoEvents
  <2>4. CASE ~ Announces(call, d, e, p)
    <3>1. ev.profile[p] = <<>>
      BY <2>3, <2>4 DEF Announces, ProfileEvents
    <3> HIDE DEF ev
    <3> QED
      BY <2>4, <3>1 DEF ProfileForetold
  <2>5. CASE Announces(call, d, e, p)
    <3>1. ev.profile[p] = <<w>> \o (IF CountsAggregate(call, p) /\ before[p] # UnreadCount(e, p) THEN <<y>> ELSE <<>>)
      BY <2>3, <2>5 DEF Announces, ProfileEvents, UnreadEvent
    <3>2. p \in c
      BY <2>5 DEF Announces
    <3>3. Only(d, p, c) => /\ UnreadCount(e, p) = Cardinality(UnseenIn(e, c, p))
                           /\ before[p] = Cardinality(UnseenIn(d, c, p))
      <4> SUFFICES ASSUME Only(d, p, c)
                   PROVE  /\ UnreadCount(e, p) = Cardinality(UnseenIn(e, c, p))
                          /\ before[p] = Cardinality(UnseenIn(d, c, p))
        OBVIOUS
      <4>1. Only(e, p, c)
        BY <1>1 DEF Only, Outcome
      <4> QED
        BY <1>1, <3>2, <4>1, UnreadLocal DEF CountedBefore
    <3> HIDE DEF ev, y
    <3>4. CASE CountsAggregate(call, p) /\ before[p] # UnreadCount(e, p)
      <4>1. ev.profile[p] = <<w, y>>
        BY <2>2, <3>1, <3>4
      <4> QED
        BY <2>1, <2>5, <3>3, <3>4, <4>1 DEF ProfileForetold, y
    <3>5. CASE ~ (CountsAggregate(call, p) /\ before[p] # UnreadCount(e, p))
      <4>1. ev.profile[p] = <<w>>
        BY <2>2, <3>1, <3>5
      <4> QED
        BY <2>5, <3>3, <3>5, <4>1 DEF ProfileForetold
    <3> QED
      BY <3>4, <3>5
  <2> QED
    BY <2>4, <2>5
<1>5. ASSUME NEW u \in Users PROVE UserForetold(call, d, e, x, now, ev.user[u], u)
  <2> DEFINE w == [user |-> u, at |-> now]
  <2>1. call.kind = "send" => (w \in e.notifications <=> Notifies(call, now, u))
    <3> SUFFICES ASSUME call.kind = "send" PROVE w \in e.notifications <=> u \in Recipients(m)
      BY DEF Notifies, m
    <3>1. e.notifications = d.notifications \cup NotificationsOf(m)
      BY <1>1 DEF Outcome, m
    <3>2. w \notin d.notifications
      <4>1. w.at = now
        OBVIOUS
      <4> HIDE DEF w
      <4> QED
        BY <4>1 DEF RowsSound, Fresh
    <3>3. w \in NotificationsOf(m) <=> u \in Recipients(m)
      BY NoticesOf DEF m, Sent
    <3> QED
      BY <3>1, <3>2, <3>3
  <2>2. IsSilent(call, d, e) => ~ Notifies(call, now, u)
    BY <1>1, SendLoud DEF Notifies
  <2>3. ev.user[u] = IF IsSilent(call, d, e) THEN <<>> ELSE UserEvents(call, e, x, now, u)
    BY DEF EventsOf, NoEvents
  <2>4. CASE Notifies(call, now, u)
    <3>1. ev.user[u] = <<NoticeEvent(now, UnreadNotifications(e, x, u))>>
      BY <2>1, <2>2, <2>3, <2>4 DEF UserEvents, NoticeEvent, Notifies
    <3> HIDE DEF ev
    <3> QED
      BY <1>1, <1>6, <2>4, <3>1, NoticesFinite, MessagedCount DEF UserForetold
  <2>5. CASE ~ Notifies(call, now, u)
    <3>1. ev.user[u] = <<>>
      BY <2>1, <2>3, <2>5 DEF UserEvents
    <3> HIDE DEF ev
    <3> QED
      BY <2>5, <3>1 DEF UserForetold
  <2> QED
    BY <2>4, <2>5
<1> HIDE DEF ev
<1> QED
  BY <1>3, <1>4, <1>5 DEF Foretold, ev, e

\* It stays foretold while other conversations change.
LEMMA ForetoldKept ==
  ASSUME NEW d, RowsSound(d), NEW d1, RowsSound(d1), NEW call, CallSound(call, d), CallSound(call, d1),
         NEW now, Fresh(now, d), Fresh(now, d1), Apart(d, d1, call.conv),
         NEW ev, NEW x, Foretold(call, now, ev, d, x)
  PROVE  Foretold(call, now, ev, d1, x)
<1> DEFINE c == call.conv
           e == Effect(call, d, now)
           e1 == Effect(call, d1, now)
           m == Sent(call, now)
<1>1. /\ SameConv(e, e1, c) /\ (IsSilent(call, d, e) <=> IsSilent(call, d1, e1))
      /\ SameConv(d, d1, c) /\ d.convs \subseteq d1.convs
      /\ Outcome(call, d, e, now) /\ Outcome(call, d1, e1, now)
  BY EffectSame, EffectOutcome DEF Apart
<1>2. call \in CallType /\ c \in Pairs /\ call.profile \in c
      /\ call.kind \in {"like", "unlike", "send", "read", "react", "unreact"}
  BY CallKinds DEF CallSound
<1>3. /\ Allowed(call, d) /\ ~ SenderReadThrows(call, d, now)
      /\ ev.conv = ConversationTold(call, d, e, now)
      /\ \A p \in Profiles : ProfileForetold(call, d, e, ev.profile[p], p)
      /\ \A u \in Users : UserForetold(call, d, e, x, now, ev.user[u], u)
  BY DEF Foretold
<1> HIDE DEF e, e1
<1>4. /\ Matched(d, c) = Matched(d1, c) /\ Matched(e, c) = Matched(e1, c)
      /\ \A p : UnseenIn(d, c, p) = UnseenIn(d1, c, p) /\ UnseenIn(e, c, p) = UnseenIn(e1, c, p)
      /\ \A p : Projection(e, c, p) = Projection(e1, c, p)
  BY <1>1, SameReading
<1>5. d.reads[c] = d1.reads[c] /\ e.reads[c] = e1.reads[c]
  BY <1>1 DEF SameConv
<1>6. Allowed(call, d1) /\ ~ SenderReadThrows(call, d1, now)
  BY <1>3, <1>4, <1>5 DEF Allowed, SenderReadThrows, Advances
<1>7. ConversationTold(call, d, e, now) = ConversationTold(call, d1, e1, now)
  <2>1. StateEvent(call, e) = StateEvent(call, e1) /\ ReadEvent(call, e) = ReadEvent(call, e1)
    BY <1>4, <1>5 DEF StateEvent, ReadEvent
  <2>2. ConversationEvents(call, d, e, now) = ConversationEvents(call, d1, e1, now)
    BY <2>1 DEF ConversationEvents
  <2> QED
    BY <1>1, <2>2 DEF ConversationTold
<1>8. ASSUME NEW p \in Profiles PROVE ProfileForetold(call, d1, e1, ev.profile[p], p)
  <2>1. Announces(call, d, e, p) <=> Announces(call, d1, e1, p)
    BY <1>1 DEF Announces
  <2>2. Only(d1, p, c) => Only(d, p, c)
    BY <1>1 DEF Only
  <2>3. UnseenIn(d, c, p) = UnseenIn(d1, c, p) /\ UnseenIn(e, c, p) = UnseenIn(e1, c, p)
        /\ Projection(e, c, p) = Projection(e1, c, p) /\ ProfileForetold(call, d, e, ev.profile[p], p)
    BY <1>3, <1>4
  <2> QED
    BY <2>1, <2>2, <2>3 DEF ProfileForetold
<1>9. ASSUME NEW u \in Users PROVE UserForetold(call, d1, e1, x, now, ev.user[u], u)
  <2>1. UserForetold(call, d, e, x, now, ev.user[u], u)
    BY <1>3
  <2>2. CASE Notifies(call, now, u)
    <3>1. PICK n \in Nat : ev.user[u] = <<NoticeEvent(now, n)>>
                           /\ (OnlyUser(d, u, c) /\ OnlyMessaged(x, u) => n = Cardinality(NoticesFor(e, u)))
      BY <2>1, <2>2 DEF UserForetold
    <3>2. ASSUME OnlyUser(d1, u, c), OnlyMessaged(x, u) PROVE n = Cardinality(NoticesFor(e1, u))
      <4>1. OnlyUser(d, u, c) /\ NoticesFor(d1, u) = NoticesFor(d, u)
        BY <1>1, <3>2 DEF OnlyUser, Apart
      <4>2. call.kind = "send"
        BY <2>2 DEF Notifies
      <4>3. e.notifications = d.notifications \cup NotificationsOf(m)
            /\ e1.notifications = d1.notifications \cup NotificationsOf(m)
        BY <1>1, <4>2 DEF Outcome
      <4> HIDE DEF m
      <4>4. NoticesFor(e1, u) = NoticesFor(e, u)
        BY <4>1, <4>3 DEF NoticesFor
      <4> QED
        BY <3>1, <3>2, <4>1, <4>4
    <3> QED
      BY <2>2, <3>1, <3>2 DEF UserForetold
  <2>3. CASE ~ Notifies(call, now, u)
    BY <2>1, <2>3 DEF UserForetold
  <2> QED
    BY <2>2, <2>3
<1> QED
  BY <1>6, <1>7, <1>8, <1>9, <1>3 DEF Foretold, e1

\* It stays foretold while notifications of matches are added, or read.
LEMMA ForetoldLater ==
  ASSUME NEW call, NEW now, NEW ev, NEW d, NEW x, Foretold(call, now, ev, d, x),
         NEW y, \A u : OnlyMessaged(y, u) => OnlyMessaged(x, u)
  PROVE  Foretold(call, now, ev, d, y)
<1> DEFINE e == Effect(call, d, now)
<1> HIDE DEF e
<1>1. ASSUME NEW u, NEW t, UserForetold(call, d, e, x, now, t, u)
      PROVE  UserForetold(call, d, e, y, now, t, u)
  BY <1>1 DEF UserForetold
<1> QED
  BY <1>1 DEF Foretold, e

-----------------------------------------------------------------------------
(* The inductive invariant                                                 *)

ReqType == [pc : {"idle", "waiting", "locked", "prepared", "notifying"},
            call : CallType \cup {NoCall}, startedAt : Times, before : [Profiles -> Nat],
            events : EventsType, announce : SUBSET MatchNotice]

Open(q) == q.pc \in {"waiting", "locked", "prepared"}
Holding(q) == q.pc \in {"locked", "prepared"}

\* The members that a call on the rows d is to notify of the match it makes.
Announced(call, d, now) == IF AnnouncesMatch(call, d) THEN MatchNotices(call.conv, now) ELSE {}

\* The transaction q is about what is there, at a time of its own; it has read
\* its counts under the lock; and what it has prepared will be its effect, and
\* its match to announce, even though other transactions have committed since.
RequestSound(q, d, x, now) ==
  /\ q.startedAt <= now
  /\ Open(q) => CallSound(q.call, d) /\ Fresh(q.startedAt, d)
  /\ Holding(q) => CountedBefore(q.call, q.before, d)
  /\ q.pc = "prepared" => /\ Foretold(q.call, q.startedAt, q.events, d, x)
                          /\ q.announce = Announced(q.call, d, q.startedAt)

\* The streams tell what the rows hold.
StreamsSound(l, d, x) ==
  /\ \A c \in Pairs : Tells(l.conv[c], d, c)
  /\ \A p \in Profiles : Listed(l.profile[p], d, p) /\ Counted(l.profile[p], d, p)
  /\ \A u \in Users : Notified(l.user[u], d, u) /\ NoticesCounted(l.user[u], d, x, u)

WellTyped == /\ clock \in Times /\ lock \in [Pairs -> Requests \cup {Free}]
          /\ req \in [Requests -> ReqType] /\ log \in LogType
          /\ RowsSound(db) /\ NoticesTyped(notices, db)

\* A transaction past the lock holds the lock of its pair, and nobody else does.
Locked == /\ \A r \in Requests : Holding(req[r]) => lock[req[r].call.conv] = r
          /\ \A c \in Pairs : lock[c] # Free => Holding(req[lock[c]]) /\ req[lock[c]].call.conv = c

Timed == /\ \A m \in db.messages : m.at <= clock
         /\ \A r, s \in Requests : Open(req[r]) /\ Open(req[s])
                                   /\ req[r].startedAt = req[s].startedAt => r = s

IInv == /\ WellTyped /\ Locked /\ Timed
        /\ \A r \in Requests : RequestSound(req[r], db, notices, clock)
        /\ StreamsSound(log, db, notices)

\* What a call on its pair announces depends on this pair only.
LEMMA AnnouncedSame ==
  ASSUME NEW d, RowsSound(d), NEW e, RowsSound(e), NEW call, CallSound(call, d), CallSound(call, e),
         NEW now, Fresh(now, d), Fresh(now, e), SameConv(d, e, call.conv)
  PROVE  Announced(call, d, now) = Announced(call, e, now)
<1>1. call \in CallType /\ call.profile \in call.conv
  BY DEF CallSound
<1>2. Matched(Effect(call, d, now), call.conv) = Matched(Effect(call, e, now), call.conv)
  BY EffectSame, SameReading
<1>3. call.kind = "like" => Matched(Like(call, d), call.conv) = Matched(Like(call, e), call.conv)
  BY <1>1, <1>2, EffectKinds
<1>4. <<call.profile, Other(call.conv, call.profile)>> \in d.likes
      <=> <<call.profile, Other(call.conv, call.profile)>> \in e.likes
  BY <1>1 DEF SameConv
<1>5. AnnouncesMatch(call, d) <=> AnnouncesMatch(call, e)
  BY <1>3, <1>4 DEF AnnouncesMatch
<1> QED
  BY <1>5 DEF Announced

LEMMA RequestMoves ==
  ASSUME NEW q \in ReqType, NEW d, RowsSound(d), NEW e, RowsSound(e), NEW x, NEW now,
         RequestSound(q, d, x, now), d.convs \subseteq e.convs, d.messages \subseteq e.messages,
         Open(q) => Fresh(q.startedAt, e), Holding(q) => Apart(d, e, q.call.conv)
  PROVE  RequestSound(q, e, x, now)
<1>1. Open(q) => CallSound(q.call, e)
  BY CallStays DEF RequestSound
<1>2. Holding(q) => CountedBefore(q.call, q.before, e)
  <2> SUFFICES ASSUME Holding(q), NEW p \in q.call.conv, Only(e, p, q.call.conv)
               PROVE  q.before[p] = Cardinality(UnseenIn(e, q.call.conv, p))
    BY DEF CountedBefore
  <2>1. SameConv(d, e, q.call.conv) /\ Only(d, p, q.call.conv)
    BY DEF Apart, Only
  <2>2. CountedBefore(q.call, q.before, d)
    BY DEF RequestSound
  <2> QED
    BY <2>1, <2>2, SameReading DEF CountedBefore
<1>3. ASSUME q.pc = "prepared"
      PROVE  /\ Foretold(q.call, q.startedAt, q.events, e, x)
             /\ q.announce = Announced(q.call, e, q.startedAt)
  <2>1. CallSound(q.call, d) /\ Fresh(q.startedAt, d)
        /\ Foretold(q.call, q.startedAt, q.events, d, x)
        /\ q.announce = Announced(q.call, d, q.startedAt)
    BY <1>3 DEF RequestSound, Open
  <2>2. CallSound(q.call, e) /\ Fresh(q.startedAt, e) /\ Apart(d, e, q.call.conv)
        /\ SameConv(d, e, q.call.conv)
    BY <1>1, <1>3 DEF Open, Holding, Apart
  <2>3. Foretold(q.call, q.startedAt, q.events, e, x)
    BY <2>1, <2>2, ForetoldKept
  <2>4. Announced(q.call, d, q.startedAt) = Announced(q.call, e, q.startedAt)
    BY <2>1, <2>2, AnnouncedSame
  <2> QED
    BY <2>1, <2>3, <2>4
<1> QED
  BY <1>1, <1>2, <1>3 DEF RequestSound

\* Notifications of matches, and reads, leave the transactions and streams sound.
LEMMA SoundLater ==
  ASSUME NEW d, NEW x, NEW y, \A u : OnlyMessaged(y, u) => OnlyMessaged(x, u)
  PROVE  /\ \A q, now : RequestSound(q, d, x, now) => RequestSound(q, d, y, now)
         /\ \A l : StreamsSound(l, d, x) => StreamsSound(l, d, y)
<1>1. ASSUME NEW q, NEW now, RequestSound(q, d, x, now) PROVE RequestSound(q, d, y, now)
  <2>1. q.pc = "prepared" => Foretold(q.call, q.startedAt, q.events, d, y)
    BY <1>1, ForetoldLater DEF RequestSound
  <2> QED
    BY <1>1, <2>1 DEF RequestSound
<1>2. ASSUME NEW l, StreamsSound(l, d, x) PROVE StreamsSound(l, d, y)
  <2>1. \A u : NoticesCounted(l.user[u], d, x, u) => NoticesCounted(l.user[u], d, y, u)
    BY DEF NoticesCounted
  <2> QED
    BY <1>2, <2>1 DEF StreamsSound
<1> QED
  BY <1>1, <1>2

\* Two transactions past the lock are about different pairs.
LEMMA HoldersApart ==
  ASSUME Locked, NEW r \in Requests, NEW s \in Requests, r # s, Holding(req[r]), Holding(req[s])
  PROVE  req[r].call.conv # req[s].call.conv
BY DEF Locked

LEMMA CallsSound ==
  ASSUME RowsSound(db), NEW call \in Calls
  PROVE  CallSound(call, db)
<1>1. db.convs \subseteq Pairs /\ db.messages \subseteq Message
  BY RowsTyped DEF RowsSound
<1>2. /\ call.profile \in call.conv
      /\ call.kind = "read" /\ call.at # 0 => \E m \in db.messages : m.conv = call.conv /\ m.at = call.at
      /\ call \in LikeCalls \/ call \in SendCalls \/ call \in ReadCalls \/ call \in EmojiCalls
  BY DEF Calls
<1>3. CASE call \in LikeCalls
  BY <1>2, <1>3 DEF LikeCalls, CallSound, CallType
<1>4. CASE call \in SendCalls
  <2>1. PICK p \in Profiles, u \in Users, c \in db.convs :
          call = [kind |-> "send", profile |-> p, user |-> u, conv |-> c]
    BY <1>4 DEF SendCalls
  <2>2. call \in CallType /\ call.kind = "send" /\ call.conv \in db.convs
    BY <1>1, <2>1 DEF CallType
  <2> QED
    BY <1>2, <2>2 DEF CallSound
<1>5. CASE call \in ReadCalls
  <2>1. PICK p \in Profiles, c \in db.convs, t \in {0} \cup {m.at : m \in db.messages} :
          call = [kind |-> "read", profile |-> p, conv |-> c, at |-> t]
    BY <1>5 DEF ReadCalls
  <2>2. t \in Times
    BY <1>1, NumberedTypes DEF Message
  <2>3. call \in CallType /\ call.kind = "read" /\ call.conv \in db.convs
    BY <1>1, <2>1, <2>2 DEF CallType
  <2>4. call.at # 0 => \E m \in MessagesOf(db, call.conv) : m.at = call.at
    BY <1>2, <2>3 DEF MessagesOf
  <2> QED
    BY <1>2, <2>3, <2>4 DEF CallSound
<1>6. CASE call \in EmojiCalls
  <2>1. PICK k \in {"react", "unreact"}, p \in Profiles, m \in db.messages :
          call = [kind |-> k, profile |-> p, conv |-> m.conv, at |-> m.at]
    BY <1>6 DEF EmojiCalls
  <2>2. m.conv \in db.convs /\ m.at \in Times
    BY <1>1 DEF RowsSound, Message
  <2>3. call \in CallType /\ call.kind \in {"react", "unreact"} /\ call.conv = m.conv /\ call.at = m.at
    BY <1>1, <2>1, <2>2 DEF CallType
  <2>4. \E n \in MessagesOf(db, call.conv) : n.at = call.at
    BY <2>3 DEF MessagesOf
  <2> QED
    BY <1>2, <2>2, <2>3, <2>4 DEF CallSound
<1> QED
  BY <1>2, <1>3, <1>4, <1>5, <1>6

LEMMA IdleTyped ==
  /\ Idle \in ReqType /\ Idle.pc = "idle" /\ Idle.startedAt = 0 /\ Idle.call = NoCall
  /\ Idle.announce = {}
<1>1. NoEvents \in EventsType
  BY DEF NoEvents, EventsType
<1>2. 0 \in Times /\ [p \in Profiles |-> 0] \in [Profiles -> Nat]
  BY NumberedTypes
<1> QED
  BY <1>1, <1>2 DEF Idle, ReqType

\* A handler after its commit is no transaction any more.
LEMMA AnnouncingTyped ==
  ASSUME NEW q \in ReqType, NEW left \in SUBSET MatchNotice
  PROVE  LET n == Announcing(q, left)
         IN  /\ n \in ReqType /\ ~ Open(n) /\ ~ Holding(n) /\ n.startedAt = 0 /\ n.announce = left
             /\ n.pc = IF left = {} THEN "idle" ELSE "notifying"
<1> DEFINE n == [Idle EXCEPT !.pc = "notifying", !.call = q.call, !.announce = left]
<1>1. q.call \in CallType \cup {NoCall}
  BY DEF ReqType
<1>2. n \in ReqType /\ n.pc = "notifying" /\ n.startedAt = 0 /\ n.announce = left
  BY <1>1, IdleTyped DEF ReqType
<1>3. Announcing(q, left) = IF left = {} THEN Idle ELSE n
  BY DEF Announcing
<1> HIDE DEF n
<1> QED
  BY <1>2, <1>3, IdleTyped DEF Open, Holding

LEMMA BeginStep ==
  ASSUME IInv, NEW r \in Requests, NEW call \in Calls, Begin(r, call)
  PROVE  IInv'
<1> DEFINE q == [Idle EXCEPT !.pc = "waiting", !.call = call, !.startedAt = clock + 1]
<1>1. /\ WellTyped /\ Locked /\ Timed /\ StreamsSound(log, db, notices)
      /\ \A s \in Requests : RequestSound(req[s], db, notices, clock)
      /\ RowsSound(db) /\ req \in [Requests -> ReqType] /\ clock \in Nat
  BY NumberedTypes DEF IInv, WellTyped
<1>2. /\ db' = db /\ notices' = notices /\ log' = log /\ lock' = lock /\ clock' = clock + 1 /\ clock + 1 \in Times \ {0}
      /\ req[r].pc = "idle" /\ req' = [req EXCEPT ![r] = q]
  BY <1>1, LockAssumption DEF Begin, Times
<1>3. CallSound(call, db)
  BY <1>1, CallsSound
<1>4. q \in ReqType /\ q.pc = "waiting" /\ q.call = call /\ q.startedAt = clock + 1
  BY <1>2, <1>3, IdleTyped DEF ReqType, CallSound
<1> HIDE DEF q
<1>5. /\ req' \in [Requests -> ReqType] /\ req'[r] = q
      /\ \A s \in Requests : s # r => req'[s] = req[s]
  BY <1>1, <1>2, <1>4
<1>6. \A s \in Requests : req[s].startedAt <= clock /\ req[s].startedAt \in Nat
  BY <1>1, NumberedTypes DEF RequestSound, ReqType
<1>7. Fresh(clock + 1, db)
  <2>1. \A m \in db.messages : m.at <= clock /\ m.at \in Nat
    BY <1>1, RowsTyped, NumberedTypes DEF Timed, RowsSound, Message
  <2> QED
    BY <1>1, <1>2, <2>1 DEF Fresh
<1>8. WellTyped'
  BY <1>1, <1>2, <1>5 DEF WellTyped
<1>9. Locked'
  BY <1>1, <1>2, <1>4, <1>5 DEF Locked, Holding, WellTyped
<1>10. Timed'
  <2>1. \A m \in db.messages : m.at <= clock + 1
    <3>1. \A m \in db.messages : m.at <= clock /\ m.at \in Nat
      BY <1>1, RowsTyped, NumberedTypes DEF Timed, RowsSound, Message
    <3> QED
      BY <1>1, <3>1
  <2>2. \A s \in Requests : req[s].startedAt # clock + 1
    BY <1>1, <1>6
  <2>3. \A s, t \in Requests : Open(req'[s]) /\ Open(req'[t])
                               /\ req'[s].startedAt = req'[t].startedAt => s = t
    BY <1>1, <1>2, <1>4, <1>5, <2>2 DEF Timed, Open
  <2> QED
    BY <1>2, <2>1, <2>3 DEF Timed
<1>11. \A s \in Requests : RequestSound(req'[s], db, notices, clock + 1)
  <2> TAKE s \in Requests
  <2>1. CASE s = r
    BY <1>1, <1>3, <1>4, <1>5, <1>7, <2>1 DEF RequestSound, Open, Holding
  <2>2. CASE s # r
    BY <1>1, <1>5, <1>6, <2>2 DEF RequestSound
  <2> QED
    BY <2>1, <2>2
<1> QED
  BY <1>1, <1>2, <1>8, <1>9, <1>10, <1>11 DEF IInv

LEMMA LockStep ==
  ASSUME IInv, NEW r \in Requests, Lock(r)
  PROVE  IInv'
<1> DEFINE f == [p \in Profiles |-> UnreadCount(db, p)]
           q == [req[r] EXCEPT !.pc = "locked", !.before = f]
           c == req[r].call.conv
<1>1. /\ WellTyped /\ Locked /\ Timed /\ StreamsSound(log, db, notices)
      /\ \A s \in Requests : RequestSound(req[s], db, notices, clock)
      /\ RowsSound(db) /\ req \in [Requests -> ReqType] /\ lock \in [Pairs -> Requests \cup {Free}]
  BY DEF IInv, WellTyped
<1>2. /\ db' = db /\ notices' = notices /\ log' = log /\ clock' = clock /\ lock' = [lock EXCEPT ![c] = r]
      /\ req[r].pc = "waiting" /\ lock[c] = Free /\ req' = [req EXCEPT ![r] = q]
  BY <1>1 DEF Lock, LockGranted
<1>3. f \in [Profiles -> Nat]
  BY <1>1, UnseenFinite
<1>4. CallSound(req[r].call, db) /\ Fresh(req[r].startedAt, db) /\ req[r].startedAt <= clock
  BY <1>1, <1>2 DEF RequestSound, Open
<1>5. c \in Pairs
  BY <1>4, CallKinds DEF CallSound
<1> HIDE DEF f
<1>6. q \in ReqType /\ q.pc = "locked" /\ q.call = req[r].call /\ q.startedAt = req[r].startedAt
      /\ q.before = f
  <2>1. req[r] \in ReqType
    BY <1>1
  <2> QED
    BY <1>3, <2>1 DEF ReqType
<1> HIDE DEF q
<1>7. /\ req' \in [Requests -> ReqType] /\ req'[r] = q
      /\ \A s \in Requests : s # r => req'[s] = req[s]
  BY <1>1, <1>2, <1>6
<1>8. CountedBefore(req[r].call, f, db)
  <2> SUFFICES ASSUME NEW p \in c, Only(db, p, c) PROVE f[p] = Cardinality(UnseenIn(db, c, p))
    BY DEF CountedBefore
  <2>1. p \in Profiles
    BY <1>5, PairOf
  <2> QED
    BY <1>1, <2>1, UnreadLocal DEF f
<1>9. WellTyped'
  BY <1>1, <1>2, <1>5, <1>7 DEF WellTyped
<1>10. Locked'
  <2>1. \A k \in Pairs : lock'[k] = IF k = c THEN r ELSE lock[k]
    BY <1>1, <1>2, <1>5
  <2>2. ASSUME NEW s \in Requests, Holding(req'[s]) PROVE lock'[req'[s].call.conv] = s
    <3>1. CASE s = r
      BY <1>5, <1>6, <1>7, <2>1, <3>1
    <3>2. CASE s # r
      <4>1. Holding(req[s]) /\ req'[s] = req[s]
        BY <1>7, <2>2, <3>2
      <4>2. lock[req[s].call.conv] = s /\ s # Free
        BY <1>1, <4>1, LockAssumption DEF Locked
      <4>3. req[s].call.conv # c
        BY <1>2, <4>2
      <4>4. CallSound(req[s].call, db)
        BY <1>1, <4>1 DEF RequestSound, Open, Holding
      <4>5. req[s].call.conv \in Pairs
        BY <4>4, CallKinds DEF CallSound
      <4> QED
        BY <2>1, <4>1, <4>2, <4>3, <4>5
    <3> QED
      BY <3>1, <3>2
  <2>3. ASSUME NEW k \in Pairs, lock'[k] # Free
        PROVE  Holding(req'[lock'[k]]) /\ req'[lock'[k]].call.conv = k
    <3>1. CASE k = c
      BY <1>6, <1>7, <2>1, <3>1 DEF Holding
    <3>2. CASE k # c
      <4>1. lock'[k] = lock[k] /\ lock[k] \in Requests
        BY <1>1, <2>1, <2>3, <3>2
      <4>2. Holding(req[lock[k]]) /\ req[lock[k]].call.conv = k
        BY <1>1, <2>3, <4>1 DEF Locked
      <4>3. lock[k] # r
        BY <1>2, <4>2 DEF Holding
      <4> QED
        BY <1>7, <4>1, <4>2, <4>3
    <3> QED
      BY <3>1, <3>2
  <2> QED
    BY <2>2, <2>3 DEF Locked
<1>11. Timed'
  BY <1>1, <1>2, <1>6, <1>7 DEF Timed, Open
<1>12. \A s \in Requests : RequestSound(req'[s], db, notices, clock)
  <2> TAKE s \in Requests
  <2>1. CASE s = r
    BY <1>4, <1>6, <1>7, <1>8, <2>1 DEF RequestSound, Open, Holding
  <2>2. CASE s # r
    BY <1>1, <1>7, <2>2
  <2> QED
    BY <2>1, <2>2
<1> QED
  BY <1>1, <1>2, <1>9, <1>10, <1>11, <1>12 DEF IInv

\* The transactions only add notification rows.
LEMMA NoticesStay ==
  ASSUME NEW d, RowsSound(d), NEW call, CallSound(call, d), NEW now, Fresh(now, d),
         NEW x, NoticesTyped(x, d)
  PROVE  NoticesTyped(x, Effect(call, d, now))
<1>1. Outcome(call, d, Effect(call, d, now), now)
  BY EffectOutcome
<1>2. d.notifications \subseteq Effect(call, d, now).notifications
  BY <1>1 DEF Outcome
<1> QED
  BY <1>2 DEF NoticesTyped

LEMMA MatchNoticesTyped ==
  ASSUME NEW c \in Pairs, NEW now \in Times
  PROVE  MatchNotices(c, now) \subseteq MatchNotice
<1>1. \A p \in c : p \in Profiles /\ Members[p] \subseteq Users
  BY MembersAssumption DEF Pairs
<1> QED
  BY <1>1 DEF MatchNotices, MatchNotice

LEMMA PrepareStep ==
  ASSUME IInv, NEW r \in Requests, Prepare(r)
  PROVE  IInv'
<1> DEFINE call == req[r].call
           now == req[r].startedAt
           ev == EventsOf(call, db, Effect(call, db, now), notices, req[r].before, now)
           left == Announced(call, db, now)
           q == [req[r] EXCEPT !.pc = "prepared", !.events = ev, !.announce = left]
<1>1. /\ WellTyped /\ Locked /\ Timed /\ StreamsSound(log, db, notices)
      /\ \A s \in Requests : RequestSound(req[s], db, notices, clock)
      /\ RowsSound(db) /\ req \in [Requests -> ReqType] /\ lock \in [Pairs -> Requests \cup {Free}]
      /\ NoticesTyped(notices, db)
  BY DEF IInv, WellTyped
<1>2. /\ db' = db /\ notices' = notices /\ log' = log /\ clock' = clock /\ lock' = lock
      /\ req[r].pc = "locked" /\ Allowed(call, db) /\ ~ SenderReadThrows(call, db, now)
      /\ req' = [req EXCEPT ![r] = q]
  BY <1>1 DEF Prepare, Announced
<1>3. /\ CallSound(call, db) /\ Fresh(now, db) /\ now <= clock /\ now \in Times
      /\ CountedBefore(call, req[r].before, db)
  BY <1>1, <1>2 DEF RequestSound, Open, Holding, Fresh
<1>4. ev \in EventsType /\ left \in SUBSET MatchNotice
  <2>1. RowsSound(Effect(call, db, now)) /\ NoticesTyped(notices, Effect(call, db, now))
    BY <1>1, <1>3, EffectSound, NoticesStay
  <2>2. ev \in EventsType
    BY <1>1, <1>3, <2>1, EventsTyped
  <2>3. call.conv \in Pairs
    BY <1>3, CallKinds DEF CallSound
  <2>4. left \in SUBSET MatchNotice
    BY <1>3, <2>3, MatchNoticesTyped DEF Announced
  <2> QED
    BY <2>2, <2>4
<1>5. Foretold(call, now, ev, db, notices)
  BY <1>1, <1>2, <1>3, NoticesStay, ForetoldStarts
<1> HIDE DEF ev, left
<1>6. q \in ReqType /\ q.pc = "prepared" /\ q.call = call /\ q.startedAt = now
      /\ q.before = req[r].before /\ q.events = ev /\ q.announce = left
  <2>1. req[r] \in ReqType
    BY <1>1
  <2> QED
    BY <1>4, <2>1 DEF ReqType
<1> HIDE DEF q
<1>7. /\ req' \in [Requests -> ReqType] /\ req'[r] = q
      /\ \A s \in Requests : s # r => req'[s] = req[s]
  BY <1>1, <1>2, <1>6
<1>8. WellTyped'
  BY <1>1, <1>2, <1>7 DEF WellTyped
<1>9. Locked'
  <2>1. \A s \in Requests : req'[s].call = req[s].call /\ (Holding(req'[s]) <=> Holding(req[s]))
    BY <1>2, <1>6, <1>7 DEF Holding
  <2> QED
    BY <1>1, <1>2, <2>1 DEF Locked
<1>10. Timed'
  BY <1>1, <1>2, <1>6, <1>7 DEF Timed, Open
<1>11. \A s \in Requests : RequestSound(req'[s], db, notices, clock)
  <2> TAKE s \in Requests
  <2>1. CASE s = r
    BY <1>3, <1>5, <1>6, <1>7, <2>1 DEF RequestSound, left
  <2>2. CASE s # r
    BY <1>1, <1>7, <2>2
  <2> QED
    BY <2>1, <2>2
<1> QED
  BY <1>1, <1>2, <1>8, <1>9, <1>10, <1>11 DEF IInv

\* The transaction is over: its lock is free, and the others go on.
LEMMA Unlocking ==
  ASSUME IInv, NEW r \in Requests, lock' = Unlocked(r),
         NEW q \in ReqType, ~ Open(q), ~ Holding(q), req' = [req EXCEPT ![r] = q]
  PROVE  /\ lock' \in [Pairs -> Requests \cup {Free}] /\ req' \in [Requests -> ReqType]
         /\ req'[r] = q /\ \A s \in Requests : s # r => req'[s] = req[s]
         /\ Locked'
         /\ \A s, t \in Requests : Open(req'[s]) /\ Open(req'[t])
                                   /\ req'[s].startedAt = req'[t].startedAt => s = t
<1>1. /\ Locked /\ Timed /\ req \in [Requests -> ReqType] /\ lock \in [Pairs -> Requests \cup {Free}]
      /\ \A s \in Requests : RequestSound(req[s], db, notices, clock)
  BY DEF IInv, WellTyped
<1>2. /\ req' \in [Requests -> ReqType] /\ req'[r] = q
      /\ \A s \in Requests : s # r => req'[s] = req[s]
  BY <1>1
<1>3. /\ lock' \in [Pairs -> Requests \cup {Free}]
      /\ \A k \in Pairs : lock'[k] = IF lock[k] = r THEN Free ELSE lock[k]
  BY <1>1 DEF Unlocked
<1>4. ASSUME NEW s \in Requests, Holding(req'[s]) PROVE lock'[req'[s].call.conv] = s
  <2>1. s # r
    BY <1>2, <1>4
  <2>2. req'[s] = req[s] /\ Holding(req[s])
    BY <1>2, <1>4, <2>1
  <2>3. lock[req[s].call.conv] = s
    BY <1>1, <2>2 DEF Locked
  <2>4. CallSound(req[s].call, db)
    BY <1>1, <2>2 DEF RequestSound, Open, Holding
  <2>5. req[s].call.conv \in Pairs
    BY <2>4, CallKinds DEF CallSound
  <2> QED
    BY <1>3, <2>1, <2>2, <2>3, <2>5
<1>5. ASSUME NEW k \in Pairs, lock'[k] # Free
      PROVE  Holding(req'[lock'[k]]) /\ req'[lock'[k]].call.conv = k
  <2>1. lock'[k] = lock[k] /\ lock[k] # r /\ lock[k] \in Requests
    BY <1>1, <1>3, <1>5
  <2>2. Holding(req[lock[k]]) /\ req[lock[k]].call.conv = k
    BY <1>1, <1>5, <2>1 DEF Locked
  <2> QED
    BY <1>2, <2>1, <2>2
<1>6. Locked'
  BY <1>4, <1>5 DEF Locked
<1>7. \A s, t \in Requests : Open(req'[s]) /\ Open(req'[t])
                             /\ req'[s].startedAt = req'[t].startedAt => s = t
  BY <1>1, <1>2 DEF Timed
<1> QED
  BY <1>2, <1>3, <1>6, <1>7

LEMMA RollbackStep ==
  ASSUME IInv, NEW r \in Requests, RolledBack(r)
  PROVE  IInv'
<1>1. /\ WellTyped /\ Timed /\ StreamsSound(log, db, notices)
      /\ \A s \in Requests : RequestSound(req[s], db, notices, clock)
  BY DEF IInv
<1>2. /\ db' = db /\ notices' = notices /\ log' = log /\ clock' = clock /\ lock' = Unlocked(r)
      /\ req' = [req EXCEPT ![r] = Idle]
  BY DEF RolledBack
<1>3. Idle \in ReqType /\ ~ Open(Idle) /\ ~ Holding(Idle)
  BY IdleTyped DEF Open, Holding
<1>4. /\ lock' \in [Pairs -> Requests \cup {Free}] /\ req' \in [Requests -> ReqType]
      /\ req'[r] = Idle /\ \A s \in Requests : s # r => req'[s] = req[s]
  BY <1>2, <1>3, Unlocking
<1>5. Locked' /\ \A s, t \in Requests : Open(req'[s]) /\ Open(req'[t])
                                         /\ req'[s].startedAt = req'[t].startedAt => s = t
  BY <1>2, <1>3, Unlocking
<1>6. \A s \in Requests : RequestSound(req'[s], db, notices, clock)
  <2> TAKE s \in Requests
  <2>1. CASE s = r
    BY <1>1, <1>4, <1>3, <2>1, IdleTyped, NumberedTypes DEF RequestSound, WellTyped
  <2>2. CASE s # r
    BY <1>1, <1>4, <2>2
  <2> QED
    BY <2>1, <2>2
<1>7. WellTyped'
  BY <1>1, <1>2, <1>4 DEF WellTyped
<1>8. Timed'
  BY <1>1, <1>2, <1>5 DEF Timed
<1> QED
  BY <1>1, <1>2, <1>5, <1>6, <1>7, <1>8 DEF IInv

LEMMA CommitStep ==
  ASSUME IInv, NEW r \in Requests, Commit(r)
  PROVE  IInv'
<1> DEFINE call == req[r].call
           now == req[r].startedAt
           ev == req[r].events
           c == call.conv
           e == Effect(call, db, now)
           rest == Announcing(req[r], req[r].announce)
           l == [conv |-> [log.conv EXCEPT ![c] = @ \o ev.conv],
                 profile |-> [p \in Profiles |-> log.profile[p] \o ev.profile[p]],
                 user |-> [u \in Users |-> log.user[u] \o ev.user[u]]]
<1>1. /\ WellTyped /\ Locked /\ Timed /\ StreamsSound(log, db, notices)
      /\ \A s \in Requests : RequestSound(req[s], db, notices, clock)
      /\ RowsSound(db) /\ req \in [Requests -> ReqType] /\ log \in LogType /\ clock \in Times
      /\ NoticesTyped(notices, db)
  BY DEF IInv, WellTyped
<1>2. /\ db' = e /\ notices' = notices /\ log' = l /\ clock' = clock /\ lock' = Unlocked(r)
      /\ req' = [req EXCEPT ![r] = rest] /\ req[r].pc = "prepared"
  BY DEF Commit
<1>3. /\ CallSound(call, db) /\ Fresh(now, db) /\ now <= clock /\ Foretold(call, now, ev, db, notices)
      /\ Holding(req[r])
  BY <1>1, <1>2 DEF RequestSound, Open, Holding
<1>4. c \in Pairs
  BY <1>3, CallKinds DEF CallSound
<1>5. RowsSound(e) /\ Outcome(call, db, e, now)
  BY <1>1, <1>3, EffectSound, EffectOutcome
<1>6. /\ log.conv \in [Pairs -> Seq(ConvEvent)] /\ log.profile \in [Profiles -> Seq(ProfileEvent)]
      /\ log.user \in [Users -> Seq(UserEvent)]
  BY <1>1 DEF LogType
<1> HIDE DEF l
<1>7. /\ l.conv = [log.conv EXCEPT ![c] = @ \o ev.conv]
      /\ l.profile = [p \in Profiles |-> log.profile[p] \o ev.profile[p]]
      /\ l.user = [u \in Users |-> log.user[u] \o ev.user[u]]
      /\ l = [conv |-> l.conv, profile |-> l.profile, user |-> l.user]
  BY DEF l
<1> HIDE DEF e
<1>8. /\ ev.conv = ConversationTold(call, db, e, now)
      /\ \A p \in Profiles : ProfileForetold(call, db, e, ev.profile[p], p)
      /\ \A u \in Users : UserForetold(call, db, e, notices, now, ev.user[u], u)
  BY <1>3 DEF Foretold, e
<1>9. \A k \in Pairs : l.conv[k] \in Seq(ConvEvent) /\ Tells(l.conv[k], e, k)
  <2> TAKE k \in Pairs
  <2>1. Tells(log.conv[k], db, k) /\ log.conv[k] \in Seq(ConvEvent)
    BY <1>1, <1>6 DEF StreamsSound
  <2>2. CASE k = c
    <3>1. l.conv[k] = log.conv[k] \o ConversationTold(call, db, e, now)
      BY <1>4, <1>6, <1>7, <1>8, <2>2
    <3> QED
      BY <1>1, <1>3, <1>5, <2>1, <2>2, <3>1, TellsOutcome
  <2>3. CASE k # c
    <3>1. l.conv[k] = log.conv[k]
      BY <1>6, <1>7, <2>3
    <3>2. SameConv(db, e, k)
      BY <1>1, <1>3, <2>3, EffectApart DEF Apart, e
    <3> QED
      BY <2>1, <3>1, <3>2, TellsSame
  <2> QED
    BY <2>2, <2>3
<1>10. \A p \in Profiles : l.profile[p] \in Seq(ProfileEvent)
                           /\ Listed(l.profile[p], e, p) /\ Counted(l.profile[p], e, p)
  <2> TAKE p \in Profiles
  <2>1. log.profile[p] \in Seq(ProfileEvent) /\ Listed(log.profile[p], db, p)
        /\ Counted(log.profile[p], db, p) /\ ProfileForetold(call, db, e, ev.profile[p], p)
    BY <1>1, <1>6, <1>8 DEF StreamsSound
  <2>2. l.profile[p] = log.profile[p] \o ev.profile[p]
    BY <1>7
  <2>3. e = Effect(call, db, now)
    BY DEF e
  <2> QED
    BY <1>1, <1>3, <2>1, <2>2, <2>3, ProfileEffect
<1>11. \A u \in Users : l.user[u] \in Seq(UserEvent)
                        /\ Notified(l.user[u], e, u) /\ NoticesCounted(l.user[u], e, notices, u)
  <2> TAKE u \in Users
  <2>1. log.user[u] \in Seq(UserEvent) /\ Notified(log.user[u], db, u)
        /\ NoticesCounted(log.user[u], db, notices, u) /\ UserForetold(call, db, e, notices, now, ev.user[u], u)
    BY <1>1, <1>6, <1>8 DEF StreamsSound
  <2>2. l.user[u] = log.user[u] \o ev.user[u]
    BY <1>7
  <2>3. e = Effect(call, db, now)
    BY DEF e
  <2> QED
    BY <1>1, <1>3, <2>1, <2>2, <2>3, UserEffect
<1>12. StreamsSound(l, e, notices)
  BY <1>9, <1>10, <1>11 DEF StreamsSound
<1>13. l \in LogType
  <2>1. l.conv \in [Pairs -> Seq(ConvEvent)]
    BY <1>6, <1>7, <1>9
  <2>2. l.profile \in [Profiles -> Seq(ProfileEvent)]
    BY <1>7, <1>10
  <2>3. l.user \in [Users -> Seq(UserEvent)]
    BY <1>7, <1>11
  <2> QED
    BY <1>7, <2>1, <2>2, <2>3 DEF LogType
<1>14. rest \in ReqType /\ ~ Open(rest) /\ ~ Holding(rest) /\ rest.startedAt = 0
       /\ rest.pc \in {"idle", "notifying"}
  <2>1. req[r] \in ReqType /\ req[r].announce \in SUBSET MatchNotice
    BY <1>1 DEF ReqType
  <2> QED
    BY <2>1, AnnouncingTyped
<1> HIDE DEF rest
<1>15. /\ lock' \in [Pairs -> Requests \cup {Free}] /\ req' \in [Requests -> ReqType]
       /\ req'[r] = rest /\ \A s \in Requests : s # r => req'[s] = req[s]
  BY <1>2, <1>14, Unlocking
<1>16. Locked' /\ \A s, t \in Requests : Open(req'[s]) /\ Open(req'[t])
                                          /\ req'[s].startedAt = req'[t].startedAt => s = t
  BY <1>2, <1>14, Unlocking
<1>17. NoticesTyped(notices, e)
  BY <1>1, <1>3, NoticesStay DEF e
<1>18. WellTyped'
  BY <1>1, <1>2, <1>5, <1>13, <1>15, <1>17 DEF WellTyped
<1>19. db.messages \subseteq e.messages /\ db.convs \subseteq e.convs
       /\ \A m \in e.messages : m \in db.messages \/ m.at = now
  BY <1>5 DEF Outcome, Sent
<1>20. Timed'
  BY <1>1, <1>2, <1>3, <1>16, <1>19 DEF Timed
<1>21. \A s \in Requests : RequestSound(req'[s], e, notices, clock)
  <2> TAKE s \in Requests
  <2>1. CASE s = r
    BY <1>1, <1>15, <1>14, <2>1, NumberedTypes DEF RequestSound
  <2>2. CASE s # r
    <3>1. req'[s] = req[s] /\ req[s] \in ReqType /\ RequestSound(req[s], db, notices, clock)
      BY <1>1, <1>15, <2>2
    <3>2. ASSUME Open(req[s]) PROVE Fresh(req[s].startedAt, e)
      <4>1. req[s].startedAt # now
        BY <1>1, <1>2, <2>2, <3>2 DEF Timed, Open
      <4>2. Fresh(req[s].startedAt, db)
        BY <3>1, <3>2 DEF RequestSound
      <4> QED
        BY <1>19, <4>1, <4>2 DEF Fresh
    <3>3. ASSUME Holding(req[s]) PROVE Apart(db, e, req[s].call.conv)
      <4>1. req[s].call.conv # c
        BY <1>1, <1>3, <2>2, <3>3, HoldersApart
      <4>2. CallSound(req[s].call, db)
        BY <3>1, <3>3 DEF RequestSound, Open, Holding
      <4>3. req[s].call.conv \in Pairs
        BY <4>2, CallKinds DEF CallSound
      <4> QED
        BY <1>1, <1>3, <4>1, <4>3, EffectApart DEF e
    <3> QED
      BY <1>1, <1>5, <1>19, <3>1, <3>2, <3>3, RequestMoves
  <2> QED
    BY <2>1, <2>2
<1>22. StreamsSound(log', db', notices')
  BY <1>2, <1>12
<1>23. \A s \in Requests : RequestSound(req'[s], db', notices', clock')
  BY <1>2, <1>21
<1> QED
  BY <1>16, <1>18, <1>20, <1>22, <1>23 DEF IInv

\* A step outside the transactions: of a handler after its commit, or of a reader.
LEMMA AsideStep ==
  ASSUME IInv, UNCHANGED <<db, log, lock, clock>>, NoticesTyped(notices', db),
         \A u : OnlyMessaged(notices', u) => OnlyMessaged(notices, u),
         req' \in [Requests -> ReqType],
         \A s \in Requests : \/ req'[s] = req[s]
                             \/ /\ ~ Open(req[s]) /\ ~ Holding(req[s])
                                /\ ~ Open(req'[s]) /\ ~ Holding(req'[s]) /\ req'[s].startedAt = 0
  PROVE  IInv'
<1>1. /\ WellTyped /\ Locked /\ Timed /\ StreamsSound(log, db, notices)
      /\ \A s \in Requests : RequestSound(req[s], db, notices, clock)
      /\ req \in [Requests -> ReqType] /\ lock \in [Pairs -> Requests \cup {Free}] /\ clock \in Nat
  BY NumberedTypes DEF IInv, WellTyped
<1>2. WellTyped'
  BY <1>1 DEF WellTyped
<1>3. Locked'
  <2>1. \A s \in Requests : Holding(req[s]) \/ Holding(req'[s]) => req'[s] = req[s]
    OBVIOUS
  <2>2. \A k \in Pairs : lock[k] # Free => lock[k] \in Requests
    BY <1>1
  <2> QED
    BY <1>1, <2>1, <2>2 DEF Locked
<1>4. Timed'
  BY <1>1 DEF Timed
<1>5. StreamsSound(log, db, notices')
  BY <1>1, SoundLater
<1>6. ASSUME NEW s \in Requests PROVE RequestSound(req'[s], db, notices', clock)
  <2>1. CASE req'[s] = req[s]
    BY <1>1, <2>1, SoundLater
  <2>2. CASE req'[s] # req[s]
    BY <1>1, <2>2 DEF RequestSound, Open
  <2> QED
    BY <2>1, <2>2
<1> QED
  BY <1>2, <1>3, <1>4, <1>5, <1>6 DEF IInv

LEMMA NotifyStep ==
  ASSUME IInv, NEW r \in Requests, NEW n \in req[r].announce, NotifyMatch(r, n)
  PROVE  IInv'
<1> DEFINE rest == Announcing(req[r], req[r].announce \ {n})
<1>1. req \in [Requests -> ReqType] /\ NoticesTyped(notices, db) /\ req[r] \in ReqType
  BY DEF IInv, WellTyped
<1>2. req[r].announce \in SUBSET MatchNotice /\ n \in MatchNotice
  BY <1>1 DEF ReqType
<1>3. rest \in ReqType /\ ~ Open(rest) /\ ~ Holding(rest) /\ rest.startedAt = 0
  BY <1>1, <1>2, AnnouncingTyped
<1>4. /\ UNCHANGED <<db, log, lock, clock>> /\ req[r].pc = "notifying"
      /\ req' = [req EXCEPT ![r] = rest]
      /\ notices' = [notices EXCEPT !.matches = @ \cup {n}]
  BY DEF NotifyMatch
<1> HIDE DEF rest
<1>5. NoticesTyped(notices', db) /\ notices'.seen = notices.seen
      /\ notices'.matches = notices.matches \cup {n}
  BY <1>1, <1>2, <1>4 DEF NoticesTyped
<1>6. \A u : OnlyMessaged(notices', u) => OnlyMessaged(notices, u)
  BY <1>5 DEF OnlyMessaged
<1>7. ~ Open(req[r]) /\ ~ Holding(req[r])
  BY <1>4 DEF Open, Holding
<1>8. /\ req' \in [Requests -> ReqType] /\ req'[r] = rest
      /\ \A s \in Requests : s # r => req'[s] = req[s]
  BY <1>1, <1>3, <1>4
<1>9. \A s \in Requests : \/ req'[s] = req[s]
                          \/ /\ ~ Open(req[s]) /\ ~ Holding(req[s])
                             /\ ~ Open(req'[s]) /\ ~ Holding(req'[s]) /\ req'[s].startedAt = 0
  BY <1>3, <1>7, <1>8
<1> QED
  BY <1>4, <1>5, <1>6, <1>8, <1>9, AsideStep

LEMMA SeeStep ==
  ASSUME IInv, NEW u, NEW S \in SUBSET Unread(u), notices' = [notices EXCEPT !.seen = @ \cup S],
         UNCHANGED <<db, log, lock, req, clock>>
  PROVE  IInv'
<1>1. req \in [Requests -> ReqType] /\ NoticesTyped(notices, db) /\ RowsSound(db)
  BY DEF IInv, WellTyped
<1>2. db.notifications \subseteq Notice
  BY <1>1, RowsTyped DEF RowsSound
<1>3. S \subseteq db.notifications \cup notices.matches
  BY DEF Unread
<1>4. NoticesTyped(notices', db) /\ notices'.matches = notices.matches
      /\ notices'.seen = notices.seen \cup S
  BY <1>1, <1>2, <1>3 DEF NoticesTyped
<1>5. \A v : OnlyMessaged(notices', v) => OnlyMessaged(notices, v)
  BY <1>4 DEF OnlyMessaged
<1> QED
  BY <1>1, <1>4, <1>5, AsideStep

-----------------------------------------------------------------------------
(* The initial states                                                      *)

\* The pairs of matches have liked each other, and nothing else is there.
FirstRows(d, matches) ==
  /\ d.likes = UNION {{<<p, Other(c, p)>> : p \in c} : c \in matches}
  /\ d.convs = matches /\ d.messages = {} /\ d.reads = [c \in Pairs |-> [p \in c |-> 0]]
  /\ d.lastMessageAt = [c \in Pairs |-> 0] /\ d.reactions = {}
  /\ d.notifications = {} /\ d.jobs = {}

LEMMA MatchedRowsAre ==
  ASSUME NEW matches \in SUBSET Matches
  PROVE  FirstRows(MatchedRows(matches), matches)
BY DEF FirstRows, MatchedRows, EmptyRows

\* The pairs that have liked each other are those of matches.
LEMMA MatchedAtFirst ==
  ASSUME NEW matches \in SUBSET Matches, NEW d, d = MatchedRows(matches), NEW c \in Pairs
  PROVE  Matched(d, c) <=> c \in matches
<1>1. \A p, q : <<p, q>> \in d.likes <=> \E k \in matches : p \in k /\ q = Other(k, p)
  <2> DEFINE F(k) == {<<p, Other(k, p)>> : p \in k}
  <2>1. \A p, q, k : <<p, q>> \in F(k) <=> p \in k /\ q = Other(k, p)
    OBVIOUS
  <2>2. d.likes = UNION {F(k) : k \in matches}
    BY MatchedRowsAre DEF FirstRows
  <2> HIDE DEF F
  <2>3. \A x : x \in d.likes <=> \E k \in matches : x \in F(k)
    BY <2>2
  <2> QED
    BY <2>1, <2>3
<1>2. matches \subseteq Pairs
  BY MatchesAssumption
<1>3. CASE c \in matches
  BY <1>1, <1>3 DEF Matched
<1>4. CASE c \notin matches
  <2>1. c # {}
    BY FS_EmptySet DEF Pairs
  <2>2. PICK p \in c : TRUE
    BY <2>1
  <2>3. ASSUME NEW k \in matches, p \in k, Other(c, p) = Other(k, p) PROVE FALSE
    BY <1>2, <1>4, <2>3, SamePair
  <2>4. <<p, Other(c, p)>> \notin d.likes
    BY <1>1, <2>3
  <2> QED
    BY <1>4, <2>4 DEF Matched
<1> QED
  BY <1>3, <1>4

LEMMA SoundAtFirst ==
  ASSUME NEW matches \in SUBSET Matches, NEW d, d = MatchedRows(matches)
  PROVE  RowsSound(d)
<1>1. matches \subseteq Pairs
  BY MatchesAssumption
<1>0. FirstRows(d, matches)
  BY MatchedRowsAre
<1>2. d.likes \subseteq Profiles \X Profiles
  <2>1. \A c \in matches : \A p \in c : p \in Profiles /\ Other(c, p) \in Profiles
    BY <1>1, PairOf
  <2> QED
    BY <1>0, <2>1 DEF FirstRows
<1>3. \A c \in Pairs : d.reads[c] \in [c -> Times] /\ d.lastMessageAt[c] \in Times
  BY <1>0, NumberedTypes DEF FirstRows
<1>4. d.reads \in [Pairs -> Reads] /\ d.lastMessageAt \in [Pairs -> Times]
  <2>1. \A c \in Pairs : [p \in c |-> 0] \in Reads
    BY NumberedTypes DEF Reads
  <2> QED
    BY <1>0, <2>1, NumberedTypes DEF FirstRows
<1>5. d \in RowsType
  <2>1. d.likes \in SUBSET (Profiles \X Profiles) /\ d.convs \in SUBSET Pairs
        /\ d.messages = {} /\ d.reactions = {} /\ d.notifications = {} /\ d.jobs = {}
    BY <1>0, <1>1, <1>2 DEF FirstRows
  <2>2. d = [likes |-> d.likes, convs |-> d.convs, messages |-> d.messages, reads |-> d.reads,
             lastMessageAt |-> d.lastMessageAt, reactions |-> d.reactions,
             notifications |-> d.notifications, jobs |-> d.jobs]
    BY DEF MatchedRows, EmptyRows
  <2> QED
    BY <1>4, <2>1, <2>2 DEF RowsType
<1>6. IsFiniteSet(d.messages)
  BY <1>0, FS_EmptySet DEF FirstRows
<1>7. \A c \in Pairs : Matched(d, c) => c \in d.convs
  BY <1>0, MatchedAtFirst DEF FirstRows
<1> QED
  BY <1>0, <1>3, <1>5, <1>6, <1>7 DEF FirstRows, RowsSound

\* SetToSeq puts a finite set in some order.
InOrder(q, S) ==
  /\ q \in Seq(S) /\ \A i, j \in 1..Len(q) : q[i] = q[j] => i = j
  /\ \A x \in S : \E i \in 1..Len(q) : q[i] = x

LEMMA SetInOrder ==
  ASSUME NEW S, IsFiniteSet(S)
  PROVE  InOrder(SetToSeq(S), S)
<1> DEFINE n == Cardinality(S)
           q == SetToSeq(S)
<1>1. n \in Nat /\ \E f \in [1..n -> S] : IsInjective(f)
  BY FS_CardinalityType DEF ExistsBijection, Bijection, Injection
<1>2. q \in [1..n -> S] /\ IsInjective(q)
  BY <1>1 DEF SetToSeq
<1>3. q \in Injection(1..n, S) /\ Cardinality(1..n) = n /\ IsFiniteSet(1..n)
  BY <1>1, <1>2, FS_Interval DEF Injection
<1>4. q \in Surjection(1..n, S)
  BY <1>3, FS_Injection
<1>5. q \in Seq(S) /\ Len(q) = n
  BY <1>1, <1>2
<1>6. \A x \in S : \E i \in 1..n : q[i] = x
  BY <1>4 DEF Surjection
<1>7. \A i, j \in 1..n : q[i] = q[j] => i = j
  BY <1>2 DEF IsInjective
<1> HIDE DEF n, q
<1>8. InOrder(q, S)
  BY <1>5, <1>6, <1>7 DEF InOrder
<1> QED
  BY <1>8 DEF q

LEMMA NothingTold ==
  ASSUME NEW none, NEW s, NEW I, I = {}
  PROVE  LastAt(s, I, none) = none
BY DEF LastAt

\* A new match is told to the conversation, and nothing else has happened.
LEMMA TellsAtFirst ==
  ASSUME NEW matches \in SUBSET Matches, NEW d, d = MatchedRows(matches), NEW c \in Pairs,
         NEW s, s = IF c \in matches THEN <<[type |-> "state", matched |-> TRUE]>> ELSE <<>>
  PROVE  s \in Seq(ConvEvent) /\ Tells(s, d, c)
<1> DEFINE x == [type |-> "state", matched |-> TRUE]
<1>1. x \in ConvEvent /\ x.type = "state" /\ x.matched
  BY DEF ConvEvent
<1> HIDE DEF x
<1>2. s = IF c \in matches THEN <<x>> ELSE <<>>
  BY DEF x
<1>3. s \in Seq(ConvEvent)
  <2>1. <<x>> \in Seq(ConvEvent) /\ <<>> \in Seq(ConvEvent)
    BY <1>1
  <2> QED
    BY <1>2, <2>1
<1>4. /\ Typed(s, "message") = {} /\ Typed(s, "read") = {} /\ Typed(s, "reaction") = {}
      /\ Typed(s, "state") = IF c \in matches THEN {1} ELSE {}
  <2>1. CASE c \in matches
    <3>1. Len(s) = 1 /\ s[1] = x
      BY <1>2, <2>1
    <3> QED
      BY <1>1, <2>1, <3>1 DEF Typed
  <2>2. CASE c \notin matches
    BY <1>2, <2>2 DEF Typed
  <2> QED
    BY <2>1, <2>2
<1>5. MessagesOf(d, c) = {} /\ d.reads[c] = [p \in c |-> 0] /\ d.reactions = {}
      /\ (c \in d.convs <=> c \in matches) /\ (Matched(d, c) <=> c \in matches)
  <2>1. FirstRows(d, matches)
    BY MatchedRowsAre
  <2> QED
    BY <2>1, MatchedAtFirst DEF FirstRows, MessagesOf
<1>6. LastAt(s, Typed(s, "state"), [matched |-> FALSE]).matched <=> c \in matches
  <2>1. CASE c \in matches
    <3>1. Latest({1}) = 1
      <4>1. {} \subseteq Nat /\ 1 \in Nat /\ \A t \in {} : t < 1
        OBVIOUS
      <4>2. Latest({} \cup {1}) = 1
        BY <4>1, LatestAdded
      <4> QED
        BY <4>2
    <3> QED
      BY <1>1, <1>2, <1>4, <2>1, <3>1 DEF LastAt
  <2>2. CASE c \notin matches
    BY <1>4, <2>2, NothingTold
  <2> QED
    BY <2>1, <2>2
<1>7. \A p \in c : LastAt(s, ReadsBy(s, p), [at |-> 0]).at = 0
  <2> TAKE p \in c
  <2>1. ReadsBy(s, p) = {}
    BY <1>4 DEF ReadsBy
  <2> QED
    BY <2>1, NothingTold
<1>8. Cardinality(Typed(s, "message")) = Cardinality(MessagesOf(d, c))
  BY <1>4, <1>5
<1>9. {<<s[i].at, s[i].from>> : i \in Typed(s, "message")} = {<<m.at, m.from>> : m \in MessagesOf(d, c)}
  BY <1>4, <1>5
<1>10. \A p \in c : LastAt(s, ReadsBy(s, p), [at |-> 0]).at = d.reads[c][p]
  BY <1>5, <1>7
<1>11. c \in d.convs <=> Typed(s, "state") # {}
  BY <1>4, <1>5
<1> QED
  BY <1>3, <1>4, <1>5, <1>6, <1>8, <1>9, <1>10, <1>11 DEF Tells

LEMMA PairsFinite == IsFiniteSet(Pairs)
BY FiniteAssumption, FS_SUBSET, FS_Subset DEF Pairs

\* Each match is listed to both of its profiles, and nobody has unread messages.
LEMMA ListedAtFirst ==
  ASSUME NEW matches \in SUBSET Matches, NEW d, d = MatchedRows(matches), NEW p \in Profiles,
         NEW s, s = SetToSeq({Projection(d, c, p) : c \in {k \in matches : p \in k}})
  PROVE  s \in Seq(ProfileEvent) /\ Listed(s, d, p) /\ Counted(s, d, p)
<1> DEFINE K == {k \in matches : p \in k}
           S == {Projection(d, c, p) : c \in K}
           f == [x \in S |-> x.conv]
<1>1. RowsSound(d) /\ FirstRows(d, matches) /\ K \subseteq Pairs
  BY SoundAtFirst, MatchedRowsAre, MatchesAssumption
<1>2. ASSUME NEW c \in K
      PROVE  Projection(d, c, p) \in Upsert /\ Projection(d, c, p).conv = c
             /\ Projection(d, c, p).type = "upsert"
  <2>1. Projection(d, c, p) \in Upsert
    BY <1>1, UpsertTyped
  <2> QED
    BY <2>1 DEF Projection
<1>3. IsFiniteSet(S)
  <2>1. f \in [S -> K]
    BY <1>2
  <2>2. \A x, y \in S : f[x] = f[y] => x = y
    <3> TAKE x, y \in S
    <3>1. PICK c \in K, k \in K : x = Projection(d, c, p) /\ y = Projection(d, k, p)
      OBVIOUS
    <3>2. f[x] = c /\ f[y] = k
      BY <1>2, <3>1
    <3> QED
      BY <3>1, <3>2
  <2>3. IsFiniteSet(K)
    BY <1>1, PairsFinite, FS_Subset
  <2> HIDE DEF f, S, K
  <2>4. f \in Injection(S, K)
    BY <2>1, <2>2 DEF Injection, IsInjective
  <2> QED
    BY <2>3, <2>4, FS_Injection
<1>4. /\ s \in Seq(S) /\ \A i, j \in 1..Len(s) : s[i] = s[j] => i = j
      /\ \A x \in S : \E i \in 1..Len(s) : s[i] = x
  <2>1. s = SetToSeq(S)
    OBVIOUS
  <2> HIDE DEF S
  <2>2. InOrder(SetToSeq(S), S)
    BY <1>3, SetInOrder
  <2> QED
    BY <2>1, <2>2 DEF InOrder
<1>5. \A i \in 1..Len(s) : s[i] \in S
  <2> HIDE DEF S
  <2> QED
    BY <1>4
<1>6. \A x \in S : x.conv \in K /\ x = Projection(d, x.conv, p) /\ x.type = "upsert" /\ x \in Upsert
  BY <1>2
<1>7. s \in Seq(ProfileEvent)
  <2>1. S \subseteq ProfileEvent
    BY <1>6 DEF ProfileEvent
  <2> HIDE DEF S
  <2> QED
    BY <1>4, <2>1, SeqMonotonic
<1>8. Listed(s, d, p)
  <2> SUFFICES ASSUME NEW c \in d.convs, p \in c
               PROVE  UpsertsOf(s, c) # {} /\ LastAt(s, UpsertsOf(s, c), 0) = Projection(d, c, p)
    BY DEF Listed
  <2>1. c \in K
    BY <1>1 DEF FirstRows
  <2>2. PICK i \in 1..Len(s) : s[i] = Projection(d, c, p)
    BY <1>4, <2>1
  <2> HIDE DEF S, K
  <2>3. \A j \in 1..Len(s) : s[j].type = "upsert" /\ (s[j].conv = c => s[j] = s[i])
    BY <1>5, <1>6, <2>2
  <2>4. s[i].conv = c
    BY <1>2, <2>1, <2>2
  <2>5. UpsertsOf(s, c) = {i}
    BY <1>4, <2>3, <2>4 DEF UpsertsOf, Typed
  <2>6. Latest({i}) = i
    <3>1. i \in Nat /\ {} \subseteq Nat /\ \A t \in {} : t < i
      BY <1>7
    <3>2. Latest({} \cup {i}) = i
      BY <3>1, LatestAdded
    <3> QED
      BY <3>2
  <2> QED
    BY <2>2, <2>5, <2>6 DEF LastAt
<1>9. Counted(s, d, p)
  <2> HIDE DEF S, K
  <2>1. Typed(s, "unread") = {}
    BY <1>5, <1>6 DEF Typed
  <2>2. UnreadCount(d, p) = 0
    <3>1. {m \in d.messages : Unseen(d, p, m)} = {}
      BY <1>1 DEF FirstRows
    <3> QED
      BY <3>1, FS_EmptySet DEF UnreadCount
  <2> QED
    BY <2>1, <2>2, NothingTold DEF Counted
<1> QED
  BY <1>7, <1>8, <1>9

LEMMA NotifiedAtFirst ==
  ASSUME NEW matches \in SUBSET Matches, NEW d, d = MatchedRows(matches), NEW u \in Users, NEW x
  PROVE  <<>> \in Seq(UserEvent) /\ Notified(<<>>, d, u) /\ NoticesCounted(<<>>, d, x, u)
<1>1. FirstRows(d, matches)
  BY MatchedRowsAre
<1>2. Due(d, u) = {} /\ {n \in d.notifications : n.user = u} = {} /\ {n \in d.jobs : n.user = u} = {}
  BY <1>1 DEF FirstRows, Due
<1>3. Len(<<>>) = 0 /\ ToSet(<<>>) = {} /\ 1..Len(<<>>) = {}
  BY DEF ToSet
<1>4. Notified(<<>>, d, u)
  BY <1>2, <1>3, FS_EmptySet DEF Notified
<1>5. NoticesTold(<<>>) = 0
  BY <1>3, NothingTold DEF NoticesTold
<1>6. Cardinality(NoticesFor(d, u)) = 0
  BY <1>2, FS_EmptySet DEF NoticesFor
<1>7. <<>> \in Seq(UserEvent)
  OBVIOUS
<1> QED
  BY <1>4, <1>5, <1>6, <1>7 DEF NoticesCounted

LEMMA InitInv ==
  ASSUME Init
  PROVE  IInv
<1>1. PICK matches \in SUBSET Matches : InitMatched(matches)
  BY DEF Init
<1> DEFINE d == MatchedRows(matches)
           first == [type |-> "state", matched |-> TRUE]
<1> HIDE DEF d
<1>2. /\ db = d /\ lock = [c \in Pairs |-> Free] /\ req = [r \in Requests |-> Idle] /\ clock = 0
      /\ log.conv = [c \in Pairs |-> IF c \in matches THEN <<first>> ELSE <<>>]
      /\ log.profile = [p \in Profiles |->
                          SetToSeq({Projection(d, c, p) : c \in {k \in matches : p \in k}})]
      /\ log.user = [u \in Users |-> <<>>]
      /\ notices = [matches |-> {}, seen |-> {}]
      /\ log = [conv |-> log.conv, profile |-> log.profile, user |-> log.user]
  BY <1>1 DEF InitMatched, d
<1>3. RowsSound(d)
  BY SoundAtFirst DEF d
<1>4. \A c \in Pairs : log.conv[c] \in Seq(ConvEvent) /\ Tells(log.conv[c], d, c)
  <2> TAKE c \in Pairs
  <2>1. log.conv[c] = IF c \in matches THEN <<first>> ELSE <<>>
    BY <1>2
  <2> QED
    BY <2>1, TellsAtFirst DEF d
<1>5. \A p \in Profiles : log.profile[p] \in Seq(ProfileEvent)
                          /\ Listed(log.profile[p], d, p) /\ Counted(log.profile[p], d, p)
  <2> TAKE p \in Profiles
  <2>1. log.profile[p] = SetToSeq({Projection(d, c, p) : c \in {k \in matches : p \in k}})
    BY <1>2
  <2> QED
    BY <2>1, ListedAtFirst DEF d
<1>6. \A u \in Users : log.user[u] \in Seq(UserEvent)
                       /\ Notified(log.user[u], d, u) /\ NoticesCounted(log.user[u], d, notices, u)
  <2> TAKE u \in Users
  <2>1. log.user[u] = <<>>
    BY <1>2
  <2> QED
    BY <2>1, NotifiedAtFirst DEF d
<1>7. StreamsSound(log, db, notices)
  BY <1>2, <1>4, <1>5, <1>6 DEF StreamsSound
<1>8. log \in LogType
  <2>1. log.conv \in [Pairs -> Seq(ConvEvent)]
    BY <1>2, <1>4
  <2>2. log.profile \in [Profiles -> Seq(ProfileEvent)]
    BY <1>2, <1>5
  <2>3. log.user \in [Users -> Seq(UserEvent)]
    BY <1>2, <1>6
  <2> QED
    BY <1>2, <2>1, <2>2, <2>3 DEF LogType
<1>9. \A r \in Requests : req[r] = Idle /\ req[r].pc = "idle"
  BY <1>2, IdleTyped
<1>10. WellTyped
  <2>1. NoticesTyped(notices, db)
    BY <1>2 DEF NoticesTyped
  <2> QED
    BY <1>2, <1>3, <1>8, <2>1, IdleTyped, NumberedTypes DEF WellTyped
<1>11. Locked
  BY <1>2, <1>9 DEF Locked, Holding
<1>12. Timed
  <2>1. db.messages = {}
    BY <1>2, MatchedRowsAre DEF FirstRows, d
  <2> QED
    BY <1>9, <2>1 DEF Timed, Open
<1>13. \A r \in Requests : RequestSound(req[r], db, notices, clock)
  BY <1>2, <1>9, IdleTyped DEF RequestSound, Open, Holding
<1> QED
  BY <1>7, <1>10, <1>11, <1>12, <1>13 DEF IInv

LEMMA NextInv ==
  ASSUME IInv, [Next]_vars
  PROVE  IInv'
<1>1. ASSUME NEW r \in Requests, NEW call \in Calls, Begin(r, call) PROVE IInv'
  BY <1>1, BeginStep
<1>2. ASSUME NEW r \in Requests, Lock(r) PROVE IInv'
  BY <1>2, LockStep
<1>3. ASSUME NEW r \in Requests, Prepare(r) PROVE IInv'
  BY <1>3, PrepareStep
<1>4. ASSUME NEW r \in Requests, Commit(r) PROVE IInv'
  BY <1>4, CommitStep
<1>5. ASSUME NEW r \in Requests, Refuse(r) \/ Fail(r) PROVE IInv'
  BY <1>5, RollbackStep DEF Refuse, Fail
<1>6. ASSUME NEW r \in Requests, NEW n \in req[r].announce, NotifyMatch(r, n) PROVE IInv'
  BY <1>6, NotifyStep
<1>7. ASSUME NEW u \in Readers, SeeAll(u) PROVE IInv'
  BY <1>7, SeeStep DEF SeeAll
<1>8. ASSUME NEW u \in Readers, NEW n \in Unread(u), See(n) PROVE IInv'
  <2>1. {n} \in SUBSET Unread(u)
    OBVIOUS
  <2> QED
    BY <1>8, <2>1, SeeStep DEF See
<1>9. CASE UNCHANGED vars
  BY <1>9 DEF vars, IInv, WellTyped, Locked, Timed
<1> QED
  BY <1>1, <1>2, <1>3, <1>4, <1>5, <1>6, <1>7, <1>8, <1>9 DEF Next

\* Every reachable state: rows, transactions and streams agree as they must
\* for the next transaction to prepare the right events.
THEOREM Invariant == Spec => []IInv
BY InitInv, NextInv, PTL DEF Spec

-----------------------------------------------------------------------------
(* What the invariant says of the states                                   *)

LEMMA TypedRows ==
  ASSUME IInv
  PROVE  TypeOK
<1>1. /\ WellTyped /\ Locked /\ RowsSound(db) /\ db \in RowsType /\ req \in [Requests -> ReqType]
      /\ \A r \in Requests : RequestSound(req[r], db, notices, clock)
      /\ lock \in [Pairs -> Requests \cup {Free}] /\ clock \in Times
  BY DEF IInv, WellTyped, RowsSound
<1>2. /\ db.likes \subseteq Profiles \X Profiles /\ db.convs \subseteq Pairs
      /\ db.messages \subseteq Message /\ db.reactions \subseteq Times \X Profiles
      /\ db.notifications \subseteq [user : Users, at : Times]
      /\ \A c \in Pairs : db.lastMessageAt[c] \in Times
  BY <1>1, RowsTyped DEF Notice
<1>3. /\ \A c \in Pairs : db.reads[c] \in [c -> Times]
      /\ db.jobs \subseteq db.notifications
  BY <1>1 DEF RowsSound
<1>4. ASSUME NEW r \in Requests
      PROVE  /\ req[r].pc \in {"idle", "waiting", "locked", "prepared", "notifying"}
             /\ req[r].announce \subseteq MatchNotice /\ req[r].startedAt <= clock
             /\ req[r].pc \in {"locked", "prepared"} <=> \E c \in Pairs : lock[c] = r
  <2>1. req[r].pc \in {"idle", "waiting", "locked", "prepared", "notifying"}
        /\ req[r].announce \subseteq MatchNotice /\ req[r].startedAt <= clock
    BY <1>1 DEF ReqType, RequestSound
  <2>2. ASSUME Holding(req[r]) PROVE \E c \in Pairs : lock[c] = r
    <3>1. CallSound(req[r].call, db) /\ lock[req[r].call.conv] = r
      BY <1>1, <2>2 DEF RequestSound, Open, Holding, Locked
    <3> QED
      BY <3>1, CallKinds DEF CallSound
  <2>3. ASSUME NEW c \in Pairs, lock[c] = r PROVE Holding(req[r])
    BY <1>1, <2>3, LockAssumption DEF Locked
  <2> QED
    BY <2>1, <2>2, <2>3 DEF Holding
<1>5. notices.matches \subseteq MatchNotice /\ notices.seen \subseteq db.notifications \cup notices.matches
  BY DEF IInv, WellTyped, NoticesTyped
<1> QED
  BY <1>1, <1>2, <1>3, <1>4, <1>5 DEF TypeOK

LEMMA FewAreOne ==
  ASSUME NEW S, IsFiniteSet(S), Cardinality(S) <= 1, NEW x \in S, NEW y \in S
  PROVE  x = y
<1>1. Cardinality(S) \in Nat
  BY FS_CardinalityType
<1>2. CASE Cardinality(S) = 0
  BY <1>2, FS_EmptySet
<1>3. CASE Cardinality(S) = 1
  BY <1>3, FS_Singleton
<1> QED
  BY <1>1, <1>2, <1>3

LEMMA CountsTold ==
  ASSUME IInv
  PROVE  CountsConverge
<1>1. RowsSound(db) /\ StreamsSound(log, db, notices) /\ db.convs \subseteq Pairs
  BY RowsTyped DEF IInv, WellTyped, RowsSound
<1>2. ASSUME NEW p \in Profiles, Cardinality({c \in db.convs : p \in c}) <= 1
      PROVE  UnreadTold(p) = UnreadCount(db, p)
  <2>1. IsFiniteSet({c \in db.convs : p \in c})
    BY <1>1, PairsFinite, FS_Subset
  <2>2. AtMostOne(db, p)
    BY <1>2, <2>1, FewAreOne DEF AtMostOne
  <2> QED
    BY <1>1, <2>2 DEF StreamsSound, Counted, UnreadTold
<1>3. ASSUME NEW u \in Users, InOneConversation(u), OnlyMessaged(notices, u)
      PROVE  NotificationsTold(u) = UnreadNotifications(db, notices, u)
  <2>1. IsFiniteSet({c \in db.convs : \E p \in c : u \in Members[p]})
    BY <1>1, PairsFinite, FS_Subset
  <2>2. AtMostOneOf(db, u)
    BY <1>3, <2>1, FewAreOne DEF AtMostOneOf, Tied, InOneConversation
  <2> QED
    BY <1>1, <1>3, <2>2, MessagedCount DEF StreamsSound, NoticesCounted, NotificationsTold, NoticesTold
<1> QED
  BY <1>2, <1>3 DEF CountsConverge

LEMMA ListsCurrent ==
  ASSUME IInv
  PROVE  ProjectionsCurrent
<1>1. RowsSound(db) /\ StreamsSound(log, db, notices) /\ db.convs \subseteq Pairs
  BY RowsTyped DEF IInv, WellTyped, RowsSound
<1>2. ASSUME NEW c \in db.convs, NEW p \in c
      PROVE  /\ UpsertsOf(log.profile[p], c) # {}
             /\ log.profile[p][Latest(UpsertsOf(log.profile[p], c))] = Projection(db, c, p)
  <2>1. p \in Profiles
    BY <1>1 DEF Pairs
  <2>2. Listed(log.profile[p], db, p)
    BY <1>1, <2>1 DEF StreamsSound
  <2> QED
    BY <2>2 DEF Listed, LastAt
<1> QED
  BY <1>2 DEF ProjectionsCurrent, UpsertsOf

LEMMA ConversationsTold ==
  ASSUME IInv
  PROVE  LogTellsConversation
<1>1. \A c \in Pairs : Tells(log.conv[c], db, c)
  BY DEF IInv, StreamsSound
<1> QED
  BY <1>1 DEF LogTellsConversation, Tells, ReadsBy, ReactionsTo

LEMMA NoticesTrue ==
  ASSUME IInv
  PROVE  NotifiedOnce
<1>1. \A u \in Users : Notified(log.user[u], db, u)
  BY DEF IInv, StreamsSound
<1> QED
  BY <1>1 DEF NotifiedOnce, Notified, Due, Concerns

-----------------------------------------------------------------------------
(* What a step may do                                                      *)

\* The rows of conversation c have become e from d, and no late call has harmed.
Harmless(d, e, c) ==
  /\ \/ MessagesOf(e, c) # MessagesOf(d, c)
     \/ \E m \in MessagesOf(d, c), p \in c :
          (<<m.at, p>> \in e.reactions) # (<<m.at, p>> \in d.reactions)
     => Matched(d, c)
  /\ \A p \in c : e.reads[c][p] >= d.reads[c][p]

LEMMA SameHarmless ==
  ASSUME NEW d, RowsSound(d), NEW e, NEW c \in Pairs, SameConv(d, e, c)
  PROVE  Harmless(d, e, c)
<1>1. \A p \in c : p \in Profiles /\ e.reads[c][p] = d.reads[c][p] /\ d.reads[c][p] \in Nat
  <2>1. d.reads[c] \in [c -> Times] /\ e.reads[c] = d.reads[c] /\ c \subseteq Profiles
    BY DEF RowsSound, SameConv, Pairs
  <2> QED
    BY <2>1, NumberedTypes
<1>2. \A p \in c : e.reads[c][p] >= d.reads[c][p]
  BY <1>1
<1>3. MessagesOf(e, c) = MessagesOf(d, c)
  BY DEF SameConv
<1>4. ASSUME NEW m \in MessagesOf(d, c), NEW p \in c
      PROVE  (<<m.at, p>> \in e.reactions) = (<<m.at, p>> \in d.reactions)
  BY <1>1 DEF SameConv
<1> QED
  BY <1>2, <1>3, <1>4 DEF Harmless

LEMMA CallHarmless ==
  ASSUME NEW d, RowsSound(d), NEW call, CallSound(call, d), NEW now, Fresh(now, d),
         NEW e, Outcome(call, d, e, now), RowsSound(e),
         Allowed(call, d), ~ SenderReadThrows(call, d, now)
  PROVE  Harmless(d, e, call.conv)
<1> DEFINE c == call.conv
<1>1. call \in CallType /\ c \in Pairs /\ call.profile \in c
  BY CallKinds DEF CallSound
<1>2. MessagesOf(e, c) # MessagesOf(d, c) => call.kind = "send"
  BY DEF Outcome, MessagesOf
<1>3. e.reactions # d.reactions => call.kind \in {"react", "unreact"}
  BY DEF Outcome
<1>4. call.kind \in {"send", "react", "unreact"} => Matched(d, c)
  BY DEF Allowed
<1>5. ASSUME NEW p \in c PROVE e.reads[c][p] >= d.reads[c][p]
  <2>1. d.reads[c] \in [c -> Times] /\ d.reads[c][p] \in Nat
    BY <1>1, NumberedTypes DEF RowsSound
  <2>2. e.reads[c] = IF Moves(call, d)
                     THEN [d.reads[c] EXCEPT ![call.profile] = Position(call, d, now)] ELSE d.reads[c]
    BY DEF Outcome
  <2>3. Moves(call, d) => Position(call, d, now) > d.reads[c][call.profile]
    BY DEF Moves, Position, SenderReadThrows, Advances
  <2>4. Moves(call, d) => Position(call, d, now) \in Nat
    <3>1. e.reads[c] \in [c -> Times]
      BY <1>1 DEF RowsSound
    <3>2. Moves(call, d) => e.reads[c][call.profile] = Position(call, d, now)
      BY <1>1, <2>1, <2>2
    <3> QED
      BY <1>1, <3>1, <3>2, NumberedTypes
  <2>5. CASE Moves(call, d) /\ p = call.profile
    BY <1>1, <2>1, <2>2, <2>3, <2>4, <2>5
  <2>6. CASE ~ (Moves(call, d) /\ p = call.profile)
    BY <1>1, <2>1, <2>2, <2>6
  <2> QED
    BY <2>5, <2>6
<1>6. ASSUME MessagesOf(e, c) # MessagesOf(d, c) \/ e.reactions # d.reactions PROVE Matched(d, c)
  BY <1>2, <1>3, <1>4, <1>6
<1> QED
  BY <1>5, <1>6 DEF Harmless

\* Nothing but a commit changes the rows of the transactions.
LEMMA CommitsOnly ==
  ASSUME [Next]_vars, db' # db
  PROVE  \E r \in Requests : Commit(r)
<1>1. ASSUME NEW r \in Requests, Refuse(r) \/ Fail(r) PROVE db' = db
  BY <1>1 DEF Refuse, Fail, RolledBack
<1>2. CASE UNCHANGED vars
  BY <1>2 DEF vars
<1> QED
  BY <1>1, <1>2 DEF Next, Begin, Lock, Prepare, NotifyMatch, See, SeeAll

LEMMA HarmlessStep ==
  ASSUME IInv, [Next]_vars
  PROVE  \A c \in Pairs : Harmless(db, db', c)
<1>1. RowsSound(db) /\ \A s \in Requests : RequestSound(req[s], db, notices, clock)
  BY DEF IInv, WellTyped
<1>2. CASE db' = db
  BY <1>1, <1>2, SameHarmless DEF SameConv
<1>3. ASSUME NEW r \in Requests, Commit(r), NEW c \in Pairs PROVE Harmless(db, db', c)
  <2> DEFINE call == req[r].call
             now == req[r].startedAt
             e == Effect(call, db, now)
  <2>1. CallSound(call, db) /\ Fresh(now, db) /\ Foretold(call, now, req[r].events, db, notices) /\ db' = e
    BY <1>1, <1>3 DEF Commit, RequestSound, Open, Holding
  <2>2. RowsSound(e) /\ Outcome(call, db, e, now)
    BY <1>1, <2>1, EffectSound, EffectOutcome
  <2>3. Allowed(call, db) /\ ~ SenderReadThrows(call, db, now)
    BY <2>1 DEF Foretold
  <2>4. CASE c = call.conv
    <3> HIDE DEF e
    <3> QED
      BY <1>1, <2>1, <2>2, <2>3, <2>4, CallHarmless
  <2>5. CASE c # call.conv
    <3>1. Apart(db, e, c)
      BY <1>1, <2>1, <2>5, EffectApart
    <3> QED
      BY <1>1, <2>1, <3>1, SameHarmless DEF Apart
  <2> QED
    BY <2>4, <2>5
<1>4. CASE db' # db
  BY <1>3, <1>4, CommitsOnly
<1> QED
  BY <1>2, <1>4

\* A call that has prepared makes a match just when it has somebody to notify of
\* one.
LEMMA MatchMade ==
  ASSUME IInv, NEW r \in Requests, req[r].pc = "prepared",
         NEW e, e = Effect(req[r].call, db, req[r].startedAt)
  PROVE  LET c == req[r].call.conv
         IN  /\ c \in Pairs /\ \A k \in Pairs \ {c} : Matched(db, k) = Matched(e, k)
             /\ ~ Matched(db, c) /\ Matched(e, c) =>
                  req[r].announce = MatchNotices(c, req[r].startedAt)
             /\ req[r].announce # {} => ~ Matched(db, c) /\ Matched(e, c)
<1> DEFINE call == req[r].call
           c == call.conv
           now == req[r].startedAt
<1>1. /\ RowsSound(db) /\ CallSound(call, db) /\ Fresh(now, db)
      /\ req[r].announce = Announced(call, db, now)
  BY DEF IInv, WellTyped, RequestSound, Open
<1>2. call \in CallType /\ call.profile \in c /\ c \in Pairs
  BY <1>1, CallKinds DEF CallSound
<1>3. Outcome(call, db, e, now)
  BY <1>1, EffectOutcome
<1>4. ASSUME NEW k \in Pairs \ {c} PROVE Matched(db, k) = Matched(e, k)
  <2>1. SameConv(db, e, k)
    BY <1>1, EffectApart DEF Apart
  <2> QED
    BY <2>1, SameReading
<1>5. e.likes # db.likes /\ Matched(e, c) /\ ~ Matched(db, c) => call.kind = "like"
  BY <1>3 DEF Outcome, Matched
<1>6. call.kind = "like" => e.likes = db.likes \cup {LikeOf(call)} /\ e = Like(call, db)
  BY <1>2, <1>3, EffectKinds DEF Outcome
<1>7. ~ Matched(db, c) /\ Matched(e, c) => e.likes # db.likes
  BY DEF Matched
<1>8. AnnouncesMatch(call, db) <=> ~ Matched(db, c) /\ Matched(e, c)
  <2>1. ASSUME AnnouncesMatch(call, db) PROVE ~ Matched(db, c) /\ Matched(e, c)
    BY <1>2, <1>6, <2>1 DEF AnnouncesMatch, Matched
  <2>2. ASSUME ~ Matched(db, c), Matched(e, c) PROVE AnnouncesMatch(call, db)
    <3>1. call.kind = "like" /\ e = Like(call, db)
      BY <1>5, <1>6, <1>7, <2>2
    <3>2. LikeOf(call) \notin db.likes
      <4>1. ASSUME LikeOf(call) \in db.likes PROVE e.likes = db.likes
        BY <1>6, <3>1, <4>1
      <4> QED
        BY <1>7, <2>2, <4>1
    <3> QED
      BY <2>2, <3>1, <3>2 DEF AnnouncesMatch, LikeOf
  <2> QED
    BY <2>1, <2>2
<1> QED
  BY <1>1, <1>2, <1>4, <1>8 DEF Announced

\* What MatchAnnouncedOnce says of a step.
AnnouncedRightly ==
  /\ \A c \in Pairs :
       ~ Matched(db, c) /\ Matched(db', c) =>
         \E r \in Requests :
           /\ req[r].pc = "prepared" /\ req[r].call.conv = c
           /\ req'[r].announce = MatchNotices(c, req[r].startedAt)
  /\ \A r \in Requests :
       req[r].pc = "prepared" /\ req'[r].pc = "notifying" =>
         ~ Matched(db, req[r].call.conv) /\ Matched(db', req[r].call.conv)

\* Only its own commit takes a prepared transaction to its notifications.
LEMMA OthersStay ==
  ASSUME [Next]_vars, req \in [Requests -> ReqType], NEW r \in Requests,
         req[r].pc = "prepared", req'[r].pc = "notifying"
  PROVE  Commit(r)
<1>1. ASSUME NEW s \in Requests, NEW q, req' = [req EXCEPT ![s] = q],
             q.pc # "notifying" \/ req[s].pc # "prepared"
      PROVE  FALSE
  BY <1>1
<1>2. ASSUME NEW s \in Requests, NEW call \in Calls, Begin(s, call) PROVE FALSE
  BY <1>2 DEF Begin
<1>3. ASSUME NEW s \in Requests, Lock(s) PROVE FALSE
  BY <1>3 DEF Lock
<1>4. ASSUME NEW s \in Requests, Prepare(s) PROVE FALSE
  BY <1>4 DEF Prepare
<1>5. ASSUME NEW s \in Requests, Refuse(s) \/ Fail(s) PROVE FALSE
  BY <1>1, <1>5, IdleTyped DEF Refuse, Fail, RolledBack
<1>6. ASSUME NEW s \in Requests, NEW n \in req[s].announce, NotifyMatch(s, n) PROVE FALSE
  BY <1>1, <1>6 DEF NotifyMatch
<1>7. ASSUME NEW s \in Requests, Commit(s), s # r PROVE FALSE
  BY <1>7 DEF Commit
<1>8. req' # req
  OBVIOUS
<1> QED
  BY <1>2, <1>3, <1>4, <1>5, <1>6, <1>7, <1>8 DEF Next, vars, See, SeeAll

LEMMA AnnouncedStep ==
  ASSUME IInv, [Next]_vars
  PROVE  AnnouncedRightly
<1>1. req \in [Requests -> ReqType]
  BY DEF IInv, WellTyped
<1>2. ASSUME NEW r \in Requests, Commit(r)
      PROVE  /\ req[r].pc = "prepared" /\ db' = Effect(req[r].call, db, req[r].startedAt)
             /\ req'[r].announce = req[r].announce
             /\ req'[r].pc = IF req[r].announce = {} THEN "idle" ELSE "notifying"
             /\ \A s \in Requests \ {r} : req'[s] = req[s]
  <2> DEFINE rest == Announcing(req[r], req[r].announce)
  <2>1. req[r] \in ReqType /\ req[r].announce \in SUBSET MatchNotice
    BY <1>1 DEF ReqType
  <2>2. rest.announce = req[r].announce /\ rest.pc = IF req[r].announce = {} THEN "idle" ELSE "notifying"
    BY <2>1, AnnouncingTyped
  <2>3. /\ req[r].pc = "prepared" /\ db' = Effect(req[r].call, db, req[r].startedAt)
        /\ req' = [req EXCEPT ![r] = rest]
    BY <1>2 DEF Commit
  <2> HIDE DEF rest
  <2> QED
    BY <1>1, <2>2, <2>3
<1>3. ASSUME NEW c \in Pairs, ~ Matched(db, c), Matched(db', c)
      PROVE  \E r \in Requests :
               /\ req[r].pc = "prepared" /\ req[r].call.conv = c
               /\ req'[r].announce = MatchNotices(c, req[r].startedAt)
  <2>1. db' # db
    BY <1>3
  <2>2. PICK r \in Requests : Commit(r)
    BY <2>1, CommitsOnly
  <2>3. /\ req[r].pc = "prepared" /\ db' = Effect(req[r].call, db, req[r].startedAt)
        /\ req'[r].announce = req[r].announce
    BY <1>2, <2>2
  <2>4. req[r].call.conv = c /\ req[r].announce = MatchNotices(c, req[r].startedAt)
    BY <1>3, <2>3, MatchMade
  <2> QED
    BY <2>3, <2>4
<1>4. ASSUME NEW r \in Requests, req[r].pc = "prepared", req'[r].pc = "notifying"
      PROVE  ~ Matched(db, req[r].call.conv) /\ Matched(db', req[r].call.conv)
  <2>1. Commit(r)
    BY <1>1, <1>2, <1>4, OthersStay
  <2>2. db' = Effect(req[r].call, db, req[r].startedAt) /\ req[r].announce # {}
    BY <1>2, <1>4, <2>1
  <2> QED
    BY <1>4, <2>2, MatchMade
<1> QED
  BY <1>3, <1>4 DEF AnnouncedRightly

-----------------------------------------------------------------------------
(* The theorems                                                            *)

\* The rows, the pair locks and the transactions are what their types say: a
\* transaction past acquireProfilePairLock, and no other, holds a pair lock.
THEOREM ChatTyped == Spec => []TypeOK
BY Invariant, TypedRows, PTL

\* The durable conversation stream of a pair, replayed, gives its messages, read
\* positions, match state and reactions as the tables hold them.
THEOREM StreamTellsConversation == Spec => []LogTellsConversation
BY Invariant, ConversationsTold, PTL

\* The last conversation.upsert on a member's profile stream is the projection
\* that loadChatConversationForProfile would return now, for each conversation.
THEOREM ConversationListsCurrent == Spec => []ProjectionsCurrent
BY Invariant, ListsCurrent, PTL

\* The last unread count and the last notification count on the streams are true,
\* of profiles and users whose transactions all wait for one pair lock; the latter
\* of a user who was notified of messages only and has read or archived none
\* (matches and reads change the count and append no event).
THEOREM CountsTrue == Spec => []CountsConverge
BY Invariant, CountsTold, PTL

\* Each member of the receiving profile but the author is notified of a message
\* once, in the rows, on the stream and, with a token, by a push job.
THEOREM MembersNotifiedOnce == Spec => []NotifiedOnce
BY Invariant, NoticesTrue, PTL

\* What was checked and prepared under the pair lock is still so at the commit:
\* no message and no emoji reaction in an unmatched pair, no read position back.
THEOREM LateCallsDoNoHarm == Spec => LateCallsHarmless
<1>1. IInv /\ [Next]_vars => [\A c \in Pairs : Harmless(db, db', c)]_vars
  BY HarmlessStep
<1>2. Spec => [][\A c \in Pairs : Harmless(db, db', c)]_vars
  BY <1>1, Invariant, PTL DEF Spec
<1> QED
  BY <1>2 DEF LateCallsHarmless, Harmless

\* Of all likes of a pair, also of two at the same moment, the one that made the
\* match notifies the members of both profiles, and no other one does.
THEOREM MatchAnnounced == Spec => MatchAnnouncedOnce
<1>1. IInv /\ [Next]_vars => [AnnouncedRightly]_vars
  BY AnnouncedStep
<1>2. Spec => [][AnnouncedRightly]_vars
  BY <1>1, Invariant, PTL DEF Spec
<1> QED
  BY <1>2 DEF MatchAnnouncedOnce, AnnouncedRightly

=============================================================================
