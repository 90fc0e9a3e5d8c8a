-------------------------- MODULE CursorPagination --------------------------
(***************************************************************************)
(* The opaque cursors of src/src/lib/cursor.ts and the four lists that     *)
(* page with them: the profile feed, a profile's conversations, the        *)
(* messages of a conversation and the notifications of a user (ADR 0005).  *)
(*                                                                         *)
(* One client walks through one list while rows come, move and go and      *)
(* while the signing secrets are rotated.  A row is its sort key (metres   *)
(* or microseconds) and its id.  An HMAC is the secret it was made with    *)
(* together with what it covers.                                           *)
(***************************************************************************)
EXTENDS Integers, Sequences, FiniteSets

CONSTANTS
  Requests,        \* records: resource, user, profile and what narrows the list
  Ids, MaxKey,     \* rows: ids are naturals, keys 1..MaxKey
  Configurations,  \* what the environment may set the secrets to
  Blank,           \* a secret that is missing or only white space
  Absent,          \* no limit in a request, no cursor in a walk
  Limits, DefaultLimit, MaxLimit

Resources == {"profile-feed", "chat-conversations", "chat-messages", "notifications"}
Directions == {"next", "previous"}

ASSUME RowsAssumption == Ids \subseteq Nat /\ IsFiniteSet(Ids) /\ MaxKey \in Nat
ASSUME LimitsAssumption ==
  Limits \subseteq Int \cup {Absent} /\ DefaultLimit \in 1..MaxLimit /\ MaxLimit \in Nat
ASSUME RequestsAssumption == \A l \in Requests : l.resource \in Resources

VARIABLES
  config,    \* CURSOR_SIGNING_SECRET, BETTER_AUTH_SECRET, CURSOR_SIGNING_PREVIOUS_SECRETS
  list,      \* the request whose list the client walks through
  rows,      \* the key of each row the list would select, 0 when it is not selected
  phase,     \* of the walk: "idle", "underway", "over"
  cursor,    \* the cursor the client holds while the walk is under way
  returned,  \* the rows of the pages of this walk before the latest
  page,      \* the rows of the latest page
  steady     \* the rows that were there when the walk began and never touched since

vars == <<config, list, rows, phase, cursor, returned, page, steady>>

-----------------------------------------------------------------------------
(* The codec                                                               *)

\* loadDefaultSigningSecrets, normalizeSigningSecrets: the secrets in order,
\* the first of which signs.
Keys(c) ==
  LET primary == IF c.cursor # Blank THEN c.cursor ELSE c.auth
      Given(k) == k # Blank
  IN SelectSeq(<<primary>> \o c.previous, Given)

\* The context each list puts in the fingerprint.
Context(l) ==
  CASE l.resource = "profile-feed" -> [user |-> l.user, profile |-> l.profile, narrow |-> l.narrow]
    [] l.resource = "chat-conversations" -> [user |-> l.user, profile |-> l.profile]
    [] l.resource = "chat-messages" -> [user |-> l.user, profile |-> l.profile, narrow |-> l.narrow]
    [] l.resource = "notifications" -> [user |-> l.user, narrow |-> l.narrow]

Fingerprint(k, l, direction) ==
  [secret |-> k, context |-> Context(l), direction |-> direction, resource |-> l.resource]

Encode(keys, l, direction, sort) ==
  LET payload ==
        [version |-> 1, resource |-> l.resource, direction |-> direction, sort |-> sort,
         fingerprint |-> Fingerprint(keys[1], l, direction)]
  IN [wire |-> "c1", payload |-> payload, signature |-> [secret |-> keys[1], of |-> payload]]

Verifies(keys, token) ==
  {i \in 1..Len(keys) : token.signature = [secret |-> keys[i], of |-> token.payload]}

\* Mutation: the fingerprint is always recomputed with the first secret.
FirstSecret(keys, token) == keys[1]

Signer(keys, token) == keys[CHOOSE i \in Verifies(keys, token) : TRUE]

\* decode, its errors in order: every one of them is the same 400.
Accepts(keys, l, direction, token) ==
  /\ token.wire = "c1"
  /\ Verifies(keys, token) # {}
  /\ token.payload.version = 1
  /\ token.payload.resource = l.resource
  /\ token.payload.direction = direction
  /\ token.payload.fingerprint = Fingerprint(Signer(keys, token), l, direction)

-----------------------------------------------------------------------------
(* A page                                                                  *)

Row == [key : 1..MaxKey, id : Ids]
RowOf(i) == [key |-> rows[i], id |-> i]
Present == {RowOf(i) : i \in {j \in Ids : rows[j] > 0}}

\* ORDER BY: the feed ascends, the other lists descend.
Before(l, r, q) ==
  IF l.resource = "profile-feed"
  THEN r.key < q.key \/ (r.key = q.key /\ r.id < q.id)
  ELSE r.key > q.key \/ (r.key = q.key /\ r.id > q.id)

\* Mutation: the predicate leaves the tie-breaker out.
BeyondKey(l, sort, r) == Before(l, sort, r) /\ r.key # sort.key

\* Mutation: the predicate is not strict.
BeyondOrAt(l, sort, r) == ~Before(l, r, sort)

\* The predicate on the rows after a cursor.
Beyond(l, sort, r) == Before(l, sort, r)

\* LIMIT n
First(l, S, n) == {r \in S : Cardinality({q \in S : Before(l, q, r)}) < n}

\* normalizeLimit, normalizeFeedLimit, normalizeNotificationLimit
PageSize(limit) ==
  LET asked == IF limit = Absent THEN DefaultLimit ELSE limit
      raised == IF asked < 1 THEN 1 ELSE asked
  IN IF raised > MaxLimit THEN MaxLimit ELSE raised

\* Mutation: the cursor is made from the extra row.
LookaheadIn(l, S, n, r) == r \in First(l, S, n + 1) \ First(l, S, n)

\* lastReturned: the last row of the page.
LastIn(l, S, n, r) ==
  r \in First(l, S, n) /\ \A q \in First(l, S, n) : q = r \/ Before(l, q, r)

\* The page of the rows S, and a next cursor when there is a further row.
Serve(S, n) ==
  /\ page' = First(list, S, n)
  /\ returned' = returned \cup page
  /\ \/ /\ Cardinality(S) > n
        /\ Keys(config) # <<>>
        /\ \E r \in Row :
             /\ LastIn(list, S, n, r)
             /\ cursor' = Encode(Keys(config), list, "next", r)
        /\ phase' = "underway"
     \/ /\ Cardinality(S) <= n
        /\ phase' = "over"
        /\ cursor' = Absent
  /\ UNCHANGED <<config, list, rows>>

-----------------------------------------------------------------------------
(* The walk, and what happens meanwhile                                    *)

Init ==
  /\ config \in Configurations
  /\ list \in Requests
  /\ rows \in [Ids -> 0..MaxKey]
  /\ phase = "idle" /\ cursor = Absent
  /\ returned = {} /\ page = {} /\ steady = {}

FirstPage(limit) ==
  /\ phase = "idle"
  /\ steady' = {i \in Ids : rows[i] > 0}
  /\ Serve(Present, PageSize(limit))

NextPage(limit) ==
  /\ phase = "underway"
  /\ Accepts(Keys(config), list, "next", cursor)
  /\ Serve({r \in Present : Beyond(list, cursor.payload.sort, r)}, PageSize(limit))
  /\ UNCHANGED steady

Forget ==
  /\ phase' = "idle" /\ cursor' = Absent
  /\ returned' = {} /\ page' = {} /\ steady' = {}
  /\ UNCHANGED <<config, list, rows>>

\* The 400 of a cursor that is no longer accepted: the client begins again.
Refused ==
  /\ phase = "underway"
  /\ ~Accepts(Keys(config), list, "next", cursor)
  /\ Forget

\* A client may also give up, or walk again.
StartOver == phase # "idle" /\ Forget

\* A profile, match, message or notification appears in the list.
Appear(i, k) ==
  /\ rows[i] = 0
  /\ rows' = [rows EXCEPT ![i] = k]
  /\ UNCHANGED <<config, list, phase, cursor, returned, page, steady>>

\* A profile of the feed is nearer or further, a conversation has a message.
Move(i, k) ==
  /\ list.resource \in {"profile-feed", "chat-conversations"}
  /\ rows[i] > 0 /\ rows[i] # k
  /\ rows' = [rows EXCEPT ![i] = k]
  /\ steady' = steady \ {i}
  /\ UNCHANGED <<config, list, phase, cursor, returned, page>>

\* A profile is reacted to, hidden or deleted, a notification archived or read.
\* Conversations and messages are never taken away.
Disappear(i) ==
  /\ list.resource \in {"profile-feed", "notifications"}
  /\ rows[i] > 0
  /\ rows' = [rows EXCEPT ![i] = 0]
  /\ steady' = steady \ {i}
  /\ UNCHANGED <<config, list, phase, cursor, returned, page>>

Reconfigure ==
  /\ config' \in Configurations
  /\ UNCHANGED <<list, rows, phase, cursor, returned, page, steady>>

Next ==
  \/ \E limit \in Limits : FirstPage(limit) \/ NextPage(limit)
  \/ Refused \/ StartOver \/ Reconfigure
  \/ \E i \in Ids : Disappear(i) \/ \E k \in 1..MaxKey : Appear(i, k) \/ Move(i, k)

Spec == Init /\ [][Next]_vars

-----------------------------------------------------------------------------
(* Properties                                                              *)

TypeOK ==
  /\ config \in Configurations
  /\ list \in Requests
  /\ rows \in [Ids -> 0..MaxKey]
  /\ phase \in {"idle", "underway", "over"}
  /\ phase = "underway" => cursor.payload.sort \in page
  /\ page \subseteq Row /\ returned \subseteq Row
  /\ steady \subseteq {i \in Ids : rows[i] > 0}

\* What the query of a request selects by, besides the state of its profile.
Selects(l) ==
  CASE l.resource = "profile-feed" -> [user |-> l.user, profile |-> l.profile, narrow |-> l.narrow]
    [] l.resource = "chat-conversations" -> [profile |-> l.profile]
    [] l.resource = "chat-messages" -> [narrow |-> l.narrow]
    [] l.resource = "notifications" -> [user |-> l.user, narrow |-> l.narrow]

SameList(l, m) ==
  l.resource = m.resource /\ l.user = m.user /\ Selects(l) = Selects(m)

\* Ways to hand a cursor back that the codec must refuse.
Altered(token) ==
  {[token EXCEPT !.wire = "c2"], [token EXCEPT !.payload.version = 2],
   [token EXCEPT !.payload.direction = "previous"]}
    \cup {[token EXCEPT !.payload.sort = r] : r \in Row \ {token.payload.sort}}
    \cup {[token EXCEPT !.payload.fingerprint = Fingerprint(token.signature.secret, l, "next")] :
            l \in {m \in Requests : ~SameList(m, list)}}

\* "Clients ... do not ... transfer a cursor between resources, scopes,
\* profiles/users, or filter sets" (ADR 0005:25-26): the cursor the client holds
\* is accepted for its own list exactly as long as the secret that signed it is
\* configured, first or not, and for no other list, in no other direction, and
\* in no altered form.
CursorsBind ==
  phase = "underway" =>
    LET keys == Keys(config) IN
    /\ Accepts(keys, list, "next", cursor)
         <=> \E i \in 1..Len(keys) : keys[i] = cursor.signature.secret
    /\ \A l \in Requests : Accepts(keys, l, "next", cursor) => SameList(l, list)
    /\ ~Accepts(keys, list, "previous", cursor)
    /\ \A token \in Altered(cursor) : ~Accepts(keys, list, "next", token)

\* "Exactly once" (cursor-pagination.test.ts:65), with the list changing under
\* the walk: a row nobody touched has been returned as soon as the cursor is past
\* it, and when the walk is over.
SteadyRowsReturned ==
  \A i \in steady :
    /\ phase = "over" => RowOf(i) \in returned \cup page
    /\ phase = "underway" /\ ~Before(list, cursor.payload.sort, RowOf(i))
         => RowOf(i) \in returned \cup page

\* A page follows every row returned before it, so that no row is returned
\* twice in the same place.
PagesFollow ==
  \A r \in page, q \in returned : Before(list, q, r)

=============================================================================
