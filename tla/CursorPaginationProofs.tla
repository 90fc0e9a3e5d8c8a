----------------------- MODULE CursorPaginationProofs -----------------------
(***************************************************************************)
(* What the cursors bind, and that a walk returns every untouched row      *)
(* exactly once and in order, for any rows, limits, requests and secrets.  *)
(***************************************************************************)
EXTENDS CursorPagination, FiniteSetTheorems, TLAPS

-----------------------------------------------------------------------------
(* The codec                                                               *)

\* The token of a request made with a secret.
Token(k, l, sort) ==
  LET payload ==
        [version |-> 1, resource |-> l.resource, direction |-> "next", sort |-> sort,
         fingerprint |-> Fingerprint(k, l, "next")]
  IN [wire |-> "c1", payload |-> payload, signature |-> [secret |-> k, of |-> payload]]

\* The context of a request and its resource fix the rows its query selects.
LEMMA ContextBinds ==
  ASSUME NEW l \in Requests, NEW m \in Requests,
         l.resource = m.resource, Context(l) = Context(m)
  PROVE  SameList(l, m)
<1>1. CASE l.resource = "profile-feed"
  <2>1. [user |-> l.user, profile |-> l.profile, narrow |-> l.narrow]
         = [user |-> m.user, profile |-> m.profile, narrow |-> m.narrow]
    BY <1>1 DEF Context
  <2>2. /\ Selects(l) = [user |-> l.user, profile |-> l.profile, narrow |-> l.narrow]
        /\ Selects(m) = [user |-> m.user, profile |-> m.profile, narrow |-> m.narrow]
    BY <1>1 DEF Selects
  <2>3. l.user = m.user /\ l.profile = m.profile /\ l.narrow = m.narrow
    BY <2>1
  <2> QED
    BY <2>2, <2>3 DEF SameList
<1>2. CASE l.resource = "chat-conversations"
  <2>1. [user |-> l.user, profile |-> l.profile]
         = [user |-> m.user, profile |-> m.profile]
    BY <1>2 DEF Context
  <2>2. /\ Selects(l) = [profile |-> l.profile]
        /\ Selects(m) = [profile |-> m.profile]
    BY <1>2 DEF Selects
  <2>3. l.user = m.user /\ l.profile = m.profile
    BY <2>1
  <2> QED
    BY <2>2, <2>3 DEF SameList
<1>3. CASE l.resource = "chat-messages"
  <2>1. [user |-> l.user, profile |-> l.profile, narrow |-> l.narrow]
         = [user |-> m.user, profile |-> m.profile, narrow |-> m.narrow]
    BY <1>3 DEF Context
  <2>2. /\ Selects(l) = [narrow |-> l.narrow]
        /\ Selects(m) = [narrow |-> m.narrow]
    BY <1>3 DEF Selects
  <2>3. l.user = m.user /\ l.profile = m.profile /\ l.narrow = m.narrow
    BY <2>1
  <2> QED
    BY <2>2, <2>3 DEF SameList
<1>4. CASE l.resource = "notifications"
  <2>1. [user |-> l.user, narrow |-> l.narrow]
         = [user |-> m.user, narrow |-> m.narrow]
    BY <1>4 DEF Context
  <2>2. /\ Selects(l) = [user |-> l.user, narrow |-> l.narrow]
        /\ Selects(m) = [user |-> m.user, narrow |-> m.narrow]
    BY <1>4 DEF Selects
  <2>3. l.user = m.user /\ l.narrow = m.narrow
    BY <2>1
  <2> QED
    BY <2>2, <2>3 DEF SameList
<1> QED
  BY <1>1, <1>2, <1>3, <1>4, RequestsAssumption DEF Resources

\* A token verifies with the secret it was made with and no other.
LEMMA TokenVerifies ==
  ASSUME NEW keys, NEW k, NEW l, NEW sort
  PROVE  LET token == Token(k, l, sort) IN
         /\ Verifies(keys, token) = {i \in 1..Len(keys) : keys[i] = k}
         /\ Verifies(keys, token) # {} => Signer(keys, token) = k
<1> DEFINE token == Token(k, l, sort)
<1>1. token.signature = [secret |-> k, of |-> token.payload]
  BY DEF Token
<1>2. Verifies(keys, token) = {i \in 1..Len(keys) : keys[i] = k}
  BY <1>1 DEF Verifies
<1>3. ASSUME Verifies(keys, token) # {} PROVE Signer(keys, token) = k
  <2>1. (CHOOSE i \in Verifies(keys, token) : TRUE) \in Verifies(keys, token)
    BY <1>3
  <2> QED
    BY <1>2, <2>1 DEF Signer
<1> QED
  BY <1>2, <1>3

\* A token is accepted for its own list while its secret is configured.
LEMMA AcceptedForOwn ==
  ASSUME NEW keys, NEW k, NEW l \in Requests, NEW sort
  PROVE  Accepts(keys, l, "next", Token(k, l, sort)) <=> \E i \in 1..Len(keys) : keys[i] = k
<1> DEFINE token == Token(k, l, sort)
<1>1. /\ token.wire = "c1" /\ token.payload.version = 1
      /\ token.payload.resource = l.resource /\ token.payload.direction = "next"
      /\ token.payload.fingerprint = Fingerprint(k, l, "next")
  BY DEF Token
<1>2. /\ Verifies(keys, token) = {i \in 1..Len(keys) : keys[i] = k}
      /\ Verifies(keys, token) # {} => Signer(keys, token) = k
  BY TokenVerifies
<1> QED
  BY <1>1, <1>2 DEF Accepts

\* What a token is accepted for is its own list, in its own direction.
LEMMA AcceptedOnlyForOwn ==
  ASSUME NEW keys, NEW k, NEW l \in Requests, NEW m \in Requests, NEW sort
  PROVE  /\ Accepts(keys, m, "next", Token(k, l, sort)) => SameList(m, l)
         /\ ~Accepts(keys, m, "previous", Token(k, l, sort))
<1> DEFINE token == Token(k, l, sort)
<1>1. /\ token.payload.direction = "next" /\ token.payload.resource = l.resource
      /\ token.payload.fingerprint = Fingerprint(k, l, "next")
  BY DEF Token
<1>2. Verifies(keys, token) # {} => Signer(keys, token) = k
  BY TokenVerifies
<1>3. ASSUME Accepts(keys, m, "next", token) PROVE SameList(m, l)
  <2>1. m.resource = l.resource /\ Fingerprint(k, l, "next") = Fingerprint(k, m, "next")
    BY <1>1, <1>2, <1>3 DEF Accepts
  <2>2. Context(m) = Context(l)
    BY <2>1 DEF Fingerprint
  <2> QED
    BY <2>1, <2>2, ContextBinds
<1>4. ~Accepts(keys, m, "previous", token)
  BY <1>1 DEF Accepts
<1> QED
  BY <1>3, <1>4

\* A token whose signature covers another payload is refused.
LEMMA TamperedRefused ==
  ASSUME NEW keys, NEW m, NEW direction, NEW token, token.signature.of # token.payload
  PROVE  ~Accepts(keys, m, direction, token)
<1>1. \A i : token.signature # [secret |-> keys[i], of |-> token.payload]
  OBVIOUS
<1>2. Verifies(keys, token) = {}
  BY <1>1 DEF Verifies
<1> QED
  BY <1>2 DEF Accepts

\* Every altered form of a token is refused.
LEMMA AlteredRefused ==
  ASSUME NEW keys, NEW k, NEW sort, list \in Requests,
         NEW altered \in Altered(Token(k, list, sort))
  PROVE  ~Accepts(keys, list, "next", altered)
<1> DEFINE token == Token(k, list, sort)
<1>1. /\ token = [wire |-> token.wire, payload |-> token.payload, signature |-> token.signature]
      /\ token.payload = [version |-> 1, resource |-> list.resource, direction |-> "next",
                          sort |-> sort, fingerprint |-> Fingerprint(k, list, "next")]
      /\ token.signature = [secret |-> k, of |-> token.payload]
  BY DEF Token
<1>2. CASE altered = [token EXCEPT !.wire = "c2"]
  <2>1. altered.wire = "c2"
    BY <1>1, <1>2
  <2> QED
    BY <2>1 DEF Accepts
<1>3. CASE altered = [token EXCEPT !.payload.version = 2]
  <2>1. altered.payload.version = 2 /\ altered.signature.of.version = 1
    BY <1>1, <1>3
  <2> QED
    BY <2>1, TamperedRefused
<1>4. CASE altered = [token EXCEPT !.payload.direction = "previous"]
  <2>1. altered.payload.direction = "previous" /\ altered.signature.of.direction = "next"
    BY <1>1, <1>4
  <2> QED
    BY <2>1, TamperedRefused
<1>5. ASSUME NEW r \in Row \ {sort}, altered = [token EXCEPT !.payload.sort = r]
      PROVE  ~Accepts(keys, list, "next", altered)
  <2>1. altered.payload.sort = r /\ altered.signature.of.sort = sort
    BY <1>1, <1>5
  <2> QED
    BY <2>1, TamperedRefused
<1>6. ASSUME NEW l \in Requests, ~SameList(l, list),
             altered = [token EXCEPT !.payload.fingerprint = Fingerprint(token.signature.secret, l, "next")]
      PROVE  ~Accepts(keys, list, "next", altered)
  <2>1. /\ altered.payload.fingerprint = Fingerprint(k, l, "next")
        /\ altered.signature.of.fingerprint = Fingerprint(k, list, "next")
    BY <1>1, <1>6
  <2>2. Fingerprint(k, l, "next") # Fingerprint(k, list, "next")
    BY <1>6, ContextBinds DEF Fingerprint
  <2>3. altered.signature.of # altered.payload
    BY <2>1, <2>2
  <2> QED
    BY <2>3, TamperedRefused
<1>7. token.payload.sort = sort
  BY <1>1
<1> HIDE DEF token
<1> QED
  BY <1>2, <1>3, <1>4, <1>5, <1>6, <1>7 DEF Altered, token

-----------------------------------------------------------------------------
(* Pages                                                                   *)

\* ORDER BY is a strict total order of the rows.
LEMMA BeforeOrders ==
  ASSUME NEW l, NEW p \in Row, NEW q \in Row, NEW r \in Row
  PROVE  /\ ~Before(l, p, p)
         /\ Before(l, p, q) /\ Before(l, q, r) => Before(l, p, r)
         /\ p = q \/ Before(l, p, q) \/ Before(l, q, p)
<1>1. /\ p.key \in 1..MaxKey /\ q.key \in 1..MaxKey /\ r.key \in 1..MaxKey
      /\ p.id \in Ids /\ q.id \in Ids /\ r.id \in Ids
  BY DEF Row
<1>2. p.key \in Int /\ q.key \in Int /\ r.key \in Int
  BY <1>1
<1>5. p.id \in Int /\ q.id \in Int /\ r.id \in Int
  <2>1. Ids \subseteq Nat
    BY RowsAssumption
  <2>2. p.id \in Nat /\ q.id \in Nat /\ r.id \in Nat
    BY <1>1, <2>1
  <2> QED
    BY <2>2
<1>3. p = [key |-> p.key, id |-> p.id] /\ q = [key |-> q.key, id |-> q.id]
  BY DEF Row
<1>4. p.key = q.key /\ p.id = q.id => p = q
  BY <1>3
<1> QED
  BY <1>2, <1>4, <1>5 DEF Before

\* The rows are finitely many.
LEMMA RowsFinite == IsFiniteSet(Row)
<1>1. IsFiniteSet(1..MaxKey) /\ IsFiniteSet(Ids)
  BY FS_Interval, RowsAssumption
<1>2. IsFiniteSet((1..MaxKey) \X Ids)
  BY <1>1, FS_Product
<1> DEFINE f == [x \in (1..MaxKey) \X Ids |-> [key |-> x[1], id |-> x[2]]]
<1>3. f \in Surjection((1..MaxKey) \X Ids, Row)
  <2>1. f \in [(1..MaxKey) \X Ids -> Row]
    BY DEF Row
  <2>2. \A r \in Row : \E x \in (1..MaxKey) \X Ids : f[x] = r
    <3>1. ASSUME NEW r \in Row PROVE f[<<r.key, r.id>>] = r /\ <<r.key, r.id>> \in (1..MaxKey) \X Ids
      BY DEF Row
    <3> QED
      BY <3>1
  <2> QED
    BY <2>1, <2>2 DEF Surjection
<1> QED
  BY <1>2, <1>3, FS_Surjection

\* A page is closed downwards in the rows it is taken from.
LEMMA FirstClosed ==
  ASSUME NEW l, NEW S \in SUBSET Row, NEW n \in Nat,
         NEW r \in First(l, S, n), NEW q \in S, Before(l, q, r)
  PROVE  q \in First(l, S, n)
<1> DEFINE P(x) == {p \in S : Before(l, p, x)}
<1>1. IsFiniteSet(S)
  BY RowsFinite, FS_Subset
<1>2. IsFiniteSet(P(r)) /\ IsFiniteSet(P(q))
  BY <1>1, FS_Subset
<1>3. r \in S
  BY DEF First
<1>4. P(q) \subseteq P(r)
  BY <1>3, BeforeOrders
<1>5. Cardinality(P(q)) <= Cardinality(P(r))
  BY <1>2, <1>4, FS_Subset
<1>6. Cardinality(P(r)) < n /\ Cardinality(P(r)) \in Nat /\ Cardinality(P(q)) \in Nat
  BY <1>2, FS_CardinalityType DEF First
<1>7. Cardinality(P(q)) < n
  BY <1>5, <1>6
<1> QED
  BY <1>7 DEF First

\* When no further row exists, the page is all of them.
LEMMA FirstIsAll ==
  ASSUME NEW l, NEW S \in SUBSET Row, NEW n \in Nat, Cardinality(S) <= n
  PROVE  First(l, S, n) = S
<1> SUFFICES ASSUME NEW r \in S PROVE r \in First(l, S, n)
  BY DEF First
<1> DEFINE P == {p \in S : Before(l, p, r)}
<1>1. IsFiniteSet(S) /\ Cardinality(S) \in Nat
  BY RowsFinite, FS_Subset, FS_CardinalityType
<1>2. P \subseteq S \ {r}
  BY BeforeOrders
<1>3. IsFiniteSet(S \ {r}) /\ Cardinality(S \ {r}) = Cardinality(S) - 1
  BY <1>1, FS_RemoveElement
<1>4. IsFiniteSet(P) /\ Cardinality(P) <= Cardinality(S \ {r})
  BY <1>2, <1>3, FS_Subset
<1>5. Cardinality(P) \in Nat /\ Cardinality(P) < n
  BY <1>1, <1>3, <1>4, FS_CardinalityType
<1> QED
  BY <1>5 DEF First

-----------------------------------------------------------------------------
(* The walk                                                                *)

\* The types, and what the cursor of a walk under way is: the token of the last
\* row returned.
Walk ==
  /\ config \in Configurations
  /\ list \in Requests
  /\ rows \in [Ids -> 0..MaxKey]
  /\ phase \in {"idle", "underway", "over"}
  /\ page \subseteq Row /\ returned \subseteq Row
  /\ steady \subseteq {i \in Ids : rows[i] > 0}
  /\ phase = "idle" => page = {} /\ returned = {} /\ steady = {}
  /\ phase = "underway" =>
       /\ cursor = Token(cursor.signature.secret, list, cursor.payload.sort)
       /\ cursor.payload.sort \in page
       /\ \A q \in page \cup returned : q = cursor.payload.sort \/ Before(list, q, cursor.payload.sort)

Inv == Walk /\ PagesFollow /\ SteadyRowsReturned

LEMMA RowsPresent ==
  ASSUME Walk
  PROVE  Present \subseteq Row /\ \A i \in steady : RowOf(i) \in Present
<1>1. \A i \in Ids : rows[i] \in 0..MaxKey /\ MaxKey \in Nat
  BY RowsAssumption DEF Walk
<1>2. \A i \in Ids : rows[i] > 0 => RowOf(i) \in Row
  BY <1>1 DEF RowOf, Row
<1> QED
  BY <1>2 DEF Present, Walk

LEMMA PageSizeTyped ==
  ASSUME NEW limit \in Limits
  PROVE  PageSize(limit) \in Nat
<1>1. limit = Absent \/ limit \in Int
  BY LimitsAssumption
<1>2. DefaultLimit \in Int /\ MaxLimit \in Nat
  BY LimitsAssumption
<1> QED
  BY <1>1, <1>2 DEF PageSize

\* What Encode makes is a token.
LEMMA EncodeToken ==
  ASSUME NEW keys, NEW l, NEW sort
  PROVE  /\ Encode(keys, l, "next", sort) = Token(keys[1], l, sort)
         /\ Token(keys[1], l, sort).signature.secret = keys[1]
         /\ Token(keys[1], l, sort).payload.sort = sort
BY DEF Encode, Token

\* A page taken from rows that follow all those returned, among which is every
\* steady row not returned yet.
LEMMA ServeKeeps ==
  ASSUME Walk, NEW S \in SUBSET Row, NEW n \in Nat, Serve(S, n),
         \A r \in S, q \in page \cup returned : Before(list, q, r),
         steady' \subseteq {i \in Ids : rows[i] > 0},
         \A i \in steady' : RowOf(i) \in Row /\ RowOf(i) \in S \cup page \cup returned
  PROVE  Inv'
<1>1. /\ page' = First(list, S, n) /\ returned' = returned \cup page
      /\ UNCHANGED <<config, list, rows>>
  BY DEF Serve
<1>2. page' \subseteq S
  BY <1>1 DEF First
<1>3. PagesFollow'
  BY <1>1, <1>2 DEF PagesFollow, Before
<1>4. \A i : RowOf(i)' = RowOf(i)
  BY <1>1 DEF RowOf
<1>5. CASE phase' = "over"
  <2>1. phase' # "underway" /\ phase' # "idle" /\ Cardinality(S) <= n
    BY <1>5 DEF Serve
  <2>2. page' = S
    BY <1>1, <2>1, FirstIsAll
  <2>3. SteadyRowsReturned'
    BY <1>1, <1>4, <2>1, <2>2 DEF SteadyRowsReturned
  <2>4. Walk'
    BY <1>1, <1>2, <1>5, <2>1 DEF Walk
  <2> QED
    BY <1>3, <2>3, <2>4 DEF Inv
<1>6. CASE phase' = "underway"
  <2>1. PICK r \in Row : LastIn(list, S, n, r) /\ cursor' = Encode(Keys(config), list, "next", r)
    BY <1>6 DEF Serve
  <2>2. /\ cursor'.payload.sort = r
        /\ cursor' = Token(cursor'.signature.secret, list, cursor'.payload.sort)
    BY <2>1, EncodeToken
  <2>3. r \in page' /\ \A q \in page' : q = r \/ Before(list, q, r)
    BY <1>1, <2>1 DEF LastIn
  <2>4. \A q \in page' \cup returned' : q = r \/ Before(list, q, r)
    BY <1>1, <1>2, <2>3
  <2>5. ASSUME NEW i \in steady', ~Before(list, r, RowOf(i))
        PROVE  RowOf(i) \in returned' \cup page'
    <3>1. CASE RowOf(i) \in page \cup returned
      BY <1>1, <3>1
    <3>2. CASE RowOf(i) \in S
      <4>1. RowOf(i) = r \/ Before(list, RowOf(i), r)
        BY <2>5, BeforeOrders
      <4>2. Before(list, RowOf(i), r) => RowOf(i) \in page'
        BY <1>1, <2>3, <3>2, FirstClosed
      <4> QED
        BY <2>3, <4>1, <4>2
    <3> QED
      BY <3>1, <3>2
  <2>6. SteadyRowsReturned'
    <3>1. list' = list /\ phase' # "over"
      BY <1>1, <1>6
    <3>2. \A i \in steady' : ~Before(list', cursor'.payload.sort, RowOf(i)') => RowOf(i)' \in returned' \cup page'
      BY <1>4, <2>2, <2>5, <3>1
    <3> QED
      BY <3>1, <3>2 DEF SteadyRowsReturned
  <2>7. Walk'
    BY <1>1, <1>2, <1>6, <2>2, <2>3, <2>4 DEF Walk, Before
  <2> QED
    BY <1>3, <2>6, <2>7 DEF Inv
<1> QED
  BY <1>5, <1>6 DEF Serve

LEMMA InitInv == Init => Inv
BY DEF Init, Inv, Walk, PagesFollow, SteadyRowsReturned

LEMMA NextInv == Inv /\ [Next]_vars => Inv'
<1> SUFFICES ASSUME Inv, [Next]_vars PROVE Inv'
  OBVIOUS
<1>0. Walk /\ PagesFollow /\ SteadyRowsReturned /\ Present \subseteq Row
      /\ \A i \in steady : RowOf(i) \in Present
  BY RowsPresent DEF Inv
<1>1. ASSUME NEW limit \in Limits, FirstPage(limit) PROVE Inv'
  <2>1. page = {} /\ returned = {} /\ steady' = {i \in Ids : rows[i] > 0}
    BY <1>0, <1>1 DEF FirstPage, Walk
  <2>2. \A i \in steady' : RowOf(i) \in Present
    BY <2>1 DEF Present
  <2>3. Serve(Present, PageSize(limit))
    BY <1>1 DEF FirstPage
  <2> QED
    BY <1>0, <2>1, <2>2, <2>3, PageSizeTyped, ServeKeeps
<1>2. ASSUME NEW limit \in Limits, NextPage(limit) PROVE Inv'
  <2> DEFINE sort == cursor.payload.sort
             S == {r \in Present : Beyond(list, sort, r)}
  <2>1. phase = "underway" /\ steady' = steady /\ Serve(S, PageSize(limit))
    BY <1>2 DEF NextPage
  <2>2. sort \in Row /\ \A q \in page \cup returned : q \in Row /\ (q = sort \/ Before(list, q, sort))
    BY <1>0, <2>1 DEF Walk
  <2>3. \A r \in S, q \in page \cup returned : Before(list, q, r)
    BY <1>0, <2>2, BeforeOrders DEF Beyond
  <2>4. \A i \in steady' : RowOf(i) \in Row /\ RowOf(i) \in S \cup page \cup returned
    BY <1>0, <2>1 DEF Beyond, SteadyRowsReturned
  <2>5. S \in SUBSET Row /\ steady' \subseteq {i \in Ids : rows[i] > 0}
    BY <1>0, <2>1 DEF Walk
  <2> HIDE DEF S
  <2> QED
    BY <1>0, <2>1, <2>3, <2>4, <2>5, PageSizeTyped, ServeKeeps
<1>3. CASE Forget
  BY <1>0, <1>3 DEF Forget, Inv, Walk, PagesFollow, SteadyRowsReturned
<1>4. ASSUME NEW i \in Ids, NEW k \in 0..MaxKey, rows' = [rows EXCEPT ![i] = k],
             steady' \subseteq steady \ {i},
             UNCHANGED <<config, list, phase, cursor, returned, page>>
      PROVE  Inv'
  <2>1. \A j \in steady' : j \in steady /\ j \in Ids /\ rows'[j] = rows[j]
    BY <1>0, <1>4 DEF Walk
  <2>2. \A j \in steady' : RowOf(j)' = RowOf(j)
    BY <2>1 DEF RowOf
  <2>3. SteadyRowsReturned'
    BY <1>0, <1>4, <2>1, <2>2 DEF SteadyRowsReturned, Before
  <2>4. PagesFollow'
    BY <1>0, <1>4 DEF PagesFollow, Before
  <2>5. steady' \subseteq {j \in Ids : rows'[j] > 0}
    BY <1>0, <2>1 DEF Walk
  <2>6. rows' \in [Ids -> 0..MaxKey]
    BY <1>0, <1>4 DEF Walk
  <2>7. Walk'
    BY <1>0, <1>4, <2>5, <2>6 DEF Walk, Before
  <2> QED
    BY <2>3, <2>4, <2>7 DEF Inv
<1>5. ASSUME NEW i \in Ids, Disappear(i) PROVE Inv'
  <2>1. 0 \in 0..MaxKey
    BY RowsAssumption
  <2>2. rows' = [rows EXCEPT ![i] = 0]
    BY <1>5 DEF Disappear
  <2>3. UNCHANGED <<config, list, phase, cursor, returned, page>>
    BY <1>5 DEF Disappear
  <2>4. steady' \subseteq steady \ {i}
    BY <1>5 DEF Disappear
  <2> QED
    BY <1>4, <2>1, <2>2, <2>3, <2>4
<1>6. ASSUME NEW i \in Ids, NEW k \in 1..MaxKey, Move(i, k) PROVE Inv'
  <2>1. k \in 0..MaxKey
    BY RowsAssumption
  <2>2. rows' = [rows EXCEPT ![i] = k]
    BY <1>6 DEF Move
  <2>3. UNCHANGED <<config, list, phase, cursor, returned, page>>
    BY <1>6 DEF Move
  <2>4. steady' \subseteq steady \ {i}
    BY <1>6 DEF Move
  <2> QED
    BY <1>4, <2>1, <2>2, <2>3, <2>4
<1>7. ASSUME NEW i \in Ids, NEW k \in 1..MaxKey, Appear(i, k) PROVE Inv'
  <2>1. k \in 0..MaxKey
    BY RowsAssumption
  <2>2. rows' = [rows EXCEPT ![i] = k]
    BY <1>7 DEF Appear, Walk
  <2>3. UNCHANGED <<config, list, phase, cursor, returned, page>>
    BY <1>7 DEF Appear, Walk
  <2>4. steady' \subseteq steady \ {i}
    BY <1>0, <1>7 DEF Appear, Walk
  <2> QED
    BY <1>4, <2>1, <2>2, <2>3, <2>4
<1>8. CASE Reconfigure
  <2>1. \A j : RowOf(j)' = RowOf(j)
    BY <1>8 DEF Reconfigure, RowOf
  <2> QED
    BY <1>0, <1>8, <2>1 DEF Reconfigure, Inv, Walk, PagesFollow, SteadyRowsReturned, Before
<1>9. CASE UNCHANGED vars
  <2>1. \A j : RowOf(j)' = RowOf(j)
    BY <1>9 DEF vars, RowOf
  <2> QED
    BY <1>0, <1>9, <2>1 DEF vars, Inv, Walk, PagesFollow, SteadyRowsReturned, Before
<1> QED
  BY <1>1, <1>2, <1>3, <1>5, <1>6, <1>7, <1>8, <1>9 DEF Next, Refused, StartOver

LEMMA WalkInv == Spec => []Inv
BY InitInv, NextInv, PTL DEF Spec

\* The state is well typed, and a cursor points at a row of the latest page.
THEOREM PaginationTyped == Spec => []TypeOK
<1>1. Inv => TypeOK
  BY DEF Inv, Walk, TypeOK
<1> QED
  BY <1>1, WalkInv, PTL

\* No page returns a row at or before one that was returned earlier in the walk,
\* whatever rows come, move and go and however the limit changes.
THEOREM NoRowTwice == Spec => []PagesFollow
<1>1. Inv => PagesFollow
  BY DEF Inv
<1> QED
  BY <1>1, WalkInv, PTL

\* A row that nobody touches is never skipped: the walk has returned it as soon
\* as the cursor is past it, and at its end.
THEOREM NoRowSkipped == Spec => []SteadyRowsReturned
<1>1. Inv => SteadyRowsReturned
  BY DEF Inv
<1> QED
  BY <1>1, WalkInv, PTL

\* A cursor is accepted for its own list exactly while the secret that signed it
\* is configured, and for nothing else in any form.
THEOREM CursorsBound == Spec => []CursorsBind
<1>1. Inv => CursorsBind
  <2> SUFFICES ASSUME Inv, phase = "underway"
               PROVE  LET keys == Keys(config) IN
                      /\ Accepts(keys, list, "next", cursor)
                           <=> \E i \in 1..Len(keys) : keys[i] = cursor.signature.secret
                      /\ \A l \in Requests : Accepts(keys, l, "next", cursor) => SameList(l, list)
                      /\ ~Accepts(keys, list, "previous", cursor)
                      /\ \A token \in Altered(cursor) : ~Accepts(keys, list, "next", token)
    BY DEF CursorsBind
  <2> DEFINE k == cursor.signature.secret
             sort == cursor.payload.sort
             keys == Keys(config)
  <2>1. list \in Requests /\ cursor = Token(k, list, sort)
    BY DEF Inv, Walk
  <2> HIDE DEF k, sort, keys
  <2>2. Accepts(keys, list, "next", cursor) <=> \E i \in 1..Len(keys) : keys[i] = k
    BY <2>1, AcceptedForOwn
  <2>3. /\ \A l \in Requests : Accepts(keys, l, "next", cursor) => SameList(l, list)
        /\ ~Accepts(keys, list, "previous", cursor)
    BY <2>1, AcceptedOnlyForOwn
  <2>4. \A token \in Altered(cursor) : ~Accepts(keys, list, "next", token)
    BY <2>1, AlteredRefused
  <2> QED
    BY <2>2, <2>3, <2>4 DEF k, keys
<1> QED
  BY <1>1, WalkInv, PTL

=============================================================================
