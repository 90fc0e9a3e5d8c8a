---------------------- MODULE ProfileMembershipProofs ----------------------
(***************************************************************************)
(* Without reactivation, the locks and the checks at COMMIT do what they   *)
(* are for: one active profile per user and an owner in every active       *)
(* profile, for any profiles, users and transactions.  The argument: what  *)
(* a transaction has checked of its user and its profile stays true until  *)
(* it commits, for nobody else may change the memberships of either.       *)
(***************************************************************************)
EXTENDS ProfileMembership, FiniteSetTheorems, TLAPS

-----------------------------------------------------------------------------
(* The properties without counting                                         *)

Has(d, p, u) == \E m \in d.members : m.profile = p /\ m.user = u

Belongs(d, p, u) == d.status[p] = "active" /\ Has(d, p, u)

OneOf(d, u) == \A p, q \in Profiles : Belongs(d, p, u) /\ Belongs(d, q, u) => p = q

Owned(d, p) ==
  d.status[p] = "active" /\ MembersOf(d, p) # {} => \E m \in MembersOf(d, p) : m.role = "owner"

Database(d) ==
  /\ d = [type |-> d.type, status |-> d.status, members |-> d.members]
  /\ d.type \in [Profiles -> Types] /\ d.status \in [Profiles -> Statuses]
  /\ d.members \subseteq [profile : Profiles, user : Users, role : Roles]
  /\ IsFiniteSet(d.members)

\* Counting the active profiles of a user, of whom there are finitely many
\* memberships, says that there are no two.
LEMMA OneMeansOne ==
  ASSUME NEW d, IsFiniteSet(d.members), NEW u
  PROVE  AtMostOneActive(d, u) <=> OneOf(d, u)
<1> DEFINE S == ActiveProfiles(d, u)
<1>1. S \subseteq {m.profile : m \in d.members}
  BY DEF ActiveProfiles, Rows, MembersOf
<1>2. IsFiniteSet(S)
  <2>1. IsFiniteSet({m.profile : m \in d.members})
    <3> DEFINE T == {m.profile : m \in d.members}
               f == [m \in d.members |-> m.profile]
    <3>1. f \in Surjection(d.members, T)
      BY DEF Surjection
    <3> QED
      BY <3>1, FS_Surjection
  <2> QED
    BY <1>1, <2>1, FS_Subset
<1>3. \A p : p \in S <=> p \in Profiles /\ Belongs(d, p, u)
  BY DEF ActiveProfiles, Belongs, Has, Rows, MembersOf
<1>4. ASSUME Cardinality(S) <= 1, NEW p \in S, NEW q \in S PROVE p = q
  <2>1. {p, q} \subseteq S
    OBVIOUS
  <2>2. IsFiniteSet({p, q}) /\ Cardinality({p, q}) <= Cardinality(S)
    BY <2>1, <1>2, FS_Subset
  <2>3. CASE p # q
    <3>1. Cardinality({p} \cup {q}) = 2
      <4>1. IsFiniteSet({p}) /\ Cardinality({p}) = 1
        BY FS_Singleton
      <4>2. Cardinality({p} \cup {q}) = IF q \in {p} THEN Cardinality({p}) ELSE Cardinality({p}) + 1
        BY <4>1, FS_AddElement
      <4> QED
        BY <2>3, <4>1, <4>2
    <3>2. {p, q} = {p} \cup {q}
      OBVIOUS
    <3> QED
      BY <1>4, <2>2, <3>1, <3>2, <1>2, FS_CardinalityType
  <2> QED
    BY <2>3
<1>5. ASSUME \A p, q \in S : p = q PROVE Cardinality(S) <= 1
  <2>1. CASE S = {}
    BY <2>1, FS_EmptySet
  <2>2. CASE S # {}
    <3>1. PICK p \in S : S = {p}
      BY <1>5, <2>2
    <3> QED
      BY <3>1, FS_Singleton
  <2> QED
    BY <2>1, <2>2
<1> QED
  BY <1>3, <1>4, <1>5 DEF AtMostOneActive, OneOf

-----------------------------------------------------------------------------
(* What a call does to the memberships                                     *)

OfMembers(call) == OfMembership(call) \/ call.kind = "create"

LEMMA CallKinds ==
  ASSUME NEW call \in Calls, "reactivate" \notin Kinds
  PROVE  /\ call.kind \in {"add", "role", "remove", "create", "retype", "delete"}
         /\ call.profile \in Profiles
         /\ OfMembers(call) => call.user \in Users
         /\ call.kind \in {"add", "role"} => call.role \in Roles
         /\ call.kind \in {"create", "retype"} => call.type \in Types
BY DEF Calls, MemberCalls, CreateCalls, ProfileCalls, OfMembers, OfMembership

\* The parts of the database after a call.
LEMMA Applied ==
  ASSUME NEW call \in Calls, "reactivate" \notin Kinds, NEW d, Database(d)
  PROVE  LET e == Apply(call, d)
             rest == d.members \ Rows(d, call.profile, call.user)
         IN
         /\ e = [type |-> e.type, status |-> e.status, members |-> e.members]
         /\ e.type = IF call.kind \in {"create", "retype"}
                     THEN [d.type EXCEPT ![call.profile] = call.type] ELSE d.type
         /\ e.status = IF call.kind = "create" THEN [d.status EXCEPT ![call.profile] = "active"]
                       ELSE IF call.kind = "delete" THEN [d.status EXCEPT ![call.profile] = "deleted"]
                       ELSE d.status
         /\ call.kind = "add" => e.members = d.members \cup {Member(call)}
         /\ call.kind = "role" => e.members = rest \cup {Member(call)}
         /\ call.kind = "remove" => e.members = rest
         /\ call.kind = "create" => e.members = d.members \cup {Owner(call)}
         /\ call.kind \in {"retype", "delete"} => e.members = d.members
<1>1. CASE call.kind = "add"
  BY <1>1 DEF Apply, Database
<1>2. CASE call.kind = "role"
  BY <1>2 DEF Apply, Database
<1>3. CASE call.kind = "remove"
  BY <1>3 DEF Apply, Database
<1>4. CASE call.kind = "create"
  BY <1>4 DEF Apply, Database
<1>5. CASE call.kind = "retype"
  BY <1>5 DEF Apply, Database
<1>6. CASE call.kind = "delete"
  BY <1>6 DEF Apply, Database
<1> QED
  BY CallKinds, <1>1, <1>2, <1>3, <1>4, <1>5, <1>6

LEMMA ApplyTyped ==
  ASSUME NEW call \in Calls, "reactivate" \notin Kinds, NEW d, Database(d)
  PROVE  Database(Apply(call, d))
<1> DEFINE e == Apply(call, d)
           rest == d.members \ Rows(d, call.profile, call.user)
<1>1. IsFiniteSet(rest) /\ \A x : IsFiniteSet(rest \cup {x}) /\ IsFiniteSet(d.members \cup {x})
  <2>1. IsFiniteSet(d.members)
    BY DEF Database
  <2>2. IsFiniteSet(rest)
    BY <2>1, FS_Subset
  <2> QED
    BY <2>1, <2>2, FS_AddElement
<1>2. OfMembers(call) =>
        /\ Owner(call) \in [profile : Profiles, user : Users, role : Roles]
        /\ call.kind \in {"add", "role"} =>
             Member(call) \in [profile : Profiles, user : Users, role : Roles]
  BY CallKinds DEF Owner, Member, Roles
<1>3. IsFiniteSet(e.members) /\ e.members \subseteq [profile : Profiles, user : Users, role : Roles]
  <2> HIDE DEF e
  <2>1. e.members \in {d.members, rest} \/ \E x \in [profile : Profiles, user : Users, role : Roles] :
          e.members \in {rest \cup {x}, d.members \cup {x}}
    BY <1>2, Applied, CallKinds DEF OfMembers, OfMembership, e
  <2> QED
    BY <1>1, <2>1 DEF Database
<1>4. e.type \in [Profiles -> Types] /\ e.status \in [Profiles -> Statuses]
  <2>1. d.type \in [Profiles -> Types] /\ d.status \in [Profiles -> Statuses]
    BY DEF Database
  <2>2. e.type = d.type \/ (call.type \in Types /\ e.type = [d.type EXCEPT ![call.profile] = call.type])
    BY Applied, CallKinds
  <2>3. \/ e.status = d.status
        \/ \E x \in Statuses : e.status = [d.status EXCEPT ![call.profile] = x]
    BY Applied DEF Statuses
  <2> HIDE DEF e
  <2> QED
    BY <2>1, <2>2, <2>3
<1> QED
  BY <1>3, <1>4, Applied DEF Database

\* Who is a member, and which profile is active, after a call.
LEMMA MembersAfter ==
  ASSUME NEW call \in Calls, "reactivate" \notin Kinds, NEW d, Database(d), NEW p, NEW u
  PROVE  LET own == p = call.profile /\ u = call.user IN
         /\ call.kind \in {"add", "role", "create"} =>
              (Has(Apply(call, d), p, u) <=> Has(d, p, u) \/ own)
         /\ call.kind = "remove" => (Has(Apply(call, d), p, u) <=> Has(d, p, u) /\ ~own)
         /\ call.kind \in {"retype", "delete"} => (Has(Apply(call, d), p, u) <=> Has(d, p, u))
<1> DEFINE e == Apply(call, d)
           rest == d.members \ Rows(d, call.profile, call.user)
<1>1. Member(call).profile = call.profile /\ Member(call).user = call.user
  BY DEF Member
<1>2. Owner(call).profile = call.profile /\ Owner(call).user = call.user
  BY DEF Owner
<1>3. \A m : m \in rest <=> m \in d.members /\ ~(m.profile = call.profile /\ m.user = call.user)
  BY DEF Rows, MembersOf
<1> HIDE DEF rest
<1>4. CASE call.kind = "add"
  <2>1. e.members = d.members \cup {Member(call)}
    BY <1>4, Applied
  <2> QED
    BY <1>1, <1>4, <2>1 DEF Has
<1>5. CASE call.kind = "role"
  <2>1. e.members = rest \cup {Member(call)}
    BY <1>5, Applied DEF rest
  <2> QED
    BY <1>1, <1>3, <1>5, <2>1 DEF Has
<1>6. CASE call.kind = "remove"
  <2>1. e.members = rest
    BY <1>6, Applied DEF rest
  <2> QED
    BY <1>3, <1>6, <2>1 DEF Has
<1>7. CASE call.kind = "create"
  <2>1. e.members = d.members \cup {Owner(call)}
    BY <1>7, Applied
  <2> QED
    BY <1>2, <1>7, <2>1 DEF Has
<1>8. CASE call.kind \in {"retype", "delete"}
  <2>1. e.members = d.members
    BY <1>8, Applied
  <2> QED
    BY <1>8, <2>1 DEF Has
<1> QED
  BY CallKinds, <1>4, <1>5, <1>6, <1>7, <1>8

LEMMA ActiveAfter ==
  ASSUME NEW call \in Calls, "reactivate" \notin Kinds, NEW d, Database(d), NEW p \in Profiles
  PROVE  Apply(call, d).status[p] = "active"
           <=> \/ d.status[p] = "active" /\ ~(call.kind = "delete" /\ p = call.profile)
               \/ call.kind = "create" /\ p = call.profile
<1>1. d.status \in [Profiles -> Statuses] /\ call.profile \in Profiles
  BY CallKinds DEF Database
<1>2. CASE call.kind = "create"
  <2>1. Apply(call, d).status = [d.status EXCEPT ![call.profile] = "active"]
    BY <1>2, Applied
  <2> QED
    BY <1>1, <1>2, <2>1
<1>3. CASE call.kind = "delete"
  <2>1. Apply(call, d).status = [d.status EXCEPT ![call.profile] = "deleted"]
    BY <1>3, Applied
  <2> QED
    BY <1>1, <1>3, <2>1
<1>4. CASE call.kind \notin {"create", "delete"}
  <2>1. Apply(call, d).status = d.status
    BY <1>4, Applied
  <2> QED
    BY <1>4, <2>1
<1> QED
  BY <1>2, <1>3, <1>4

\* A call changes the status of its own profile only, and to none but these.
LEMMA StatusAfter ==
  ASSUME NEW call \in Calls, "reactivate" \notin Kinds, NEW d, Database(d), NEW p \in Profiles
  PROVE  LET status == Apply(call, d).status IN
         /\ p # call.profile => status[p] = d.status[p]
         /\ status[p] = d.status[p] \/ status[p] = "active" \/ status[p] = "deleted"
<1>1. d.status \in [Profiles -> Statuses] /\ call.profile \in Profiles
  BY CallKinds DEF Database
<1>2. Apply(call, d).status = d.status
      \/ \E x \in {"active", "deleted"} : Apply(call, d).status = [d.status EXCEPT ![call.profile] = x]
  BY Applied
<1> QED
  BY <1>1, <1>2

\* Nobody new belongs to a profile after a call, but for its own user in its own
\* profile.
LEMMA NewlyBelongs ==
  ASSUME NEW call \in Calls, "reactivate" \notin Kinds, NEW d, Database(d),
         call.kind = "create" => \A u \in Users : ~Has(d, call.profile, u),
         NEW p \in Profiles, NEW u \in Users, Belongs(Apply(call, d), p, u)
  PROVE  \/ Belongs(d, p, u)
         \/ OfMembers(call) /\ p = call.profile /\ u = call.user
BY MembersAfter, ActiveAfter, CallKinds DEF Belongs, OfMembers, OfMembership

\* The fewer profiles the user belonged to, the fewer after the call.
LEMMA FewerBelong ==
  ASSUME NEW call \in Calls, "reactivate" \notin Kinds, OfMembers(call),
         NEW d, Database(d), NEW e, Database(e),
         \A p \in Profiles : Belongs(e, p, call.user) => Belongs(d, p, call.user),
         e.status[call.profile] = "active" => d.status[call.profile] = "active",
         OneOf(Apply(call, d), call.user)
  PROVE  OneOf(Apply(call, e), call.user)
<1> SUFFICES ASSUME NEW p \in Profiles, Belongs(Apply(call, e), p, call.user)
             PROVE  Belongs(Apply(call, d), p, call.user)
  BY DEF OneOf
<1> QED
  BY MembersAfter, ActiveAfter, CallKinds DEF Belongs, OfMembers, OfMembership

\* The members of a profile after a call follow from those before it, and are
\* the same unless the call is about them.
LEMMA MembersOfAfter ==
  ASSUME NEW call \in Calls, "reactivate" \notin Kinds, NEW d, Database(d), NEW p
  PROVE  LET own == MembersOf(d, call.profile)
             after == MembersOf(Apply(call, d), call.profile)
             rest == {m \in own : m.user # call.user}
         IN
         /\ p # call.profile \/ ~OfMembers(call) => MembersOf(Apply(call, d), p) = MembersOf(d, p)
         /\ call.kind = "add" => after = own \cup {Member(call)}
         /\ call.kind = "role" => after = rest \cup {Member(call)}
         /\ call.kind = "remove" => after = rest
         /\ call.kind = "create" => after = own \cup {Owner(call)}
<1> DEFINE e == Apply(call, d)
           gone == Rows(d, call.profile, call.user)
<1>1. Member(call).profile = call.profile /\ Owner(call).profile = call.profile
  BY DEF Member, Owner
<1>2. \A m : m \in gone <=> m \in d.members /\ m.profile = call.profile /\ m.user = call.user
  BY DEF Rows, MembersOf
<1> HIDE DEF gone
<1>3. CASE call.kind = "add"
  <2>1. e.members = d.members \cup {Member(call)}
    BY <1>3, Applied
  <2> QED
    BY <1>1, <1>3, <2>1 DEF MembersOf, OfMembers, OfMembership
<1>4. CASE call.kind = "role"
  <2>1. e.members = (d.members \ gone) \cup {Member(call)}
    BY <1>4, Applied DEF gone
  <2> QED
    BY <1>1, <1>2, <1>4, <2>1 DEF MembersOf, OfMembers, OfMembership
<1>5. CASE call.kind = "remove"
  <2>1. e.members = d.members \ gone
    BY <1>5, Applied DEF gone
  <2> QED
    BY <1>2, <1>5, <2>1 DEF MembersOf, OfMembers, OfMembership
<1>6. CASE call.kind = "create"
  <2>1. e.members = d.members \cup {Owner(call)}
    BY <1>6, Applied
  <2> QED
    BY <1>1, <1>6, <2>1 DEF MembersOf, OfMembers
<1>7. CASE call.kind \in {"retype", "delete"}
  <2>1. e.members = d.members
    BY <1>7, Applied
  <2> QED
    BY <1>7, <2>1 DEF MembersOf
<1> QED
  BY CallKinds, <1>3, <1>4, <1>5, <1>6, <1>7

\* A profile's owner after a call does not depend on other profiles, and not on
\* how long the profile is active.
LEMMA OwnerStays ==
  ASSUME NEW call \in Calls, "reactivate" \notin Kinds, OfMembers(call),
         NEW d, Database(d), NEW e, Database(e),
         MembersOf(e, call.profile) = MembersOf(d, call.profile),
         e.status[call.profile] = "active" => d.status[call.profile] = "active",
         Owned(Apply(call, d), call.profile)
  PROVE  Owned(Apply(call, e), call.profile)
<1>1. MembersOf(Apply(call, e), call.profile) = MembersOf(Apply(call, d), call.profile)
  BY MembersOfAfter DEF OfMembers, OfMembership
<1>2. Apply(call, e).status[call.profile] = "active" => Apply(call, d).status[call.profile] = "active"
  BY ActiveAfter, CallKinds
<1> QED
  BY <1>1, <1>2 DEF Owned

\* A call about other members, or about none, leaves a profile its owner.
LEMMA OwnerLeft ==
  ASSUME NEW call \in Calls, "reactivate" \notin Kinds, NEW d, Database(d), NEW p \in Profiles,
         p # call.profile \/ ~OfMembers(call), Owned(d, p)
  PROVE  Owned(Apply(call, d), p)
<1>1. MembersOf(Apply(call, d), p) = MembersOf(d, p)
  BY MembersOfAfter
<1>2. Apply(call, d).status[p] = "active" => d.status[p] = "active"
  BY ActiveAfter DEF OfMembers
<1> QED
  BY <1>1, <1>2 DEF Owned

-----------------------------------------------------------------------------
(* The invariant                                                           *)

Places == {"idle", "begun", "locked", "authorized", "written", "checked", "checking"}

\* What holds of a transaction under way: the id of a profile it creates is
\* nobody else's, it has the locks it took, a membership it adds is still
\* missing, and what it has checked is still so.
Sound(t) ==
  LET call == tx[t].call
      pc == tx[t].pc
  IN
  /\ call \in Calls
  /\ IF call.kind = "create"
     THEN /\ db.status[call.profile] = "absent"
          /\ \A s \in Transactions \ {t} : tx[s].pc # "idle" => tx[s].call.profile # call.profile
     ELSE db.status[call.profile] # "absent"
  /\ OfMembership(call) /\ pc # "begun" => locks.profile[call.profile] = t
  /\ OfMembers(call) /\ pc \in {"written", "checked"} =>
       locks.profile[call.profile] = t /\ locks.user[call.user] = t
  /\ OfMembers(call) => pc # "checking"
  /\ call.kind = "add" /\ pc \notin {"begun", "locked"} => ~Has(db, call.profile, call.user)
  /\ OfMembers(call) /\ pc = "checked" =>
       OneOf(View(t), call.user) /\ Owned(View(t), call.profile)

Transaction == [pc : Places, call : Calls \cup {Idle.call}, todo : SUBSET Users]

LocksTyped ==
  /\ locks = [profile |-> locks.profile, user |-> locks.user, row |-> locks.row]
  /\ locks.profile \in [Profiles -> Transactions \cup {Free}]
  /\ locks.row \in [Profiles -> Transactions \cup {Free}]
  /\ locks.user \in [Users -> Transactions \cup {Free}]

Memberships ==
  /\ \A m, n \in db.members : m.profile = n.profile /\ m.user = n.user => m = n
  /\ \A p \in Profiles, u \in Users : db.status[p] = "absent" => ~Has(db, p, u)

Inv ==
  /\ Database(db) /\ Memberships /\ LocksTyped
  /\ tx \in [Transactions -> Transaction]
  /\ \A t \in Transactions : tx[t].pc # "idle" => Sound(t)
  /\ \A u \in Users : OneOf(db, u)
  /\ \A p \in Profiles : Owned(db, p)

LEMMA InitInv == Init => Inv
<1> SUFFICES ASSUME Init PROVE Inv
  OBVIOUS
<1>1. Database(db)
  BY FS_EmptySet DEF Init, Database, Types, Statuses
<1>2. Memberships
  BY DEF Init, Memberships, Has
<1>3. LocksTyped
  BY DEF Init, LocksTyped
<1>4. tx \in [Transactions -> Transaction] /\ \A t \in Transactions : tx[t].pc = "idle"
  BY DEF Init, Idle, Transaction, Places
<1>5. (\A u \in Users : OneOf(db, u)) /\ \A p \in Profiles : Owned(db, p)
  BY DEF Init, OneOf, Belongs, Has, Owned, MembersOf
<1> QED
  BY <1>1, <1>2, <1>3, <1>4, <1>5 DEF Inv

-----------------------------------------------------------------------------
(* Steps before the commit                                                 *)

\* A step of t that changes no rows and takes nobody's lock keeps the invariant
\* when it leaves t sound.
LEMMA LocalKeeps ==
  ASSUME Inv, NEW t \in Transactions, db' = db, LocksTyped', tx' \in [Transactions -> Transaction],
         \A s \in Transactions \ {t} : tx'[s] = tx[s],
         \A s \in Transactions \ {t}, p \in Profiles : locks.profile[p] = s => locks'.profile[p] = s,
         \A s \in Transactions \ {t}, u \in Users : locks.user[u] = s => locks'.user[u] = s,
         tx'[t].pc # "idle" =>
           /\ Sound(t)'
           /\ \/ tx[t].pc # "idle" /\ tx[t].call = tx'[t].call
              \/ \A s \in Transactions : tx[s].pc # "idle" /\ tx[s].call.kind = "create" =>
                   tx[s].call.profile # tx'[t].call.profile,
         "reactivate" \notin Kinds
  PROVE  Inv'
<1>1. ASSUME NEW s \in Transactions \ {t}, tx'[s].pc # "idle" PROVE Sound(s)'
  <2> DEFINE call == tx[s].call
  <2>1. tx'[s] = tx[s] /\ Sound(s) /\ call \in Calls
    BY <1>1 DEF Inv, Sound
  <2>2. call.profile \in Profiles /\ (OfMembers(call) => call.user \in Users)
    BY <2>1, CallKinds
  <2>3. View(s)' = View(s)
    BY <2>1 DEF View
  <2>4. ASSUME call.kind = "create", NEW r \in Transactions \ {s}, tx'[r].pc # "idle"
        PROVE  tx'[r].call.profile # call.profile
    <3>1. CASE r # t
      BY <2>1, <2>4, <3>1 DEF Sound
    <3>2. CASE r = t
      BY <1>1, <2>1, <2>4, <3>2 DEF Sound
    <3> QED
      BY <3>1, <3>2
  <2>5. OfMembership(call) => OfMembers(call)
    BY DEF OfMembers
  <2>6. /\ call \in Calls
        /\ call.kind = "create" => db'.status[call.profile] = "absent"
        /\ call.kind # "create" => db'.status[call.profile] # "absent"
        /\ OfMembers(call) => tx'[s].pc # "checking"
        /\ call.kind = "add" /\ tx'[s].pc \notin {"begun", "locked"} =>
             ~Has(db', call.profile, call.user)
        /\ OfMembers(call) /\ tx'[s].pc = "checked" =>
             OneOf(View(s)', call.user) /\ Owned(View(s)', call.profile)
    BY <2>1, <2>3 DEF Sound
  <2>7. /\ OfMembership(call) /\ tx'[s].pc # "begun" => locks'.profile[call.profile] = s
        /\ OfMembers(call) /\ tx'[s].pc \in {"written", "checked"} =>
             locks'.profile[call.profile] = s /\ locks'.user[call.user] = s
    BY <2>1, <2>2, <2>5 DEF Sound
  <2> QED
    BY <2>1, <2>4, <2>6, <2>7 DEF Sound, Has, OneOf, Belongs, Owned, MembersOf
<1>2. Database(db)' /\ Memberships'
  BY DEF Inv, Database, Memberships, Has
<1>3. (\A u \in Users : OneOf(db, u)') /\ \A p \in Profiles : Owned(db, p)'
  BY DEF Inv, OneOf, Belongs, Has, Owned, MembersOf
<1> QED
  BY <1>1, <1>2, <1>3 DEF Inv

LEMMA BeginInv ==
  ASSUME Inv, "reactivate" \notin Kinds, NEW t \in Transactions, NEW call \in Calls, Begin(t, call)
  PROVE  Inv'
<1>1. tx \in [Transactions -> Transaction]
  BY DEF Inv
<1>2. /\ [Idle EXCEPT !.pc = "begun", !.call = call] \in Transaction
      /\ [Idle EXCEPT !.pc = "begun", !.call = call].pc = "begun"
      /\ [Idle EXCEPT !.pc = "begun", !.call = call].call = call
  <2>1. Idle \in Transaction
    BY DEF Idle, Transaction, Places
  <2> QED
    BY <2>1 DEF Transaction, Places
<1>3. tx' \in [Transactions -> Transaction] /\ tx'[t].pc = "begun" /\ tx'[t].call = call
      /\ \A s \in Transactions \ {t} : tx'[s] = tx[s]
  BY <1>1, <1>2 DEF Begin
<1>4. db' = db /\ locks' = locks /\ LocksTyped'
  BY DEF Begin, Inv, LocksTyped
<1>5. \A s \in Transactions : tx[s].pc # "idle" /\ tx[s].call.kind = "create" =>
        tx[s].call.profile # call.profile
  BY DEF Begin, Fresh, Inv, Sound
<1>6. Sound(t)'
  BY <1>3, <1>4 DEF Begin, Fresh, Sound
<1> QED
  BY <1>3, <1>4, <1>5, <1>6, LocalKeeps

LEMMA LockProfileInv ==
  ASSUME Inv, "reactivate" \notin Kinds, NEW t \in Transactions, LockProfile(t)
  PROVE  Inv'
<1> DEFINE p == tx[t].call.profile
<1>1. tx \in [Transactions -> Transaction] /\ Sound(t) /\ LocksTyped
  BY DEF Inv, LockProfile
<1>2. p \in Profiles
  BY <1>1, CallKinds DEF Sound
<1>3. tx' = [tx EXCEPT ![t].pc = "locked"] /\ db' = db
  BY DEF LockProfile, Goto
<1>4. tx' \in [Transactions -> Transaction] /\ tx'[t].pc = "locked" /\ tx'[t].call = tx[t].call
      /\ \A s \in Transactions \ {t} : tx'[s] = tx[s]
  BY <1>1, <1>3 DEF Transaction, Places
<1>5. locks' = [locks EXCEPT !.profile[p] = t] /\ locks.profile[p] \in {Free, t}
  BY DEF LockProfile, Available
<1>6. LocksTyped' /\ locks'.user = locks.user /\ locks'.profile = [locks.profile EXCEPT ![p] = t]
  BY <1>1, <1>2, <1>5 DEF LocksTyped
<1>7. \A s \in Transactions \ {t}, q \in Profiles : locks.profile[q] = s => locks'.profile[q] = s
  BY <1>1, <1>5, <1>6, FreeAssumption DEF LocksTyped
<1>8. Sound(t)'
  <2>1. locks'.profile[p] = t
    BY <1>1, <1>2, <1>6 DEF LocksTyped
  <2> QED
    BY <1>1, <1>3, <1>4, <2>1 DEF Sound, LockProfile
<1>9. tx[t].pc # "idle"
  BY DEF LockProfile
<1> QED
  BY <1>3, <1>4, <1>6, <1>7, <1>8, <1>9, LocalKeeps

LEMMA AuthorizeInv ==
  ASSUME Inv, "reactivate" \notin Kinds, NEW t \in Transactions, Authorize(t)
  PROVE  Inv'
<1>1. tx[t].pc \in {"locked", "begun"} /\ (OfMembership(tx[t].call) => tx[t].pc = "locked")
  BY DEF Authorize
<1>2. tx \in [Transactions -> Transaction] /\ Sound(t) /\ LocksTyped
  BY <1>1 DEF Inv
<1>3. tx' = [tx EXCEPT ![t].pc = "authorized"] /\ db' = db /\ locks' = locks
  BY DEF Authorize, Goto
<1>4. tx' \in [Transactions -> Transaction] /\ tx'[t].pc = "authorized" /\ tx'[t].call = tx[t].call
      /\ \A s \in Transactions \ {t} : tx'[s] = tx[s]
  BY <1>2, <1>3 DEF Transaction, Places
<1>5. tx[t].call.kind = "add" => ~Has(db, tx[t].call.profile, tx[t].call.user)
  BY DEF Authorize, Authorized, Has, Rows, MembersOf
<1>6. Sound(t)'
  BY <1>1, <1>2, <1>3, <1>4, <1>5 DEF Sound, Has
<1>7. LocksTyped'
  BY <1>2, <1>3 DEF LocksTyped
<1> QED
  BY <1>1, <1>3, <1>4, <1>6, <1>7, LocalKeeps

LEMMA WriteMemberInv ==
  ASSUME Inv, "reactivate" \notin Kinds, NEW t \in Transactions, WriteMember(t)
  PROVE  Inv'
<1> DEFINE call == tx[t].call
           p == call.profile
           u == call.user
<1>1. tx[t].pc = "authorized" /\ OfMembers(call)
  BY DEF WriteMember, OfMembers
<1>2. tx \in [Transactions -> Transaction] /\ Sound(t) /\ LocksTyped
  BY <1>1 DEF Inv
<1>3. p \in Profiles /\ u \in Users
  BY <1>1, <1>2, CallKinds DEF Sound
<1>4. tx' = [tx EXCEPT ![t].pc = "written"] /\ db' = db
  BY DEF WriteMember
<1>5. tx' \in [Transactions -> Transaction] /\ tx'[t].pc = "written" /\ tx'[t].call = call
      /\ \A s \in Transactions \ {t} : tx'[s] = tx[s]
  BY <1>2, <1>4 DEF Transaction, Places
<1>6. /\ locks' = [locks EXCEPT !.profile[p] = t, !.user[u] = t]
      /\ locks.profile[p] \in {Free, t} /\ locks.user[u] \in {Free, t}
  BY DEF WriteMember, Available, UserAvailable
<1>7. LocksTyped' /\ locks'.user = [locks.user EXCEPT ![u] = t]
      /\ locks'.profile = [locks.profile EXCEPT ![p] = t]
  BY <1>2, <1>3, <1>6 DEF LocksTyped
<1>8. \A s \in Transactions \ {t}, q \in Profiles : locks.profile[q] = s => locks'.profile[q] = s
  BY <1>2, <1>6, <1>7, FreeAssumption DEF LocksTyped
<1>9. \A s \in Transactions \ {t}, v \in Users : locks.user[v] = s => locks'.user[v] = s
  BY <1>2, <1>6, <1>7, FreeAssumption DEF LocksTyped
<1>10. Sound(t)'
  <2>1. locks'.profile[p] = t /\ locks'.user[u] = t
    BY <1>2, <1>3, <1>7 DEF LocksTyped
  <2> QED
    BY <1>1, <1>2, <1>4, <1>5, <2>1 DEF Sound, Has
<1> QED
  BY <1>1, <1>4, <1>5, <1>7, <1>8, <1>9, <1>10, LocalKeeps

LEMMA WriteProfileInv ==
  ASSUME Inv, "reactivate" \notin Kinds, NEW t \in Transactions, WriteProfile(t)
  PROVE  Inv'
<1>1. tx[t].pc = "authorized" /\ ~OfMembers(tx[t].call)
  BY DEF WriteProfile, OfMembers
<1>2. tx \in [Transactions -> Transaction] /\ Sound(t) /\ LocksTyped
  BY <1>1 DEF Inv
<1>3. tx[t].call.profile \in Profiles
  BY <1>2, CallKinds DEF Sound
<1>4. tx' = [tx EXCEPT ![t].pc = "written"] /\ db' = db
      /\ locks' = [locks EXCEPT !.row[tx[t].call.profile] = t]
  BY DEF WriteProfile
<1>5. tx' \in [Transactions -> Transaction] /\ tx'[t].pc = "written" /\ tx'[t].call = tx[t].call
      /\ \A s \in Transactions \ {t} : tx'[s] = tx[s]
  BY <1>2, <1>4 DEF Transaction, Places
<1>6. LocksTyped' /\ locks'.user = locks.user /\ locks'.profile = locks.profile
  BY <1>2, <1>3, <1>4 DEF LocksTyped
<1>7. Sound(t)'
  BY <1>1, <1>2, <1>4, <1>5 DEF Sound, OfMembers, OfMembership
<1> QED
  BY <1>1, <1>4, <1>5, <1>6, <1>7, LocalKeeps

LEMMA CheckInv ==
  ASSUME Inv, "reactivate" \notin Kinds, NEW t \in Transactions, Check(t)
  PROVE  Inv'
<1> DEFINE call == tx[t].call
<1>1. tx \in [Transactions -> Transaction] /\ tx[t].pc = "written" /\ Sound(t) /\ LocksTyped
  BY DEF Check, Inv
<1>2. call \in Calls /\ Database(db)
  BY <1>1 DEF Sound, Inv
<1>3. Database(View(t))
  BY <1>2, ApplyTyped DEF View
<1>4. db' = db /\ locks' = locks /\ LocksTyped'
  BY <1>1 DEF Check, LocksTyped
<1>5. CASE OfMembers(call)
  <2>1. AtMostOneActive(View(t), call.user) /\ WellOwned(View(t), call.profile)
        /\ tx' = [tx EXCEPT ![t].pc = "checked"]
    BY <1>5 DEF Check, OfMembers, Goto
  <2>2. OneOf(View(t), call.user)
    BY <1>3, <2>1, OneMeansOne DEF Database
  <2>3. Owned(View(t), call.profile)
    BY <2>1 DEF WellOwned, Owners, Owned
  <2>4. tx' \in [Transactions -> Transaction] /\ tx'[t].pc = "checked" /\ tx'[t].call = call
        /\ \A s \in Transactions \ {t} : tx'[s] = tx[s]
    BY <1>1, <2>1 DEF Transaction, Places
  <2>5. View(t)' = View(t)
    BY <1>4, <2>4 DEF View
  <2>6. Sound(t)'
    BY <1>1, <1>4, <2>2, <2>3, <2>4, <2>5 DEF Sound, Has, OneOf, Belongs, Owned, MembersOf
  <2> QED
    BY <1>1, <1>4, <2>4, <2>6, LocalKeeps
<1>6. CASE ~OfMembers(call)
  <2>1. \/ tx' = [tx EXCEPT ![t].pc = "checked"]
        \/ tx' = [tx EXCEPT ![t].pc = "checking", ![t].todo = MembersToCheck(call, View(t))]
    BY <1>6 DEF Check, OfMembers, Goto
  <2>2. MembersToCheck(call, View(t)) \subseteq Users
    BY <1>3 DEF MembersToCheck, MembersOf, Database
  <2>3. tx' \in [Transactions -> Transaction] /\ tx'[t].pc \in {"checked", "checking"}
        /\ tx'[t].call = call /\ \A s \in Transactions \ {t} : tx'[s] = tx[s]
    BY <1>1, <2>1, <2>2 DEF Transaction, Places
  <2>4. Sound(t)'
    BY <1>1, <1>4, <1>6, <2>3 DEF Sound, OfMembers, OfMembership
  <2> QED
    BY <1>1, <1>4, <2>3, <2>4, LocalKeeps
<1> QED
  BY <1>5, <1>6

LEMMA CheckMemberInv ==
  ASSUME Inv, "reactivate" \notin Kinds, NEW t \in Transactions, CheckMember(t)
  PROVE  Inv'
<1> DEFINE u == Min(tx[t].todo)
<1>1. tx \in [Transactions -> Transaction] /\ tx[t].pc = "checking" /\ Sound(t) /\ LocksTyped
  BY DEF CheckMember, Inv
<1>2. /\ db' = db /\ tx' = [tx EXCEPT ![t].todo = @ \ {u}]
      /\ locks' = [locks EXCEPT !.user[u] = t] /\ locks.user[u] \in {Free, t}
  BY DEF CheckMember, UserAvailable, Available
<1> HIDE DEF u
<1>3. tx' \in [Transactions -> Transaction] /\ tx'[t].pc = "checking" /\ tx'[t].call = tx[t].call
      /\ \A s \in Transactions \ {t} : tx'[s] = tx[s]
  BY <1>1, <1>2 DEF Transaction
<1>4. LocksTyped' /\ locks'.profile = locks.profile /\ locks'.user = [locks.user EXCEPT ![u] = t]
  BY <1>1, <1>2 DEF LocksTyped
<1>5. \A s \in Transactions \ {t}, v \in Users : locks.user[v] = s => locks'.user[v] = s
  BY <1>1, <1>2, <1>4, FreeAssumption DEF LocksTyped
<1>6. Sound(t)'
  BY <1>1, <1>2, <1>3 DEF Sound, OfMembers, OfMembership
<1> QED
  BY <1>1, <1>2, <1>3, <1>4, <1>5, <1>6, LocalKeeps

\* The locks of the others stay when t gives up its own.
LEMMA ReleasedLocks ==
  ASSUME LocksTyped, NEW t \in Transactions, locks' = Released(t)
  PROVE  /\ LocksTyped'
         /\ \A s \in Transactions \ {t} :
              /\ \A p \in Profiles : locks.profile[p] = s => locks'.profile[p] = s
              /\ \A u \in Users : locks.user[u] = s => locks'.user[u] = s
BY DEF LocksTyped, Released

LEMMA RollbackInv ==
  ASSUME Inv, "reactivate" \notin Kinds, NEW t \in Transactions, Rollback(t)
  PROVE  Inv'
<1>1. tx \in [Transactions -> Transaction] /\ LocksTyped
  BY DEF Inv
<1>2. db' = db /\ locks' = Released(t) /\ tx' = [tx EXCEPT ![t] = Idle]
  BY DEF Rollback
<1>3. Idle \in Transaction /\ Idle.pc = "idle"
  BY DEF Idle, Transaction, Places
<1>4. tx' \in [Transactions -> Transaction] /\ tx'[t].pc = "idle"
      /\ \A s \in Transactions \ {t} : tx'[s] = tx[s]
  BY <1>1, <1>2, <1>3
<1> QED
  BY <1>1, <1>2, <1>4, ReleasedLocks, LocalKeeps

-----------------------------------------------------------------------------
(* The commit                                                              *)

\* The rows after the commit of t, seen by a transaction s that has locks of its
\* own: nothing that s relies on has grown.
LEMMA OthersStaySound ==
  ASSUME Inv, "reactivate" \notin Kinds, NEW t \in Transactions, Commit(t),
         NEW s \in Transactions \ {t}, tx[s].pc # "idle"
  PROVE  Sound(s)'
<1> DEFINE done == tx[t].call
           call == tx[s].call
           p == call.profile
           u == call.user
<1>1. Sound(t) /\ Sound(s) /\ tx[t].pc \in {"checked", "checking"} /\ LocksTyped /\ Database(db)
      /\ tx \in [Transactions -> Transaction]
  BY DEF Inv, Commit, CheckedAll
<1>2. done \in Calls /\ call \in Calls
  BY <1>1 DEF Sound
<1>3. done.profile \in Profiles /\ p \in Profiles /\ (OfMembers(call) => u \in Users)
  BY <1>2, CallKinds
<1>4. db' = Apply(done, db) /\ Database(db)'
  BY <1>1, <1>2, ApplyTyped DEF Commit, View, Database
<1>5. tx'[s] = tx[s] /\ tx' = [tx EXCEPT ![t] = Idle] /\ Idle.pc = "idle"
  BY <1>1 DEF Commit, Idle
<1>6. /\ \A q \in Profiles : locks.profile[q] = s => locks'.profile[q] = s
      /\ \A v \in Users : locks.user[v] = s => locks'.user[v] = s
  BY <1>1, ReleasedLocks DEF Commit
<1>7. done.kind = "create" => done.profile # p
  BY <1>1 DEF Sound
<1>8. db'.status[p] = "active" => db.status[p] = "active"
  BY <1>1, <1>2, <1>3, <1>4, <1>7, ActiveAfter
<1>9. OfMembers(done) =>
        /\ locks.profile[done.profile] = t /\ locks.user[done.user] = t /\ tx[t].pc = "checked"
  BY <1>1 DEF Sound
<1>10. \A v \in Users : done.kind = "create" => ~Has(db, done.profile, v)
  BY <1>1, <1>3 DEF Inv, Memberships, Sound
<1>11. IF call.kind = "create"
       THEN /\ db'.status[p] = "absent"
            /\ \A r \in Transactions \ {s} : tx'[r].pc # "idle" => tx'[r].call.profile # p
       ELSE db'.status[p] # "absent"
  <2>1. db.status \in [Profiles -> Statuses] /\ db'.status \in [Profiles -> Statuses]
    BY <1>1, <1>4 DEF Database
  <2>2. CASE call.kind = "create"
    <3>1. done.profile # p /\ db.status[p] = "absent"
      BY <1>1, <2>2 DEF Sound
    <3>2. db'.status[p] = db.status[p]
      BY <1>1, <1>2, <1>3, <1>4, <3>1, StatusAfter
    <3> QED
      BY <1>1, <1>5, <2>2, <3>1, <3>2 DEF Sound
  <2>3. CASE call.kind # "create"
    <3>1. db.status[p] # "absent"
      BY <1>1, <2>3 DEF Sound
    <3>2. db'.status[p] = db.status[p] \/ db'.status[p] = "active" \/ db'.status[p] = "deleted"
      BY <1>1, <1>2, <1>3, <1>4, StatusAfter
    <3> QED
      BY <2>3, <3>1, <3>2
  <2> QED
    BY <2>2, <2>3
<1>12. ASSUME call.kind = "add", tx[s].pc \notin {"begun", "locked"} PROVE ~Has(db', p, u)
  <2>1. ~Has(db, p, u) /\ locks.profile[p] = s
    BY <1>1, <1>5, <1>12 DEF Sound, OfMembership
  <2>2. OfMembers(done) => done.profile # p
    BY <1>9, <2>1
  <2> QED
    BY <1>1, <1>2, <1>4, <2>1, <2>2, MembersAfter, CallKinds DEF OfMembers, OfMembership
<1>13. ASSUME OfMembers(call), tx[s].pc = "checked"
       PROVE  OneOf(View(s)', u) /\ Owned(View(s)', p)
  <2>1. OneOf(Apply(call, db), u) /\ Owned(Apply(call, db), p)
        /\ locks.profile[p] = s /\ locks.user[u] = s
    BY <1>1, <1>13 DEF Sound, View
  <2>2. OfMembers(done) => done.profile # p /\ done.user # u
    BY <1>9, <2>1
  <2>3. \A q \in Profiles : Belongs(db', q, u) => Belongs(db, q, u)
    BY <1>1, <1>2, <1>3, <1>4, <1>10, <1>13, <2>2, NewlyBelongs
  <2>4. MembersOf(db', p) = MembersOf(db, p)
    BY <1>1, <1>2, <1>4, <2>2, MembersOfAfter
  <2>5. OneOf(Apply(call, db'), u)
    BY <1>1, <1>2, <1>4, <1>8, <1>13, <2>1, <2>3, FewerBelong
  <2>6. Owned(Apply(call, db'), p)
    BY <1>1, <1>2, <1>4, <1>8, <1>13, <2>1, <2>4, OwnerStays
  <2>7. View(s)' = Apply(call, db')
    BY <1>5 DEF View
  <2> QED
    BY <2>5, <2>6, <2>7
<1>14. /\ OfMembership(call) /\ tx[s].pc # "begun" => locks'.profile[p] = s
       /\ OfMembers(call) /\ tx[s].pc \in {"written", "checked"} =>
            locks'.profile[p] = s /\ locks'.user[u] = s
       /\ OfMembers(call) => tx[s].pc # "checking"
  BY <1>1, <1>3, <1>6 DEF Sound, OfMembers
<1> QED
  BY <1>2, <1>5, <1>11, <1>12, <1>13, <1>14 DEF Sound, Has, OneOf, Belongs, Owned, MembersOf

\* A user has one membership in a profile, and none in one that does not exist.
LEMMA CommitMemberships ==
  ASSUME Inv, "reactivate" \notin Kinds, NEW t \in Transactions, Commit(t)
  PROVE  Memberships'
<1> DEFINE done == tx[t].call
           rest == db.members \ Rows(db, done.profile, done.user)
<1>1. Sound(t) /\ tx[t].pc \in {"checked", "checking"} /\ Database(db) /\ Memberships
  BY DEF Inv, Commit, CheckedAll
<1>2. done \in Calls /\ done.profile \in Profiles /\ (OfMembers(done) => done.user \in Users)
      /\ done.kind \in {"add", "role", "remove", "create", "retype", "delete"}
  BY <1>1, CallKinds DEF Sound
<1>3. db' = Apply(done, db)
  BY DEF Commit, View
<1>4. ASSUME NEW p \in Profiles, NEW u \in Users, db'.status[p] = "absent" PROVE ~Has(db', p, u)
  <2>1. db.status[p] = "absent"
    BY <1>1, <1>2, <1>3, <1>4, StatusAfter
  <2>2. ~Has(db, p, u)
    BY <1>1, <2>1 DEF Memberships
  <2>3. p = done.profile => done.kind = "create"
    BY <1>1, <2>1 DEF Sound
  <2>4. p = done.profile => done.kind # "create"
    BY <1>1, <1>2, <1>3, <1>4, ActiveAfter
  <2> QED
    BY <1>1, <1>2, <1>3, <2>2, <2>3, <2>4, MembersAfter
<1>5. \A m, n \in rest : m.profile = n.profile /\ m.user = n.user => m = n
  BY <1>1 DEF Memberships
<1>6. \A m \in rest : ~(m.profile = done.profile /\ m.user = done.user)
  BY DEF Rows, MembersOf
<1>7. Member(done).profile = done.profile /\ Member(done).user = done.user
      /\ Owner(done).profile = done.profile /\ Owner(done).user = done.user
  BY DEF Member, Owner
<1>8. done.kind \in {"add", "create"} => ~Has(db, done.profile, done.user)
  BY <1>1, <1>2 DEF Sound, Memberships, OfMembers, OfMembership
<1> HIDE DEF rest
<1>9. \A m, n \in db'.members : m.profile = n.profile /\ m.user = n.user => m = n
  <2>1. CASE done.kind = "add"
    <3>1. db'.members = db.members \cup {Member(done)}
      BY <1>1, <1>2, <1>3, <2>1, Applied
    <3> QED
      BY <1>1, <1>7, <1>8, <2>1, <3>1 DEF Has, Memberships
  <2>2. CASE done.kind = "role"
    <3>1. db'.members = rest \cup {Member(done)}
      BY <1>1, <1>2, <1>3, <2>2, Applied DEF rest
    <3> QED
      BY <1>5, <1>6, <1>7, <3>1
  <2>3. CASE done.kind = "remove"
    <3>1. db'.members = rest
      BY <1>1, <1>2, <1>3, <2>3, Applied DEF rest
    <3> QED
      BY <1>5, <3>1
  <2>4. CASE done.kind = "create"
    <3>1. db'.members = db.members \cup {Owner(done)}
      BY <1>1, <1>2, <1>3, <2>4, Applied
    <3> QED
      BY <1>1, <1>7, <1>8, <2>4, <3>1 DEF Has, Memberships
  <2>5. CASE done.kind \in {"retype", "delete"}
    <3>1. db'.members = db.members
      BY <1>1, <1>2, <1>3, <2>5, Applied
    <3> QED
      BY <1>1, <3>1 DEF Memberships
  <2> QED
    BY <1>2, <2>1, <2>2, <2>3, <2>4, <2>5
<1> QED
  BY <1>4, <1>9 DEF Memberships

LEMMA CommitInv ==
  ASSUME Inv, "reactivate" \notin Kinds, NEW t \in Transactions, Commit(t)
  PROVE  Inv'
<1> DEFINE done == tx[t].call
<1>1. Sound(t) /\ tx[t].pc \in {"checked", "checking"} /\ LocksTyped /\ Database(db)
      /\ tx \in [Transactions -> Transaction]
  BY DEF Inv, Commit, CheckedAll
<1>2. done \in Calls /\ done.profile \in Profiles
  BY <1>1, CallKinds DEF Sound
<1>3. db' = Apply(done, db) /\ db' = View(t)
  BY DEF Commit, View
<1>4. Database(db)'
  BY <1>1, <1>2, <1>3, ApplyTyped DEF Database
<1>5. OfMembers(done) => OneOf(db', done.user) /\ Owned(db', done.profile)
  BY <1>1, <1>3 DEF Sound
<1>6. ASSUME NEW u \in Users PROVE OneOf(db', u)
  <2>1. CASE OfMembers(done) /\ u = done.user
    BY <1>5, <2>1
  <2>2. CASE ~(OfMembers(done) /\ u = done.user)
    <3>1. \A v \in Users : done.kind = "create" => ~Has(db, done.profile, v)
      BY <1>1, <1>2 DEF Inv, Memberships, Sound
    <3>2. ASSUME NEW p \in Profiles, Belongs(db', p, u) PROVE Belongs(db, p, u)
      <4>1. Belongs(Apply(done, db), p, u)
        BY <1>3, <3>2
      <4> QED
        BY <1>1, <1>2, <2>2, <3>1, <4>1, NewlyBelongs
    <3> QED
      BY <3>2 DEF OneOf, Inv
  <2> QED
    BY <2>1, <2>2
<1>7. ASSUME NEW p \in Profiles PROVE Owned(db', p)
  <2>1. CASE OfMembers(done) /\ p = done.profile
    BY <1>5, <2>1
  <2>2. CASE p # done.profile \/ ~OfMembers(done)
    <3>1. Owned(db, p)
      BY DEF Inv
    <3> QED
      BY <1>1, <1>2, <1>3, <2>2, <3>1, OwnerLeft
  <2> QED
    BY <2>1, <2>2
<1>8. tx' = [tx EXCEPT ![t] = Idle] /\ Idle \in Transaction /\ Idle.pc = "idle"
  BY DEF Commit, Idle, Transaction, Places
<1>9. tx' \in [Transactions -> Transaction] /\ tx'[t].pc = "idle"
      /\ \A s \in Transactions \ {t} : tx'[s] = tx[s]
  BY <1>1, <1>8
<1>10. \A s \in Transactions : tx'[s].pc # "idle" => Sound(s)'
  BY <1>9, OthersStaySound
<1>11. LocksTyped'
  BY <1>1, ReleasedLocks DEF Commit
<1>12. (\A u \in Users : OneOf(db, u)') /\ \A p \in Profiles : Owned(db, p)'
  BY <1>6, <1>7 DEF OneOf, Belongs, Has, Owned, MembersOf
<1> QED
  BY <1>4, <1>9, <1>10, <1>11, <1>12, CommitMemberships DEF Inv

LEMMA NextInv == "reactivate" \notin Kinds /\ Inv /\ [Next]_vars => Inv'
<1> SUFFICES ASSUME "reactivate" \notin Kinds, Inv, [Next]_vars PROVE Inv'
  OBVIOUS
<1>1. CASE UNCHANGED vars
  BY <1>1 DEF vars, Inv, Database, Memberships, LocksTyped, Sound, View, Has, OneOf, Belongs, Owned, MembersOf
<1>2. ASSUME NEW t \in Transactions, NEW call \in Calls, Begin(t, call) PROVE Inv'
  BY <1>2, BeginInv
<1>3. ASSUME NEW t \in Transactions,
             \/ LockProfile(t) \/ Authorize(t) \/ WriteMember(t) \/ WriteProfile(t)
             \/ Check(t) \/ CheckMember(t)
             \/ Commit(t) \/ Rollback(t)
      PROVE  Inv'
  BY <1>3, LockProfileInv, AuthorizeInv, WriteMemberInv, WriteProfileInv, CheckInv,
     CheckMemberInv, CommitInv, RollbackInv
<1> QED
  BY <1>1, <1>2, <1>3 DEF Next

-----------------------------------------------------------------------------
(* The theorems                                                            *)

\* A set of memberships without two of one user in one profile has one of them
\* at most.
LEMMA OneRow ==
  ASSUME Database(db), Memberships, NEW p \in Profiles, NEW u \in Users
  PROVE  Cardinality(Rows(db, p, u)) <= 1
<1> DEFINE S == Rows(db, p, u)
<1>1. \A m, n \in S : m = n
  BY DEF Memberships, Rows, MembersOf
<1>2. CASE S = {}
  BY <1>2, FS_EmptySet
<1>3. CASE S # {}
  <2> HIDE DEF S
  <2>1. PICK m \in S : S = {m}
    BY <1>1, <1>3
  <2>2. Cardinality({m}) = 1
    BY FS_Singleton
  <2>3. Cardinality(S) <= 1
    BY <2>1, <2>2
  <2> QED
    BY <2>3 DEF S
<1> QED
  BY <1>2, <1>3

\* The tables, locks and transactions are well typed, and a user has one
\* membership in a profile at most: the primary key is never hit.
THEOREM MembershipTyped ==
  ASSUME "reactivate" \notin Kinds
  PROVE  Spec => []TypeOK
<1>1. Inv => TypeOK
  BY OneRow DEF Inv, TypeOK, Database, LocksTyped, Transaction
<1> QED
  BY <1>1, InitInv, NextInv, PTL DEF Spec

\* No user belongs to two active profiles, whatever is created, joined, left and
\* deleted at the same time, unless profiles are reactivated.
THEOREM OneProfileEach ==
  ASSUME "reactivate" \notin Kinds
  PROVE  Spec => []OneActiveProfile
<1>1. Inv => OneActiveProfile
  BY OneMeansOne DEF Inv, OneActiveProfile, Database
<1> QED
  BY <1>1, InitInv, NextInv, PTL DEF Spec

\* An active profile with members keeps an owner, whoever removes or demotes whom
\* at the same time, unless profiles are reactivated.
THEOREM OwnersRemain ==
  ASSUME "reactivate" \notin Kinds
  PROVE  Spec => []OwnerRetained
<1>1. Inv => OwnerRetained
  BY DEF Inv, OwnerRetained, Owned
<1> QED
  BY <1>1, InitInv, NextInv, PTL DEF Spec

=============================================================================
