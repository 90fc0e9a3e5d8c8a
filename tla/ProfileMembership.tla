-------------------------- MODULE ProfileMembership --------------------------
(***************************************************************************)
(* Who belongs to which profile:                                           *)
(* src/src/services/profile-membership-service.ts (create, add, remove,    *)
(* change role), the profile PATCH of src/src/routes/profile.ts, soft      *)
(* deletion and reactivation by SQL, and the triggers of migration         *)
(* 20260723162013_f2_profile_ownership_invariant.                          *)
(*                                                                         *)
(* A READ COMMITTED transaction is: the service's profile lock and         *)
(* authorisation, the write with its BEFORE trigger, the deferred checks   *)
(* at COMMIT, and the commit.  Each check sees what is committed then and  *)
(* the transaction's own write, and nobody else's uncommitted one.         *)
(***************************************************************************)
EXTENDS Naturals, FiniteSets, FiniteSetsExt

CONSTANTS
  Profiles,
  Users,        \* numbers: locks are taken in their order
  Transactions,
  Kinds,        \* the operations in use
  Free          \* a lock that nobody holds

ASSUME UsersAssumption == Users \subseteq Nat
ASSUME FreeAssumption == Free \notin Transactions

Types == {"solo", "shared"}    \* couple and group are treated alike
Roles == {"owner", "member"}
Statuses == {"absent", "active", "deleted"}

VARIABLES
  db,     \* committed: the type and status of each profile, and the members
  locks,  \* advisory locks of profiles and users, and row locks of profiles
  tx      \* the transactions

vars == <<db, locks, tx>>

Idle == [pc |-> "idle", call |-> [kind |-> "none"], todo |-> {}]

Init ==
  /\ db = [type |-> [p \in Profiles |-> "solo"], status |-> [p \in Profiles |-> "absent"],
           members |-> {}]
  /\ locks = [profile |-> [p \in Profiles |-> Free], user |-> [u \in Users |-> Free],
              row |-> [p \in Profiles |-> Free]]
  /\ tx = [t \in Transactions |-> Idle]

-----------------------------------------------------------------------------
(* Calls and what they write                                               *)

MemberCalls ==
  [kind : {"add", "role"}, profile : Profiles, user : Users, role : Roles]
    \cup [kind : {"remove"}, profile : Profiles, user : Users]
CreateCalls == [kind : {"create"}, profile : Profiles, user : Users, type : Types]
ProfileCalls ==
  [kind : {"retype"}, profile : Profiles, type : Types]
    \cup [kind : {"delete", "reactivate"}, profile : Profiles]
Calls == {call \in MemberCalls \cup CreateCalls \cup ProfileCalls : call.kind \in Kinds}

OfMembership(call) == call.kind \in {"add", "role", "remove"}

MembersOf(d, p) == {m \in d.members : m.profile = p}
Rows(d, p, u) == {m \in MembersOf(d, p) : m.user = u}
ActiveProfiles(d, u) == {p \in Profiles : d.status[p] = "active" /\ Rows(d, p, u) # {}}

Member(call) == [profile |-> call.profile, user |-> call.user, role |-> call.role]
Owner(call) == [profile |-> call.profile, user |-> call.user, role |-> "owner"]

Apply(call, d) ==
  CASE call.kind = "add" -> [d EXCEPT !.members = @ \cup {Member(call)}]
    [] call.kind = "role" ->
         [d EXCEPT !.members = (@ \ Rows(d, call.profile, call.user)) \cup {Member(call)}]
    [] call.kind = "remove" -> [d EXCEPT !.members = @ \ Rows(d, call.profile, call.user)]
    [] call.kind = "create" ->
         [type |-> [d.type EXCEPT ![call.profile] = call.type],
          status |-> [d.status EXCEPT ![call.profile] = "active"],
          members |-> d.members \cup {Owner(call)}]
    [] call.kind = "retype" -> [d EXCEPT !.type[call.profile] = call.type]
    [] call.kind = "delete" -> [d EXCEPT !.status[call.profile] = "deleted"]
    [] call.kind = "reactivate" -> [d EXCEPT !.status[call.profile] = "active"]

\* What a statement of t sees after its write.
View(t) == Apply(tx[t].call, db)

-----------------------------------------------------------------------------
(* The assertions of the triggers                                          *)

\* profile_membership_assert_user_cardinality
AtMostOneActive(d, u) == Cardinality(ActiveProfiles(d, u)) <= 1

Owners(d, p) == {m \in MembersOf(d, p) : m.role = "owner"}

\* Mutation: only the solo rule is asserted.
SoloOnly(d, p) ==
  d.status[p] = "active" => (d.type[p] = "solo" => Cardinality(MembersOf(d, p)) <= 1)

\* profile_membership_assert_profile
WellOwned(d, p) ==
  d.status[p] = "active" =>
    /\ d.type[p] = "solo" => Cardinality(MembersOf(d, p)) <= 1
    /\ MembersOf(d, p) # {} => Owners(d, p) # {}

-----------------------------------------------------------------------------
(* The transaction                                                         *)

Goto(t, place) == tx' = [tx EXCEPT ![t].pc = place]

\* A new profile's id is nobody else's.
Fresh(call) ==
  /\ db.status[call.profile] = "absent"
  /\ \A t \in Transactions : tx[t].pc # "idle" => tx[t].call.profile # call.profile

Begin(t, call) ==
  /\ tx[t].pc = "idle"
  /\ IF call.kind = "create" THEN Fresh(call) ELSE db.status[call.profile] # "absent"
  /\ tx' = [tx EXCEPT ![t] = [Idle EXCEPT !.pc = "begun", !.call = call]]
  /\ UNCHANGED <<db, locks>>

\* Mutation: nothing is locked.
AvailableAlways(lock, t) == TRUE

Available(lock, t) == lock \in {Free, t}

\* lockProfileMembershipScope: the membership operations take it first.
LockProfile(t) ==
  LET p == tx[t].call.profile IN
  /\ tx[t].pc = "begun" /\ OfMembership(tx[t].call)
  /\ Available(locks.profile[p], t)
  /\ locks' = [locks EXCEPT !.profile[p] = t]
  /\ Goto(t, "locked")
  /\ UNCHANGED db

\* Some owner of the active profile asks; the others get membership_forbidden.
OwnerAsks(p) == db.status[p] = "active" /\ Owners(db, p) # {}

Authorized(call) ==
  CASE call.kind = "add" ->
         /\ OwnerAsks(call.profile) /\ db.type[call.profile] # "solo"
         /\ Rows(db, call.profile, call.user) = {}
    [] call.kind \in {"role", "remove"} ->
         OwnerAsks(call.profile) /\ Rows(db, call.profile, call.user) # {}
    [] call.kind = "create" -> ActiveProfiles(db, call.user) = {}
    [] call.kind = "retype" ->
         db.status[call.profile] = "active" /\ MembersOf(db, call.profile) # {}
    [] call.kind \in {"delete", "reactivate"} -> TRUE

Authorize(t) ==
  /\ tx[t].pc = IF OfMembership(tx[t].call) THEN "locked" ELSE "begun"
  /\ Authorized(tx[t].call)
  /\ Goto(t, "authorized")
  /\ UNCHANGED <<db, locks>>

\* Mutation: a membership write takes no user lock.
UserNotLocked(t, u) == TRUE

UserAvailable(t, u) == Available(locks.user[u], t)

\* The BEFORE trigger of profile_user: it locks the profile and the user, then
\* checks what is committed; a removal is not checked here.
WriteMember(t) ==
  LET call == tx[t].call IN
  /\ tx[t].pc = "authorized" /\ (OfMembership(call) \/ call.kind = "create")
  /\ Available(locks.profile[call.profile], t)
  /\ UserAvailable(t, call.user)
  /\ call.kind = "add" => db.status[call.profile] # "deleted"
  /\ call.kind # "remove" => AtMostOneActive(db, call.user) /\ WellOwned(db, call.profile)
  /\ locks' = [locks EXCEPT !.profile[call.profile] = t, !.user[call.user] = t]
  /\ tx' = [tx EXCEPT ![t].pc = "written"]
  /\ UNCHANGED db

\* UPDATE profile: the row's lock, and for the PATCH still an active profile.
WriteProfile(t) ==
  LET call == tx[t].call IN
  /\ tx[t].pc = "authorized" /\ ~OfMembership(call) /\ call.kind # "create"
  /\ Available(locks.row[call.profile], t)
  /\ call.kind = "retype" => db.status[call.profile] = "active"
  /\ locks' = [locks EXCEPT !.row[call.profile] = t]
  /\ tx' = [tx EXCEPT ![t].pc = "written"]
  /\ UNCHANGED db

\* profile_membership_after_profile_state_write goes through the members.
MembersToCheck(call, d) == {m.user : m \in MembersOf(d, call.profile)}

\* The deferred triggers at COMMIT, first part.
Check(t) ==
  LET call == tx[t].call IN
  /\ tx[t].pc = "written"
  /\ IF OfMembership(call) \/ call.kind = "create"
     THEN /\ AtMostOneActive(View(t), call.user) /\ WellOwned(View(t), call.profile)
          /\ Goto(t, "checked")
     ELSE IF call.kind = "delete"
     THEN Goto(t, "checked")
     ELSE /\ WellOwned(View(t), call.profile)
          /\ tx' = [tx EXCEPT ![t].pc = "checking", ![t].todo = MembersToCheck(call, View(t))]
  /\ UNCHANGED <<db, locks>>

\* One member after the other: lock the user, then count the active profiles.
CheckMember(t) ==
  LET u == Min(tx[t].todo) IN
  /\ tx[t].pc = "checking" /\ tx[t].todo # {}
  /\ UserAvailable(t, u)
  /\ AtMostOneActive(View(t), u)
  /\ locks' = [locks EXCEPT !.user[u] = t]
  /\ tx' = [tx EXCEPT ![t].todo = @ \ {u}]
  /\ UNCHANGED db

CheckedAll(t) == tx[t].pc = "checked" \/ (tx[t].pc = "checking" /\ tx[t].todo = {})

Released(t) ==
  LET freed(f) == [x \in DOMAIN f |-> IF f[x] = t THEN Free ELSE f[x]]
  IN [profile |-> freed(locks.profile), user |-> freed(locks.user), row |-> freed(locks.row)]

Commit(t) ==
  /\ CheckedAll(t)
  /\ db' = View(t)
  /\ locks' = Released(t)
  /\ tx' = [tx EXCEPT ![t] = Idle]

\* Refused by the service or a trigger, or failed anywhere: rolled back.
Rollback(t) ==
  /\ tx[t].pc # "idle"
  /\ locks' = Released(t)
  /\ tx' = [tx EXCEPT ![t] = Idle]
  /\ UNCHANGED db

Next ==
  \E t \in Transactions :
    \/ \E call \in Calls : Begin(t, call)
    \/ LockProfile(t) \/ Authorize(t) \/ WriteMember(t) \/ WriteProfile(t)
    \/ Check(t) \/ CheckMember(t)
    \/ Commit(t) \/ Rollback(t)

Spec == Init /\ [][Next]_vars

-----------------------------------------------------------------------------
(* Properties                                                              *)

TypeOK ==
  /\ db.type \in [Profiles -> Types] /\ db.status \in [Profiles -> Statuses]
  /\ db.members \subseteq [profile : Profiles, user : Users, role : Roles]
  /\ \A p \in Profiles, u \in Users : Cardinality(Rows(db, p, u)) <= 1
  /\ locks.profile \in [Profiles -> Transactions \cup {Free}]
  /\ locks.row \in [Profiles -> Transactions \cup {Free}]
  /\ locks.user \in [Users -> Transactions \cup {Free}]
  /\ \A t \in Transactions : tx[t].call \in Calls \cup {Idle.call} /\ tx[t].todo \subseteq Users

\* No user ever belongs to two active profiles, whatever profiles are created,
\* joined and reactivated at the same time (F2 rollout, rule 2 and 3).
OneActiveProfile == \A u \in Users : AtMostOneActive(db, u)

\* An active profile with members keeps an owner: two owners who remove or
\* demote each other at the same time do not both succeed (rule 5).
OwnerRetained ==
  \A p \in Profiles :
    db.status[p] = "active" /\ MembersOf(db, p) # {} => \E m \in MembersOf(db, p) : m.role = "owner"

\* "Solo profiles reject a second member and reject a type change from shared
\* to solo while multiple memberships exist" (rule 4).
SoloStaysSingle ==
  \A p \in Profiles :
    db.status[p] = "active" /\ db.type[p] = "solo" => Cardinality(MembersOf(db, p)) <= 1

=============================================================================
