------------------------ MODULE DurableEventsProofs ------------------------
(***************************************************************************)
(* Proofs about DurableEvents for any scopes, writers and bounds.          *)
(***************************************************************************)
EXTENDS DurableEvents, FiniteSetTheorems, WellFoundedInduction, TLAPS

-----------------------------------------------------------------------------
(* The inductive invariant                                                 *)

\* A writer continues each scope it has locked exactly where the scope stands.
DraftsContinue ==
  \A w \in Writers, s \in Scopes : draft[w][s] # {} =>
    \E n \in Sequences : n > high[s] /\ draft[w][s] = high[s] + 1 .. n

\* The rest of its batch is sorted and begins no earlier than what it has locked.
TodoSorted ==
  \A w \in Writers :
    /\ todo[w] # <<>> => \A s \in Scopes : draft[w][s] # {} => s <= Head(todo[w])
    /\ \A i \in 1..Len(todo[w]) : i > 1 => todo[w][i - 1] <= todo[w][i]

\* What the cleanup picked has expired.  What its trigger has seen is still
\* there, and whatever it has not seen came later.
PicksExpired ==
  \A s \in Scopes : expired[s] \subseteq events[s] /\ cleaning.picked[s] \subseteq expired[s]
SeenFirst ==
  cleaning.pc = "deleted" =>
    \A s \in Scopes :
      /\ cleaning.seen[s] \subseteq Left(s)
      /\ \A n \in Left(s) \ cleaning.seen[s], m \in cleaning.seen[s] : m < n

\* A floor that the trigger has computed stays what it would compute now: nobody
\* else may commit to the scope.
RaisedFloors ==
  \A s \in Scopes : lock[s] = Cleanup =>
    cleaning.pc = "deleted" /\ cleaning.floors[s] = NewFloor(s)

FloorsReached == \A s \in Scopes : floor[s] <= high[s] + 1

IInv == /\ TypeOK /\ RetainedRange /\ FloorsReached
        /\ DraftsContinue /\ TodoSorted
        /\ PicksExpired /\ SeenFirst /\ RaisedFloors

-----------------------------------------------------------------------------
(* Numbers and ranges                                                      *)

LEMMA LeastNumber ==
  ASSUME NEW S \in SUBSET Nat, S # {}
  PROVE  Min(S) \in S /\ \A y \in S : Min(S) <= y
<1>1. PICK x \in S : \A y \in S : ~(<<y, x>> \in OpToRel(<, Nat))
  BY NatLessThanWellFounded, WFMin
<1>2. \A y \in S : x <= y
  <2> TAKE y \in S
  <2>1. ~(y < x)
    <3>1. <<y, x>> \in Nat \X Nat /\ <<y, x>>[1] = y /\ <<y, x>>[2] = x
      OBVIOUS
    <3> QED
      BY <1>1, <3>1, Zenon DEF OpToRel
  <2> QED
    BY <2>1
<1> QED
  BY <1>2 DEF Min

LEMMA LastOfRange ==
  ASSUME NEW a \in Int, NEW n \in Int, a <= n
  PROVE  Max(a .. n) = n
<1>1. n \in a .. n /\ \A y \in a .. n : n >= y
  OBVIOUS
<1>2. \A x \in a .. n : (\A y \in a .. n : x >= y) => x = n
  BY <1>1
<1> QED
  BY <1>1, <1>2 DEF Max

LEMMA RangesJoin ==
  ASSUME NEW a \in Int, NEW b \in Int, NEW c \in Int, a <= b + 1, b <= c
  PROVE  (a .. b) \cup (b + 1 .. c) = a .. c
OBVIOUS

\* What is in a range of the right size is the whole range.
LEMMA FullRange ==
  ASSUME NEW a \in Int, NEW b \in Int, a <= b + 1,
         NEW S \in SUBSET (a .. b), Cardinality(S) = b - a + 1
  PROVE  S = a .. b
<1>1. IsFiniteSet(a .. b) /\ Cardinality(a .. b) = b - a + 1
  BY FS_Interval
<1> QED
  BY <1>1, FS_Subset

-----------------------------------------------------------------------------
(* Rows, drafts and floors                                                 *)

LEMMA ScopeTypes ==
  ASSUME TypeOK, NEW s \in Scopes
  PROVE  /\ high[s] \in 0..MaxHigh /\ floor[s] \in 1..MaxHigh + 1
         /\ events[s] \subseteq Sequences /\ expired[s] \subseteq Sequences
         /\ high[s] \in Nat /\ floor[s] \in Nat /\ MaxHigh \in Nat
         /\ cleaning.picked[s] \subseteq Sequences /\ cleaning.seen[s] \subseteq Sequences
BY BoundsAssumption DEF TypeOK

\* The draft of a scope reaches from where the scope stands to what the
\* transaction sees of it.
LEMMA DraftRange ==
  ASSUME TypeOK, DraftsContinue, NEW w \in Writers, NEW s \in Scopes
  PROVE  /\ Reached(w, s) \in 0..MaxHigh /\ Reached(w, s) >= high[s]
         /\ draft[w][s] = high[s] + 1 .. Reached(w, s)
<1>1. CASE draft[w][s] = {}
  BY <1>1, ScopeTypes DEF Reached
<1>2. CASE draft[w][s] # {}
  <2>1. PICK n \in Sequences : n > high[s] /\ draft[w][s] = high[s] + 1 .. n
    BY <1>2 DEF DraftsContinue
  <2>2. Reached(w, s) = n
    BY <1>2, <2>1, ScopeTypes, LastOfRange DEF Reached, Sequences
  <2> QED
    BY <2>1, <2>2, ScopeTypes DEF Sequences
<1> QED
  BY <1>1, <1>2

LEMMA FloorRises ==
  ASSUME TypeOK, RetainedRange, FloorsReached, PicksExpired, SeenFirst,
         cleaning.pc = "deleted", NEW s \in Scopes
  PROVE  /\ NewFloor(s) \in 1..MaxHigh + 1
         /\ floor[s] <= NewFloor(s) /\ NewFloor(s) <= high[s] + 1
         /\ cleaning.seen[s] # {} => \A n \in Left(s) : NewFloor(s) <= n
         /\ cleaning.seen[s] = {} => NewFloor(s) = high[s] + 1
<1>1. high[s] \in 0..MaxHigh /\ floor[s] \in 1..MaxHigh + 1 /\ MaxHigh \in Nat
  BY ScopeTypes
<1>2. /\ floor[s] <= high[s] + 1 /\ events[s] = floor[s] .. high[s]
      /\ Left(s) \subseteq events[s] /\ cleaning.seen[s] \subseteq Left(s)
  BY DEF FloorsReached, RetainedRange, SeenFirst, Left
<1>3. CASE cleaning.seen[s] = {}
  BY <1>1, <1>2, <1>3 DEF NewFloor
<1>4. CASE cleaning.seen[s] # {}
  <2> DEFINE least == Min(cleaning.seen[s])
  <2>1. cleaning.seen[s] \in SUBSET Nat
    BY <1>1, <1>2
  <2>2. least \in cleaning.seen[s] /\ \A y \in cleaning.seen[s] : least <= y
    BY <1>4, <2>1, LeastNumber
  <2>3. least \in floor[s] .. high[s]
    BY <1>2, <2>2
  <2>4. \A n \in Left(s) : least <= n
    <3> TAKE n \in Left(s)
    <3>1. n \in Int /\ least \in Int
      BY <1>1, <1>2, <2>3
    <3>2. CASE n \in cleaning.seen[s]
      BY <2>2, <3>2
    <3>3. CASE n \notin cleaning.seen[s]
      BY <2>2, <3>1, <3>3 DEF SeenFirst
    <3> QED
      BY <3>2, <3>3
  <2>5. NewFloor(s) = IF least > floor[s] THEN least ELSE floor[s]
    BY <1>4 DEF NewFloor
  <2> HIDE DEF least
  <2>6. NewFloor(s) = least
    BY <1>1, <2>3, <2>5
  <2> QED
    BY <1>1, <1>4, <2>3, <2>4, <2>6
<1> QED
  BY <1>3, <1>4

-----------------------------------------------------------------------------
(* One lemma per operation: it keeps the invariant.                        *)

LEMMA InitInv == Init => IInv
<1> SUFFICES ASSUME Init PROVE IInv
  OBVIOUS
<1>1. TypeOK
  <2>1. /\ 0 \in 0..MaxHigh /\ 1 \in 1..MaxHigh + 1 /\ 0 \in 0..MaxHigh + 1
    BY BoundsAssumption
  <2>2. Resting \in [pc : {"idle", "selected", "deleted"}, picked : [Scopes -> SUBSET Sequences],
                     seen : [Scopes -> SUBSET Sequences], floors : [Scopes -> 0..MaxHigh + 1]]
    BY <2>1 DEF Resting, None
  <2>3. draft \in [Writers -> [Scopes -> SUBSET Sequences]]
    BY DEF Init, None
  <2>4. todo \in [Writers -> Seq(Scopes)]
    BY DEF Init
  <2>5. \A w \in Writers, s \in Scopes : draft[w][s] = {} /\ lock[s] # w
    BY HoldersAssumption DEF Init, None
  <2> QED
    BY <2>1, <2>2, <2>3, <2>4, <2>5 DEF Init, TypeOK, None
<1>2. RetainedRange /\ FloorsReached
  BY DEF Init, RetainedRange, FloorsReached, None
<1>3. DraftsContinue /\ TodoSorted
  BY DEF Init, DraftsContinue, TodoSorted, None
<1>4. cleaning.pc = "idle" /\ cleaning.picked = None
  BY DEF Init, Resting
<1>5. PicksExpired /\ SeenFirst
  BY <1>4 DEF Init, PicksExpired, SeenFirst, None
<1>6. RaisedFloors
  BY HoldersAssumption DEF Init, RaisedFloors
<1> QED
  BY <1>1, <1>2, <1>3, <1>5, <1>6 DEF IInv

LEMMA BeginInv ==
  ASSUME IInv, NEW w \in Writers, NEW b \in Batches, Begin(w, b)
  PROVE  IInv'
<1>1. UNCHANGED <<high, floor, events, expired, lock, draft, cleaning>>
      /\ todo' = [todo EXCEPT ![w] = b] /\ draft[w] = None
  BY DEF Begin, rows, Writing
<1>2. b \in Seq(Scopes) /\ \A i \in 1..Len(b) : i > 1 => b[i - 1] <= b[i]
  BY DEF Batches
<1>3. TypeOK'
  BY <1>1, <1>2 DEF IInv, TypeOK
<1>4. TodoSorted'
  <2> SUFFICES ASSUME NEW v \in Writers
               PROVE  /\ todo'[v] # <<>> => \A s \in Scopes : draft[v][s] # {} => s <= Head(todo'[v])
                      /\ \A i \in 1..Len(todo'[v]) : i > 1 => todo'[v][i - 1] <= todo'[v][i]
    BY <1>1 DEF TodoSorted
  <2>1. CASE v = w
    BY <1>1, <1>2, <2>1 DEF None, IInv, TypeOK
  <2>2. CASE v # w
    BY <1>1, <2>2 DEF IInv, TypeOK, TodoSorted
  <2> QED
    BY <2>1, <2>2
<1>5. (RetainedRange /\ FloorsReached /\ DraftsContinue /\ PicksExpired /\ SeenFirst)'
  BY <1>1 DEF IInv, RetainedRange, FloorsReached, DraftsContinue, PicksExpired, SeenFirst, Left
<1>6. RaisedFloors'
  BY <1>1 DEF IInv, RaisedFloors, NewFloor
<1> QED
  BY <1>3, <1>4, <1>5, <1>6 DEF IInv

LEMMA AppendInv ==
  ASSUME IInv, NEW w \in Writers, AppendNext(w)
  PROVE  IInv'
<1> DEFINE s == Head(todo[w])
           next == Reached(w, s) + 1
<1>0. TypeOK /\ TodoSorted /\ DraftsContinue
  BY DEF IInv
<1>1. todo[w] \in Seq(Scopes) /\ todo[w] # <<>> /\ s \in Scopes /\ s \in Nat
  <2>1. todo[w] \in Seq(Scopes)
    BY <1>0 DEF TypeOK
  <2>2. todo[w] # <<>>
    BY DEF AppendNext
  <2>3. Head(todo[w]) \in Scopes
    BY <2>1, <2>2
  <2> QED
    BY <2>1, <2>2, <2>3, ScopesAssumption
<1>2. /\ UNCHANGED <<high, floor, events, expired, cleaning>>
      /\ lock[s] \in {Free, w} /\ lock' = [lock EXCEPT ![s] = w]
      /\ draft' = [draft EXCEPT ![w][s] = @ \cup {next}]
      /\ todo' = [todo EXCEPT ![w] = Tail(@)] /\ next <= MaxHigh
  BY <1>1, DraftRange, <1>0, ScopeTypes DEF AppendNext, rows, Lockable
<1>3. /\ next \in Sequences /\ next > high[s]
      /\ draft[w][s] \cup {next} = high[s] + 1 .. next
  <2>1. /\ Reached(w, s) \in 0..MaxHigh /\ Reached(w, s) >= high[s]
        /\ draft[w][s] = high[s] + 1 .. Reached(w, s)
    BY <1>0, <1>1, DraftRange
  <2>2. high[s] \in 0..MaxHigh
    BY <1>0, <1>1, ScopeTypes
  <2> HIDE DEF s
  <2> QED
    BY <1>2, <2>1, <2>2 DEF Sequences
<1>4. /\ draft'[w][s] = draft[w][s] \cup {next}
      /\ \A v \in Writers, x \in Scopes : v # w \/ x # s => draft'[v][x] = draft[v][x]
      /\ draft' \in [Writers -> [Scopes -> SUBSET Sequences]]
      /\ lock'[s] = w /\ \A x \in Scopes : x # s => lock'[x] = lock[x]
      /\ todo'[w] = Tail(todo[w]) /\ \A v \in Writers : v # w => todo'[v] = todo[v]
      /\ todo' \in [Writers -> Seq(Scopes)]
      /\ lock' \in [Scopes -> Writers \cup {Cleanup, Free}]
  <2>1. Tail(todo[w]) \in Seq(Scopes)
    BY <1>1
  <2> HIDE DEF s, next
  <2> QED
    BY <1>0, <1>1, <1>2, <1>3, <2>1 DEF TypeOK
<1> HIDE DEF s, next
<1>5. \A v \in Writers, x \in Scopes : draft'[v][x] # {} <=> lock'[x] = v
  <2> TAKE v \in Writers, x \in Scopes
  <2>1. draft[v][x] # {} <=> lock[x] = v
    BY <1>0 DEF TypeOK
  <2>2. CASE x # s
    BY <1>4, <2>1, <2>2
  <2>3. CASE x = s /\ v = w
    BY <1>4, <2>3
  <2>4. CASE x = s /\ v # w
    <3>1. lock[x] # v /\ draft'[v][x] = draft[v][x] /\ lock'[x] # v
      BY <1>2, <1>4, <2>4, HoldersAssumption
    <3> QED
      BY <2>1, <3>1
  <2> QED
    BY <2>2, <2>3, <2>4
<1>6. TypeOK'
  BY <1>0, <1>2, <1>4, <1>5 DEF TypeOK
<1>7. DraftsContinue'
  <2> SUFFICES ASSUME NEW v \in Writers, NEW x \in Scopes, draft'[v][x] # {}
               PROVE  \E n \in Sequences : n > high[x] /\ draft'[v][x] = high[x] + 1 .. n
    BY <1>2 DEF DraftsContinue
  <2>1. CASE v = w /\ x = s
    <3>1. next \in Sequences /\ next > high[x] /\ draft'[v][x] = high[x] + 1 .. next
      BY <1>3, <1>4, <2>1
    <3> QED
      BY <3>1
  <2>2. CASE ~(v = w /\ x = s)
    <3>1. draft'[v][x] = draft[v][x]
      BY <1>4, <2>2
    <3> QED
      BY <1>0, <3>1 DEF DraftsContinue
  <2> QED
    BY <2>1, <2>2
<1>8. TodoSorted'
  <2> SUFFICES ASSUME NEW v \in Writers
               PROVE  /\ todo'[v] # <<>> =>
                           \A x \in Scopes : draft'[v][x] # {} => x <= Head(todo'[v])
                      /\ \A i \in 1..Len(todo'[v]) : i > 1 => todo'[v][i - 1] <= todo'[v][i]
    BY DEF TodoSorted
  <2>1. CASE v # w
    BY <1>0, <1>4, <2>1 DEF TodoSorted
  <2>2. CASE v = w
    <3> DEFINE rest == Tail(todo[w])
    <3>1. /\ rest \in Seq(Scopes) /\ Len(rest) = Len(todo[w]) - 1
          /\ \A i \in 1..Len(rest) : rest[i] = todo[w][i + 1]
          /\ Len(todo[w]) \in Nat
      BY <1>1
    <3>2. \A i \in 1..Len(rest) : i > 1 => rest[i - 1] <= rest[i]
      <4> TAKE i \in 1..Len(rest)
      <4> HAVE i > 1
      <4>1. /\ i - 1 \in 1..Len(rest) /\ i + 1 \in 1..Len(todo[w]) /\ i + 1 > 1
            /\ (i - 1) + 1 = i /\ (i + 1) - 1 = i
        BY <3>1
      <4>2. todo[w][i] <= todo[w][i + 1]
        BY <1>0, <4>1 DEF TodoSorted
      <4> QED
        BY <3>1, <4>1, <4>2
    <3>3. ASSUME rest # <<>>
          PROVE  Head(rest) \in Scopes /\ s <= Head(rest)
      <4>1. Head(rest) = todo[w][2] /\ 2 \in 1..Len(todo[w]) /\ todo[w][1] = s
            /\ Head(rest) \in Scopes
        BY <1>1, <3>1, <3>3 DEF s
      <4> QED
        BY <1>0, <4>1 DEF TodoSorted
    <3>4. \A x \in Scopes : draft[w][x] # {} => x <= s
      BY <1>0, <1>1 DEF TodoSorted, s
    <3> HIDE DEF rest
    <3>5. ASSUME rest # <<>>, NEW x \in Scopes, draft'[w][x] # {}
          PROVE  x <= Head(rest)
      <4>1. x = s \/ draft[w][x] # {}
        BY <1>4, <3>5
      <4>2. x <= s /\ s <= Head(rest)
        BY <1>1, <3>3, <3>4, <3>5, <4>1
      <4>3. x \in Nat /\ s \in Nat /\ Head(rest) \in Nat
        BY <1>1, <3>3, <3>5, ScopesAssumption
      <4> QED
        BY <4>2, <4>3
    <3> QED
      BY <1>4, <2>2, <3>2, <3>5 DEF rest
  <2> QED
    BY <2>1, <2>2
<1>9. (RetainedRange /\ FloorsReached /\ PicksExpired /\ SeenFirst)'
  BY <1>2 DEF IInv, RetainedRange, FloorsReached, PicksExpired, SeenFirst, Left
<1>10. RaisedFloors'
  BY <1>1, <1>2, <1>4, HoldersAssumption DEF IInv, RaisedFloors, NewFloor
<1> QED
  BY <1>6, <1>7, <1>8, <1>9, <1>10 DEF IInv

\* What is true of the rows a writer gives up, by commit or abort.
LEMMA ReleaseTyped ==
  ASSUME TypeOK, NEW w \in Writers,
         draft' = [draft EXCEPT ![w] = None], lock' = Unlocked(w)
  PROVE  /\ draft' \in [Writers -> [Scopes -> SUBSET Sequences]]
         /\ lock' \in [Scopes -> Writers \cup {Cleanup, Free}]
         /\ \A v \in Writers, s \in Scopes : draft'[v][s] # {} <=> lock'[s] = v
         /\ \A v \in Writers, s \in Scopes : draft'[v][s] # {} => v # w /\ draft'[v][s] = draft[v][s]
         /\ \A s \in Scopes : lock'[s] = Cleanup => lock[s] = Cleanup
<1>1. /\ draft'[w] = None /\ \A v \in Writers : v # w => draft'[v] = draft[v]
      /\ draft' \in [Writers -> [Scopes -> SUBSET Sequences]]
  BY DEF TypeOK, None
<1>2. \A s \in Scopes : None[s] = {}
  BY DEF None
<1>3. \A s \in Scopes : lock'[s] = IF lock[s] = w THEN Free ELSE lock[s]
  BY DEF Unlocked
<1>4. lock' \in [Scopes -> Writers \cup {Cleanup, Free}]
  BY DEF Unlocked, TypeOK
<1>5. \A v \in Writers, s \in Scopes : draft[v][s] # {} <=> lock[s] = v
  BY DEF TypeOK
<1>6. \A v \in Writers, s \in Scopes : draft'[v][s] # {} <=> lock'[s] = v
  BY <1>1, <1>2, <1>3, <1>5, HoldersAssumption
<1> QED
  BY <1>1, <1>2, <1>3, <1>4, <1>6, HoldersAssumption

LEMMA CommitInv ==
  ASSUME IInv, NEW w \in Writers, Commit(w)
  PROVE  IInv'
<1>0. /\ TypeOK /\ TodoSorted /\ DraftsContinue /\ RetainedRange /\ FloorsReached
      /\ PicksExpired /\ SeenFirst /\ RaisedFloors
  BY DEF IInv
<1>1. /\ UNCHANGED <<floor, expired, todo, cleaning>>
      /\ events' = [s \in Scopes |-> events[s] \cup draft[w][s]]
      /\ high' = [s \in Scopes |-> Reached(w, s)]
      /\ draft' = [draft EXCEPT ![w] = None] /\ lock' = Unlocked(w)
  BY DEF Commit
<1>2. /\ draft' \in [Writers -> [Scopes -> SUBSET Sequences]]
      /\ lock' \in [Scopes -> Writers \cup {Cleanup, Free}]
      /\ \A v \in Writers, s \in Scopes : draft'[v][s] # {} <=> lock'[s] = v
      /\ \A v \in Writers, s \in Scopes : draft'[v][s] # {} => v # w /\ draft'[v][s] = draft[v][s]
      /\ \A s \in Scopes : lock'[s] = Cleanup => lock[s] = Cleanup
  BY <1>0, <1>1, ReleaseTyped
<1>3. \A s \in Scopes :
        /\ high'[s] \in 0..MaxHigh /\ high[s] \in 0..MaxHigh /\ MaxHigh \in Nat
        /\ high'[s] >= high[s] /\ draft[w][s] = high[s] + 1 .. high'[s]
        /\ events'[s] = events[s] \cup draft[w][s]
  BY <1>0, <1>1, DraftRange, ScopeTypes
<1>4. \A s \in Scopes : draft[w][s] = {} => high'[s] = high[s] /\ events'[s] = events[s]
  BY <1>1, <1>3 DEF Reached
<1>5. TypeOK'
  <2>1. high' \in [Scopes -> 0..MaxHigh]
    BY <1>1, <1>3
  <2>2. events' \in [Scopes -> SUBSET Sequences]
    BY <1>0, <1>1 DEF TypeOK
  <2> QED
    BY <1>0, <1>1, <1>2, <2>1, <2>2 DEF TypeOK
<1>6. RetainedRange' /\ FloorsReached'
  <2> SUFFICES ASSUME NEW s \in Scopes
               PROVE  events'[s] = floor[s] .. high'[s] /\ floor[s] <= high'[s] + 1
    BY <1>1 DEF RetainedRange, FloorsReached
  <2>1. /\ events[s] = floor[s] .. high[s] /\ floor[s] <= high[s] + 1 /\ floor[s] \in Nat
    BY <1>0, ScopeTypes DEF RetainedRange, FloorsReached
  <2>2. /\ events'[s] = (floor[s] .. high[s]) \cup (high[s] + 1 .. high'[s])
        /\ high[s] \in Int /\ high'[s] \in Int /\ high[s] <= high'[s]
    BY <1>3, <2>1
  <2> QED
    BY <2>1, <2>2, RangesJoin
<1>7. DraftsContinue'
  <2> SUFFICES ASSUME NEW v \in Writers, NEW s \in Scopes, draft'[v][s] # {}
               PROVE  \E n \in Sequences : n > high'[s] /\ draft'[v][s] = high'[s] + 1 .. n
    BY DEF DraftsContinue
  <2>1. v # w /\ draft'[v][s] = draft[v][s] /\ lock[s] = v
    BY <1>0, <1>2 DEF TypeOK
  <2>2. high'[s] = high[s]
    BY <1>0, <1>4, <2>1 DEF TypeOK
  <2> QED
    BY <1>0, <2>1, <2>2 DEF DraftsContinue
<1>8. TodoSorted'
  BY <1>0, <1>1, <1>2 DEF TodoSorted
<1>9. PicksExpired'
  BY <1>0, <1>1 DEF PicksExpired
<1>10. SeenFirst'
  <2> SUFFICES ASSUME cleaning.pc = "deleted", NEW s \in Scopes
               PROVE  /\ cleaning.seen[s] \subseteq events'[s] \ cleaning.picked[s]
                      /\ \A n \in (events'[s] \ cleaning.picked[s]) \ cleaning.seen[s],
                            m \in cleaning.seen[s] : m < n
    BY <1>1 DEF SeenFirst, Left
  <2>1. /\ cleaning.seen[s] \subseteq events[s] \ cleaning.picked[s]
        /\ \A n \in (events[s] \ cleaning.picked[s]) \ cleaning.seen[s],
              m \in cleaning.seen[s] : m < n
    BY <1>0 DEF SeenFirst, Left
  <2>2. events[s] = floor[s] .. high[s] /\ floor[s] \in Nat
    BY <1>0, ScopeTypes DEF RetainedRange
  <2>3. \A m \in cleaning.seen[s] : m \in Int /\ m <= high[s]
    BY <1>3, <2>1, <2>2
  <2>4. \A n \in draft[w][s] : n \in Int /\ n > high[s]
    BY <1>3
  <2>5. \A n \in draft[w][s], m \in cleaning.seen[s] : m < n
    BY <1>3, <2>3, <2>4
  <2> QED
    BY <1>3, <2>1, <2>5
<1>11. RaisedFloors'
  <2> SUFFICES ASSUME NEW s \in Scopes, lock[s] = Cleanup
               PROVE  cleaning.pc = "deleted" /\ cleaning.floors[s] = NewFloor(s)'
    BY <1>1, <1>2 DEF RaisedFloors
  <2>1. high'[s] = high[s]
    BY <1>0, <1>4, HoldersAssumption DEF TypeOK
  <2>2. NewFloor(s)' = NewFloor(s)
    BY <1>1, <2>1 DEF NewFloor
  <2> QED
    BY <1>0, <2>2 DEF RaisedFloors
<1> QED
  BY <1>5, <1>6, <1>7, <1>8, <1>9, <1>10, <1>11 DEF IInv

LEMMA AbortInv ==
  ASSUME IInv, NEW w \in Writers, Abort(w)
  PROVE  IInv'
<1>0. /\ TypeOK /\ TodoSorted /\ DraftsContinue /\ RetainedRange /\ FloorsReached
      /\ PicksExpired /\ SeenFirst /\ RaisedFloors
  BY DEF IInv
<1>1. /\ UNCHANGED <<high, floor, events, expired, cleaning>>
      /\ todo' = [todo EXCEPT ![w] = <<>>]
      /\ draft' = [draft EXCEPT ![w] = None] /\ lock' = Unlocked(w)
  BY DEF Abort, rows
<1>2. /\ draft' \in [Writers -> [Scopes -> SUBSET Sequences]]
      /\ lock' \in [Scopes -> Writers \cup {Cleanup, Free}]
      /\ \A v \in Writers, s \in Scopes : draft'[v][s] # {} <=> lock'[s] = v
      /\ \A v \in Writers, s \in Scopes : draft'[v][s] # {} => v # w /\ draft'[v][s] = draft[v][s]
      /\ \A s \in Scopes : lock'[s] = Cleanup => lock[s] = Cleanup
  BY <1>0, <1>1, ReleaseTyped
<1>3. /\ todo' \in [Writers -> Seq(Scopes)]
      /\ todo'[w] = <<>> /\ \A v \in Writers : v # w => todo'[v] = todo[v]
  BY <1>0, <1>1 DEF TypeOK
<1>4. TypeOK'
  BY <1>0, <1>1, <1>2, <1>3 DEF TypeOK
<1>5. DraftsContinue'
  <2> SUFFICES ASSUME NEW v \in Writers, NEW s \in Scopes, draft'[v][s] # {}
               PROVE  \E n \in Sequences : n > high[s] /\ draft'[v][s] = high[s] + 1 .. n
    BY <1>1 DEF DraftsContinue
  <2> QED
    BY <1>0, <1>2 DEF DraftsContinue
<1>6. TodoSorted'
  <2> SUFFICES ASSUME NEW v \in Writers
               PROVE  /\ todo'[v] # <<>> => \A s \in Scopes : draft'[v][s] # {} => s <= Head(todo'[v])
                      /\ \A i \in 1..Len(todo'[v]) : i > 1 => todo'[v][i - 1] <= todo'[v][i]
    BY DEF TodoSorted
  <2>1. CASE v = w
    <3>1. todo'[v] = <<>> /\ Len(<<>>) = 0 /\ 1..0 = {}
      BY <1>3, <2>1
    <3> QED
      BY <3>1
  <2>2. CASE v # w
    <3>1. todo'[v] = todo[v] /\ \A s \in Scopes : draft'[v][s] # {} => draft[v][s] # {}
      BY <1>2, <1>3, <2>2
    <3> QED
      BY <1>0, <3>1 DEF TodoSorted
  <2> QED
    BY <2>1, <2>2
<1>7. (RetainedRange /\ FloorsReached /\ PicksExpired /\ SeenFirst)'
  BY <1>0, <1>1 DEF RetainedRange, FloorsReached, PicksExpired, SeenFirst, Left
<1>8. RaisedFloors'
  BY <1>0, <1>1, <1>2 DEF RaisedFloors, NewFloor
<1> QED
  BY <1>4, <1>5, <1>6, <1>7, <1>8 DEF IInv

LEMMA ExpireInv ==
  ASSUME IInv, NEW s \in Scopes, NEW n \in 1..MaxHigh, Expire(s, n)
  PROVE  IInv'
<1>1. /\ UNCHANGED <<high, floor, events, lock, todo, draft, cleaning>>
      /\ expired' = [expired EXCEPT ![s] = @ \cup {n}] /\ n \in events[s]
  BY DEF Expire, rows
<1>2. /\ expired' \in [Scopes -> SUBSET Sequences]
      /\ expired'[s] = expired[s] \cup {n}
      /\ \A x \in Scopes : x # s => expired'[x] = expired[x]
  BY <1>1 DEF IInv, TypeOK, Sequences
<1>3. TypeOK'
  BY <1>1, <1>2 DEF IInv, TypeOK
<1>4. PicksExpired'
  BY <1>1, <1>2 DEF IInv, PicksExpired
<1>5. (RetainedRange /\ FloorsReached /\ DraftsContinue /\ TodoSorted /\ SeenFirst)'
  BY <1>1 DEF IInv, RetainedRange, FloorsReached, DraftsContinue, TodoSorted, SeenFirst, Left
<1>6. RaisedFloors'
  BY <1>1 DEF IInv, RaisedFloors, NewFloor
<1> QED
  BY <1>3, <1>4, <1>5, <1>6 DEF IInv

\* What a cleaning is: the places of TypeOK.
Cleaning ==
  [pc : {"idle", "selected", "deleted"}, picked : [Scopes -> SUBSET Sequences],
   seen : [Scopes -> SUBSET Sequences], floors : [Scopes -> 0..MaxHigh + 1]]

LEMMA RestingTyped == Resting \in Cleaning /\ Resting.pc = "idle" /\ Resting.picked = None
<1>1. 0 \in 0..MaxHigh + 1
  BY BoundsAssumption
<1>2. None \in [Scopes -> SUBSET Sequences]
  BY DEF None
<1> QED
  BY <1>1, <1>2 DEF Resting, Cleaning

\* Steps of the cleanup that write only its own state.
LEMMA CleaningInv ==
  ASSUME IInv, UNCHANGED <<high, floor, events, expired, todo, draft>>,
         lock' \in [Scopes -> Writers \cup {Cleanup, Free}],
         \A w \in Writers, s \in Scopes : lock[s] = w <=> lock'[s] = w,
         cleaning' \in Cleaning,
         \A s \in Scopes : cleaning'.picked[s] \subseteq expired[s],
         SeenFirst', RaisedFloors'
  PROVE  IInv'
<1>1. TypeOK'
  BY DEF IInv, TypeOK, Cleaning
<1>2. (RetainedRange /\ FloorsReached /\ DraftsContinue /\ TodoSorted)'
  BY DEF IInv, RetainedRange, FloorsReached, DraftsContinue, TodoSorted
<1>3. PicksExpired'
  BY DEF IInv, PicksExpired
<1> QED
  BY <1>1, <1>2, <1>3 DEF IInv

LEMMA SelectInv ==
  ASSUME IInv, NEW picked \in [Scopes -> SUBSET (1..MaxHigh)], Select(picked)
  PROVE  IInv'
<1>1. /\ UNCHANGED <<high, floor, events, expired, todo, draft, lock>>
      /\ cleaning' = [Resting EXCEPT !.pc = "selected", !.picked = picked]
      /\ cleaning.pc = "idle"
  BY DEF Select, rows
<1>2. cleaning' \in Cleaning /\ cleaning'.pc = "selected" /\ cleaning'.picked = picked
  BY <1>1, RestingTyped DEF Cleaning, Sequences
<1>3. \A s \in Scopes : picked[s] \subseteq expired[s]
  BY DEF Select, ExpiredPrefix
<1>4. SeenFirst'
  BY <1>2 DEF SeenFirst
<1>5. RaisedFloors'
  BY <1>1 DEF IInv, RaisedFloors
<1>6. lock' \in [Scopes -> Writers \cup {Cleanup, Free}]
  BY <1>1 DEF IInv, TypeOK
<1> QED
  BY <1>1, <1>2, <1>3, <1>4, <1>5, <1>6, CleaningInv

LEMMA DeleteInv ==
  ASSUME IInv, Delete
  PROVE  IInv'
<1>1. /\ UNCHANGED <<high, floor, events, expired, todo, draft, lock>>
      /\ cleaning' = [cleaning EXCEPT !.pc = "deleted",
                        !.seen = [s \in Scopes |-> events[s] \ cleaning.picked[s]]]
      /\ cleaning.pc = "selected"
  BY DEF Delete, rows
<1>2. cleaning \in Cleaning /\ [s \in Scopes |-> events[s] \ cleaning.picked[s]] \in [Scopes -> SUBSET Sequences]
  BY DEF IInv, TypeOK, Cleaning
<1>3. /\ cleaning' \in Cleaning /\ cleaning'.pc = "deleted"
      /\ cleaning'.picked = cleaning.picked
      /\ cleaning'.seen = [s \in Scopes |-> events[s] \ cleaning.picked[s]]
  BY <1>1, <1>2 DEF Cleaning
<1>4. SeenFirst'
  BY <1>1, <1>3 DEF SeenFirst, Left
<1>5. RaisedFloors'
  BY <1>1 DEF IInv, RaisedFloors
<1>6. lock' \in [Scopes -> Writers \cup {Cleanup, Free}]
  BY <1>1 DEF IInv, TypeOK
<1>7. \A s \in Scopes : cleaning'.picked[s] \subseteq expired[s]
  BY <1>3 DEF IInv, PicksExpired
<1> QED
  BY <1>1, <1>3, <1>4, <1>5, <1>6, <1>7, CleaningInv

LEMMA RaiseInv ==
  ASSUME IInv, NEW s \in Scopes, Raise(s)
  PROVE  IInv'
<1> DEFINE f == NewFloor(s)
<1>0. f \in 0..MaxHigh + 1
  <2>1. f \in 1..MaxHigh + 1
    BY FloorRises DEF IInv, Raise
  <2> HIDE DEF f
  <2> QED
    BY <2>1, BoundsAssumption
<1>1. /\ UNCHANGED <<high, floor, events, expired, todo, draft>>
      /\ lock' = [lock EXCEPT ![s] = Cleanup] /\ lock[s] = Free
      /\ cleaning' = [cleaning EXCEPT !.floors[s] = f]
      /\ cleaning.pc = "deleted"
  BY DEF Raise, rows
<1>2. cleaning \in Cleaning
  BY DEF IInv, TypeOK, Cleaning
<1> HIDE DEF f
<1>3. /\ cleaning' \in Cleaning /\ cleaning'.pc = cleaning.pc
      /\ cleaning'.picked = cleaning.picked /\ cleaning'.seen = cleaning.seen
      /\ cleaning'.floors[s] = f
      /\ \A x \in Scopes : x # s => cleaning'.floors[x] = cleaning.floors[x]
  BY <1>0, <1>1, <1>2 DEF Cleaning
<1>4. SeenFirst'
  BY <1>1, <1>3 DEF IInv, SeenFirst, Left
<1>5. \A x \in Scopes : NewFloor(x)' = NewFloor(x)
  BY <1>1, <1>3 DEF NewFloor
<1>6. /\ lock' \in [Scopes -> Writers \cup {Cleanup, Free}] /\ lock'[s] = Cleanup
      /\ \A x \in Scopes : x # s => lock'[x] = lock[x]
  BY <1>1 DEF IInv, TypeOK
<1>7. RaisedFloors'
  <2> SUFFICES ASSUME NEW x \in Scopes, lock'[x] = Cleanup
               PROVE  cleaning'.pc = "deleted" /\ cleaning'.floors[x] = NewFloor(x)'
    BY DEF RaisedFloors
  <2>1. CASE x = s
    BY <1>1, <1>3, <1>5, <2>1 DEF f
  <2>2. CASE x # s
    BY <1>1, <1>3, <1>5, <1>6, <2>2 DEF IInv, RaisedFloors
  <2> QED
    BY <2>1, <2>2
<1>8. \A w \in Writers, x \in Scopes : lock[x] = w <=> lock'[x] = w
  BY <1>1, <1>6, HoldersAssumption
<1>9. \A x \in Scopes : cleaning'.picked[x] \subseteq expired[x]
  BY <1>3 DEF IInv, PicksExpired
<1> QED
  BY <1>1, <1>3, <1>4, <1>6, <1>7, <1>8, <1>9, CleaningInv

\* The cleanup lets go of the rows it has updated.
LEMMA CleanupReleases ==
  ASSUME TypeOK, lock' = Unlocked(Cleanup)
  PROVE  /\ lock' \in [Scopes -> Writers \cup {Cleanup, Free}]
         /\ \A w \in Writers, s \in Scopes : lock[s] = w <=> lock'[s] = w
         /\ \A s \in Scopes : lock'[s] # Cleanup
BY HoldersAssumption DEF TypeOK, Unlocked

LEMMA AbandonInv ==
  ASSUME IInv, Abandon
  PROVE  IInv'
<1>1. /\ UNCHANGED <<high, floor, events, expired, todo, draft>>
      /\ lock' = Unlocked(Cleanup) /\ cleaning' = Resting
  BY DEF Abandon, rows
<1>2. /\ lock' \in [Scopes -> Writers \cup {Cleanup, Free}]
      /\ \A w \in Writers, s \in Scopes : lock[s] = w <=> lock'[s] = w
      /\ \A s \in Scopes : lock'[s] # Cleanup
  BY <1>1, CleanupReleases DEF IInv
<1>3. cleaning' \in Cleaning /\ cleaning'.pc = "idle" /\ cleaning'.picked = None
  BY <1>1, RestingTyped
<1>4. SeenFirst' /\ RaisedFloors'
  BY <1>2, <1>3 DEF SeenFirst, RaisedFloors
<1>5. \A s \in Scopes : cleaning'.picked[s] \subseteq expired[s]
  BY <1>3 DEF None
<1> QED
  BY <1>1, <1>2, <1>3, <1>4, <1>5, CleaningInv

\* The check of the trigger makes the retained range exact: a scope to which
\* something was committed after the snapshot does not pass it unless the
\* snapshot still had an event of it.
LEMMA PrunedRange ==
  ASSUME IInv, Prune, NEW s \in Scopes
  PROVE  /\ events'[s] = floor'[s] .. high[s]
         /\ floor[s] <= floor'[s] /\ floor'[s] <= high[s] + 1 /\ floor'[s] \in 1..MaxHigh + 1
<1>1. /\ events'[s] = Left(s)
      /\ floor'[s] = IF s \in Touched THEN cleaning.floors[s] ELSE floor[s]
      /\ cleaning.pc = "deleted"
  BY DEF Prune
<1>2. /\ events[s] = floor[s] .. high[s] /\ floor[s] <= high[s] + 1
      /\ high[s] \in 0..MaxHigh /\ floor[s] \in 1..MaxHigh + 1 /\ MaxHigh \in Nat
  BY ScopeTypes DEF IInv, RetainedRange, FloorsReached
<1>3. CASE s \notin Touched
  BY <1>1, <1>2, <1>3 DEF Touched, Left
<1>4. CASE s \in Touched
  <2> DEFINE f == cleaning.floors[s]
  <2>1. lock[s] = Cleanup /\ Cardinality(Left(s)) = high[s] - f + 1
    BY <1>4 DEF Prune, Checked
  <2>2. f = NewFloor(s)
    BY <2>1 DEF IInv, RaisedFloors
  <2>3. /\ f \in 1..MaxHigh + 1 /\ floor[s] <= f /\ f <= high[s] + 1
        /\ cleaning.seen[s] # {} => \A n \in Left(s) : f <= n
        /\ cleaning.seen[s] = {} => f = high[s] + 1
    BY <1>1, <2>2, FloorRises DEF IInv
  <2> HIDE DEF f
  <2>4. Left(s) \subseteq floor[s] .. high[s]
    BY <1>2 DEF Left
  <2>5. Left(s) \in SUBSET (f .. high[s])
    <3>1. CASE cleaning.seen[s] # {}
      BY <1>2, <2>3, <2>4, <3>1
    <3>2. CASE cleaning.seen[s] = {}
      <4>1. Cardinality(Left(s)) = 0
        BY <1>2, <2>1, <2>3, <3>2
      <4>2. IsFiniteSet(Left(s))
        <5>1. floor[s] \in Int /\ high[s] \in Int
          BY <1>2
        <5>2. IsFiniteSet(floor[s] .. high[s])
          BY <5>1, FS_Interval
        <5> QED
          BY <2>4, <5>2, FS_Subset
      <4> QED
        BY <4>1, <4>2, FS_EmptySet
    <3> QED
      BY <3>1, <3>2
  <2>6. Left(s) = f .. high[s]
    BY <1>2, <2>1, <2>3, <2>5, FullRange
  <2> QED
    BY <1>1, <1>4, <2>3, <2>6 DEF f
<1> QED
  BY <1>3, <1>4

LEMMA PruneInv ==
  ASSUME IInv, Prune
  PROVE  IInv'
<1>0. TypeOK
  BY DEF IInv
<1>1. /\ UNCHANGED <<high, todo, draft>>
      /\ events' = [s \in Scopes |-> Left(s)]
      /\ expired' = [s \in Scopes |-> expired[s] \ cleaning.picked[s]]
      /\ floor' = [s \in Scopes |-> IF s \in Touched THEN cleaning.floors[s] ELSE floor[s]]
      /\ lock' = Unlocked(Cleanup) /\ cleaning' = Resting
  BY DEF Prune
<1>2. /\ lock' \in [Scopes -> Writers \cup {Cleanup, Free}]
      /\ \A w \in Writers, s \in Scopes : lock[s] = w <=> lock'[s] = w
      /\ \A s \in Scopes : lock'[s] # Cleanup
  BY <1>0, <1>1, CleanupReleases
<1>3. cleaning' \in Cleaning /\ cleaning'.pc = "idle" /\ cleaning'.picked = None
  BY <1>1, RestingTyped
<1>4. TypeOK'
  <2>1. floor' \in [Scopes -> 1..MaxHigh + 1]
    BY <1>1, PrunedRange
  <2>2. events' \in [Scopes -> SUBSET Sequences] /\ expired' \in [Scopes -> SUBSET Sequences]
    BY <1>0, <1>1 DEF TypeOK, Left
  <2> QED
    BY <1>0, <1>1, <1>2, <1>3, <2>1, <2>2 DEF TypeOK, Cleaning
<1>5. RetainedRange' /\ FloorsReached'
  BY <1>1, PrunedRange DEF RetainedRange, FloorsReached
<1>6. (DraftsContinue /\ TodoSorted)'
  BY <1>1 DEF IInv, DraftsContinue, TodoSorted
<1>7. SeenFirst' /\ RaisedFloors'
  BY <1>2, <1>3 DEF SeenFirst, RaisedFloors
<1>8. PicksExpired'
  BY <1>1, <1>3 DEF IInv, PicksExpired, Left, None
<1> QED
  BY <1>4, <1>5, <1>6, <1>7, <1>8 DEF IInv

LEMMA NextInv == IInv /\ [Next]_vars => IInv'
<1> SUFFICES ASSUME IInv, [Next]_vars PROVE IInv'
  OBVIOUS
<1>1. ASSUME NEW w \in Writers, (\E b \in Batches : Begin(w, b)) \/ AppendNext(w) \/ Commit(w) \/ Abort(w)
      PROVE  IInv'
  BY <1>1, BeginInv, AppendInv, CommitInv, AbortInv
<1>2. ASSUME NEW s \in Scopes, NEW n \in 1..MaxHigh, Expire(s, n)
      PROVE  IInv'
  BY <1>2, ExpireInv
<1>3. ASSUME NEW picked \in [Scopes -> SUBSET (1..MaxHigh)], Select(picked)
      PROVE  IInv'
  BY <1>3, SelectInv
<1>4. ASSUME NEW s \in Scopes, Raise(s)
      PROVE  IInv'
  BY <1>4, RaiseInv
<1>5. CASE Delete \/ Prune \/ Abandon
  BY <1>5, DeleteInv, PruneInv, AbandonInv
<1>6. CASE UNCHANGED vars
  <2>1. UNCHANGED <<high, floor, events, expired, lock, todo, draft, cleaning>>
    BY <1>6 DEF vars
  <2> QED
    <3>1. TypeOK' /\ RetainedRange' /\ FloorsReached'
      BY <2>1 DEF IInv, TypeOK, RetainedRange, FloorsReached
    <3>2. DraftsContinue' /\ TodoSorted' /\ PicksExpired'
      BY <2>1 DEF IInv, DraftsContinue, TodoSorted, PicksExpired
    <3>3. SeenFirst' /\ RaisedFloors'
      BY <2>1 DEF IInv, SeenFirst, RaisedFloors, Left, NewFloor
    <3> QED
      BY <3>1, <3>2, <3>3 DEF IInv
<1> QED
  BY <1>1, <1>2, <1>3, <1>4, <1>5, <1>6 DEF Next

-----------------------------------------------------------------------------
(* The theorems                                                            *)

\* The inductive invariant holds in every reachable state of every instance.
THEOREM Invariance == Spec => []IInv
<1> QED
  BY InitInv, NextInv, PTL DEF Spec

\* Rows, events, drafts and the cleanup are well typed, and a writer has a draft
\* in exactly the scopes whose rows it has updated.
THEOREM LogTyped == Spec => []TypeOK
<1>1. IInv => TypeOK
  BY DEF IInv
<1> QED
  BY <1>1, Invariance, PTL

\* Whatever is appended, aborted, expired and cleaned up in whatever order, what
\* is retained of a scope is the range that its row announces.
THEOREM RangesRetained == Spec => []RetainedRange
<1>1. IInv => RetainedRange
  BY DEF IInv
<1> QED
  BY <1>1, Invariance, PTL

\* So a checkpoint is accepted exactly when a replay after it has no gap.
THEOREM CheckpointsHold == Spec => []CheckpointsReplayable
<1>1. ASSUME IInv, NEW s \in Scopes, NEW after \in 0..MaxHigh
      PROVE  Checkpoint(s, after) = "ok" <=>
               after <= high[s] /\ after + 1 .. high[s] \subseteq events[s]
  <2>1. /\ events[s] = floor[s] .. high[s] /\ floor[s] <= high[s] + 1
        /\ high[s] \in Int /\ floor[s] \in Int /\ after \in Int
    BY <1>1, ScopeTypes DEF IInv, RetainedRange, FloorsReached
  <2>2. Checkpoint(s, after) = "ok" <=> ~(after < floor[s] - 1) /\ ~(after > high[s])
    BY DEF Checkpoint
  <2>3. CASE after = high[s]
    BY <2>1, <2>2, <2>3
  <2>4. CASE after < high[s]
    <3>1. after + 1 \in after + 1 .. high[s]
      BY <2>1, <2>4
    <3> QED
      BY <2>1, <2>2, <2>4, <3>1
  <2>5. CASE after > high[s]
    BY <2>1, <2>2, <2>5
  <2> QED
    BY <2>1, <2>3, <2>4, <2>5
<1>2. IInv => CheckpointsReplayable
  BY <1>1 DEF CheckpointsReplayable
<1> QED
  BY <1>2, Invariance, PTL

\* What becomes visible of a scope continues it exactly where it stood, and
\* neither its high water nor its floor ever goes back.
THEOREM SequencesContinued == Spec => SequencesContinue
<1> DEFINE Continues(s) == /\ events'[s] \ events[s] = high[s] + 1 .. high'[s]
                           /\ high'[s] >= high[s] /\ floor'[s] >= floor[s]
<1>1. ASSUME IInv, NEW s \in Scopes, UNCHANGED rows
      PROVE  Continues(s)
  <2>1. high[s] \in Int /\ floor[s] \in Int
    BY <1>1, ScopeTypes DEF IInv
  <2>2. high'[s] = high[s] /\ floor'[s] = floor[s] /\ events'[s] = events[s]
    BY <1>1 DEF rows
  <2> QED
    BY <2>1, <2>2
<1>2. ASSUME IInv, NEW s \in Scopes, NEW w \in Writers, Commit(w)
      PROVE  Continues(s)
  <2>1. /\ Reached(w, s) \in 0..MaxHigh /\ Reached(w, s) >= high[s]
        /\ draft[w][s] = high[s] + 1 .. Reached(w, s)
    BY <1>2, DraftRange DEF IInv
  <2>2. /\ events'[s] = events[s] \cup draft[w][s] /\ high'[s] = Reached(w, s)
        /\ floor'[s] = floor[s]
    BY <1>2 DEF Commit
  <2>3. events[s] = floor[s] .. high[s] /\ high[s] \in Nat /\ floor[s] \in Nat
    BY <1>2, ScopeTypes DEF IInv, RetainedRange
  <2> QED
    BY <2>1, <2>2, <2>3
<1>3. ASSUME IInv, NEW s \in Scopes, Prune
      PROVE  Continues(s)
  <2>1. /\ events'[s] \subseteq events[s] /\ high'[s] = high[s] /\ high[s] \in Nat
    BY <1>3, ScopeTypes DEF Prune, Left, IInv
  <2>2. floor[s] <= floor'[s] /\ floor[s] \in Int /\ floor'[s] \in Int
    BY <1>3, PrunedRange, ScopeTypes DEF IInv
  <2> QED
    BY <2>1, <2>2
<1>4. ASSUME IInv, Next, NEW s \in Scopes
      PROVE  Continues(s)
  <2> HIDE DEF Continues
  <2>1. \/ UNCHANGED rows \/ Prune \/ \E w \in Writers : Commit(w)
    BY <1>4, Zenon
       DEF Next, Begin, AppendNext, Abort, Expire, Select, Raise, Delete, Abandon
  <2> QED
    BY <1>1, <1>2, <1>3, <1>4, <2>1
<1>5. IInv /\ [Next]_vars => [\A s \in Scopes : Continues(s)]_vars
  BY <1>4
<1> QED
  BY <1>5, Invariance, PTL DEF Spec, SequencesContinue

\* No cleanup removes an event before its retention is over.
THEOREM ExpiredOnly == Spec => OnlyExpiredPruned
<1> DEFINE Expires(s) == events[s] \ events'[s] \subseteq expired[s]
<1>1. ASSUME IInv, Next, NEW s \in Scopes
      PROVE  Expires(s)
  <2>1. \/ UNCHANGED rows \/ Prune \/ \E w \in Writers : Commit(w)
    BY <1>1, Zenon
       DEF Next, Begin, AppendNext, Abort, Expire, Select, Raise, Delete, Abandon
  <2>2. CASE UNCHANGED rows
    BY <2>2 DEF rows
  <2>3. CASE Prune
    BY <1>1, <2>3 DEF Prune, Left, IInv, PicksExpired
  <2>4. CASE \E w \in Writers : Commit(w)
    BY <2>4 DEF Commit
  <2> QED
    BY <2>1, <2>2, <2>3, <2>4
<1>2. IInv /\ [Next]_vars => [\A s \in Scopes : Expires(s)]_vars
  BY <1>1
<1> QED
  BY <1>2, Invariance, PTL DEF Spec, OnlyExpiredPruned

\* A writer that waits for another stands at an earlier scope than that one.
LEMMA WaitsForLater ==
  ASSUME IInv, NEW w \in Writers, NEW v \in Writers, Awaits(w) = v, v # w,
         Awaits(v) \in Writers \ {v}
  PROVE  /\ Head(todo[w]) \in Nat /\ Head(todo[v]) \in Nat
         /\ Head(todo[w]) < Head(todo[v])
<1>1. /\ todo[w] # <<>> /\ lock[Head(todo[w])] = v
      /\ todo[v] # <<>> /\ lock[Head(todo[v])] # v
  BY HoldersAssumption DEF Awaits
<1>2. /\ Head(todo[w]) \in Scopes /\ Head(todo[v]) \in Scopes
  BY <1>1 DEF IInv, TypeOK
<1>3. draft[v][Head(todo[w])] # {}
  BY <1>1, <1>2 DEF IInv, TypeOK
<1>4. Head(todo[w]) <= Head(todo[v])
  BY <1>1, <1>2, <1>3 DEF IInv, TodoSorted
<1>5. Head(todo[w]) # Head(todo[v])
  BY <1>1
<1>6. Head(todo[w]) \in Nat /\ Head(todo[v]) \in Nat
  BY <1>2, ScopesAssumption
<1> QED
  BY <1>4, <1>5, <1>6

\* Transactions that append never wait for one another in a circle, because
\* every batch lists its scopes in one order and each waits only for a later one.
THEOREM WritersProceed ==
  ASSUME IsFiniteSet(Writers)
  PROVE  Spec => []WritersNeverDeadlock
<1>1. ASSUME IInv, NEW W \in SUBSET Writers, W # {}, \A w \in W : Awaits(w) \in W \ {w}
      PROVE  FALSE
  <2> DEFINE at(w) == Head(todo[w])
             Ahead(w) == {u \in W : at(u) > at(w)}
             Aheads == {Ahead(w) : w \in W}
  <2>1. \A w \in W : at(w) \in Nat /\ Awaits(w) \in W /\ at(w) < at(Awaits(w))
    BY <1>1, WaitsForLater
  <2> HIDE DEF at
  <2>2. \A w \in W : Ahead(Awaits(w)) \subseteq Ahead(w) /\ Ahead(Awaits(w)) # Ahead(w)
    <3> TAKE w \in W
    <3> DEFINE v == Awaits(w)
    <3>1. v \in W /\ at(w) < at(v) /\ at(w) \in Nat /\ at(v) \in Nat
      BY <2>1
    <3> HIDE DEF v
    <3>2. \A u \in W : at(u) > at(v) => at(u) > at(w)
      BY <2>1, <3>1
    <3>3. v \in Ahead(w) /\ v \notin Ahead(v)
      BY <3>1
    <3>4. Ahead(v) \subseteq Ahead(w) /\ Ahead(v) # Ahead(w)
      BY <3>2, <3>3
    <3> QED
      BY <3>4 DEF v
  <2>3. IsFiniteSet(W)
    BY FS_Subset
  <2>4. Aheads \subseteq FiniteSubsetsOf(W) /\ Aheads # {}
    <3>1. \A w \in W : Ahead(w) \in SUBSET W
      OBVIOUS
    <3>2. \A w \in W : IsFiniteSet(Ahead(w))
      BY <2>3, <3>1, FS_Subset
    <3> HIDE DEF Ahead
    <3>3. \A w \in W : Ahead(w) \in FiniteSubsetsOf(W)
      BY <3>1, <3>2 DEF FiniteSubsetsOf
    <3> QED
      BY <1>1, <3>3
  <2>5. PICK A \in Aheads : \A B \in Aheads : ~(<<B, A>> \in StrictSubsetOrdering(W))
    BY <2>4, FS_StrictSubsetOrderingWellFounded, WFMin
  <2>6. PICK w \in W : A = Ahead(w)
    OBVIOUS
  <2>7. Ahead(Awaits(w)) \in Aheads /\ Ahead(Awaits(w)) \in SUBSET W /\ A \in SUBSET W
    BY <2>1, <2>6
  <2>8. Ahead(Awaits(w)) \subseteq A /\ Ahead(Awaits(w)) # A
    BY <2>2, <2>6
  <2> HIDE DEF Ahead, Aheads
  <2>9. <<Ahead(Awaits(w)), A>> \in StrictSubsetOrdering(W)
    BY <2>7, <2>8 DEF StrictSubsetOrdering
  <2> QED
    BY <2>5, <2>7, <2>9
<1>2. IInv => WritersNeverDeadlock
  BY <1>1 DEF WritersNeverDeadlock
<1> QED
  BY <1>2, Invariance, PTL

=============================================================================
