----------------------- MODULE AdmissionPlannerProofs -----------------------
(***************************************************************************)
(* What planGrants guarantees, for every snapshot with finitely many       *)
(* owners and waiters.                                                     *)
(*                                                                         *)
(* The argument for kept slots: whether a waiter is live and whether an    *)
(* owner is needy can only change from true to false during a plan         *)
(* (NeedyShrinks), a grant to a needy owner uses up one of its own unmet   *)
(* slots, and any other grant either leaves the unmet slots covered by the *)
(* free ones or is made when nobody is needy (CoveredOrSatisfied).         *)
(***************************************************************************)
EXTENDS AdmissionPlanner, FiniteSetTheorems, TLAPS

CoveredOrSatisfied ==
  FreeCoversKept(snap, StartPlan(snap)) =>
    FreeCoversKept(snap, plan) \/ NeedyOwners(snap, plan) = {}

\* What the plan records about its grants.
GrantsRecorded ==
  /\ \A i \in 1 .. Len(plan.grants) : 
       /\ plan.grants[i].waiter \in Entries(snap)
       /\ plan.grants[i].waiter.req \in plan.taken
  /\ IsFiniteSet(GrantedWaiters)
  /\ Cardinality(GrantedWaiters) = Len(plan.grants)

IInv ==
  /\ TypeOK
  /\ IsFiniteSet(snap.waiters)
  /\ GrantsRecorded
  /\ LimitRespected
  /\ PoolCapsRespected
  /\ NoBorrowPastNeedyOwner
  /\ CoveredOrSatisfied
  /\ KeptSlotsServed
  /\ FifoAmongPeers
  /\ OneGrantPerRequest
-----------------------------------------------------------------------------
LEMMA NextClassType == \A c \in Classes : NextClass(c) \in Classes
  BY SMT DEF NextClass, Classes, PRIORITY_CLASS_COUNT

\* A decision over a nonempty set of classes keeps the scheduler well formed.
LEMMA DecideType ==
  ASSUME NEW st \in SchedulerState, NEW Q \in SUBSET Classes
  PROVE  Decide(st, Q).state \in SchedulerState
<1> DEFINE p == FirstFrom(st.cursor, Q)
           left == SpentCredit(st, p)
<1>1. p \in Classes
  BY NextClassType DEF FirstFrom, SchedulerState
<1>2. left \in Nat
  BY <1>1, QuantaAssumption DEF SpentCredit, SchedulerState
<1>3. CursorAfter(p, left) \in Classes
  BY <1>1, NextClassType DEF CursorAfter
<1>4. [c \in Classes |-> IF c = p THEN left ELSE IF c \in Q THEN st.deficits[c] ELSE 0]
        \in [Classes -> Nat]
  BY <1>2 DEF SchedulerState
<1> QED
  BY <1>3, <1>4 DEF Decide, SchedulerState

\* Unmet kept slots are finitely many.
LEMMA UnmetFinite ==
  ASSUME NEW s \in Snapshot, NEW p \in Plan
  PROVE  IsFiniteSet(Unmet(s, p)) /\ Cardinality(Unmet(s, p)) \in Nat
<1> DEFINE f == [o \in Owners |-> {o} \X (1 .. s.kept[o])]
           T == {{o} \X (1 .. s.kept[o]) : o \in Owners}
<1>1. f \in Surjection(Owners, T)
  BY Zenon DEF Surjection
<1>2. IsFiniteSet(T)
  BY <1>1, FS_Surjection, OwnersAssumption
<1>3. ASSUME NEW t \in T PROVE IsFiniteSet(t)
  <2> PICK o \in Owners : t = {o} \X (1 .. s.kept[o])
    OBVIOUS
  <2>1. s.kept[o] \in Nat
    BY DEF Snapshot
  <2>2. IsFiniteSet({o})
    BY FS_Singleton
  <2>3. IsFiniteSet(1 .. s.kept[o])
    BY SMTT(30), <2>1, FS_Interval
  <2> QED
    BY Zenon, <2>2, <2>3, FS_Product
<1>4. IsFiniteSet(UNION T)
  BY Zenon, <1>2, <1>3, FS_UNION
<1>5. Unmet(s, p) \in SUBSET UNION T
  BY DEF Unmet
<1>6. IsFiniteSet(Unmet(s, p))
  BY <1>4, <1>5, FS_Subset
<1> QED
  BY <1>6, FS_CardinalityType

\* An unmet slot belongs to an owner and lies above the owner's leases.
LEMMA UnmetMember ==
  ASSUME NEW s \in Snapshot, NEW p \in Plan, NEW o, NEW i
  PROVE  <<o, i>> \in Unmet(s, p) <=>
           o \in Owners /\ i \in 1 .. s.kept[o] /\ i > p.byOwner[o]
  BY DEF Unmet

LEMMA UnmetIsPair ==
  ASSUME NEW s \in Snapshot, NEW p \in Plan, NEW u \in Unmet(s, p)
  PROVE  u = <<u[1], u[2]>> /\ u[1] \in Owners
  BY DEF Unmet

LEMMA RemainingNonempty ==
  ASSUME NEW s \in Snapshot, NEW p \in Plan, NEW o \in Owners
  PROVE  Remaining(s, p, o) # {} <=> p.byOwner[o] < s.kept[o]
<1>0. p.byOwner[o] \in Nat /\ s.kept[o] \in Nat
  BY DEF Plan, Snapshot
<1>1. ASSUME p.byOwner[o] < s.kept[o] PROVE Remaining(s, p, o) # {}
  <2>1. <<o, s.kept[o]>> \in Unmet(s, p)
    BY <1>0, <1>1, UnmetMember
  <2> QED
    BY <2>1 DEF Remaining
<1>2. ASSUME Remaining(s, p, o) # {} PROVE p.byOwner[o] < s.kept[o]
  <2> PICK u \in Unmet(s, p) : u[1] = o
    BY <1>2 DEF Remaining
  <2>1. <<o, u[2]>> \in Unmet(s, p)
    BY UnmetIsPair
  <2> QED
    BY <2>1, <1>0, UnmetMember
<1> QED
  BY <1>1, <1>2
-----------------------------------------------------------------------------
(* One grant. *)

LEMMA GrantTyped ==
  ASSUME NEW s \in Snapshot, NEW p \in Plan, NEW w \in Eligible(s, p)
  PROVE  /\ w \in Waiter /\ w \in Entries(s) /\ Live(s, p, w) /\ ~Blocked(s, p, w)
         /\ Granted(s, p, w) \in Plan
<1>1. w \in Waiter /\ w \in Entries(s) /\ Live(s, p, w) /\ ~Blocked(s, p, w)
  BY DEF Eligible, Entries, Snapshot
<1>2. \A v \in Eligible(s, p) : v.prio \in Classes
  BY DEF Eligible, Entries, Snapshot, Waiter
<1>3. Decision(s, p).state \in SchedulerState
  BY <1>2, DecideType DEF Decision, Plan
<1>4. Borrows(s, p, w) \in BOOLEAN
  BY DEF Borrows
<1>5. Append(p.grants, [waiter |-> w, borrowed |-> Borrows(s, p, w)])
        \in Seq([waiter : Waiter, borrowed : BOOLEAN])
  BY <1>1, <1>4 DEF Plan
<1>6. w.owner \in Owners /\ w.req \in Requests /\ w.pool \in Pools \cup {Null}
  BY <1>1 DEF Waiter
<1>7. [p.byOwner EXCEPT ![w.owner] = @ + 1] \in [Owners -> Nat]
  BY <1>6 DEF Plan
<1>8. (IF w.pool = Null THEN p.byPool ELSE [p.byPool EXCEPT ![w.pool] = @ + 1]) \in [Pools -> Nat]
  BY <1>6 DEF Plan
<1>9. p.active + 1 \in Nat /\ p.taken \cup {w.req} \in SUBSET Requests
  BY <1>6 DEF Plan
<1> QED
  BY <1>1, <1>3, <1>5, <1>7, <1>8, <1>9 DEF Granted, Plan

\* A grant to an owner with unmet kept slots uses one of them up; any other
\* grant leaves them alone.
LEMMA UnmetAfterGrant ==
  ASSUME NEW s \in Snapshot, NEW p \in Plan, NEW w \in Eligible(s, p)
  PROVE  LET q == Granted(s, p, w)
         IN  /\ Remaining(s, p, w.owner) = {} => Unmet(s, q) = Unmet(s, p)
             /\ Remaining(s, p, w.owner) # {} =>
                  Cardinality(Unmet(s, q)) = Cardinality(Unmet(s, p)) - 1
<1> DEFINE q == Granted(s, p, w)
           o == w.owner
           n == p.byOwner[o] + 1
<1>1. q \in Plan /\ o \in Owners
  BY GrantTyped DEF Waiter
<1>2. p.byOwner \in [Owners -> Nat] /\ q.byOwner = [p.byOwner EXCEPT ![o] = @ + 1]
  BY DEF Granted, Plan
<1>3. s.kept \in [Owners -> Nat]
  BY DEF Snapshot
<1>4. Unmet(s, q) = Unmet(s, p) \ {<<o, n>>}
  <2>1. ASSUME NEW u \in Unmet(s, q) PROVE u \in Unmet(s, p) \ {<<o, n>>}
    <3>1. u = <<u[1], u[2]>> /\ <<u[1], u[2]>> \in Unmet(s, q)
      BY <1>1, UnmetIsPair
    <3>2. u[1] \in Owners /\ u[2] \in 1 .. s.kept[u[1]] /\ u[2] > q.byOwner[u[1]]
      BY <3>1, <1>1, UnmetMember
    <3>3. u[2] > p.byOwner[u[1]] /\ (u[1] = o => u[2] # n)
      BY <3>2, <1>1, <1>2, <1>3
    <3>4. <<u[1], u[2]>> \in Unmet(s, p)
      BY <3>2, <3>3, UnmetMember
    <3>5. u # <<o, n>>
      BY <3>1, <3>3
    <3> QED
      BY <3>1, <3>4, <3>5
  <2>2. ASSUME NEW u \in Unmet(s, p), u # <<o, n>> PROVE u \in Unmet(s, q)
    <3>1. u = <<u[1], u[2]>> /\ <<u[1], u[2]>> \in Unmet(s, p)
      BY UnmetIsPair
    <3>2. u[1] \in Owners /\ u[2] \in 1 .. s.kept[u[1]] /\ u[2] > p.byOwner[u[1]]
      BY <3>1, UnmetMember
    <3>3. u[1] = o => u[2] # n
      BY <3>1, <2>2
    <3>4. u[2] > q.byOwner[u[1]]
      BY <3>2, <3>3, <1>1, <1>2, <1>3
    <3>5. <<u[1], u[2]>> \in Unmet(s, q)
      BY <3>2, <3>4, <1>1, UnmetMember
    <3> QED
      BY <3>1, <3>5
  <2> QED
    BY <2>1, <2>2
<1>5. <<o, n>> \in Unmet(s, p) <=> Remaining(s, p, o) # {}
  BY <1>1, <1>2, <1>3, UnmetMember, RemainingNonempty
<1>6. IsFiniteSet(Unmet(s, p))
  BY UnmetFinite
<1>7. Remaining(s, p, o) = {} => Unmet(s, q) = Unmet(s, p)
  BY <1>4, <1>5
<1>8. <<o, n>> \in Unmet(s, p) => Cardinality(Unmet(s, p) \ {<<o, n>>}) = Cardinality(Unmet(s, p)) - 1
  BY Zenon, <1>6, FS_RemoveElement
<1> QED
  BY <1>4, <1>5, <1>7, <1>8

\* Nobody becomes needy during a plan.
LEMMA NeedyShrinks ==
  ASSUME NEW s \in Snapshot, NEW p \in Plan, NEW w \in Eligible(s, p)
  PROVE  NeedyOwners(s, Granted(s, p, w)) \subseteq NeedyOwners(s, p)
<1> DEFINE q == Granted(s, p, w)
<1> SUFFICES ASSUME NEW o \in NeedyOwners(s, q) PROVE o \in NeedyOwners(s, p)
  OBVIOUS
<1>1. q \in Plan /\ w \in Waiter /\ o \in Owners
  BY GrantTyped DEF NeedyOwners
<1>2. PICK v \in Entries(s) : v.owner = o /\ Live(s, q, v)
  BY DEF NeedyOwners
<1>3. v \in Waiter
  BY <1>2 DEF Entries, Snapshot
<1>4. Live(s, p, v)
  <2>1. p.taken \subseteq q.taken
    BY DEF Granted
  <2>2. v.pool = Null \/ p.byPool[v.pool] <= q.byPool[v.pool]
    BY SMTT(30), <1>1, <1>3 DEF Granted, Plan, Waiter
  <2>3. v.pool = Null \/ (p.byPool[v.pool] \in Nat /\ q.byPool[v.pool] \in Nat)
    BY <1>1, <1>3 DEF Plan, Waiter
  <2>4. v.cap \in NatOrNull
    BY <1>3 DEF Waiter
  <2> QED
    BY <1>2, <2>1, <2>2, <2>3, <2>4 DEF Live, NatOrNull
<1>5. Remaining(s, q, o) # {}
  BY DEF NeedyOwners
<1>6. q.byOwner[o] < s.kept[o]
  BY <1>1, <1>5, RemainingNonempty
<1>9. p.byOwner[o] <= q.byOwner[o]
  BY SMTT(30), <1>1 DEF Granted, Plan, Waiter
<1>7. p.byOwner[o] < s.kept[o]
  BY <1>1, <1>6, <1>9 DEF Plan, Snapshot
<1>8. Remaining(s, p, o) # {}
  BY <1>1, <1>7, RemainingNonempty
<1> QED
  BY <1>1, <1>2, <1>4, <1>8 DEF NeedyOwners

\* A borrower is eligible only when nobody is needy.
LEMMA BorrowerMeansNobodyNeedy ==
  ASSUME NEW s \in Snapshot, NEW p \in Plan, NEW w \in Eligible(s, p), Borrows(s, p, w)
  PROVE  NeedyOwners(s, p) = {}
<1>1. NeedyOwners(s, p) \ {w.owner} = {}
  BY GrantTyped DEF Blocked
<1>2. w.owner \notin NeedyOwners(s, p)
  BY DEF Borrows, NeedyOwners
<1> QED
  BY <1>1, <1>2

\* An owner that is needy always has an eligible waiter.
LEMMA NeedyIsEligible ==
  ASSUME NEW s \in Snapshot, NEW p \in Plan, NEW o \in NeedyOwners(s, p)
  PROVE  Eligible(s, p) # {}
<1> PICK w \in Entries(s) : w.owner = o /\ Live(s, p, w)
  BY DEF NeedyOwners
<1>1. ~Borrows(s, p, w)
  BY DEF NeedyOwners, Borrows
<1> QED
  BY <1>1 DEF Eligible, Blocked

\* Stopping changes none of what the rules read.
LEMMA StopKeepsRules ==
  ASSUME NEW s \in Snapshot, NEW p \in Plan, NEW r \in {"none", "limit"}
  PROVE  LET q == [p EXCEPT !.stoppedBy = r]
         IN  /\ q \in Plan /\ q.stoppedBy = r
             /\ q.active = p.active /\ q.byPool = p.byPool
             /\ q.grants = p.grants /\ q.taken = p.taken
             /\ Unmet(s, q) = Unmet(s, p)
             /\ NeedyOwners(s, q) = NeedyOwners(s, p)
<1> DEFINE q == [p EXCEPT !.stoppedBy = r]
<1>1. /\ q \in Plan /\ q.stoppedBy = r
      /\ q.active = p.active /\ q.byPool = p.byPool /\ q.byOwner = p.byOwner
      /\ q.grants = p.grants /\ q.taken = p.taken
  BY Zenon DEF Plan
<1>2. Unmet(s, q) = Unmet(s, p)
  BY <1>1 DEF Unmet
<1>3. NeedyOwners(s, q) = NeedyOwners(s, p)
  BY <1>1, <1>2 DEF NeedyOwners, Remaining, Live
<1> QED
  BY <1>1, <1>2, <1>3

\* Appending a grant of w adds w, and only w, to the granted waiters.
LEMMA GrantsAfter ==
  ASSUME NEW s \in Snapshot, NEW p \in Plan, NEW w \in Eligible(s, p)
  PROVE  LET g == p.grants
             h == Granted(s, p, w).grants
         IN  /\ Len(h) = Len(g) + 1 /\ Len(g) \in Nat
             /\ \A i \in 1 .. Len(g) : h[i] = g[i]
             /\ h[Len(h)].waiter = w
             /\ h[Len(h)].borrowed = Borrows(s, p, w)
<1>1. /\ p.grants \in Seq([waiter : Waiter, borrowed : BOOLEAN])
      /\ [waiter |-> w, borrowed |-> Borrows(s, p, w)] \in [waiter : Waiter, borrowed : BOOLEAN]
  BY Zenon, GrantTyped DEF Plan, Borrows
<1>2. Granted(s, p, w).grants = Append(p.grants, [waiter |-> w, borrowed |-> Borrows(s, p, w)])
  BY DEF Granted
<1> QED
  BY <1>1, <1>2
-----------------------------------------------------------------------------
LEMMA InitEstablishes ==
  ASSUME Init
  PROVE  IInv
<1>1. snap \in Snapshot /\ IsFiniteSet(snap.waiters) /\ plan = StartPlan(snap)
  BY SnapshotsAssumption DEF Init
<1>2. plan \in Plan
  BY <1>1 DEF StartPlan, Plan, Snapshot
<1>3. plan.grants = <<>> /\ Len(plan.grants) = 0 /\ plan.stoppedBy = Null
  BY <1>1 DEF StartPlan
<1>4. 1 .. Len(plan.grants) = {}
  BY <1>3
<1>5. GrantedWaiters = {}
  BY <1>4 DEF GrantedWaiters
<1>6. GrantsRecorded
  BY <1>3, <1>4, <1>5, FS_EmptySet DEF GrantsRecorded
<1>7. CoveredOrSatisfied
  BY <1>1 DEF CoveredOrSatisfied
<1>8. KeptSlotsServed
  BY <1>3, NullAssumption DEF KeptSlotsServed
<1> QED
  BY <1>1, <1>2, <1>3, <1>4, <1>5, <1>6, <1>7, <1>8
  DEF IInv, TypeOK, LimitRespected, PoolCapsRespected, NoBorrowPastNeedyOwner,
      FifoAmongPeers, OneGrantPerRequest

\* With the rules untouched, every conjunct but KeptSlotsServed carries over.
LEMMA StopPreserves ==
  ASSUME IInv, NEW r \in {"none", "limit"}, Stop(r), NeedyOwners(snap, plan) = {} \/ ~FreeCoversKept(snap, StartPlan(snap))
  PROVE  IInv'
<1> USE DEF IInv
<1>1. snap' = snap /\ plan' = [plan EXCEPT !.stoppedBy = r] /\ snap \in Snapshot /\ plan \in Plan
  BY DEF Stop, TypeOK
<1>2. /\ plan' \in Plan /\ plan'.active = plan.active /\ plan'.byPool = plan.byPool
      /\ plan'.grants = plan.grants /\ plan'.taken = plan.taken
      /\ Unmet(snap, plan') = Unmet(snap, plan)
      /\ NeedyOwners(snap, plan') = NeedyOwners(snap, plan)
  BY Zenon, <1>1, StopKeepsRules
<1>3. GrantedWaiters' = GrantedWaiters
  BY <1>2 DEF GrantedWaiters
<1>4. TypeOK' /\ IsFiniteSet(snap'.waiters) /\ GrantsRecorded' /\ LimitRespected'
  BY <1>1, <1>2, <1>3 DEF TypeOK, GrantsRecorded, LimitRespected
<1>5. PoolCapsRespected' /\ NoBorrowPastNeedyOwner'
  BY <1>1, <1>2, <1>3 DEF PoolCapsRespected, NoBorrowPastNeedyOwner
<1>6. CoveredOrSatisfied' /\ KeptSlotsServed'
  BY <1>1, <1>2 DEF CoveredOrSatisfied, KeptSlotsServed, FreeCoversKept
<1>7. FifoAmongPeers' /\ OneGrantPerRequest'
  BY <1>1, <1>2, <1>3 DEF FifoAmongPeers, OneGrantPerRequest
<1> QED
  BY <1>4, <1>5, <1>6, <1>7

\* A full capacity whose free slots cover the unmet kept ones has none unmet.
LEMMA LimitServesKept ==
  ASSUME IInv, StopAtLimit
  PROVE  NeedyOwners(snap, plan) = {} \/ ~FreeCoversKept(snap, StartPlan(snap))
<1> SUFFICES ASSUME FreeCoversKept(snap, plan) PROVE NeedyOwners(snap, plan) = {}
  BY DEF IInv, CoveredOrSatisfied
<1>1. snap \in Snapshot /\ plan \in Plan
  BY DEF IInv, TypeOK
<1>2. snap.limit \in Nat /\ plan.active \in Nat /\ plan.active >= snap.limit
  BY <1>1 DEF StopAtLimit, AtLimit, Snapshot, Plan, NatOrNull
<1>3. IsFiniteSet(Unmet(snap, plan)) /\ Cardinality(Unmet(snap, plan)) \in Nat
  BY <1>1, UnmetFinite
<1>4. Cardinality(Unmet(snap, plan)) = 0
  BY <1>2, <1>3, NullAssumption DEF FreeCoversKept
<1>5. Unmet(snap, plan) = {}
  BY <1>3, <1>4, FS_EmptySet
<1> QED
  BY <1>5 DEF NeedyOwners, Remaining

LEMMA NoneServesKept ==
  ASSUME IInv, StopNoneEligible
  PROVE  NeedyOwners(snap, plan) = {}
  BY NeedyIsEligible DEF IInv, TypeOK, StopNoneEligible
-----------------------------------------------------------------------------
\* A grant preserves the invariant, conjunct by conjunct.
LEMMA GrantPreserves ==
  ASSUME IInv, GrantNext
  PROVE  IInv'
<1> USE DEF IInv
<1>1. PICK w \in Eligible(snap, plan) : IsWinner(snap, plan, w) /\ plan' = Granted(snap, plan, w)
  BY DEF GrantNext
<1>2. snap' = snap /\ ~AtLimit(snap, plan) /\ snap \in Snapshot /\ plan \in Plan
  BY DEF GrantNext, TypeOK
<1>3. /\ w \in Waiter /\ w \in Entries(snap) /\ Live(snap, plan, w)
      /\ ~Blocked(snap, plan, w) /\ plan' \in Plan
  BY <1>1, <1>2, GrantTyped
<1>4. /\ Len(plan'.grants) = Len(plan.grants) + 1 /\ Len(plan.grants) \in Nat
      /\ \A i \in 1 .. Len(plan.grants) : plan'.grants[i] = plan.grants[i]
      /\ plan'.grants[Len(plan'.grants)].waiter = w
      /\ plan'.grants[Len(plan'.grants)].borrowed = Borrows(snap, plan, w)
  BY <1>1, <1>2, GrantsAfter
<1>5. /\ plan'.active = plan.active + 1 /\ plan'.taken = plan.taken \cup {w.req}
      /\ plan'.byPool = IF w.pool = Null THEN plan.byPool ELSE [plan.byPool EXCEPT ![w.pool] = @ + 1]
  BY <1>1 DEF Granted
<1>6. w.req \notin plan.taken
  BY <1>3 DEF Live
<1>7. NeedyOwners(snap, plan') \subseteq NeedyOwners(snap, plan)
  BY <1>1, <1>2, NeedyShrinks
<1>8. GrantedWaiters' = GrantedWaiters \cup {w} /\ w \notin GrantedWaiters
  <2>1. ASSUME NEW v \in GrantedWaiters' PROVE v \in GrantedWaiters \cup {w}
    <3> PICK i \in 1 .. Len(plan'.grants) : v = plan'.grants[i].waiter
      BY DEF GrantedWaiters
    <3> QED
      BY SMTT(30), <1>4 DEF GrantedWaiters
  <2>2. ASSUME NEW v \in GrantedWaiters PROVE v \in GrantedWaiters'
    <3> PICK i \in 1 .. Len(plan.grants) : v = plan.grants[i].waiter
      BY DEF GrantedWaiters
    <3> QED
      BY SMTT(30), <1>4 DEF GrantedWaiters
  <2>3. w \in GrantedWaiters'
    BY <1>4 DEF GrantedWaiters
  <2>4. w \notin GrantedWaiters
    BY <1>6 DEF GrantedWaiters, GrantsRecorded
  <2> QED
    BY <2>1, <2>2, <2>3, <2>4
<1>9. TypeOK' /\ IsFiniteSet(snap'.waiters)
  BY <1>2, <1>3 DEF TypeOK
<1>10. GrantsRecorded'
  <2>1. ASSUME NEW i \in 1 .. Len(plan'.grants)
        PROVE  plan'.grants[i].waiter \in Entries(snap) /\ plan'.grants[i].waiter.req \in plan'.taken
    BY SMTT(30), <1>3, <1>4, <1>5 DEF GrantsRecorded
  <2>2. IsFiniteSet(GrantedWaiters') /\ Cardinality(GrantedWaiters') = Len(plan'.grants)
    <3>1. IsFiniteSet(GrantedWaiters) /\ Cardinality(GrantedWaiters) = Len(plan.grants)
      BY DEF GrantsRecorded
    <3>2. IsFiniteSet(GrantedWaiters \cup {w})
          /\ Cardinality(GrantedWaiters \cup {w}) = Cardinality(GrantedWaiters) + 1
      BY <1>8, <3>1, FS_AddElement
    <3> QED
      BY <1>4, <1>8, <3>1, <3>2
  <2> QED
    BY <1>2, <2>1, <2>2 DEF GrantsRecorded
<1>11. LimitRespected'
  BY <1>2, <1>5 DEF LimitRespected, AtLimit, Snapshot, Plan, NatOrNull
<1>12. PoolCapsRespected'
  <2> SUFFICES ASSUME NEW q \in Pools,
                      \E v \in GrantedWaiters' : v.pool = q,
                      \A v \in GrantedWaiters' : v.pool = q => v.cap # Null
               PROVE  \E v \in GrantedWaiters' : v.pool = q /\ plan'.byPool[q] <= v.cap
    BY DEF PoolCapsRespected
  <2>1. CASE w.pool = q
    <3>1. plan.byPool[q] < w.cap /\ plan'.byPool[q] = plan.byPool[q] + 1
      BY <1>2, <1>3, <1>5, <1>8, <2>1, NullAssumption DEF Live, Plan
    <3>2. plan.byPool[q] \in Nat /\ w.cap \in Nat
      BY Zenon, <1>2, <1>3, <1>8, <2>1 DEF Plan, Waiter, NatOrNull
    <3>3. plan'.byPool[q] <= w.cap
      BY <3>1, <3>2
    <3> QED
      BY <1>8, <2>1, <3>3
  <2>2. CASE w.pool # q
    <3>1. plan'.byPool[q] = plan.byPool[q]
      BY <1>2, <1>5, <2>2 DEF Plan
    <3>2. \E v \in GrantedWaiters : v.pool = q /\ plan.byPool[q] <= v.cap
      BY <1>8, <2>2 DEF PoolCapsRespected
    <3> QED
      BY <1>8, <3>1, <3>2
  <2> QED
    BY <2>1, <2>2
<1>13. NoBorrowPastNeedyOwner'
  <2> SUFFICES ASSUME NEW i \in 1 .. Len(plan'.grants), plan'.grants[i].borrowed
               PROVE  NeedyOwners(snap, plan') = {}
    BY <1>2 DEF NoBorrowPastNeedyOwner
  <2>1. CASE i \in 1 .. Len(plan.grants)
    BY <1>4, <1>7, <2>1 DEF NoBorrowPastNeedyOwner
  <2>2. CASE i = Len(plan'.grants)
    BY <1>1, <1>2, <1>4, <1>7, <2>2, BorrowerMeansNobodyNeedy
  <2> QED
    BY <1>4, <2>1, <2>2
<1>14. CoveredOrSatisfied'
  <2> SUFFICES ASSUME FreeCoversKept(snap, plan), NeedyOwners(snap, plan) # {}, snap.limit # Null
               PROVE  FreeCoversKept(snap, plan')
    BY <1>2, <1>7 DEF CoveredOrSatisfied, FreeCoversKept
  <2>0. Cardinality(Unmet(snap, plan)) \in Nat
    BY <1>2, UnmetFinite
  <2>1. /\ snap.limit \in Nat /\ plan.active \in Nat /\ plan.active < snap.limit
        /\ Cardinality(Unmet(snap, plan)) \in Nat
        /\ Cardinality(Unmet(snap, plan)) <= snap.limit - plan.active
    BY <1>2, <2>0 DEF AtLimit, FreeCoversKept, Snapshot, Plan, NatOrNull
  <2>2. CASE Remaining(snap, plan, w.owner) # {}
    BY <1>1, <1>2, <1>5, <2>1, <2>2, UnmetAfterGrant DEF FreeCoversKept
  <2>3. CASE Remaining(snap, plan, w.owner) = {}
    <3>1. Unmet(snap, plan') = Unmet(snap, plan)
      BY <1>1, <1>2, <2>3, UnmetAfterGrant
    <3>2. ~Borrows(snap, plan, w)
      BY <1>1, <1>2, BorrowerMeansNobodyNeedy
    <3>3. Unmet(snap, plan) \ Remaining(snap, plan, w.owner) = Unmet(snap, plan)
      BY <2>3
    <3>4. Unmet(snap, plan) = {} \/ ~(snap.limit - plan.active <= Cardinality(Unmet(snap, plan)))
      BY <2>3, <3>2, <3>3 DEF Borrows
    <3>5. Unmet(snap, plan) = {} => Cardinality(Unmet(snap, plan)) = 0
      BY FS_EmptySet
    <3>6. Cardinality(Unmet(snap, plan)) <= snap.limit - (plan.active + 1)
      BY <2>1, <3>4, <3>5
    <3> QED
      BY <1>5, <3>1, <3>6 DEF FreeCoversKept
  <2> QED
    BY <2>2, <2>3
<1>15. KeptSlotsServed'
  BY <1>1, NullAssumption DEF Granted, KeptSlotsServed
<1>16. FifoAmongPeers'
  <2> SUFFICES ASSUME NEW v \in Entries(snap), Peers(v, w), Precedes(v, w), v.req \notin plan.taken
               PROVE  FALSE
    BY <1>2, <1>5, <1>8 DEF FifoAmongPeers
  <2>1. Live(snap, plan, v)
    BY <1>3 DEF Live, Peers
  <2>2. ~Blocked(snap, plan, v)
    BY <1>3 DEF Blocked, Borrows, Peers
  <2> QED
    BY <1>1, <2>1, <2>2 DEF IsWinner, IsClassHead, Eligible, Peers
<1>17. OneGrantPerRequest'
  <2> SUFFICES ASSUME NEW i \in 1 .. Len(plan'.grants), NEW j \in 1 .. Len(plan'.grants),
                      plan'.grants[i].waiter.req = plan'.grants[j].waiter.req, i < j
               PROVE  FALSE
    BY SMTT(30), <1>4 DEF OneGrantPerRequest
  <2>1. i \in 1 .. Len(plan.grants)
    BY <1>4
  <2>2. plan'.grants[i].waiter.req \in plan.taken
    BY SMTT(30), <1>4, <2>1 DEF GrantsRecorded
  <2>3. CASE j = Len(plan'.grants)
    BY <1>4, <1>6, <2>2, <2>3
  <2>4. CASE j \in 1 .. Len(plan.grants)
    BY SMTT(30), <1>4, <2>1, <2>4 DEF OneGrantPerRequest
  <2> QED
    BY <1>4, <2>3, <2>4
<1> QED
  BY <1>9, <1>10, <1>11, <1>12, <1>13, <1>14, <1>15, <1>16, <1>17

\* The inductive invariant holds throughout every plan.
THEOREM Invariance == Spec => []IInv
<1>1. Init => IInv
  BY InitEstablishes
<1>2. IInv /\ [Next]_vars => IInv'
  <2> SUFFICES ASSUME IInv, [Next]_vars PROVE IInv'
    OBVIOUS
  <2>1. CASE StopAtLimit
    BY <2>1, LimitServesKept, StopPreserves DEF StopAtLimit
  <2>2. CASE StopNoneEligible
    BY <2>2, NoneServesKept, StopPreserves DEF StopNoneEligible
  <2>3. CASE GrantNext
    BY <2>3, GrantPreserves
  <2>4. CASE Done \/ UNCHANGED vars
    <3>1. snap' = snap /\ plan' = plan
      BY <2>4 DEF Done, vars
    <3>2. GrantedWaiters' = GrantedWaiters
      BY <3>1 DEF GrantedWaiters
    <3>3. PoolCapsRespected' /\ FifoAmongPeers' /\ OneGrantPerRequest' /\ GrantsRecorded'
      BY <3>1, <3>2 DEF IInv, PoolCapsRespected, FifoAmongPeers, OneGrantPerRequest, GrantsRecorded
    <3>4. TypeOK' /\ LimitRespected' /\ NoBorrowPastNeedyOwner' /\ CoveredOrSatisfied' /\ KeptSlotsServed'
      BY <3>1 DEF IInv, TypeOK, LimitRespected, NoBorrowPastNeedyOwner, CoveredOrSatisfied, KeptSlotsServed
    <3> QED
      BY <3>1, <3>3, <3>4 DEF IInv
  <2> QED
    BY <2>1, <2>2, <2>3, <2>4 DEF Next
<1> QED
  BY <1>1, <1>2, PTL DEF Spec

\* planGrants keeps snapshot, plan and scheduler state well formed.
THEOREM Typing == Spec => []TypeOK
<1>1. IInv => TypeOK
  BY DEF IInv
<1> QED
  BY <1>1, Invariance, PTL

\* No plan, however long, raises a capacity above its physical limit or a
\* pool above the ceiling its waiters were queued with.
THEOREM WithinLimits == Spec => [](LimitRespected /\ PoolCapsRespected)
<1>1. IInv => LimitRespected /\ PoolCapsRespected
  BY DEF IInv
<1> QED
  BY <1>1, Invariance, PTL

\* A kept slot is lent only when no owner that keeps slots could use one.
THEOREM BorrowingIsSafe == Spec => []NoBorrowPastNeedyOwner
<1>1. IInv => NoBorrowPastNeedyOwner
  BY DEF IInv
<1> QED
  BY <1>1, Invariance, PTL

\* When the free slots cover the unmet kept slots, a fill pass serves them.
THEOREM KeptSlotsAreKept == Spec => []KeptSlotsServed
<1>1. IInv => KeptSlotsServed
  BY DEF IInv
<1> QED
  BY <1>1, Invariance, PTL

\* Waiters under one policy are granted in queue order.
THEOREM QueueOrder == Spec => []FifoAmongPeers
<1>1. IInv => FifoAmongPeers
  BY DEF IInv
<1> QED
  BY <1>1, Invariance, PTL

\* No request is granted two slots by one plan.
THEOREM SingleGrant == Spec => []OneGrantPerRequest
<1>1. IInv => OneGrantPerRequest
  BY DEF IInv
<1> QED
  BY <1>1, Invariance, PTL

\* The loop of planGrants is never cut short by its step bound, because every
\* grant takes another waiter of a finite queue.
THEOREM LoopBound == Spec => []StepsSuffice
<1>1. ASSUME IInv PROVE StepsSuffice
  <2>1. GrantedWaiters \subseteq snap.waiters
    BY <1>1 DEF IInv, GrantsRecorded, GrantedWaiters, Entries
  <2>2. Cardinality(GrantedWaiters) <= Cardinality(snap.waiters)
    BY <1>1, <2>1, FS_Subset DEF IInv
  <2>3. Cardinality(snap.waiters) \in Nat /\ Len(plan.grants) \in Nat
    BY <1>1, FS_CardinalityType DEF IInv, TypeOK, Plan
  <2> QED
    BY <1>1, <2>2, <2>3 DEF IInv, GrantsRecorded, StepsSuffice, OutOfSteps, MaxSteps
<1> QED
  BY <1>1, Invariance, PTL
=============================================================================
