-------------------------- MODULE AdmissionPlanner --------------------------
(***************************************************************************)
(* planGrants as the loop it is: from one snapshot, one grant per step     *)
(* until a stop condition holds.  It is pure, so nothing interleaves with  *)
(* it; the interest is in what several steps add up to.                    *)
(***************************************************************************)
EXTENDS PlannerRules

CONSTANT Snapshots

ASSUME SnapshotsAssumption == 
  Snapshots \subseteq {s \in Snapshot : IsFiniteSet(s.waiters)}

VARIABLES snap, plan

vars == <<snap, plan>>

Init == snap \in Snapshots /\ plan = StartPlan(snap)

Running == plan.stoppedBy = Null

\* The for loop's bound; with it reached the plan would end with reason "progress".
OutOfSteps == Len(plan.grants) >= MaxSteps(snap)

Stop(reason) ==
  /\ plan' = [plan EXCEPT !.stoppedBy = reason]
  /\ UNCHANGED snap

StopAtLimit == Running /\ ~OutOfSteps /\ AtLimit(snap, plan) /\ Stop("limit")

StopNoneEligible ==
  /\ Running /\ ~OutOfSteps /\ ~AtLimit(snap, plan)
  /\ Eligible(snap, plan) = {}
  /\ Stop("none")

GrantNext ==
  /\ Running /\ ~OutOfSteps /\ ~AtLimit(snap, plan)
  /\ \E w \in Eligible(snap, plan) : 
       /\ IsWinner(snap, plan, w)
       /\ plan' = Granted(snap, plan, w)
  /\ UNCHANGED snap

Done == ~Running /\ UNCHANGED vars

Next == StopAtLimit \/ StopNoneEligible \/ GrantNext \/ Done

Spec == Init /\ [][Next]_vars
-----------------------------------------------------------------------------
\* Snapshot and plan stay well formed, the scheduler state included.
TypeOK == snap \in Snapshot /\ plan \in Plan

GrantedWaiters == {plan.grants[i].waiter : i \in 1 .. Len(plan.grants)}

\* A plan never raises a capacity above its physical limit: a capacity that is
\* already above it (the limit was lowered) is granted nothing.
LimitRespected ==
  snap.limit # Null => plan.active <= snap.limit \/ plan.grants = <<>>

\* A pool's ceiling holds across one plan: with every grant counted, the pool
\* stays within the largest ceiling frozen on one of its granted waiters.
PoolCapsRespected ==
  \A q \in Pools :
    LET mine == {w \in GrantedWaiters : w.pool = q}
    IN  (mine # {} /\ \A w \in mine : w.cap # Null) =>
          \E w \in mine : plan.byPool[q] <= w.cap

\* Kept slots are a guarantee: once a plan lends a kept slot to another owner,
\* no owner with unmet kept slots has a waiter that could still use one.
NoBorrowPastNeedyOwner ==
  (\E i \in 1 .. Len(plan.grants) : plan.grants[i].borrowed) => NeedyOwners(snap, plan) = {}

FreeCoversKept(s, p) == s.limit = Null \/ Cardinality(Unmet(s, p)) <= s.limit - p.active

\* If the free slots covered every unmet kept slot to begin with, a fill pass
\* ends with every owner either at its kept slots or without a grantable
\* waiter: nobody who keeps a slot is left waiting behind other owners.
KeptSlotsServed ==
  (plan.stoppedBy \in {"limit", "none"} /\ FreeCoversKept(snap, StartPlan(snap)))
    => NeedyOwners(snap, plan) = {}

Peers(v, w) ==
  /\ v.prio = w.prio /\ v.owner = w.owner /\ v.borrow = w.borrow
  /\ v.pool = w.pool /\ v.cap = w.cap

\* Nobody is overtaken by a later waiter under the same policy.
FifoAmongPeers ==
  \A w \in GrantedWaiters, v \in Entries(snap) :
    Peers(v, w) /\ Precedes(v, w) => v.req \in plan.taken

\* One request gets at most one slot from a plan, however many candidates it
\* has on the capacity.
OneGrantPerRequest ==
  \A i, j \in 1 .. Len(plan.grants) :
    plan.grants[i].waiter.req = plan.grants[j].waiter.req => i = j

\* The bound on the loop never cuts a plan short: a plan that has reached no
\* stop condition always has a step left (stoppedBy is never "progress").
StepsSuffice == Running => ~OutOfSteps
=============================================================================
