---------------------------- MODULE PlannerRules ----------------------------
(***************************************************************************)
(* The rules of planGrants                                                 *)
(* (apps/server/src/model-api/capacity/admission-planner.ts): who may take *)
(* a free slot of one capacity, given a snapshot s of it and the plan p    *)
(* made so far.  AdmissionPlanner runs them as the loop planGrants is, and *)
(* CapacityStore as the planning phase of its transactions.                *)
(*                                                                         *)
(* A snapshot is a record                                                  *)
(*   limit      physical limit of the capacity, Null = unlimited           *)
(*   active     its ACTIVE leases                                          *)
(*   byOwner    ACTIVE leases by reservation owner (pool member, target)   *)
(*   byPool     ACTIVE leases by pool, on every capacity                   *)
(*   kept       allocated kept (reserved) slots by owner                   *)
(*   waiters    WAITING waiters of WAITING requests, a set of Waiter       *)
(*   sched      the capacity's scheduler state                             *)
(*   now        the database clock                                         *)
(*   requested  the request to stop at (offer mode), Null in fill mode     *)
(*   creating   the request created by this transaction, or Null           *)
(*   lastChance waiters owed one check past their deadline                 *)
(*                                                                         *)
(* Unmet kept slots are the pairs <<owner, i>> with i between the owner's  *)
(* leases and its kept slots, so that the code's running totals (remaining *)
(* and reservedRemainingTotal) are cardinalities of sets of such pairs.    *)
(***************************************************************************)
EXTENDS Scheduler, Optional, Sequences, FiniteSets

CONSTANTS Requests, Owners, Pools

ASSUME NullAssumption ==
  /\ Null \notin Nat /\ Null \notin Pools /\ Null \notin Requests
  /\ Null \notin {"requested", "none", "limit"}

ASSUME OwnersAssumption == IsFiniteSet(Owners)

Waiter == [id : Nat, req : Requests, seq : Nat, order : Nat, prio : Classes,
           owner : Owners, pool : Pools \cup {Null}, cap : NatOrNull,
           borrow : BOOLEAN, notBefore : NatOrNull, deadline : NatOrNull,
           reqDeadline : NatOrNull]

Snapshot == [limit : NatOrNull, active : Nat, byOwner : [Owners -> Nat],
             byPool : [Pools -> Nat], kept : [Owners -> Nat],
             waiters : SUBSET Waiter, sched : SchedulerState, now : Nat,
             requested : Requests \cup {Null}, creating : Requests \cup {Null},
             lastChance : SUBSET Nat]

\* FIFO by enqueue sequence; it is unique to a request, whose waiters have
\* distinct candidate orders.
Precedes(v, w) == v.seq < w.seq \/ (v.seq = w.seq /\ v.order < w.order)

\* The deadlines leave the waiter open: strictly later than now, except that a
\* request being created is still open at its own instant and that a deferred
\* waiter is owed one check.
InWindow(s, w) ==
  LET creating == s.creating # Null /\ w.req = s.creating
  IN  /\ \/ w.deadline = Null \/ w.deadline > s.now
         \/ creating /\ w.deadline >= s.now
         \/ w.id \in s.lastChance
      /\ w.reqDeadline = Null \/ w.reqDeadline > s.now \/ creating

Entries(s) ==
  {w \in s.waiters : InWindow(s, w) /\ (w.notBefore = Null \/ w.notBefore <= s.now)}
-----------------------------------------------------------------------------
Plan == [active : Nat, byOwner : [Owners -> Nat], byPool : [Pools -> Nat],
         sched : SchedulerState, taken : SUBSET Requests,
         grants : Seq([waiter : Waiter, borrowed : BOOLEAN]),
         stoppedBy : {Null, "requested", "none", "limit"}]

StartPlan(s) ==
  [active |-> s.active, byOwner |-> s.byOwner, byPool |-> s.byPool,
   sched |-> s.sched, taken |-> {}, grants |-> <<>>, stoppedBy |-> Null]

\* Every step grants one request, so the queue size bounds the steps.
MaxSteps(s) == Cardinality(s.waiters) + 1

Live_IgnoresPoolCap(s, p, w) == w.req \notin p.taken

\* Neither the waiter's request is served nor its pool at the limit; once
\* false this stays false for the rest of the plan.
Live(s, p, w) ==
  /\ w.req \notin p.taken
  /\ w.pool = Null \/ w.cap = Null \/ p.byPool[w.pool] < w.cap

Unmet(s, p) ==
  {u \in UNION {{o} \X (1 .. s.kept[o]) : o \in Owners} : u[2] > p.byOwner[u[1]]}

Remaining(s, p, o) == {u \in Unmet(s, p) : u[1] = o}

\* Owners with unmet kept slots and a waiter that could take one now.
NeedyOwners(s, p) ==
  {o \in Owners : /\ Remaining(s, p, o) # {}
                  /\ \E w \in Entries(s) : w.owner = o /\ Live(s, p, w)}

Borrows_OffByOne(s, p, w) ==
  LET others == Unmet(s, p) \ Remaining(s, p, w.owner)
  IN  /\ s.limit # Null
      /\ Remaining(s, p, w.owner) = {}
      /\ s.limit - p.active < Cardinality(others)

\* The free slots left are all kept by other owners.
Borrows(s, p, w) ==
  LET others == Unmet(s, p) \ Remaining(s, p, w.owner)
  IN  /\ s.limit # Null
      /\ Remaining(s, p, w.owner) = {}
      /\ others # {}
      /\ s.limit - p.active <= Cardinality(others)

Blocked_BorrowsFromWaitingOwner(s, p, w) == Borrows(s, p, w) /\ ~w.borrow

Blocked(s, p, w) ==
  Borrows(s, p, w) /\ (~w.borrow \/ NeedyOwners(s, p) \ {w.owner} # {})

Eligible(s, p) == {w \in Entries(s) : Live(s, p, w) /\ ~Blocked(s, p, w)}

\* The first eligible waiter of its class.
IsClassHead(s, p, w) ==
  /\ w \in Eligible(s, p)
  /\ \A v \in Eligible(s, p) : v.prio = w.prio => ~Precedes(v, w)

Decision(s, p) == Decide(p.sched, {w.prio : w \in Eligible(s, p)})

IsWinner(s, p, w) == IsClassHead(s, p, w) /\ w.prio = Decision(s, p).winner

AtLimit_OffByOne(s, p) == s.limit # Null /\ p.active > s.limit

AtLimit(s, p) == s.limit # Null /\ p.active >= s.limit

\* The plan after granting w.
Granted(s, p, w) ==
  [active    |-> p.active + 1,
   byOwner   |-> [p.byOwner EXCEPT ![w.owner] = @ + 1],
   byPool    |-> IF w.pool = Null THEN p.byPool ELSE [p.byPool EXCEPT ![w.pool] = @ + 1],
   sched     |-> Decision(s, p).state,
   taken     |-> p.taken \cup {w.req},
   grants    |-> Append(p.grants, [waiter |-> w, borrowed |-> Borrows(s, p, w)]),
   stoppedBy |-> IF s.requested # Null /\ w.req = s.requested THEN "requested" ELSE Null]
=============================================================================
