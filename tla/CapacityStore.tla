--------------------------- MODULE CapacityStore ---------------------------
(***************************************************************************)
(* PostgresCapacityStore (capacity/postgres-store.ts): the durable queue   *)
(* and leases that every server process shares.  Each action is one        *)
(* transaction under the fences of the capacities it touches, or one       *)
(* unlocked read whose result a later transaction uses.                    *)
(*                                                                         *)
(* db holds the tables: req (admission_request), wtr (capacity_waiter),    *)
(* lease (capacity_lease, one per request), sched and token                *)
(* (capacity_scheduler) and seq (admission_enqueue_sequence).  db.checked  *)
(* is a history variable: the waiters some pass has considered.            *)
(*                                                                         *)
(* An owner is a pool member on one execution target (PoolOf Null: a       *)
(* direct test of the target), which lives on the capacity Home.           *)
(***************************************************************************)
EXTENDS PlannerRules, CandidateSchedules, ReservationSlots, SequencesExt

CONSTANTS
  Capacities, Home, PoolOf, Configured, Tie,  \* the graph: instances, owners, kept slots
  Worlds,      \* what may be asked of the store, see world
  Attempt,     \* request -> deadline, failOpen, anchor (Null or a request), spillDelay
  LeaseTtl,    \* 30 s, of a grant and of a heartbeat
  Grace        \* sweepAbandoned's heartbeat grace

VARIABLES
  db, now, limit, member, toReclaim, toSweep, toUnorphan,
  world    \* never changes: the candidates, and how the graph and the clock may move

vars == <<db, now, limit, member, toReclaim, toSweep, toUnorphan, world>>

Cand == world.cand          \* waiter id -> its candidate: req, order, owner and policy
Limits == world.limits      \* capacity -> the limits it may have
MemberMoves == world.moves  \* <<owner, state>> changes of the graph that may happen
MaxTime == world.until      \* bound on the database clock

Ids == DOMAIN Cand
CapacityOf(i) == Home[Cand[i].owner]
WaitersOf(r) == {i \in Ids : Cand[i].req = r}
WaitingOn(d, c) == {i \in Ids : CapacityOf(i) = c /\ d.wtr[i].state = "WAITING"}
WaitingFor(d, r) == {i \in WaitersOf(r) : d.wtr[i].state = "WAITING"}
ActiveLeases(d) == {r \in Requests : d.lease[r].state = "ACTIVE"}
ActiveOn(d, c) == {r \in ActiveLeases(d) : CapacityOf(d.lease[r].waiter) = c}

NoWaiter == [state |-> "ABSENT", reason |-> Null, notBefore |-> Null, deadline |-> Null]
NoLease == [state |-> "ABSENT", waiter |-> Null, token |-> 0, expires |-> 0]

Init ==
  /\ world \in Worlds
  /\ db = [req     |-> [r \in Requests |-> [state |-> "ABSENT", seq |-> 0, at |-> 0, polled |-> 0]],
           wtr     |-> [i \in Ids |-> NoWaiter],
           lease   |-> [r \in Requests |-> NoLease],
           sched   |-> [c \in Capacities |-> FreshScheduler],
           token   |-> [c \in Capacities |-> 1],
           seq     |-> 1,
           checked |-> {}]
  /\ now = 0
  /\ limit \in {f \in [Capacities -> UNION {Limits[c] : c \in Capacities}] :
                \A c \in Capacities : f[c] \in Limits[c]}
  /\ member = [o \in Owners |-> "ACTIVE"]
  /\ toReclaim = {} /\ toSweep = {} /\ toUnorphan = Null

EndWaiters(d, S, state, reason) ==
  [d EXCEPT !.wtr = [i \in Ids |-> IF i \in S
                       THEN [d.wtr[i] EXCEPT !.state = state, !.reason = reason]
                       ELSE d.wtr[i]]]
-----------------------------------------------------------------------------
(* One admission pass: read, plan, write                                   *)

SweepDeadlines_Deferred(d, c, creating) ==
  EndWaiters(d, {i \in WaitingOn(d, c) : d.wtr[i].deadline <= now /\ Cand[i].req # creating},
             "EXPIRED", "candidate_deadline")

\* Deferred waiters are left to their owner's poll.
SweepDeadlines(d, c, creating) ==
  EndWaiters(d, {i \in WaitingOn(d, c) : /\ d.wtr[i].deadline <= now
                                         /\ d.wtr[i].notBefore = Null
                                         /\ Cand[i].req # creating},
             "EXPIRED", "candidate_deadline")

\* The request is left to its own poll.
CancelUnroutable(d, c) ==
  EndWaiters(d, {i \in WaitingOn(d, c) : member[Cand[i].owner] = "DRAINED"},
             "CANCELLED", "member_unroutable")

Orphaned(i) == member[Cand[i].owner] \in {"DELETED", "TARGET_DELETED"}

\* cancelOrphanedWaiter of each of S, and of a request left without a waiter.
CancelOrphans(d, S) ==
  LET e == EndWaiters(d, {i \in S : d.wtr[i].state = "WAITING"}, "CANCELLED", "orphaned")
  IN  [e EXCEPT !.req = [r \in Requests |->
         IF e.req[r].state = "WAITING" /\ S \cap WaitersOf(r) # {} /\ WaitingFor(e, r) = {}
         THEN [e.req[r] EXCEPT !.state = "CANCELLED"] ELSE e.req[r]]]

DropOrphanedWaiters(d, c) ==
  CancelOrphans(d, {i \in WaitingOn(d, c) : d.req[Cand[i].req].state = "WAITING" /\ Orphaned(i)})

PlannerWaiter(d, i) ==
  [id |-> i, req |-> Cand[i].req, seq |-> d.req[Cand[i].req].seq, order |-> Cand[i].order,
   prio |-> Cand[i].prio, owner |-> Cand[i].owner, pool |-> PoolOf[Cand[i].owner],
   cap |-> Cand[i].cap, borrow |-> Cand[i].borrow, notBefore |-> d.wtr[i].notBefore,
   deadline |-> d.wtr[i].deadline, reqDeadline |-> Attempt[Cand[i].req].deadline]

KeptOn(c) ==
  LET owners == {o \in Owners : Home[o] = c /\ member[o] \notin {"DELETED", "TARGET_DELETED"}}
      configured == [o \in owners |-> Configured[o]]
      allocated == IF limit[c] = Null THEN configured
                   ELSE AllocateReservationSlots(configured, limit[c], Tie)
  IN  [o \in Owners |-> IF o \in owners THEN allocated[o] ELSE 0]

\* The snapshot of the waiters S.
SnapshotOf(d, c, S, requested, creating, lastChance) ==
  [limit |-> limit[c], active |-> Cardinality(ActiveOn(d, c)),
   byOwner |-> [o \in Owners |->
      Cardinality({r \in ActiveOn(d, c) : Cand[d.lease[r].waiter].owner = o})],
   byPool |-> [p \in Pools |->
      Cardinality({r \in ActiveLeases(d) : PoolOf[Cand[d.lease[r].waiter].owner] = p})],
   kept |-> KeptOn(c), waiters |-> {PlannerWaiter(d, i) : i \in S},
   sched |-> d.sched[c], now |-> now,
   requested |-> requested, creating |-> creating, lastChance |-> lastChance]

Full(i) == member[Cand[i].owner] = "FULL" /\ PoolOf[Cand[i].owner] # Null

\* A waiter past its deadline that its owner has not polled for since it opened.
OwedLastChance(d, i) ==
  /\ d.wtr[i].state = "WAITING"
  /\ d.wtr[i].notBefore # Null /\ d.wtr[i].notBefore > d.req[Cand[i].req].polled
  /\ d.wtr[i].deadline <= now

\* Every candidate of the request that a pass could still grant is metric-FULL.
FailsOpen(d, r, s) ==
  /\ Attempt[r].failOpen
  /\ \A i \in WaitingFor(d, r) :
       \/ Full(i)
       \/ /\ ~InWindow(s, PlannerWaiter(d, i))
          /\ ~(Attempt[r].deadline > now /\ OwedLastChance(d, i))

MetricFull(d, s) ==
  {i \in {w.id : w \in s.waiters} : Full(i) /\ ~FailsOpen(d, Cand[i].req, s)}

CompletePlan_OneGrant(s) ==
  LET p == StartPlan(s)
  IN  IF AtLimit(s, p) \/ Eligible(s, p) = {} THEN p
      ELSE Granted(s, p, CHOOSE w \in Eligible(s, p) : IsWinner(s, p, w))

\* planGrants, run to its end.
CompletePlan(s) ==
  LET step(p) == IF p.stoppedBy # Null \/ AtLimit(s, p) \/ Eligible(s, p) = {} THEN p
                 ELSE Granted(s, p, CHOOSE w \in Eligible(s, p) : IsWinner(s, p, w))
      plan[n \in 0 .. MaxSteps(s)] == IF n = 0 THEN StartPlan(s) ELSE step(plan[n - 1])
  IN  plan[MaxSteps(s)]

WonBy(grants, i) == \E k \in DOMAIN grants : grants[k].waiter.id = i

Losers_None(d, grants) == {}

\* The waiting siblings of the winners.
Losers(d, grants) ==
  {i \in Ids : /\ d.wtr[i].state = "WAITING" /\ ~WonBy(grants, i)
               /\ \E k \in DOMAIN grants : grants[k].waiter.req = Cand[i].req}

\* Leases with consecutive fencing tokens; the winners' siblings lose.
PersistGrants(d, c, grants, sched) ==
  LET place(r) == {k \in DOMAIN grants : grants[k].waiter.req = r}
      leaseOf(k) == [state |-> "ACTIVE", waiter |-> grants[k].waiter.id,
                     token |-> d.token[c] + k - 1, expires |-> now + LeaseTtl]
  IN  IF grants = <<>> THEN d ELSE
      [EndWaiters(d, Losers(d, grants), "CANCELLED", "sibling_lost") EXCEPT
        !.sched[c] = sched, !.token[c] = @ + Len(grants),
        !.lease = [r \in Requests |-> IF place(r) = {} THEN @[r]
                                      ELSE leaseOf(CHOOSE k \in place(r) : TRUE)],
        !.req = [r \in Requests |-> IF place(r) = {} THEN @[r]
                                    ELSE [@[r] EXCEPT !.state = "ADMITTED"]],
        !.wtr = [i \in Ids |-> IF WonBy(grants, i) THEN [@[i] EXCEPT !.state = "ADMITTED"]
                               ELSE @[i]]]

\* One pass on capacity c; requested is Null in fill mode.
AdmitCapacity(d, c, requested, creating, lastChance) ==
  LET e    == DropOrphanedWaiters(CancelUnroutable(SweepDeadlines(d, c, creating), c), c)
      live == {i \in WaitingOn(e, c) : e.req[Cand[i].req].state = "WAITING"}
      all  == SnapshotOf(e, c, live, requested, creating, lastChance)
      plan == CompletePlan([all EXCEPT !.waiters = {w \in @ : w.id \notin MetricFull(e, all)}])
  IN  [PersistGrants(e, c, plan.grants, plan.sched)
         EXCEPT !.checked = @ \cup {w.id : w \in Entries(all)}]

Fill(d, c) == AdmitCapacity(d, c, Null, Null, {})
-----------------------------------------------------------------------------
(* Transactions of the requests' owners                                    *)

\* The request's capacities in candidate order.
CapacitiesOf(S) ==
  LET firstOn(c) == Min({Cand[i].order : i \in {j \in S : CapacityOf(j) = c}})
  IN  SetToSortSeq({CapacityOf(i) : i \in S}, LAMBDA b, c : firstOn(b) < firstOn(c))

\* Candidates whose one check is over expire, and the request with the last.
AfterPasses(d, r) ==
  LET e == EndWaiters(d, {i \in WaitingFor(d, r) : d.wtr[i].deadline <= now},
                      "EXPIRED", "candidate_deadline")
  IN  IF d.lease[r].state = "ACTIVE" THEN d
      ELSE IF WaitingFor(e, r) = {} THEN [e EXCEPT !.req[r].state = "EXPIRED"] ELSE e

Offer(d, r, S, creating, lastChance) ==
  AfterPasses(FoldLeft(LAMBDA e, c : AdmitCapacity(e, c, r, creating, lastChance),
                       d, CapacitiesOf(S)), r)

AnchorOf(r) ==
  IF Attempt[r].anchor = Null \/ db.req[Attempt[r].anchor].state = "ABSENT" THEN Null
  ELSE [at |-> db.req[Attempt[r].anchor].at, spillDelay |-> Attempt[r].spillDelay]

Enqueued(r) ==
  LET cands == [i \in WaitersOf(r) |-> Cand[i]]
      plan(i) == CandidateSchedule(cands, i, Attempt[r].deadline, now, AnchorOf(r))
  IN  [db EXCEPT
        !.seq = @ + 1,
        !.req[r] = [state |-> "WAITING", seq |-> db.seq,
                    at |-> Min({now, Attempt[r].deadline}), polled |-> now],
        !.wtr = [i \in Ids |-> IF Cand[i].req # r THEN @[i]
                   ELSE [state |-> "WAITING", reason |-> Null,
                         notBefore |-> plan(i).notBefore, deadline |-> plan(i).deadline]]]

\* acquire of a new attempt; resolveCandidates wants its members to exist.
Create(r) ==
  /\ db.req[r].state = "ABSENT"
  /\ \A i \in WaitersOf(r) : ~Orphaned(i)
  /\ db' = Offer(Enqueued(r), r, WaitersOf(r), r, {})
  /\ UNCHANGED <<world, now, limit, member, toReclaim, toSweep, toUnorphan>>

\* acquire of a queued attempt before its deadline.
Polled(r) ==
  LET lastChance == {i \in WaitersOf(r) : OwedLastChance(db, i)}
      d == EndWaiters(db, {i \in WaitingFor(db, r) : db.wtr[i].deadline <= now} \ lastChance,
                      "EXPIRED", "candidate_deadline")
  IN  IF WaitingFor(d, r) = {} THEN [d EXCEPT !.req[r].state = "EXPIRED"]
      ELSE Offer([d EXCEPT !.req[r].polled = now], r, WaitingFor(db, r), Null, lastChance)

Poll(r) ==
  /\ db.req[r].state = "WAITING" /\ Attempt[r].deadline > now
  /\ db' = Polled(r)
  /\ UNCHANGED <<world, now, limit, member, toReclaim, toSweep, toUnorphan>>

EndRequest(d, r, state, reason) ==
  [EndWaiters(d, WaitingFor(d, r), state, reason) EXCEPT !.req[r].state = state]

\* acquire at or after the request's deadline.
PollPastDeadline(r) ==
  /\ db.req[r].state = "WAITING" /\ Attempt[r].deadline <= now
  /\ db' = EndRequest(db, r, "EXPIRED", "deadline")
  /\ UNCHANGED <<world, now, limit, member, toReclaim, toSweep, toUnorphan>>

EndLease(d, r, state) ==
  [d EXCEPT !.lease[r].state = state, !.req[r].state = "TERMINAL"]

\* acquire of an attempt whose lease has run out: nothing is refilled.
PollPastExpiry(r) ==
  /\ db.lease[r].state = "ACTIVE" /\ db.lease[r].expires <= now
  /\ db' = EndLease(db, r, "RECLAIMED")
  /\ UNCHANGED <<world, now, limit, member, toReclaim, toSweep, toUnorphan>>

Heartbeat(r) ==
  /\ db.lease[r].state = "ACTIVE" /\ db.lease[r].expires > now
  /\ db' = [db EXCEPT !.lease[r].expires = now + LeaseTtl]
  /\ UNCHANGED <<world, now, limit, member, toReclaim, toSweep, toUnorphan>>

\* With the shutdown fence armed nothing is refilled.
Release(r, armed) ==
  /\ db.lease[r].state = "ACTIVE"
  /\ LET d == EndLease(db, r, "RELEASED")
     IN  db' = IF armed THEN d ELSE Fill(d, CapacityOf(db.lease[r].waiter))
  /\ UNCHANGED <<world, now, limit, member, toReclaim, toSweep, toUnorphan>>

\* An early "EXPIRED" keeps the request waiting.
TerminalizeAttempt(r, state) ==
  /\ db.req[r].state = "WAITING"
  /\ state = "EXPIRED" => Attempt[r].deadline <= now
  /\ db' = EndRequest(db, r, state, IF state = "EXPIRED" THEN "deadline" ELSE "cancelled")
  /\ UNCHANGED <<world, now, limit, member, toReclaim, toSweep, toUnorphan>>
-----------------------------------------------------------------------------
(* Maintenance, and the world the store reads                              *)

\* reclaimExpired's unlocked list.
ListExpired ==
  /\ toReclaim = {}
  /\ toReclaim' = {r \in ActiveLeases(db) : db.lease[r].expires <= now}
  /\ toReclaim' # {}
  /\ UNCHANGED <<world, db, now, limit, member, toSweep, toUnorphan>>

StillExpired(r) == db.lease[r].state = "ACTIVE" /\ db.lease[r].expires <= now

Reclaim(r) ==
  /\ r \in toReclaim
  /\ toReclaim' = toReclaim \ {r}
  /\ db' = IF StillExpired(r)
           THEN Fill(EndLease(db, r, "RECLAIMED"), CapacityOf(db.lease[r].waiter)) ELSE db
  /\ UNCHANGED <<world, now, limit, member, toSweep, toUnorphan>>

PastDeadline_Never(r) == FALSE

PastDeadline(r) == Attempt[r].deadline <= now

Abandoned(r) == now - db.req[r].polled > Grace

\* sweepAbandoned's unlocked list.
ListAbandoned ==
  /\ toSweep = {}
  /\ toSweep' = {r \in Requests : /\ db.req[r].state = "WAITING"
                                  /\ PastDeadline(r) \/ Abandoned(r)}
  /\ toSweep' # {}
  /\ UNCHANGED <<world, db, now, limit, member, toReclaim, toUnorphan>>

StillAbandoned_Trusted(r) == TRUE

StillAbandoned(r) == Abandoned(r)

SweepAbandoned(r) ==
  /\ r \in toSweep
  /\ toSweep' = toSweep \ {r}
  /\ db' = IF db.req[r].state = "WAITING" /\ PastDeadline(r)
           THEN EndRequest(db, r, "EXPIRED", "deadline")
           ELSE IF db.req[r].state = "WAITING" /\ StillAbandoned(r)
           THEN EndRequest(db, r, "CANCELLED", "connection_abandoned")
           ELSE db
  /\ UNCHANGED <<world, now, limit, member, toReclaim, toUnorphan>>

OrphanedLease(r) ==
  db.lease[r].state = "ACTIVE" /\ member[Cand[db.lease[r].waiter].owner] = "TARGET_DELETED"

\* sweepOrphans reads a request and its waiters before it takes their fences.
ReadOrphan(r) ==
  /\ toUnorphan = Null
  /\ \/ db.req[r].state = "WAITING" /\ \E i \in WaitingFor(db, r) : Orphaned(i)
     \/ OrphanedLease(r)
  /\ toUnorphan' = [req |-> r, state |-> db.req[r].state, waiting |-> WaitingFor(db, r)]
  /\ UNCHANGED <<world, db, now, limit, member, toReclaim, toSweep>>

\* Under the fences it decides by what it read before them; the updates
\* themselves are conditional.  The capacities it touched are refilled.
SweepOrphan ==
  /\ toUnorphan # Null
  /\ LET r == toUnorphan.req
         orphans == {i \in toUnorphan.waiting : Orphaned(i)}
         refill(d, S) == FoldLeft(Fill, d, SetToSortSeq({CapacityOf(i) : i \in S}, <))
     IN  db' = IF toUnorphan.state = "WAITING" THEN refill(CancelOrphans(db, orphans), orphans)
               ELSE IF OrphanedLease(r)
               THEN refill(EndLease(db, r, "RELEASED"), {db.lease[r].waiter})
               ELSE db
  /\ toUnorphan' = Null
  /\ UNCHANGED <<world, now, limit, member, toReclaim, toSweep>>

\* A fence is busy: the request is passed to the next run.
SkipOrphan ==
  /\ toUnorphan # Null
  /\ toUnorphan' = Null
  /\ UNCHANGED <<world, db, now, limit, member, toReclaim, toSweep>>

\* effectiveInstanceConcurrency: an override is edited, engine slots observed.
SetLimit(c, n) ==
  /\ limit[c] # n
  /\ limit' = [limit EXCEPT ![c] = n]
  /\ UNCHANGED <<world, db, now, member, toReclaim, toSweep, toUnorphan>>

\* A member is drained, restored, judged FULL or deleted, or its target is.
MoveMember(o, s) ==
  /\ member[o] \notin {s, "DELETED", "TARGET_DELETED"}
  /\ member' = [member EXCEPT ![o] = s]
  /\ UNCHANGED <<world, db, now, limit, toReclaim, toSweep, toUnorphan>>

Tick ==
  /\ now < MaxTime
  /\ now' = now + 1
  /\ UNCHANGED <<world, db, limit, member, toReclaim, toSweep, toUnorphan>>

Next ==
  \/ \E r \in Requests :
       \/ Create(r) \/ Poll(r) \/ PollPastDeadline(r) \/ PollPastExpiry(r) \/ Heartbeat(r)
       \/ \E armed \in BOOLEAN : Release(r, armed)
       \/ \E state \in {"CANCELLED", "EXPIRED"} : TerminalizeAttempt(r, state)
       \/ Reclaim(r) \/ SweepAbandoned(r) \/ ReadOrphan(r)
  \/ ListExpired \/ ListAbandoned \/ SweepOrphan \/ SkipOrphan
  \/ \E c \in Capacities : \E n \in Limits[c] : SetLimit(c, n)
  \/ \E m \in MemberMoves : MoveMember(m[1], m[2])
  \/ Tick

\* Time passes, and the maintenance timer (every 5 s in each server) runs on.
Fairness ==
  /\ WF_vars(Tick) /\ WF_vars(ListAbandoned)
  /\ \A r \in Requests : WF_vars(SweepAbandoned(r))

Spec == Init /\ [][Next]_vars /\ Fairness
-----------------------------------------------------------------------------
\* The three tables agree whatever interleaving of polls, fills and sweeps
\* wrote them: a lease is ACTIVE exactly while its request is ADMITTED, was
\* won by the request's one ADMITTED waiter, and only a WAITING request has
\* WAITING waiters.
TablesAgree ==
  \A r \in Requests :
    LET admitted == {i \in WaitersOf(r) : db.wtr[i].state = "ADMITTED"}
    IN  /\ db.lease[r].state = "ACTIVE" <=> db.req[r].state = "ADMITTED"
        /\ admitted = IF db.lease[r] = NoLease THEN {} ELSE {db.lease[r].waiter}
        /\ WaitingFor(db, r) # {} => db.req[r].state = "WAITING"

\* types.ts 26: "a deferred waiter always gets one admission check after it
\* becomes eligible", however late its owner polls and whoever else sweeps.
DeferredGetsItsCheck ==
  \A i \in Ids :
    db.wtr[i].reason = "candidate_deadline" /\ db.wtr[i].notBefore # Null => i \in db.checked

\* The rows a sweep listed without a lock may have been renewed since: a lease
\* is reclaimed only past its expiry, and a request is given up as abandoned
\* only when its owner has not polled for the grace period.
SweepsSpareTheLiving ==
  [][\A r \in Requests :
       /\ db.lease[r].state = "ACTIVE" /\ db'.lease[r].state = "RECLAIMED"
            => db.lease[r].expires <= now
       /\ db.req[r].state = "WAITING" /\ db'.req[r].state = "CANCELLED"
          /\ (\E i \in WaitersOf(r) : db'.wtr[i].reason = "connection_abandoned")
            => now - db.req[r].polled > Grace]_vars

\* A pool's concurrency limit binds its leases on all its capacities together,
\* although each pass plans one capacity: a step that leases to a pool leaves
\* it within the limit of one of the waiters it granted.
PoolLimitAcrossCapacities ==
  [][\A p \in Pools :
       LET inPool(d) == {r \in ActiveLeases(d) : PoolOf[Cand[d.lease[r].waiter].owner] = p}
           fresh == inPool(db') \ inPool(db)
       IN  fresh # {} => \E r \in fresh :
             LET cap == Cand[db'.lease[r].waiter].cap
             IN  cap = Null \/ Cardinality(inPool(db')) <= cap]_vars

\* #admitCapacity offers every free slot, and a wait budget of 0 means "admit
\* only if free" (types.ts 15): a request that is checked, by its creation, a
\* poll or a last chance, and not admitted had no candidate that could still
\* be granted when the transaction ended.
FreeSlotIsGranted ==
  [][\A r \in Requests :
       LET new == db.req[r].state = "ABSENT" /\ db'.req[r].state # "ABSENT"
           tried == {i \in WaitersOf(r) :
                       /\ member[Cand[i].owner] = "ACTIVE"
                       /\ IF new THEN db'.wtr[i].deadline >= now
                          ELSE /\ db.wtr[i].state = "WAITING"
                               /\ db.wtr[i].deadline > now \/ OwedLastChance(db, i)}
       IN  new \/ db'.req[r].polled # db.req[r].polled =>
             db'.req[r].state = "ADMITTED" \/ \A i \in tried :
               LET open == {j \in WaitingOn(db', CapacityOf(i)) :
                              db'.req[Cand[j].req].state = "WAITING" /\ ~Full(j)}
                   w == [PlannerWaiter(db', i) EXCEPT !.deadline = Null, !.reqDeadline = Null]
                   s == [SnapshotOf(db', CapacityOf(i), open \ {i}, r, Null, {})
                           EXCEPT !.waiters = @ \cup {w}]
               IN  AtLimit(s, StartPlan(s)) \/ w \notin Eligible(s, StartPlan(s))]_vars

Ledger == INSTANCE CapacityLedger WITH
  state <- [r \in Requests |-> db.req[r].state],
  slot  <- [r \in Requests |-> IF db.lease[r].state = "ACTIVE"
                               THEN CapacityOf(db.lease[r].waiter) ELSE Null]

\* The store implements its abstract ledger: limits, life cycle, one slot per
\* request, whatever the interleaving.
ImplementsLedger == Ledger!Spec

\* A queued request is not left behind: by its deadline it is granted, ended
\* by its owner or swept, even if its owner never polls again (while the clock
\* of the world reaches the deadline).
QueueDrains ==
  \A r \in Requests :
    db.req[r].state = "WAITING" /\ Attempt[r].deadline <= MaxTime ~> db.req[r].state # "WAITING"
=============================================================================
