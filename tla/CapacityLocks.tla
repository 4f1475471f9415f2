---------------------------- MODULE CapacityLocks ----------------------------
(***************************************************************************)
(* The locks of the transactions on the capacity domain                    *)
(* (packages/db/src/capacity-lock-order.ts and the transactions of         *)
(* model-api/capacity/postgres-store.ts): acquire, release and reclaim,    *)
(* terminalize and abandoned sweep, the orphan sweep, management writes    *)
(* and parent deletes, and the drain batches of a user deletion.           *)
(*                                                                         *)
(* A transaction takes named fences in ascending order before its first    *)
(* row, then rows.  Which locks it takes depends on what it reads on the   *)
(* way, and what it read may be stale when it holds them: the scopes of    *)
(* the waiters on its capacities, the requests that wait on one of them    *)
(* and on another one too, and the winners its admission passes pick.      *)
(*                                                                         *)
(* Fences and rows are numbers, a fence's number is its place in the order *)
(* LL:kind:id, and every row comes after every fence.  What a transaction  *)
(* writes is seen by others when it commits.                               *)
(***************************************************************************)
EXTENDS Naturals, FiniteSets

CONSTANTS
    Txs,            \* transactions, each of which begins again when it has ended
    Requests,       \* admission requests: the numbers of their rows
    Capacities,     \* physical capacities: the numbers of their fences
    Owners,         \* users: the numbers of their owner fences
    AttemptFence,   \* request -> its admission-attempt fence
    PolicyFence,    \* capacity -> the capacity-policy fence of its target
    ScopeFences,    \* request -> the concurrency-scope fences of its waiters' limits, if any
    UserRow,        \* owner -> the number of the user's row
    Starts          \* the tables the transactions may start from

Numbers(f) == {f[x] : x \in DOMAIN f}
Below(S, T) == \A x \in S, y \in T : x < y

\* The levels of the global order, and the rows after them.
Levels == <<Owners, Numbers(AttemptFence), Numbers(PolicyFence), UNION Numbers(ScopeFences),
            Capacities, Requests, Numbers(UserRow)>>

ASSUME LockAssumption ==
    /\ IsFiniteSet(Txs)
    /\ AttemptFence \in [Requests -> Nat] /\ PolicyFence \in [Capacities -> Nat]
    /\ ScopeFences \in [Requests -> SUBSET Nat] /\ UserRow \in [Owners -> Nat]
    /\ Requests \subseteq Nat /\ Capacities \subseteq Nat /\ Owners \subseteq Nat
    /\ \A i, j \in DOMAIN Levels : i < j => Below(Levels[i], Levels[j])

\* A request that holds a lease waits no more, and it waits only where it has
\* waiters.
ASSUME StartAssumption ==
    \A start \in Starts :
        /\ start.live \in [Requests -> SUBSET Capacities]
        /\ start.past \in [Requests -> SUBSET Capacities]
        /\ start.lease \in [Requests -> SUBSET Capacities]
        /\ \A r \in Requests :
             /\ start.live[r] \cup start.lease[r] \subseteq start.past[r]
             /\ start.lease[r] # {} => start.live[r] = {}

VARIABLES
    live,           \* request -> the capacities it has a WAITING waiter on
    past,           \* request -> the capacities it ever had a waiter on
    lease,          \* request -> the capacity of its ACTIVE lease, as a set
    tx              \* transaction -> its state

lockVars == <<live, past, lease, tx>>

\* at: the step it is at; kind: what it does; own: its request, as a set;
\* caps, scopes: what it read; want: fences it is about to take; ask: rows its
\* statement is about to lock; fences, rows: what it holds; new: the request it has
\* inserted, with a waiter on each of caps; won: the requests it has granted;
\* lost: the waiters and leases it has ended.
Idle == [at |-> "idle", kind |-> "none", own |-> {}, caps |-> {}, scopes |-> {}, want |-> {},
         ask |-> {}, fences |-> {}, rows |-> {}, new |-> {}, won |-> {}, lost |-> {}]

LocksInit ==
    /\ \E start \in Starts :
         live = start.live /\ lease = start.lease /\ past = start.past
    /\ tx = [t \in Txs |-> Idle]

Least(S) == CHOOSE x \in S : \A y \in S : x <= y

Ready(t, step) == tx[t].at = step /\ tx[t].want = {} /\ tx[t].ask = {}

\* The waiters of r as t's statements see them: committed ones, with t's writes.
Lost(t, r) == {c \in Capacities : <<r, c>> \in tx[t].lost}
Waiting(t, r) == (live[r] \cup (IF r \in tx[t].new THEN tx[t].caps ELSE {})) \ Lost(t, r)
Sees(t, r) == IF r \in tx[t].won THEN {} ELSE Waiting(t, r)

Become(t, state) == tx' = [tx EXCEPT ![t] = state] /\ UNCHANGED <<live, past, lease>>

\* A rollback, or the commit of a transaction that wrote nothing.
End(t) == Become(t, Idle)

(***************************************************************************)
(* Taking locks.                                                           *)
(***************************************************************************)
HeldFences(t) == UNION {tx[s].fences : s \in Txs \ {t}}
HeldRows(t) == UNION {tx[s].rows : s \in Txs \ {t}}

\* wsmp_acquire_fences, one fence: it waits while another transaction holds it;
\* a sweep that finds it held ends.
TakeFence(t) ==
    LET f == Least(tx[t].want) IN
    /\ tx[t].want # {}
    /\ f \notin HeldFences(t)
    /\ Become(t, [tx[t] EXCEPT !.want = @ \ {f}, !.fences = @ \cup {f}])

GiveUp(t) ==
    /\ tx[t].kind = "sweep" /\ tx[t].want # {}
    /\ Least(tx[t].want) \in HeldFences(t)
    /\ End(t)

\* One row of a sorted FOR UPDATE statement.
LockRow(t) ==
    LET r == Least(tx[t].ask) IN
    /\ tx[t].want = {} /\ tx[t].ask # {}
    /\ r \notin HeldRows(t)
    /\ Become(t, [tx[t] EXCEPT !.ask = @ \ {r}, !.rows = @ \cup {r}])

(***************************************************************************)
(* The transactions of the admission store.                                *)
(***************************************************************************)
\* acquire, of a new request with its candidates or of one that exists (whose
\* candidates are not looked at again): the attempt fence first.
BeginAcquire(t, r, candidates) ==
    /\ tx[t] = Idle /\ candidates # {}
    /\ past[r] # {} => candidates = past[r]
    /\ Become(t, [Idle EXCEPT !.at = "policy", !.kind = "acquire", !.own = {r},
                              !.caps = candidates, !.want = {AttemptFence[r]}])

\* The policy fences of the candidates, or of every waiter that exists.
Policies(t) ==
    /\ Ready(t, "policy")
    /\ \E r \in tx[t].own :
         LET caps == IF past[r] = {} THEN tx[t].caps ELSE past[r] IN
         Become(t, [tx[t] EXCEPT !.at = "plan", !.want = {PolicyFence[c] : c \in caps} \ tx[t].fences])

\* release and reclaim: the lease's capacity.
BeginRelease(t, r) ==
    /\ tx[t] = Idle /\ lease[r] # {}
    /\ Become(t, [Idle EXCEPT !.at = "plan", !.kind = "release", !.own = {r}, !.caps = lease[r]])

\* terminalizeAttempt and sweepAbandoned, and the orphan sweep of a request that
\* waits or is admitted: every capacity it ever waited on, and its lease's.
BeginEnd(t, r, kind) ==
    /\ tx[t] = Idle /\ past[r] # {}
    /\ kind = "sweep" => live[r] \cup lease[r] # {}
    /\ Become(t, [Idle EXCEPT !.at = "plan", !.kind = kind, !.own = {r},
                              !.caps = past[r] \cup lease[r]])

\* The scopes of the waiters on the capacities: fenceCapacityAdmission's read.
ScopesOn(caps) == UNION {ScopeFences[r] : r \in {q \in Requests : past[q] \cap caps # {}}}

\* The capacities a request that exists is still queued on, or holds.
Plan(t) ==
    /\ Ready(t, "plan")
    /\ \E r \in tx[t].own :
         LET known == tx[t].kind = "acquire" /\ past[r] # {}
             caps == IF known THEN live[r] \cup lease[r] ELSE tx[t].caps
             scopes == ScopesOn(caps)
                         \cup (IF tx[t].kind = "acquire" THEN ScopeFences[r] ELSE {}) IN
         Become(t, [tx[t] EXCEPT !.at = "recheck", !.caps = caps, !.scopes = scopes,
                                 !.want = scopes \cup caps])

\* Mutant: the missing scope is fenced in place.
Recheck_Takes(t) ==
    /\ Ready(t, "recheck")
    /\ Become(t, [tx[t] EXCEPT !.at = "rows", !.want = ScopesOn(tx[t].caps) \ tx[t].scopes])

\* The scopes are read again under the capacity fences: a set that grew ends
\* the transaction before its first row.
Recheck(t) ==
    /\ Ready(t, "recheck")
    /\ IF ScopesOn(tx[t].caps) \subseteq tx[t].scopes
       THEN Become(t, [tx[t] EXCEPT !.at = "rows"])
       ELSE End(t)

\* Mutant: no request is locked before the admission passes.
Cross_None(t) == {}

\* lockCrossCapacityAdmissionRequests: the queued requests another admitter can
\* reach through a capacity this transaction does not hold.
Cross(t) ==
    {r \in Requests : Sees(t, r) \cap tx[t].caps # {} /\ Sees(t, r) \ tx[t].caps # {}}

Exists(t) == {r \in tx[t].own : past[r] # {}}

RowsOfAcquire(t) ==
    /\ Ready(t, "rows") /\ tx[t].kind = "acquire"
    /\ Become(t, [tx[t] EXCEPT !.at = "settle", !.ask = Cross(t) \cup Exists(t)])

\* A new request is inserted; one that waits goes on to admission, or expires
\* at its deadline; a lease is returned, or reclaimed once it has expired; a
\* request that has ended is only reported.
Settle(t) ==
    /\ Ready(t, "settle")
    /\ \E r \in tx[t].own :
         \/ past[r] = {} /\ Become(t, [tx[t] EXCEPT !.at = "admit", !.new = {r}, !.rows = @ \cup {r}])
         \/ live[r] # {} /\ Become(t, [tx[t] EXCEPT !.at = "admit"])
         \/ /\ live[r] \cup lease[r] # {}
            /\ Become(t, [tx[t] EXCEPT !.at = "commit", !.lost = {r} \X (live[r] \cup lease[r])])
         \/ past[r] # {} /\ live[r] = {} /\ End(t)

\* The lease row, then the request's row, are updated after the cross set,
\* unless another transaction has ended the lease.
RowsOfRelease(t) ==
    /\ Ready(t, "rows") /\ tx[t].kind = "release"
    /\ Become(t, [tx[t] EXCEPT !.at = "own", !.ask = Cross(t)])

OwnOfRelease(t) ==
    /\ Ready(t, "own")
    /\ \E r \in tx[t].own :
         \/ lease[r] = {} /\ End(t)
         \/ /\ lease[r] # {}
            /\ Become(t, [tx[t] EXCEPT !.at = "admit", !.ask = {r}, !.lost = {r} \X lease[r]])

\* Only a request that waits is written.
RowsOfTerminalize(t) ==
    /\ Ready(t, "rows") /\ tx[t].kind = "terminalize"
    /\ \E r \in tx[t].own :
         \/ End(t)
         \/ /\ live[r] # {}
            /\ Become(t, [tx[t] EXCEPT !.at = "commit", !.ask = {r}, !.lost = {r} \X live[r]])

\* The orphan sweep takes its request with SKIP LOCKED, cancels waiters whose
\* parent is gone or releases the lease, then takes the cross set; it ends when
\* the row is held or there was nothing to do.
RowsOfSweep(t) ==
    /\ Ready(t, "rows") /\ tx[t].kind = "sweep"
    /\ \E r \in tx[t].own :
         \/ End(t)
         \/ /\ r \notin HeldRows(t)
            /\ \E gone \in (SUBSET live[r]) \cup {lease[r]} :
                 /\ gone # {}
                 /\ Become(t, [tx[t] EXCEPT !.at = "cross", !.rows = {r}, !.lost = {r} \X gone])

CrossOfSweep(t) ==
    /\ Ready(t, "cross")
    /\ Become(t, [tx[t] EXCEPT !.at = "admit", !.ask = Cross(t)])

\* An admission pass: a waiter on a held capacity expires (its request's row is
\* written when none is left), or winners are picked and their rows locked; or
\* the passes are over.
Reachable(t) == {r \in Requests : Sees(t, r) \cap tx[t].caps # {}}

Expire(t) ==
    /\ Ready(t, "admit")
    /\ \E r \in Reachable(t), c \in tx[t].caps :
         /\ c \in Sees(t, r)
         /\ Become(t, [tx[t] EXCEPT !.lost = @ \cup {<<r, c>>},
                                    !.ask = IF Sees(t, r) = {c} THEN {r} \ tx[t].rows ELSE {}])

Winners(t) ==
    /\ Ready(t, "admit")
    /\ \E W \in SUBSET Reachable(t) :
         /\ W # {}
         /\ Become(t, [tx[t] EXCEPT !.won = @ \cup W, !.ask = W \ tx[t].rows])

Passed(t) ==
    /\ Ready(t, "admit")
    /\ Become(t, [tx[t] EXCEPT !.at = "commit"])

\* What the transaction wrote becomes visible, and its locks are released.
Commit(t) ==
    /\ Ready(t, "commit")
    /\ live' = [r \in Requests |-> Sees(t, r)]
    /\ past' = [r \in Requests |-> past[r] \cup (IF r \in tx[t].new THEN tx[t].caps ELSE {})]
    /\ \E slot \in [tx[t].won -> tx[t].caps] :
         /\ \A r \in tx[t].won : slot[r] \in Waiting(t, r)
         /\ lease' = [r \in Requests |-> IF r \in tx[t].won THEN {slot[r]} ELSE lease[r] \ Lost(t, r)]
    /\ tx' = [tx EXCEPT ![t] = Idle]

(***************************************************************************)
(* Management writes and parent deletes: the owner fences, the policy and  *)
(* capacity fences of what they change, then rows of those owners.  A      *)
(* drain batch takes one user row and waits for nothing after it.          *)
(***************************************************************************)
BeginManage(t, owners, caps) ==
    /\ tx[t] = Idle /\ owners # {}
    /\ Become(t, [Idle EXCEPT !.at = "graph", !.kind = "manage", !.own = {},
                              !.want = owners \cup {PolicyFence[c] : c \in caps} \cup caps])

GraphRows(t) ==
    /\ Ready(t, "graph")
    /\ Become(t, [tx[t] EXCEPT !.at = "done", !.ask = {UserRow[o] : o \in tx[t].fences \cap Owners}])

BeginDrain(t, o) ==
    /\ tx[t] = Idle
    /\ Become(t, [Idle EXCEPT !.at = "done", !.kind = "drain", !.ask = {UserRow[o]}])

Done(t) == Ready(t, "done") /\ End(t)

Begin(t) ==
    \/ \E r \in Requests :
         \/ \E candidates \in SUBSET Capacities : BeginAcquire(t, r, candidates)
         \/ BeginRelease(t, r)
         \/ \E kind \in {"terminalize", "sweep"} : BeginEnd(t, r, kind)
    \/ \E owners \in SUBSET Owners, caps \in SUBSET Capacities : BeginManage(t, owners, caps)
    \/ \E o \in Owners : BeginDrain(t, o)

Lock(t) == TakeFence(t) \/ GiveUp(t) \/ LockRow(t)

Advance(t) ==
    \/ Policies(t) \/ Plan(t) \/ Recheck(t)
    \/ RowsOfAcquire(t) \/ Settle(t) \/ RowsOfRelease(t) \/ OwnOfRelease(t)
    \/ RowsOfTerminalize(t) \/ RowsOfSweep(t) \/ CrossOfSweep(t)
    \/ Expire(t) \/ Winners(t) \/ Passed(t) \/ Commit(t)
    \/ GraphRows(t) \/ Done(t)

LocksNext == \E t \in Txs : Begin(t) \/ Lock(t) \/ Advance(t)

LocksSpec == LocksInit /\ [][LocksNext]_lockVars

(***************************************************************************)
(* Properties.                                                             *)
(***************************************************************************)
\* t cannot go on before s has ended: for a fence, or for a row.
WaitsForFence(t, s) ==
    tx[t].want # {} /\ tx[t].kind # "sweep" /\ Least(tx[t].want) \in tx[s].fences

WaitsForRow(t, s, rows) ==
    /\ tx[t].want = {} /\ tx[t].ask # {}
    /\ Least(tx[t].ask) \in tx[s].rows \cap rows

Waits(t, s, rows) == WaitsForFence(t, s) \/ WaitsForRow(t, s, rows)

Acyclic(rows) ==
    \A S \in SUBSET Txs : S # {} => \E t \in S : \A s \in S \ {t} : ~Waits(t, s, rows)

\* "Why admission cannot be part of a deadlock": no set of transactions wait for
\* one another, whatever they read and wherever the others were when they read it.
NoDeadlock == Acyclic(Requests \cup Numbers(UserRow))

\* The same, of the waits for fences, for graph rows and for the rows of requests
\* that are still queued.
QueuedRowsNoDeadlock == Acyclic({r \in Requests : live[r] # {}} \cup Numbers(UserRow))

\* A winner a pass picked is still waiting on a capacity of that transaction when
\* its row is locked and until it commits: #admitCapacity's re-planned pass is
\* "unreachable under the held locks".
WinnersStayWaiting ==
    \A t \in Txs : \A r \in tx[t].won : Waiting(t, r) \cap tx[t].caps # {}
=============================================================================
