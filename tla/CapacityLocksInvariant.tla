----------------------- MODULE CapacityLocksInvariant -----------------------
(***************************************************************************)
(* The inductive invariant of CapacityLocks, and the steps by which a      *)
(* transaction begins, reads, asks for rows and writes before it commits.  *)
(* The steps that take a lock or commit, and the theorems, are in          *)
(* CapacityLocksProofs.                                                    *)
(*                                                                         *)
(* The argument for rows.  A transaction holds the fence of each of its    *)
(* capacities from its first row on, so no two transactions past that      *)
(* point share a capacity.  A queued request that is locked, or about to   *)
(* be, waits on a capacity of that transaction; a request two transactions *)
(* are after therefore waits on a capacity of each, and is in the cross    *)
(* set that both lock in ascending order.                                  *)
(***************************************************************************)
EXTENDS CapacityLocks, TLAPS

Fence == Owners \cup Numbers(AttemptFence) \cup Numbers(PolicyFence)
           \cup (UNION Numbers(ScopeFences)) \cup Capacities
Row == Requests \cup Numbers(UserRow)

TxState ==
    [at : {"idle", "policy", "plan", "recheck", "rows", "settle", "own", "cross", "admit",
           "commit", "graph", "done"},
     kind : {"none", "acquire", "release", "terminalize", "sweep", "manage", "drain"},
     own : SUBSET Requests, caps : SUBSET Capacities, scopes : SUBSET Fence,
     want : SUBSET Fence, ask : SUBSET Row, fences : SUBSET Fence, rows : SUBSET Row,
     new : SUBSET Requests, won : SUBSET Requests, lost : SUBSET (Requests \X Capacities)]

LocksTypeOK ==
    /\ live \in [Requests -> SUBSET Capacities]
    /\ past \in [Requests -> SUBSET Capacities]
    /\ lease \in [Requests -> SUBSET Capacities]
    /\ tx \in [Txs -> TxState]

\* A request waits, or holds a lease, only where it has had a waiter, and never both.
TablesInv ==
    \A r \in Requests :
        /\ live[r] \cup lease[r] \subseteq past[r]
        /\ lease[r] # {} => live[r] = {}

\* What a transaction may hold, want and have written at each step: rows and
\* writes come after the last fence, and from then on it holds its capacities.
StageInv(t) ==
    /\ tx[t].at \in {"idle", "policy", "plan", "recheck", "rows", "graph"}
         => tx[t].rows = {} /\ tx[t].ask = {}
    /\ tx[t].at \notin {"policy", "plan", "recheck", "graph"}
         => tx[t].want = {} /\ tx[t].caps \subseteq tx[t].fences
    /\ tx[t].at = "recheck" => tx[t].caps \subseteq tx[t].fences \cup tx[t].want
    /\ tx[t].at \notin {"admit", "commit"} => tx[t].new = {} /\ tx[t].won = {}
    /\ tx[t].at \notin {"cross", "admit", "commit"} => tx[t].lost = {}
    /\ tx[t].at \in {"graph", "done"} => tx[t].caps = {} /\ tx[t].own = {}
    /\ tx[t].at = "cross" => tx[t].ask = {} /\ tx[t].rows \subseteq tx[t].own

\* Which kind of transaction takes which step.
KindInv(t) ==
    /\ tx[t].at \in {"policy", "settle"} => tx[t].kind = "acquire"
    /\ tx[t].at = "own" => tx[t].kind = "release"
    /\ tx[t].at = "cross" => tx[t].kind = "sweep"
    /\ tx[t].at \notin {"idle", "graph", "done"}
         => tx[t].kind \in {"acquire", "release", "terminalize", "sweep"}

\* Fences are taken in ascending order.
FenceInv(t) ==
    /\ \A f \in tx[t].fences, w \in tx[t].want : f < w
    /\ tx[t].at \in {"policy", "plan"}
         => tx[t].fences \cup tx[t].want \subseteq Numbers(AttemptFence) \cup Numbers(PolicyFence)
    /\ tx[t].at = "policy" => tx[t].fences \cup tx[t].want \subseteq Numbers(AttemptFence)

\* A transaction's capacities cover its own request wherever that still waits or is
\* leased, whatever has committed since the capacities were read.
OwnInv(t) ==
    \A r \in tx[t].own :
        /\ tx[t].own = {r}
        /\ tx[t].kind = "acquire" =>
             /\ AttemptFence[r] \in tx[t].fences \cup (IF tx[t].at = "policy" THEN tx[t].want ELSE {})
             /\ tx[t].at \notin {"policy", "plan"} /\ past[r] # {}
                  => live[r] \cup lease[r] \subseteq tx[t].caps
        /\ tx[t].kind = "release" =>
             past[r] # {} /\ live[r] = {} /\ lease[r] \subseteq tx[t].caps
        /\ tx[t].kind \in {"terminalize", "sweep"} =>
             past[r] # {} /\ past[r] \subseteq tx[t].caps

\* The request it has inserted is its own and no other transaction can see it.
NewInv(t) ==
    \A r \in tx[t].new :
        r \in tx[t].own /\ tx[t].kind = "acquire" /\ past[r] = {} /\ r \in tx[t].rows

\* It ends waiters and leases only on capacities it holds.
LostInv(t) == \A r \in Requests : Lost(t, r) \subseteq tx[t].caps

\* A queued request it has locked, or is about to lock, waits on one of its
\* capacities.
RowInv(t) ==
    \A r \in (tx[t].rows \cup tx[t].ask) \cap Requests :
        /\ past[r] # {} \/ r \in tx[t].new
        /\ live[r] # {} => live[r] \cap tx[t].caps # {}

\* Rows are locked in ascending order, except a request that waits only on
\* capacities of this transaction: no other transaction is after that one.
OrderInv(t) ==
    \A r \in tx[t].rows, q \in tx[t].ask :
        \/ r < q
        \/ r \in Requests /\ live[r] \subseteq tx[t].caps
        \/ q \in Requests /\ live[q] \subseteq tx[t].caps

\* The cross set is locked, or about to be, before the admission passes.
CrossInv(t) ==
    tx[t].at \in {"settle", "own", "admit"} => Cross(t) \subseteq tx[t].rows \cup tx[t].ask

\* A winner waits on a held capacity; until its row is locked, on no other.
WonInv(t) ==
    \A r \in tx[t].won :
        /\ Waiting(t, r) \cap tx[t].caps # {}
        /\ \/ r \in tx[t].rows
           \/ r \in tx[t].ask /\ Waiting(t, r) \subseteq tx[t].caps

TxInv(t) ==
    /\ StageInv(t) /\ KindInv(t) /\ FenceInv(t) /\ OwnInv(t) /\ NewInv(t) /\ LostInv(t)
    /\ RowInv(t) /\ OrderInv(t) /\ CrossInv(t) /\ WonInv(t)

\* No two transactions hold the same fence or the same row.
Exclusion ==
    \A s, t \in Txs :
        s # t => tx[s].fences \cap tx[t].fences = {} /\ tx[s].rows \cap tx[t].rows = {}

LocksInv == LocksTypeOK /\ TablesInv /\ Exclusion /\ \A t \in Txs : TxInv(t)

\* The order of the levels, as the proofs use it.
LEMMA LevelOrder ==
    /\ Fence \subseteq Nat /\ Row \subseteq Nat
    /\ Below(Fence, Row) /\ Below(Requests, Numbers(UserRow))
    /\ Below(Numbers(AttemptFence), Numbers(PolicyFence))
    /\ Below(Numbers(AttemptFence) \cup Numbers(PolicyFence), (UNION Numbers(ScopeFences)) \cup Capacities)
<1> DEFINE A == Numbers(AttemptFence)
           P == Numbers(PolicyFence)
           S == UNION Numbers(ScopeFences)
           U == Numbers(UserRow)
<1>b. /\ Fence = Owners \cup A \cup P \cup S \cup Capacities /\ Row = Requests \cup U
      /\ A = Numbers(AttemptFence) /\ P = Numbers(PolicyFence)
      /\ S = UNION Numbers(ScopeFences) /\ U = Numbers(UserRow)
  BY DEF Fence, Row
<1>0. /\ DOMAIN Levels = 1..7
      /\ Levels[1] = Owners /\ Levels[2] = A /\ Levels[3] = P /\ Levels[4] = S
      /\ Levels[5] = Capacities /\ Levels[6] = Requests /\ Levels[7] = U
  BY DEF Levels
<1> HIDE DEF A, P, S, U
<1>a. \A i, j \in 1..7 : i < j => Below(Levels[i], Levels[j])
  BY <1>0, LockAssumption
<1>1. /\ Below(Owners, Requests) /\ Below(A, Requests) /\ Below(P, Requests) /\ Below(S, Requests)
      /\ Below(Capacities, Requests)
  BY <1>0, <1>a
<1>2. /\ Below(Owners, U) /\ Below(A, U) /\ Below(P, U) /\ Below(S, U) /\ Below(Capacities, U)
      /\ Below(Requests, U)
  BY <1>0, <1>a
<1>3. Below(A, P) /\ Below(A, S) /\ Below(A, Capacities) /\ Below(P, S) /\ Below(P, Capacities)
  BY <1>0, <1>a
<1>4. A \subseteq Nat /\ P \subseteq Nat /\ S \subseteq Nat /\ U \subseteq Nat
  BY LockAssumption DEF Numbers, A, P, S, U
<1>5. Fence \subseteq Nat /\ Row \subseteq Nat
  BY Zenon, <1>4, <1>b, LockAssumption
<1>6. Below(Owners \cup A \cup P \cup S \cup Capacities, Requests \cup U)
  BY <1>1, <1>2 DEF Below
<1>7. Below(A \cup P, S \cup Capacities)
  BY <1>3 DEF Below
<1>8. Below(Fence, Row)
  BY <1>6, <1>b
<1> QED
  BY <1>2, <1>3, <1>5, <1>7, <1>8, <1>b

(***************************************************************************)
(* Steps that change one transaction's state and no table.                 *)
(***************************************************************************)
LEMMA IdleState == Idle \in TxState
BY DEF Idle, TxState

\* A transaction that holds and wants nothing satisfies the invariant, at the start
\* and whenever it has ended.
LEMMA IdleInv ==
    ASSUME NEW t \in Txs, tx[t] = Idle
    PROVE  TxInv(t)
<1>1. StageInv(t) /\ KindInv(t) /\ FenceInv(t)
  BY DEF Idle, StageInv, KindInv, FenceInv
<1>2. OwnInv(t) /\ NewInv(t) /\ LostInv(t)
  BY DEF Idle, OwnInv, NewInv, LostInv, Lost
<1>3. RowInv(t) /\ OrderInv(t) /\ CrossInv(t) /\ WonInv(t)
  BY DEF Idle, RowInv, OrderInv, CrossInv, WonInv
<1> QED
  BY <1>1, <1>2, <1>3 DEF TxInv

LEMMA EndedInv ==
    ASSUME NEW t \in Txs, tx'[t] = Idle
    PROVE  TxInv(t)'
<1>1. StageInv(t)' /\ KindInv(t)' /\ FenceInv(t)'
  BY DEF Idle, StageInv, KindInv, FenceInv
<1>2. OwnInv(t)' /\ NewInv(t)' /\ LostInv(t)'
  BY DEF Idle, OwnInv, NewInv, LostInv, Lost
<1>3. RowInv(t)' /\ OrderInv(t)' /\ CrossInv(t)' /\ WonInv(t)'
  BY DEF Idle, RowInv, OrderInv, CrossInv, WonInv
<1> QED
  BY <1>1, <1>2, <1>3 DEF TxInv

LEMMA BecomeFrame ==
    ASSUME LocksTypeOK, NEW t \in Txs, NEW state \in TxState, Become(t, state)
    PROVE  /\ LocksTypeOK' /\ tx'[t] = state /\ (\A s \in Txs : s # t => tx'[s] = tx[s])
           /\ live' = live /\ past' = past /\ lease' = lease
BY DEF LocksTypeOK, Become

\* The other transactions are not disturbed.
LEMMA OthersStay ==
    ASSUME live' = live, past' = past, lease' = lease,
           NEW s \in Txs, tx'[s] = tx[s], TxInv(s)
    PROVE  TxInv(s)'
<1>1. StageInv(s)' /\ KindInv(s)' /\ FenceInv(s)'
  BY DEF TxInv, StageInv, KindInv, FenceInv
<1>2. OwnInv(s)' /\ NewInv(s)' /\ LostInv(s)'
  BY DEF TxInv, OwnInv, NewInv, LostInv, Lost
<1>3. RowInv(s)' /\ OrderInv(s)'
  BY DEF TxInv, RowInv, OrderInv
<1>4. CrossInv(s)' /\ WonInv(s)'
  BY Zenon DEF TxInv, CrossInv, WonInv, Cross, Sees, Waiting, Lost
<1> QED
  BY <1>1, <1>2, <1>3, <1>4 DEF TxInv

\* What is left to show of such a step: the transaction's own invariant, and that
\* it took no lock another one holds.
LEMMA BecomeStep ==
    ASSUME LocksInv, NEW t \in Txs, NEW state \in TxState, Become(t, state), TxInv(t)',
           \A s \in Txs : s # t =>
               state.fences \cap tx[s].fences = {} /\ state.rows \cap tx[s].rows = {}
    PROVE  LocksInv'
<1>1. /\ LocksTypeOK' /\ tx'[t] = state /\ (\A s \in Txs : s # t => tx'[s] = tx[s])
      /\ live' = live /\ past' = past /\ lease' = lease
  BY BecomeFrame DEF LocksInv
<1>2. TablesInv'
  BY <1>1 DEF LocksInv, TablesInv
<1>3. Exclusion'
  BY <1>1 DEF LocksInv, Exclusion
<1>4. ASSUME NEW s \in Txs PROVE TxInv(s)'
  <2>1. CASE s = t
    BY <2>1
  <2>2. CASE s # t
    BY <1>1, <2>2, OthersStay DEF LocksInv
  <2> QED
    BY <2>1, <2>2
<1> QED
  BY <1>1, <1>2, <1>3, <1>4 DEF LocksInv

\* Most steps take no lock at all.
LEMMA BecomeSame ==
    ASSUME LocksInv, NEW t \in Txs, NEW state \in TxState, Become(t, state), TxInv(t)',
           state.fences \subseteq tx[t].fences, state.rows \subseteq tx[t].rows
    PROVE  LocksInv'
<1>1. \A s \in Txs : s # t =>
          state.fences \cap tx[s].fences = {} /\ state.rows \cap tx[s].rows = {}
  BY DEF LocksInv, Exclusion
<1> QED
  BY <1>1, BecomeStep

LEMMA EndStep ==
    ASSUME LocksInv, NEW t \in Txs, End(t)
    PROVE  LocksInv'
<1>1. Become(t, Idle)
  BY DEF End
<1>2. tx'[t] = Idle
  BY <1>1, IdleState, BecomeFrame DEF LocksInv
<1>3. TxInv(t)'
  BY <1>2, EndedInv
<1>4. Idle.fences = {} /\ Idle.rows = {}
  BY DEF Idle
<1> QED
  BY <1>1, <1>3, <1>4, IdleState, BecomeSame

\* A step that writes nothing leaves what the transaction sees as it was.
LEMMA SeesStay ==
    ASSUME NEW t \in Txs, live' = live, tx'[t].caps = tx[t].caps, tx'[t].new = tx[t].new,
           tx'[t].won = tx[t].won, tx'[t].lost = tx[t].lost
    PROVE  /\ \A r \in Requests : Waiting(t, r)' = Waiting(t, r) /\ Sees(t, r)' = Sees(t, r)
           /\ Cross(t)' = Cross(t)
<1>1. \A r : Lost(t, r)' = Lost(t, r)
  BY DEF Lost
<1>2. \A r : Waiting(t, r)' = Waiting(t, r)
  BY <1>1 DEF Waiting
<1>3. \A r : Sees(t, r)' = Sees(t, r)
  BY <1>2 DEF Sees
<1>4. Cross(t)' = Cross(t)
  BY <1>3 DEF Cross
<1> QED
  BY <1>2, <1>3, <1>4

(***************************************************************************)
(* Before the first row.                                                   *)
(***************************************************************************)
\* Until then nothing is locked or written.
LEMMA BeforeRows ==
    ASSUME NEW t \in Txs, NEW x, tx'[t] = x, x.rows = {}, x.ask = {}, x.new = {}, x.won = {},
           x.lost = {}, x.at \notin {"settle", "own", "admit"}
    PROVE  NewInv(t)' /\ LostInv(t)' /\ RowInv(t)' /\ OrderInv(t)' /\ CrossInv(t)' /\ WonInv(t)'
<1>1. NewInv(t)' /\ LostInv(t)' /\ RowInv(t)'
  BY DEF NewInv, LostInv, Lost, RowInv
<1>2. OrderInv(t)' /\ CrossInv(t)' /\ WonInv(t)'
  BY DEF OrderInv, CrossInv, WonInv
<1> QED
  BY <1>1, <1>2

\* A transaction begins with what it wants and nothing else.
LEMMA BeginStep ==
    ASSUME LocksInv, NEW t \in Txs, tx[t] = Idle, NEW x \in TxState, Become(t, x),
           x.at \in {"policy", "plan", "graph"}, x.fences = {}, x.rows = {}, x.ask = {},
           x.new = {}, x.won = {}, x.lost = {},
           x.at = "policy" => x.kind = "acquire" /\ x.want \subseteq Numbers(AttemptFence),
           x.at = "plan" => x.kind \in {"release", "terminalize", "sweep"} /\ x.want = {},
           x.at = "graph" => x.caps = {} /\ x.own = {},
           \A r \in x.own :
               /\ x.own = {r}
               /\ x.kind = "acquire" => x.at = "policy" /\ AttemptFence[r] \in x.want
               /\ x.kind = "release" => past[r] # {} /\ live[r] = {} /\ lease[r] \subseteq x.caps
               /\ x.kind \in {"terminalize", "sweep"} => past[r] # {} /\ past[r] \subseteq x.caps
    PROVE  LocksInv'
<1>1. tx'[t] = x /\ live' = live /\ past' = past /\ lease' = lease
  BY BecomeFrame DEF LocksInv
<1>2. StageInv(t)' /\ KindInv(t)' /\ FenceInv(t)'
  BY <1>1 DEF StageInv, KindInv, FenceInv
<1>3. OwnInv(t)'
  BY <1>1 DEF OwnInv
<1>4. TxInv(t)'
  BY <1>1, <1>2, <1>3, BeforeRows DEF TxInv
<1> QED
  BY <1>4, BecomeSame

LEMMA BeginAcquireStep ==
    ASSUME LocksInv, NEW t \in Txs, NEW r \in Requests, NEW candidates \in SUBSET Capacities,
           BeginAcquire(t, r, candidates)
    PROVE  LocksInv'
<1> DEFINE x == [Idle EXCEPT !.at = "policy", !.kind = "acquire", !.own = {r},
                             !.caps = candidates, !.want = {AttemptFence[r]}]
<1>1. AttemptFence[r] \in Numbers(AttemptFence)
  BY LockAssumption DEF Numbers
<1>2. AttemptFence[r] \in Fence
  BY <1>1 DEF Fence
<1>3. x \in TxState /\ x.at = "policy" /\ x.kind = "acquire" /\ x.own = {r}
      /\ x.want = {AttemptFence[r]} /\ x.fences = {} /\ x.rows = {} /\ x.ask = {} /\ x.new = {}
      /\ x.won = {} /\ x.lost = {}
  BY Zenon, <1>2 DEF Idle, TxState
<1>4. tx[t] = Idle /\ Become(t, x)
  BY DEF BeginAcquire
<1> HIDE DEF x
<1> QED
  BY <1>1, <1>3, <1>4, BeginStep

LEMMA BeginReleaseStep ==
    ASSUME LocksInv, NEW t \in Txs, NEW r \in Requests, BeginRelease(t, r)
    PROVE  LocksInv'
<1> DEFINE x == [Idle EXCEPT !.at = "plan", !.kind = "release", !.own = {r}, !.caps = lease[r]]
<1>1. lease[r] \subseteq Capacities /\ past[r] # {} /\ live[r] = {}
  BY DEF LocksInv, LocksTypeOK, TablesInv, BeginRelease
<1>2. x \in TxState /\ x.at = "plan" /\ x.kind = "release" /\ x.own = {r} /\ x.caps = lease[r]
      /\ x.want = {} /\ x.fences = {} /\ x.rows = {} /\ x.ask = {} /\ x.new = {}
      /\ x.won = {} /\ x.lost = {}
  BY Zenon, <1>1 DEF Idle, TxState
<1>3. tx[t] = Idle /\ Become(t, x)
  BY DEF BeginRelease
<1> HIDE DEF x
<1> QED
  BY <1>1, <1>2, <1>3, BeginStep

LEMMA BeginEndStep ==
    ASSUME LocksInv, NEW t \in Txs, NEW r \in Requests, NEW kind \in {"terminalize", "sweep"},
           BeginEnd(t, r, kind)
    PROVE  LocksInv'
<1> DEFINE x == [Idle EXCEPT !.at = "plan", !.kind = kind, !.own = {r},
                             !.caps = past[r] \cup lease[r]]
<1>1. past[r] \cup lease[r] \subseteq Capacities /\ past[r] # {}
  BY DEF LocksInv, LocksTypeOK, BeginEnd
<1>2. x \in TxState /\ x.at = "plan" /\ x.kind = kind /\ x.own = {r}
      /\ x.caps = past[r] \cup lease[r]
      /\ x.want = {} /\ x.fences = {} /\ x.rows = {} /\ x.ask = {} /\ x.new = {}
      /\ x.won = {} /\ x.lost = {}
  BY Zenon, <1>1 DEF Idle, TxState
<1>3. tx[t] = Idle /\ Become(t, x)
  BY DEF BeginEnd
<1> HIDE DEF x
<1> QED
  BY <1>1, <1>2, <1>3, BeginStep

LEMMA BeginManageStep ==
    ASSUME LocksInv, NEW t \in Txs, NEW owners \in SUBSET Owners, NEW caps \in SUBSET Capacities,
           BeginManage(t, owners, caps)
    PROVE  LocksInv'
<1> DEFINE want == owners \cup {PolicyFence[c] : c \in caps} \cup caps
           x == [Idle EXCEPT !.at = "graph", !.kind = "manage", !.own = {}, !.want = want]
<1>1. want \subseteq Fence
  BY Zenon, LockAssumption DEF Fence, Numbers
<1>2. tx[t] = Idle /\ Become(t, x)
  BY DEF BeginManage
<1> HIDE DEF want
<1>3. x \in TxState /\ x.at = "graph" /\ x.kind = "manage" /\ x.own = {} /\ x.caps = {}
      /\ x.fences = {} /\ x.rows = {} /\ x.ask = {} /\ x.new = {} /\ x.won = {} /\ x.lost = {}
  BY Zenon, <1>1 DEF Idle, TxState
<1> HIDE DEF x
<1> QED
  BY <1>2, <1>3, BeginStep

LEMMA BeginDrainStep ==
    ASSUME LocksInv, NEW t \in Txs, NEW o \in Owners, BeginDrain(t, o)
    PROVE  LocksInv'
<1> DEFINE x == [Idle EXCEPT !.at = "done", !.kind = "drain", !.ask = {UserRow[o]}]
<1>1. UserRow[o] \in Numbers(UserRow) /\ UserRow[o] \in Row
  BY LockAssumption DEF Numbers, Row
<1>2. UserRow[o] \notin Requests
  BY <1>1, LevelOrder DEF Below, Row
<1>3. x \in TxState /\ x.at = "done" /\ x.kind = "drain" /\ x.own = {} /\ x.caps = {}
      /\ x.want = {} /\ x.fences = {} /\ x.rows = {} /\ x.ask = {UserRow[o]} /\ x.new = {}
      /\ x.won = {} /\ x.lost = {}
  BY Zenon, <1>1 DEF Idle, TxState
<1>4. tx[t] = Idle /\ Become(t, x)
  BY DEF BeginDrain
<1> HIDE DEF x
<1>5. tx'[t] = x
  BY <1>3, <1>4, BecomeFrame DEF LocksInv
<1>6. TxInv(t)'
  <2>1. StageInv(t)' /\ KindInv(t)' /\ FenceInv(t)'
    BY <1>3, <1>5 DEF StageInv, KindInv, FenceInv
  <2>2. OwnInv(t)' /\ NewInv(t)' /\ LostInv(t)'
    BY <1>3, <1>5 DEF OwnInv, NewInv, LostInv, Lost
  <2>3. RowInv(t)' /\ OrderInv(t)' /\ CrossInv(t)' /\ WonInv(t)'
    BY <1>2, <1>3, <1>5 DEF RowInv, OrderInv, CrossInv, WonInv
  <2> QED
    BY <2>1, <2>2, <2>3 DEF TxInv
<1> QED
  BY <1>3, <1>4, <1>6, BecomeSame

LEMMA PoliciesStep ==
    ASSUME LocksInv, NEW t \in Txs, Policies(t)
    PROVE  LocksInv'
<1>1. tx[t] \in TxState /\ TxInv(t) /\ Ready(t, "policy")
  BY DEF LocksInv, LocksTypeOK, Policies
<1>2. PICK r \in tx[t].own :
        LET caps == IF past[r] = {} THEN tx[t].caps ELSE past[r] IN
        Become(t, [tx[t] EXCEPT !.at = "plan", !.want = {PolicyFence[c] : c \in caps} \ tx[t].fences])
  BY Zenon DEF Policies
<1> DEFINE caps == IF past[r] = {} THEN tx[t].caps ELSE past[r]
           want == {PolicyFence[c] : c \in caps} \ tx[t].fences
           x == [tx[t] EXCEPT !.at = "plan", !.want = want]
<1>3. want \subseteq Numbers(PolicyFence) /\ want \subseteq Fence
  <2>1. r \in Requests /\ tx[t].caps \subseteq Capacities
    BY <1>1 DEF TxState
  <2>2. caps \subseteq Capacities
    BY <2>1 DEF LocksInv, LocksTypeOK
  <2> QED
    BY Zenon, <2>2, LockAssumption DEF Fence, Numbers
<1>4. Become(t, x)
  BY <1>2
<1> HIDE DEF want
<1>5. x \in TxState /\ x.at = "plan" /\ x.want = want /\ x.kind = tx[t].kind /\ x.own = tx[t].own
      /\ x.caps = tx[t].caps /\ x.fences = tx[t].fences /\ x.rows = tx[t].rows
      /\ x.ask = tx[t].ask /\ x.new = tx[t].new /\ x.won = tx[t].won /\ x.lost = tx[t].lost
  BY Zenon, <1>1, <1>3 DEF TxState
<1>6. tx'[t] = x /\ live' = live /\ past' = past /\ lease' = lease
  BY <1>4, <1>5, BecomeFrame DEF LocksInv
<1> HIDE DEF x
<1>7. tx[t].rows = {} /\ tx[t].ask = {} /\ tx[t].new = {} /\ tx[t].won = {} /\ tx[t].lost = {}
      /\ tx[t].kind = "acquire" /\ tx[t].want = {} /\ tx[t].fences \subseteq Numbers(AttemptFence)
  BY <1>1 DEF TxInv, StageInv, KindInv, FenceInv, Ready
<1>8. TxInv(t)'
  <2>1. StageInv(t)' /\ KindInv(t)'
    BY <1>5, <1>6, <1>7 DEF StageInv, KindInv
  <2>2. FenceInv(t)'
    BY Zenon, <1>3, <1>5, <1>6, <1>7, LevelOrder DEF FenceInv, Below
  <2>3. OwnInv(t)'
    BY <1>1, <1>5, <1>6, <1>7 DEF TxInv, OwnInv
  <2> QED
    BY <1>5, <1>6, <1>7, <2>1, <2>2, <2>3, BeforeRows DEF TxInv
<1> QED
  BY <1>4, <1>5, <1>8, BecomeSame

LEMMA PlanStep ==
    ASSUME LocksInv, NEW t \in Txs, Plan(t)
    PROVE  LocksInv'
<1>1. tx[t] \in TxState /\ TxInv(t) /\ Ready(t, "plan")
  BY DEF LocksInv, LocksTypeOK, Plan
<1>2. PICK r \in tx[t].own :
        LET known == tx[t].kind = "acquire" /\ past[r] # {}
            caps == IF known THEN live[r] \cup lease[r] ELSE tx[t].caps
            scopes == ScopesOn(caps) \cup (IF tx[t].kind = "acquire" THEN ScopeFences[r] ELSE {}) IN
        Become(t, [tx[t] EXCEPT !.at = "recheck", !.caps = caps, !.scopes = scopes,
                                !.want = scopes \cup caps])
  BY Zenon DEF Plan
<1> DEFINE known == tx[t].kind = "acquire" /\ past[r] # {}
           caps == IF known THEN live[r] \cup lease[r] ELSE tx[t].caps
           scopes == ScopesOn(caps) \cup (IF tx[t].kind = "acquire" THEN ScopeFences[r] ELSE {})
           x == [tx[t] EXCEPT !.at = "recheck", !.caps = caps, !.scopes = scopes,
                              !.want = scopes \cup caps]
<1>3. r \in Requests /\ caps \subseteq Capacities
  BY <1>1 DEF TxState, LocksInv, LocksTypeOK
<1>4. scopes \subseteq UNION Numbers(ScopeFences)
  BY Zenon, <1>3, LockAssumption DEF ScopesOn, Numbers
<1>5. scopes \cup caps \subseteq Fence
  <2> HIDE DEF scopes, caps
  <2> QED
    BY <1>3, <1>4 DEF Fence
<1>6. Become(t, x)
  BY <1>2
<1>7. tx[t].kind = "acquire" /\ past[r] # {} => caps = live[r] \cup lease[r]
  OBVIOUS
<1>8. tx[t].kind # "acquire" => caps = tx[t].caps
  OBVIOUS
<1> HIDE DEF scopes, caps
<1>9. x \in TxState /\ x.at = "recheck" /\ x.want = scopes \cup caps /\ x.kind = tx[t].kind
      /\ x.own = tx[t].own /\ x.caps = caps /\ x.fences = tx[t].fences /\ x.rows = tx[t].rows
      /\ x.ask = tx[t].ask /\ x.new = tx[t].new /\ x.won = tx[t].won /\ x.lost = tx[t].lost
  BY Zenon, <1>1, <1>3, <1>5 DEF TxState
<1>10. tx'[t] = x /\ live' = live /\ past' = past /\ lease' = lease
  BY <1>6, <1>9, BecomeFrame DEF LocksInv
<1> HIDE DEF x
<1>11. tx[t].rows = {} /\ tx[t].ask = {} /\ tx[t].new = {} /\ tx[t].won = {} /\ tx[t].lost = {}
       /\ tx[t].kind \in {"acquire", "release", "terminalize", "sweep"} /\ tx[t].want = {}
       /\ tx[t].fences \subseteq Numbers(AttemptFence) \cup Numbers(PolicyFence)
       /\ tx[t].own = {r}
  BY <1>1, <1>2 DEF TxInv, StageInv, KindInv, FenceInv, OwnInv, Ready
<1>12. TxInv(t)'
  <2>1. StageInv(t)' /\ KindInv(t)'
    BY <1>9, <1>10, <1>11 DEF StageInv, KindInv
  <2>2. FenceInv(t)'
    <3>1. \A f \in tx[t].fences, w \in scopes \cup caps : f < w
      BY <1>3, <1>4, <1>11, LevelOrder DEF Below
    <3> QED
      BY <3>1, <1>9, <1>10 DEF FenceInv
  <2>3. OwnInv(t)'
    BY <1>1, <1>7, <1>8, <1>9, <1>10, <1>11 DEF TxInv, OwnInv, Ready
  <2> QED
    BY <1>9, <1>10, <1>11, <2>1, <2>2, <2>3, BeforeRows DEF TxInv
<1> QED
  BY <1>6, <1>9, <1>12, BecomeSame

LEMMA RecheckStep ==
    ASSUME LocksInv, NEW t \in Txs, Recheck(t)
    PROVE  LocksInv'
<1>1. tx[t] \in TxState /\ TxInv(t) /\ Ready(t, "recheck")
  BY DEF LocksInv, LocksTypeOK, Recheck
<1>2. CASE End(t)
  BY <1>2, EndStep
<1>3. CASE Become(t, [tx[t] EXCEPT !.at = "rows"])
  <2> DEFINE x == [tx[t] EXCEPT !.at = "rows"]
  <2>1. x \in TxState /\ x.at = "rows" /\ x.want = tx[t].want /\ x.kind = tx[t].kind
        /\ x.own = tx[t].own /\ x.caps = tx[t].caps /\ x.fences = tx[t].fences
        /\ x.rows = tx[t].rows /\ x.ask = tx[t].ask /\ x.new = tx[t].new /\ x.won = tx[t].won
        /\ x.lost = tx[t].lost
    BY <1>1 DEF TxState
  <2>2. Become(t, x)
    BY <1>3
  <2> HIDE DEF x
  <2>3. tx'[t] = x /\ live' = live /\ past' = past /\ lease' = lease
    BY <2>1, <2>2, BecomeFrame DEF LocksInv
  <2>4. tx[t].rows = {} /\ tx[t].ask = {} /\ tx[t].new = {} /\ tx[t].won = {} /\ tx[t].lost = {}
        /\ tx[t].want = {} /\ tx[t].caps \subseteq tx[t].fences
    BY <1>1 DEF TxInv, StageInv, Ready
  <2>5. StageInv(t)' /\ KindInv(t)' /\ FenceInv(t)'
    BY Zenon, <1>1, <2>1, <2>3, <2>4 DEF TxInv, StageInv, KindInv, FenceInv, Ready
  <2>6. OwnInv(t)'
    BY <1>1, <2>1, <2>3 DEF TxInv, OwnInv, Ready
  <2>7. TxInv(t)'
    BY <2>1, <2>3, <2>4, <2>5, <2>6, BeforeRows DEF TxInv
  <2> QED
    BY <2>1, <2>2, <2>7, BecomeSame
<1> QED
  BY <1>2, <1>3 DEF Recheck

LEMMA GraphRowsStep ==
    ASSUME LocksInv, NEW t \in Txs, GraphRows(t)
    PROVE  LocksInv'
<1> DEFINE ask == {UserRow[o] : o \in tx[t].fences \cap Owners}
           x == [tx[t] EXCEPT !.at = "done", !.ask = ask]
<1>1. tx[t] \in TxState /\ TxInv(t) /\ Ready(t, "graph") /\ Become(t, x)
  BY DEF LocksInv, LocksTypeOK, GraphRows
<1>2. ask \subseteq Numbers(UserRow) /\ ask \subseteq Row
  BY Zenon, LockAssumption DEF Numbers, Row
<1> HIDE DEF ask
<1>3. ask \cap Requests = {}
  BY <1>2, LevelOrder DEF Below, Row
<1>4. x \in TxState /\ x.at = "done" /\ x.want = tx[t].want /\ x.kind = tx[t].kind
      /\ x.own = tx[t].own /\ x.caps = tx[t].caps /\ x.fences = tx[t].fences
      /\ x.rows = tx[t].rows /\ x.ask = ask /\ x.new = tx[t].new /\ x.won = tx[t].won
      /\ x.lost = tx[t].lost
  BY Zenon, <1>1, <1>2 DEF TxState
<1> HIDE DEF x
<1>5. tx'[t] = x
  BY <1>1, <1>4, BecomeFrame DEF LocksInv
<1>6. tx[t].rows = {} /\ tx[t].new = {} /\ tx[t].won = {} /\ tx[t].lost = {}
      /\ tx[t].want = {} /\ tx[t].caps = {} /\ tx[t].own = {}
  BY <1>1 DEF TxInv, StageInv, Ready
<1>7. TxInv(t)'
  <2>1. StageInv(t)' /\ KindInv(t)' /\ FenceInv(t)'
    BY <1>1, <1>4, <1>5, <1>6 DEF StageInv, KindInv, FenceInv
  <2>2. OwnInv(t)' /\ NewInv(t)' /\ LostInv(t)'
    BY <1>4, <1>5, <1>6 DEF OwnInv, NewInv, LostInv, Lost
  <2>3. RowInv(t)' /\ OrderInv(t)' /\ CrossInv(t)' /\ WonInv(t)'
    BY <1>3, <1>4, <1>5, <1>6 DEF RowInv, OrderInv, CrossInv, WonInv
  <2> QED
    BY <2>1, <2>2, <2>3 DEF TxInv
<1> QED
  BY <1>1, <1>4, <1>7, BecomeSame

(***************************************************************************)
(* From the first row on.                                                  *)
(***************************************************************************)
\* What a transaction sees of a request is what is committed, less what it has
\* ended on its own capacities; its new request waits on those only.
LEMMA SeesFacts ==
    ASSUME LocksInv, NEW t \in Txs, NEW r \in Requests
    PROVE  /\ r \notin tx[t].new => Waiting(t, r) \subseteq live[r]
           /\ r \in tx[t].new => live[r] = {} /\ Waiting(t, r) \subseteq tx[t].caps
           /\ live[r] \subseteq Waiting(t, r) \cup tx[t].caps
           /\ Sees(t, r) # {} => r \notin tx[t].won /\ Sees(t, r) = Waiting(t, r)
<1>1. /\ Lost(t, r) \subseteq tx[t].caps
      /\ r \in tx[t].new => past[r] = {}
      /\ live[r] \subseteq past[r]
  BY DEF LocksInv, TxInv, LostInv, NewInv, TablesInv
<1> QED
  BY <1>1 DEF Waiting, Sees

\* The queued requests of the cross set wait on a capacity of the transaction.
LEMMA CrossFacts ==
    ASSUME LocksInv, NEW t \in Txs, tx[t].new = {}, NEW r \in Cross(t)
    PROVE  r \in Requests /\ past[r] # {} /\ live[r] \cap tx[t].caps # {}
<1>1. r \in Requests /\ Sees(t, r) \cap tx[t].caps # {}
  BY DEF Cross
<1>2. Waiting(t, r) \cap tx[t].caps # {} /\ Waiting(t, r) \subseteq live[r]
  BY <1>1, SeesFacts
<1>3. live[r] \subseteq past[r]
  BY <1>1 DEF LocksInv, TablesInv
<1> QED
  BY <1>1, <1>2, <1>3

\* A step that changes only the stage and the rows the transaction asks for.
LEMMA AskStep ==
    ASSUME LocksInv, NEW t \in Txs, NEW at, NEW ask \in SUBSET Row,
           Ready(t, tx[t].at), tx[t].new = {}, tx[t].won = {},
           at \in {"settle", "own", "admit"}, tx[t].at \in {"rows", "settle", "cross"},
           tx[t].at = "rows" => tx[t].rows = {} /\ at \in {"settle", "own"},
           at = "settle" => tx[t].kind = "acquire", at = "own" => tx[t].kind = "release",
           tx[t].at # "cross" => tx[t].lost = {},
           at \in {"settle", "own"} => tx[t].lost = {},
           \A r \in ask \cap Requests : past[r] # {} /\ (live[r] # {} => live[r] \cap tx[t].caps # {}),
           \A r \in tx[t].rows, q \in ask : r \in Requests /\ live[r] \subseteq tx[t].caps,
           Cross(t) \subseteq tx[t].rows \cup ask,
           Become(t, [tx[t] EXCEPT !.at = at, !.ask = ask])
    PROVE  LocksInv'
<1> DEFINE x == [tx[t] EXCEPT !.at = at, !.ask = ask]
<1>1. tx[t] \in TxState /\ TxInv(t) /\ Become(t, x)
  BY DEF LocksInv, LocksTypeOK
<1>2. x \in TxState /\ x.at = at /\ x.want = tx[t].want /\ x.kind = tx[t].kind
      /\ x.own = tx[t].own /\ x.caps = tx[t].caps /\ x.fences = tx[t].fences
      /\ x.rows = tx[t].rows /\ x.ask = ask /\ x.new = tx[t].new /\ x.won = tx[t].won
      /\ x.lost = tx[t].lost
  BY Zenon, <1>1 DEF TxState
<1> HIDE DEF x
<1>3. tx'[t] = x /\ live' = live /\ past' = past /\ lease' = lease
  BY <1>1, <1>2, BecomeFrame DEF LocksInv
<1>4. Cross(t)' = Cross(t)
  BY Zenon, <1>2, <1>3, SeesStay
<1>5. StageInv(t)' /\ KindInv(t)' /\ FenceInv(t)'
  BY <1>1, <1>2, <1>3 DEF TxInv, StageInv, KindInv, FenceInv, Ready
<1>6. OwnInv(t)' /\ NewInv(t)' /\ LostInv(t)'
  BY <1>1, <1>2, <1>3 DEF TxInv, OwnInv, NewInv, LostInv, Lost
<1>7. RowInv(t)'
  BY <1>1, <1>2, <1>3 DEF TxInv, RowInv
<1>8. OrderInv(t)' /\ CrossInv(t)' /\ WonInv(t)'
  BY <1>2, <1>3, <1>4 DEF OrderInv, CrossInv, WonInv
<1>9. TxInv(t)'
  BY <1>5, <1>6, <1>7, <1>8 DEF TxInv
<1> QED
  BY <1>1, <1>2, <1>9, BecomeSame

LEMMA RowsOfAcquireStep ==
    ASSUME LocksInv, NEW t \in Txs, RowsOfAcquire(t)
    PROVE  LocksInv'
<1>1. tx[t] \in TxState /\ TxInv(t) /\ Ready(t, "rows") /\ tx[t].kind = "acquire"
  BY DEF LocksInv, LocksTypeOK, RowsOfAcquire
<1> DEFINE ask == Cross(t) \cup Exists(t)
<1>2. tx[t].at = "rows" /\ tx[t].new = {} /\ tx[t].won = {} /\ tx[t].lost = {} /\ tx[t].rows = {}
  BY <1>1 DEF TxInv, StageInv, Ready
<1>3. ASSUME NEW r \in ask
      PROVE  r \in Requests /\ past[r] # {} /\ (live[r] # {} => live[r] \cap tx[t].caps # {})
  <2>1. CASE r \in Cross(t)
    BY <2>1, <1>2, CrossFacts
  <2>2. CASE r \in Exists(t)
    <3>1. r \in tx[t].own /\ past[r] # {} /\ r \in Requests
      BY <2>2, <1>1 DEF Exists, TxState
    <3>2. live[r] \subseteq tx[t].caps
      BY <3>1, <1>1, <1>2 DEF TxInv, OwnInv
    <3> QED
      BY <3>1, <3>2
  <2> QED
    BY <2>1, <2>2, <1>3
<1>4. ask \in SUBSET Row
  BY <1>3 DEF Row
<1>5. Become(t, [tx[t] EXCEPT !.at = "settle", !.ask = ask])
  BY DEF RowsOfAcquire
<1>6. Cross(t) \subseteq tx[t].rows \cup ask
  OBVIOUS
<1> HIDE DEF ask
<1>7. Ready(t, tx[t].at)
  BY <1>1, <1>2
<1> QED
  BY Zenon, <1>1, <1>2, <1>3, <1>4, <1>5, <1>6, <1>7, AskStep

LEMMA RowsOfReleaseStep ==
    ASSUME LocksInv, NEW t \in Txs, RowsOfRelease(t)
    PROVE  LocksInv'
<1>1. tx[t] \in TxState /\ TxInv(t) /\ Ready(t, "rows") /\ tx[t].kind = "release"
  BY DEF LocksInv, LocksTypeOK, RowsOfRelease
<1> DEFINE ask == Cross(t)
<1>2. tx[t].at = "rows" /\ tx[t].new = {} /\ tx[t].won = {} /\ tx[t].lost = {} /\ tx[t].rows = {}
  BY <1>1 DEF TxInv, StageInv, Ready
<1>3. \A r \in ask : r \in Requests /\ past[r] # {} /\ live[r] \cap tx[t].caps # {}
  BY <1>2, CrossFacts
<1>4. ask \in SUBSET Row
  BY <1>3 DEF Row
<1>5. Become(t, [tx[t] EXCEPT !.at = "own", !.ask = ask])
  BY DEF RowsOfRelease
<1>6. Cross(t) \subseteq tx[t].rows \cup ask
  OBVIOUS
<1> HIDE DEF ask
<1>7. Ready(t, tx[t].at)
  BY <1>1, <1>2
<1> QED
  BY Zenon, <1>1, <1>2, <1>3, <1>4, <1>5, <1>6, <1>7, AskStep

LEMMA CrossOfSweepStep ==
    ASSUME LocksInv, NEW t \in Txs, CrossOfSweep(t)
    PROVE  LocksInv'
<1>1. tx[t] \in TxState /\ TxInv(t) /\ Ready(t, "cross")
  BY DEF LocksInv, LocksTypeOK, CrossOfSweep
<1> DEFINE ask == Cross(t)
<1>2. tx[t].at = "cross" /\ tx[t].new = {} /\ tx[t].won = {} /\ tx[t].rows \subseteq tx[t].own
      /\ tx[t].kind = "sweep"
  BY <1>1 DEF TxInv, StageInv, KindInv, Ready
<1>3. \A r \in ask : r \in Requests /\ past[r] # {} /\ live[r] \cap tx[t].caps # {}
  BY <1>2, CrossFacts
<1>4. ask \in SUBSET Row
  BY <1>3 DEF Row
<1>5. Become(t, [tx[t] EXCEPT !.at = "admit", !.ask = ask])
  BY DEF CrossOfSweep
<1>6. Cross(t) \subseteq tx[t].rows \cup ask
  OBVIOUS
<1>7. ASSUME NEW r \in tx[t].rows PROVE r \in Requests /\ live[r] \subseteq tx[t].caps
  <2>1. r \in tx[t].own /\ r \in Requests
    BY <1>1, <1>2 DEF TxState
  <2>2. past[r] \subseteq tx[t].caps
    BY <2>1, <1>1, <1>2 DEF TxInv, OwnInv
  <2> QED
    BY <2>1, <2>2 DEF LocksInv, TablesInv
<1> HIDE DEF ask
<1>8. Ready(t, tx[t].at)
  BY <1>1, <1>2
<1> QED
  BY Zenon, <1>1, <1>2, <1>3, <1>4, <1>5, <1>6, <1>7, <1>8, AskStep

\* acquire inserts its request: no other transaction can hold the row of one that
\* does not exist, because the attempt fence is held.
LEMMA InsertStep ==
    ASSUME LocksInv, NEW t \in Txs, Ready(t, "settle"), NEW r \in tx[t].own, past[r] = {},
           Become(t, [tx[t] EXCEPT !.at = "admit", !.new = {r}, !.rows = @ \cup {r}])
    PROVE  LocksInv'
<1> DEFINE x == [tx[t] EXCEPT !.at = "admit", !.new = {r}, !.rows = @ \cup {r}]
<1>1. tx[t] \in TxState /\ TxInv(t) /\ Become(t, x) /\ r \in Requests
  BY DEF LocksInv, LocksTypeOK, TxState
<1>2. x \in TxState /\ x.at = "admit" /\ x.want = tx[t].want /\ x.kind = tx[t].kind
      /\ x.own = tx[t].own /\ x.caps = tx[t].caps /\ x.fences = tx[t].fences
      /\ x.rows = tx[t].rows \cup {r} /\ x.ask = tx[t].ask /\ x.new = {r} /\ x.won = tx[t].won
      /\ x.lost = tx[t].lost
  BY Zenon, <1>1 DEF TxState, Row
<1> HIDE DEF x
<1>3. tx'[t] = x /\ live' = live /\ past' = past /\ lease' = lease
  BY <1>1, <1>2, BecomeFrame DEF LocksInv
<1>4. tx[t].at = "settle" /\ tx[t].want = {} /\ tx[t].ask = {} /\ tx[t].new = {} /\ tx[t].won = {}
      /\ tx[t].lost = {} /\ tx[t].kind = "acquire" /\ tx[t].caps \subseteq tx[t].fences
      /\ AttemptFence[r] \in tx[t].fences /\ tx[t].own = {r}
  BY <1>1 DEF TxInv, StageInv, KindInv, OwnInv, Ready
<1>5. live[r] = {}
  BY <1>1 DEF LocksInv, TablesInv
<1>6. StageInv(t)' /\ KindInv(t)' /\ FenceInv(t)'
  BY <1>1, <1>2, <1>3, <1>4 DEF TxInv, StageInv, KindInv, FenceInv
<1>7. OwnInv(t)' /\ NewInv(t)' /\ LostInv(t)'
  BY <1>1, <1>2, <1>3, <1>4 DEF TxInv, OwnInv, NewInv, LostInv, Lost
<1>8. RowInv(t)' /\ OrderInv(t)' /\ WonInv(t)'
  BY <1>1, <1>2, <1>3, <1>4, <1>5 DEF TxInv, RowInv, OrderInv, WonInv
<1>9. CrossInv(t)'
  <2>1. \A q \in Requests : q # r => Sees(t, q)' = Sees(t, q)
    BY <1>2, <1>3, <1>4 DEF Sees, Waiting, Lost
  <2>2. Sees(t, r)' \subseteq tx[t].caps
    BY <1>2, <1>3, <1>4, <1>5 DEF Sees, Waiting
  <2>3. Cross(t)' \subseteq Cross(t)
    BY <2>1, <2>2, <1>2, <1>3 DEF Cross
  <2> QED
    BY <2>3, <1>1, <1>2, <1>3, <1>4 DEF TxInv, CrossInv
<1>10. TxInv(t)'
  BY <1>6, <1>7, <1>8, <1>9 DEF TxInv
<1>11. ASSUME NEW s \in Txs, s # t PROVE r \notin tx[s].rows
  <2>1. SUFFICES ASSUME r \in tx[s].rows PROVE FALSE
    OBVIOUS
  <2>2. TxInv(s)
    BY DEF LocksInv
  <2>3. r \in tx[s].new
    BY <2>1, <2>2, <1>1 DEF TxInv, RowInv
  <2>4. r \in tx[s].own /\ tx[s].kind = "acquire" /\ tx[s].at # "policy"
    BY <2>2, <2>3 DEF TxInv, NewInv, StageInv
  <2>5. AttemptFence[r] \in tx[s].fences
    BY <2>2, <2>4 DEF TxInv, OwnInv
  <2> QED
    BY <2>5, <1>4, <1>11 DEF LocksInv, Exclusion
<1>12. \A s \in Txs : s # t => x.fences \cap tx[s].fences = {} /\ x.rows \cap tx[s].rows = {}
  BY <1>2, <1>11 DEF LocksInv, Exclusion
<1> QED
  BY <1>1, <1>2, <1>10, <1>12, BecomeStep

\* A step to the commit that ends waiters or the lease of the transaction's own
\* request, before any admission pass.
LEMMA LoseStep ==
    ASSUME LocksInv, NEW t \in Txs, NEW r \in tx[t].own, NEW ask \in SUBSET {r},
           NEW gone \in SUBSET tx[t].caps, tx[t].at \in {"settle", "rows"}, Ready(t, tx[t].at),
           ask # {} => tx[t].rows = {} /\ past[r] # {} /\ live[r] \subseteq tx[t].caps,
           Become(t, [tx[t] EXCEPT !.at = "commit", !.ask = ask, !.lost = {r} \X gone])
    PROVE  LocksInv'
<1> DEFINE x == [tx[t] EXCEPT !.at = "commit", !.ask = ask, !.lost = {r} \X gone]
<1>1. tx[t] \in TxState /\ TxInv(t) /\ Become(t, x)
  BY DEF LocksInv, LocksTypeOK
<1>2. r \in Requests /\ gone \subseteq Capacities
  BY <1>1 DEF TxState
<1>3. {r} \X gone \subseteq Requests \X Capacities /\ ask \subseteq Row
  BY <1>2 DEF Row
<1>4. x \in TxState /\ x.at = "commit" /\ x.want = tx[t].want /\ x.kind = tx[t].kind
      /\ x.own = tx[t].own /\ x.caps = tx[t].caps /\ x.fences = tx[t].fences
      /\ x.rows = tx[t].rows /\ x.ask = ask /\ x.new = tx[t].new /\ x.won = tx[t].won
      /\ x.lost = {r} \X gone
  BY Zenon, <1>1, <1>3 DEF TxState
<1> HIDE DEF x
<1>5. tx'[t] = x /\ live' = live /\ past' = past /\ lease' = lease
  BY <1>1, <1>4, BecomeFrame DEF LocksInv
<1>6. tx[t].want = {} /\ tx[t].new = {} /\ tx[t].won = {} /\ tx[t].caps \subseteq tx[t].fences
  BY <1>1 DEF TxInv, StageInv
<1>7. StageInv(t)' /\ KindInv(t)' /\ FenceInv(t)'
  BY <1>1, <1>4, <1>5, <1>6 DEF TxInv, StageInv, KindInv, FenceInv
<1>8. OwnInv(t)' /\ NewInv(t)'
  BY <1>1, <1>4, <1>5, <1>6 DEF TxInv, OwnInv, NewInv
<1>9. LostInv(t)'
  BY <1>4, <1>5 DEF LostInv, Lost
<1>10. RowInv(t)' /\ OrderInv(t)' /\ CrossInv(t)' /\ WonInv(t)'
  BY <1>1, <1>4, <1>5, <1>6 DEF TxInv, RowInv, OrderInv, CrossInv, WonInv, Ready
<1>11. TxInv(t)'
  BY <1>7, <1>8, <1>9, <1>10 DEF TxInv
<1> QED
  BY <1>1, <1>4, <1>11, BecomeSame

LEMMA SettleStep ==
    ASSUME LocksInv, NEW t \in Txs, Settle(t)
    PROVE  LocksInv'
<1>1. tx[t] \in TxState /\ TxInv(t) /\ Ready(t, "settle")
  BY DEF LocksInv, LocksTypeOK, Settle
<1>2. PICK r \in tx[t].own :
         \/ past[r] = {} /\ Become(t, [tx[t] EXCEPT !.at = "admit", !.new = {r}, !.rows = @ \cup {r}])
         \/ live[r] # {} /\ Become(t, [tx[t] EXCEPT !.at = "admit"])
         \/ /\ live[r] \cup lease[r] # {}
            /\ Become(t, [tx[t] EXCEPT !.at = "commit", !.lost = {r} \X (live[r] \cup lease[r])])
         \/ past[r] # {} /\ live[r] = {} /\ End(t)
  BY Zenon DEF Settle
<1>3. tx[t].at = "settle" /\ tx[t].ask = {} /\ tx[t].new = {} /\ tx[t].won = {}
      /\ tx[t].lost = {} /\ tx[t].kind = "acquire" /\ Ready(t, tx[t].at)
  BY <1>1 DEF TxInv, StageInv, KindInv, Ready
<1>4. CASE past[r] = {} /\ Become(t, [tx[t] EXCEPT !.at = "admit", !.new = {r}, !.rows = @ \cup {r}])
  BY Zenon, <1>1, <1>4, InsertStep
<1>5. CASE Become(t, [tx[t] EXCEPT !.at = "admit"])
  <2>1. [tx[t] EXCEPT !.at = "admit"] = [tx[t] EXCEPT !.at = "admit", !.ask = {}]
    BY Zenon, <1>1, <1>3 DEF TxState
  <2>2. Cross(t) \subseteq tx[t].rows
    BY <1>1, <1>3 DEF TxInv, CrossInv
  <2> QED
    BY Zenon, <2>1, <2>2, <1>3, <1>5, AskStep
<1>6. CASE /\ live[r] \cup lease[r] # {}
           /\ Become(t, [tx[t] EXCEPT !.at = "commit", !.lost = {r} \X (live[r] \cup lease[r])])
  <2> DEFINE gone == live[r] \cup lease[r]
  <2>1. [tx[t] EXCEPT !.at = "commit", !.lost = {r} \X gone]
          = [tx[t] EXCEPT !.at = "commit", !.ask = {}, !.lost = {r} \X gone]
    BY Zenon, <1>1, <1>3 DEF TxState
  <2>2. r \in Requests /\ past[r] # {}
    BY <1>1, <1>6 DEF TxState, LocksInv, TablesInv
  <2>3. gone \subseteq tx[t].caps
    BY <2>2, <1>1, <1>3 DEF TxInv, OwnInv
  <2>4. Become(t, [tx[t] EXCEPT !.at = "commit", !.ask = {}, !.lost = {r} \X gone])
    BY <2>1, <1>6
  <2> HIDE DEF gone
  <2> QED
    BY Zenon, <2>3, <2>4, <1>3, LoseStep
<1>7. CASE End(t)
  BY <1>7, EndStep
<1> QED
  BY <1>2, <1>4, <1>5, <1>6, <1>7

LEMMA RowsOfTerminalizeStep ==
    ASSUME LocksInv, NEW t \in Txs, RowsOfTerminalize(t)
    PROVE  LocksInv'
<1>1. tx[t] \in TxState /\ TxInv(t) /\ Ready(t, "rows") /\ tx[t].kind = "terminalize"
  BY DEF LocksInv, LocksTypeOK, RowsOfTerminalize
<1>2. PICK r \in tx[t].own :
         \/ End(t)
         \/ /\ live[r] # {}
            /\ Become(t, [tx[t] EXCEPT !.at = "commit", !.ask = {r}, !.lost = {r} \X live[r]])
  BY Zenon DEF RowsOfTerminalize
<1>3. CASE End(t)
  BY <1>3, EndStep
<1>4. CASE Become(t, [tx[t] EXCEPT !.at = "commit", !.ask = {r}, !.lost = {r} \X live[r]])
  <2>1. tx[t].at = "rows" /\ tx[t].rows = {} /\ Ready(t, tx[t].at) /\ r \in Requests
    BY <1>1 DEF TxInv, StageInv, Ready, TxState
  <2>2. past[r] # {} /\ past[r] \subseteq tx[t].caps
    BY <1>1 DEF TxInv, OwnInv
  <2>3. live[r] \subseteq tx[t].caps
    BY <2>1, <2>2 DEF LocksInv, TablesInv
  <2> QED
    BY Zenon, <2>1, <2>2, <2>3, <1>4, LoseStep
<1> QED
  BY <1>2, <1>3, <1>4

LEMMA OwnOfReleaseStep ==
    ASSUME LocksInv, NEW t \in Txs, OwnOfRelease(t)
    PROVE  LocksInv'
<1>1. tx[t] \in TxState /\ TxInv(t) /\ Ready(t, "own")
  BY DEF LocksInv, LocksTypeOK, OwnOfRelease
<1>2. PICK r \in tx[t].own :
         \/ lease[r] = {} /\ End(t)
         \/ /\ lease[r] # {}
            /\ Become(t, [tx[t] EXCEPT !.at = "admit", !.ask = {r}, !.lost = {r} \X lease[r]])
  BY Zenon DEF OwnOfRelease
<1>3. CASE End(t)
  BY <1>3, EndStep
<1>4. CASE Become(t, [tx[t] EXCEPT !.at = "admit", !.ask = {r}, !.lost = {r} \X lease[r]])
  <2> DEFINE x == [tx[t] EXCEPT !.at = "admit", !.ask = {r}, !.lost = {r} \X lease[r]]
  <2>1. tx[t].at = "own" /\ tx[t].want = {} /\ tx[t].ask = {} /\ tx[t].new = {} /\ tx[t].won = {}
        /\ tx[t].lost = {} /\ tx[t].kind = "release" /\ tx[t].caps \subseteq tx[t].fences
    BY <1>1 DEF TxInv, StageInv, KindInv, Ready
  <2>2. r \in Requests /\ past[r] # {} /\ live[r] = {} /\ lease[r] \subseteq tx[t].caps
    BY <1>1, <2>1 DEF TxInv, OwnInv, TxState
  <2>3. {r} \X lease[r] \subseteq Requests \X Capacities /\ {r} \subseteq Row
    BY <2>2, <1>1 DEF TxState, Row
  <2>4. x \in TxState /\ x.at = "admit" /\ x.want = tx[t].want /\ x.kind = tx[t].kind
        /\ x.own = tx[t].own /\ x.caps = tx[t].caps /\ x.fences = tx[t].fences
        /\ x.rows = tx[t].rows /\ x.ask = {r} /\ x.new = tx[t].new /\ x.won = tx[t].won
        /\ x.lost = {r} \X lease[r]
    BY Zenon, <1>1, <2>3 DEF TxState
  <2>5. Become(t, x)
    BY <1>4
  <2> HIDE DEF x
  <2>6. tx'[t] = x /\ live' = live /\ past' = past /\ lease' = lease
    BY <2>4, <2>5, BecomeFrame DEF LocksInv
  <2>7. StageInv(t)' /\ KindInv(t)' /\ FenceInv(t)'
    BY <1>1, <2>1, <2>4, <2>6 DEF TxInv, StageInv, KindInv, FenceInv
  <2>8. OwnInv(t)' /\ NewInv(t)' /\ WonInv(t)'
    BY Zenon, <1>1, <2>1, <2>4, <2>6 DEF TxInv, OwnInv, NewInv, WonInv
  <2>9. LostInv(t)'
    BY <2>2, <2>4, <2>6 DEF LostInv, Lost
  <2>10. RowInv(t)' /\ OrderInv(t)'
    BY <1>1, <2>1, <2>2, <2>4, <2>6 DEF TxInv, RowInv, OrderInv
  <2>11. CrossInv(t)'
    <3>1. \A q \in Requests : Sees(t, q)' = live[q] \ Lost(t, q)'
      BY <2>1, <2>4, <2>6 DEF Sees, Waiting
    <3>2. \A q \in Requests : Sees(t, q) = live[q]
      BY <2>1 DEF Sees, Waiting, Lost
    <3>3. Cross(t)' \subseteq Cross(t)
      BY <3>1, <3>2, <2>4, <2>6 DEF Cross
    <3> QED
      BY <3>3, <1>1, <2>1, <2>4, <2>6 DEF TxInv, CrossInv
  <2>12. TxInv(t)'
    BY <2>7, <2>8, <2>9, <2>10, <2>11 DEF TxInv
  <2> QED
    BY <2>4, <2>5, <2>12, BecomeSame
<1> QED
  BY <1>2, <1>3, <1>4

LEMMA RowsOfSweepStep ==
    ASSUME LocksInv, NEW t \in Txs, RowsOfSweep(t)
    PROVE  LocksInv'
<1>1. tx[t] \in TxState /\ TxInv(t) /\ Ready(t, "rows") /\ tx[t].kind = "sweep"
  BY Zenon DEF LocksInv, LocksTypeOK, RowsOfSweep
<1>2. PICK r \in tx[t].own :
         \/ End(t)
         \/ /\ r \notin HeldRows(t)
            /\ \E gone \in (SUBSET live[r]) \cup {lease[r]} :
                 /\ gone # {}
                 /\ Become(t, [tx[t] EXCEPT !.at = "cross", !.rows = {r}, !.lost = {r} \X gone])
  BY Zenon DEF RowsOfSweep
<1>3. CASE End(t)
  BY <1>3, EndStep
<1>4. CASE /\ r \notin HeldRows(t)
           /\ \E gone \in (SUBSET live[r]) \cup {lease[r]} :
                /\ gone # {}
                /\ Become(t, [tx[t] EXCEPT !.at = "cross", !.rows = {r}, !.lost = {r} \X gone])
  <2>1. PICK gone \in (SUBSET live[r]) \cup {lease[r]} :
          Become(t, [tx[t] EXCEPT !.at = "cross", !.rows = {r}, !.lost = {r} \X gone])
    BY Zenon, <1>4
  <2> DEFINE x == [tx[t] EXCEPT !.at = "cross", !.rows = {r}, !.lost = {r} \X gone]
  <2>2. tx[t].at = "rows" /\ tx[t].want = {} /\ tx[t].ask = {} /\ tx[t].rows = {}
        /\ tx[t].new = {} /\ tx[t].won = {} /\ tx[t].caps \subseteq tx[t].fences
    BY <1>1 DEF TxInv, StageInv, Ready
  <2>3. r \in Requests /\ past[r] # {} /\ past[r] \subseteq tx[t].caps /\ tx[t].caps \subseteq Capacities
    BY <1>1, <2>2 DEF TxInv, OwnInv, TxState
  <2>4. live[r] \subseteq tx[t].caps /\ gone \subseteq tx[t].caps
    BY <2>1, <2>3 DEF LocksInv, TablesInv
  <2>5. {r} \X gone \subseteq Requests \X Capacities /\ {r} \subseteq Row
    BY <2>3, <2>4 DEF Row
  <2>6. x \in TxState /\ x.at = "cross" /\ x.want = tx[t].want /\ x.kind = tx[t].kind
        /\ x.own = tx[t].own /\ x.caps = tx[t].caps /\ x.fences = tx[t].fences
        /\ x.rows = {r} /\ x.ask = tx[t].ask /\ x.new = tx[t].new /\ x.won = tx[t].won
        /\ x.lost = {r} \X gone
    BY Zenon, <1>1, <2>5 DEF TxState
  <2>7. Become(t, x)
    BY <2>1
  <2> HIDE DEF x
  <2>8. tx'[t] = x /\ live' = live /\ past' = past /\ lease' = lease
    BY <2>6, <2>7, BecomeFrame DEF LocksInv
  <2>9. StageInv(t)' /\ KindInv(t)' /\ FenceInv(t)'
    BY <1>1, <2>2, <2>6, <2>8 DEF TxInv, StageInv, KindInv, FenceInv
  <2>10. OwnInv(t)' /\ NewInv(t)' /\ WonInv(t)'
    BY Zenon, <1>1, <2>2, <2>6, <2>8 DEF TxInv, OwnInv, NewInv, WonInv
  <2>11. LostInv(t)'
    BY <2>4, <2>6, <2>8 DEF LostInv, Lost
  <2>12. RowInv(t)' /\ OrderInv(t)' /\ CrossInv(t)'
    BY <2>2, <2>3, <2>4, <2>6, <2>8 DEF RowInv, OrderInv, CrossInv
  <2>13. TxInv(t)'
    BY <2>9, <2>10, <2>11, <2>12 DEF TxInv
  <2>14. \A s \in Txs : s # t => x.fences \cap tx[s].fences = {} /\ x.rows \cap tx[s].rows = {}
    BY <1>4, <2>6 DEF LocksInv, Exclusion, HeldRows
  <2> QED
    BY <2>6, <2>7, <2>13, <2>14, BecomeStep
<1> QED
  BY Zenon, <1>2, <1>3, <1>4

\* A waiter expires on a held capacity.
LEMMA ExpireStep ==
    ASSUME LocksInv, NEW t \in Txs, Expire(t)
    PROVE  LocksInv'
<1>1. tx[t] \in TxState /\ TxInv(t) /\ Ready(t, "admit")
  BY DEF LocksInv, LocksTypeOK, Expire
<1>2. PICK r \in Reachable(t), c \in tx[t].caps :
        /\ c \in Sees(t, r)
        /\ Become(t, [tx[t] EXCEPT !.lost = @ \cup {<<r, c>>},
                                   !.ask = IF Sees(t, r) = {c} THEN {r} \ tx[t].rows ELSE {}])
  BY Zenon DEF Expire
<1> DEFINE ask == IF Sees(t, r) = {c} THEN {r} \ tx[t].rows ELSE {}
           x == [tx[t] EXCEPT !.lost = @ \cup {<<r, c>>}, !.ask = ask]
<1>3. r \in Requests /\ c \in Capacities /\ c \in Waiting(t, r) /\ r \notin tx[t].won
  BY <1>1, <1>2, SeesFacts DEF Reachable, TxState
<1>4. tx[t].at = "admit" /\ tx[t].want = {} /\ tx[t].ask = {}
  BY <1>1 DEF Ready
<1>5. ask \subseteq {r} \ tx[t].rows /\ (ask # {} => Waiting(t, r) = {c})
  BY <1>2, SeesFacts, <1>3
<1>6. Become(t, x)
  BY <1>2
<1> HIDE DEF ask
<1>7. x \in TxState /\ x.at = "admit" /\ x.want = tx[t].want /\ x.kind = tx[t].kind
      /\ x.own = tx[t].own /\ x.caps = tx[t].caps /\ x.fences = tx[t].fences
      /\ x.rows = tx[t].rows /\ x.ask = ask /\ x.new = tx[t].new /\ x.won = tx[t].won
      /\ x.lost = tx[t].lost \cup {<<r, c>>}
  <2>1. ask \in SUBSET Row
    BY <1>3, <1>5 DEF Row
  <2>2. tx[t].lost \cup {<<r, c>>} \in SUBSET (Requests \X Capacities)
    BY <1>1, <1>3 DEF TxState
  <2> QED
    BY Zenon, <1>1, <1>4, <2>1, <2>2 DEF TxState
<1> HIDE DEF x
<1>8. tx'[t] = x /\ live' = live /\ past' = past /\ lease' = lease
  BY <1>6, <1>7, BecomeFrame DEF LocksInv
<1>9. /\ \A q : q # r => Lost(t, q)' = Lost(t, q)
      /\ Lost(t, r)' = Lost(t, r) \cup {c}
  BY <1>3, <1>7, <1>8 DEF Lost
<1>10. /\ \A q \in Requests : q # r => Waiting(t, q)' = Waiting(t, q) /\ Sees(t, q)' = Sees(t, q)
       /\ Waiting(t, r)' \subseteq Waiting(t, r) /\ Sees(t, r)' \subseteq Sees(t, r)
  BY Zenon, <1>7, <1>8, <1>9 DEF Waiting, Sees
<1>11. ask # {} => r \notin tx[t].new /\ live[r] \subseteq tx[t].caps /\ c \in live[r] /\ past[r] # {}
  <2>1. SUFFICES ASSUME ask # {} PROVE r \notin tx[t].new /\ live[r] \subseteq tx[t].caps
                                      /\ c \in live[r] /\ past[r] # {}
    OBVIOUS
  <2>2. r \notin tx[t].new
    BY <2>1, <1>1, <1>5 DEF TxInv, NewInv
  <2>3. live[r] \subseteq tx[t].caps /\ c \in live[r]
    BY <2>1, <2>2, <1>2, <1>3, <1>5, SeesFacts
  <2> QED
    BY <2>2, <2>3, <1>3 DEF LocksInv, TablesInv
<1>12. TxInv(t)'
  <2>1. StageInv(t)' /\ KindInv(t)' /\ FenceInv(t)'
    BY Zenon, <1>1, <1>4, <1>7, <1>8 DEF TxInv, StageInv, KindInv, FenceInv
  <2>2. OwnInv(t)' /\ NewInv(t)'
    BY Zenon, <1>1, <1>4, <1>7, <1>8 DEF TxInv, OwnInv, NewInv
  <2>3. LostInv(t)'
    BY <1>1, <1>2, <1>7, <1>8, <1>9 DEF TxInv, LostInv
  <2>4. RowInv(t)' /\ OrderInv(t)'
    BY <1>1, <1>2, <1>3, <1>4, <1>5, <1>7, <1>8, <1>11 DEF TxInv, RowInv, OrderInv
  <2>5. CrossInv(t)'
    <3>1. Cross(t)' \subseteq Cross(t)
      BY Zenon, <1>7, <1>8, <1>10 DEF Cross
    <3> QED
      BY Zenon, <3>1, <1>1, <1>4, <1>7, <1>8 DEF TxInv, CrossInv
  <2>6. WonInv(t)'
    <3>1. tx[t].won \subseteq Requests
      BY <1>1 DEF TxState
    <3> QED
      BY Zenon, <3>1, <1>1, <1>3, <1>4, <1>7, <1>8, <1>10 DEF TxInv, WonInv
  <2> QED
    BY <2>1, <2>2, <2>3, <2>4, <2>5, <2>6 DEF TxInv
<1> QED
  BY <1>6, <1>7, <1>12, BecomeSame

\* A pass picks winners: those whose row is not yet held wait on held capacities
\* only.
LEMMA WinnersStep ==
    ASSUME LocksInv, NEW t \in Txs, Winners(t)
    PROVE  LocksInv'
<1>1. tx[t] \in TxState /\ TxInv(t) /\ Ready(t, "admit")
  BY DEF LocksInv, LocksTypeOK, Winners
<1>2. PICK W \in SUBSET Reachable(t) :
        Become(t, [tx[t] EXCEPT !.won = @ \cup W, !.ask = W \ tx[t].rows])
  BY Zenon DEF Winners
<1> DEFINE x == [tx[t] EXCEPT !.won = @ \cup W, !.ask = W \ tx[t].rows]
<1>3. tx[t].at = "admit" /\ tx[t].want = {} /\ tx[t].ask = {}
  BY <1>1 DEF Ready
<1>4. ASSUME NEW r \in W
      PROVE  /\ r \in Requests /\ r \notin tx[t].won /\ Sees(t, r) = Waiting(t, r)
             /\ Waiting(t, r) \cap tx[t].caps # {}
  BY <1>2, <1>4, SeesFacts DEF Reachable
<1>5. ASSUME NEW r \in W \ tx[t].rows
      PROVE  /\ past[r] # {} /\ live[r] \subseteq tx[t].caps /\ live[r] \cap tx[t].caps # {}
             /\ Waiting(t, r) \subseteq tx[t].caps
  <2>1. r \notin tx[t].new
    BY <1>1, <1>5 DEF TxInv, NewInv
  <2>2. r \notin Cross(t)
    BY <1>1, <1>3, <1>5 DEF TxInv, CrossInv
  <2>3. Waiting(t, r) \subseteq tx[t].caps
    BY <2>2, <1>4, <1>5 DEF Cross
  <2>4. live[r] \subseteq tx[t].caps /\ live[r] \cap tx[t].caps # {}
    BY <2>1, <2>3, <1>4, <1>5, SeesFacts
  <2> QED
    BY <2>3, <2>4, <1>4, <1>5 DEF LocksInv, TablesInv
<1>6. Become(t, x)
  BY <1>2
<1>7. x \in TxState /\ x.at = "admit" /\ x.want = tx[t].want /\ x.kind = tx[t].kind
      /\ x.own = tx[t].own /\ x.caps = tx[t].caps /\ x.fences = tx[t].fences
      /\ x.rows = tx[t].rows /\ x.ask = W \ tx[t].rows /\ x.new = tx[t].new
      /\ x.won = tx[t].won \cup W /\ x.lost = tx[t].lost
  BY Zenon, <1>1, <1>3, <1>4 DEF TxState, Row
<1> HIDE DEF x
<1>8. tx'[t] = x /\ live' = live /\ past' = past /\ lease' = lease
  BY <1>6, <1>7, BecomeFrame DEF LocksInv
<1>9. \A q : Waiting(t, q)' = Waiting(t, q)
  BY <1>7, <1>8 DEF Waiting, Lost
<1>10. TxInv(t)'
  <2>1. StageInv(t)' /\ KindInv(t)' /\ FenceInv(t)'
    BY Zenon, <1>1, <1>3, <1>7, <1>8 DEF TxInv, StageInv, KindInv, FenceInv
  <2>2. OwnInv(t)' /\ NewInv(t)' /\ LostInv(t)'
    BY Zenon, <1>1, <1>3, <1>7, <1>8 DEF TxInv, OwnInv, NewInv, LostInv, Lost
  <2>3. RowInv(t)' /\ OrderInv(t)'
    BY Zenon, <1>1, <1>3, <1>4, <1>5, <1>7, <1>8 DEF TxInv, RowInv, OrderInv
  <2>4. CrossInv(t)'
    <3>1. \A q \in Requests : Sees(t, q)' \subseteq Sees(t, q)
      BY <1>7, <1>8, <1>9 DEF Sees
    <3>2. Cross(t)' \subseteq Cross(t)
      BY <3>1, <1>7, <1>8 DEF Cross
    <3> QED
      BY <3>2, <1>1, <1>3, <1>7, <1>8 DEF TxInv, CrossInv
  <2>5. WonInv(t)'
    BY <1>1, <1>3, <1>4, <1>5, <1>7, <1>8, <1>9 DEF TxInv, WonInv
  <2> QED
    BY <2>1, <2>2, <2>3, <2>4, <2>5 DEF TxInv
<1> QED
  BY <1>6, <1>7, <1>10, BecomeSame

LEMMA PassedStep ==
    ASSUME LocksInv, NEW t \in Txs, Passed(t)
    PROVE  LocksInv'
<1> DEFINE x == [tx[t] EXCEPT !.at = "commit"]
<1>1. tx[t] \in TxState /\ TxInv(t) /\ Ready(t, "admit") /\ Become(t, x)
  BY DEF LocksInv, LocksTypeOK, Passed
<1>2. x \in TxState /\ x.at = "commit" /\ x.want = tx[t].want /\ x.kind = tx[t].kind
      /\ x.own = tx[t].own /\ x.caps = tx[t].caps /\ x.fences = tx[t].fences
      /\ x.rows = tx[t].rows /\ x.ask = tx[t].ask /\ x.new = tx[t].new
      /\ x.won = tx[t].won /\ x.lost = tx[t].lost
  BY <1>1 DEF TxState
<1> HIDE DEF x
<1>3. tx'[t] = x /\ live' = live /\ past' = past /\ lease' = lease
  BY <1>1, <1>2, BecomeFrame DEF LocksInv
<1>4. \A q : Waiting(t, q)' = Waiting(t, q)
  BY <1>2, <1>3 DEF Waiting, Lost
<1>5. StageInv(t)' /\ KindInv(t)' /\ FenceInv(t)'
  BY Zenon, <1>1, <1>2, <1>3 DEF TxInv, StageInv, KindInv, FenceInv, Ready
<1>6. OwnInv(t)' /\ NewInv(t)' /\ LostInv(t)'
  BY Zenon, <1>1, <1>2, <1>3 DEF TxInv, OwnInv, NewInv, LostInv, Lost, Ready
<1>7. RowInv(t)' /\ OrderInv(t)'
  BY Zenon, <1>1, <1>2, <1>3 DEF TxInv, RowInv, OrderInv
<1>8. CrossInv(t)' /\ WonInv(t)'
  BY Zenon, <1>1, <1>2, <1>3, <1>4 DEF TxInv, CrossInv, WonInv
<1>9. TxInv(t)'
  BY <1>5, <1>6, <1>7, <1>8 DEF TxInv
<1> QED
  BY <1>1, <1>2, <1>9, BecomeSame
=============================================================================
