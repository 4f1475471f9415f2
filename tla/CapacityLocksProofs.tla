------------------------- MODULE CapacityLocksProofs -------------------------
(***************************************************************************)
(* Proofs about CapacityLocks, for any number of transactions, requests,   *)
(* capacities and users: a winner an admission pass picked is still        *)
(* waiting when its transaction commits, and no set of transactions wait   *)
(* for one another over fences, graph rows and the rows of queued          *)
(* requests.                                                               *)
(***************************************************************************)
EXTENDS CapacityLocksInvariant, Sequences, WellFoundedInduction

(***************************************************************************)
(* Numbers.                                                                *)
(***************************************************************************)
\* A set of natural numbers has a least element.
LEMMA LeastExists ==
    ASSUME NEW T, T \subseteq Nat, T # {}
    PROVE  \E x \in T : \A y \in T : x <= y
<1> DEFINE R == {ss \in Nat \X Nat : ss[1] < ss[2]}
<1>1. IsWellFoundedOn(R, Nat)
  BY NatLessThanWellFounded DEF OpToRel
<1> HIDE DEF R
<1>2. PICK x \in T : \A y \in T : ~(<<y, x>> \in R)
  BY Zenon, <1>1, WFMin
<1>3. \A y \in T : ~(y < x)
  BY Zenon, <1>2 DEF R
<1> QED
  BY <1>3

\* Least is what its name says: the fence or row a transaction takes next.
LEMMA LeastIsLeast ==
    ASSUME NEW T, T \subseteq Nat, T # {}
    PROVE  Least(T) \in T /\ \A y \in T : Least(T) <= y
BY Zenon, LeastExists DEF Least

\* Finitely many natural numbers have an upper bound.
LEMMA PrefixBound ==
    ASSUME NEW N \in Nat, NEW g \in [1..N -> Nat]
    PROVE  \E b \in Nat : \A i \in 1..N : g[i] <= b
<1> DEFINE Bounded(n) == \E b \in Nat : \A i \in 1..n : g[i] <= b
           Bad == {n \in 0..N : ~Bounded(n)}
<1>1. Bounded(0)
  BY 0 \in Nat
<1>2. ASSUME NEW n \in 1..N, Bounded(n - 1) PROVE Bounded(n)
  <2>1. PICK b \in Nat : \A i \in 1..(n - 1) : g[i] <= b
    BY Zenon, <1>2
  <2>2. g[n] \in Nat
    OBVIOUS
  <2>3. PICK c \in Nat : b <= c /\ g[n] <= c
    BY <2>2, b + g[n] \in Nat, b <= b + g[n], g[n] <= b + g[n]
  <2>4. ASSUME NEW i \in 1..n PROVE g[i] <= c
    <3>1. i = n \/ i \in 1..(n - 1)
      OBVIOUS
    <3>2. g[i] \in Nat
      OBVIOUS
    <3> QED
      BY <3>1, <3>2, <2>1, <2>3
  <2> QED
    BY Zenon, <2>4
<1> HIDE DEF Bounded
<1>3. Bad = {}
  <2> SUFFICES ASSUME Bad # {} PROVE FALSE
    OBVIOUS
  <2>1. Bad \subseteq Nat
    OBVIOUS
  <2>2. PICK n \in Bad : \A m \in Bad : n <= m
    <3> HIDE DEF Bad
    <3> QED
      BY Zenon, <2>1, LeastExists
  <2>3. n \in 1..N
    BY <1>1
  <2>4. Bounded(n - 1)
    BY <2>2, <2>3
  <2> QED
    BY <1>2, <2>3, <2>4
<1>4. Bounded(N)
  BY <1>3, N \in 0..N
<1> QED
  BY <1>4 DEF Bounded

\* The same of numbers given to the members of a finite set.
LEMMA FiniteBound ==
    ASSUME NEW T, IsFiniteSet(T), NEW f \in [T -> Nat]
    PROVE  \E b \in Nat : \A x \in T : f[x] <= b
<1>1. PICK seq \in Seq(T) : \A x \in T : \E n \in 1..Len(seq) : seq[n] = x
  BY DEF IsFiniteSet
<1>2. Len(seq) \in Nat /\ \A i \in 1..Len(seq) : seq[i] \in T
  OBVIOUS
<1> DEFINE N == Len(seq)
           g == [i \in 1..N |-> f[seq[i]]]
<1>3. N \in Nat /\ g \in [1..N -> Nat]
  BY <1>2
<1>4. PICK b \in Nat : \A i \in 1..N : g[i] <= b
  <2> HIDE DEF N, g
  <2> QED
    BY Zenon, <1>3, PrefixBound
<1>5. ASSUME NEW x \in T PROVE f[x] <= b
  <2>1. PICK n \in 1..N : seq[n] = x
    BY <1>1
  <2>2. g[n] = f[x]
    BY <2>1
  <2> QED
    BY <1>4, <2>2
<1> QED
  BY <1>5

(***************************************************************************)
(* Taking locks.                                                           *)
(***************************************************************************)
LEMMA TakeFenceStep ==
    ASSUME LocksInv, NEW t \in Txs, TakeFence(t)
    PROVE  LocksInv'
<1> DEFINE f == Least(tx[t].want)
           x == [tx[t] EXCEPT !.want = @ \ {f}, !.fences = @ \cup {f}]
<1>1. tx[t] \in TxState /\ TxInv(t)
  BY DEF LocksInv, LocksTypeOK
<1>2. f \in tx[t].want /\ f \in Fence /\ \A w \in tx[t].want : f <= w
  <2>1. tx[t].want \subseteq Fence /\ tx[t].want \subseteq Nat /\ tx[t].want # {}
    BY <1>1, LevelOrder DEF TxState, TakeFence
  <2> QED
    BY <2>1, LeastIsLeast
<1> HIDE DEF f
<1>3. Become(t, x) /\ f \notin HeldFences(t)
  BY DEF TakeFence, f
<1>4. /\ x \in TxState /\ x.want = tx[t].want \ {f} /\ x.fences = tx[t].fences \cup {f}
      /\ x.at = tx[t].at /\ x.kind = tx[t].kind /\ x.own = tx[t].own /\ x.caps = tx[t].caps
      /\ x.ask = tx[t].ask /\ x.rows = tx[t].rows /\ x.new = tx[t].new /\ x.won = tx[t].won
      /\ x.lost = tx[t].lost
  BY Zenon, <1>1, <1>2 DEF TxState
<1>5. tx'[t] = x /\ live' = live /\ past' = past /\ lease' = lease
  BY <1>3, <1>4, BecomeFrame DEF LocksInv
<1> HIDE DEF x
<1>6. TxInv(t)'
  <2>1. StageInv(t)' /\ KindInv(t)'
    BY <1>1, <1>2, <1>4, <1>5 DEF TxInv, StageInv, KindInv
  <2>2. FenceInv(t)'
    <3>1. tx[t].fences \subseteq Nat /\ tx[t].want \subseteq Nat
      BY Zenon, <1>1, LevelOrder DEF TxState
    <3>2. \A g \in tx'[t].fences, w \in tx'[t].want : g < w
      BY <3>1, <1>1, <1>2, <1>4, <1>5 DEF TxInv, FenceInv
    <3> QED
      BY <3>2, <1>1, <1>2, <1>4, <1>5 DEF TxInv, FenceInv
  <2>3. OwnInv(t)' /\ NewInv(t)' /\ LostInv(t)'
    BY <1>1, <1>2, <1>4, <1>5 DEF TxInv, OwnInv, NewInv, LostInv, Lost
  <2>4. RowInv(t)' /\ OrderInv(t)'
    BY <1>1, <1>4, <1>5 DEF TxInv, RowInv, OrderInv
  <2>5. CrossInv(t)' /\ WonInv(t)'
    <3>1. tx[t].won \subseteq Requests
      BY <1>1 DEF TxState
    <3>2. /\ \A q \in Requests : Waiting(t, q)' = Waiting(t, q)
          /\ Cross(t)' = Cross(t)
      BY <1>4, <1>5, SeesStay
    <3> QED
      BY <3>1, <3>2, <1>1, <1>4, <1>5 DEF TxInv, CrossInv, WonInv
  <2> QED
    BY <2>1, <2>2, <2>3, <2>4, <2>5 DEF TxInv
<1>7. \A s \in Txs : s # t => x.fences \cap tx[s].fences = {} /\ x.rows \cap tx[s].rows = {}
  BY <1>3, <1>4 DEF LocksInv, Exclusion, HeldFences
<1> QED
  BY <1>3, <1>4, <1>6, <1>7, BecomeStep

LEMMA LockRowStep ==
    ASSUME LocksInv, NEW t \in Txs, LockRow(t)
    PROVE  LocksInv'
<1> DEFINE r == Least(tx[t].ask)
           x == [tx[t] EXCEPT !.ask = @ \ {r}, !.rows = @ \cup {r}]
<1>1. tx[t] \in TxState /\ TxInv(t)
  BY DEF LocksInv, LocksTypeOK
<1>2. r \in tx[t].ask /\ r \in Row /\ \A q \in tx[t].ask : r <= q
  <2>1. tx[t].ask \subseteq Row /\ tx[t].ask \subseteq Nat /\ tx[t].ask # {}
    BY <1>1, LevelOrder DEF TxState, LockRow
  <2> QED
    BY <2>1, LeastIsLeast
<1> HIDE DEF r
<1>3. Become(t, x) /\ r \notin HeldRows(t)
  BY DEF LockRow, r
<1>4. /\ x \in TxState /\ x.ask = tx[t].ask \ {r} /\ x.rows = tx[t].rows \cup {r}
      /\ x.at = tx[t].at /\ x.kind = tx[t].kind /\ x.own = tx[t].own /\ x.caps = tx[t].caps
      /\ x.want = tx[t].want /\ x.fences = tx[t].fences /\ x.new = tx[t].new
      /\ x.won = tx[t].won /\ x.lost = tx[t].lost
  BY Zenon, <1>1, <1>2 DEF TxState
<1>5. tx'[t] = x /\ live' = live /\ past' = past /\ lease' = lease
  BY <1>3, <1>4, BecomeFrame DEF LocksInv
<1> HIDE DEF x
<1>6. TxInv(t)'
  <2>1. StageInv(t)' /\ KindInv(t)' /\ FenceInv(t)'
    BY <1>1, <1>2, <1>4, <1>5 DEF TxInv, StageInv, KindInv, FenceInv
  <2>2. OwnInv(t)' /\ NewInv(t)' /\ LostInv(t)'
    BY <1>1, <1>2, <1>4, <1>5 DEF TxInv, OwnInv, NewInv, LostInv, Lost
  <2>3. RowInv(t)'
    BY <1>1, <1>2, <1>4, <1>5 DEF TxInv, RowInv
  <2>4. OrderInv(t)'
    <3>1. tx[t].ask \subseteq Nat
      BY Zenon, <1>1, LevelOrder DEF TxState
    <3> QED
      BY <3>1, <1>1, <1>2, <1>4, <1>5 DEF TxInv, OrderInv
  <2>5. CrossInv(t)' /\ WonInv(t)'
    <3>1. tx[t].won \subseteq Requests
      BY <1>1 DEF TxState
    <3>2. /\ \A q \in Requests : Waiting(t, q)' = Waiting(t, q)
          /\ Cross(t)' = Cross(t)
      BY <1>4, <1>5, SeesStay
    <3> QED
      BY <3>1, <3>2, <1>1, <1>2, <1>4, <1>5 DEF TxInv, CrossInv, WonInv
  <2> QED
    BY <2>1, <2>2, <2>3, <2>4, <2>5 DEF TxInv
<1>7. \A s \in Txs : s # t => x.fences \cap tx[s].fences = {} /\ x.rows \cap tx[s].rows = {}
  BY <1>3, <1>4 DEF LocksInv, Exclusion, HeldRows
<1> QED
  BY <1>3, <1>4, <1>6, <1>7, BecomeStep

(***************************************************************************)
(* The commit, and the others it may disturb.                              *)
(***************************************************************************)
\* What a commit changes of the tables.
LEMMA CommitTables ==
    ASSUME LocksInv, NEW t \in Txs, Commit(t)
    PROVE  /\ LocksTypeOK'
           /\ tx'[t] = Idle /\ \A s \in Txs : s # t => tx'[s] = tx[s]
           /\ \A r \in Requests :
                /\ live'[r] = Sees(t, r)
                /\ r \notin tx[t].new =>
                     /\ past'[r] = past[r] /\ live'[r] \subseteq live[r]
                     /\ lease'[r] \subseteq lease[r] \cup live[r]
                /\ r \in tx[t].new => past[r] = {} /\ live'[r] \subseteq tx[t].caps
                /\ live'[r] \cup lease'[r] \subseteq past'[r]
                /\ lease'[r] # {} => live'[r] = {}
<1>1. tx[t] \in TxState /\ TxInv(t) /\ LocksTypeOK
  BY DEF LocksInv, LocksTypeOK
<1>2. /\ live' = [r \in Requests |-> Sees(t, r)]
      /\ past' = [r \in Requests |-> past[r] \cup (IF r \in tx[t].new THEN tx[t].caps ELSE {})]
      /\ tx' = [tx EXCEPT ![t] = Idle]
  BY DEF Commit
<1>3. PICK slot \in [tx[t].won -> tx[t].caps] :
        /\ \A r \in tx[t].won : slot[r] \in Waiting(t, r)
        /\ lease' = [r \in Requests |-> IF r \in tx[t].won THEN {slot[r]} ELSE lease[r] \ Lost(t, r)]
  BY Zenon DEF Commit
<1>4. ASSUME NEW r \in Requests
      PROVE  /\ live[r] \subseteq Capacities /\ past[r] \subseteq Capacities
             /\ lease[r] \subseteq Capacities /\ tx[t].caps \subseteq Capacities
             /\ live[r] \cup lease[r] \subseteq past[r] /\ (lease[r] # {} => live[r] = {})
             /\ r \in tx[t].new => past[r] = {}
             /\ Sees(t, r) \subseteq Waiting(t, r)
             /\ r \in tx[t].won => Sees(t, r) = {}
             /\ r \notin tx[t].new => Waiting(t, r) \subseteq live[r]
             /\ r \in tx[t].new => Waiting(t, r) \subseteq tx[t].caps
  <2>1. /\ live[r] \subseteq Capacities /\ past[r] \subseteq Capacities
        /\ lease[r] \subseteq Capacities /\ tx[t].caps \subseteq Capacities
    BY <1>1 DEF LocksTypeOK, TxState
  <2>2. /\ live[r] \cup lease[r] \subseteq past[r] /\ (lease[r] # {} => live[r] = {})
        /\ r \in tx[t].new => past[r] = {}
    BY <1>1 DEF LocksInv, TablesInv, TxInv, NewInv
  <2>3. Sees(t, r) \subseteq Waiting(t, r) /\ (r \in tx[t].won => Sees(t, r) = {})
    BY DEF Sees
  <2> QED
    BY <2>1, <2>2, <2>3, SeesFacts
<1>5. ASSUME NEW r \in Requests
      PROVE  /\ live'[r] = Sees(t, r)
             /\ past'[r] = IF r \in tx[t].new THEN past[r] \cup tx[t].caps ELSE past[r]
             /\ r \in tx[t].won => \E c \in Waiting(t, r) : lease'[r] = {c}
             /\ r \notin tx[t].won => lease'[r] \subseteq lease[r]
  BY <1>2, <1>3
<1>6. ASSUME NEW r \in Requests
      PROVE  /\ r \notin tx[t].new =>
                  /\ past'[r] = past[r] /\ live'[r] \subseteq live[r]
                  /\ lease'[r] \subseteq lease[r] \cup live[r]
             /\ r \in tx[t].new => past[r] = {} /\ live'[r] \subseteq tx[t].caps
             /\ live'[r] \cup lease'[r] \subseteq past'[r]
             /\ lease'[r] # {} => live'[r] = {}
             /\ live'[r] \in SUBSET Capacities /\ past'[r] \in SUBSET Capacities
             /\ lease'[r] \in SUBSET Capacities
  <2>1. /\ live'[r] = Sees(t, r) /\ Sees(t, r) \subseteq Waiting(t, r)
        /\ past'[r] = IF r \in tx[t].new THEN past[r] \cup tx[t].caps ELSE past[r]
    BY Zenon, <1>4, <1>5
  <2>2. lease'[r] \subseteq lease[r] \cup Waiting(t, r) /\ (lease'[r] # {} => live'[r] = {})
    <3>1. CASE r \in tx[t].won
      <4>1. PICK c \in Waiting(t, r) : lease'[r] = {c}
        BY Zenon, <3>1, <1>5
      <4>2. live'[r] = {}
        BY <3>1, <2>1, <1>4
      <4> QED
        BY <4>1, <4>2
    <3>2. CASE r \notin tx[t].won
      <4>1. lease'[r] \subseteq lease[r]
        BY Zenon, <3>2, <1>5
      <4>2. lease[r] # {} => live[r] = {} /\ r \notin tx[t].new
        BY <1>4
      <4>3. lease[r] # {} => Waiting(t, r) = {}
        BY <4>2, <1>4
      <4> QED
        BY <4>1, <4>3, <2>1
    <3> QED
      BY <3>1, <3>2
  <2>3. CASE r \in tx[t].new
    <3>1. past[r] = {} /\ live[r] = {} /\ lease[r] = {} /\ Waiting(t, r) \subseteq tx[t].caps
          /\ tx[t].caps \subseteq Capacities
      BY <2>3, <1>4
    <3>2. past'[r] = tx[t].caps
      BY <2>1, <2>3, <3>1
    <3> QED
      BY <2>1, <2>2, <2>3, <3>1, <3>2
  <2>4. CASE r \notin tx[t].new
    <3>1. Waiting(t, r) \subseteq live[r] /\ live[r] \cup lease[r] \subseteq past[r]
          /\ past[r] \subseteq Capacities
      BY <2>4, <1>4
    <3>2. past'[r] = past[r]
      BY <2>1, <2>4
    <3> QED
      BY <2>1, <2>2, <2>4, <3>1, <3>2
  <2> QED
    BY <2>3, <2>4
<1>7. LocksTypeOK'
  <2>1. live' \in [Requests -> SUBSET Capacities] /\ past' \in [Requests -> SUBSET Capacities]
    BY <1>2, <1>6
  <2>2. lease' \in [Requests -> SUBSET Capacities]
    BY <1>3, <1>6
  <2>3. tx' \in [Txs -> TxState]
    BY <1>1, <1>2, IdleState DEF LocksTypeOK
  <2> QED
    BY <2>1, <2>2, <2>3 DEF LocksTypeOK
<1>8. tx'[t] = Idle /\ \A s \in Txs : s # t => tx'[s] = tx[s]
  BY <1>1, <1>2 DEF LocksTypeOK
<1> QED
  BY Zenon, <1>5, <1>6, <1>7, <1>8

\* Another transaction past its last fence shares no capacity with the one that
\* commits, nor is it after the request that one has inserted.
LEMMA Apart ==
    ASSUME LocksInv, NEW t \in Txs, NEW s \in Txs, s # t, tx[t].at = "commit"
    PROVE  /\ tx[s].at \notin {"policy", "plan", "recheck", "graph"} => tx[s].caps \cap tx[t].caps = {}
           /\ \A r \in tx[t].new :
                /\ r \notin tx[s].new
                /\ r \notin (tx[s].rows \cup tx[s].ask)
                /\ r \in tx[s].own =>
                     tx[s].at = "policy" \/ tx[s].kind \notin {"acquire", "release", "terminalize", "sweep"}
<1>1. TxInv(s) /\ TxInv(t) /\ tx[s] \in TxState /\ tx[t] \in TxState
      /\ tx[s].fences \cap tx[t].fences = {}
  BY DEF LocksInv, LocksTypeOK, Exclusion
<1>2. tx[s].at \notin {"policy", "plan", "recheck", "graph"} => tx[s].caps \cap tx[t].caps = {}
  <2>1. tx[t].caps \subseteq tx[t].fences
    BY <1>1 DEF TxInv, StageInv
  <2>2. tx[s].at \notin {"policy", "plan", "recheck", "graph"} => tx[s].caps \subseteq tx[s].fences
    BY <1>1 DEF TxInv, StageInv
  <2> QED
    BY <2>1, <2>2, <1>1
<1>3. ASSUME NEW r \in tx[t].new
      PROVE  past[r] = {} /\ r \in Requests /\ AttemptFence[r] \notin tx[s].fences
  <2>1. r \in tx[t].own /\ tx[t].kind = "acquire" /\ past[r] = {}
    BY <1>1, <1>3 DEF TxInv, NewInv
  <2>2. AttemptFence[r] \in tx[t].fences
    BY <2>1, <1>1 DEF TxInv, OwnInv
  <2> QED
    BY <2>1, <2>2, <1>1, <1>3 DEF TxState
<1>4. ASSUME NEW r \in tx[t].new, r \in tx[s].own
      PROVE  tx[s].at = "policy" \/ tx[s].kind \notin {"acquire", "release", "terminalize", "sweep"}
  <2>1. past[r] = {} /\ AttemptFence[r] \notin tx[s].fences
    BY <1>3, <1>4
  <2> QED
    BY <2>1, <1>1, <1>4 DEF TxInv, OwnInv
<1>5. ASSUME NEW r \in tx[t].new PROVE r \notin tx[s].new
  <2>1. SUFFICES ASSUME r \in tx[s].new PROVE FALSE
    OBVIOUS
  <2>2. r \in tx[s].own /\ tx[s].kind = "acquire" /\ tx[s].at # "policy"
    BY <2>1, <1>1 DEF TxInv, NewInv, StageInv
  <2> QED
    BY <2>2, <1>4, <1>5
<1>6. ASSUME NEW r \in tx[t].new PROVE r \notin (tx[s].rows \cup tx[s].ask)
  BY <1>1, <1>3, <1>5, <1>6 DEF TxInv, RowInv
<1> QED
  BY <1>2, <1>4, <1>5, <1>6

\* What the commit leaves another transaction: the waiters on its capacities,
\* except those of winners.
LEMMA CommitLeaves ==
    ASSUME LocksInv, NEW t \in Txs, NEW s \in Txs, s # t, Commit(t), NEW r \in Requests,
           tx[s].at \notin {"policy", "plan", "recheck", "graph"}, r \notin tx[t].won
    PROVE  live[r] \cap tx[s].caps \subseteq live'[r]
<1>1. TxInv(t) /\ tx[t].at = "commit" /\ live'[r] = Sees(t, r)
  BY CommitTables DEF LocksInv, Commit, Ready
<1>2. Lost(t, r) \subseteq tx[t].caps /\ tx[s].caps \cap tx[t].caps = {}
  BY <1>1, Apart DEF TxInv, LostInv
<1> QED
  BY <1>1, <1>2 DEF Sees, Waiting

\* Winners of one transaction are nobody else's.
LEMMA WinnersApart ==
    ASSUME LocksInv, NEW t \in Txs, NEW s \in Txs, s # t, Commit(t), NEW r \in tx[s].won
    PROVE  r \notin tx[t].won
<1>1. SUFFICES ASSUME r \in tx[t].won PROVE FALSE
  OBVIOUS
<1>2. TxInv(s) /\ TxInv(t) /\ tx[t].at = "commit" /\ tx[t].ask = {} /\ tx[s] \in TxState
      /\ tx[s].rows \cap tx[t].rows = {}
  BY DEF LocksInv, LocksTypeOK, Exclusion, Commit, Ready
<1>3. tx[s].at \in {"admit", "commit"} /\ r \in Requests
  BY <1>2 DEF TxInv, StageInv, TxState
<1>4. tx[s].caps \cap tx[t].caps = {}
  BY <1>2, <1>3, Apart
<1>5. r \in tx[t].rows /\ Waiting(t, r) \cap tx[t].caps # {}
  BY <1>1, <1>2 DEF TxInv, WonInv
<1>6. Waiting(s, r) \cap tx[s].caps # {} /\ Waiting(s, r) \subseteq tx[s].caps
  BY <1>2, <1>5 DEF TxInv, WonInv
<1>7. r \notin tx[s].new /\ r \notin tx[t].new
  <2>1. r \notin tx[t].new
    <3>1. SUFFICES ASSUME r \in tx[t].new PROVE FALSE
      OBVIOUS
    <3>2. r \notin tx[s].new /\ live[r] = {}
      BY <3>1, <1>2, <1>3, Apart, SeesFacts
    <3>3. Waiting(s, r) \subseteq live[r]
      BY <3>2, <1>3, SeesFacts
    <3> QED
      BY <3>2, <3>3, <1>6
  <2>2. live[r] # {}
    BY <2>1, <1>3, <1>5, SeesFacts
  <2> QED
    BY <2>1, <2>2, <1>3, SeesFacts
<1>8. live[r] \subseteq tx[s].caps
  BY <1>3, <1>6, SeesFacts
<1>9. live[r] \cap tx[t].caps # {}
  BY <1>3, <1>5, <1>7, SeesFacts
<1> QED
  BY <1>4, <1>8, <1>9

LEMMA CommitOthers ==
    ASSUME LocksInv, NEW t \in Txs, NEW s \in Txs, s # t, Commit(t)
    PROVE  TxInv(s)'
<1>1. TxInv(s) /\ TxInv(t) /\ tx[s] \in TxState /\ tx[t] \in TxState /\ tx[t].at = "commit"
      /\ tx'[s] = tx[s]
  BY CommitTables DEF LocksInv, LocksTypeOK, Commit, Ready
<1>2. \A r \in Requests : r \notin tx[t].new =>
        /\ past'[r] = past[r] /\ live'[r] \subseteq live[r]
        /\ lease'[r] \subseteq lease[r] \cup live[r]
  BY CommitTables
<1>3. StageInv(s)' /\ KindInv(s)' /\ FenceInv(s)' /\ LostInv(s)'
  BY <1>1 DEF TxInv, StageInv, KindInv, FenceInv, LostInv, Lost
<1>4. OwnInv(s)'
  <2>1. SUFFICES ASSUME NEW r \in tx[s].own
                 PROVE  /\ tx[s].own = {r}
                        /\ tx[s].kind = "acquire" =>
                             /\ AttemptFence[r] \in tx[s].fences
                                   \cup (IF tx[s].at = "policy" THEN tx[s].want ELSE {})
                             /\ tx[s].at \notin {"policy", "plan"} /\ past'[r] # {}
                                  => live'[r] \cup lease'[r] \subseteq tx[s].caps
                        /\ tx[s].kind = "release" =>
                             past'[r] # {} /\ live'[r] = {} /\ lease'[r] \subseteq tx[s].caps
                        /\ tx[s].kind \in {"terminalize", "sweep"} =>
                             past'[r] # {} /\ past'[r] \subseteq tx[s].caps
    BY <1>1 DEF OwnInv
  <2>2. r \in Requests
    BY <1>1 DEF TxState
  <2>3. CASE r \in tx[t].new
    <3>1. tx[s].at = "policy" \/ tx[s].kind \notin {"acquire", "release", "terminalize", "sweep"}
      BY <2>1, <2>3, <1>1, Apart
    <3>2. tx[s].at = "policy" => tx[s].kind = "acquire"
      BY <1>1 DEF TxInv, KindInv
    <3> QED
      BY <3>1, <3>2, <1>1 DEF TxInv, OwnInv
  <2>4. CASE r \notin tx[t].new
    <3>1. /\ past'[r] = past[r] /\ live'[r] \subseteq live[r]
          /\ lease'[r] \subseteq lease[r] \cup live[r]
      BY <2>2, <2>4, <1>2
    <3> QED
      BY <3>1, <1>1 DEF TxInv, OwnInv
  <2> QED
    BY <2>3, <2>4
<1>5. NewInv(s)'
  <2>1. tx[s].new \subseteq Requests /\ \A r \in tx[s].new : r \notin tx[t].new
    BY <1>1, Apart DEF TxState
  <2> QED
    BY <2>1, <1>1, <1>2 DEF TxInv, NewInv
<1>6. \A r \in tx[s].rows \cup tx[s].ask : r \notin tx[t].new
  BY <1>1, Apart
<1>7. RowInv(s)'
  <2>1. SUFFICES ASSUME NEW r \in (tx[s].rows \cup tx[s].ask) \cap Requests
                 PROVE  /\ past'[r] # {} \/ r \in tx[s].new
                        /\ live'[r] # {} => live'[r] \cap tx[s].caps # {}
    BY <1>1 DEF RowInv
  <2>2. past'[r] = past[r] /\ live'[r] \subseteq live[r]
    BY <2>1, <1>2, <1>6
  <2>3. /\ past[r] # {} \/ r \in tx[s].new
        /\ live[r] # {} => live[r] \cap tx[s].caps # {}
    BY <1>1 DEF TxInv, RowInv
  <2>4. ASSUME live'[r] # {} PROVE live'[r] \cap tx[s].caps # {}
    <3>1. r \notin tx[t].won
      BY <2>4, CommitTables DEF Sees
    <3>2. tx[s].at \notin {"policy", "plan", "recheck", "graph"}
      BY <1>1 DEF TxInv, StageInv
    <3>3. live[r] \cap tx[s].caps \subseteq live'[r]
      BY <3>1, <3>2, CommitLeaves
    <3> QED
      BY <3>3, <2>2, <2>3, <2>4
  <2> QED
    BY <2>2, <2>3, <2>4
<1>8. OrderInv(s)'
  <2>1. \A r \in (tx[s].rows \cup tx[s].ask) \cap Requests : live'[r] \subseteq live[r]
    BY <1>2, <1>6
  <2> QED
    BY <2>1, <1>1 DEF TxInv, OrderInv
<1>9. CrossInv(s)'
  <2>1. SUFFICES ASSUME tx[s].at \in {"settle", "own", "admit"}, NEW r \in Cross(s)'
                 PROVE  r \in tx[s].rows \cup tx[s].ask
    BY <1>1 DEF CrossInv
  <2>2. r \in Requests /\ Sees(s, r)' \cap tx[s].caps # {} /\ Sees(s, r)' \ tx[s].caps # {}
    BY <2>1, <1>1 DEF Cross
  <2>3. tx[s].caps \cap tx[t].caps = {}
    BY <2>1, <1>1, Apart
  <2>4. r \notin tx[t].new
    <3>1. SUFFICES ASSUME r \in tx[t].new PROVE FALSE
      OBVIOUS
    <3>2. r \notin tx[s].new
      BY <3>1, <1>1, Apart
    <3>3. live'[r] \subseteq tx[t].caps
      BY <3>1, <2>2, CommitTables
    <3>4. Sees(s, r)' \subseteq live'[r]
      BY <3>2, <1>1 DEF Sees, Waiting
    <3> QED
      BY <3>3, <3>4, <2>2, <2>3
  <2>5. live'[r] \subseteq live[r]
    BY <2>2, <2>4, <1>2
  <2>6. Sees(s, r)' \subseteq Sees(s, r)
    BY <2>5, <1>1 DEF Sees, Waiting, Lost
  <2>7. r \in Cross(s)
    BY <2>2, <2>6 DEF Cross
  <2> QED
    BY <2>1, <2>7, <1>1 DEF TxInv, CrossInv
<1>10. WonInv(s)'
  <2>1. SUFFICES ASSUME NEW r \in tx[s].won
                 PROVE  /\ Waiting(s, r)' \cap tx[s].caps # {}
                        /\ \/ r \in tx[s].rows
                           \/ r \in tx[s].ask /\ Waiting(s, r)' \subseteq tx[s].caps
    BY <1>1 DEF WonInv
  <2>2. r \in Requests /\ tx[s].at \in {"admit", "commit"}
    BY <1>1 DEF TxInv, StageInv, TxState
  <2>3. r \notin tx[t].won
    BY WinnersApart
  <2>4. r \in tx[s].rows \cup tx[s].ask
    BY <1>1 DEF TxInv, WonInv
  <2>5. live'[r] \subseteq live[r] /\ live[r] \cap tx[s].caps \subseteq live'[r]
    BY <2>2, <2>3, <2>4, <1>2, <1>6, CommitLeaves
  <2>6. Waiting(s, r)' \subseteq Waiting(s, r) /\ Waiting(s, r) \cap tx[s].caps \subseteq Waiting(s, r)'
    BY <2>5, <1>1 DEF Waiting, Lost
  <2> QED
    BY <2>6, <1>1 DEF TxInv, WonInv
<1> QED
  BY <1>3, <1>4, <1>5, <1>7, <1>8, <1>9, <1>10 DEF TxInv

LEMMA CommitStep ==
    ASSUME LocksInv, NEW t \in Txs, Commit(t)
    PROVE  LocksInv'
<1>1. LocksTypeOK' /\ tx'[t] = Idle /\ \A s \in Txs : s # t => tx'[s] = tx[s]
  BY CommitTables
<1>2. TablesInv'
  BY CommitTables DEF TablesInv
<1>3. Exclusion'
  BY <1>1 DEF LocksInv, Exclusion, Idle
<1>4. TxInv(t)'
  BY <1>1, EndedInv
<1>5. ASSUME NEW s \in Txs PROVE TxInv(s)'
  BY <1>4, CommitOthers
<1> QED
  BY <1>1, <1>2, <1>3, <1>5 DEF LocksInv

(***************************************************************************)
(* The theorems.                                                           *)
(***************************************************************************)
\* The inductive invariant holds throughout, for every table the transactions may
\* start from.
THEOREM LocksInvariant == LocksSpec => []LocksInv
<1>1. LocksInit => LocksInv
  <2> SUFFICES ASSUME LocksInit PROVE LocksInv
    OBVIOUS
  <2>1. PICK start \in Starts : live = start.live /\ lease = start.lease /\ past = start.past
    BY DEF LocksInit
  <2>2. \A t \in Txs : tx[t] = Idle
    BY DEF LocksInit
  <2>3. LocksTypeOK
    BY <2>1, StartAssumption, IdleState DEF LocksInit, LocksTypeOK
  <2>4. TablesInv
    BY <2>1, StartAssumption DEF TablesInv
  <2>5. Exclusion
    BY <2>2 DEF Exclusion, Idle
  <2> QED
    BY <2>2, <2>3, <2>4, <2>5, IdleInv DEF LocksInv
<1>2. LocksInv /\ [LocksNext]_lockVars => LocksInv'
  <2> SUFFICES ASSUME LocksInv, [LocksNext]_lockVars PROVE LocksInv'
    OBVIOUS
  <2>1. CASE UNCHANGED lockVars
    <3>1. live' = live /\ past' = past /\ lease' = lease /\ tx' = tx
      BY <2>1 DEF lockVars
    <3>2. \A t \in Txs : TxInv(t)'
      BY <3>1, OthersStay DEF LocksInv
    <3> QED
      BY <3>1, <3>2 DEF LocksInv, LocksTypeOK, TablesInv, Exclusion
  <2>2. CASE LocksNext
    <3>1. PICK t \in Txs : Begin(t) \/ Lock(t) \/ Advance(t)
      BY <2>2 DEF LocksNext
    <3>2. CASE Begin(t)
      BY <3>2, BeginAcquireStep, BeginReleaseStep, BeginEndStep, BeginManageStep, BeginDrainStep
         DEF Begin
    <3>3. CASE Lock(t)
      BY <3>3, TakeFenceStep, LockRowStep, EndStep DEF Lock, GiveUp
    <3>4. CASE Advance(t)
      BY <3>4, PoliciesStep, PlanStep, RecheckStep, RowsOfAcquireStep, SettleStep,
         RowsOfReleaseStep, OwnOfReleaseStep, RowsOfTerminalizeStep, RowsOfSweepStep,
         CrossOfSweepStep, ExpireStep, WinnersStep, PassedStep, CommitStep, GraphRowsStep,
         EndStep DEF Advance, Done
    <3> QED
      BY <3>1, <3>2, <3>3, <3>4
  <2> QED
    BY <2>1, <2>2
<1> QED
  BY <1>1, <1>2, PTL DEF LocksSpec

\* A winner a pass of #admitCapacity picked still waits on a capacity of that
\* transaction until it commits, whatever other transactions commit meanwhile: the
\* re-planned pass is unreachable under the held locks.
THEOREM WinnersStillWait == LocksSpec => []WinnersStayWaiting
<1>1. LocksInv => WinnersStayWaiting
  BY DEF LocksInv, TxInv, WonInv, WinnersStayWaiting
<1> QED
  BY <1>1, LocksInvariant, PTL

\* The lock a transaction that wants or asks for one takes next.
NextLock(t) == IF tx[t].want # {} THEN Least(tx[t].want) ELSE Least(tx[t].ask)

\* Along a chain of waits the next locks ascend: from fence to fence, from fence to
\* row, and from row to row, because a queued request two transactions are after is
\* in the cross set of both.
LEMMA WaitsAscend ==
    ASSUME LocksInv, NEW t \in Txs, NEW s \in Txs, NEW u \in Txs, s # t, u # s,
           NEW rows, rows = {r \in Requests : live[r] # {}} \cup Numbers(UserRow),
           Waits(t, s, rows), Waits(s, u, rows)
    PROVE  NextLock(t) \in Nat /\ NextLock(s) \in Nat /\ NextLock(t) < NextLock(s)
<1>1. /\ tx[t] \in TxState /\ tx[s] \in TxState /\ tx[u] \in TxState
      /\ TxInv(t) /\ TxInv(s) /\ TxInv(u)
      /\ tx[s].fences \cap tx[t].fences = {} /\ tx[s].fences \cap tx[u].fences = {}
  BY DEF LocksInv, LocksTypeOK, Exclusion
<1>2. ASSUME NEW v \in {t, s}
      PROVE  /\ tx[v].want # {} => NextLock(v) \in tx[v].want /\ NextLock(v) \in Fence
             /\ tx[v].want = {} /\ tx[v].ask # {} => NextLock(v) \in tx[v].ask /\ NextLock(v) \in Row
  <2>1. tx[v].want \subseteq Fence /\ tx[v].ask \subseteq Row
    BY <1>1, <1>2 DEF TxState
  <2>2. tx[v].want \subseteq Nat /\ tx[v].ask \subseteq Nat
    BY Zenon, <2>1, LevelOrder
  <2> QED
    BY <2>1, <2>2, LeastIsLeast DEF NextLock
<1>3. CASE WaitsForFence(t, s)
  <2>1. NextLock(t) \in tx[s].fences /\ NextLock(t) \in Fence
    BY <1>2, <1>3 DEF WaitsForFence, NextLock
  <2>2. CASE WaitsForFence(s, u)
    <3>1. NextLock(s) \in tx[s].want /\ NextLock(s) \in Fence
      BY <1>2, <2>2 DEF WaitsForFence
    <3>2. NextLock(t) < NextLock(s)
      BY <1>1, <2>1, <3>1 DEF TxInv, FenceInv
    <3> QED
      BY Zenon, <2>1, <3>1, <3>2, LevelOrder
  <2>3. CASE WaitsForRow(s, u, rows)
    <3>1. NextLock(s) \in Row
      BY <1>2, <2>3 DEF WaitsForRow
    <3> QED
      BY Zenon, <2>1, <3>1, LevelOrder DEF Below
  <2> QED
    BY <2>2, <2>3 DEF Waits
<1>4. CASE WaitsForRow(t, s, rows)
  <2> DEFINE r == NextLock(t)
             q == NextLock(s)
  <2>1. r \in tx[t].ask /\ r \in tx[s].rows /\ r \in rows /\ r \in Row
    BY <1>2, <1>4 DEF WaitsForRow, NextLock
  <2>2. tx[s].at \notin {"idle", "policy", "plan", "recheck", "rows", "graph"} /\ tx[s].want = {}
        /\ tx[s].caps \subseteq tx[s].fences
    BY Zenon, <2>1, <1>1 DEF TxInv, StageInv
  <2>3. WaitsForRow(s, u, rows)
    BY <2>2 DEF Waits, WaitsForFence
  <2>4. q \in tx[s].ask /\ q \in tx[u].rows /\ q \in rows /\ q \in Row
    BY <1>2, <2>3 DEF WaitsForRow, NextLock
  <2>5. tx[t].caps \subseteq tx[t].fences /\ tx[u].caps \subseteq tx[u].fences
    BY Zenon, <2>1, <2>4, <1>1 DEF TxInv, StageInv
  <2> HIDE DEF r, q
  <2>6. ~(r \in Requests /\ live[r] \subseteq tx[s].caps)
    <3>1. SUFFICES ASSUME r \in Requests, live[r] \subseteq tx[s].caps PROVE FALSE
      OBVIOUS
    <3>2. r \notin Numbers(UserRow)
      BY <3>1, LevelOrder DEF Below, Row
    <3>3. live[r] # {}
      BY <3>2, <2>1
    <3>4. live[r] \cap tx[t].caps # {}
      BY <3>1, <3>3, <2>1, <1>1 DEF TxInv, RowInv
    <3> QED
      BY <3>1, <3>4, <2>2, <2>5, <1>1
  <2>7. ~(q \in Requests /\ live[q] \subseteq tx[s].caps)
    <3>1. SUFFICES ASSUME q \in Requests, live[q] \subseteq tx[s].caps PROVE FALSE
      OBVIOUS
    <3>2. q \notin Numbers(UserRow)
      BY <3>1, LevelOrder DEF Below, Row
    <3>3. live[q] # {}
      BY <3>2, <2>4
    <3>4. live[q] \cap tx[u].caps # {}
      BY <3>1, <3>3, <2>4, <1>1 DEF TxInv, RowInv
    <3> QED
      BY <3>1, <3>4, <2>2, <2>5, <1>1
  <2>8. r < q
    BY <2>1, <2>4, <2>6, <2>7, <1>1 DEF TxInv, OrderInv
  <2> QED
    BY Zenon, <2>1, <2>4, <2>8, LevelOrder DEF r, q
<1> QED
  BY <1>3, <1>4 DEF Waits

\* Admission, release, the sweeps, management writes, parent deletes and drain
\* batches are never in a cycle of waits for fences, graph rows and the rows of
\* queued requests, whatever they read and however many of them run.
THEOREM QueuedRowsNeverDeadlock == LocksSpec => []QueuedRowsNoDeadlock
<1>1. LocksInv => QueuedRowsNoDeadlock
  <2> DEFINE rows == {r \in Requests : live[r] # {}} \cup Numbers(UserRow)
  <2>1. SUFFICES ASSUME LocksInv, NEW S \in SUBSET Txs, S # {},
                        \A t \in S : \E s \in S \ {t} : Waits(t, s, rows)
                 PROVE  FALSE
    BY Zenon DEF QueuedRowsNoDeadlock, Acyclic
  <2>2. ASSUME NEW t \in S
        PROVE  NextLock(t) \in Nat /\ \E s \in S : NextLock(s) \in Nat /\ NextLock(t) < NextLock(s)
    <3>1. PICK s \in S \ {t} : Waits(t, s, rows)
      BY <2>1
    <3>2. PICK u \in S \ {s} : Waits(s, u, rows)
      BY SMTT(60), <2>1
    <3> HIDE DEF rows
    <3> QED
      BY <3>1, <3>2, <2>1, WaitsAscend DEF rows
  <2> DEFINE lock == [t \in Txs |-> IF t \in S THEN NextLock(t) ELSE 0]
  <2>3. lock \in [Txs -> Nat]
    BY <2>2
  <2>4. \A t \in S : t \in Txs /\ \E s \in S : lock[t] < lock[s]
    BY <2>2
  <2> HIDE DEF lock
  <2>5. PICK b \in Nat : \A t \in Txs : lock[t] <= b
    BY <2>3, FiniteBound, LockAssumption
  <2> DEFINE gaps == {b - lock[t] : t \in S}
  <2>6. gaps \subseteq Nat /\ gaps # {}
    BY <2>1, <2>3, <2>4, <2>5
  <2>7. PICK g \in gaps : \A h \in gaps : g <= h
    <3> HIDE DEF gaps
    <3> QED
      BY Zenon, <2>6, LeastExists
  <2>8. PICK t \in S : g = b - lock[t]
    BY <2>7
  <2>9. PICK s \in S : lock[t] < lock[s]
    BY <2>4
  <2>10. lock[t] \in Nat /\ lock[s] \in Nat /\ b - lock[t] <= b - lock[s]
    BY <2>3, <2>4, <2>7, <2>8
  <2> QED
    BY <2>9, <2>10
<1> QED
  BY <1>1, LocksInvariant, PTL
=============================================================================
