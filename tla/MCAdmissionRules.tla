-------------------------- MODULE MCAdmissionRules --------------------------
(***************************************************************************)
(* The four calculations an admission rests on, each checked by itself     *)
(* from its own initial states (`asks` says which one a behaviour is       *)
(* about): a grant plan, a capacity's scheduler over its life, the kept    *)
(* slots of its owners, and the admission rounds of one request.           *)
(***************************************************************************)
EXTENDS AdmissionPlanner, TLC

CONSTANTS a, b, direct,   \* reservation owners: a member of each pool, a test target
          m1, m2, m3      \* the owners that keep slots, and the members of a pool request

\* -- Plans: three queued waiters of a HIGH/BACKGROUND mix, two pools whose
\* members keep slots and a direct test, on a capacity of at most three slots.
MCQuanta == (0 :> 1) @@ (1 :> 2) @@ (2 :> 3)
MCOwners == {a, b, direct}
MCPools == {"A", "B"}
MCRequests == 1 .. 3

PoolOf == (a :> "A") @@ (b :> "B") @@ (direct :> Null)

Policies ==
  [prio : {0, 2}, owner : {a, b}, borrow : BOOLEAN]
    \cup {[prio |-> 1, owner |-> direct, borrow |-> TRUE]}

\* How the three waiters stand at now = 5: all open; the first owed its last
\* chance; the second still deferred; the third created with no wait budget;
\* the first two candidates of one request.
Situations == {"open", "lastChance", "deferred", "zeroBudget", "siblings"}

MkWaiter(i, pol, capA, sit) ==
  [id |-> i, req |-> IF sit = "siblings" /\ i = 2 THEN 1 ELSE i,
   seq |-> IF sit = "siblings" /\ i = 2 THEN 1 ELSE i, order |-> i,
   prio |-> pol.prio, owner |-> pol.owner, pool |-> PoolOf[pol.owner],
   cap |-> IF pol.owner = a THEN capA ELSE Null, borrow |-> pol.borrow,
   notBefore |-> IF sit = "deferred" /\ i = 2 THEN 6
                 ELSE IF sit = "lastChance" /\ i = 1 THEN 3 ELSE Null,
   deadline |-> IF sit = "lastChance" /\ i = 1 THEN 4
                ELSE IF sit = "zeroBudget" /\ i = 3 THEN 5 ELSE Null,
   reqDeadline |-> 9]

MkSnapshot(limit, held, keptA, keptB, capA, pols, sit) ==
  [limit |-> limit, active |-> held[1] + held[2],
   byOwner |-> (a :> held[1]) @@ (b :> held[2]) @@ (direct :> 0),
   byPool |-> ("A" :> held[1]) @@ ("B" :> held[2]),
   kept |-> (a :> keptA) @@ (b :> keptB) @@ (direct :> 0),
   waiters |-> {MkWaiter(i, pols[i], capA, sit) : i \in 1 .. 3},
   sched |-> FreshScheduler, now |-> 5,
   requested |-> IF sit \in {"zeroBudget", "lastChance"} THEN 3 ELSE Null,
   creating |-> IF sit = "zeroBudget" THEN 3 ELSE Null,
   lastChance |-> IF sit = "lastChance" THEN {1} ELSE {}]

\* Every mix of policies against the kept slots, everyone open.
KeptSlotSnapshots ==
  {MkSnapshot(limit, held, kept[1], kept[2], Null, pols, "open") :
     limit \in {2, 3}, held \in {<<0, 0>>, <<1, 0>>, <<0, 1>>},
     kept \in {<<0, 0>>, <<1, 0>>, <<1, 1>>, <<2, 0>>}, pols \in [1 .. 3 -> Policies]}

\* Pool ceilings and the situations, with borrowing allowed; a capacity whose
\* limit was lowered below its leases, and an unlimited one, included.
SituationSnapshots ==
  {MkSnapshot(limit, held, 1, 1, capA, pols, sit) :
     limit \in {Null, 2}, held \in {<<1, 0>>, <<0, 3>>}, capA \in {1, 2},
     pols \in [1 .. 3 -> {pol \in Policies : pol.borrow}], sit \in Situations}

MCSnapshots == KeptSlotSnapshots \cup SituationSnapshots

VARIABLES
  asks,                                                    \* the calculation asked about
  sched, lag, turn,                                        \* DeficitRoundRobin
  configured, slots, tie,                                  \* KeptSlots
  now, window, holders, budget, left, first, round, rounds \* RetryRounds

plans == <<snap, plan>>
turns == <<sched, lag, turn>>
keeps == <<configured, slots, tie>>
tries == <<now, window, holders, budget, left, first, round, rounds>>

\* -- Turns: the planner's quanta; the proofs cover every other choice.
Turns == INSTANCE DeficitRoundRobin

\* -- Kept slots: up to five configured by each owner on up to nine slots, every
\* pattern of equal and distinct remainders of three shares.
Keeps == INSTANCE KeptSlots WITH
  Owners <- {m1, m2, m3}, MaxConfigured <- 5, MaxLimit <- 9, limit <- slots

\* -- Rounds: windows and budgets on both sides of MinWindow and of the
\* deadline, so that clamping to now and to the deadline both happen.
Tries == INSTANCE RetryRounds WITH
  Members <- {m1, m2, m3}, Windows <- {0, 2, 4, 9}, Budgets <- {0, 1, 3},
  MaxDelay <- 6, MinWindow <- 2, Deadline <- 7, MaxTime <- 8, MaxRounds <- 3

NoPlan == snap = (CHOOSE s \in SituationSnapshots : TRUE) /\ plan = StartPlan(snap)
NoTurns == sched = Null /\ lag = Null /\ turn = Null
NoKeeps == configured = Null /\ slots = Null /\ tie = Null
NoTries ==
  /\ now = Null /\ window = Null /\ holders = Null /\ budget = Null
  /\ left = Null /\ first = Null /\ round = Null /\ rounds = Null

RulesInit ==
  \/ asks = "plan"   /\ Init       /\ NoTurns /\ NoKeeps /\ NoTries
  \/ asks = "turns"  /\ Turns!Init /\ NoPlan  /\ NoKeeps /\ NoTries
  \/ asks = "kept"   /\ Keeps!Init /\ NoPlan  /\ NoTurns /\ NoTries
  \/ asks = "rounds" /\ Tries!Init /\ NoPlan  /\ NoTurns /\ NoKeeps

RulesNext ==
  /\ UNCHANGED asks
  /\ \/ asks = "plan"   /\ Next       /\ UNCHANGED <<turns, keeps, tries>>
     \/ asks = "turns"  /\ Turns!Next /\ UNCHANGED <<plans, keeps, tries>>
     \/ asks = "kept"   /\ Keeps!Next /\ UNCHANGED <<plans, turns, tries>>
     \/ asks = "rounds" /\ Tries!Next /\ UNCHANGED <<plans, turns, keeps>>

RulesSpec == RulesInit /\ [][RulesNext]_<<asks, plans, turns, keeps, tries>>

\* The turns of a capacity's scheduler: no class starves (DeficitRoundRobin).
BoundedWait == asks = "turns" => Turns!BoundedWait

\* Kept slots: rounding loses none and invents none (KeptSlots).
KeptExactly == asks = "kept" => Keeps!KeptExactly

\* Rounds: "a retry never restarts or extends the original schedule" (RetryRounds).
RetryKeepsSchedule == [][asks = "rounds" => Tries!KeepsSchedule]_tries
=============================================================================
