---------------------------- MODULE RetryRounds ----------------------------
(***************************************************************************)
(* The admission rounds of one pool request in its shortened local phase   *)
(* (an `:external` caller), routes.ts 5540-5640 with cache-holder-wait.ts: *)
(* the first round admits every member, deferring the ones that do not     *)
(* hold the prompt's cache; each later round, after a lost lease or a      *)
(* failure before the response, admits the members left and anchors its    *)
(* schedule to the first.  Every round is scheduled by candidateSchedules. *)
(***************************************************************************)
EXTENDS CandidateSchedules

CONSTANTS
  Members,
  Windows,     \* cache-holder windows (0 = no plan)
  Budgets,     \* wait budgets, min(member budget, externalAfterWaitMs)
  Deadline,    \* the relay deadline, the same for every round
  MaxTime,     \* bound on the database clock
  MaxRounds    \* bound on the rounds

VARIABLES
  now,       \* database clock
  window,    \* cacheHolderPlan.windowMs
  holders,   \* cacheHolderPlan.holderMemberIds
  budget,    \* waitBudgetMs of each member
  left,      \* members not yet excluded
  first,     \* enqueue instant and schedules of the first round, Null before
  round,     \* schedules of the running round
  rounds     \* rounds started

vars == <<now, window, holders, budget, left, first, round, rounds>>

\* spillDelayMs with elapsedMs = 0: only while a holder takes part in the round.
SpillDelay(m) == IF left \cap holders = {} \/ m \in holders THEN 0 ELSE window

RoundCandidates ==
  [m \in left |-> [own |-> Null, delay |-> SpillDelay(m), budget |-> budget[m]]]

ScheduleRound(anchor) ==
  [m \in left |-> CandidateSchedule(RoundCandidates, m, Deadline, now, anchor)]

\* A plan with a window exists only when some but not all members hold the cache.
Init ==
  /\ now = 0 /\ left = Members /\ first = Null /\ round = Null /\ rounds = 0
  /\ window \in Windows
  /\ holders \in {H \in SUBSET Members : window > 0 => H # {} /\ H # Members}
  /\ budget \in [Members -> Budgets]

FirstRound ==
  /\ first = Null
  /\ first' = [at |-> IF Deadline < now THEN Deadline ELSE now, plan |-> ScheduleRound(Null)]
  /\ round' = ScheduleRound(Null)
  /\ rounds' = 1
  /\ UNCHANGED <<now, window, holders, budget, left>>

\* Member m failed before the response was committed, or its lease was lost.
Exclude(m) ==
  /\ round # Null /\ m \in left
  /\ left' = left \ {m}
  /\ round' = Null
  /\ UNCHANGED <<now, window, holders, budget, first, rounds>>

RetryRound ==
  /\ first # Null /\ round = Null /\ left # {} /\ now < Deadline /\ rounds < MaxRounds
  /\ round' = ScheduleRound([at |-> first.at, spillDelay |-> window])
  /\ rounds' = rounds + 1
  /\ UNCHANGED <<now, window, holders, budget, left, first>>

Tick ==
  /\ now < MaxTime
  /\ now' = now + 1
  /\ UNCHANGED <<window, holders, budget, left, first, round, rounds>>

Next == FirstRound \/ (\E m \in Members : Exclude(m)) \/ RetryRound \/ Tick

Spec == Init /\ [][Next]_vars
-----------------------------------------------------------------------------
\* candidateSchedules: "a retry never restarts or extends the original
\* schedule".  However long the failed rounds took and whichever members are
\* left, a later round keeps each member's first deadline, or, when that is
\* past, gives it the present instant only; and a member deferred behind the
\* cache holder is open at once or at its first spill instant, never later.
KeepsSchedule ==
  rounds' > 1 /\ rounds' = rounds + 1 =>
    \A m \in left :
      /\ round'[m].deadline = IF first.plan[m].deadline >= now
                              THEN first.plan[m].deadline ELSE Min({Deadline, now})
      /\ round'[m].notBefore \in {Null, first.plan[m].notBefore}

\* Every step keeps the schedule.
RetryKeepsSchedule == [][KeepsSchedule]_vars
=============================================================================
