------------------------ MODULE ServerShutdownProofs ------------------------
(***************************************************************************)
(* Proofs about the shutdown sequence and the periodic task it joins, for  *)
(* any number of callers, probes, sockets, requests, exchanges and audited *)
(* events.                                                                 *)
(*                                                                         *)
(* The task's invariant (TaskInv) ties the busy promise to the loop: it    *)
(* exists exactly while a pass runs or is scheduled, and a caller that     *)
(* waits without a pass of its own has one coming.  The host's invariant   *)
(* (HostInv) says, stage by stage, what the sequence has already closed    *)
(* and the most its deadlines can have taken.                              *)
(***************************************************************************)
EXTENDS ServerShutdown, TLAPS

-----------------------------------------------------------------------------
(***************************************************************************)
(* The periodic task.                                                      *)
(***************************************************************************)
Phases == {"idle", "scheduled", "running", "running_rerun", "stopped"}
WaitStates == {"none", "waiting", "settled"}
ProbeRow == [state : WaitStates, after : Nat, by : Nat]

TaskTypeOK ==
  /\ opts \in [overlap : {"rerun", "drop"}, gap : BOOLEAN, interval : BOOLEAN]
  /\ phase \in Phases
  /\ next \in BOOLEAN /\ inPass \in BOOLEAN /\ busy \in BOOLEAN
  /\ passes \in Nat
  /\ probe \in [Probes -> ProbeRow]
  /\ wait \in [Holders -> WaitStates]
  /\ asked \in [Holders -> Nat]

\* A pass runs exactly in the running phases, or after a stop; a promise is open
\* exactly while a pass runs or is scheduled.
LoopInv ==
  /\ phase \in {"running", "running_rerun"} => inPass
  /\ inPass => phase \notin {"idle", "scheduled"}
  /\ busy <=> inPass \/ phase = "scheduled"

\* A runOnce() waits for a pass after the one it was called in.
ProbeInv ==
  \A p \in Probes : /\ probe[p].state = "waiting" => busy /\ probe[p].after <= passes
                    /\ probe[p].state = "settled" => probe[p].by > probe[p].after

\* A holder that waits holds the busy promise.
HolderInv == \A h \in Holders : wait[h] = "waiting" => busy

\* The pass a caller asked for has started, or starts before the promise closes.
OwedAPass(c) == passes > asked[c] \/ phase = "stopped" \/ opts.overlap = "drop"

CallerInv ==
  \A c \in Callers :
    /\ asked[c] <= passes
    /\ wait[c] = "waiting" => OwedAPass(c) \/ phase \in {"scheduled", "running_rerun"}
    /\ wait[c] = "settled" => OwedAPass(c)

\* stop() is called once; a pass that runs after it resolved serves a runOnce().
StopInv ==
  /\ phase = "stopped" <=> wait[Stopper] # "none"
  /\ wait[Stopper] = "settled" /\ inPass => Pending # {}

TaskInv == TaskTypeOK /\ LoopInv /\ ProbeInv /\ HolderInv /\ CallerInv /\ StopInv

-----------------------------------------------------------------------------
(***************************************************************************)
(* The sequence.                                                           *)
(***************************************************************************)
Stages == {"serving", "jobs", "browsers", "drain", "relay", "runtimes", "mcp", "database", "done"}

HostTypeOK ==
  /\ stage \in Stages
  /\ spent \in Nat
  /\ exit \in {"none", "0", "1"}
  /\ draining \in BOOLEAN /\ gate \in BOOLEAN /\ handler \in BOOLEAN
  /\ socket \in [Sockets -> {"none", "upgrading", "open"}]
  /\ lease \subseteq Requests
  /\ mcp \in [Exchanges -> {"none", "admitted", "stray"}]
  /\ event \in [Events -> {"none", "queued", "late", "writing", "fenced"}]
  /\ flush \in {"none", "waiting", "done"}
  /\ sweep \in {"idle", "running"}
  /\ clients \in {"open", "joined", "sweep_closed", "closed"}

\* The most the deadlines before each stage can have taken.
SpentBefore ==
  [s \in Stages |->
     CASE s \in {"serving", "jobs"} -> 0
       [] s \in {"browsers", "drain"} -> PeriodicJobsStop
       [] s = "relay" -> PeriodicJobsStop + HttpDrain
       [] s = "runtimes" -> PeriodicJobsStop + HttpDrain + RelayClose
       [] s = "mcp" -> PeriodicJobsStop + HttpDrain + RelayClose + CapacityRuntimeClose
       [] s \in {"database", "done"} -> PeriodicJobsStop + HttpDrain + RelayClose
                                          + CapacityRuntimeClose + McpCloseShadowAwait]

SpentOnClients ==
  CASE clients = "open" -> 0
    [] clients = "joined" -> SweepJoin
    [] clients = "sweep_closed" -> SweepJoin + SweepDisconnect
    [] clients = "closed" -> SweepJoin + SweepDisconnect + SharedDisconnect

\* Every deadline runs out at most once, and its stage is never entered again.
BudgetInv == spent <= SpentBefore[stage] + SpentOnClients

\* What each stage leaves closed behind it.
StageInv ==
  /\ stage # "serving" <=> wait[Stopper] # "none"
  /\ ~Accepting => draining /\ \A b \in Sockets : socket[b] # "open"
  /\ gate <=> stage \in {"mcp", "database", "done"}
  /\ gate => OpenExchanges = {}
  /\ stage \in {"database", "done"} => handler /\ Strays = {}
  /\ stage \notin {"database", "done"} => clients = "open"
  /\ clients # "open" => sweep = "idle"
  /\ stage = "done" => clients = "closed"

\* As long as no deadline ran out, each step was left because its work was done.
UnhurriedInv ==
  spent = 0 =>
    /\ stage \notin {"serving", "jobs"} => wait[Stopper] = "settled"
    /\ stage \in {"runtimes", "mcp", "database", "done"} => flush = "done"
    /\ gate => lease = {}
    /\ \A e \in Events : event[e] # "fenced"

FlushInv == flush = "done" => \A e \in Events : event[e] # "queued"

ExitInv == /\ exit = "0" => stage = "done"
           /\ exit = "1" => stage = "mcp" /\ ~handler

HostInv ==
  HostTypeOK /\ BudgetInv /\ StageInv /\ UnhurriedInv /\ FlushInv /\ ExitInv

-----------------------------------------------------------------------------
LEMMA TaskInitial == TaskInit => TaskInv
<1> SUFFICES ASSUME TaskInit PROVE TaskInv
  OBVIOUS
<1>1. TaskTypeOK
  BY Zenon DEF TaskInit, TaskTypeOK, Phases, WaitStates, ProbeRow
<1>2. LoopInv
  BY DEF TaskInit, LoopInv
<1>3. ProbeInv /\ HolderInv /\ CallerInv
  BY DEF TaskInit, ProbeInv, HolderInv, CallerInv, Holders
<1>4. StopInv
  BY DEF TaskInit, StopInv, Holders
<1> QED
  BY <1>1, <1>2, <1>3, <1>4 DEF TaskInv

LEMMA TriggerStep ==
  ASSUME TaskInv, NEW d \in Callers, Trigger(d)
  PROVE  TaskInv'
<1> USE TaskAssumption DEF TaskInv, Trigger, TriggerFrom, OpenBusy, Schedule, StartPass
<1>1. TaskTypeOK'
  <2>1. (/\ phase \in Phases /\ passes \in Nat)'
    BY DEF TaskTypeOK, Phases, WaitStates, ProbeRow, Holders
  <2>2. (/\ next \in BOOLEAN /\ inPass \in BOOLEAN /\ busy \in BOOLEAN)'
    BY Zenon DEF TaskTypeOK
  <2>3. (/\ opts \in [overlap : {"rerun", "drop"}, gap : BOOLEAN, interval : BOOLEAN]
         /\ probe \in [Probes -> ProbeRow])'
    BY DEF TaskTypeOK, Phases, WaitStates, ProbeRow, Holders
  <2>4. (/\ wait \in [Holders -> WaitStates] /\ asked \in [Holders -> Nat])'
    BY DEF TaskTypeOK, Phases, WaitStates, ProbeRow, Holders
  <2> QED
    BY <2>1, <2>2, <2>3, <2>4 DEF TaskTypeOK
<1>2. LoopInv'
  BY DEF TaskTypeOK, Phases, WaitStates, ProbeRow, Holders, LoopInv
<1>3. ProbeInv'
  BY <1>2 DEF TaskTypeOK, Phases, WaitStates, ProbeRow, Holders, LoopInv, ProbeInv
<1>4. HolderInv'
  BY <1>2 DEF TaskTypeOK, Phases, WaitStates, ProbeRow, Holders, LoopInv, HolderInv
<1>5. CallerInv'
  BY DEF TaskTypeOK, Phases, WaitStates, ProbeRow, Holders, LoopInv, CallerInv, OwedAPass
<1>6. StopInv'
  BY <1>1, <1>2 DEF TaskTypeOK, Phases, WaitStates, ProbeRow, Holders, LoopInv, ProbeInv, StopInv, Pending
<1> QED
  BY <1>1, <1>2, <1>3, <1>4, <1>5, <1>6

LEMMA TimerTriggerStep ==
  ASSUME TaskInv, TimerTrigger
  PROVE  TaskInv'
<1> USE TaskAssumption DEF TaskInv, TimerTrigger, TriggerFrom, OpenBusy, Schedule, StartPass
<1>1. TaskTypeOK'
  <2>1. (/\ phase \in Phases /\ passes \in Nat)'
    BY DEF TaskTypeOK, Phases, WaitStates, ProbeRow, Holders
  <2>2. (/\ next \in BOOLEAN /\ inPass \in BOOLEAN /\ busy \in BOOLEAN)'
    BY Zenon DEF TaskTypeOK
  <2>3. (/\ opts \in [overlap : {"rerun", "drop"}, gap : BOOLEAN, interval : BOOLEAN]
         /\ probe \in [Probes -> ProbeRow])'
    BY DEF TaskTypeOK, Phases, WaitStates, ProbeRow, Holders
  <2>4. (/\ wait \in [Holders -> WaitStates] /\ asked \in [Holders -> Nat])'
    BY DEF TaskTypeOK, Phases, WaitStates, ProbeRow, Holders
  <2> QED
    BY <2>1, <2>2, <2>3, <2>4 DEF TaskTypeOK
<1>2. LoopInv'
  BY DEF TaskTypeOK, Phases, WaitStates, ProbeRow, Holders, LoopInv
<1>3. ProbeInv'
  BY <1>2 DEF TaskTypeOK, Phases, WaitStates, ProbeRow, Holders, LoopInv, ProbeInv
<1>4. HolderInv'
  BY <1>2 DEF TaskTypeOK, Phases, WaitStates, ProbeRow, Holders, LoopInv, HolderInv
<1>5. CallerInv'
  BY DEF TaskTypeOK, Phases, WaitStates, ProbeRow, Holders, LoopInv, CallerInv, OwedAPass
<1>6. StopInv'
  BY <1>1, <1>2 DEF TaskTypeOK, Phases, WaitStates, ProbeRow, Holders, LoopInv, ProbeInv, StopInv, Pending
<1> QED
  BY <1>1, <1>2, <1>3, <1>4, <1>5, <1>6

LEMMA ScheduledFiresStep ==
  ASSUME TaskInv, ScheduledFires
  PROVE  TaskInv'
<1> USE TaskAssumption DEF TaskInv, ScheduledFires, StartPass
<1>1. TaskTypeOK'
  <2>1. (/\ phase \in Phases /\ passes \in Nat)'
    BY DEF TaskTypeOK, Phases, WaitStates, ProbeRow, Holders
  <2>2. (/\ next \in BOOLEAN /\ inPass \in BOOLEAN /\ busy \in BOOLEAN)'
    BY DEF TaskTypeOK
  <2>3. (/\ opts \in [overlap : {"rerun", "drop"}, gap : BOOLEAN, interval : BOOLEAN]
         /\ probe \in [Probes -> ProbeRow])'
    BY DEF TaskTypeOK, Phases, WaitStates, ProbeRow, Holders
  <2>4. (/\ wait \in [Holders -> WaitStates] /\ asked \in [Holders -> Nat])'
    BY DEF TaskTypeOK, Phases, WaitStates, ProbeRow, Holders
  <2> QED
    BY <2>1, <2>2, <2>3, <2>4 DEF TaskTypeOK
<1>2. LoopInv'
  BY DEF TaskTypeOK, Phases, WaitStates, ProbeRow, Holders, LoopInv
<1>3. ProbeInv'
  BY <1>2 DEF TaskTypeOK, Phases, WaitStates, ProbeRow, Holders, LoopInv, ProbeInv
<1>4. HolderInv'
  BY <1>2 DEF TaskTypeOK, Phases, WaitStates, ProbeRow, Holders, LoopInv, HolderInv
<1>5. CallerInv'
  BY DEF TaskTypeOK, Phases, WaitStates, ProbeRow, Holders, LoopInv, CallerInv, OwedAPass
<1>6. StopInv'
  BY <1>1, <1>2 DEF TaskTypeOK, Phases, WaitStates, ProbeRow, Holders, LoopInv, ProbeInv, StopInv, Pending
<1> QED
  BY <1>1, <1>2, <1>3, <1>4, <1>5, <1>6

LEMMA RunOnceStep ==
  ASSUME TaskInv, NEW q \in Probes, RunOnce(q)
  PROVE  TaskInv'
<1> USE TaskAssumption DEF TaskInv, RunOnce, StartStoppedPass, TriggerFrom, OpenBusy, Schedule, StartPass
<1>1. TaskTypeOK'
  <2>1. (/\ phase \in Phases /\ passes \in Nat)'
    BY DEF TaskTypeOK, Phases, WaitStates, ProbeRow, Holders
  <2>2. (/\ next \in BOOLEAN /\ inPass \in BOOLEAN /\ busy \in BOOLEAN)'
    BY Zenon DEF TaskTypeOK
  <2>3. (/\ opts \in [overlap : {"rerun", "drop"}, gap : BOOLEAN, interval : BOOLEAN]
         /\ probe \in [Probes -> ProbeRow])'
    BY DEF TaskTypeOK, Phases, WaitStates, ProbeRow, Holders
  <2>4. (/\ wait \in [Holders -> WaitStates] /\ asked \in [Holders -> Nat])'
    BY DEF TaskTypeOK, Phases, WaitStates, ProbeRow, Holders
  <2> QED
    BY <2>1, <2>2, <2>3, <2>4 DEF TaskTypeOK
<1>2. LoopInv'
  BY DEF TaskTypeOK, Phases, WaitStates, ProbeRow, Holders, LoopInv
<1>3. ProbeInv'
  BY <1>2 DEF TaskTypeOK, Phases, WaitStates, ProbeRow, Holders, LoopInv, ProbeInv
<1>4. HolderInv'
  BY <1>2 DEF TaskTypeOK, Phases, WaitStates, ProbeRow, Holders, LoopInv, HolderInv
<1>5. CallerInv'
  BY DEF TaskTypeOK, Phases, WaitStates, ProbeRow, Holders, LoopInv, CallerInv, OwedAPass
<1>6. StopInv'
  BY <1>1, <1>2 DEF TaskTypeOK, Phases, WaitStates, ProbeRow, Holders, LoopInv, ProbeInv, StopInv, Pending
<1> QED
  BY <1>1, <1>2, <1>3, <1>4, <1>5, <1>6

LEMMA PassEndsStep ==
  ASSUME TaskInv, PassEnds
  PROVE  TaskInv'
<1> DEFINE left == {p \in Pending : ~Served(p)}
<1> USE TaskAssumption DEF TaskInv
<1> HIDE DEF left
<1>0. /\ inPass /\ SettleProbes /\ opts' = opts /\ asked' = asked /\ timers' = timers
  BY DEF PassEnds
<1> USE <1>0
<1>1. Pending' = left
  BY Zenon DEF SettleProbes, Pending, Served, left, TaskTypeOK, ProbeRow, WaitStates
<1>2. (/\ probe \in [Probes -> ProbeRow]
       /\ opts \in [overlap : {"rerun", "drop"}, gap : BOOLEAN, interval : BOOLEAN])'
  BY Zenon DEF SettleProbes, Served, TaskTypeOK, ProbeRow, WaitStates
<1>3. \A p \in Probes : /\ probe'[p].state = "waiting" => p \in left /\ probe'[p].after <= passes
                        /\ probe'[p].state = "settled" => probe'[p].by > probe'[p].after
  BY Zenon DEF SettleProbes, Served, Pending, left, ProbeInv, TaskTypeOK, ProbeRow, WaitStates
<1>4. CASE /\ phase = "stopped" /\ left # {}
           /\ StartStoppedPass
           /\ UNCHANGED <<next, busy, wait>>
  <2> USE <1>4 DEF StartStoppedPass, StartPass, Schedule, CloseBusy, Settled
  <2>1. TaskTypeOK' /\ LoopInv'
    <3>1. /\ phase' \in Phases /\ passes' \in Nat /\ wait' \in [Holders -> WaitStates]
          /\ asked' \in [Holders -> Nat]
      BY DEF TaskTypeOK, Phases, WaitStates, ProbeRow, Holders
    <3>2. next' \in BOOLEAN /\ inPass' \in BOOLEAN /\ busy' \in BOOLEAN
      BY DEF TaskTypeOK
    <3>3. LoopInv'
      BY DEF LoopInv, TaskTypeOK, Phases
    <3> QED
      BY <1>2, <3>1, <3>2, <3>3 DEF TaskTypeOK
  <2>2. ProbeInv' /\ HolderInv'
    BY <1>1, <1>3, <2>1 DEF LoopInv, HolderInv, ProbeInv, TaskTypeOK, Phases, WaitStates, ProbeRow, Holders
  <2>3. CallerInv'
    BY DEF CallerInv, OwedAPass, LoopInv, TaskTypeOK, Phases, WaitStates, ProbeRow, Holders
  <2>4. StopInv'
    BY <1>1 DEF StopInv, LoopInv, TaskTypeOK, Phases, WaitStates, ProbeRow, Holders
  <2> QED
    BY <2>1, <2>2, <2>3, <2>4
<1>5. CASE /\ phase = "stopped" /\ left = {}
           /\ inPass' = FALSE
           /\ CloseBusy(wait)
           /\ UNCHANGED <<phase, next, passes>>
  <2> USE <1>5 DEF StartStoppedPass, StartPass, Schedule, CloseBusy, Settled
  <2>1. TaskTypeOK' /\ LoopInv'
    <3>1. /\ phase' \in Phases /\ passes' \in Nat /\ wait' \in [Holders -> WaitStates]
          /\ asked' \in [Holders -> Nat]
      BY DEF TaskTypeOK, Phases, WaitStates, ProbeRow, Holders
    <3>2. next' \in BOOLEAN /\ inPass' \in BOOLEAN /\ busy' \in BOOLEAN
      BY Zenon DEF TaskTypeOK
    <3>3. LoopInv'
      BY DEF LoopInv, TaskTypeOK, Phases
    <3> QED
      BY <1>2, <3>1, <3>2, <3>3 DEF TaskTypeOK
  <2>2. ProbeInv' /\ HolderInv'
    BY <1>1, <1>3, <2>1 DEF LoopInv, HolderInv, ProbeInv, TaskTypeOK, Phases, WaitStates, ProbeRow, Holders
  <2>3. CallerInv'
    BY DEF CallerInv, OwedAPass, LoopInv, TaskTypeOK, Phases, WaitStates, ProbeRow, Holders
  <2>4. StopInv'
    BY <1>1 DEF StopInv, LoopInv, TaskTypeOK, Phases, WaitStates, ProbeRow, Holders
  <2> QED
    BY <2>1, <2>2, <2>3, <2>4
<1>6. CASE /\ phase # "stopped" /\ (phase = "running_rerun" \/ left # {})
           /\ Schedule \/ StartPass
           /\ UNCHANGED <<next, busy, wait>>
  <2> USE <1>6 DEF StartStoppedPass, StartPass, Schedule, CloseBusy, Settled
  <2>1. TaskTypeOK' /\ LoopInv'
    <3>1. /\ phase' \in Phases /\ passes' \in Nat /\ wait' \in [Holders -> WaitStates]
          /\ asked' \in [Holders -> Nat]
      BY DEF TaskTypeOK, Phases, WaitStates, ProbeRow, Holders
    <3>2. next' \in BOOLEAN /\ inPass' \in BOOLEAN /\ busy' \in BOOLEAN
      BY Zenon DEF TaskTypeOK
    <3>3. LoopInv'
      BY DEF LoopInv, TaskTypeOK, Phases
    <3> QED
      BY <1>2, <3>1, <3>2, <3>3 DEF TaskTypeOK
  <2>2. ProbeInv' /\ HolderInv'
    BY <1>1, <1>3, <2>1 DEF LoopInv, HolderInv, ProbeInv, TaskTypeOK, Phases, WaitStates, ProbeRow, Holders
  <2>3. CallerInv'
    BY DEF CallerInv, OwedAPass, LoopInv, TaskTypeOK, Phases, WaitStates, ProbeRow, Holders
  <2>4. StopInv'
    <3>1. phase' # "stopped"
      OBVIOUS
    <3>2. wait[Stopper] = "none"
      BY DEF StopInv, TaskTypeOK, Holders, WaitStates
    <3> QED
      BY <3>1, <3>2 DEF StopInv
  <2> QED
    BY <2>1, <2>2, <2>3, <2>4
<1>7. CASE /\ phase = "running" /\ left = {}
           /\ phase' = "idle" /\ inPass' = FALSE
           /\ next' \in BOOLEAN
           /\ CloseBusy(wait)
           /\ UNCHANGED passes
  <2> USE <1>7 DEF StartStoppedPass, StartPass, Schedule, CloseBusy, Settled
  <2>1. TaskTypeOK' /\ LoopInv'
    <3>1. /\ phase' \in Phases /\ passes' \in Nat /\ wait' \in [Holders -> WaitStates]
          /\ asked' \in [Holders -> Nat]
      BY DEF TaskTypeOK, Phases, WaitStates, ProbeRow, Holders
    <3>2. next' \in BOOLEAN /\ inPass' \in BOOLEAN /\ busy' \in BOOLEAN
      BY Zenon DEF TaskTypeOK
    <3>3. LoopInv'
      BY DEF LoopInv, TaskTypeOK, Phases
    <3> QED
      BY <1>2, <3>1, <3>2, <3>3 DEF TaskTypeOK
  <2>2. ProbeInv' /\ HolderInv'
    BY <1>1, <1>3, <2>1 DEF LoopInv, HolderInv, ProbeInv, TaskTypeOK, Phases, WaitStates, ProbeRow, Holders
  <2>3. CallerInv'
    BY DEF CallerInv, OwedAPass, LoopInv, TaskTypeOK, Phases, WaitStates, ProbeRow, Holders
  <2>4. StopInv'
    BY <1>1 DEF StopInv, LoopInv, TaskTypeOK, Phases, WaitStates, ProbeRow, Holders
  <2> QED
    BY <2>1, <2>2, <2>3, <2>4
<1> QED
  BY Zenon, <1>4, <1>5, <1>6, <1>7 DEF PassEnds, left

LEMMA StopStep ==
  ASSUME TaskInv, Stop
  PROVE  TaskInv'
<1> USE TaskAssumption DEF TaskInv, Stop, StartStoppedPass, CloseBusy, Settled, Pending
<1>1. TaskTypeOK'
  <2>1. (/\ phase \in Phases /\ passes \in Nat)'
    BY DEF TaskTypeOK, Phases, WaitStates, ProbeRow, Holders
  <2>2. (/\ next \in BOOLEAN /\ inPass \in BOOLEAN /\ busy \in BOOLEAN)'
    BY Zenon DEF TaskTypeOK
  <2>3. (/\ opts \in [overlap : {"rerun", "drop"}, gap : BOOLEAN, interval : BOOLEAN]
         /\ probe \in [Probes -> ProbeRow])'
    BY DEF TaskTypeOK, Phases, WaitStates, ProbeRow, Holders
  <2>4. (/\ wait \in [Holders -> WaitStates] /\ asked \in [Holders -> Nat])'
    BY DEF TaskTypeOK, Phases, WaitStates, ProbeRow, Holders
  <2> QED
    BY <2>1, <2>2, <2>3, <2>4 DEF TaskTypeOK
<1>2. LoopInv'
  BY DEF TaskTypeOK, Phases, WaitStates, ProbeRow, Holders, LoopInv
<1>3. ProbeInv'
  BY <1>2 DEF TaskTypeOK, Phases, WaitStates, ProbeRow, Holders, LoopInv, ProbeInv
<1>4. HolderInv'
  BY <1>2 DEF TaskTypeOK, Phases, WaitStates, ProbeRow, Holders, LoopInv, HolderInv
<1>5. CallerInv'
  BY DEF TaskTypeOK, Phases, WaitStates, ProbeRow, Holders, LoopInv, CallerInv, OwedAPass
<1>6. StopInv'
  BY <1>1, <1>2 DEF TaskTypeOK, Phases, WaitStates, ProbeRow, Holders, LoopInv, ProbeInv, StopInv, Pending
<1> QED
  BY <1>1, <1>2, <1>3, <1>4, <1>5, <1>6

\* The join of stop() stays as it is, or is settled; no other step makes the call.
StopperKept == /\ wait'[Stopper] = "none" <=> wait[Stopper] = "none"
               /\ wait[Stopper] = "settled" => wait'[Stopper] = "settled"

LEMMA TaskStepKeeps ==
  ASSUME TaskInv, TaskCalls \/ TaskWork
  PROVE  TaskInv' /\ StopperKept
<1> USE TaskAssumption DEF TaskInv, TaskTypeOK, Holders, WaitStates, StopperKept
<1>1. ASSUME NEW c \in Callers, Trigger(c) PROVE TaskInv' /\ StopperKept
  BY Zenon, <1>1, TriggerStep DEF Trigger, TriggerFrom, OpenBusy
<1>2. CASE TimerTrigger
  BY Zenon, <1>2, TimerTriggerStep DEF TimerTrigger, TriggerFrom, OpenBusy
<1>3. CASE ScheduledFires
  BY <1>3, ScheduledFiresStep DEF ScheduledFires
<1>4. ASSUME NEW p \in Probes, RunOnce(p) PROVE TaskInv' /\ StopperKept
  BY Zenon, <1>4, RunOnceStep DEF RunOnce, TriggerFrom, OpenBusy
<1>5. CASE PassEnds
  BY Zenon, <1>5, PassEndsStep DEF PassEnds, CloseBusy, Settled
<1> QED
  BY <1>1, <1>2, <1>3, <1>4, <1>5 DEF TaskCalls, TaskWork

-----------------------------------------------------------------------------
(***************************************************************************)
(* The sequence and what it serves.                                        *)
(***************************************************************************)
LEMMA HostInitial == ShutdownInit => HostInv
<1> SUFFICES ASSUME ShutdownInit PROVE HostInv
  OBVIOUS
<1>1. HostTypeOK
  BY Zenon DEF ShutdownInit, HostTypeOK, Stages
<1>2. BudgetInv
  BY DEF ShutdownInit, BudgetInv, SpentBefore, SpentOnClients, Stages
<1>3. StageInv /\ UnhurriedInv /\ FlushInv /\ ExitInv
  BY DEF ShutdownInit, TaskInit, Holders, StageInv, UnhurriedInv, FlushInv, ExitInv, Accepting,
         OpenExchanges, Strays
<1> QED
  BY <1>1, <1>2, <1>3 DEF HostInv

LEMMA TaskStepKeepsHost ==
  ASSUME HostInv, StopperKept, UNCHANGED hostVars
  PROVE  HostInv'
<1> USE DEF HostInv, hostVars
<1>1. HostTypeOK' /\ BudgetInv'
  BY DEF HostTypeOK, BudgetInv, SpentOnClients
<1>2. StageInv' /\ UnhurriedInv'
  BY DEF StopperKept, StageInv, Accepting, OpenExchanges, Strays, UnhurriedInv
<1>3. FlushInv' /\ ExitInv'
  BY DEF FlushInv, ExitInv
<1> QED
  BY <1>1, <1>2, <1>3

\* The deadlines are numbers, and every step is one of a process that has not exited.
USE DEF HostInv, HostTypeOK, Stages, Running, taskVars, Enter, PeriodicJobsStop, HttpDrain,
        RelayClose, CapacityRuntimeClose, McpCloseShadowAwait, SweepJoin, SweepDisconnect,
        SharedDisconnect

LEMMA ServeKeeps ==
  ASSUME TaskInv, HostInv, Serve
  PROVE  HostInv'
<1> USE DEF Serve, UpgradeChecked, SocketOpens, BrowserCloses, RequestArrives, RequestEnds, McpAdmitted, McpClientAborts, McpSettles, EventRecorded, BatchTaken, BatchEnds, Queued, Writing, TickBegins, TickEnds
<1>1. HostTypeOK'
  OBVIOUS
<1>2. BudgetInv'
  BY <1>1 DEF BudgetInv, SpentBefore, SpentOnClients, StageInv
<1>3. StageInv'
  BY DEF StageInv, Accepting, OpenExchanges, Strays
<1>4. UnhurriedInv'
  BY DEF StageInv, Accepting, OpenExchanges, Strays, UnhurriedInv, FlushInv
<1>5. FlushInv'
  BY DEF FlushInv
<1>6. ExitInv'
  BY DEF ExitInv, StageInv
<1> QED
  BY <1>1, <1>2, <1>3, <1>4, <1>5, <1>6

LEMMA SignalKeeps ==
  ASSUME TaskInv, HostInv, Signal
  PROVE  HostInv'
<1> USE DEF Signal
<1>1. HostTypeOK'
  OBVIOUS
<1>2. BudgetInv'
  BY <1>1 DEF BudgetInv, SpentBefore, SpentOnClients, StageInv
<1>3. StageInv'
  <2>1. wait'[Stopper] # "none"
    BY DEF Stop, CloseBusy, Settled, TaskInv, TaskTypeOK, Holders
  <2> QED
    BY <2>1 DEF StageInv, Accepting, OpenExchanges, Strays
<1>4. UnhurriedInv'
  BY DEF StageInv, Accepting, OpenExchanges, Strays, UnhurriedInv, FlushInv
<1>5. FlushInv'
  BY DEF FlushInv
<1>6. ExitInv'
  BY DEF ExitInv, StageInv
<1> QED
  BY <1>1, <1>2, <1>3, <1>4, <1>5, <1>6

LEMMA JobsStoppedKeeps ==
  ASSUME TaskInv, HostInv, JobsStopped
  PROVE  HostInv'
<1> USE DEF JobsStopped
<1>1. HostTypeOK'
  OBVIOUS
<1>2. BudgetInv'
  BY <1>1 DEF BudgetInv, SpentBefore, SpentOnClients, StageInv
<1>3. StageInv'
  BY DEF StageInv, Accepting, OpenExchanges, Strays
<1>4. UnhurriedInv'
  BY DEF StageInv, Accepting, OpenExchanges, Strays, UnhurriedInv, FlushInv
<1>5. FlushInv'
  BY DEF FlushInv
<1>6. ExitInv'
  BY DEF ExitInv, StageInv
<1> QED
  BY <1>1, <1>2, <1>3, <1>4, <1>5, <1>6

LEMMA BrowsersClosedKeeps ==
  ASSUME TaskInv, HostInv, BrowsersClosed
  PROVE  HostInv'
<1> USE DEF BrowsersClosed
<1>1. HostTypeOK'
  OBVIOUS
<1>2. BudgetInv'
  BY <1>1 DEF BudgetInv, SpentBefore, SpentOnClients, StageInv
<1>3. StageInv'
  BY DEF StageInv, Accepting, OpenExchanges, Strays
<1>4. UnhurriedInv'
  BY DEF StageInv, Accepting, OpenExchanges, Strays, UnhurriedInv, FlushInv
<1>5. FlushInv'
  BY DEF FlushInv
<1>6. ExitInv'
  BY DEF ExitInv, StageInv
<1> QED
  BY <1>1, <1>2, <1>3, <1>4, <1>5, <1>6

LEMMA DrainedKeeps ==
  ASSUME TaskInv, HostInv, Drained
  PROVE  HostInv'
<1> USE DEF Drained
<1>1. HostTypeOK'
  OBVIOUS
<1>2. BudgetInv'
  BY <1>1 DEF BudgetInv, SpentBefore, SpentOnClients, StageInv
<1>3. StageInv'
  BY DEF StageInv, Accepting, OpenExchanges, Strays
<1>4. UnhurriedInv'
  BY DEF StageInv, Accepting, OpenExchanges, Strays, UnhurriedInv, FlushInv
<1>5. FlushInv'
  BY DEF FlushInv
<1>6. ExitInv'
  BY DEF ExitInv, StageInv
<1> QED
  BY <1>1, <1>2, <1>3, <1>4, <1>5, <1>6

LEMMA FlushBeginsKeeps ==
  ASSUME TaskInv, HostInv, FlushBegins
  PROVE  HostInv'
<1> USE DEF FlushBegins
<1>1. HostTypeOK'
  OBVIOUS
<1>2. BudgetInv'
  BY <1>1 DEF BudgetInv, SpentBefore, SpentOnClients, StageInv
<1>3. StageInv'
  BY DEF StageInv, Accepting, OpenExchanges, Strays
<1>4. UnhurriedInv'
  BY DEF StageInv, Accepting, OpenExchanges, Strays, UnhurriedInv, FlushInv
<1>5. FlushInv'
  BY DEF FlushInv
<1>6. ExitInv'
  BY DEF ExitInv, StageInv
<1> QED
  BY <1>1, <1>2, <1>3, <1>4, <1>5, <1>6

LEMMA FlushEndsKeeps ==
  ASSUME TaskInv, HostInv, FlushEnds
  PROVE  HostInv'
<1> USE DEF FlushEnds, Queued, Writing
<1>1. HostTypeOK'
  OBVIOUS
<1>2. BudgetInv'
  BY <1>1 DEF BudgetInv, SpentBefore, SpentOnClients, StageInv
<1>3. StageInv'
  BY DEF StageInv, Accepting, OpenExchanges, Strays
<1>4. UnhurriedInv'
  BY DEF StageInv, Accepting, OpenExchanges, Strays, UnhurriedInv, FlushInv
<1>5. FlushInv'
  BY DEF FlushInv
<1>6. ExitInv'
  BY DEF ExitInv, StageInv
<1> QED
  BY <1>1, <1>2, <1>3, <1>4, <1>5, <1>6

LEMMA RelayClosedKeeps ==
  ASSUME TaskInv, HostInv, RelayClosed
  PROVE  HostInv'
<1> USE DEF RelayClosed
<1>1. HostTypeOK'
  OBVIOUS
<1>2. BudgetInv'
  BY <1>1 DEF BudgetInv, SpentBefore, SpentOnClients, StageInv
<1>3. StageInv'
  BY DEF StageInv, Accepting, OpenExchanges, Strays
<1>4. UnhurriedInv'
  BY DEF StageInv, Accepting, OpenExchanges, Strays, UnhurriedInv, FlushInv
<1>5. FlushInv'
  BY DEF FlushInv
<1>6. ExitInv'
  BY DEF ExitInv, StageInv
<1> QED
  BY <1>1, <1>2, <1>3, <1>4, <1>5, <1>6

LEMMA RuntimesClosedKeeps ==
  ASSUME TaskInv, HostInv, RuntimesClosed
  PROVE  HostInv'
<1> USE DEF RuntimesClosed, CloseGate
<1>1. HostTypeOK'
  OBVIOUS
<1>2. BudgetInv'
  BY <1>1 DEF BudgetInv, SpentBefore, SpentOnClients, StageInv
<1>3. StageInv'
  BY DEF StageInv, Accepting, OpenExchanges, Strays
<1>4. UnhurriedInv'
  BY DEF StageInv, Accepting, OpenExchanges, Strays, UnhurriedInv, FlushInv
<1>5. FlushInv'
  BY DEF FlushInv
<1>6. ExitInv'
  BY DEF ExitInv, StageInv
<1> QED
  BY <1>1, <1>2, <1>3, <1>4, <1>5, <1>6

LEMMA HandlerClosesKeeps ==
  ASSUME TaskInv, HostInv, HandlerCloses
  PROVE  HostInv'
<1> USE DEF HandlerCloses
<1>1. HostTypeOK'
  OBVIOUS
<1>2. BudgetInv'
  BY <1>1 DEF BudgetInv, SpentBefore, SpentOnClients, StageInv
<1>3. StageInv'
  BY DEF StageInv, Accepting, OpenExchanges, Strays
<1>4. UnhurriedInv'
  BY DEF StageInv, Accepting, OpenExchanges, Strays, UnhurriedInv, FlushInv
<1>5. FlushInv'
  BY DEF FlushInv
<1>6. ExitInv'
  BY DEF ExitInv, StageInv
<1> QED
  BY <1>1, <1>2, <1>3, <1>4, <1>5, <1>6

LEMMA McpClosedKeeps ==
  ASSUME TaskInv, HostInv, McpClosed
  PROVE  HostInv'
<1> USE DEF McpClosed
<1>1. HostTypeOK'
  OBVIOUS
<1>2. BudgetInv'
  BY <1>1 DEF BudgetInv, SpentBefore, SpentOnClients, StageInv
<1>3. StageInv'
  BY DEF StageInv, Accepting, OpenExchanges, Strays
<1>4. UnhurriedInv'
  BY DEF StageInv, Accepting, OpenExchanges, Strays, UnhurriedInv, FlushInv
<1>5. FlushInv'
  BY DEF FlushInv
<1>6. ExitInv'
  BY DEF ExitInv, StageInv
<1> QED
  BY <1>1, <1>2, <1>3, <1>4, <1>5, <1>6

LEMMA SweepJoinedKeeps ==
  ASSUME TaskInv, HostInv, SweepJoined
  PROVE  HostInv'
<1> USE DEF SweepJoined
<1>1. HostTypeOK'
  OBVIOUS
<1>2. BudgetInv'
  BY <1>1 DEF BudgetInv, SpentBefore, SpentOnClients, StageInv
<1>3. StageInv'
  BY DEF StageInv, Accepting, OpenExchanges, Strays
<1>4. UnhurriedInv'
  BY DEF StageInv, Accepting, OpenExchanges, Strays, UnhurriedInv, FlushInv
<1>5. FlushInv'
  BY DEF FlushInv
<1>6. ExitInv'
  BY DEF ExitInv, StageInv
<1> QED
  BY <1>1, <1>2, <1>3, <1>4, <1>5, <1>6

LEMMA SweepDisconnectedKeeps ==
  ASSUME TaskInv, HostInv, SweepDisconnected
  PROVE  HostInv'
<1> USE DEF SweepDisconnected
<1>1. HostTypeOK'
  OBVIOUS
<1>2. BudgetInv'
  BY <1>1 DEF BudgetInv, SpentBefore, SpentOnClients, StageInv
<1>3. StageInv'
  BY DEF StageInv, Accepting, OpenExchanges, Strays
<1>4. UnhurriedInv'
  BY DEF StageInv, Accepting, OpenExchanges, Strays, UnhurriedInv, FlushInv
<1>5. FlushInv'
  BY DEF FlushInv
<1>6. ExitInv'
  BY DEF ExitInv, StageInv
<1> QED
  BY <1>1, <1>2, <1>3, <1>4, <1>5, <1>6

LEMMA SharedDisconnectedKeeps ==
  ASSUME TaskInv, HostInv, SharedDisconnected
  PROVE  HostInv'
<1> USE DEF SharedDisconnected
<1>1. HostTypeOK'
  OBVIOUS
<1>2. BudgetInv'
  BY <1>1 DEF BudgetInv, SpentBefore, SpentOnClients, StageInv
<1>3. StageInv'
  BY DEF StageInv, Accepting, OpenExchanges, Strays
<1>4. UnhurriedInv'
  BY DEF StageInv, Accepting, OpenExchanges, Strays, UnhurriedInv, FlushInv
<1>5. FlushInv'
  BY DEF FlushInv
<1>6. ExitInv'
  BY DEF ExitInv, StageInv
<1> QED
  BY <1>1, <1>2, <1>3, <1>4, <1>5, <1>6

LEMMA ExitNormallyKeeps ==
  ASSUME TaskInv, HostInv, ExitNormally
  PROVE  HostInv'
<1> USE DEF ExitNormally
<1>1. HostTypeOK'
  OBVIOUS
<1>2. BudgetInv'
  BY <1>1 DEF BudgetInv, SpentBefore, SpentOnClients, StageInv
<1>3. StageInv'
  BY DEF StageInv, Accepting, OpenExchanges, Strays
<1>4. UnhurriedInv'
  BY DEF StageInv, Accepting, OpenExchanges, Strays, UnhurriedInv, FlushInv
<1>5. FlushInv'
  BY DEF FlushInv
<1>6. ExitInv'
  BY DEF ExitInv, StageInv
<1> QED
  BY <1>1, <1>2, <1>3, <1>4, <1>5, <1>6

LEMMA WatchdogExitsKeeps ==
  ASSUME TaskInv, HostInv, WatchdogExits
  PROVE  HostInv'
<1> USE DEF WatchdogExits, WatchdogDue
<1>1. HostTypeOK'
  OBVIOUS
<1>2. BudgetInv'
  BY <1>1 DEF BudgetInv, SpentBefore, SpentOnClients, StageInv
<1>3. StageInv'
  BY DEF StageInv, Accepting, OpenExchanges, Strays
<1>4. UnhurriedInv'
  BY DEF StageInv, Accepting, OpenExchanges, Strays, UnhurriedInv, FlushInv
<1>5. FlushInv'
  BY DEF FlushInv
<1>6. ExitInv'
  BY DEF ExitInv, StageInv, BudgetInv, SpentBefore, SpentOnClients, ProcessShutdown
<1> QED
  BY <1>1, <1>2, <1>3, <1>4, <1>5, <1>6

LEMMA LeaseReleasedKeeps ==
  ASSUME TaskInv, HostInv, NEW r \in Requests, LeaseReleased(r)
  PROVE  HostInv'
<1> USE DEF LeaseReleased
<1>1. HostTypeOK'
  OBVIOUS
<1>2. BudgetInv'
  BY <1>1 DEF BudgetInv, SpentBefore, SpentOnClients, StageInv
<1>3. StageInv'
  BY DEF StageInv, Accepting, OpenExchanges, Strays
<1>4. UnhurriedInv'
  BY DEF StageInv, Accepting, OpenExchanges, Strays, UnhurriedInv, FlushInv
<1>5. FlushInv'
  BY DEF FlushInv
<1>6. ExitInv'
  BY DEF ExitInv, StageInv
<1> QED
  BY <1>1, <1>2, <1>3, <1>4, <1>5, <1>6

-----------------------------------------------------------------------------
(***************************************************************************)
(* The theorems.                                                           *)
(***************************************************************************)
ShutdownInv == TaskInv /\ HostInv

LEMMA ShutdownStep ==
  ASSUME ShutdownInv, [ShutdownNext]_shutdownVars
  PROVE  ShutdownInv'
<1> USE DEF ShutdownInv
<1>1. CASE TaskStep
  BY <1>1, TaskStepKeeps, TaskStepKeepsHost DEF TaskStep
<1>2. CASE Signal
  BY <1>2, SignalKeeps, StopStep DEF Signal
<1>3. ASSUME UNCHANGED taskVars PROVE TaskInv'
  BY <1>3 DEF TaskInv, TaskTypeOK, LoopInv, ProbeInv, HolderInv, CallerInv, OwedAPass, StopInv,
              Pending
<1>4. CASE Serve
  BY <1>3, <1>4, ServeKeeps DEF Serve
<1>5. CASE JobsStopped
  BY <1>3, <1>5, JobsStoppedKeeps DEF JobsStopped
<1>6. CASE BrowsersClosed
  BY <1>3, <1>6, BrowsersClosedKeeps DEF BrowsersClosed
<1>7. CASE Drained
  BY <1>3, <1>7, DrainedKeeps DEF Drained
<1>8. CASE FlushBegins
  BY <1>3, <1>8, FlushBeginsKeeps DEF FlushBegins
<1>9. CASE FlushEnds
  BY <1>3, <1>9, FlushEndsKeeps DEF FlushEnds
<1>10. CASE RelayClosed
  BY <1>3, <1>10, RelayClosedKeeps DEF RelayClosed
<1>11. CASE RuntimesClosed
  BY <1>3, <1>11, RuntimesClosedKeeps DEF RuntimesClosed
<1>12. CASE HandlerCloses
  BY <1>3, <1>12, HandlerClosesKeeps DEF HandlerCloses
<1>13. CASE McpClosed
  BY <1>3, <1>13, McpClosedKeeps DEF McpClosed
<1>14. CASE SweepJoined
  BY <1>3, <1>14, SweepJoinedKeeps DEF SweepJoined
<1>15. CASE SweepDisconnected
  BY <1>3, <1>15, SweepDisconnectedKeeps DEF SweepDisconnected
<1>16. CASE SharedDisconnected
  BY <1>3, <1>16, SharedDisconnectedKeeps DEF SharedDisconnected
<1>17. CASE ExitNormally
  BY <1>3, <1>17, ExitNormallyKeeps DEF ExitNormally
<1>18. CASE WatchdogExits
  BY <1>3, <1>18, WatchdogExitsKeeps DEF WatchdogExits
<1>19. ASSUME NEW r \in Requests, LeaseReleased(r) PROVE ShutdownInv'
  BY <1>3, <1>19, LeaseReleasedKeeps DEF LeaseReleased
<1>20. CASE UNCHANGED shutdownVars
  BY <1>3, <1>20, TaskStepKeepsHost DEF shutdownVars, StopperKept
<1> QED
  BY Zenon, <1>1, <1>2, <1>4, <1>5, <1>6, <1>7, <1>8, <1>9, <1>10, <1>11, <1>12, <1>13, <1>14, <1>15,
     <1>16, <1>17, <1>18, <1>19, <1>20 DEF ShutdownNext, Sequence

\* What both components keep in every state of a server that serves and shuts down.
THEOREM ShutdownInvariant == ShutdownSpec => []ShutdownInv
<1>1. ShutdownInit => ShutdownInv
  BY TaskInitial, HostInitial DEF ShutdownInit, ShutdownInv
<1>2. ShutdownInv /\ [ShutdownNext]_shutdownVars => ShutdownInv'
  BY ShutdownStep
<1> QED
  BY <1>1, <1>2, PTL DEF ShutdownSpec

\* A promise of trigger(), and a runOnce(), is settled only by a pass that started
\* after the call (serial-task.ts), for any number of calls that overtake each other.
THEOREM PassesFollowCalls == ShutdownSpec => []PassAfterCall
<1>1. ShutdownInv => PassAfterCall
  BY DEF ShutdownInv, TaskInv, CallerInv, ProbeInv, OwedAPass, PassAfterCall
<1> QED
  BY <1>1, ShutdownInvariant, PTL

\* No promise of the task is stranded: what closes it runs or is scheduled.
THEOREM PromisesAreServed == ShutdownSpec => []NoPromiseStranded
<1>1. ShutdownInv => NoPromiseStranded
  BY DEF ShutdownInv, TaskInv, LoopInv, ProbeInv, HolderInv, Pending, NoPromiseStranded
<1> QED
  BY <1>1, ShutdownInvariant, PTL

\* A shutdown in which no deadline ran out leaves no socket, lease, exchange, pass or
\* tick behind, and no audit event recorded before the flush is dropped by the fence.
THEOREM CleanShutdown == ShutdownSpec => []CleanExit
<1>1. ShutdownInv => CleanExit
  BY DEF ShutdownInv, TaskInv, StopInv, StageInv, UnhurriedInv, ExitInv, Accepting, CleanExit
<1> QED
  BY <1>1, ShutdownInvariant, PTL

\* The deadlines add up to less than the watchdog's: status 1 is only for the MCP
\* handler's close, which has none.
THEOREM WatchdogIsForTheUnbounded == ShutdownSpec => []WatchdogOnlyForTheUnbounded
<1>1. ShutdownInv => WatchdogOnlyForTheUnbounded
  BY DEF ShutdownInv, ExitInv, WatchdogOnlyForTheUnbounded
<1> QED
  BY <1>1, ShutdownInvariant, PTL
=============================================================================
