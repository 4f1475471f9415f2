----------------------------- MODULE SerialTask -----------------------------
(***************************************************************************)
(* The single-flight background task every periodic job of the server runs *)
(* on (apps/server/src/serial-task.ts, createSerialTask): at most one pass *)
(* at a time, triggers that land during a pass, an optional minimum gap    *)
(* that defers every pass behind a timer, follow-up and interval timers,   *)
(* runOnce() probes, and stop().                                           *)
(*                                                                         *)
(* A promise the task hands out is an entry of wait: the promise of the    *)
(* current busy period is shared by its holders, and closeBusy settles     *)
(* them together.  Pass numbers are the code's own counter.                *)
(***************************************************************************)
EXTENDS Naturals, FiniteSets

CONSTANTS
    Callers,        \* callers of trigger(), one call each
    Stopper,        \* the caller of stop()
    Probes,         \* calls of runOnce()
    MaxTimers       \* bound on the timer and interval triggers of a behaviour

ASSUME TaskAssumption == Stopper \notin Callers /\ MaxTimers \in Nat

VARIABLES
    opts,           \* the options of the task: overlap, gap (minIntervalMs), interval
    phase,          \* state.phase
    next,           \* idle: the follow-up timer is armed
    inPass,         \* a pass runs
    passes,         \* how many passes have started
    probe,          \* probe: "none", [after], [after, by] once settled
    busy,           \* the busy promise exists
    wait,           \* the promise each caller holds: none, waiting, settled
    asked,          \* passes started when the caller called
    timers          \* timer triggers so far

taskVars == <<opts, phase, next, inPass, passes, probe, busy, wait, asked, timers>>

Holders == Callers \cup {Stopper}
Pending == {p \in Probes : probe[p].state = "waiting"}

TaskInit ==
    /\ opts \in [overlap : {"rerun", "drop"}, gap : BOOLEAN, interval : BOOLEAN]
    /\ phase = "idle" /\ next = FALSE /\ inPass = FALSE /\ passes = 0
    /\ probe = [p \in Probes |-> [state |-> "none", after |-> 0, by |-> 0]]
    /\ busy = FALSE
    /\ wait = [h \in Holders |-> "none"]
    /\ asked = [h \in Holders |-> 0]
    /\ timers = 0

(***************************************************************************)
(* Steps of the loop.                                                      *)
(***************************************************************************)
StartPass ==
    /\ phase' = IF phase = "stopped" THEN "stopped" ELSE "running"
    /\ inPass' = TRUE
    /\ passes' = passes + 1

StartStoppedPass ==
    /\ phase' = "stopped" /\ inPass' = TRUE /\ passes' = passes + 1

Schedule == phase' = "scheduled" /\ inPass' = FALSE /\ UNCHANGED passes

\* closeBusy: every holder of the promise of this busy period is settled.
Settled(w) == [h \in Holders |-> IF w[h] = "waiting" THEN "settled" ELSE w[h]]

CloseBusy(w) == busy' = FALSE /\ wait' = Settled(w)

OpenBusy(w) == busy' = TRUE /\ wait' = w

\* trigger() once the caller's promise is known: w is wait with the caller in it.
TriggerFrom(w) ==
    \/ /\ phase \in {"scheduled", "running_rerun"}
       /\ OpenBusy(w)
       /\ UNCHANGED <<phase, next, inPass, passes>>
    \/ /\ phase = "running"
       /\ phase' = IF opts.overlap = "rerun" THEN "running_rerun" ELSE "running"
       /\ OpenBusy(w)
       /\ UNCHANGED <<next, inPass, passes>>
    \/ /\ phase = "idle"
       /\ next' = FALSE
       /\ OpenBusy(w)
       /\ IF opts.gap THEN Schedule ELSE StartPass

(***************************************************************************)
(* Calls.                                                                  *)
(***************************************************************************)
Trigger(c) ==
    /\ wait[c] = "none"
    /\ asked' = [asked EXCEPT ![c] = passes]
    /\ \/ /\ phase = "stopped"
          /\ wait' = [wait EXCEPT ![c] = "settled"]
          /\ UNCHANGED <<phase, next, inPass, passes, busy>>
       \/ TriggerFrom([wait EXCEPT ![c] = "waiting"])
    /\ UNCHANGED <<opts, probe, timers>>

\* The interval's and the follow-up timer's triggers: nobody holds the promise.
TimerTrigger ==
    /\ timers < MaxTimers
    /\ opts.interval \/ (phase = "idle" /\ next)
    /\ timers' = timers + 1
    /\ TriggerFrom(wait)
    /\ UNCHANGED <<opts, probe, asked>>

\* schedule()'s timer fires; a stop or a later schedule has cleared it.
ScheduledFires ==
    /\ phase = "scheduled"
    /\ StartPass
    /\ UNCHANGED <<opts, next, probe, busy, wait, asked, timers>>

RunOnce(p) ==
    /\ probe[p].state = "none"
    /\ probe' = [probe EXCEPT ![p] = [state |-> "waiting", after |-> passes, by |-> 0]]
    /\ \/ phase = "idle" /\ TriggerFrom(wait)
       \/ /\ phase = "stopped" /\ ~inPass
          /\ OpenBusy(wait)
          /\ StartStoppedPass
          /\ UNCHANGED next
       \/ /\ phase # "idle"
          /\ phase = "stopped" => inPass
          /\ UNCHANGED <<phase, next, inPass, passes, busy, wait>>
    /\ UNCHANGED <<opts, asked, timers>>

\* Mutant: the pass under way when runOnce() was called serves it.
Served_ByCurrent(p) == probe[p].state = "waiting" /\ probe[p].after <= passes

Served(p) == probe[p].state = "waiting" /\ probe[p].after < passes

\* settleProbes: the probes made before this pass started are settled by it.
SettleProbes ==
    probe' = [p \in Probes |->
                IF Served(p) THEN [probe[p] EXCEPT !.state = "settled", !.by = passes]
                             ELSE probe[p]]

\* A pass ends (an error is reported and changes nothing else).
PassEnds ==
    /\ inPass
    /\ SettleProbes
    /\ LET left == {p \in Pending : ~Served(p)} IN
       \/ /\ phase = "stopped" /\ left # {}
          /\ StartStoppedPass
          /\ UNCHANGED <<next, busy, wait>>
       \/ /\ phase = "stopped" /\ left = {}
          /\ inPass' = FALSE
          /\ CloseBusy(wait)
          /\ UNCHANGED <<phase, next, passes>>
       \/ /\ phase # "stopped" /\ (phase = "running_rerun" \/ left # {})
          /\ IF opts.gap THEN Schedule ELSE StartPass
          /\ UNCHANGED <<next, busy, wait>>
       \/ /\ phase = "running" /\ left = {}
          /\ phase' = "idle" /\ inPass' = FALSE
          /\ next' \in BOOLEAN
          /\ CloseBusy(wait)
          /\ UNCHANGED passes
    /\ UNCHANGED <<opts, asked, timers>>

\* Mutant: a scheduled pass is dropped with the probe that waits for it.
Stop_DropsProbe ==
    LET w == [wait EXCEPT ![Stopper] = IF busy THEN "waiting" ELSE "settled"] IN
    /\ wait[Stopper] = "none"
    /\ next' = FALSE
    /\ asked' = [asked EXCEPT ![Stopper] = passes]
    /\ phase' = "stopped"
    /\ IF inPass THEN wait' = w /\ UNCHANGED busy ELSE CloseBusy(w)
    /\ UNCHANGED <<opts, inPass, passes, probe, timers>>

Stop ==
    LET w == [wait EXCEPT ![Stopper] = IF busy THEN "waiting" ELSE "settled"] IN
    /\ wait[Stopper] = "none"
    /\ next' = FALSE
    /\ asked' = [asked EXCEPT ![Stopper] = passes]
    /\ \/ /\ inPass
          /\ phase' = "stopped" /\ wait' = w
          /\ UNCHANGED <<inPass, passes, busy>>
       \/ /\ ~inPass /\ phase = "scheduled" /\ Pending # {}
          /\ StartStoppedPass
          /\ wait' = w
          /\ UNCHANGED busy
       \/ /\ ~inPass /\ ~(phase = "scheduled" /\ Pending # {})
          /\ phase' = "stopped"
          /\ CloseBusy(w)
          /\ UNCHANGED <<inPass, passes>>
    /\ UNCHANGED <<opts, probe, timers>>

TaskWork == PassEnds \/ ScheduledFires

TaskCalls ==
    \/ \E c \in Callers : Trigger(c)
    \/ \E p \in Probes : RunOnce(p)
    \/ TimerTrigger

=============================================================================
