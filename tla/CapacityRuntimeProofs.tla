------------------------ MODULE CapacityRuntimeProofs ------------------------
(***************************************************************************)
(* The safety of lease ownership, and of one model request on its lease,   *)
(* for every TTL, interval, backoff, margin, number of release attempts,   *)
(* timer lateness and query duration.                                      *)
(***************************************************************************)
EXTENDS CapacityRuntime, TLAPS

(***************************************************************************)
(* The lease owner (LeaseOwner's Spec).                                    *)
(*                                                                         *)
(* AuthorityCovered is not inductive: a heartbeat that has executed but    *)
(* not yet answered will raise the owner's authority, so the row must      *)
(* already cover what that answer will acknowledge (the second conjunct of *)
(* Covered); and OverlapBounded needs the watchdog to be armed for exactly *)
(* the acknowledged time.                                                  *)
(***************************************************************************)
Covered ==
  /\ owner = "holding" => authority <= ttl
  /\ phase = "done" => Acknowledged <= ttl
  /\ row = "RECLAIMED" => ttl = 0
  /\ row # "RECLAIMED" => reclaimedFor = 0
  /\ owner = "holding" => authority <= -reclaimedFor \/ row # "RECLAIMED"

WatchdogArmed == Owning => watchdog = authority

BackoffFits ==
  /\ phase = "backoff" => authority > timer + Margin /\ timer >= -Lateness /\ Owning
  /\ InFlight => timer >= 0

IInv == TypeOK /\ Covered /\ WatchdogArmed /\ BackoffFits /\ RetryLeavesRoom

LEMMA InitEstablishes == Init => IInv
  BY OwnerAssumption DEF Init, IInv, TypeOK, Stopped, Lost, Phases, Covered, WatchdogArmed,
     BackoffFits, RetryLeavesRoom, Owning, InFlight

LEMMA DelayIsPositive ==
  ASSUME NEW r \in 0 .. Len(Delays)
  PROVE  RetryDelay(r) \in Nat \ {0}
  BY OwnerAssumption DEF RetryDelay

(* The steps of the database. *)
LEMMA DatabasePreserves ==
  ASSUME IInv, ExecuteHeartbeat \/ ExecuteStray \/ Reclaim \/ OrphanRelease
  PROVE  IInv'
<1> USE OwnerAssumption DEF IInv, dbVars, clockVars, callVars
<1>1. CASE ExecuteHeartbeat
  <2>1. TypeOK'
    BY <1>1 DEF TypeOK, ExecuteHeartbeat, Renew, Renewable, Phases
  <2>2. Covered'
    BY <1>1 DEF TypeOK, Covered, ExecuteHeartbeat, Renew, Renewable, BackoffFits, InFlight, Acknowledged
  <2>3. WatchdogArmed' /\ BackoffFits' /\ RetryLeavesRoom'
    BY <1>1 DEF TypeOK, WatchdogArmed, BackoffFits, RetryLeavesRoom, ExecuteHeartbeat, InFlight, Owning
  <2> QED
    BY <2>1, <2>2, <2>3
<1>2. CASE ExecuteStray
  <2>1. TypeOK'
    BY <1>2 DEF TypeOK, ExecuteStray, Renew, Renewable
  <2>2. Covered'
    BY <1>2 DEF TypeOK, Covered, ExecuteStray, Renew, Renewable, BackoffFits, InFlight, Acknowledged
  <2>3. WatchdogArmed' /\ BackoffFits' /\ RetryLeavesRoom'
    BY <1>2 DEF WatchdogArmed, BackoffFits, RetryLeavesRoom, ExecuteStray, InFlight, Owning
  <2> QED
    BY <2>1, <2>2, <2>3
<1>3. CASE Reclaim \/ OrphanRelease
  <2>1. TypeOK'
    BY Zenon, <1>3 DEF TypeOK, Reclaim, OrphanRelease
  <2>2. Covered'
    BY SMTT(30), <1>3 DEF TypeOK, Covered, Reclaim, OrphanRelease, Acknowledged
  <2>3. WatchdogArmed' /\ BackoffFits' /\ RetryLeavesRoom'
    BY <1>3 DEF WatchdogArmed, BackoffFits, RetryLeavesRoom, Reclaim, OrphanRelease, InFlight, Owning
  <2> QED
    BY <2>1, <2>2, <2>3
<1> QED
  BY <1>1, <1>2, <1>3

(* The steps of the owner. *)
LEMMA OwnerPreserves ==
  ASSUME IInv, Release \/ Watchdog \/ BeatTimer \/ Answered \/ Threw \/ BackoffOver \/ TryRelease \/ Crash
  PROVE  IInv'
<1> USE OwnerAssumption DEF IInv, dbVars, clockVars, callVars
<1>1. CASE Release \/ Watchdog
  <2>0. owner' \in Stopped /\ phase' \in Phases /\ timer' \in Int
    BY <1>1 DEF TypeOK, Release, Watchdog, Stop, CallEnds, ClocksEnd, Stopped, Lost, Phases
  <2>1. TypeOK'
    BY SMTT(30), <1>1, <2>0 DEF TypeOK, Release, Watchdog, Stop, ClocksEnd
  <2>2. Covered' /\ WatchdogArmed' /\ BackoffFits' /\ RetryLeavesRoom'
    BY SMTT(30), <1>1 DEF TypeOK, Covered, WatchdogArmed, BackoffFits, RetryLeavesRoom, Release, Watchdog,
       Stop, CallEnds, ClocksEnd, InFlight, Owning, Acknowledged
  <2> QED
    BY <2>1, <2>2
<1>2. CASE BeatTimer
  <2>1. TypeOK'
    BY <1>2 DEF TypeOK, BeatTimer, Phases
  <2>2. Covered' /\ WatchdogArmed' /\ BackoffFits' /\ RetryLeavesRoom'
    BY <1>2 DEF TypeOK, Covered, WatchdogArmed, BackoffFits, RetryLeavesRoom, BeatTimer,
       InFlight, Owning, Acknowledged
  <2> QED
    BY <2>1, <2>2
<1>3. CASE Answered
  <2>1. TypeOK'
    BY SMTT(30), <1>3 DEF TypeOK, Answered, CallEnds, ClocksEnd, Stopped, Lost, Phases, Owning, Acknowledged, Rearmed,
       BackoffFits, InFlight
  <2>2. Covered'
    BY <1>3 DEF TypeOK, Covered, Answered, CallEnds, ClocksEnd, Owning, Acknowledged
  <2>3. WatchdogArmed' /\ BackoffFits' /\ RetryLeavesRoom'
    BY <1>3 DEF TypeOK, WatchdogArmed, BackoffFits, RetryLeavesRoom, Answered, CallEnds, ClocksEnd, InFlight,
       Owning, Acknowledged, Rearmed
  <2> QED
    BY <2>1, <2>2, <2>3
<1>4. CASE Threw
  <2>1. RetryDelay(retry) \in Nat \ {0}
    BY DelayIsPositive DEF TypeOK
  <2>2. stray' \in 0 .. MaxStray
    BY SMTT(30), <1>4 DEF TypeOK, Threw, LeavesStray
  <2>3. TypeOK'
    BY SMTT(30), <1>4, <2>1, <2>2 DEF TypeOK, Threw, CallEnds, ClocksEnd, Stopped, Lost, Phases
  <2>4. Covered'
    BY <1>4 DEF TypeOK, Covered, Threw, CallEnds, ClocksEnd, Owning, Acknowledged
  <2>5. WatchdogArmed' /\ BackoffFits' /\ RetryLeavesRoom'
    BY SMTT(30), <1>4, <2>1 DEF TypeOK, WatchdogArmed, BackoffFits, RetryLeavesRoom, Threw, CallEnds, ClocksEnd,
       InFlight, Owning, RetryFits
  <2> QED
    BY <2>3, <2>4, <2>5
<1>5. CASE BackoffOver
  <2>1. TypeOK'
    BY <1>5 DEF TypeOK, BackoffOver, Least, Phases
  <2>2. Covered' /\ WatchdogArmed'
    BY <1>5 DEF TypeOK, Covered, WatchdogArmed, BackoffOver, Owning, Acknowledged
  <2>3. BackoffFits' /\ RetryLeavesRoom'
    BY <1>5 DEF TypeOK, BackoffFits, RetryLeavesRoom, BackoffOver, InFlight, Owning
  <2> QED
    BY <2>1, <2>2, <2>3
<1>6. CASE TryRelease
  <2>1. TypeOK'
    BY <1>6 DEF TypeOK, TryRelease, MoreTries
  <2>2. Covered' /\ WatchdogArmed' /\ BackoffFits' /\ RetryLeavesRoom'
    BY <1>6 DEF TypeOK, Covered, WatchdogArmed, BackoffFits, RetryLeavesRoom, TryRelease,
       Stopped, Lost, InFlight, Owning, Acknowledged
  <2> QED
    BY <2>1, <2>2
<1>7. CASE Crash
  <2>1. TypeOK'
    BY <1>7 DEF TypeOK, Crash, LeavesStray, CallEnds, ClocksEnd, Phases
  <2>2. Covered' /\ WatchdogArmed' /\ BackoffFits' /\ RetryLeavesRoom'
    BY <1>7 DEF TypeOK, Covered, WatchdogArmed, BackoffFits, RetryLeavesRoom, Crash, CallEnds, ClocksEnd,
       InFlight, Owning, Acknowledged
  <2> QED
    BY <2>1, <2>2
<1> QED
  BY <1>1, <1>2, <1>3, <1>4, <1>5, <1>6, <1>7

(* Time passes: what covers and what is covered shrink together. *)
LEMMA TickPreserves ==
  ASSUME IInv, Tick
  PROVE  IInv'
<1> USE OwnerAssumption DEF IInv, Tick
<1>1. TypeOK'
  BY DEF TypeOK, Punctual, Owning, Beating, Least
<1>2. Covered'
  BY DEF TypeOK, Covered, Owning, InFlight, Acknowledged, Least
<1>3. WatchdogArmed' /\ BackoffFits' /\ RetryLeavesRoom'
  BY DEF TypeOK, WatchdogArmed, BackoffFits, RetryLeavesRoom, Owning, InFlight, Punctual
<1> QED
  BY <1>1, <1>2, <1>3

\* The inductive invariant of lease ownership.
THEOREM Invariance == Spec => []IInv
<1>1. Init => IInv
  BY InitEstablishes
<1>2. IInv /\ [Next]_vars => IInv'
  <2> SUFFICES ASSUME IInv, [Next]_vars PROVE IInv'
    OBVIOUS
  <2>1. CASE UNCHANGED vars
    BY <2>1 DEF vars, dbVars, clockVars, callVars, IInv, TypeOK, Covered, WatchdogArmed, BackoffFits, RetryLeavesRoom,
       Owning, InFlight, Acknowledged
  <2> QED
    BY <2>1, DatabasePreserves, OwnerPreserves, TickPreserves DEF Next
<1> QED
  BY <1>1, <1>2, PTL DEF Spec

\* Owner, row and heartbeat stay well formed.
THEOREM Typing == Spec => []TypeOK
<1>1. IInv => TypeOK
  BY DEF IInv
<1> QED
  BY <1>1, Invariance, PTL

\* An owner that believes its lease covers it is right, whatever the delays
\* and failures of its heartbeats.
THEOREM OwnerIsCovered == Spec => []AuthorityCovered
<1>1. IInv => AuthorityCovered
  BY DEF IInv, Covered, AuthorityCovered, TypeOK
<1> QED
  BY <1>1, Invariance, PTL

\* A reclaimed slot is shared with its old owner for at most the lateness of
\* that owner's watchdog.
THEOREM OverlapIsBounded == Spec => []OverlapBounded
<1>1. ASSUME IInv PROVE OverlapBounded
  <2>1. owner = "holding" => authority >= -Lateness
    BY <1>1, OwnerAssumption DEF IInv, TypeOK, WatchdogArmed, Owning
  <2> QED
    BY <1>1, <2>1, OwnerAssumption DEF IInv, TypeOK, Covered, OverlapBounded
<1> QED
  BY <1>1, Invariance, PTL

\* Every retried heartbeat starts with its margin left.
THEOREM RetriesLeaveRoom == Spec => []RetryLeavesRoom
<1>1. IInv => RetryLeavesRoom
  BY DEF IInv
<1> QED
  BY <1>1, Invariance, PTL

(***************************************************************************)
(* One error is tolerated because a first attempt starts with most of the  *)
(* TTL left: at most an interval and the query before it have been used.   *)
(***************************************************************************)
Prompt ==
  /\ InFlight => timer <= QueryBound
  /\ Owning /\ phase = "idle" => authority >= Extension - QueryBound - Interval + beat
  /\ Owning /\ InFlight /\ retry = 0
       => authority + timer >= Extension - QueryBound - Interval - Lateness

LEMMA AnsweredPrompt ==
  ASSUME IInv, Prompt, Answered
  PROVE  Prompt'
<1>1. /\ ~InFlight' /\ phase' = "idle" /\ beat \in Int /\ beat <= Interval
      /\ Owning' => beat' = beat
  BY OwnerAssumption DEF Answered, CallEnds, ClocksEnd, InFlight, IInv, TypeOK, Owning, clockVars
<1>2. Owning' => authority' = Extension - timer /\ timer \in Int /\ timer <= QueryBound
  BY DEF Answered, Owning, Acknowledged, Prompt, InFlight, IInv, TypeOK
<1> QED
  BY <1>1, <1>2, OwnerAssumption DEF Prompt

LEMMA StepsPrompt ==
  ASSUME IInv, Prompt, [Next]_vars
  PROVE  Prompt'
<1> USE OwnerAssumption DEF dbVars, clockVars, callVars
<1>1. CASE ExecuteHeartbeat \/ ExecuteStray \/ Reclaim \/ OrphanRelease
  BY <1>1 DEF Prompt, ExecuteHeartbeat, ExecuteStray, Reclaim, OrphanRelease, InFlight, Owning
<1>2. CASE Release \/ Watchdog
  BY <1>2 DEF Prompt, Release, Watchdog, Stop, CallEnds, ClocksEnd, InFlight, Owning
<1>3. CASE BeatTimer
  BY <1>3 DEF Prompt, IInv, TypeOK, BeatTimer, Beating, InFlight, Owning, Phases
<1>4. CASE Answered
  BY <1>4, AnsweredPrompt
<1>5. CASE Threw
  BY <1>5 DEF Prompt, Threw, CallEnds, ClocksEnd, InFlight, Owning
<1>6. CASE BackoffOver
  BY <1>6 DEF Prompt, IInv, TypeOK, BackoffOver, Least, InFlight, Owning
<1>7. CASE TryRelease \/ Crash
  BY <1>7 DEF Prompt, TryRelease, Crash, CallEnds, ClocksEnd, Stopped, Lost, InFlight, Owning
<1>8. CASE Tick
  BY <1>8 DEF Prompt, IInv, TypeOK, Tick, Punctual, Beating, InFlight, Owning
<1>9. CASE UNCHANGED vars
  BY <1>9 DEF vars, Prompt, InFlight, Owning
<1> QED
  BY <1>1, <1>2, <1>3, <1>4, <1>5, <1>6, <1>7, <1>8, <1>9 DEF Next

LEMMA StepsTolerate ==
  ASSUME IInv, Prompt, OneErrorTolerated, [Next]_vars
  PROVE  OneErrorTolerated'
<1> USE DEF dbVars, clockVars, callVars
<1>1. SUFFICES ASSUME HealthyDatabase, owner' = "heartbeat_failed"
               PROVE  retry' > 0
  BY DEF OneErrorTolerated, HealthyDatabase, RetryDelay
<1>2. CASE owner = "heartbeat_failed"
  <2>1. retry > 0
    BY <1>1, <1>2 DEF OneErrorTolerated
  <2>2. retry' = retry
    BY <1>2 DEF Next, vars, ExecuteHeartbeat, ExecuteStray, Reclaim, OrphanRelease, Release, Watchdog,
       BeatTimer, Beating, Answered, Threw, BackoffOver, TryRelease, Crash, Tick, Owning, Stop
  <2> QED
    BY <2>1, <2>2
<1>3. CASE owner # "heartbeat_failed"
  <2>1. Threw /\ Owning /\ ~RetryFits(RetryDelay(retry))
    BY <1>1, <1>3 DEF Next, vars, ExecuteHeartbeat, ExecuteStray, Reclaim, OrphanRelease, Release,
       Watchdog, BeatTimer, Answered, Threw, BackoffOver, TryRelease, Crash, Tick, Stop
  <2>2. retry \in Nat /\ authority \in Int /\ timer \in Int /\ retry' = retry
    BY <2>1, OwnerAssumption DEF IInv, TypeOK, Threw
  <2>3. RetryDelay(0) \in Nat
    BY DelayIsPositive, OwnerAssumption
  <2>4. ASSUME retry = 0
        PROVE  FALSE
    <3>1. authority + timer >= Extension - QueryBound - Interval - Lateness /\ timer <= QueryBound
      BY <2>1, <2>4 DEF Threw, Prompt
    <3>2. authority > RetryDelay(0) + Margin
      BY <1>1, <2>2, <2>3, <3>1, OwnerAssumption DEF HealthyDatabase
    <3> QED
      BY <2>1, <2>4, <3>2 DEF RetryFits
  <2> QED
    BY <2>2, <2>4
<1> QED
  BY <1>2, <1>3

\* One transient heartbeat error never costs the lease: when queries are short
\* against the TTL, only a retried heartbeat gives up (the retry loop of heartbeat).
THEOREM OneErrorIsTolerated == Spec => []OneErrorTolerated
<1>1. Init => Prompt /\ OneErrorTolerated
  BY OwnerAssumption DEF Init, Prompt, OneErrorTolerated, InFlight, Owning
<1>2. IInv /\ Prompt /\ OneErrorTolerated /\ [Next]_vars => (Prompt /\ OneErrorTolerated)'
  BY StepsPrompt, StepsTolerate
<1> QED
  BY <1>1, <1>2, Invariance, PTL DEF Spec

(***************************************************************************)
(* The request (CapacityRuntime's RuntimeSpec).                            *)
(*                                                                         *)
(* While the request has an owner, its lease takes the steps of LeaseOwner *)
(* and no others, so the lease owner's inductive invariant carries over    *)
(* (LiveInv); before it, the queue row and the place in acquire decide     *)
(* what an answer may leave behind (PcInv).                                *)
(***************************************************************************)
\* The owner exists, and its process too.
Live == owner \notin {"none", "crashed"}

\* The lease with or without an owner; a lease row exists exactly with an admission.
RowInv ==
  /\ row \in {"NONE", "ACTIVE", "RELEASED", "RECLAIMED"}
  /\ ttl \in 0 .. Extension
  /\ reclaimedFor \in 0 .. Lateness + 1
  /\ row = "RECLAIMED" => ttl = 0
  /\ row # "RECLAIMED" => reclaimedFor = 0
  /\ request \in {"ABSENT", "WAITING", "ADMITTED", "CANCELLED", "EXPIRED"}
  /\ row = "NONE" <=> request # "ADMITTED"

LiveInv ==
  /\ owner \in {"none", "confirming", "holding", "crashed"} \cup Stopped
  /\ stray \in 0 .. MaxStray
  /\ owner = "none" => phase = "idle" /\ timer = 0 /\ retry = 0 /\ tries = 0
  /\ owner = "crashed" => phase = "idle"
  /\ Live => IInv

\* acquire, before adopt.
Searching == {"start", "acquire", "poll", "wait", "decide", "terminalize", "final", "raced",
              "catch", "catchRelease", "adopt"}

PcInv ==
  /\ pc \in Searching \cup {"confirm", "undo", "answered", "dispatch", "letgo", "served", "dead"}
  /\ pc \in Searching => owner = "none" /\ answer = "NONE"
  /\ pc \in {"confirm", "undo"} => Live
  /\ pc = "start" => request = "ABSENT"
  /\ pc \in {"raced", "catchRelease", "adopt"} => request = "ADMITTED"
  /\ Live => request = "ADMITTED"
  /\ pc = "decide" /\ result = "ADMITTED" => request = "ADMITTED"
  /\ pc = "decide" /\ result = "EXPIRED" => request \notin {"ABSENT", "WAITING"}
  /\ pc \in {"terminalize", "final", "raced"} => terminal \in {"CANCELLED", "EXPIRED"}
  /\ pc = "final" /\ terminal = "EXPIRED" => request \notin {"ABSENT", "WAITING"}
  /\ scope # "open" => pc = "served"
  /\ pc # "served" => body = "none"

\* A held response has its owner, one that ended cleanly has released it.
BodyInv ==
  /\ body = "held" => Owning
  /\ body = "finishing" => owner = "released"
  /\ body \in {"bare", "bare_cancel"} => outcome = "forgotten"
  /\ body \in {"ended", "eof"} /\ outcome # "forgotten" => owner = "released" /\ ~MoreTries
  /\ body = "eof" => scope # "open"

RuntimeInv == RowInv /\ LiveInv /\ PcInv /\ BodyInv /\ NoLateAdmission /\ NoOwnerOutlives

-----------------------------------------------------------------------------
(***************************************************************************)
(* The lease.  Whatever step it takes, its owner stops at most once, a     *)
(* lease is not granted again and a release that is over stays over.       *)
(***************************************************************************)
LeaseMoves ==
  /\ owner' = owner \/ (Owning /\ owner' \in Stopped \cup {"holding"})
  /\ row' = "ACTIVE" => row = "ACTIVE"
  /\ ~MoreTries => ~MoreTries'

StopsOwner == \E reason \in Stopped : Owning /\ Stop(reason)

\* release() keeps LeaseOwner's invariant for every reason it may be given.
LEMMA StopKeeps ==
  ASSUME IInv, NEW reason \in Stopped, Owning, Stop(reason)
  PROVE  IInv'
<1> USE OwnerAssumption DEF IInv, dbVars, clockVars, callVars
<1>1. phase' \in Phases /\ timer' \in Int
  BY DEF TypeOK, Stop, CallEnds, Phases
<1>2. TypeOK'
  BY <1>1 DEF TypeOK, Stop, ClocksEnd
<1>3. Covered' /\ WatchdogArmed' /\ BackoffFits' /\ RetryLeavesRoom'
  BY DEF TypeOK, Covered, WatchdogArmed, BackoffFits, RetryLeavesRoom, Stop, CallEnds, ClocksEnd,
         InFlight, Owning, Stopped, Lost, Acknowledged
<1> QED
  BY <1>2, <1>3

LEMMA LeaseStutters ==
  ASSUME RowInv, LiveInv, UNCHANGED <<leaseVars, request>>
  PROVE  RowInv' /\ LiveInv' /\ LeaseMoves
<1> USE DEF leaseVars, dbVars, clockVars, callVars
<1>1. RowInv' /\ LeaseMoves
  BY DEF RowInv, LeaseMoves, MoreTries
<1>2. IInv => IInv'
  BY DEF IInv, TypeOK, Covered, WatchdogArmed, BackoffFits, RetryLeavesRoom, Owning, InFlight,
         Acknowledged
<1> QED
  BY <1>1, <1>2 DEF LiveInv, Live

\* The steps of LeaseOwner that do not need an owner.
LEMMA DatabaseMoves ==
  ASSUME RowInv, LiveInv, ExecuteStray \/ Reclaim \/ OrphanRelease \/ Tick, UNCHANGED request
  PROVE  RowInv' /\ LiveInv' /\ LeaseMoves
<1> USE OwnerAssumption DEF dbVars, clockVars, callVars
<1>1. RowInv'
  BY DEF RowInv, ExecuteStray, Reclaim, OrphanRelease, Tick, Renew, Renewable, Least
<1>2. LeaseMoves
  BY DEF LeaseMoves, MoreTries, ExecuteStray, Reclaim, OrphanRelease, Tick, Renew
<1>3. /\ owner' = owner /\ phase' = phase /\ retry' = retry /\ tries' = tries
      /\ owner = "none" => timer' = timer
      /\ stray' \in 0 .. MaxStray
  BY DEF ExecuteStray, Reclaim, OrphanRelease, Tick, LiveInv, InFlight
<1>4. IInv => IInv'
  BY DatabasePreserves, TickPreserves
<1> QED
  BY <1>1, <1>2, <1>3, <1>4 DEF LiveInv, Live

\* The steps of the owner, and of its heartbeat.
LEMMA OwnerMoves ==
  ASSUME RowInv, LiveInv, UNCHANGED request,
         \/ ExecuteHeartbeat \/ Watchdog \/ BeatTimer \/ Answered \/ Threw \/ BackoffOver
         \/ TryRelease \/ StopsOwner
  PROVE  RowInv' /\ LiveInv' /\ LeaseMoves
<1> USE OwnerAssumption DEF dbVars, clockVars, callVars
<1>1. Live
  BY DEF Live, LiveInv, ExecuteHeartbeat, Watchdog, BeatTimer, Beating, Answered, Threw, InFlight,
         BackoffOver, TryRelease, StopsOwner, Owning, Stopped, Lost
<1>2. RowInv'
  BY DEF RowInv, ExecuteHeartbeat, Renew, Renewable, Watchdog, BeatTimer, Answered, Threw, LeavesStray,
         BackoffOver, TryRelease, StopsOwner, Stop
<1>3. LeaseMoves
  <2>1. owner' = owner \/ (Owning /\ owner' \in Stopped \cup {"holding"})
    BY DEF ExecuteHeartbeat, Watchdog, BeatTimer, Answered, Threw, BackoffOver, TryRelease,
           StopsOwner, Stop, Stopped, Lost
  <2>2. row' = "ACTIVE" => row = "ACTIVE"
    BY DEF ExecuteHeartbeat, Renew, Watchdog, BeatTimer, Answered, Threw, BackoffOver, TryRelease,
           StopsOwner, Stop
  <2>3. ~MoreTries => ~MoreTries'
    BY DEF ExecuteHeartbeat, Watchdog, BeatTimer, Answered, Threw, BackoffOver, TryRelease,
           StopsOwner, Stop, MoreTries
  <2> QED
    BY <2>1, <2>2, <2>3 DEF LeaseMoves
<1>4. IInv'
  <2>1. IInv
    BY <1>1 DEF LiveInv
  <2>2. CASE StopsOwner
    <3>1. PICK reason \in Stopped : Owning /\ Stop(reason)
      BY <2>2 DEF StopsOwner
    <3> QED
      BY <2>1, <3>1, StopKeeps
  <2> QED
    BY <2>1, <2>2, DatabasePreserves, OwnerPreserves
<1>5. Live'
  BY <1>1, <1>3 DEF Live, LeaseMoves, Stopped, Lost
<1> QED
  BY <1>2, <1>3, <1>4, <1>5 DEF LiveInv, Live, LeaseMoves, IInv, TypeOK

-----------------------------------------------------------------------------
(***************************************************************************)
(* A step of the lease alone, and the signals that stop its owner.         *)
(***************************************************************************)
USE DEF RuntimeInv, runtimeVars, acquireVars, worldVars, deadlineVars, handlerVars

LEMMA SignalledStep ==
  ASSUME RuntimeInv, LeaseMoves, RowInv', LiveInv', StreamFollows, Signalled' => Signalled \/ ~Owning',
         UNCHANGED <<request, pc, acquireVars, deadlineVars, scope, outcome>>
  PROVE  RuntimeInv'
<1>1. PcInv'
  BY DEF PcInv, LeaseMoves, LiveInv, Live, Searching, StreamFollows, Owning, Stopped, Lost
<1>2. BodyInv'
  BY DEF BodyInv, LeaseMoves, LiveInv, StreamFollows, Owning, Stopped, Lost
<1>3. NoLateAdmission'
  BY DEF NoLateAdmission, LeaseMoves, Owning, Stopped, Lost
<1>4. NoOwnerOutlives'
  BY DEF NoOwnerOutlives, LeaseMoves, Owning, Stopped, Lost
<1> QED
  BY <1>1, <1>2, <1>3, <1>4

LEMMA StopOwnerMoves ==
  ASSUME RowInv, LiveInv, UNCHANGED request, NEW reason \in Stopped, StopOwner(reason)
  PROVE  RowInv' /\ LiveInv' /\ LeaseMoves /\ ~Owning' /\ (Owning => owner' = reason)
<1>1. CASE Owning
  <2>1. StopsOwner /\ owner' = reason
    BY <1>1 DEF StopsOwner, StopOwner, Stop
  <2> QED
    BY <1>1, <2>1, OwnerMoves DEF Owning, Stopped, Lost
<1>2. CASE ~Owning
  BY <1>2, LeaseStutters DEF StopOwner, Owning, leaseVars
<1> QED
  BY <1>1, <1>2

LEMMA LeaseStepKeeps ==
  ASSUME RuntimeInv, LeaseStep
  PROVE  RuntimeInv'
<1>1. /\ UNCHANGED <<request, pc, acquireVars, worldVars, scope, outcome>> /\ StreamFollows
      /\ \/ ExecuteStray \/ Reclaim \/ OrphanRelease \/ Tick
         \/ ExecuteHeartbeat \/ Watchdog \/ BeatTimer \/ Answered \/ Threw \/ BackoffOver
         \/ TryRelease \/ MaxLifetime
  BY DEF LeaseStep, Joint
<1>2. MaxLifetime => StopsOwner
  BY DEF MaxLifetime, StopsOwner, Stopped, Lost
<1>3. RowInv' /\ LiveInv' /\ LeaseMoves
  BY <1>1, <1>2, DatabaseMoves, OwnerMoves
<1>4. Signalled' => Signalled \/ ~Owning'
  BY <1>1 DEF Signalled
<1> QED
  BY <1>1, <1>3, <1>4, SignalledStep

LEMMA AbortKeeps ==
  ASSUME RuntimeInv, Abort \/ CloseRuntime
  PROVE  RuntimeInv'
<1>1. /\ UNCHANGED <<request, pc, acquireVars, deadlineVars, scope, outcome>> /\ StreamFollows
      /\ StopOwner("released")
  BY DEF Abort, CloseRuntime
<1>2. RowInv' /\ LiveInv' /\ LeaseMoves /\ ~Owning'
  BY <1>1, StopOwnerMoves DEF Stopped
<1> QED
  BY <1>1, <1>2, SignalledStep

-----------------------------------------------------------------------------
(***************************************************************************)
(* acquire, before there is an owner.                                      *)
(***************************************************************************)
\* What a query of acquire leaves behind for each answer.
LEMMA AcquireEffectIs ==
  ASSUME RowInv, NEW ans \in {"ADMITTED", "WAITING", "CANCELLED", "EXPIRED"}, AcquireEffect(ans)
  PROVE  /\ RowInv'
         /\ ans = "ADMITTED" => request' = "ADMITTED"
         /\ ans = "EXPIRED" => request' \notin {"ABSENT", "WAITING"}
  BY OwnerAssumption DEF AcquireEffect, GrantRow, RowIs, RowInv, dbVars

\* What terminalizeAttempt answers and leaves behind.
LEMMA TerminalizeEffectIs ==
  ASSUME RowInv, NEW state \in {"CANCELLED", "EXPIRED"}, NEW ans, TerminalizeEffect(state, ans)
  PROVE  /\ RowInv' /\ row' = row
         /\ ans = "ADMITTED" => request' = "ADMITTED"
         /\ ans \notin {"ADMITTED", "WAITING"} => request' # "WAITING" /\ row' # "ACTIVE"
         /\ ans = "WAITING" => request = "WAITING" /\ state = "EXPIRED"
  BY DEF TerminalizeEffect, RowIs, RowInv, dbVars

LEMMA ReleaseEffectIs ==
  ASSUME RowInv, ReleaseEffect
  PROVE  RowInv' /\ row' # "ACTIVE" /\ request' = request
  BY DEF ReleaseEffect, RowInv

\* With no owner, a step of acquire disturbs nothing but the row and its own locals.
LEMMA SearchStep ==
  ASSUME RuntimeInv, pc \in Searching, RowInv', UNCHANGED <<ownerVars, worldVars, handlerVars>>, PcInv',
         answer' \in {"NONE", "THREW"} \/ (request' # "WAITING" /\ row' # "ACTIVE")
  PROVE  RuntimeInv'
<1> USE DEF ownerVars, clockVars, callVars
<1>1. owner = "none"
  BY DEF PcInv
<1>2. LiveInv'
  BY <1>1 DEF LiveInv, Live
<1>3. BodyInv'
  BY DEF BodyInv, Owning, MoreTries
<1>4. NoLateAdmission'
  BY DEF NoLateAdmission
<1>5. NoOwnerOutlives'
  BY DEF NoOwnerOutlives, Owning, Signalled
<1> QED
  BY <1>2, <1>3, <1>4, <1>5

LEMMA BeginKeeps ==
  ASSUME RuntimeInv, Begin
  PROVE  RuntimeInv'
<1>1. pc = "start" /\ UNCHANGED <<leaseVars, request, worldVars, handlerVars>>
  BY DEF Begin
<1>2. RowInv' /\ row # "ACTIVE" /\ request = "ABSENT"
  BY <1>1 DEF RowInv, PcInv, leaseVars, dbVars
<1>3. PcInv'
  BY <1>1 DEF Begin, PcInv, Searching, Return, Go, Live, leaseVars
<1> QED
  BY <1>1, <1>2, <1>3, SearchStep DEF Searching, leaseVars, ownerVars, dbVars

LEMMA QueryKeeps ==
  ASSUME RuntimeInv, Query
  PROVE  RuntimeInv'
<1> DEFINE Answers == {"ADMITTED", "WAITING", "CANCELLED", "EXPIRED"}
<1>1. /\ pc \in {"acquire", "poll"} /\ answer' = answer /\ answer = "NONE" /\ owner = "none"
      /\ UNCHANGED <<ownerVars, worldVars, handlerVars>>
  BY DEF Query, Fails, PcInv, Searching
<1>2. CASE \E ans \in Answers :
             /\ AcquireEffect(ans)
             /\ result' = ans
             /\ Go(IF pc = "poll" /\ ans = "WAITING" THEN "wait" ELSE "decide")
             /\ UNCHANGED <<terminal, answer>>
  <2>1. /\ RowInv' /\ pc' \in {"wait", "decide"}
        /\ result' = "ADMITTED" => request' = "ADMITTED"
        /\ result' = "EXPIRED" => request' \notin {"ABSENT", "WAITING"}
    BY <1>2, AcquireEffectIs DEF Go
  <2>2. PcInv'
    BY <1>1, <2>1 DEF PcInv, Searching, Live, ownerVars
  <2> QED
    BY <1>1, <2>1, <2>2, SearchStep DEF Searching
<1>3. CASE Fails(\E ans \in Answers : AcquireEffect(ans))
  <2>1. RowInv' /\ pc' = "catch"
    BY <1>3, AcquireEffectIs DEF Fails, Go, RowInv, dbVars
  <2>2. PcInv'
    BY <1>1, <2>1 DEF PcInv, Searching, Live, ownerVars
  <2> QED
    BY <1>1, <2>1, <2>2, SearchStep DEF Searching
<1> QED
  BY Zenon, <1>2, <1>3 DEF Query

LEMMA WakeKeeps ==
  ASSUME RuntimeInv, Wake
  PROVE  RuntimeInv'
<1>1. pc = "wait" /\ answer' = "NONE" /\ UNCHANGED <<leaseVars, request, worldVars, handlerVars>>
  BY DEF Wake, PcInv, Searching
<1>2. RowInv'
  BY <1>1 DEF RowInv, leaseVars, dbVars
<1>3. PcInv'
  BY <1>1 DEF Wake, PcInv, Searching, Go, Live, leaseVars
<1> QED
  BY <1>1, <1>2, <1>3, SearchStep DEF Searching, leaseVars, ownerVars

LEMMA DecideKeeps ==
  ASSUME RuntimeInv, Decide
  PROVE  RuntimeInv'
<1>1. /\ pc = "decide" /\ answer' = "NONE" /\ result' = result
      /\ UNCHANGED <<leaseVars, request, worldVars, handlerVars>>
  BY DEF Decide, EndedLoop, Ask, PcInv, Searching
<1>2. RowInv'
  BY <1>1 DEF RowInv, leaseVars, dbVars
<1>3. \/ pc' = "poll"
      \/ pc' = "terminalize" /\ terminal' \in {"CANCELLED", "EXPIRED"}
      \/ pc' = "adopt" /\ result = "ADMITTED"
      \/ pc' = "final" /\ terminal' = "CANCELLED"
      \/ pc' = "final" /\ terminal' = "EXPIRED" /\ result = "EXPIRED"
  BY DEF Decide, EndedLoop, Ask, Go
<1>4. PcInv'
  BY <1>1, <1>3 DEF PcInv, Searching, Live, leaseVars
<1> QED
  BY <1>1, <1>2, <1>4, SearchStep DEF Searching, leaseVars, ownerVars

\* The answer is final: nothing is left WAITING, and a lease that won the race is
\* released before it is given.
LEMMA TerminalizeKeeps ==
  ASSUME RuntimeInv, Terminalize
  PROVE  RuntimeInv'
<1> DEFINE Answers == {"ADMITTED", "WAITING", "CANCELLED", "EXPIRED", "TERMINAL", "MISSING"}
<1>1. /\ pc \in {"terminalize", "final"} /\ answer = "NONE" /\ owner = "none"
      /\ terminal \in {"CANCELLED", "EXPIRED"}
      /\ UNCHANGED <<ownerVars, worldVars, handlerVars>>
  BY DEF Terminalize, PcInv, Searching
<1>2. ASSUME NEW ans \in Answers, TerminalizeEffect(terminal, ans),
             \/ ans = "ADMITTED" /\ Go("raced") /\ UNCHANGED acquireVars
             \/ ans = "WAITING" /\ pc = "terminalize" /\ Go("acquire") /\ UNCHANGED acquireVars
             \/ /\ ans # "ADMITTED" /\ (ans = "WAITING" => pc = "final")
                /\ Return(IF ans \in {"CANCELLED", "EXPIRED"} THEN ans ELSE terminal, "answered")
      PROVE  RuntimeInv'
  <2>1. /\ RowInv'
        /\ ans = "ADMITTED" => request' = "ADMITTED"
        /\ ans \notin {"ADMITTED", "WAITING"} => request' # "WAITING" /\ row' # "ACTIVE"
        /\ ans = "WAITING" => request = "WAITING" /\ terminal = "EXPIRED"
    BY <1>1, <1>2, TerminalizeEffectIs
  <2>2. ~(ans = "WAITING" /\ pc = "final")
    BY <2>1 DEF PcInv
  <2>3. \/ pc' = "raced" /\ ans = "ADMITTED" /\ answer' = answer /\ terminal' = terminal
        \/ pc' = "acquire" /\ answer' = answer
        \/ pc' = "answered" /\ ans \notin {"ADMITTED", "WAITING"}
    BY <1>2, <2>2 DEF Go, Return
  <2>4. PcInv'
    BY <1>1, <2>1, <2>3 DEF PcInv, Searching, Live, ownerVars
  <2> QED
    BY <1>1, <2>1, <2>3, <2>4, SearchStep DEF Searching
<1>3. CASE Fails(\E ans \in {"CANCELLED", "EXPIRED"} : TerminalizeEffect(terminal, ans))
  <2>1. RowInv' /\ pc' = "catch" /\ answer' = answer
    BY <1>1, <1>3, TerminalizeEffectIs DEF Fails, Go, RowInv, dbVars
  <2>2. PcInv'
    BY <1>1, <2>1 DEF PcInv, Searching, Live, ownerVars
  <2> QED
    BY <1>1, <2>1, <2>2, SearchStep DEF Searching
<1> QED
  BY Zenon, <1>2, <1>3 DEF Terminalize

LEMMA ReleaseRacedKeeps ==
  ASSUME RuntimeInv, ReleaseRaced
  PROVE  RuntimeInv'
<1>1. /\ pc = "raced" /\ answer = "NONE" /\ owner = "none" /\ request = "ADMITTED"
      /\ UNCHANGED <<ownerVars, worldVars, handlerVars>>
  BY DEF ReleaseRaced, PcInv, Searching
<1>2. /\ RowInv' /\ request' = "ADMITTED"
      /\ \/ pc' = "answered" /\ row' # "ACTIVE"
         \/ pc' = "catch" /\ answer' = answer
  BY <1>1, ReleaseEffectIs DEF ReleaseRaced, Fails, Return, Go, RowInv, dbVars
<1>3. PcInv'
  BY <1>1, <1>2 DEF PcInv, Searching, Live, ownerVars
<1> QED
  BY <1>1, <1>2, <1>3, SearchStep DEF Searching

LEMMA CatchKeeps ==
  ASSUME RuntimeInv, Catch \/ CatchRelease
  PROVE  RuntimeInv'
<1>1. /\ pc \in {"catch", "catchRelease"} /\ answer = "NONE" /\ owner = "none"
      /\ UNCHANGED <<ownerVars, worldVars, handlerVars>>
  BY DEF Catch, CatchRelease, PcInv, Searching
<1>2. /\ RowInv'
      /\ \/ pc' = "answered" /\ answer' = "THREW"
         \/ pc' = "catchRelease" /\ request' = "ADMITTED" /\ answer' = answer
  <2>1. CASE CatchRelease
    BY <2>1, ReleaseEffectIs DEF CatchRelease, Return, Go, RowInv, dbVars
  <2>2. CASE Catch
    BY <2>2, TerminalizeEffectIs DEF Catch, Return, Go, RowInv, dbVars
  <2> QED
    BY <2>1, <2>2
<1>3. PcInv'
  BY <1>1, <1>2 DEF PcInv, Searching, Live, ownerVars
<1> QED
  BY <1>1, <1>2, <1>3, SearchStep DEF Searching

-----------------------------------------------------------------------------
(***************************************************************************)
(* adopt, and the handler.                                                 *)
(***************************************************************************)
\* The owner starts where LeaseOwner starts, or stopped.
LEMMA AdoptKeeps ==
  ASSUME RuntimeInv, Adopt
  PROVE  RuntimeInv'
<1> USE OwnerAssumption DEF Adopt, dbVars
<1>1. /\ owner = "none" /\ answer = "NONE" /\ request = "ADMITTED" /\ row # "NONE" /\ scope = "open"
      /\ phase = "idle" /\ timer = 0 /\ retry = 0 /\ tries = 0 /\ stray \in 0 .. MaxStray
  BY DEF PcInv, Searching, RowInv, LiveInv
<1>2. owner' = (IF Signalled THEN "released" ELSE "confirming")
  BY <1>1
<1>3. RowInv'
  BY DEF RowInv
<1>4. IInv'
  <2>1. TypeOK'
    BY <1>1, <1>2 DEF TypeOK, RowInv, Stopped, Phases
  <2>2. Covered' /\ WatchdogArmed' /\ BackoffFits' /\ RetryLeavesRoom'
    BY <1>1, <1>2 DEF Covered, RowInv, WatchdogArmed, BackoffFits, RetryLeavesRoom, Owning, InFlight
  <2> QED
    BY <2>1, <2>2 DEF IInv
<1>5. LiveInv'
  BY <1>1, <1>2, <1>4 DEF LiveInv, Live, Stopped
<1>6. PcInv'
  BY <1>1, <1>2 DEF PcInv, Searching, Live, Go
<1>7. BodyInv' /\ NoLateAdmission'
  BY <1>1 DEF BodyInv, PcInv, NoLateAdmission
<1>8. NoOwnerOutlives'
  BY <1>1, <1>2 DEF NoOwnerOutlives, Owning, Signalled
<1> QED
  BY <1>3, <1>5, <1>6, <1>7, <1>8

LEMMA ConfirmKeeps ==
  ASSUME RuntimeInv, Confirm \/ Undo
  PROVE  RuntimeInv'
<1>1. /\ pc \in {"confirm", "undo"} /\ UNCHANGED <<leaseVars, request, worldVars, body, scope>>
      /\ Live /\ request = "ADMITTED" /\ body = "none"
  BY DEF Confirm, Undo, PcInv
<1>2. RowInv' /\ LiveInv'
  BY <1>1, LeaseStutters
<1>3. pc' \in {"undo", "dispatch", "answered"}
  BY DEF Confirm, Undo, Return, Go
<1> USE DEF leaseVars
<1>4. PcInv'
  BY <1>1, <1>3 DEF PcInv, Searching, Live
<1>5. BodyInv' /\ NoLateAdmission' /\ NoOwnerOutlives'
  BY <1>1 DEF BodyInv, NoLateAdmission, NoOwnerOutlives, Live, Owning, Signalled
<1> QED
  BY <1>2, <1>4, <1>5

\* The handler and the response move the lease only by stopping its owner.
LEMMA ServedStep ==
  ASSUME RuntimeInv, LeaseMoves, RowInv', LiveInv', BodyInv',
         UNCHANGED <<request, acquireVars, worldVars, scope>>,
         pc' = "served" \/ (pc' = "letgo" /\ body' = "none" /\ scope' = "open")
  PROVE  RuntimeInv'
<1>1. PcInv'
  BY DEF PcInv, LeaseMoves, Live, Searching, Owning
<1>2. NoLateAdmission' /\ NoOwnerOutlives'
  BY DEF NoLateAdmission, NoOwnerOutlives, LeaseMoves, Owning, Signalled, Stopped, Lost
<1> QED
  BY <1>1, <1>2

LEMMA HandlerKeeps ==
  ASSUME RuntimeInv, Hold \/ LetGo \/ LetGone \/ Forget \/ Refuse
  PROVE  RuntimeInv'
<1>1. body = "none" /\ scope = "open"
  BY DEF Hold, LetGo, LetGone, Forget, Refuse, PcInv
<1>2. CASE LetGo
  <2>1. RowInv' /\ LiveInv' /\ LeaseMoves
    BY <1>2, StopOwnerMoves DEF LetGo, Stopped
  <2>2. BodyInv'
    BY <1>1, <1>2 DEF LetGo, BodyInv
  <2> QED
    BY <1>1, <1>2, <2>1, <2>2, ServedStep DEF LetGo, Go
<1>3. CASE Hold \/ LetGone \/ Forget \/ Refuse
  <2>1. RowInv' /\ LiveInv' /\ LeaseMoves
    BY <1>3, LeaseStutters DEF Hold, LetGone, Forget, Refuse
  <2>2. BodyInv'
    BY <1>3, <1>1 DEF Hold, LetGone, Forget, Refuse, BodyInv, Owning, leaseVars
  <2> QED
    BY <1>3, <2>1, <2>2, ServedStep DEF Hold, LetGone, Forget, Refuse, Go
<1> QED
  BY <1>2, <1>3

LEMMA StreamKeeps ==
  ASSUME RuntimeInv, Stream
  PROVE  RuntimeInv'
<1>1. pc' = "served" /\ UNCHANGED <<request, pc, acquireVars, worldVars, scope, outcome>>
  BY DEF Stream
<1>2. CASE StopOwner("released") /\ (UpstreamEof \/ UpstreamError \/ Cancelled)
  <2>1. RowInv' /\ LiveInv' /\ LeaseMoves /\ ~Owning' /\ (Owning => owner' = "released")
    BY <1>1, <1>2, StopOwnerMoves DEF Stopped
  <2>2. BodyInv'
    BY <1>1, <1>2, <2>1 DEF BodyInv, UpstreamEof, UpstreamError, Cancelled
  <2> QED
    BY <1>1, <2>1, <2>2, ServedStep
<1>3. CASE /\ UNCHANGED leaseVars
           /\ \/ body = "bare" /\ body' \in {"ended", "failed", "bare_cancel"}
              \/ body = "bare_cancel" /\ body' = "cancelled"
              \/ body = "held" /\ body' = "held_cancel"
              \/ Finished
  <2>1. RowInv' /\ LiveInv' /\ LeaseMoves
    BY <1>1, <1>3, LeaseStutters
  <2>2. BodyInv'
    BY <1>1, <1>3 DEF BodyInv, Finished, Released, MoreTries, leaseVars
  <2> QED
    BY <1>1, <2>1, <2>2, ServedStep
<1> QED
  BY <1>2, <1>3 DEF Stream, UpstreamEof, Finished, UpstreamError, ClientCancel, Cancelled

LEMMA CloseScopeKeeps ==
  ASSUME RuntimeInv, CloseScope
  PROVE  RuntimeInv'
<1>1. RowInv' /\ LiveInv' /\ LeaseMoves /\ ~Owning'
  BY StopOwnerMoves DEF CloseScope, Stopped, Lost
<1>2. PcInv'
  BY <1>1 DEF CloseScope, PcInv, LeaseMoves, Live, Searching, Owning
<1>3. BodyInv'
  BY <1>1 DEF CloseScope, BodyInv, LeaseMoves, Owning
<1>4. NoLateAdmission' /\ NoOwnerOutlives'
  BY <1>1 DEF CloseScope, NoLateAdmission, NoOwnerOutlives, LeaseMoves, Owning, Stopped, Lost
<1> QED
  BY <1>1, <1>2, <1>3, <1>4

LEMMA DeliverKeeps ==
  ASSUME RuntimeInv, Deliver
  PROVE  RuntimeInv'
<1>1. RowInv' /\ LiveInv' /\ LeaseMoves
  BY LeaseStutters DEF Deliver
<1>2. BodyInv'
  BY DEF Deliver, BodyInv, Owning, MoreTries, leaseVars
<1> QED
  BY <1>1, <1>2, ServedStep DEF Deliver

-----------------------------------------------------------------------------
(***************************************************************************)
(* The other servers, the clocks and the end of the process.               *)
(***************************************************************************)
LEMMA ElsewhereKeeps ==
  ASSUME RuntimeInv, Elsewhere
  PROVE  RuntimeInv'
<1> USE OwnerAssumption DEF Elsewhere, OthersAdmit, OthersEnd, GrantRow, RowIs, dbVars, clockVars, callVars
<1>1. RowInv' /\ request = "WAITING" /\ ~Live
  BY DEF RowInv, PcInv
<1>2. LiveInv'
  BY <1>1 DEF LiveInv, Live
<1>3. PcInv'
  BY <1>1 DEF PcInv, Searching, Live
<1>4. BodyInv' /\ NoOwnerOutlives'
  BY DEF BodyInv, NoOwnerOutlives, Owning, MoreTries, Signalled
<1>5. NoLateAdmission'
  BY <1>1 DEF NoLateAdmission
<1> QED
  BY <1>1, <1>2, <1>3, <1>4, <1>5

LEMMA DeadlineKeeps ==
  ASSUME RuntimeInv, Deadline \/ UNCHANGED allVars
  PROVE  RuntimeInv'
<1>1. UNCHANGED <<leaseVars, request, pc, acquireVars, aborted, closed, handlerVars>>
  BY DEF Deadline, allVars
<1>2. RowInv' /\ LiveInv'
  BY <1>1, LeaseStutters
<1>3. PcInv' /\ BodyInv' /\ NoLateAdmission' /\ NoOwnerOutlives'
  BY <1>1 DEF PcInv, BodyInv, NoLateAdmission, NoOwnerOutlives, Live, Owning, MoreTries, Signalled,
              leaseVars, dbVars
<1> QED
  BY <1>2, <1>3

LEMMA DieKeeps ==
  ASSUME RuntimeInv, Die
  PROVE  RuntimeInv'
<1> USE OwnerAssumption DEF Die, Crash, Return, Go, CallEnds
<1>1. RowInv'
  BY DEF RowInv, dbVars
<1>2. LiveInv'
  BY DEF LiveInv, Live, LeavesStray
<1>3. PcInv'
  BY DEF PcInv, Searching, Live
<1>4. BodyInv' /\ NoLateAdmission' /\ NoOwnerOutlives'
  BY DEF BodyInv, NoLateAdmission, NoOwnerOutlives, Owning
<1> QED
  BY <1>1, <1>2, <1>3, <1>4

-----------------------------------------------------------------------------
\* The inductive invariant of a request, its lease and its response.
THEOREM RuntimeInvariance == RuntimeSpec => []RuntimeInv
<1>1. RuntimeInit => RuntimeInv
  BY OwnerAssumption DEF RuntimeInit, RowInv, LiveInv, Live, PcInv, Searching, BodyInv, NoLateAdmission,
     NoOwnerOutlives, Signalled
<1>2. RuntimeInv /\ [RuntimeNext]_allVars => RuntimeInv'
  BY BeginKeeps, QueryKeeps, WakeKeeps, DecideKeeps, TerminalizeKeeps, ReleaseRacedKeeps, CatchKeeps,
     AdoptKeeps, ConfirmKeeps, HandlerKeeps, StreamKeeps, CloseScopeKeeps, DeliverKeeps, ElsewhereKeeps,
     DeadlineKeeps, AbortKeeps, LeaseStepKeeps, DieKeeps
     DEF RuntimeNext, AcquireStep, HandlerStep
<1> QED
  BY <1>1, <1>2, PTL DEF RuntimeSpec

\* The client reads a clean EOF only after the durable release attempts are over,
\* and never for a held response whose lease was lost (response-lease.ts).
THEOREM CleanEofIsReleased == RuntimeSpec => []EofAfterRelease
<1>1. RuntimeInv => EofAfterRelease
  BY DEF BodyInv, NoOwnerOutlives, EofAfterRelease, Released, Owning, Stopped, Lost
<1> QED
  BY <1>1, RuntimeInvariance, PTL

\* A refusal is final: after acquire answered it, no server admits the attempt, and
\* no lease is left active without an owner (terminalizeAttempt before the answer).
THEOREM RefusalsAreFinal == RuntimeSpec => []NoLateAdmission
<1>1. RuntimeInv => NoLateAdmission
  OBVIOUS
<1> QED
  BY <1>1, RuntimeInvariance, PTL

\* No owner outlives its scope, its client or the runtime, even one adopted meanwhile.
THEOREM OwnersEndInTime == RuntimeSpec => []NoOwnerOutlives
<1>1. RuntimeInv => NoOwnerOutlives
  OBVIOUS
<1> QED
  BY <1>1, RuntimeInvariance, PTL

\* An owner adopted by acquire is covered by its row as LeaseOwner promises: nothing
\* acquire, the handler or the other servers do takes the row from under it.
THEOREM AdoptedOwnerIsCovered == RuntimeSpec => []AuthorityCovered
<1>1. RuntimeInv => AuthorityCovered
  BY DEF LiveInv, Live, IInv, TypeOK, Covered, AuthorityCovered
<1> QED
  BY <1>1, RuntimeInvariance, PTL
==============================================================================
