----------------------------- MODULE LeaseOwner -----------------------------
(***************************************************************************)
(* One capacity lease and the process that owns it                         *)
(* (apps/server/src/model-api/capacity/lease-owner.ts), from adoption to   *)
(* the end of the durable lease.  The database row expires unless          *)
(* heartbeats extend it; the owner dispatches work to the slot while it    *)
(* believes the row still covers it.  Queries take time, may fail before   *)
(* or after taking effect, and may take effect after the client has given  *)
(* up on them; timers fire late; the process may crash.                    *)
(*                                                                         *)
(* Time is kept as durations, so that no clock bounds the behaviours:      *)
(*   ttl        until the row's expiresAt on the database clock (0 = past) *)
(*   authority  acknowledgedUntil - performance.now()                      *)
(*   watchdog   until the watchdog fires                                   *)
(*   beat       until the heartbeat interval fires                         *)
(*   timer      since the running query started, or of a backoff left      *)
(* The two clocks advance at one rate; their offset does not matter.       *)
(* Timers run at most Lateness late and a query takes at most QueryBound.  *)
(***************************************************************************)
EXTENDS Integers, Sequences

CONSTANTS Extension,    \* leaseExtensionMs
          Interval,     \* heartbeatIntervalMs
          Delays,       \* CAPACITY_HEARTBEAT_RETRY_DELAYS_MS
          Margin,       \* CAPACITY_HEARTBEAT_RETRY_MARGIN_MS
          ReleaseTries, \* attempts of releaseCapacityLeaseWithRetry
          Lateness,     \* how late a timer of this process may fire
          QueryBound,   \* longest time a heartbeat query can be in flight
          MaxStray      \* abandoned heartbeat queries followed at a time

ASSUME OwnerAssumption ==
  /\ Extension \in Nat \ {0} /\ Interval \in Nat \ {0} /\ Margin \in Nat
  /\ Delays \in Seq(Nat \ {0}) /\ Len(Delays) > 0
  /\ ReleaseTries \in Nat \ {0} /\ Lateness \in Nat /\ QueryBound \in Nat /\ MaxStray \in Nat

VARIABLES
  row,          \* state of the lease row
  ttl,
  reclaimedFor, \* time since the row was reclaimed
  owner,        \* confirming, holding (the handle is handed out), or why it stopped
  authority,
  watchdog,
  beat,
  phase,        \* of the heartbeat call
  timer,
  retry,        \* retries made by the heartbeat call
  stray,        \* heartbeats given up by the client that may still execute
  tries         \* release attempts made

dbVars == <<row, ttl, reclaimedFor>>
callVars == <<phase, timer, retry>>
clockVars == <<authority, watchdog, beat>>
vars == <<dbVars, owner, clockVars, callVars, stray, tries>>

\* CapacityLeaseLossKind: every reason but a plain release is a lost lease.
Lost == {"ownership_lost", "heartbeat_timeout", "heartbeat_failed", "max_lifetime",
         "request_scope_closed"}
Stopped == Lost \cup {"released"}

\* "done" = executed and renewed, "refused" = executed without effect.
Phases == {"idle", "sent", "done", "refused", "backoff"}

RetryDelay(r) == Delays[IF r < Len(Delays) THEN r + 1 ELSE Len(Delays)]

Least(m, n) == IF m <= n THEN m ELSE n

\* The row was granted some time before adopt constructs the owner; adopt
\* renews on start and waits for that heartbeat before handing out the handle.
Init ==
  /\ row = "ACTIVE"
  /\ ttl \in 0 .. Extension
  /\ reclaimedFor = 0
  /\ owner = "confirming"
  /\ authority = Extension
  /\ watchdog = Extension
  /\ beat = Interval
  /\ phase = "sent"
  /\ timer = 0
  /\ retry = 0
  /\ stray = 0
  /\ tries = 0

Owning == owner \in {"confirming", "holding"}

InFlight == phase \in {"sent", "done", "refused"}

Beating_AfterStop == owner # "crashed"

\* release() clears the interval.
Beating == Owning

\* The heartbeat call is over.
CallEnds == phase' = "idle" /\ timer' = 0

\* The owner's timers are cleared; it reads its clock no more.
ClocksEnd == authority' = 0 /\ watchdog' = 0 /\ beat' = 0
-----------------------------------------------------------------------------
(* The database. *)

\* WHERE state = 'ACTIVE' AND "expiresAt" > clock_timestamp()
Renewable == row = "ACTIVE" /\ ttl > 0

Renew == ttl' = (IF Renewable THEN Extension ELSE ttl) /\ UNCHANGED <<row, reclaimedFor>>

ExecuteHeartbeat ==
  /\ phase = "sent"
  /\ Renew
  /\ phase' = IF Renewable THEN "done" ELSE "refused"
  /\ UNCHANGED <<owner, clockVars, timer, retry, stray, tries>>

ExecuteStray ==
  /\ stray > 0
  /\ stray' = stray - 1
  /\ Renew
  /\ UNCHANGED <<owner, clockVars, callVars, tries>>

\* reclaimExpired, run by the maintenance timer of any server.
Reclaim ==
  /\ row = "ACTIVE" /\ ttl = 0
  /\ row' = "RECLAIMED"
  /\ UNCHANGED <<ttl, reclaimedFor, owner, clockVars, callVars, stray, tries>>

\* sweepOrphans: the target, the capacity or the user was deleted.
OrphanRelease ==
  /\ row = "ACTIVE"
  /\ row' = "RELEASED"
  /\ UNCHANGED <<ttl, reclaimedFor, owner, clockVars, callVars, stray, tries>>
-----------------------------------------------------------------------------
(* The owner. *)

\* release(): the signal aborts and the timers are cleared at once; a backoff
\* in progress is woken and ends the heartbeat call.
Stop(reason) ==
  /\ owner' = reason
  /\ ClocksEnd
  /\ IF phase = "backoff" THEN CallEnds ELSE UNCHANGED <<phase, timer>>
  /\ UNCHANGED <<dbVars, retry, stray, tries>>

\* The caller is done, the client aborts or the runtime closes; the scope
\* closes, or the lifetime cap fires.
Release ==
  /\ Owning
  /\ \E reason \in {"released", "request_scope_closed", "max_lifetime"} : Stop(reason)

Watchdog == Owning /\ watchdog <= 0 /\ Stop("heartbeat_timeout")

\* The interval fires; a heartbeat still running makes it a no-op.
BeatTimer ==
  /\ Beating /\ beat <= 0
  /\ beat' = Interval
  /\ IF phase = "idle" THEN phase' = "sent" /\ timer' = 0 /\ retry' = 0
                       ELSE UNCHANGED callVars
  /\ UNCHANGED <<dbVars, owner, authority, watchdog, stray, tries>>

Acknowledged_FromResponse == Extension

\* Counted from the start of the query, not from its response.
Acknowledged == Extension - timer

\* watchOwnership(remaining)
Rearmed(remaining) == remaining

\* store.heartbeat answered.
Answered ==
  /\ phase \in {"done", "refused"} /\ owner # "crashed"
  /\ CallEnds
  /\ \/ ~Owning /\ UNCHANGED <<owner, clockVars>>
     \/ Owning /\ phase = "refused" /\ owner' = "ownership_lost" /\ ClocksEnd
     \/ Owning /\ phase = "done" /\ Acknowledged <= 0 /\ owner' = "heartbeat_timeout" /\ ClocksEnd
     \/ /\ Owning /\ phase = "done" /\ Acknowledged > 0
        /\ owner' = "holding"
        /\ authority' = Acknowledged
        /\ watchdog' = Rearmed(Acknowledged)
        /\ UNCHANGED beat
  /\ UNCHANGED <<dbVars, retry, stray, tries>>

RetryFits(delay) == authority > delay + Margin

\* A query not yet executed when the client gives up on it may still execute.
LeavesStray ==
  \/ UNCHANGED stray
  \/ phase = "sent" /\ stray < MaxStray /\ stray' = stray + 1

\* store.heartbeat threw: before its effect, after it, or with the query left
\* to execute later.
Threw ==
  /\ InFlight /\ owner # "crashed"
  /\ LeavesStray
  /\ \/ ~Owning /\ CallEnds /\ UNCHANGED <<owner, clockVars>>
     \/ /\ Owning /\ ~RetryFits(RetryDelay(retry))
        /\ CallEnds /\ ClocksEnd /\ owner' = "heartbeat_failed"
     \/ /\ Owning /\ RetryFits(RetryDelay(retry))
        /\ phase' = "backoff" /\ timer' = RetryDelay(retry)
        /\ UNCHANGED <<owner, clockVars>>
  /\ UNCHANGED <<dbVars, retry, tries>>

BackoffOver ==
  /\ Owning /\ phase = "backoff" /\ timer <= 0
  /\ phase' = "sent" /\ timer' = 0
  /\ retry' = Least(retry + 1, Len(Delays))
  /\ UNCHANGED <<dbVars, owner, clockVars, stray, tries>>

MoreTries == tries < ReleaseTries

\* One attempt of releaseCapacityLeaseWithRetry.  It is acknowledged; or finds
\* the row not ACTIVE; or fails before or after its effect.  After the last
\* one the row is left to its expiry.
TryRelease ==
  /\ owner \in Stopped /\ MoreTries
  /\ \/ row = "ACTIVE" /\ row' = "RELEASED" /\ tries' = ReleaseTries
     \/ row = "ACTIVE" /\ row' = "RELEASED" /\ tries' = tries + 1
     \/ UNCHANGED row /\ tries' = tries + 1
  /\ UNCHANGED <<ttl, reclaimedFor, owner, clockVars, callVars, stray>>

Crash ==
  /\ owner # "crashed"
  /\ owner' = "crashed"
  /\ LeavesStray
  /\ CallEnds /\ ClocksEnd
  /\ UNCHANGED <<dbVars, retry, tries>>
-----------------------------------------------------------------------------
\* No timer of the owner, and no query, is overdue beyond its bound.
Punctual ==
  /\ Owning => watchdog > -Lateness
  /\ Beating => beat > -Lateness
  /\ phase = "backoff" => timer > -Lateness
  /\ InFlight => timer < QueryBound

Tick ==
  /\ Punctual
  /\ ttl' = IF ttl > 0 THEN ttl - 1 ELSE 0
  /\ reclaimedFor' = IF row = "RECLAIMED" THEN Least(reclaimedFor + 1, Lateness + 1) ELSE 0
  /\ authority' = IF Owning THEN authority - 1 ELSE authority
  /\ watchdog' = IF Owning THEN watchdog - 1 ELSE watchdog
  /\ beat' = IF Beating THEN beat - 1 ELSE beat
  /\ timer' = IF InFlight THEN timer + 1 ELSE IF phase = "backoff" THEN timer - 1 ELSE timer
  /\ UNCHANGED <<row, owner, phase, retry, stray, tries>>

Next ==
  \/ ExecuteHeartbeat \/ ExecuteStray \/ Reclaim \/ OrphanRelease
  \/ Release \/ Watchdog \/ BeatTimer \/ Answered \/ Threw \/ BackoffOver
  \/ TryRelease \/ Crash \/ Tick

\* Time passes, queries end, timers fire and some server runs its maintenance
\* timer (production-runtime.ts).  That release attempts succeed is not assumed.
Fairness ==
  /\ WF_vars(Tick) /\ WF_vars(Reclaim) /\ WF_vars(Watchdog) /\ WF_vars(BeatTimer)
  /\ WF_vars(ExecuteHeartbeat) /\ WF_vars(Answered) /\ WF_vars(BackoffOver)

Spec == Init /\ [][Next]_vars /\ Fairness
-----------------------------------------------------------------------------
\* Types; no timer of the owner is overdue beyond Lateness, and the release is
\* attempted at most ReleaseTries times.
TypeOK ==
  /\ row \in {"ACTIVE", "RELEASED", "RECLAIMED"}
  /\ ttl \in 0 .. Extension
  /\ reclaimedFor \in 0 .. Lateness + 1
  /\ owner \in {"confirming", "holding", "crashed"} \cup Stopped
  /\ authority \in Int
  /\ watchdog \in -Lateness .. Extension
  /\ beat \in -Lateness .. Interval
  /\ phase \in Phases
  /\ timer \in Int
  /\ retry \in 0 .. Len(Delays)
  /\ stray \in 0 .. MaxStray
  /\ tries \in 0 .. ReleaseTries

\* While the owner of a handed-out lease believes the row covers it, the row
\* does: it has not been reclaimed, and if it is ACTIVE it will not expire
\* earlier than the owner expects (heartbeat, "count from query START").
AuthorityCovered ==
  (owner = "holding" /\ authority > 0) =>
    row # "RECLAIMED" /\ (row = "ACTIVE" => ttl >= authority)

\* Two holders of a slot overlap for no longer than a timer may be late: a
\* reclaimed slot can be granted anew at once, and the old owner has stopped
\* dispatching by then but for the lateness of its watchdog.
OverlapBounded == owner = "holding" => reclaimedFor <= Lateness

\* A retried heartbeat starts with the retry margin left in the acknowledged
\* TTL, but for the lateness of the backoff timer.
RetryLeavesRoom ==
  (Owning /\ phase = "sent" /\ retry > 0 /\ timer = 0) => authority + Lateness > Margin

\* Queries end so soon that one error leaves room for a retry.
HealthyDatabase == Extension > 2 * QueryBound + Interval + Lateness + RetryDelay(0) + Margin

\* One transient heartbeat error never costs the lease (F2-CAP-5), as long as
\* the queries of a healthy database end well within the TTL.
OneErrorTolerated == HealthyDatabase /\ owner = "heartbeat_failed" => retry > 0
=============================================================================
