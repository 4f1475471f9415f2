------------------------- MODULE CandidateSchedules -------------------------
(***************************************************************************)
(* When the candidates of a new admission attempt may be granted:          *)
(* candidateSchedules and candidateDeadlineAt of                           *)
(* apps/server/src/model-api/capacity/postgres-store.ts.                   *)
(*                                                                         *)
(* A candidate is a record with                                            *)
(*   own     its absolute upper bound, Null = the attempt's deadline       *)
(*   delay   its spill-over delay (notBeforeMs), 0 = not deferred          *)
(*   budget  its wait budget (waitBudgetMs), Null = none                   *)
(* cands is a function from the candidates' indices to such records.  An   *)
(* anchor is Null or [at, spillDelay], an earlier attempt's enqueue time.  *)
(***************************************************************************)
EXTENDS Optional, FiniteSetsExt

CONSTANTS
  MaxDelay,   \* MAX_CANDIDATE_NOT_BEFORE_MS
  MinWindow   \* DEFERRED_MIN_ELIGIBLE_WINDOW_MS

UpperBound(c, attemptDeadline) == IF c.own = Null THEN attemptDeadline ELSE c.own

BoundedDelay(delay) == Min({MaxDelay, delay})

ScheduleBase(now, anchor) == IF anchor # Null /\ anchor.at < now THEN anchor.at ELSE now

ScheduledNotBefore(c, attemptDeadline, base) ==
  IF BoundedDelay(c.delay) = 0 THEN Null
  ELSE Min({base + BoundedDelay(c.delay), UpperBound(c, attemptDeadline)})

SpillAt_ForgetsWindow(cands, attemptDeadline, base, anchor) ==
  Max({base} \cup
      ({ScheduledNotBefore(cands[i], attemptDeadline, base) : i \in DOMAIN cands} \ {Null}))

\* The latest scheduled notBefore; an anchor keeps the first attempt's even
\* when no candidate of this one is deferred.
SpillAt(cands, attemptDeadline, base, anchor) ==
  Max({base + (IF anchor = Null THEN 0 ELSE BoundedDelay(anchor.spillDelay))} \cup
      ({ScheduledNotBefore(cands[i], attemptDeadline, base) : i \in DOMAIN cands} \ {Null}))

\* The wait budget counts from the spill instant, and a deferred attempt stays
\* open at least MinWindow after it.
CandidateDeadlineAt(c, attemptDeadline, base, spillAt) ==
  IF c.budget = Null THEN UpperBound(c, attemptDeadline)
  ELSE Min({spillAt + (IF spillAt > base THEN Max({c.budget, MinWindow}) ELSE c.budget),
            UpperBound(c, attemptDeadline)})

\* Instants already past are clamped to now.
CandidateSchedule(cands, i, attemptDeadline, now, anchor) ==
  LET base      == ScheduleBase(now, anchor)
      scheduled == ScheduledNotBefore(cands[i], attemptDeadline, base)
      notBefore == IF scheduled # Null /\ scheduled > now THEN scheduled ELSE Null
      planned   == CandidateDeadlineAt(cands[i], attemptDeadline, base,
                                       SpillAt(cands, attemptDeadline, base, anchor))
      deadline  == IF planned < now
                   THEN Min({UpperBound(cands[i], attemptDeadline), now}) ELSE planned
  IN  [notBefore |-> notBefore,
       deadline  |-> IF notBefore # Null /\ deadline < notBefore THEN notBefore ELSE deadline]
=============================================================================
