----------------------- MODULE ProviderBreakerProofs -----------------------
(***************************************************************************)
(* The fencing of the provider breaker, for any number of models and       *)
(* attempts, any durations and any faults.                                 *)
(***************************************************************************)
EXTENDS ProviderBreaker, TLAPS

\* A process acts for an attempt that has a token and a model.
AttemptsBegun ==
  \A a \in Attempts : IF a <= nextToken THEN attempt[a].model \in Models
                      ELSE attempt[a].proc = "none" /\ attempt[a].row = "none"

IInv == TypeOK /\ AttemptsBegun /\ AccountTrialHeldOnModel

LEMMA InitEstablishes == Init => IInv
  BY BreakerAssumption
  DEF Init, IInv, TypeOK, TrialColumnsAgree, AttemptsBegun, AccountTrialHeldOnModel, Closed,
      NoAttempt, HealthRow, AttemptRow, Processes, Answers, NatOrNull, Attempts

\* An attempt that has begun has its model's row.
LEMMA BegunHasRows ==
  ASSUME IInv, NEW a \in Attempts, attempt[a].proc # "none" \/ attempt[a].row # "none"
  PROVE  /\ a \in Nat /\ a <= nextToken /\ ModelOf(a) \in Models
         /\ account \in HealthRow /\ model[ModelOf(a)] \in HealthRow
         /\ TrialColumnsAgree(account) /\ TrialColumnsAgree(model[ModelOf(a)])
  BY BreakerAssumption DEF IInv, TypeOK, AttemptsBegun, ModelOf, Attempts

\* What becomes of the attempts when a process goes on: one changes, not its model.
OnlyAttemptChanges(a) ==
  /\ attempt' \in [Attempts -> AttemptRow]
  /\ \A b \in Attempts : attempt'[b].model = attempt[b].model
  /\ \A b \in Attempts \ {a} : attempt'[b] = attempt[b]

LEMMA GoesChangesOne ==
  ASSUME IInv, NEW a \in Attempts, NEW proc \in Processes, NEW answer \in Answers,
         Goes(a, proc, answer)
  PROVE  OnlyAttemptChanges(a)
  BY Zenon DEF IInv, TypeOK, Goes, AttemptRow, OnlyAttemptChanges

\* Steps that leave both rows alone.
LEMMA NoRowPreserves ==
  ASSUME IInv, NEW a \in Attempts, attempt[a].proc # "none" \/ attempt[a].row # "none",
         UNCHANGED <<account, model, nextToken, now>>,
         OnlyAttemptChanges(a)
  PROVE  IInv'
<1> USE BreakerAssumption DEF OnlyAttemptChanges
<1>1. a <= nextToken /\ ModelOf(a) \in Models
  BY BegunHasRows
<1>2. TypeOK'
  BY <1>1 DEF IInv, TypeOK, TrialColumnsAgree
<1>3. AttemptsBegun'
  BY <1>1 DEF IInv, AttemptsBegun, ModelOf
<1>4. AccountTrialHeldOnModel'
  BY DEF IInv, TypeOK, AccountTrialHeldOnModel, ModelOf, HealthRow
<1> QED
  BY <1>2, <1>3, <1>4 DEF IInv

\* The steps of a process that ends, and the repair of its row.
LEMMA ProcessPreserves ==
  ASSUME IInv, NEW a \in Attempts,
         Settle(a) \/ DatabaseError(a) \/ Crash(a) \/ RepairExpired(a) \/ Abort(a)
  PROVE  IInv'
<1> USE BreakerAssumption
<1>1. UNCHANGED <<account, model, nextToken, now>>
  BY DEF Settle, DatabaseError, Crash, RepairExpired, Abort
<1>2. OnlyAttemptChanges(a)
  <2>1. CASE Settle(a)
    BY Zenon, <2>1 DEF Settle, IInv, TypeOK, AttemptRow, Processes, OnlyAttemptChanges
  <2>2. CASE DatabaseError(a)
    <3>1. PICK to \in {"settling", "recorded", "gone"} : Goes(a, to, Null)
      BY <2>2 DEF DatabaseError
    <3> QED
      BY <3>1, GoesChangesOne DEF Processes, Answers
  <2>3. CASE Crash(a)
    BY <2>3, GoesChangesOne DEF Crash, Processes, Answers
  <2>4. CASE RepairExpired(a)
    BY <2>4 DEF RepairExpired, IInv, TypeOK, AttemptRow, OnlyAttemptChanges
  <2>5. CASE Abort(a)
    BY <2>5, GoesChangesOne DEF Abort, Processes, Answers
  <2> QED
    BY <2>1, <2>2, <2>3, <2>4, <2>5
<1>3. attempt[a].proc # "none" \/ attempt[a].row # "none"
  <2>1. CASE DatabaseError(a)
    BY <2>1 DEF DatabaseError
  <2> QED
    BY <2>1 DEF Settle, Crash, RepairExpired, Abort
<1> QED
  BY <1>1, <1>2, <1>3, NoRowPreserves

LEMMA BeginPreserves ==
  ASSUME IInv, NEW a \in Attempts, NEW m \in Models, Begin(a, m)
  PROVE  IInv'
<1> USE BreakerAssumption
<1>1. a \in Nat /\ nextToken \in Nat /\ nextToken' = a /\ a = nextToken + 1
  BY DEF Begin, IInv, TypeOK, Attempts
<1>2. UNCHANGED <<account, model, now>>
  BY DEF Begin
<1>3. /\ attempt' \in [Attempts -> AttemptRow]
      /\ attempt'[a].model = m
      /\ \A b \in Attempts \ {a} : attempt'[b] = attempt[b]
  BY DEF Begin, IInv, TypeOK, AttemptRow, Processes, Answers
<1>4. TypeOK'
  BY SMTT(30), <1>1, <1>2, <1>3 DEF IInv, TypeOK, TrialColumnsAgree, Attempts, HealthRow
<1>5. AttemptsBegun'
  BY SMTT(30), <1>1, <1>3 DEF IInv, AttemptsBegun, Attempts
<1>6. AccountTrialHeldOnModel'
  <2>1. account.owner # Null => account.owner \in Attempts \ {a}
    BY SMTT(30), <1>1 DEF IInv, TypeOK, HealthRow, TrialColumnsAgree, Attempts
  <2> QED
    BY <1>2, <1>3, <2>1 DEF IInv, AccountTrialHeldOnModel, ModelOf
<1> QED
  BY <1>4, <1>5, <1>6 DEF IInv

(***************************************************************************)
(* Steps that write the account's row and the row of the acting attempt's  *)
(* model, with the same trial in both.                                     *)
(***************************************************************************)
LEMMA RowsPreserve ==
  ASSUME IInv, NEW a \in Attempts, attempt[a].proc # "none",
         NEW h \in HealthRow, NEW g \in HealthRow,
         account' = h, model' = [model EXCEPT ![ModelOf(a)] = g],
         h.owner = g.owner, h.halfOpenAt = g.halfOpenAt, h.owner \in {a, Null},
         TrialColumnsAgree(h), TrialColumnsAgree(g),
         UNCHANGED <<nextToken, now>>,
         OnlyAttemptChanges(a)
  PROVE  IInv'
<1> USE BreakerAssumption DEF OnlyAttemptChanges
<1>1. a <= nextToken /\ ModelOf(a) \in Models
  BY BegunHasRows
<1>2. TypeOK'
  BY <1>1 DEF IInv, TypeOK, TrialColumnsAgree
<1>3. AttemptsBegun'
  BY <1>1 DEF IInv, AttemptsBegun, ModelOf
<1>4. AccountTrialHeldOnModel'
  BY <1>1 DEF IInv, TypeOK, AccountTrialHeldOnModel, ModelOf
<1> QED
  BY <1>2, <1>3, <1>4 DEF IInv

\* What a claim that is granted writes.
LEMMA ClaimWrites ==
  ASSUME IInv, NEW a \in Attempts, NEW t \in Readings, attempt[a].proc # "none",
         ClaimAnswer(a, t) = "HALF_OPEN", NEW h \in Rows(a)
  PROVE  /\ Claimed(h, a, t) \in HealthRow /\ TrialColumnsAgree(Claimed(h, a, t))
         /\ Claimed(h, a, t).owner = a /\ Claimed(h, a, t).halfOpenAt = t
         /\ h.watermark < a /\ ~Refuses(h, t)
<1> USE BreakerAssumption
<1>1. a \in Nat /\ a <= nextToken /\ h \in HealthRow
  BY BegunHasRows DEF Rows
<1>2. t \in Nat
  BY DEF Readings, IInv, TypeOK
<1>3. ~(a <= h.watermark) /\ ~Refuses(h, t)
  BY DEF ClaimAnswer
<1>4. h.watermark \in Nat
  BY <1>1 DEF HealthRow
<1>5. Claimed(h, a, t) \in HealthRow
  <2>1. t \in NatOrNull /\ a \in 0 .. MaxAttempts /\ a \in Attempts \cup {Null}
    BY <1>2 DEF NatOrNull, Attempts
  <2> QED
    BY Zenon, <1>1, <2>1 DEF Claimed, HealthRow
<1>6. /\ Claimed(h, a, t).owner = a /\ Claimed(h, a, t).halfOpenAt = t
      /\ Claimed(h, a, t).watermark = a
  BY <1>1 DEF Claimed, HealthRow
<1>7. nextToken \in Nat
  BY DEF IInv, TypeOK
<1> QED
  BY <1>1, <1>2, <1>3, <1>4, <1>5, <1>6, <1>7 DEF TrialColumnsAgree

LEMMA ClaimPreserves ==
  ASSUME IInv, NEW a \in Attempts, NEW t \in Readings, NEW lost \in BOOLEAN,
         ClaimProviderHealthTrial(a, t, lost)
  PROVE  IInv'
<1> USE BreakerAssumption
<1>1. attempt[a].proc # "none" /\ UNCHANGED <<nextToken, now>>
  BY DEF ClaimProviderHealthTrial
<1>2. OnlyAttemptChanges(a)
  <2>1. ClaimAnswer(a, t) \in Answers
    BY DEF ClaimAnswer, Answers
  <2>2. PICK proc \in {"settling", "running"} : Goes(a, proc, ClaimAnswer(a, t))
    BY DEF ClaimProviderHealthTrial
  <2> QED
    BY <2>1, <2>2, GoesChangesOne DEF Processes
<1>3. CASE ClaimAnswer(a, t) = "HALF_OPEN"
  <2> DEFINE h == Claimed(account, a, t)
             g == Claimed(model[ModelOf(a)], a, t)
  <2>1. account' = h /\ model' = [model EXCEPT ![ModelOf(a)] = g]
    BY <1>3 DEF ClaimProviderHealthTrial, ClaimedModel
  <2>2. /\ h \in HealthRow /\ g \in HealthRow /\ TrialColumnsAgree(h) /\ TrialColumnsAgree(g)
        /\ h.owner = a /\ g.owner = a /\ h.halfOpenAt = t /\ g.halfOpenAt = t
    BY <1>1, <1>3, ClaimWrites DEF Rows
  <2> QED
    BY Zenon, <1>1, <1>2, <2>1, <2>2, RowsPreserve
<1>4. CASE ClaimAnswer(a, t) # "HALF_OPEN"
  BY <1>1, <1>2, <1>4, NoRowPreserves DEF ClaimProviderHealthTrial
<1> QED
  BY <1>3, <1>4

LEMMA HeartbeatPreserves ==
  ASSUME IInv, NEW a \in Attempts, HeartbeatProviderAttempt(a)
  PROVE  IInv'
<1> USE BreakerAssumption
<1>1. attempt[a].proc # "none" /\ UNCHANGED <<nextToken, now>>
  BY DEF HeartbeatProviderAttempt
<1>2. OnlyAttemptChanges(a)
  <2>1. CASE MayRenew(a)
    BY <2>1 DEF HeartbeatProviderAttempt, IInv, TypeOK, AttemptRow, OnlyAttemptChanges
  <2>2. CASE ~MayRenew(a)
    BY <2>2 DEF HeartbeatProviderAttempt, IInv, TypeOK, AttemptRow, Processes, OnlyAttemptChanges
  <2> QED
    BY <2>1, <2>2
<1>3. CASE MayRenew(a) /\ OwnsTrial(a)
  <2> DEFINE h == [account EXCEPT !.halfOpenAt = now]
             g == [model[ModelOf(a)] EXCEPT !.halfOpenAt = now]
  <2>1. account' = h /\ model' = [model EXCEPT ![ModelOf(a)] = g]
    BY <1>3 DEF HeartbeatProviderAttempt
  <2>2. account.owner = a /\ model[ModelOf(a)].owner = a
    BY <1>3 DEF OwnsTrial, Rows
  <2>3. h \in HealthRow /\ g \in HealthRow
    BY <1>1, BegunHasRows DEF HealthRow, NatOrNull, IInv, TypeOK
  <2>4. /\ TrialColumnsAgree(h) /\ TrialColumnsAgree(g)
        /\ h.owner = a /\ g.owner = a /\ h.halfOpenAt = now /\ g.halfOpenAt = now
    BY <1>1, <2>2, BegunHasRows DEF TrialColumnsAgree, HealthRow, IInv, TypeOK
  <2> QED
    BY Zenon, <1>1, <1>2, <2>1, <2>3, <2>4, RowsPreserve
<1>4. CASE ~(MayRenew(a) /\ OwnsTrial(a))
  BY <1>1, <1>2, <1>4, NoRowPreserves DEF HeartbeatProviderAttempt
<1> QED
  BY <1>3, <1>4

LEMMA ReleasePreserves ==
  ASSUME IInv, NEW a \in Attempts, ReleaseProviderHealthTrial(a)
  PROVE  IInv'
<1> USE BreakerAssumption
<1>1. attempt[a].proc # "none" /\ UNCHANGED <<nextToken, now>>
  BY DEF ReleaseProviderHealthTrial
<1>2. OnlyAttemptChanges(a)
  BY GoesChangesOne DEF ReleaseProviderHealthTrial, Processes, Answers
<1>3. CASE OwnsTrial(a)
  <2> DEFINE Cleared(r) == [r EXCEPT !.halfOpenAt = Null, !.owner = Null]
             h == Cleared(account)
             g == Cleared(model[ModelOf(a)])
  <2>1. account' = h /\ model' = [model EXCEPT ![ModelOf(a)] = g]
    BY <1>3 DEF ReleaseProviderHealthTrial
  <2>2. h \in HealthRow /\ g \in HealthRow
    BY Zenon, <1>1, BegunHasRows DEF HealthRow, NatOrNull
  <2>3. /\ TrialColumnsAgree(h) /\ TrialColumnsAgree(g)
        /\ h.owner = Null /\ g.owner = Null /\ h.halfOpenAt = Null /\ g.halfOpenAt = Null
    BY <1>1, BegunHasRows DEF TrialColumnsAgree, HealthRow
  <2> QED
    BY Zenon, <1>1, <1>2, <2>1, <2>2, <2>3, RowsPreserve
<1>4. CASE ~OwnsTrial(a)
  BY <1>1, <1>2, <1>4, NoRowPreserves DEF ReleaseProviderHealthTrial
<1> QED
  BY <1>3, <1>4

LEMMA BackoffIsBounded ==
  ASSUME NEW n \in Nat \ {0}, NEW d \in RetryAfters
  PROVE  BackoffFor(n, d) \in Nat /\ BackoffFor(n, d) <= MaxCooldown
<1>1. Smaller(n, 2) \in 1 .. 2
  BY DEF Smaller
<1>2. Backoff[Smaller(n, 2)] \in Nat /\ d \in Nat /\ MaxCooldown \in Nat
  BY <1>1, BreakerAssumption
<1> QED
  BY <1>2 DEF BackoffFor, Larger, Smaller

\* What a verdict that is accepted writes.
LEMMA VerdictWrites ==
  ASSUME IInv, NEW a \in Attempts, attempt[a].proc # "none",
         NEW r \in {Succeeded(a)} \cup {Failed(account, a, u) : u \in Nat}
                     \cup {Failed(model[ModelOf(a)], a, u) : u \in Nat}
  PROVE  /\ r \in HealthRow /\ TrialColumnsAgree(r)
         /\ r.owner = Null /\ r.halfOpenAt = Null /\ r.watermark = a
<1> USE BreakerAssumption
<1>1. a \in Nat /\ a <= nextToken /\ a \in 0 .. MaxAttempts
  BY BegunHasRows DEF Attempts
<1>2. CASE r = Succeeded(a)
  BY <1>1, <1>2 DEF Succeeded, Closed, HealthRow, NatOrNull, TrialColumnsAgree
<1>3. ASSUME NEW h \in HealthRow, NEW u \in Nat, r = Failed(h, a, u)
      PROVE  /\ r \in HealthRow /\ TrialColumnsAgree(r)
             /\ r.owner = Null /\ r.halfOpenAt = Null /\ r.watermark = a
  <2>1. Smaller(h.failures + 1, 2) \in 0 .. 2
    BY DEF HealthRow, Smaller
  <2> QED
    BY Zenon, <1>1, <1>3, <2>1 DEF Failed, HealthRow, NatOrNull, TrialColumnsAgree
<1> QED
  BY <1>2, <1>3, BegunHasRows

\* The retry time of a failure is at most the maximum from the clock reading.
LEMMA FailureRetryTime ==
  ASSUME IInv, NEW t \in Readings, NEW d \in RetryAfters, NEW h \in HealthRow
  PROVE  /\ t + BackoffFor(h.failures + 1, d) \in Nat
         /\ t + BackoffFor(h.failures + 1, d) <= now + MaxCooldown
<1>1. t \in Nat /\ now \in Nat /\ t <= now
  BY DEF Readings, IInv, TypeOK
<1>2. h.failures + 1 \in Nat \ {0}
  BY DEF HealthRow
<1> QED
  BY <1>1, <1>2, BackoffIsBounded, BreakerAssumption

\* An accepted verdict on the rows of its attempt.
LEMMA RecordWrites ==
  ASSUME IInv, NEW a \in Attempts, NEW success \in BOOLEAN, NEW t \in Readings,
         NEW d \in RetryAfters, RecordProviderOutcome(a, success, t, d), MayRecord(a)
  PROVE  \E u \in Nat, v \in Nat :
           /\ \/ account' = Succeeded(a)
              \/ /\ account' = Failed(account, a, u)
                 /\ account.retryAt # Null => u >= account.retryAt
                 /\ u # account.retryAt => u <= now + MaxCooldown
           /\ \E g \in {Succeeded(a), Failed(model[ModelOf(a)], a, v)} :
                model' = [model EXCEPT ![ModelOf(a)] = g]
<1> USE BreakerAssumption
<1>1. attempt[a].proc # "none"
  BY DEF RecordProviderOutcome
<1>2. account \in HealthRow /\ model[ModelOf(a)] \in HealthRow
  BY <1>1, BegunHasRows
<1>3. CASE success
  <2>1. account' = Succeeded(a) /\ model' = [model EXCEPT ![ModelOf(a)] = Succeeded(a)]
    BY <1>3 DEF RecordProviderOutcome
  <2> QED
    BY <2>1
<1>4. CASE ~success
  <2> DEFINE w == t + BackoffFor(account.failures + 1, d)
             u == IF account.retryAt = Null THEN w ELSE Larger(account.retryAt, w)
             v == t + BackoffFor(model[ModelOf(a)].failures + 1, d)
  <2>1. /\ account' = Failed(account, a, u)
        /\ model' = [model EXCEPT ![ModelOf(a)] = Failed(model[ModelOf(a)], a, v)]
    BY <1>4 DEF RecordProviderOutcome
  <2>2. w \in Nat /\ v \in Nat /\ w <= now + MaxCooldown
    BY <1>2, FailureRetryTime
  <2> HIDE DEF w, v
  <2>3. /\ u \in Nat
        /\ account.retryAt # Null => u >= account.retryAt
        /\ u # account.retryAt => u <= now + MaxCooldown
    BY <1>2, <2>2 DEF Larger, HealthRow, NatOrNull
  <2> HIDE DEF u
  <2> QED
    BY Zenon, <2>1, <2>2, <2>3
<1> QED
  BY <1>3, <1>4

LEMMA RecordPreserves ==
  ASSUME IInv, NEW a \in Attempts, NEW success \in BOOLEAN, NEW t \in Readings,
         NEW d \in RetryAfters, RecordProviderOutcome(a, success, t, d)
  PROVE  IInv'
<1> USE BreakerAssumption
<1>1. attempt[a].proc # "none" /\ UNCHANGED <<nextToken, now>>
  BY DEF RecordProviderOutcome
<1>2. OnlyAttemptChanges(a)
  BY GoesChangesOne DEF RecordProviderOutcome, Processes, Answers
<1>3. CASE MayRecord(a)
  <2>1. PICK u \in Nat, v \in Nat :
           /\ account' \in {Succeeded(a), Failed(account, a, u)}
           /\ \E g \in {Succeeded(a), Failed(model[ModelOf(a)], a, v)} :
                model' = [model EXCEPT ![ModelOf(a)] = g]
    BY <1>3, RecordWrites
  <2>2. PICK g \in {Succeeded(a), Failed(model[ModelOf(a)], a, v)} :
           model' = [model EXCEPT ![ModelOf(a)] = g]
    BY Zenon, <2>1
  <2>3. PICK h \in {Succeeded(a), Failed(account, a, u)} : account' = h
    BY <2>1
  <2>4. /\ h \in HealthRow /\ g \in HealthRow /\ TrialColumnsAgree(h) /\ TrialColumnsAgree(g)
        /\ h.owner = Null /\ g.owner = Null /\ h.halfOpenAt = Null /\ g.halfOpenAt = Null
    BY <1>1, <2>2, <2>3, VerdictWrites
  <2> QED
    BY Zenon, <1>1, <1>2, <2>2, <2>3, <2>4, RowsPreserve
<1>4. CASE ~MayRecord(a)
  BY <1>1, <1>2, <1>4, NoRowPreserves DEF RecordProviderOutcome
<1> QED
  BY <1>3, <1>4

LEMMA NextPreserves == IInv /\ [Next]_vars => IInv'
<1> SUFFICES ASSUME IInv, [Next]_vars PROVE IInv'
  OBVIOUS
<1> USE BreakerAssumption
<1>1. ASSUME NEW a \in Attempts, NEW m \in Models, Begin(a, m) PROVE IInv'
  BY <1>1, BeginPreserves
<1>2. ASSUME NEW a \in Attempts, NEW t \in Readings, NEW lost \in BOOLEAN,
             ClaimProviderHealthTrial(a, t, lost)
      PROVE  IInv'
  BY <1>2, ClaimPreserves
<1>3. ASSUME NEW a \in Attempts, HeartbeatProviderAttempt(a) PROVE IInv'
  BY <1>3, HeartbeatPreserves
<1>4. ASSUME NEW a \in Attempts, NEW success \in BOOLEAN, NEW t \in Readings,
             NEW d \in RetryAfters, RecordProviderOutcome(a, success, t, d)
      PROVE  IInv'
  BY <1>4, RecordPreserves
<1>5. ASSUME NEW a \in Attempts, ReleaseProviderHealthTrial(a) PROVE IInv'
  BY <1>5, ReleasePreserves
<1>6. ASSUME NEW a \in Attempts,
             Settle(a) \/ DatabaseError(a) \/ Crash(a) \/ RepairExpired(a) \/ Abort(a)
      PROVE  IInv'
  BY <1>6, ProcessPreserves
<1>7. CASE Tick \/ UNCHANGED vars
  <2>1. now' \in Nat /\ UNCHANGED <<account, model, nextToken, attempt>>
    BY <1>7 DEF Tick, vars, IInv, TypeOK
  <2> QED
    BY <2>1 DEF IInv, TypeOK, TrialColumnsAgree, AttemptsBegun, AccountTrialHeldOnModel, ModelOf
<1> QED
  BY <1>1, <1>2, <1>3, <1>4, <1>5, <1>6, <1>7 DEF Next

LEMMA Invariance == Spec => []IInv
  BY InitEstablishes, NextPreserves, PTL DEF Spec

\* The health columns are well formed, and no watermark outruns the tokens that
\* allocateProviderFence has handed out.
THEOREM TypeCorrect == Spec => []TypeOK
<1>1. IInv => TypeOK
  BY DEF IInv
<1> QED
  BY Invariance, <1>1, PTL

\* claimProviderHealthTrial, heartbeatProviderAttempt, recordProviderOutcome and
\* releaseProviderHealthTrial always find the account's trial on the row of one of
\* its models too.
THEOREM AccountTrialIsHeldOnModel == Spec => []AccountTrialHeldOnModel
<1>1. IInv => AccountTrialHeldOnModel
  BY DEF IInv
<1> QED
  BY Invariance, <1>1, PTL
-----------------------------------------------------------------------------
(***************************************************************************)
(* What a step may do to a health row.                                     *)
(***************************************************************************)
RowStep(h, next) ==
  /\ next.watermark >= h.watermark
  /\ ~TakenWhileLive(h, next)

\* A row that keeps its watermark, and its owner or no owner, has made no step.
LEMMA SameRowSteps ==
  ASSUME NEW h \in HealthRow, NEW next, next.watermark = h.watermark, next.owner \in {h.owner, Null}
  PROVE  RowStep(h, next)
  BY BreakerAssumption DEF RowStep, TakenWhileLive, HealthRow

LEMMA RowsOfAccount ==
  ASSUME IInv
  PROVE  account \in HealthRow /\ model \in [Models -> HealthRow]
  BY DEF IInv, TypeOK

\* A trial with a retry time that is live now was live when the claim read its clock.
LEMMA LiveTrialRefuses ==
  ASSUME IInv, NEW t \in Readings, NEW h \in HealthRow, h.retryAt # Null, TrialLive(h, now)
  PROVE  Refuses(h, t)
<1>1. t \in Nat /\ now \in Nat /\ t <= now /\ h.halfOpenAt \in Nat /\ HalfOpenLease \in Nat
  BY BreakerAssumption DEF Readings, IInv, TypeOK, HealthRow, NatOrNull, TrialLive
<1>2. TrialLive(h, t)
  BY <1>1 DEF TrialLive
<1> QED
  BY <1>2 DEF Refuses, BreakerKind

RowsStep == RowStep(account, account') /\ \A m \in Models : RowStep(model[m], model'[m])

LEMMA UnchangedRowsStep ==
  ASSUME IInv, UNCHANGED <<account, model>>
  PROVE  RowsStep /\ CooldownStep
  BY RowsOfAccount, SameRowSteps DEF RowsStep, CooldownStep

\* Steps that write the account's row and one model's row.
LEMMA TwoRowsStep ==
  ASSUME IInv, NEW m \in Models, NEW g,
         model' = [model EXCEPT ![m] = g], RowStep(account, account'), RowStep(model[m], g)
  PROVE  RowsStep
<1>1. \A n \in Models \ {m} : model'[n] = model[n] /\ RowStep(model[n], model'[n])
  BY RowsOfAccount, SameRowSteps
<1>2. model'[m] = g
  BY RowsOfAccount
<1> QED
  BY <1>1, <1>2 DEF RowsStep

LEMMA ClaimSteps ==
  ASSUME IInv, NEW a \in Attempts, NEW t \in Readings, NEW lost \in BOOLEAN,
         ClaimProviderHealthTrial(a, t, lost)
  PROVE  RowsStep /\ CooldownStep
<1>1. attempt[a].proc # "none"
  BY DEF ClaimProviderHealthTrial
<1>2. CASE ClaimAnswer(a, t) = "HALF_OPEN"
  <2>1. /\ account' = Claimed(account, a, t)
        /\ model' = [model EXCEPT ![ModelOf(a)] = Claimed(model[ModelOf(a)], a, t)]
    BY <1>2 DEF ClaimProviderHealthTrial, ClaimedModel
  <2>2. ASSUME NEW h \in Rows(a) PROVE RowStep(h, Claimed(h, a, t))
    <3>1. h \in HealthRow /\ a \in Nat
      BY <1>1, BegunHasRows DEF Rows
    <3>2. h.watermark < a /\ ~Refuses(h, t)
      BY <1>1, <1>2, ClaimWrites
    <3>3. Claimed(h, a, t).watermark = a
      BY <3>1 DEF Claimed, HealthRow
    <3>4. ~TakenWhileLive(h, Claimed(h, a, t))
      BY <3>1, <3>2, LiveTrialRefuses DEF TakenWhileLive
    <3> QED
      BY <3>1, <3>2, <3>3, <3>4, BreakerAssumption DEF RowStep, HealthRow
  <2>3. RowsStep
    BY Zenon, <1>1, <2>1, <2>2, BegunHasRows, TwoRowsStep DEF Rows
  <2>4. CooldownStep
    BY <2>1, RowsOfAccount DEF Claimed, CooldownStep, HealthRow
  <2> QED
    BY <2>3, <2>4
<1>3. CASE ClaimAnswer(a, t) # "HALF_OPEN"
  BY <1>3, UnchangedRowsStep DEF ClaimProviderHealthTrial
<1> QED
  BY <1>2, <1>3

LEMMA HeartbeatSteps ==
  ASSUME IInv, NEW a \in Attempts, HeartbeatProviderAttempt(a)
  PROVE  RowsStep /\ CooldownStep
<1> DEFINE Renewed(r) == [r EXCEPT !.halfOpenAt = now]
<1>1. attempt[a].proc # "none"
  BY DEF HeartbeatProviderAttempt
<1>2. CASE MayRenew(a) /\ OwnsTrial(a)
  <2>1. account' = Renewed(account) /\ model' = [model EXCEPT ![ModelOf(a)] = Renewed(model[ModelOf(a)])]
    BY <1>2 DEF HeartbeatProviderAttempt
  <2>2. ASSUME NEW h \in HealthRow
        PROVE  RowStep(h, Renewed(h)) /\ Renewed(h).retryAt = h.retryAt
    BY SameRowSteps DEF HealthRow
  <2> HIDE DEF Renewed
  <2>3. RowsStep
    BY Zenon, <1>1, <2>1, <2>2, BegunHasRows, TwoRowsStep
  <2>4. CooldownStep
    BY <2>1, <2>2, RowsOfAccount DEF CooldownStep
  <2> QED
    BY <2>3, <2>4
<1>3. CASE ~(MayRenew(a) /\ OwnsTrial(a))
  BY <1>3, UnchangedRowsStep DEF HeartbeatProviderAttempt
<1> QED
  BY <1>2, <1>3

LEMMA ReleaseSteps ==
  ASSUME IInv, NEW a \in Attempts, ReleaseProviderHealthTrial(a)
  PROVE  RowsStep /\ CooldownStep
<1> DEFINE Cleared(r) == [r EXCEPT !.halfOpenAt = Null, !.owner = Null]
<1>1. attempt[a].proc # "none"
  BY DEF ReleaseProviderHealthTrial
<1>2. CASE OwnsTrial(a)
  <2>1. account' = Cleared(account) /\ model' = [model EXCEPT ![ModelOf(a)] = Cleared(model[ModelOf(a)])]
    BY <1>2 DEF ReleaseProviderHealthTrial
  <2>2. ASSUME NEW h \in HealthRow
        PROVE  RowStep(h, Cleared(h)) /\ Cleared(h).retryAt = h.retryAt
    <3>1. /\ Cleared(h).watermark = h.watermark /\ Cleared(h).owner = Null
          /\ Cleared(h).retryAt = h.retryAt
      BY DEF HealthRow
    <3> HIDE DEF Cleared
    <3> QED
      BY <3>1, SameRowSteps
  <2> HIDE DEF Cleared
  <2>3. RowsStep
    BY Zenon, <1>1, <2>1, <2>2, BegunHasRows, TwoRowsStep
  <2>4. CooldownStep
    BY <2>1, <2>2, RowsOfAccount DEF CooldownStep
  <2> QED
    BY <2>3, <2>4
<1>3. CASE ~OwnsTrial(a)
  BY <1>3, UnchangedRowsStep DEF ReleaseProviderHealthTrial
<1> QED
  BY <1>2, <1>3

LEMMA RecordSteps ==
  ASSUME IInv, NEW a \in Attempts, NEW success \in BOOLEAN, NEW t \in Readings,
         NEW d \in RetryAfters, RecordProviderOutcome(a, success, t, d)
  PROVE  RowsStep /\ CooldownStep
<1>1. attempt[a].proc # "none"
  BY DEF RecordProviderOutcome
<1>2. CASE MayRecord(a)
  <2>1. PICK u \in Nat, v \in Nat :
           /\ \/ account' = Succeeded(a)
              \/ /\ account' = Failed(account, a, u)
                 /\ account.retryAt # Null => u >= account.retryAt
                 /\ u # account.retryAt => u <= now + MaxCooldown
           /\ \E g \in {Succeeded(a), Failed(model[ModelOf(a)], a, v)} :
                model' = [model EXCEPT ![ModelOf(a)] = g]
    BY <1>2, RecordWrites
  <2>2. PICK g \in {Succeeded(a), Failed(model[ModelOf(a)], a, v)} :
           model' = [model EXCEPT ![ModelOf(a)] = g]
    BY Zenon, <2>1
  <2>3. /\ account'.watermark = a /\ account'.owner = Null
        /\ g.watermark = a /\ g.owner = Null
    BY <1>1, <2>1, <2>2, VerdictWrites
  <2>4. a >= account.watermark /\ a >= model[ModelOf(a)].watermark
    BY <1>2 DEF MayRecord, Rows
  <2>5. RowStep(account, account') /\ RowStep(model[ModelOf(a)], g)
    BY <2>3, <2>4 DEF RowStep, TakenWhileLive
  <2>6. RowsStep
    BY Zenon, <1>1, <2>2, <2>5, BegunHasRows, TwoRowsStep
  <2>7. CooldownStep
    BY <2>1, BreakerAssumption DEF CooldownStep, Succeeded, Closed, Failed
  <2> QED
    BY <2>6, <2>7
<1>3. CASE ~MayRecord(a)
  BY <1>3, UnchangedRowsStep DEF RecordProviderOutcome
<1> QED
  BY <1>2, <1>3

LEMMA NextSteps ==
  ASSUME IInv, [Next]_vars
  PROVE  RowsStep /\ CooldownStep
<1>1. ASSUME NEW a \in Attempts, NEW t \in Readings, NEW lost \in BOOLEAN,
             ClaimProviderHealthTrial(a, t, lost)
      PROVE  RowsStep /\ CooldownStep
  BY <1>1, ClaimSteps
<1>2. ASSUME NEW a \in Attempts, HeartbeatProviderAttempt(a) PROVE RowsStep /\ CooldownStep
  BY <1>2, HeartbeatSteps
<1>3. ASSUME NEW a \in Attempts, NEW success \in BOOLEAN, NEW t \in Readings,
             NEW d \in RetryAfters, RecordProviderOutcome(a, success, t, d)
      PROVE  RowsStep /\ CooldownStep
  BY <1>3, RecordSteps
<1>4. ASSUME NEW a \in Attempts, ReleaseProviderHealthTrial(a) PROVE RowsStep /\ CooldownStep
  BY <1>4, ReleaseSteps
<1>5. CASE UNCHANGED <<account, model>>
  BY <1>5, UnchangedRowsStep
<1>6. ASSUME NEW a \in Attempts,
             \/ \E m \in Models : Begin(a, m)
             \/ Settle(a) \/ DatabaseError(a) \/ Crash(a) \/ RepairExpired(a) \/ Abort(a)
      PROVE  UNCHANGED <<account, model>>
  BY <1>6 DEF Begin, Settle, DatabaseError, Crash, RepairExpired, Abort
<1>7. Tick \/ UNCHANGED vars => UNCHANGED <<account, model>>
  BY DEF Tick, vars
<1> QED
  BY <1>1, <1>2, <1>3, <1>4, <1>5, <1>6, <1>7 DEF Next

\* claimProviderHealthTrial takes over a trial of a breaker that is not closed only
\* when the lease its heartbeats renew has lapsed.
THEOREM TrialsAreTakenAfterLapse == Spec => TrialTakenOnlyAfterLapse
<1>1. IInv /\ [Next]_vars => [/\ ~TakenWhileLive(account, account')
                              /\ \A m \in Models : ~TakenWhileLive(model[m], model'[m])]_vars
  BY NextSteps DEF RowsStep, RowStep
<1> QED
  BY Invariance, <1>1, PTL DEF Spec, TrialTakenOnlyAfterLapse

\* The fencing watermarks that recordProviderOutcome and claimProviderHealthTrial
\* compare with never fall, so what an earlier attempt sends late is refused.
THEOREM LateAnswersFenced == Spec => LateAnswersAreFenced
<1>1. IInv /\ [Next]_vars
        => [account'.watermark >= account.watermark
              /\ \A m \in Models : model'[m].watermark >= model[m].watermark]_vars
  BY NextSteps DEF RowsStep, RowStep
<1> QED
  BY Invariance, <1>1, PTL DEF Spec, LateAnswersAreFenced

\* recordProviderOutcome is the only writer of the account's retry time: it clears
\* it on a success, and otherwise moves it forward by no more than the maximum.
THEOREM CooldownIsHonoured == Spec => CooldownHonoured
<1>1. IInv /\ [Next]_vars => [CooldownStep]_vars
  BY NextSteps
<1> QED
  BY Invariance, <1>1, PTL DEF Spec, CooldownHonoured
=============================================================================
