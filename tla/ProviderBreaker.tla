--------------------------- MODULE ProviderBreaker ---------------------------
(***************************************************************************)
(* The circuit breaker of a cloud provider account and its models          *)
(* (provider-attempt-runtime.ts, provider-health-state.ts) and the         *)
(* attempts that pass through it (public-overflow.ts).  An account row and *)
(* a model row each hold a retry time, a half-open trial (when it was last *)
(* renewed and by whom) and a fencing watermark; every action is one       *)
(* transaction that locks the account row, then the model row.  The        *)
(* process of an attempt may crash at any point, and an answer of the      *)
(* database may be lost.  An attempt is named by its fencing token.        *)
(***************************************************************************)
EXTENDS Naturals, Optional

CONSTANTS Models,
          MaxAttempts,    \* fencing tokens followed
          Backoff,        \* backoffMs by failure count, the last entry for all above
          RetryAfters,    \* the retry-after delays a provider may answer, 0 for none
          MaxCooldown,    \* PROVIDER_MAX_COOLDOWN_MS
          HalfOpenLease,  \* PROVIDER_HALF_OPEN_LEASE_MS
          Ttl,            \* an attempt row's life without a heartbeat
          Lag,            \* how long a transaction may wait after reading the clock
          Faults,         \* what may go wrong: "crash", "lost", "abort", "dbError"
          MaxTime

ASSUME BreakerAssumption ==
  /\ Null \notin Nat
  /\ Backoff \in [1 .. 2 -> Nat \ {0}] /\ RetryAfters \subseteq Nat
  /\ {MaxCooldown, HalfOpenLease, Ttl} \subseteq Nat \ {0}
  /\ {MaxAttempts, Lag, MaxTime} \subseteq Nat
  /\ Faults \subseteq {"crash", "lost", "abort", "dbError"}

VARIABLES
  account,    \* health columns of the provider account
  model,      \* health columns of each of its models
  nextToken,  \* nextFencingToken of the account
  attempt,    \* the attempt rows, with the model and the process of each, and the
              \* answer of the breaker it acts on
  now

Attempts == 1 .. MaxAttempts
vars == <<account, model, nextToken, attempt, now>>

Closed == [failures |-> 0, retryAt |-> Null, halfOpenAt |-> Null, owner |-> Null, watermark |-> 0]
NoAttempt == [model |-> Null, row |-> "none", expires |-> 0, proc |-> "none",
              answer |-> Null]

Init ==
  /\ account = Closed
  /\ model = [m \in Models |-> Closed]
  /\ nextToken = 0
  /\ attempt = [a \in Attempts |-> NoAttempt]
  /\ now = 0

ModelOf(a) == attempt[a].model
Rows(a) == {account, model[ModelOf(a)]}

\* The process of an attempt goes on to its next step.
Goes(a, proc, answer) ==
  attempt' = [attempt EXCEPT ![a] = [attempt[a] EXCEPT !.proc = proc, !.answer = answer]]

(***************************************************************************)
(* The breaker a row encodes.                                              *)
(***************************************************************************)
TrialLive(h, t) == h.halfOpenAt # Null /\ h.halfOpenAt + HalfOpenLease > t

BreakerKind(h, t) ==
  CASE h.retryAt = Null -> "closed"
    [] h.retryAt # Null /\ h.retryAt > t -> "open"
    [] OTHER -> "half_open"

Refuses_IgnoresTrial(h, t) == BreakerKind(h, t) = "open"

Refuses(h, t) ==
  \/ BreakerKind(h, t) = "open"
  \/ BreakerKind(h, t) = "half_open" /\ TrialLive(h, t)

Unclaimed(h) == h.owner = Null
OwnsTrial(a) == \A h \in Rows(a) : h.owner = a

(***************************************************************************)
(* The life of an attempt.  The process takes a fencing token and writes   *)
(* the attempt row before it asks the breaker.                             *)
(***************************************************************************)
Begin(a, m) ==
  /\ a = nextToken + 1
  /\ nextToken' = a
  /\ attempt' = [attempt EXCEPT ![a] = [model |-> m, row |-> "ACTIVE", expires |-> now + Ttl,
                                       proc |-> "begun", answer |-> Null]]
  /\ UNCHANGED <<account, model, now>>

\* What claimProviderHealthTrial answers on the clock it read before its locks.
ClaimAnswer(a, t) ==
  CASE \E h \in Rows(a) : a <= h.watermark -> "COOLDOWN"
    [] \A h \in Rows(a) : BreakerKind(h, t) = "closed" -> "READY"
    [] \E h \in Rows(a) : Refuses(h, t) -> "COOLDOWN"
    [] OTHER -> "HALF_OPEN"

Claimed(h, a, t) ==
  [h EXCEPT !.halfOpenAt = t, !.owner = a, !.watermark = a]

ClaimedModel_IfHalfOpen(a, t) ==
  IF BreakerKind(model[ModelOf(a)], t) = "closed" THEN model
  ELSE [model EXCEPT ![ModelOf(a)] = Claimed(@, a, t)]

ClaimedModel(a, t) == [model EXCEPT ![ModelOf(a)] = Claimed(@, a, t)]

ClaimProviderHealthTrial(a, t, lost) ==
  LET answer == ClaimAnswer(a, t) IN
  /\ attempt[a].proc = "begun"
  /\ lost => "lost" \in Faults
  /\ IF answer = "HALF_OPEN"
     THEN /\ account' = Claimed(account, a, t)
          /\ model' = ClaimedModel(a, t)
     ELSE UNCHANGED <<account, model>>
  /\ Goes(a, IF lost \/ answer = "COOLDOWN" THEN "settling" ELSE "running", answer)
  /\ UNCHANGED <<nextToken, now>>

\* heartbeatProviderAttempt: renews the row, and the trial of its owner.
MayRenew(a) ==
  /\ OwnsTrial(a) \/ \A h \in Rows(a) : Unclaimed(h)
  /\ attempt[a].row = "ACTIVE" /\ attempt[a].expires > now

HeartbeatProviderAttempt(a) ==
  /\ attempt[a].proc \in {"running", "recorded"}
  /\ IF MayRenew(a)
     THEN /\ attempt' = [attempt EXCEPT ![a].expires = now + Ttl]
          /\ IF OwnsTrial(a)
             THEN /\ account' = [account EXCEPT !.halfOpenAt = now]
                  /\ model' = [model EXCEPT ![ModelOf(a)].halfOpenAt = now]
             ELSE UNCHANGED <<account, model>>
     ELSE /\ attempt' = [attempt EXCEPT ![a].proc = IF @ = "running" THEN "aborted" ELSE @]
          /\ UNCHANGED <<account, model>>
  /\ UNCHANGED <<nextToken, now>>

\* The heartbeat fails, the client goes away or the send claim fails.
Abort(a) ==
  /\ "abort" \in Faults
  /\ attempt[a].proc = "running"
  /\ Goes(a, "aborted", Null)
  /\ UNCHANGED <<account, model, nextToken, now>>

(***************************************************************************)
(* The verdict of an attempt.                                              *)
(***************************************************************************)
Larger(x, y) == IF x >= y THEN x ELSE y
Smaller(x, y) == IF x <= y THEN x ELSE y

BackoffFor(failures, retryAfter) ==
  Smaller(MaxCooldown, Larger(Backoff[Smaller(failures, 2)], retryAfter))

MayRecord_Unfenced(a) ==
  /\ attempt[a].row = "ACTIVE" /\ attempt[a].expires > now
  /\ \A h \in Rows(a) : Unclaimed(h) \/ h.owner = a

MayRecord(a) ==
  /\ attempt[a].row = "ACTIVE" /\ attempt[a].expires > now
  /\ \A h \in Rows(a) : /\ Unclaimed(h) \/ h.owner = a
                        /\ a >= h.watermark

Succeeded(a) == [Closed EXCEPT !.watermark = a]

Failed(h, a, retryAt) ==
  [failures |-> Smaller(h.failures + 1, 2), retryAt |-> retryAt,
   halfOpenAt |-> Null, owner |-> Null, watermark |-> a]

RecordProviderOutcome(a, success, t, retryAfter) ==
  LET m == ModelOf(a)
      retryAt(h) == t + BackoffFor(h.failures + 1, retryAfter) IN
  /\ attempt[a].proc = "running"
  /\ IF ~MayRecord(a) THEN UNCHANGED <<account, model>>
     ELSE IF success
     THEN account' = Succeeded(a) /\ model' = [model EXCEPT ![m] = Succeeded(a)]
     ELSE /\ model' = [model EXCEPT ![m] = Failed(@, a, retryAt(@))]
          /\ account' = Failed(account, a,
               IF account.retryAt = Null THEN retryAt(account)
               ELSE Larger(account.retryAt, retryAt(account)))
  /\ Goes(a, "recorded", Null)
  /\ UNCHANGED <<nextToken, now>>

\* An attempt without a verdict hands its trial back.
ReleaseProviderHealthTrial(a) ==
  LET Cleared(h) == [h EXCEPT !.halfOpenAt = Null, !.owner = Null] IN
  /\ attempt[a].proc \in {"running", "aborted"}
  /\ IF OwnsTrial(a)
     THEN /\ account' = Cleared(account)
          /\ model' = [model EXCEPT ![ModelOf(a)] = Cleared(@)]
     ELSE UNCHANGED <<account, model>>
  /\ Goes(a, "settling", Null)
  /\ UNCHANGED <<nextToken, now>>

\* reconcileProviderBudget ends the row.
Settle(a) ==
  /\ attempt[a].proc \in {"recorded", "settling"}
  /\ attempt' = [attempt EXCEPT ![a] = [attempt[a] EXCEPT !.proc = "gone", !.row = "ENDED"]]
  /\ UNCHANGED <<account, model, nextToken, now>>

\* A transaction of the process fails without effect: a failed claim is taken for
\* a cooldown, every other failure is ignored.
DatabaseError(a) ==
  /\ "dbError" \in Faults
  /\ \E step \in {<<"begun", "settling">>, <<"running", "recorded">>, <<"aborted", "settling">>,
                  <<"recorded", "gone">>, <<"settling", "gone">>} :
       /\ attempt[a].proc = step[1]
       /\ Goes(a, step[2], Null)
  /\ UNCHANGED <<account, model, nextToken, now>>

Crash(a) ==
  /\ "crash" \in Faults
  /\ attempt[a].proc \notin {"none", "gone"}
  /\ Goes(a, "gone", Null)
  /\ UNCHANGED <<account, model, nextToken, now>>

RepairExpired(a) ==
  /\ attempt[a].row = "ACTIVE" /\ attempt[a].expires <= now
  /\ attempt' = [attempt EXCEPT ![a].row = "ENDED"]
  /\ UNCHANGED <<account, model, nextToken, now>>

Tick == now < MaxTime /\ now' = now + 1 /\ UNCHANGED <<account, model, nextToken, attempt>>

\* A clock reading that waited for the row locks.
Readings == {t \in 0 .. now : now - t <= Lag}

Next ==
  \/ \E a \in Attempts :
       \/ \E m \in Models : Begin(a, m)
       \/ \E t \in Readings, lost \in BOOLEAN : ClaimProviderHealthTrial(a, t, lost)
       \/ HeartbeatProviderAttempt(a)
       \/ Abort(a)
       \/ \E success \in BOOLEAN, t \in Readings, d \in RetryAfters :
            RecordProviderOutcome(a, success, t, d)
       \/ ReleaseProviderHealthTrial(a)
       \/ Settle(a) \/ DatabaseError(a) \/ Crash(a) \/ RepairExpired(a)
  \/ Tick

Spec == Init /\ [][Next]_vars
-----------------------------------------------------------------------------
HealthRow ==
  [failures : 0 .. 2, retryAt : NatOrNull, halfOpenAt : NatOrNull,
   owner : Attempts \cup {Null}, watermark : 0 .. MaxAttempts]
Processes == {"none", "begun", "running", "aborted", "recorded", "settling", "gone"}
Answers == {"READY", "HALF_OPEN", "COOLDOWN", Null}
AttemptRow ==
  [model : Models \cup {Null}, row : {"none", "ACTIVE", "ENDED"}, expires : Nat,
   proc : Processes, answer : Answers]

TrialColumnsAgree(h) ==
  /\ (h.owner = Null) <=> (h.halfOpenAt = Null)
  /\ h.owner # Null => h.owner <= h.watermark
  /\ h.watermark <= nextToken

\* The columns hold what the schema allows: a trial has a start and an owner, and
\* its token is covered by the row's watermark, which never outruns the tokens
\* handed out.
TypeOK ==
  /\ account \in HealthRow /\ model \in [Models -> HealthRow]
  /\ nextToken \in 0 .. MaxAttempts /\ attempt \in [Attempts -> AttemptRow] /\ now \in Nat
  /\ TrialColumnsAgree(account) /\ \A m \in Models : TrialColumnsAgree(model[m])

\* The account's trial is always the trial of one of its models as well, renewed
\* at the same instant, so that no verdict or release finds only half of it.
AccountTrialHeldOnModel ==
  account.owner # Null
    => LET h == model[ModelOf(account.owner)] IN
         h.owner = account.owner /\ h.halfOpenAt = account.halfOpenAt

TakenWhileLive(h, next) ==
  /\ h.retryAt # Null /\ TrialLive(h, now)
  /\ h.owner # Null /\ next.owner \notin {Null, h.owner}

\* Until a verdict closes the breaker, a trial passes from one attempt to another
\* only once its lease has lapsed.
TrialTakenOnlyAfterLapse ==
  [][/\ ~TakenWhileLive(account, account')
     /\ \A m \in Models : ~TakenWhileLive(model[m], model'[m])]_vars

\* A verdict or a claim never takes effect after one of a later attempt on the
\* account: the watermark outlives the trial it fenced.
LateAnswersAreFenced ==
  [][account'.watermark >= account.watermark
       /\ \A m \in Models : model'[m].watermark >= model[m].watermark]_vars

CooldownStep ==
  account'.retryAt # account.retryAt
    => \/ account'.retryAt = Null /\ account'.failures = 0
       \/ /\ account'.retryAt # Null /\ account'.retryAt <= now + MaxCooldown
          /\ account.retryAt # Null => account'.retryAt >= account.retryAt

\* Only a success ends or shortens the account's cooldown, and no answer of a
\* provider makes it longer than the maximum.
CooldownHonoured == [][CooldownStep]_vars

\* An attempt that is let in while no trial is live can renew its lease: a trial
\* whose lease has lapsed holds nobody up.
HalfOpenIsALease ==
  [][\A a \in Attempts :
       (/\ attempt[a].proc = "begun" /\ attempt'[a].answer = "READY"
        /\ attempt[a].row = "ACTIVE" /\ attempt[a].expires > now
        /\ \A h \in Rows(a) : ~TrialLive(h, now))
         => MayRenew(a)']_vars
=============================================================================
