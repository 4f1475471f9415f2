----------------------------- MODULE SpendBudget -----------------------------
(***************************************************************************)
(* The monthly spend caps of cloud accounts and shares (provider-budget.ts, *)
(* spend.ts) against the attempts that spend.  An attempt reserves what it  *)
(* may cost at most, its liability, and is settled once its cost is known;  *)
(* what a crashed process leaves behind is settled at the liability.  An    *)
(* admission holds the fences of its account and its share from the first   *)
(* step to the last, but settlements, repairs and heartbeats run between    *)
(* its statements.                                                          *)
(***************************************************************************)
EXTENDS Integers, FiniteSetsExt, Optional

CONSTANTS Attempts, Accounts, Shares, Currencies,
          Liabilities,   \* what an attempt may be admitted to cost
          Costs,         \* what a provider may report
          Limits,        \* the limits a cap may be set to
          Ttl,           \* an attempt row's life without a heartbeat
          Skew,          \* how far a server's clock may be off the database's
          MaxListed,     \* bound on the servers that have an attempt listed as expired
          MonthLength, MaxTime

Subjects == Accounts \cup Shares   \* what a cap may be set on
Sequences == {0, 1}   \* 0 a crash repair, 1 the report of the attempt's process

AttemptRow == [proc : {"idle", "admitting", "admitted", "gone"}, subjects : SUBSET Subjects,
               liability : NatOrNull, currency : Currencies \cup {Null},
               row : {"none", "ACTIVE", "ENDED"}, expires : Nat]
Revision == [cost : NatOrNull, currency : Currencies \cup {Null}, at : Nat]
SpendCap == [limit : Nat, currency : Currencies]
Admission == [at : Nat, unchecked : SUBSET Subjects]

ASSUME SpendAssumption ==
  /\ Null \notin Nat /\ Null \notin Currencies /\ Null \notin Subjects
  /\ Null \notin Revision /\ Null \notin SpendCap /\ Null \notin Admission
  /\ Accounts \cap Shares = {}
  /\ Liabilities \cup Costs \cup Limits \subseteq Nat
  /\ {Ttl, MonthLength} \subseteq Nat \ {0} /\ {Skew, MaxListed, MaxTime} \subseteq Nat

VARIABLES
  attempt,    \* attempt rows, and the process behind each
  admission,  \* the admission transaction of an attempt: its clock and the caps it has yet to check
  ledger,     \* usage_ledger: the revision of each attempt by its sequence number, 0 or 1
  cap,        \* the cap of each account and share
  repairs,    \* expired attempts a server has listed and not yet repaired
  now

vars == <<attempt, admission, ledger, cap, repairs, now>>

MonthOf(t) == t \div MonthLength

\* What a server may read on its own clock.
ServerClock == (now - Skew .. now + Skew) \cap Nat

NoAttempt == [proc |-> "idle", subjects |-> {}, liability |-> Null, currency |-> Null,
              row |-> "none", expires |-> 0]

Init ==
  /\ attempt = [a \in Attempts |-> NoAttempt]
  /\ admission = [a \in Attempts |-> Null]
  /\ ledger = [a \in Attempts |-> [q \in Sequences |-> Null]]
  /\ cap = [s \in Subjects |-> Null]
  /\ repairs = {}
  /\ now = 0

(***************************************************************************)
(* What a subject has spent: the latest revision of every attempt settled   *)
(* in the month, and the liability of every attempt in flight.              *)
(***************************************************************************)
Revisions(a) == {q \in Sequences : ledger[a][q] # Null}
Latest(a) == ledger[a][Max(Revisions(a))]

MonthSettled_OfLatest(a) == MonthOf(Latest(a).at)

\* An attempt belongs to the month of its first revision.
MonthSettled(a) == MonthOf(Min({ledger[a][q].at : q \in Revisions(a)}))

InFlight(a) == attempt[a].row = "ACTIVE" /\ Revisions(a) = {}

SpentBy(a, currency, month) ==
  IF /\ Revisions(a) # {}
     /\ MonthSettled(a) = month
     /\ Latest(a).cost # Null /\ Latest(a).currency = currency
  THEN Latest(a).cost ELSE 0

ReservedBy(a, currency) ==
  IF InFlight(a) /\ attempt[a].currency = currency THEN attempt[a].liability ELSE 0

AttemptsOn(s) == {a \in Attempts : s \in attempt[a].subjects}

Spend(s, currency, month) ==
  MapThenSumSet(LAMBDA a : SpentBy(a, currency, month) + ReservedBy(a, currency), AttemptsOn(s))

(***************************************************************************)
(* admitProviderBudget.                                                     *)
(***************************************************************************)
FenceFree_CappedOnly(s) ==
  cap[s] # Null => \A a \in Attempts : admission[a] # Null => s \notin attempt[a].subjects

\* Nobody else is admitting on the subject.
FenceFree(s) == \A a \in Attempts : admission[a] # Null => s \notin attempt[a].subjects

Capped(S) == {s \in S : cap[s] # Null}

\* The transaction is rolled back and the attempt given up.
RollBack(a) ==
  /\ attempt' = [attempt EXCEPT ![a] = [NoAttempt EXCEPT !.proc = "gone"]]
  /\ admission' = [admission EXCEPT ![a] = Null]

\* The fences are held and the caps and the clock are read.  A cap demands a price
\* in its currency; without one the attempt is refused
\* and nothing is written.
BeginAdmission(a, account, share, liability, currency, expires) ==
  LET S == {account, share} \ {Null} IN
  /\ attempt[a].proc = "idle"
  /\ \A s \in S : FenceFree(s)
  /\ (liability = Null) <=> (currency = Null)
  /\ expires > now
  /\ \A s \in Capped(S) : cap[s].currency = currency
  /\ attempt' = [attempt EXCEPT ![a] =
       [proc |-> "admitting", subjects |-> S, liability |-> liability, currency |-> currency,
        row |-> "none", expires |-> expires]]
  /\ admission' = [admission EXCEPT ![a] = [at |-> now, unchecked |-> Capped(S)]]
  /\ UNCHANGED <<ledger, cap, repairs, now>>

\* One statement reads what is settled and what is reserved; the account goes first.
CheckCap(a) ==
  LET unchecked == admission[a].unchecked
      s == IF unchecked \cap Accounts # {} THEN CHOOSE x \in unchecked \cap Accounts : TRUE
           ELSE CHOOSE x \in unchecked : TRUE IN
  /\ admission[a] # Null /\ unchecked # {}
  /\ IF Spend(s, attempt[a].currency, MonthOf(admission[a].at)) + attempt[a].liability > cap[s].limit
     THEN RollBack(a)
     ELSE /\ admission' = [admission EXCEPT ![a].unchecked = @ \ {s}]
          /\ UNCHANGED attempt
  /\ UNCHANGED <<ledger, cap, repairs, now>>

\* The attempt row is written and the transaction commits; its answer may be lost.
CreateAttempt(a, lost) ==
  /\ admission[a] # Null /\ admission[a].unchecked = {}
  /\ attempt' = [attempt EXCEPT
       ![a] = [attempt[a] EXCEPT !.row = "ACTIVE", !.proc = IF lost THEN "gone" ELSE "admitted"]]
  /\ admission' = [admission EXCEPT ![a] = Null]
  /\ UNCHANGED <<ledger, cap, repairs, now>>

\* No price is in effect, the transaction fails or its process dies.
AbandonAdmission(a) ==
  /\ admission[a] # Null
  /\ RollBack(a)
  /\ UNCHANGED <<ledger, cap, repairs, now>>

(***************************************************************************)
(* reconcileProviderBudget.                                                 *)
(***************************************************************************)
\* The cost a revision states.  Only a complete cost in the attempt's own price
\* replaces its liability; an attempt without a price keeps what was reported.
RevisionCost(a, sent, cost, currency) ==
  CASE ~sent -> 0
    [] sent /\ cost # Null /\ attempt[a].liability # Null /\ currency = attempt[a].currency -> cost
    [] OTHER -> IF attempt[a].liability = Null THEN cost ELSE attempt[a].liability

CostCurrency(a, currency) == IF attempt[a].liability = Null THEN currency ELSE attempt[a].currency

Append(a, q, cost, currency) ==
  ledger' = [ledger EXCEPT ![a][q] = [cost |-> cost, currency |-> currency, at |-> now]]

\* finalize: an attempt ends with its first revision.
Ended(row) == IF row = "ACTIVE" THEN "ENDED" ELSE row

\* The process reports what became of its attempt.  A cost in the attempt's own
\* price is at most its liability.
ReportTerminal(a, sent, cost, currency) ==
  /\ attempt[a].proc = "admitted"
  /\ (cost = Null) <=> (currency = Null)
  /\ ~sent => cost = Null
  /\ cost # Null /\ currency = attempt[a].currency => cost <= attempt[a].liability
  /\ Append(a, 1, RevisionCost(a, sent, cost, currency), CostCurrency(a, currency))
  /\ attempt' = [attempt EXCEPT
       ![a] = [attempt[a] EXCEPT !.proc = "gone", !.row = Ended(attempt[a].row)]]
  /\ UNCHANGED <<admission, cap, repairs, now>>

\* The process dies, or its report fails.
Crash(a) ==
  /\ attempt[a].proc = "admitted"
  /\ attempt' = [attempt EXCEPT ![a].proc = "gone"]
  /\ UNCHANGED <<admission, ledger, cap, repairs, now>>

\* heartbeatProviderAttempt, as far as it concerns the row, on the server's clock.
Heartbeat(a, at) ==
  /\ attempt[a].proc = "admitted" /\ attempt[a].row = "ACTIVE" /\ attempt[a].expires > at
  /\ attempt' = [attempt EXCEPT ![a].expires = at + Ttl]
  /\ UNCHANGED <<admission, ledger, cap, repairs, now>>

(***************************************************************************)
(* repairExpiredProviderBudgets: every server lists expired attempts on its *)
(* own clock and repairs each in a transaction of its own.                  *)
(***************************************************************************)
Listed(a) == {r \in repairs : r.attempt = a}

ListExpired_PricedOnly(a, at) ==
  /\ attempt[a].row = "ACTIVE" /\ attempt[a].expires <= at /\ attempt[a].liability # Null
  /\ [attempt |-> a, at |-> at] \notin repairs /\ Cardinality(Listed(a)) < MaxListed
  /\ repairs' = repairs \cup {[attempt |-> a, at |-> at]}
  /\ UNCHANGED <<attempt, admission, ledger, cap, now>>

ListExpired(a, at) ==
  /\ attempt[a].row = "ACTIVE" /\ attempt[a].expires <= at
  /\ [attempt |-> a, at |-> at] \notin repairs /\ Cardinality(Listed(a)) < MaxListed
  /\ repairs' = repairs \cup {[attempt |-> a, at |-> at]}
  /\ UNCHANGED <<attempt, admission, ledger, cap, now>>

StillExpired_Listed(r) == TRUE

\* Expired on the database's clock, and not renewed since it was listed.
StillExpired(r) == attempt[r.attempt].expires <= now /\ attempt[r.attempt].expires <= r.at

\* repairExpiredAttempt: an attempt with a revision only ends, another is settled
\* at its liability.
RepairExpired(r) ==
  LET a == r.attempt
      end == attempt' = [attempt EXCEPT ![a].row = Ended(@)] IN
  /\ CASE Revisions(a) # {} -> end /\ UNCHANGED ledger
       [] Revisions(a) = {} /\ StillExpired(r) ->
            end /\ Append(a, 0, RevisionCost(a, TRUE, Null, Null), CostCurrency(a, Null))
       [] OTHER -> UNCHANGED <<attempt, ledger>>
  /\ repairs' = repairs \ {r}
  /\ UNCHANGED <<admission, cap, now>>

(***************************************************************************)
(* The owner sets and clears caps under the fence of the subject.           *)
(***************************************************************************)
\* The currencies with spend in the month, or with a reservation.
SpentIn(s, at) ==
  {c \in Currencies : \E a \in AttemptsOn(s) : SpentBy(a, c, MonthOf(at)) + ReservedBy(a, c) > 0}

SetCap(s, limit, currency, at) ==
  /\ FenceFree(s)
  /\ SpentIn(s, at) \subseteq {currency}
  /\ cap' = [cap EXCEPT ![s] = [limit |-> limit, currency |-> currency]]
  /\ UNCHANGED <<attempt, admission, ledger, repairs, now>>

ClearCap(s) ==
  /\ FenceFree(s)
  /\ cap[s] # Null
  /\ cap' = [cap EXCEPT ![s] = Null]
  /\ UNCHANGED <<attempt, admission, ledger, repairs, now>>

Tick == now < MaxTime /\ now' = now + 1 /\ UNCHANGED <<attempt, admission, ledger, cap, repairs>>

Next ==
  \/ \E a \in Attempts :
       \/ \E account \in Accounts, share \in Shares \cup {Null},
             liability \in Liabilities \cup {Null}, currency \in Currencies \cup {Null},
             expires \in now + 1 .. now + Ttl + Skew :
            BeginAdmission(a, account, share, liability, currency, expires)
       \/ CheckCap(a)
       \/ \E lost \in BOOLEAN : CreateAttempt(a, lost)
       \/ AbandonAdmission(a)
       \/ \E sent \in BOOLEAN, cost \in Costs \cup {Null}, currency \in Currencies \cup {Null} :
            ReportTerminal(a, sent, cost, currency)
       \/ Crash(a)
       \/ \E at \in ServerClock : Heartbeat(a, at) \/ ListExpired(a, at)
  \/ \E r \in repairs : RepairExpired(r)
  \/ \E s \in Subjects :
       \/ \E limit \in Limits, currency \in Currencies, at \in ServerClock :
            SetCap(s, limit, currency, at)
       \/ ClearCap(s)
  \/ Tick

Spec == Init /\ [][Next]_vars

RepairOf(a) == \E r \in Listed(a) : RepairExpired(r)

\* Every server runs the repair every minute, and time passes.
Fairness ==
  /\ WF_vars(Tick)
  /\ \A a \in Attempts : WF_vars(ListExpired(a, now)) /\ WF_vars(RepairOf(a))

FairSpec == Spec /\ Fairness
-----------------------------------------------------------------------------
Admits(a) == attempt[a].row = "none" /\ attempt'[a].row = "ACTIVE"

\* Every attempt on the subject has a price: one without was admitted before there
\* was a cap, and its cost is not known before it is settled.
AllPriced(s) == \A a \in AttemptsOn(s) : attempt[a].liability # Null

Months == 0 .. MonthOf(MaxTime)

\* No cap on the attempt is exceeded in the month.
WithinCaps(a, month) ==
  \A s \in Capped(attempt[a].subjects) : AllPriced(s) => Spend(s, cap[s].currency, month) <= cap[s].limit

\* The tables are well formed; exactly the attempts being admitted have a transaction,
\* so no fence outlives its admission.
TypeOK ==
  /\ attempt \in [Attempts -> AttemptRow]
  /\ admission \in [Attempts -> Admission \cup {Null}]
  /\ ledger \in [Attempts -> [Sequences -> Revision \cup {Null}]]
  /\ cap \in [Subjects -> SpendCap \cup {Null}]
  /\ repairs \subseteq [attempt : Attempts, at : Nat]
  /\ now \in Nat
  /\ \A a \in Attempts : /\ (admission[a] # Null) <=> (attempt[a].proc = "admitting")
                         /\ (attempt[a].liability = Null) <=> (attempt[a].currency = Null)

\* Once an attempt is admitted, no cap on it is exceeded in the month in which it was
\* admitted: two admissions that each find room never exceed a cap together, whatever
\* is settled, corrected or repaired between the statements of either.
AdmissionWithinCaps ==
  [][\A a \in Attempts, month \in Months :
       Admits(a) /\ month = MonthOf(admission[a].at) => WithinCaps(a, month)']_vars

\* The same in the month in which the attempt is written: an attempt settled while
\* another is being admitted is counted as settled or as reserved (spend.ts).
NothingUndercounted == [][\A a \in Attempts : Admits(a) => WithinCaps(a, MonthOf(now))']_vars

\* Only an admission adds to what priced attempts have spent in a month: settling at
\* the liability, and correcting that later, never cost more than was reserved, and
\* never move cost into another month.
OnlyAdmissionSpends ==
  [][attempt' # attempt \/ ledger' # ledger =>
       \A s \in Subjects, c \in Currencies, month \in Months :
         AllPriced(s) /\ (\A a \in Attempts : ~Admits(a))
           => Spend(s, c, month)' <= Spend(s, c, month)]_vars

\* An attempt leaves ACTIVE exactly with its first revision, and one with a liability
\* never has a revision without a cost: nothing reserved is dropped unsettled.
EndsOnlySettled ==
  \A a \in Attempts : /\ attempt[a].row = "ENDED" <=> Revisions(a) # {}
                      /\ attempt[a].liability # Null
                           => \A q \in Revisions(a) : ledger[a][q].cost # Null

\* A crash repair settles nothing that its process has kept alive, although it is
\* listed on one clock, checked on another and renewed on a third.
RepairsSpareTheLiving == \A a \in Attempts : ledger[a][0] # Null => attempt[a].expires <= now

\* A cap sees every reservation on its subject: none is in another currency, however
\* caps were set, cleared and set again around the admissions.
CapSeesReservations ==
  \A s \in Subjects : cap[s] # Null
    => \A a \in AttemptsOn(s) :
         InFlight(a) /\ attempt[a].liability # Null /\ attempt[a].liability # 0
           => attempt[a].currency = cap[s].currency

\* What a dead process reserved is settled in the end, with a price or without.
ReservationsEnd ==
  \A a \in Attempts :
    (attempt[a].row = "ACTIVE" /\ attempt[a].proc = "gone" /\ attempt[a].expires <= MaxTime)
      ~> (attempt[a].row = "ENDED")
=============================================================================
