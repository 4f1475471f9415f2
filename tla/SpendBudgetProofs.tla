-------------------------- MODULE SpendBudgetProofs --------------------------
(***************************************************************************)
(* What the caps of SpendBudget rest on, for any number of attempts,       *)
(* accounts, shares and currencies, any amounts and any clock skew.        *)
(***************************************************************************)
EXTENDS SpendBudget, TLAPS

\* A process has a row exactly once it was admitted, and only rows are listed.
RowsOfAttempts ==
  /\ \A a \in Attempts : /\ attempt[a].proc \in {"idle", "admitting"} => attempt[a].row = "none"
                         /\ attempt[a].proc = "admitted" => attempt[a].row # "none"
  /\ \A r \in repairs : attempt[r.attempt].row # "none"

\* An attempt being admitted is in the currency of every cap it will be held to.
AdmittedInCapCurrency ==
  \A a \in Attempts : admission[a] # Null =>
    \A s \in attempt[a].subjects : cap[s] # Null => attempt[a].currency = cap[s].currency

Settlement == TypeOK /\ RowsOfAttempts /\ EndsOnlySettled /\ RepairsSpareTheLiving

LEMMA InitSettlement == Init => Settlement
  BY SpendAssumption
  DEF Init, Settlement, TypeOK, RowsOfAttempts, EndsOnlySettled, RepairsSpareTheLiving, Revisions,
      NoAttempt, AttemptRow, Sequences, NatOrNull, Subjects

\* Steps that write no revision and end no row.
LEMMA UnsettledPreserves ==
  ASSUME Settlement, TypeOK', RowsOfAttempts', UNCHANGED ledger, now' >= now,
         \A a \in Attempts : /\ attempt'[a].row = "ENDED" <=> attempt[a].row = "ENDED"
                             /\ Revisions(a) # {} => attempt'[a].liability = attempt[a].liability
                             /\ Revisions(a) # {} => attempt'[a].expires = attempt[a].expires
  PROVE  Settlement'
<1>1. \A a \in Attempts : Revisions(a)' = Revisions(a)
  BY DEF Revisions
<1>2. EndsOnlySettled'
  BY <1>1 DEF Settlement, EndsOnlySettled
<1>3. RepairsSpareTheLiving'
  <2> SUFFICES ASSUME NEW a \in Attempts, ledger'[a][0] # Null
               PROVE  attempt'[a].expires <= now'
    BY DEF RepairsSpareTheLiving
  <2>1. Revisions(a) # {}
    BY DEF Revisions, Sequences
  <2>2. attempt[a].expires <= now /\ attempt[a].expires \in Nat /\ now \in Nat /\ now' \in Nat
    BY DEF Settlement, RepairsSpareTheLiving, TypeOK, AttemptRow
  <2> QED
    BY <2>1, <2>2
<1> QED
  BY <1>2, <1>3 DEF Settlement

LEMMA BeginSettlement ==
  ASSUME Settlement, NEW a \in Attempts, NEW account \in Accounts, NEW share \in Shares \cup {Null},
         NEW liability \in Liabilities \cup {Null}, NEW currency \in Currencies \cup {Null},
         NEW expires \in now + 1 .. now + Ttl + Skew,
         BeginAdmission(a, account, share, liability, currency, expires)
  PROVE  Settlement'
<1> USE SpendAssumption
<1> DEFINE S == {account, share} \ {Null}
           row == [proc |-> "admitting", subjects |-> S, liability |-> liability,
                   currency |-> currency, row |-> "none", expires |-> expires]
<1>1. /\ attempt' = [attempt EXCEPT ![a] = row]
      /\ admission' = [admission EXCEPT ![a] = [at |-> now, unchecked |-> Capped(S)]]
      /\ attempt[a].proc = "idle" /\ (liability = Null <=> currency = Null)
      /\ UNCHANGED <<ledger, cap, repairs, now>>
  BY DEF BeginAdmission
<1>2. row \in AttemptRow /\ row.row = "none" /\ row.proc = "admitting"
      /\ row.liability = liability /\ row.currency = currency
  <2>1. S \in SUBSET Subjects
    BY DEF Subjects
  <2>2. liability \in NatOrNull /\ expires \in Nat
    BY DEF NatOrNull, Settlement, TypeOK
  <2> QED
    BY <2>1, <2>2 DEF AttemptRow
<1> HIDE DEF row
<1>3. [at |-> now, unchecked |-> Capped(S)] \in Admission
  BY DEF Admission, Capped, Subjects, Settlement, TypeOK
<1>4. TypeOK'
  BY Zenon, <1>1, <1>2, <1>3 DEF Settlement, TypeOK
<1>5. attempt[a].row = "none" /\ Revisions(a) = {}
  BY <1>1 DEF Settlement, RowsOfAttempts, EndsOnlySettled
<1>6. RowsOfAttempts'
  BY <1>1, <1>2, <1>5 DEF Settlement, RowsOfAttempts, TypeOK
<1>7. \A b \in Attempts : /\ attempt'[b].row = "ENDED" <=> attempt[b].row = "ENDED"
                          /\ Revisions(b) # {} => attempt'[b] = attempt[b]
  BY <1>1, <1>2, <1>5 DEF Settlement, TypeOK
<1>8. UNCHANGED ledger /\ now' >= now
  BY <1>1 DEF Settlement, TypeOK
<1> QED
  BY <1>4, <1>6, <1>7, <1>8, UnsettledPreserves

LEMMA RollBackSettlement ==
  ASSUME Settlement, NEW a \in Attempts, admission[a] # Null, RollBack(a),
         UNCHANGED <<ledger, cap, repairs, now>>
  PROVE  Settlement'
<1> USE SpendAssumption
<1> DEFINE row == [NoAttempt EXCEPT !.proc = "gone"]
<1>1. attempt' = [attempt EXCEPT ![a] = row] /\ admission' = [admission EXCEPT ![a] = Null]
  BY DEF RollBack
<1>2. row \in AttemptRow /\ row.row = "none" /\ row.proc = "gone"
      /\ row.liability = Null /\ row.currency = Null
  BY DEF NoAttempt, AttemptRow, NatOrNull
<1>3. TypeOK'
  BY <1>1, <1>2 DEF Settlement, TypeOK
<1>4. attempt[a].row = "none" /\ Revisions(a) = {}
  BY DEF Settlement, TypeOK, RowsOfAttempts, EndsOnlySettled
<1>5. RowsOfAttempts'
  BY <1>1, <1>2, <1>4 DEF Settlement, RowsOfAttempts, TypeOK
<1> QED
  BY <1>1, <1>2, <1>3, <1>4, <1>5, UnsettledPreserves DEF Settlement, TypeOK

LEMMA CheckSettlement ==
  ASSUME Settlement, NEW a \in Attempts, CheckCap(a)
  PROVE  Settlement'
<1> USE SpendAssumption
<1>1. CASE RollBack(a)
  BY <1>1, RollBackSettlement DEF CheckCap
<1>2. CASE ~RollBack(a)
  <2>1. PICK s : /\ admission' = [admission EXCEPT ![a].unchecked = @ \ {s}]
                 /\ admission[a] # Null /\ UNCHANGED <<attempt, ledger, cap, repairs, now>>
    BY Zenon, <1>2 DEF CheckCap
  <2>2. admission[a] \in Admission
    BY <2>1 DEF Settlement, TypeOK
  <2>3. admission'[a] \in Admission /\ admission' \in [Attempts -> Admission \cup {Null}]
    BY <2>1, <2>2 DEF Settlement, TypeOK, Admission
  <2>4. TypeOK'
    BY Zenon, <2>1, <2>3 DEF Settlement, TypeOK
  <2>5. RowsOfAttempts'
    BY <2>1 DEF Settlement, RowsOfAttempts
  <2> QED
    BY <2>1, <2>4, <2>5, UnsettledPreserves DEF Settlement, TypeOK
<1> QED
  BY <1>1, <1>2

\* A step of one attempt's process that keeps what it was admitted with.
LEMMA ProcessSettlement ==
  ASSUME Settlement, NEW a \in Attempts, NEW row \in AttemptRow,
         attempt' = [attempt EXCEPT ![a] = row],
         admission' = [admission EXCEPT ![a] = Null],
         UNCHANGED <<ledger, cap, repairs, now>>,
         row.proc \in {"admitted", "gone"}, row.row # "none",
         row.row = "ENDED" <=> attempt[a].row = "ENDED",
         row.liability = attempt[a].liability, row.currency = attempt[a].currency,
         row.expires = attempt[a].expires \/ attempt[a].row = "ACTIVE"
  PROVE  Settlement'
<1> USE SpendAssumption
<1>1. TypeOK'
  BY DEF Settlement, TypeOK
<1>2. RowsOfAttempts'
  BY DEF Settlement, RowsOfAttempts, TypeOK
<1>3. \A b \in Attempts :
        /\ attempt'[b].row = "ENDED" <=> attempt[b].row = "ENDED"
        /\ Revisions(b) # {} => attempt'[b].liability = attempt[b].liability
        /\ Revisions(b) # {} => attempt'[b].expires = attempt[b].expires
  BY DEF Settlement, TypeOK, EndsOnlySettled
<1>4. UNCHANGED ledger /\ now' >= now
  BY DEF Settlement, TypeOK
<1> QED
  BY <1>1, <1>2, <1>3, <1>4, UnsettledPreserves

LEMMA LiveSettlement ==
  ASSUME Settlement, NEW a \in Attempts,
         \/ \E lost \in BOOLEAN : CreateAttempt(a, lost)
         \/ Crash(a)
         \/ \E at \in ServerClock : Heartbeat(a, at)
  PROVE  Settlement'
<1> USE SpendAssumption
<1>1. attempt[a] \in AttemptRow /\ now \in Nat /\ admission \in [Attempts -> Admission \cup {Null}]
  BY DEF Settlement, TypeOK
<1>2. CASE \E lost \in BOOLEAN : CreateAttempt(a, lost)
  <2>1. PICK lost \in BOOLEAN : CreateAttempt(a, lost)
    BY <1>2
  <2> DEFINE row == [attempt[a] EXCEPT !.row = "ACTIVE",
                                       !.proc = IF lost THEN "gone" ELSE "admitted"]
  <2>2. attempt[a].row = "none"
    BY Zenon, <2>1 DEF CreateAttempt, Settlement, TypeOK, RowsOfAttempts
  <2>3. /\ row \in AttemptRow /\ row.proc \in {"admitted", "gone"} /\ row.row = "ACTIVE"
        /\ row.liability = attempt[a].liability /\ row.currency = attempt[a].currency
        /\ row.expires = attempt[a].expires
    BY Zenon, <1>1 DEF AttemptRow
  <2>4. /\ attempt' = [attempt EXCEPT ![a] = row]
        /\ admission' = [admission EXCEPT ![a] = Null]
        /\ UNCHANGED <<ledger, cap, repairs, now>>
    BY Zenon, <2>1 DEF CreateAttempt
  <2> HIDE DEF row
  <2> QED
    BY Zenon, <2>2, <2>3, <2>4, ProcessSettlement
<1>3. CASE Crash(a)
  <2> DEFINE row == [attempt[a] EXCEPT !.proc = "gone"]
  <2>1. attempt[a].row # "none" /\ admission[a] = Null
    BY <1>3 DEF Crash, Settlement, TypeOK, RowsOfAttempts
  <2>2. /\ row \in AttemptRow /\ row.proc = "gone" /\ row.row = attempt[a].row
        /\ row.liability = attempt[a].liability /\ row.currency = attempt[a].currency
        /\ row.expires = attempt[a].expires
    BY <1>1 DEF AttemptRow
  <2>3. /\ attempt' = [attempt EXCEPT ![a] = row]
        /\ admission' = [admission EXCEPT ![a] = Null]
        /\ UNCHANGED <<ledger, cap, repairs, now>>
    BY <1>1, <1>3, <2>1 DEF Crash
  <2> HIDE DEF row
  <2> QED
    BY Zenon, <2>1, <2>2, <2>3, ProcessSettlement
<1>4. CASE \E at \in ServerClock : Heartbeat(a, at)
  <2>1. PICK at \in ServerClock : Heartbeat(a, at)
    BY <1>4
  <2> DEFINE row == [attempt[a] EXCEPT !.expires = at + Ttl]
  <2>2. attempt[a].row = "ACTIVE" /\ attempt[a].proc = "admitted" /\ admission[a] = Null
    BY <2>1 DEF Heartbeat, Settlement, TypeOK
  <2>3. at + Ttl \in Nat
    BY DEF ServerClock
  <2>4. /\ row \in AttemptRow /\ row.proc = attempt[a].proc /\ row.row = attempt[a].row
        /\ row.liability = attempt[a].liability /\ row.currency = attempt[a].currency
    BY <1>1, <2>3 DEF AttemptRow
  <2>5. /\ attempt' = [attempt EXCEPT ![a] = row]
        /\ admission' = [admission EXCEPT ![a] = Null]
        /\ UNCHANGED <<ledger, cap, repairs, now>>
    BY <1>1, <2>1, <2>2 DEF Heartbeat
  <2> HIDE DEF row
  <2> QED
    BY Zenon, <2>2, <2>4, <2>5, ProcessSettlement
<1> QED
  BY <1>2, <1>3, <1>4

\* A revision is written and the row ends with it.
LEMMA RevisionSettlement ==
  ASSUME Settlement, NEW a \in Attempts, NEW q \in Sequences, NEW rev \in Revision,
         NEW row \in AttemptRow,
         ledger' = [ledger EXCEPT ![a][q] = rev],
         attempt' = [attempt EXCEPT ![a] = row],
         UNCHANGED <<admission, cap, now>>, repairs' \subseteq repairs,
         attempt[a].row # "none", row.row = "ENDED", row.proc \in {attempt[a].proc, "gone"},
         attempt[a].proc \in {"admitted", "gone"},
         row.liability = attempt[a].liability, row.currency = attempt[a].currency,
         row.expires = attempt[a].expires,
         attempt[a].liability # Null => rev.cost # Null,
         q = 0 => attempt[a].expires <= now
  PROVE  Settlement'
<1> USE SpendAssumption
<1>1. TypeOK'
  <2>1. ledger' \in [Attempts -> [Sequences -> Revision \cup {Null}]]
    BY DEF Settlement, TypeOK
  <2>2. attempt' \in [Attempts -> AttemptRow]
    BY DEF Settlement, TypeOK
  <2>3. \A b \in Attempts : /\ (admission'[b] # Null) <=> (attempt'[b].proc = "admitting")
                            /\ (attempt'[b].liability = Null) <=> (attempt'[b].currency = Null)
    BY DEF Settlement, TypeOK
  <2> QED
    BY <2>1, <2>2, <2>3 DEF Settlement, TypeOK
<1>2. RowsOfAttempts'
  BY DEF Settlement, RowsOfAttempts, TypeOK
<1>3. /\ ledger'[a][q] = rev /\ rev # Null
      /\ \A x \in Sequences \ {q} : ledger'[a][x] = ledger[a][x]
      /\ \A b \in Attempts \ {a} : ledger'[b] = ledger[b] /\ attempt'[b] = attempt[b]
      /\ attempt'[a] = row
  BY DEF Settlement, TypeOK
<1>4. EndsOnlySettled'
  <2> SUFFICES ASSUME NEW b \in Attempts
               PROVE  /\ attempt'[b].row = "ENDED" <=> Revisions(b)' # {}
                      /\ attempt'[b].liability # Null
                           => \A x \in Revisions(b)' : ledger'[b][x].cost # Null
    BY DEF EndsOnlySettled
  <2>1. CASE b = a
    BY <1>3, <2>1 DEF Settlement, EndsOnlySettled, Revisions
  <2>2. CASE b # a
    BY <1>3, <2>2 DEF Settlement, EndsOnlySettled, Revisions
  <2> QED
    BY <2>1, <2>2
<1>5. RepairsSpareTheLiving'
  BY <1>3 DEF Settlement, RepairsSpareTheLiving, Sequences
<1> QED
  BY <1>1, <1>2, <1>4, <1>5 DEF Settlement

LEMMA ReportSettlement ==
  ASSUME Settlement, NEW a \in Attempts, NEW sent \in BOOLEAN, NEW cost \in Costs \cup {Null},
         NEW currency \in Currencies \cup {Null}, ReportTerminal(a, sent, cost, currency)
  PROVE  Settlement'
<1> USE SpendAssumption
<1> DEFINE rev == [cost |-> RevisionCost(a, sent, cost, currency),
                   currency |-> CostCurrency(a, currency), at |-> now]
           row == [attempt[a] EXCEPT !.proc = "gone", !.row = Ended(attempt[a].row)]
<1>1. /\ attempt[a] \in AttemptRow /\ now \in Nat
      /\ attempt[a].liability = Null <=> attempt[a].currency = Null
      /\ attempt[a].row # "none" /\ attempt[a].proc = "admitted"
  BY DEF ReportTerminal, Settlement, TypeOK, RowsOfAttempts
<1>2. RevisionCost(a, sent, cost, currency) \in NatOrNull
  BY <1>1 DEF RevisionCost, NatOrNull, AttemptRow
<1>3. attempt[a].liability # Null => RevisionCost(a, sent, cost, currency) # Null
  BY <1>1 DEF RevisionCost, NatOrNull, AttemptRow
<1>4. rev \in Revision /\ (attempt[a].liability # Null => rev.cost # Null)
  BY <1>1, <1>2, <1>3 DEF Revision, CostCurrency, AttemptRow
<1>5. /\ row \in AttemptRow /\ row.proc = "gone" /\ row.row = "ENDED"
      /\ row.liability = attempt[a].liability /\ row.currency = attempt[a].currency
      /\ row.expires = attempt[a].expires
  BY Zenon, <1>1 DEF AttemptRow, Ended
<1>6. /\ ledger' = [ledger EXCEPT ![a][1] = rev] /\ attempt' = [attempt EXCEPT ![a] = row]
      /\ UNCHANGED <<admission, cap, repairs, now>>
  BY DEF ReportTerminal, Append
<1>7. 1 \in Sequences /\ 1 # 0 /\ repairs' \subseteq repairs /\ UNCHANGED <<admission, cap, now>>
  BY <1>6 DEF Sequences
<1> HIDE DEF rev, row
<1> QED
  BY Zenon, <1>1, <1>4, <1>5, <1>6, <1>7, RevisionSettlement

LEMMA RepairSettlement ==
  ASSUME Settlement, NEW r \in repairs, RepairExpired(r)
  PROVE  Settlement'
<1> USE SpendAssumption
<1> DEFINE a == r.attempt
           rev == [cost |-> RevisionCost(a, TRUE, Null, Null),
                   currency |-> CostCurrency(a, Null), at |-> now]
           row == [attempt[a] EXCEPT !.row = Ended(attempt[a].row)]
<1>1. /\ a \in Attempts /\ attempt[a] \in AttemptRow /\ now \in Nat
      /\ attempt[a].liability = Null <=> attempt[a].currency = Null
      /\ attempt[a].row # "none" /\ attempt[a].proc \in {"admitted", "gone"}
  BY DEF Settlement, TypeOK, RowsOfAttempts, AttemptRow
<1>2. UNCHANGED <<admission, cap, now>> /\ repairs' \subseteq repairs
  BY DEF RepairExpired
<1>3. /\ row \in AttemptRow /\ row.proc = attempt[a].proc /\ row.row = "ENDED"
      /\ row.liability = attempt[a].liability /\ row.currency = attempt[a].currency
      /\ row.expires = attempt[a].expires
  BY <1>1 DEF AttemptRow, Ended
<1>4. CASE Revisions(a) = {} /\ StillExpired(r)
  <2>1. rev \in Revision /\ (attempt[a].liability # Null => rev.cost # Null)
    BY <1>1 DEF Revision, RevisionCost, CostCurrency, AttemptRow, NatOrNull
  <2>2. ledger' = [ledger EXCEPT ![a][0] = rev] /\ attempt' = [attempt EXCEPT ![a] = row]
    BY <1>4 DEF RepairExpired, Append
  <2>3. attempt[a].expires <= now
    BY <1>4 DEF StillExpired
  <2> HIDE DEF a, rev, row
  <2> QED
    BY Zenon, <1>1, <1>2, <1>3, <2>1, <2>2, <2>3, RevisionSettlement DEF Sequences
<1>5. CASE ~(Revisions(a) = {} /\ StillExpired(r))
  <2>1. UNCHANGED <<attempt, ledger>>
    <3>1. CASE Revisions(a) # {}
      <4>1. attempt[a].row = "ENDED"
        BY <1>1, <3>1 DEF Settlement, EndsOnlySettled
      <4>2. attempt' = [attempt EXCEPT ![a].row = Ended(@)] /\ UNCHANGED ledger
        BY Zenon, <3>1 DEF RepairExpired
      <4> QED
        BY <1>1, <4>1, <4>2 DEF Ended, Settlement, TypeOK, AttemptRow
    <3>2. CASE Revisions(a) = {}
      BY <1>5, <3>2 DEF RepairExpired
    <3> QED
      BY <3>1, <3>2
  <2>2. TypeOK' /\ RowsOfAttempts'
    BY <1>2, <2>1 DEF Settlement, TypeOK, RowsOfAttempts
  <2> QED
    BY <1>2, <2>1, <2>2, UnsettledPreserves DEF Settlement, TypeOK
<1> QED
  BY <1>4, <1>5

LEMMA OtherSettlement ==
  ASSUME Settlement,
         \/ \E a \in Attempts, at \in ServerClock : ListExpired(a, at)
         \/ \E s \in Subjects, limit \in Limits, currency \in Currencies, at \in ServerClock :
              SetCap(s, limit, currency, at)
         \/ \E s \in Subjects : ClearCap(s)
         \/ Tick
         \/ UNCHANGED vars
  PROVE  Settlement'
<1> USE SpendAssumption
<1>1. UNCHANGED <<attempt, admission, ledger>>
  BY Zenon DEF ListExpired, SetCap, ClearCap, Tick, vars
<1>2. now' \in Nat /\ now' >= now
  <2>1. now \in Nat
    BY DEF Settlement, TypeOK
  <2>2. now' = now \/ now' = now + 1
    BY Zenon DEF ListExpired, SetCap, ClearCap, Tick, vars
  <2> QED
    BY <2>1, <2>2
<1>3. cap' \in [Subjects -> SpendCap \cup {Null}]
  <2>1. CASE \E s \in Subjects, limit \in Limits, currency \in Currencies, at \in ServerClock :
               SetCap(s, limit, currency, at)
    <3>1. PICK s \in Subjects, limit \in Limits, currency \in Currencies :
            cap' = [cap EXCEPT ![s] = [limit |-> limit, currency |-> currency]]
      BY Zenon, <2>1 DEF SetCap
    <3> QED
      BY <3>1 DEF Settlement, TypeOK, SpendCap
  <2> QED
    BY Zenon, <2>1 DEF ListExpired, ClearCap, Tick, vars, Settlement, TypeOK
<1>4. /\ repairs' \subseteq [attempt : Attempts, at : Nat]
      /\ \A r \in repairs' : attempt'[r.attempt].row # "none"
  <2>1. CASE \E a \in Attempts, at \in ServerClock : ListExpired(a, at)
    <3>1. PICK a \in Attempts, at \in ServerClock :
            /\ repairs' = repairs \cup {[attempt |-> a, at |-> at]} /\ attempt[a].row = "ACTIVE"
      BY <2>1 DEF ListExpired
    <3>2. at \in Nat
      BY DEF ServerClock
    <3> QED
      BY <1>1, <3>1, <3>2 DEF Settlement, TypeOK, RowsOfAttempts
  <2>2. CASE UNCHANGED repairs
    BY <1>1, <2>2 DEF Settlement, TypeOK, RowsOfAttempts
  <2> QED
    BY <2>1, <2>2 DEF SetCap, ClearCap, Tick, vars
<1>5. TypeOK' /\ RowsOfAttempts'
  BY <1>1, <1>2, <1>3, <1>4 DEF Settlement, TypeOK, RowsOfAttempts
<1> QED
  BY <1>1, <1>2, <1>5, UnsettledPreserves

LEMMA SettlementInductive == Settlement /\ [Next]_vars => Settlement'
<1> SUFFICES ASSUME Settlement, [Next]_vars
             PROVE  Settlement'
  OBVIOUS
<1>1. ASSUME NEW a \in Attempts, NEW account \in Accounts, NEW share \in Shares \cup {Null},
             NEW liability \in Liabilities \cup {Null}, NEW currency \in Currencies \cup {Null},
             NEW expires \in now + 1 .. now + Ttl + Skew,
             BeginAdmission(a, account, share, liability, currency, expires)
      PROVE  Settlement'
  BY SMTT(30), <1>1, BeginSettlement
<1>2. ASSUME NEW a \in Attempts, CheckCap(a)
      PROVE  Settlement'
  BY <1>2, CheckSettlement
<1>3. ASSUME NEW a \in Attempts, AbandonAdmission(a)
      PROVE  Settlement'
  BY <1>3, RollBackSettlement DEF AbandonAdmission
<1>4. ASSUME NEW a \in Attempts,
             \/ \E lost \in BOOLEAN : CreateAttempt(a, lost)
             \/ Crash(a)
             \/ \E at \in ServerClock : Heartbeat(a, at)
      PROVE  Settlement'
  BY <1>4, LiveSettlement
<1>5. ASSUME NEW a \in Attempts, NEW sent \in BOOLEAN, NEW cost \in Costs \cup {Null},
             NEW currency \in Currencies \cup {Null}, ReportTerminal(a, sent, cost, currency)
      PROVE  Settlement'
  BY <1>5, ReportSettlement
<1>6. ASSUME NEW r \in repairs, RepairExpired(r)
      PROVE  Settlement'
  BY <1>6, RepairSettlement
<1> QED
  BY Zenon, <1>1, <1>2, <1>3, <1>4, <1>5, <1>6, OtherSettlement DEF Next

\* The tables stay well formed, and no fence outlives its admission.
THEOREM TypeCorrect == Spec => []TypeOK
<1>1. Settlement => TypeOK
  BY DEF Settlement
<1> QED
  BY <1>1, InitSettlement, SettlementInductive, PTL DEF Spec

\* An attempt leaves ACTIVE exactly with its first revision (finalize runs in the
\* transaction that writes it), which has a cost if the attempt had a liability.
THEOREM AttemptsEndSettled == Spec => []EndsOnlySettled
<1>1. Settlement => EndsOnlySettled
  BY DEF Settlement
<1> QED
  BY <1>1, InitSettlement, SettlementInductive, PTL DEF Spec

\* A crash repair settles nothing that its process has kept alive.
THEOREM LivingAreSpared == Spec => []RepairsSpareTheLiving
<1>1. Settlement => RepairsSpareTheLiving
  BY DEF Settlement
<1> QED
  BY <1>1, InitSettlement, SettlementInductive, PTL DEF Spec

(***************************************************************************)
(* The currencies of caps and reservations.                                *)
(***************************************************************************)
CapCurrencies == Settlement /\ AdmittedInCapCurrency /\ CapSeesReservations

Same(a) == /\ attempt'[a].subjects = attempt[a].subjects
           /\ attempt'[a].liability = attempt[a].liability
           /\ attempt'[a].currency = attempt[a].currency

\* Steps that set no cap and begin no admission: what is in flight was so before, or
\* was being admitted.
LEMMA CapsKept ==
  ASSUME CapCurrencies, Settlement', UNCHANGED cap,
         \A a \in Attempts : /\ admission'[a] # Null => admission[a] # Null /\ Same(a)
                             /\ InFlight(a)' => (InFlight(a) \/ admission[a] # Null) /\ Same(a)
  PROVE  CapCurrencies'
<1>1. AdmittedInCapCurrency'
  BY DEF CapCurrencies, AdmittedInCapCurrency, Same
<1>2. CapSeesReservations'
  <2> SUFFICES ASSUME NEW s \in Subjects, cap[s] # Null, NEW a \in Attempts,
                      s \in attempt'[a].subjects, InFlight(a)', attempt'[a].liability # Null,
                      attempt'[a].liability # 0
               PROVE  attempt'[a].currency = cap[s].currency
    BY DEF CapSeesReservations, AttemptsOn
  <2>1. Same(a) /\ (InFlight(a) \/ admission[a] # Null)
    OBVIOUS
  <2>2. CASE InFlight(a)
    BY <2>1, <2>2 DEF Same, CapCurrencies, CapSeesReservations, AttemptsOn
  <2>3. CASE admission[a] # Null
    BY <2>1, <2>3 DEF Same, CapCurrencies, AdmittedInCapCurrency
  <2> QED
    BY <2>1, <2>2, <2>3
<1> QED
  BY <1>1, <1>2 DEF CapCurrencies

LEMMA BeginCaps ==
  ASSUME CapCurrencies, Settlement', NEW a \in Attempts, NEW account \in Accounts,
         NEW share \in Shares \cup {Null}, NEW liability, NEW currency, NEW expires,
         BeginAdmission(a, account, share, liability, currency, expires)
  PROVE  CapCurrencies'
<1> DEFINE S == {account, share} \ {Null}
<1>1. /\ attempt'[a].subjects = S /\ attempt'[a].currency = currency /\ attempt'[a].row = "none"
      /\ \A b \in Attempts \ {a} : attempt'[b] = attempt[b] /\ admission'[b] = admission[b]
      /\ UNCHANGED <<cap, ledger>>
      /\ \A s \in S : cap[s] # Null => cap[s].currency = currency
  BY DEF BeginAdmission, Capped, CapCurrencies, Settlement, TypeOK
<1>2. AdmittedInCapCurrency'
  BY <1>1 DEF CapCurrencies, AdmittedInCapCurrency
<1>3. CapSeesReservations'
  BY <1>1 DEF CapCurrencies, CapSeesReservations, AttemptsOn, InFlight, Revisions
<1> QED
  BY <1>2, <1>3 DEF CapCurrencies

LEMMA SetCaps ==
  ASSUME CapCurrencies, Settlement', NEW s \in Subjects, NEW limit \in Limits,
         NEW currency \in Currencies, NEW at \in ServerClock, SetCap(s, limit, currency, at)
  PROVE  CapCurrencies'
<1> USE SpendAssumption
<1>1. /\ cap'[s].currency = currency /\ \A x \in Subjects \ {s} : cap'[x] = cap[x]
      /\ UNCHANGED <<attempt, admission, ledger>> /\ FenceFree(s)
      /\ SpentIn(s, at) \subseteq {currency}
  BY DEF SetCap, CapCurrencies, Settlement, TypeOK
<1>2. attempt \in [Attempts -> AttemptRow]
      /\ \A a \in Attempts : (attempt[a].liability = Null) <=> (attempt[a].currency = Null)
  BY DEF CapCurrencies, Settlement, TypeOK
<1>3. AdmittedInCapCurrency'
  BY <1>1, <1>2 DEF CapCurrencies, AdmittedInCapCurrency, FenceFree, AttemptRow
<1>4. ASSUME NEW a \in AttemptsOn(s), InFlight(a), attempt[a].liability # Null,
             attempt[a].liability # 0
      PROVE  attempt[a].currency = currency
  <2> DEFINE c == attempt[a].currency
  <2>1. a \in Attempts /\ c \in Currencies /\ attempt[a].liability \in Nat
    BY <1>2, <1>4 DEF AttemptsOn, AttemptRow, NatOrNull
  <2>2. SpentBy(a, c, MonthOf(at)) = 0 /\ ReservedBy(a, c) = attempt[a].liability
    BY <1>4 DEF SpentBy, ReservedBy, InFlight
  <2>3. c \in SpentIn(s, at)
    BY <1>4, <2>1, <2>2 DEF SpentIn
  <2> QED
    BY <1>1, <2>3
<1>5. CapSeesReservations'
  <2> SUFFICES ASSUME NEW x \in Subjects, cap'[x] # Null, NEW a \in AttemptsOn(x), InFlight(a),
                      attempt[a].liability # Null, attempt[a].liability # 0
               PROVE  attempt[a].currency = cap'[x].currency
    BY <1>1 DEF CapSeesReservations, AttemptsOn, InFlight, Revisions
  <2>1. CASE x = s
    BY <1>1, <1>4, <2>1
  <2>2. CASE x # s
    BY <1>1, <2>2 DEF CapCurrencies, CapSeesReservations
  <2> QED
    BY <2>1, <2>2
<1> QED
  BY <1>3, <1>5 DEF CapCurrencies

LEMMA ClearCaps ==
  ASSUME CapCurrencies, Settlement', NEW s \in Subjects, ClearCap(s)
  PROVE  CapCurrencies'
<1>1. /\ UNCHANGED <<attempt, admission, ledger>>
      /\ \A x \in Subjects : cap'[x] # Null => cap'[x] = cap[x]
  BY DEF ClearCap, CapCurrencies, Settlement, TypeOK
<1>2. AdmittedInCapCurrency'
  BY <1>1 DEF CapCurrencies, AdmittedInCapCurrency, Settlement, TypeOK, AttemptRow
<1>3. CapSeesReservations'
  BY <1>1 DEF CapCurrencies, CapSeesReservations, AttemptsOn, InFlight, Revisions
<1> QED
  BY <1>2, <1>3 DEF CapCurrencies

\* What the steps of an attempt and of its repair do to all attempts.
Flows ==
  /\ UNCHANGED cap
  /\ \A a \in Attempts : /\ admission'[a] # Null => admission[a] # Null /\ Same(a)
                         /\ InFlight(a)' => (InFlight(a) \/ admission[a] # Null) /\ Same(a)

LEMMA AdmissionFlows ==
  ASSUME Settlement, NEW a \in Attempts,
         CheckCap(a) \/ AbandonAdmission(a) \/ \E lost \in BOOLEAN : CreateAttempt(a, lost)
  PROVE  Flows
<1>1. /\ UNCHANGED <<cap, ledger>> /\ admission[a] # Null
      /\ \A b \in Attempts \ {a} : attempt'[b] = attempt[b] /\ admission'[b] = admission[b]
  BY Zenon DEF CheckCap, AbandonAdmission, CreateAttempt, RollBack, Settlement, TypeOK
<1>2. \/ attempt'[a].row = "none" /\ admission'[a] = Null
      \/ Same(a)
  <2>1. CASE RollBack(a)
    BY <2>1 DEF RollBack, NoAttempt, Settlement, TypeOK
  <2>2. CASE \E lost \in BOOLEAN : CreateAttempt(a, lost)
    <3>1. PICK lost \in BOOLEAN : CreateAttempt(a, lost)
      BY <2>2
    <3>2. attempt'[a] = [attempt[a] EXCEPT !.row = "ACTIVE",
                                           !.proc = IF lost THEN "gone" ELSE "admitted"]
      BY Zenon, <3>1 DEF CreateAttempt, Settlement, TypeOK
    <3> QED
      BY <3>2 DEF Same, Settlement, TypeOK, AttemptRow
  <2>3. CASE UNCHANGED attempt
    BY <2>3 DEF Same
  <2> QED
    BY <2>1, <2>2, <2>3 DEF CheckCap, AbandonAdmission
<1> QED
  BY <1>1, <1>2 DEF Flows, Same, InFlight, Revisions

LEMMA SettlementFlows ==
  ASSUME Settlement, NEW a \in Attempts,
         \/ \E sent \in BOOLEAN, cost \in Costs \cup {Null}, currency \in Currencies \cup {Null} :
              ReportTerminal(a, sent, cost, currency)
         \/ Crash(a)
         \/ \E at \in ServerClock : Heartbeat(a, at) \/ ListExpired(a, at)
         \/ RepairOf(a)
  PROVE  Flows
<1>1. UNCHANGED <<cap, admission>>
  BY Zenon DEF ReportTerminal, Crash, Heartbeat, ListExpired, RepairOf, RepairExpired
<1>2. /\ \A b \in Attempts : attempt'[b].row = "ACTIVE" => attempt[b].row = "ACTIVE"
      /\ \A b \in Attempts : Same(b)
  <2> USE DEF Same, Settlement, TypeOK, AttemptRow
  <2>1. CASE \E sent \in BOOLEAN, cost \in Costs \cup {Null}, currency \in Currencies \cup {Null} :
               ReportTerminal(a, sent, cost, currency)
    <3>1. attempt' = [attempt EXCEPT
            ![a] = [attempt[a] EXCEPT !.proc = "gone", !.row = Ended(attempt[a].row)]]
      BY <2>1 DEF ReportTerminal
    <3> QED
      BY <3>1 DEF Ended
  <2>2. CASE Crash(a)
    BY <2>2 DEF Crash
  <2>3. CASE \E at \in ServerClock : Heartbeat(a, at)
    BY <2>3 DEF Heartbeat
  <2>4. CASE \E at \in ServerClock : ListExpired(a, at)
    BY <2>4 DEF ListExpired
  <2>5. CASE RepairOf(a)
    <3>1. PICK r \in Listed(a) : RepairExpired(r)
      BY <2>5 DEF RepairOf
    <3>2. \/ UNCHANGED attempt
          \/ attempt' = [attempt EXCEPT ![a].row = Ended(@)]
      BY Zenon, <3>1 DEF RepairExpired, Listed
    <3>3. Ended(attempt[a].row) = "ACTIVE" => attempt[a].row = "ACTIVE"
      BY DEF Ended
    <3>4. CASE UNCHANGED attempt
      BY <3>4
    <3>5. CASE attempt' = [attempt EXCEPT ![a].row = Ended(@)]
      <4>1. attempt'[a].row = Ended(attempt[a].row) /\ Same(a)
        BY <3>5
      <4>2. \A b \in Attempts \ {a} : attempt'[b] = attempt[b]
        BY <3>5
      <4> QED
        BY Zenon, <3>3, <4>1, <4>2
    <3> QED
      BY <3>2, <3>4, <3>5
  <2> QED
    BY <2>1, <2>2, <2>3, <2>4, <2>5
<1>3. \A b \in Attempts : Revisions(b)' = {} /\ attempt'[b].row = "ACTIVE" => Revisions(b) = {}
  BY <1>2 DEF Settlement, EndsOnlySettled
<1> QED
  BY <1>1, <1>2, <1>3 DEF Flows, InFlight

LEMMA CapCurrenciesInductive == CapCurrencies /\ [Next]_vars => CapCurrencies'
<1> SUFFICES ASSUME CapCurrencies, [Next]_vars
             PROVE  CapCurrencies'
  OBVIOUS
<1>1. Settlement /\ Settlement'
  BY SettlementInductive DEF CapCurrencies
<1>2. ASSUME Flows
      PROVE  CapCurrencies'
  BY <1>1, <1>2, CapsKept DEF Flows
<1>3. ASSUME NEW a \in Attempts, NEW account \in Accounts, NEW share \in Shares \cup {Null},
             NEW liability \in Liabilities \cup {Null}, NEW currency \in Currencies \cup {Null},
             NEW expires \in now + 1 .. now + Ttl + Skew,
             BeginAdmission(a, account, share, liability, currency, expires)
      PROVE  CapCurrencies'
  BY <1>1, <1>3, BeginCaps
<1>4. ASSUME NEW a \in Attempts,
             CheckCap(a) \/ AbandonAdmission(a) \/ \E lost \in BOOLEAN : CreateAttempt(a, lost)
      PROVE  CapCurrencies'
  BY <1>1, <1>2, <1>4, AdmissionFlows
<1>5. ASSUME NEW a \in Attempts,
         \/ \E sent \in BOOLEAN, cost \in Costs \cup {Null}, currency \in Currencies \cup {Null} :
              ReportTerminal(a, sent, cost, currency)
         \/ Crash(a)
         \/ \E at \in ServerClock : Heartbeat(a, at) \/ ListExpired(a, at)
         \/ RepairOf(a)
      PROVE  CapCurrencies'
  BY <1>1, <1>2, <1>5, SettlementFlows
<1>6. ASSUME NEW r \in repairs, RepairExpired(r)
      PROVE  CapCurrencies'
  <2>1. r.attempt \in Attempts /\ r \in Listed(r.attempt)
    BY <1>1 DEF Listed, Settlement, TypeOK
  <2> QED
    BY <1>5, <1>6, <2>1 DEF RepairOf
<1>7. ASSUME NEW s \in Subjects, NEW limit \in Limits, NEW currency \in Currencies,
             NEW at \in ServerClock, SetCap(s, limit, currency, at)
      PROVE  CapCurrencies'
  BY <1>1, <1>7, SetCaps
<1>8. ASSUME NEW s \in Subjects, ClearCap(s)
      PROVE  CapCurrencies'
  BY <1>1, <1>8, ClearCaps
<1>9. CASE Tick \/ UNCHANGED vars
  BY <1>2, <1>9 DEF Flows, Same, InFlight, Revisions, Tick, vars
<1> QED
  BY Zenon, <1>3, <1>4, <1>5, <1>6, <1>7, <1>8, <1>9 DEF Next

\* A cap sees every reservation on its subject, however caps were set and cleared
\* around the admissions: the fences of admitProviderBudget and of the cap's editor.
THEOREM CapsSeeReservations == Spec => []CapSeesReservations
<1>1. Init => CapCurrencies
  BY InitSettlement
  DEF Init, CapCurrencies, AdmittedInCapCurrency, CapSeesReservations, AttemptsOn
<1>2. CapCurrencies => CapSeesReservations
  BY DEF CapCurrencies
<1> QED
  BY <1>1, <1>2, CapCurrenciesInductive, PTL DEF Spec
=============================================================================
