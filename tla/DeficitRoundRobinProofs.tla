---------------------- MODULE DeficitRoundRobinProofs ----------------------
(***************************************************************************)
(* BoundedWait, CreditOnlyAtCursor and WholeQuanta for all positive quanta.*)
(*                                                                         *)
(* BoundedWait is not inductive: lag must be traded against the grants     *)
(* that can still be made before the cursor reaches the class.  Ahead(c)   *)
(* counts those, and lag[c] + Ahead(c) never exceeds the bound.            *)
(***************************************************************************)
EXTENDS DeficitRoundRobin, TLAPS

\* Grants the class q can still take before the cursor leaves it.
Left(q) == IF sched.deficits[q] >= 1 THEN sched.deficits[q] ELSE Quanta[q]

\* Grants that can still precede the next grant of c, if c keeps waiting.
Ahead(c) ==
  IF sched.cursor = c THEN 0
  ELSE IF NextClass(sched.cursor) = c THEN Left(sched.cursor)
  ELSE Left(sched.cursor) + Quanta[NextClass(sched.cursor)]

\* The turn in progress, recovered from the deficits.
TurnMatchesCredit ==
  /\ turn.used < Quanta[turn.class]
  /\ turn.used > 0 => /\ sched.cursor = turn.class
                      /\ sched.deficits[turn.class] = Quanta[turn.class] - turn.used
  /\ turn.used = 0 => \A c \in Classes : sched.deficits[c] = 0

IInv ==
  /\ TypeOK
  /\ CreditOnlyAtCursor
  /\ TurnMatchesCredit
  /\ \A c \in Classes : lag[c] + Ahead(c) <= OthersQuanta(c)

\* The cyclic order of the three classes.
LEMMA NextClassValues ==
  /\ NextClass(0) = 1 /\ NextClass(1) = 2 /\ NextClass(2) = 0
  /\ \A c \in Classes : c = 0 \/ c = 1 \/ c = 2
  /\ 0 \in Classes /\ 1 \in Classes /\ 2 \in Classes
  BY SMT DEF NextClass, Classes, PRIORITY_CLASS_COUNT

LEMMA InitEstablishes == Init => IInv
<1> SUFFICES ASSUME Init PROVE IInv
  OBVIOUS
<1>1. sched.cursor = 2 /\ \A c \in Classes : sched.deficits[c] = 0
  BY DEF Init, FreshScheduler, PRIORITY_CLASS_COUNT
<1>2. TypeOK
  BY NextClassValues DEF Init, TypeOK, FreshScheduler, SchedulerState, PRIORITY_CLASS_COUNT
<1>3. CreditOnlyAtCursor /\ TurnMatchesCredit
  BY <1>1, QuantaAssumption, NextClassValues
  DEF Init, CreditOnlyAtCursor, TurnMatchesCredit, PRIORITY_CLASS_COUNT
<1>4. \A c \in Classes : lag[c] + Ahead(c) <= OthersQuanta(c)
  BY <1>1, QuantaAssumption, NextClassValues DEF Init, Ahead, Left, OthersQuanta
<1> QED
  BY <1>2, <1>3, <1>4 DEF IInv

LEMMA GrantPreserves ==
  ASSUME IInv, NEW queues \in (SUBSET Classes) \ {{}}, Grant(queues)
  PROVE  IInv'
<1> DEFINE p    == FirstFrom(sched.cursor, queues)
           left == SpentCredit(sched, p)
<1>1. p \in queues /\ p \in Classes
  BY NextClassValues DEF IInv, TypeOK, SchedulerState, FirstFrom
<1>2. left \in Nat /\ left < Quanta[p]
  BY <1>1, QuantaAssumption DEF IInv, TypeOK, SchedulerState, CreditOnlyAtCursor, SpentCredit
<1>3. /\ sched' = [cursor   |-> IF left >= 1 THEN p ELSE NextClass(p),
                   deficits |-> [c \in Classes |->
                                   IF c = p THEN left
                                   ELSE IF c \in queues THEN sched.deficits[c]
                                   ELSE 0]]
      /\ lag' = [c \in Classes |-> IF c \in queues /\ c # p THEN lag[c] + 1 ELSE 0]
      /\ turn' = [class |-> p,
                  used  |-> Wrap(IF turn.class = p THEN turn.used + 1 ELSE 1, Quanta[p])]
  BY DEF Grant, Decide, CursorAfter
<1>4. NextClass(p) \in Classes
  BY <1>1, NextClassValues
<1>5. TypeOK'
  BY <1>1, <1>2, <1>3, <1>4, QuantaAssumption DEF IInv, TypeOK, SchedulerState, Wrap
<1>6. \A c \in Classes : c # p => sched'.deficits[c] = 0
  \* A class before p in the visit has no queue; one after it is not the cursor.
  BY <1>1, <1>3, NextClassValues
  DEF IInv, TypeOK, SchedulerState, CreditOnlyAtCursor, FirstFrom
<1>7. sched'.deficits[p] = left /\ sched'.cursor = IF left >= 1 THEN p ELSE NextClass(p)
  BY <1>1, <1>3
<1>8. CreditOnlyAtCursor'
  BY <1>1, <1>2, <1>6, <1>7 DEF CreditOnlyAtCursor
<1>9. TurnMatchesCredit'
  <2>1. turn'.class = p /\ turn'.used = Wrap(IF turn.class = p THEN turn.used + 1 ELSE 1, Quanta[p])
    BY <1>3
  <2>2. CASE turn.class = p /\ turn.used > 0
    <3>1. left = Quanta[p] - (turn.used + 1)
      BY <2>2, <1>1, QuantaAssumption
      DEF IInv, TypeOK, SchedulerState, TurnMatchesCredit, SpentCredit
    <3> QED
      BY <2>1, <2>2, <3>1, <1>1, <1>2, <1>6, <1>7, QuantaAssumption
      DEF IInv, TypeOK, TurnMatchesCredit, Wrap
  <2>3. CASE ~(turn.class = p /\ turn.used > 0)
    <3>1. sched.deficits[p] = 0
      BY <2>3, <1>1 DEF IInv, TypeOK, SchedulerState, TurnMatchesCredit, CreditOnlyAtCursor
    <3>2. left = Quanta[p] - 1
      BY <3>1 DEF SpentCredit
    <3>3. turn'.used = Wrap(1, Quanta[p])
      BY <2>1, <2>3 DEF IInv, TypeOK
    <3> QED
      BY <2>1, <3>2, <3>3, <1>1, <1>2, <1>6, <1>7, QuantaAssumption DEF TurnMatchesCredit, Wrap
  <2> QED
    BY <2>2, <2>3
<1>10. ASSUME NEW c \in Classes
       PROVE  (lag[c] + Ahead(c) <= OthersQuanta(c))'
  <2>1. CASE c \in queues /\ c # p
    <3>1. lag'[c] = lag[c] + 1
      BY <2>1, <1>3
    <3>2. Ahead(c)' + 1 <= Ahead(c) /\ Ahead(c)' \in Nat /\ Ahead(c) \in Nat
      <4> DEFINE k == sched.cursor
      <4>1. k \in Classes /\ Left(p) = left + 1 /\ Left(k) \in Nat \ {0}
        BY <1>1, QuantaAssumption DEF IInv, TypeOK, SchedulerState, Left, SpentCredit
      <4>2. Ahead(c)' = IF left >= 1
                        THEN IF NextClass(p) = c THEN left ELSE left + Quanta[NextClass(p)]
                        ELSE IF NextClass(p) = c THEN 0 ELSE Quanta[NextClass(p)]
        BY <2>1, <1>1, <1>2, <1>6, <1>7, NextClassValues DEF Ahead, Left
      <4>3. CASE k = p
        BY <2>1, <4>1, <4>2, <4>3, <1>1, <1>2, QuantaAssumption, NextClassValues DEF Ahead
      <4>4. CASE k # p
        <5>1. NextClass(k) = p /\ NextClass(p) = c
          BY <4>1, <4>4, <2>1, <1>1, NextClassValues DEF FirstFrom
        <5>2. left + 1 = Quanta[p]
          BY <4>4, <4>1, <1>1 DEF IInv, TypeOK, SchedulerState, CreditOnlyAtCursor, Left
        <5> QED
          BY <2>1, <4>1, <4>2, <4>4, <5>1, <5>2, <1>1, <1>2, NextClassValues DEF Ahead
      <4> QED
        BY <4>3, <4>4
    <3>3. lag[c] \in Nat /\ OthersQuanta(c) \in Nat
      BY QuantaAssumption, NextClassValues DEF IInv, TypeOK, OthersQuanta
    <3>4. lag[c] + Ahead(c) <= OthersQuanta(c)
      BY DEF IInv
    <3> QED
      BY <3>1, <3>2, <3>3, <3>4 DEF OthersQuanta
  <2>2. CASE ~(c \in queues /\ c # p)
    <3>1. lag'[c] = 0
      BY <2>2, <1>3
    <3>2. Ahead(c)' <= OthersQuanta(c)
      BY <1>1, <1>2, <1>6, <1>7, QuantaAssumption, NextClassValues DEF Ahead, Left, OthersQuanta
    <3> QED
      BY <3>1, <3>2, <1>1, <1>2, <1>6, <1>7, QuantaAssumption, NextClassValues
      DEF Ahead, Left, OthersQuanta
  <2> QED
    BY <2>1, <2>2
<1> QED
  BY <1>5, <1>8, <1>9, <1>10 DEF IInv

\* The strengthened invariant holds of every run of the scheduler.
THEOREM Invariance == Spec => []IInv
<1>1. IInv /\ UNCHANGED vars => IInv'
  BY DEF IInv, TypeOK, CreditOnlyAtCursor, TurnMatchesCredit, Ahead, Left, vars
<1>2. IInv /\ [Next]_vars => IInv'
  BY <1>1, GrantPreserves DEF Next
<1> QED
  BY InitEstablishes, <1>2, PTL DEF Spec

\* The scheduler state keeps the shape validateScheduler demands.
THEOREM Typing == Spec => []TypeOK
<1>1. IInv => TypeOK
  BY DEF IInv
<1> QED
  BY Invariance, <1>1, PTL

\* For all positive quanta, a class that keeps waiting is served before the
\* other two classes have spent one quantum each.
THEOREM NoStarvation == Spec => []BoundedWait
<1>1. ASSUME IInv, NEW c \in Classes PROVE lag[c] <= OthersQuanta(c)
  <2>1. Ahead(c) \in Nat
    BY <1>1, QuantaAssumption, NextClassValues DEF IInv, TypeOK, SchedulerState, Ahead, Left
  <2> QED
    BY <1>1, <2>1, QuantaAssumption, NextClassValues DEF IInv, TypeOK, OthersQuanta
<1>2. IInv => BoundedWait
  BY <1>1 DEF BoundedWait
<1> QED
  BY Invariance, <1>2, PTL

\* No class hoards credit, for all positive quanta.
THEOREM NoHoarding == Spec => []CreditOnlyAtCursor
<1>1. IInv => CreditOnlyAtCursor
  BY DEF IInv
<1> QED
  BY Invariance, <1>1, PTL

\* A class with candidates loses the cursor only after a whole quantum.
THEOREM TurnsAreWhole == Spec => WholeQuanta
<1> DEFINE Whole == \A queues \in (SUBSET Classes) \ {{}} :
                      Grant(queues) /\ turn.class \in queues /\ turn'.class # turn.class
                        => turn.used = 0
<1>1. IInv => Whole
  <2> SUFFICES ASSUME IInv, NEW queues \in (SUBSET Classes) \ {{}}, Grant(queues),
                      turn.class \in queues, turn'.class # turn.class, turn.used # 0
               PROVE  FALSE
    OBVIOUS
  <2>1. sched.cursor = turn.class
    BY DEF IInv, TypeOK, TurnMatchesCredit
  <2>2. turn'.class = turn.class
    BY <2>1 DEF Grant, Decide, FirstFrom
  <2> QED
    BY <2>2
<1>2. IInv => [Whole]_vars
  BY <1>1
<1> QED
  BY Invariance, <1>2, PTL DEF WholeQuanta
=============================================================================
