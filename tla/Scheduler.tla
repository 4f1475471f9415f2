----------------------------- MODULE Scheduler -----------------------------
(***************************************************************************)
(* The weighted deficit round robin decision that picks the priority class *)
(* of every capacity grant                                                 *)
(* (apps/server/src/model-api/capacity/scheduler.ts), as a function of the *)
(* persisted state [cursor, deficits] and of the classes that have an      *)
(* eligible candidate.  The queue inside a class is FIFO and belongs to    *)
(* the planner (AdmissionPlanner).                                         *)
(*                                                                         *)
(* Here and in the other modules an operator X_<Change> is a deliberately  *)
(* wrong variant of X.  No specification uses it: it records a mistake     *)
(* that one of the checked properties catches.                             *)
(***************************************************************************)
EXTENDS Integers

CONSTANT Quanta    \* PRIORITY_CLASS_QUANTA: grants per turn, by class rank

PRIORITY_CLASS_COUNT == 3

Classes == 0 .. PRIORITY_CLASS_COUNT - 1

\* validateScheduler throws unless every quantum is a positive integer.
ASSUME QuantaAssumption == Quanta \in [Classes -> Nat \ {0}]

SchedulerState == [cursor : Classes, deficits : [Classes -> Nat]]

\* A capacity without a usable persisted row starts here.
FreshScheduler == [cursor   |-> PRIORITY_CLASS_COUNT - 1,
                   deficits |-> [c \in Classes |-> 0]]

NextClass(c) == (c + 1) % PRIORITY_CLASS_COUNT

\* The first class with a queue, visiting cyclically from the cursor.
FirstFrom(c, queues) ==
  IF c \in queues THEN c
  ELSE IF NextClass(c) \in queues THEN NextClass(c) ELSE NextClass(NextClass(c))

SpentCredit_RefillsEveryVisit(state, p) == state.deficits[p] + Quanta[p] - 1

\* The credit of class p after one grant: only a spent quantum is refilled.
SpentCredit(state, p) ==
  IF state.deficits[p] < 1 THEN Quanta[p] - 1 ELSE state.deficits[p] - 1

\* The cursor stays with the granted class while credit remains.
CursorAfter(p, left) == IF left >= 1 THEN p ELSE NextClass(p)

\* One decision over the classes in queues, which is not empty: classes without
\* a queue lose their credit, and the first class found is granted.
Decide(state, queues) ==
  LET p    == FirstFrom(state.cursor, queues)
      left == SpentCredit(state, p)
  IN  [winner |-> p,
       state  |-> [cursor   |-> CursorAfter(p, left),
                   deficits |-> [c \in Classes |->
                                   IF c = p THEN left
                                   ELSE IF c \in queues THEN state.deficits[c]
                                   ELSE 0]]]
=============================================================================
