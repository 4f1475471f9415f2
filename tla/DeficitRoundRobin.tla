------------------------- MODULE DeficitRoundRobin -------------------------
(***************************************************************************)
(* A capacity's scheduler over its whole life: one decision after another, *)
(* each made on a set of classes that may have changed in any way since    *)
(* the last one (waiters arrive, leave, or are blocked by a limit or by a  *)
(* kept slot).  lag and turn are history variables.                        *)
(***************************************************************************)
EXTENDS Scheduler

VARIABLES sched,    \* the persisted scheduler state
          lag,      \* lag[c]: grants other classes took since c has been waiting
          turn      \* [class, used]: the class granted last and its grants, modulo its quantum

vars == <<sched, lag, turn>>

Init ==
  /\ sched = FreshScheduler
  /\ lag = [c \in Classes |-> 0]
  /\ turn = [class |-> PRIORITY_CLASS_COUNT - 1, used |-> 0]

Wrap(used, quantum) == IF used >= quantum THEN 0 ELSE used

\* One grant made while exactly the classes in queues have a candidate.
Grant(queues) ==
  LET d == Decide(sched, queues)
      p == d.winner
  IN  /\ sched' = d.state
      /\ lag' = [c \in Classes |-> IF c \in queues /\ c # p THEN lag[c] + 1 ELSE 0]
      /\ turn' = [class |-> p,
                  used  |-> Wrap(IF turn.class = p THEN turn.used + 1 ELSE 1, Quanta[p])]

Next == \E queues \in (SUBSET Classes) \ {{}} : Grant(queues)

Spec == Init /\ [][Next]_vars
-----------------------------------------------------------------------------
\* The scheduler row keeps the shape validateScheduler demands.
TypeOK ==
  /\ sched \in SchedulerState
  /\ lag \in [Classes -> Nat]
  /\ turn \in [class : Classes, used : Nat]

OthersQuanta(c) == Quanta[NextClass(c)] + Quanta[NextClass(NextClass(c))]

\* No starvation, with its exact bound: a class that has had a candidate at
\* every decision is passed over at most as often as the quanta of the two
\* other classes add up to, whatever the other classes do in the meantime.
BoundedWait == \A c \in Classes : lag[c] <= OthersQuanta(c)

\* Credit never survives the cursor: a class that is not being served holds no
\* deficit, so a class cannot save up credit and burst past its quantum later.
CreditOnlyAtCursor ==
  \A c \in Classes : sched.deficits[c] > 0 => c = sched.cursor /\ sched.deficits[c] < Quanta[c]

\* A class that still has candidates gives up the cursor only on a whole
\* quantum: higher weight is neither cut short nor stretched.
WholeQuanta ==
  [][\A queues \in (SUBSET Classes) \ {{}} :
        Grant(queues) /\ turn.class \in queues /\ turn'.class # turn.class
          => turn.used = 0]_vars
=============================================================================
