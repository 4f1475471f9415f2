--------------------------- MODULE MCCapacityLocks ---------------------------
(***************************************************************************)
(* Two transactions, two capacities and four requests, from two tables: in *)
(* one, two requests wait on both capacities and each capacity is leased;  *)
(* in the other, three requests have ended and the one with a scope of its *)
(* own is still to be created.                                             *)
(***************************************************************************)
EXTENDS CapacityLocks, TLC

MCAttempt == [r \in Requests |-> r - 20]
MCPolicy == [c \in Capacities |-> c - 6]
MCScope == [r \in Requests |-> IF r = 33 THEN {17} ELSE {}]
MCUserRow == [o \in Owners |-> o + 40]

On(a, b, c, d) == [r \in Requests |-> CASE r = 31 -> a [] r = 32 -> b [] r = 33 -> c [] r = 34 -> d]

MCStarts ==
    {[live  |-> On({21, 22}, {21, 22}, {}, {}),
      lease |-> On({}, {}, {21}, {22}),
      past  |-> On({21, 22}, {21, 22}, {21}, {22})],
     [live  |-> On({}, {}, {}, {}),
      lease |-> On({}, {}, {}, {}),
      past  |-> On({21}, {21, 22}, {}, {22})]}

Interchangeable == Permutations(Txs)
=============================================================================
