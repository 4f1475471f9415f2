-------------------------- MODULE ReservationSlots --------------------------
(***************************************************************************)
(* allocateReservationSlots of                                             *)
(* apps/server/src/model-api/capacity/postgres-store.ts: the kept slots    *)
(* the owners on one capacity really get when their configured ones add up *)
(* to more than its limit, by largest remainder.                           *)
(*                                                                         *)
(* The code compares remainders as doubles, so that two equal remainders   *)
(* may come out either way before the owner key decides: tie is the order  *)
(* (an injective numbering of the owners) that rounding and keys produce.  *)
(***************************************************************************)
EXTENDS Naturals, FiniteSetsExt

SlotSum(slots) == MapThenSumSet(LAMBDA o : slots[o], DOMAIN slots)

WholeShare(configured, limit, o) == (configured[o] * limit) \div SlotSum(configured)

Remainder(configured, limit, o) == (configured[o] * limit) % SlotSum(configured)

ServedBefore(configured, limit, tie, p, o) ==
  \/ Remainder(configured, limit, p) > Remainder(configured, limit, o)
  \/ Remainder(configured, limit, p) = Remainder(configured, limit, o) /\ tie[p] < tie[o]

ExtraSlot_Never(configured, limit, tie, o) == 0

\* The slots that rounding down leaves over go to the largest remainders.
ExtraSlot(configured, limit, tie, o) ==
  LET owners     == DOMAIN configured
      unassigned == limit - SlotSum([p \in owners |-> WholeShare(configured, limit, p)])
  IN  IF Cardinality({p \in owners : ServedBefore(configured, limit, tie, p, o)}) < unassigned
      THEN 1 ELSE 0

AllocateReservationSlots(configured, limit, tie) ==
  IF SlotSum(configured) <= limit THEN configured
  ELSE [o \in DOMAIN configured |->
          WholeShare(configured, limit, o) + ExtraSlot(configured, limit, tie, o)]
=============================================================================
