----------------------------- MODULE KeptSlots -----------------------------
(***************************************************************************)
(* The kept slots of one capacity as its owners reconfigure their pools    *)
(* and its limit moves (engine slots observed, override edited): every     *)
(* admission pass allocates them anew.                                     *)
(***************************************************************************)
EXTENDS Integers, ReservationSlots

CONSTANTS Owners, MaxConfigured, MaxLimit

VARIABLES configured, limit, tie

vars == <<configured, limit, tie>>

Ties == {t \in [Owners -> 1 .. Cardinality(Owners)] : \A o, p \in Owners : t[o] = t[p] => o = p}

Init == configured = [o \in Owners |-> 0] /\ limit = 1 /\ tie \in Ties

\* A pool's keptSlots is edited.
Configure(o, n) == configured' = [configured EXCEPT ![o] = n] /\ UNCHANGED <<limit, tie>>

\* effectiveInstanceConcurrency changes.
SetLimit(n) == limit' = n /\ UNCHANGED <<configured, tie>>

Next ==
  \/ \E o \in Owners, n \in 0 .. MaxConfigured : Configure(o, n)
  \/ \E n \in 1 .. MaxLimit : SetLimit(n)

Spec == Init /\ [][Next]_vars

Kept == AllocateReservationSlots(configured, limit, tie)
-----------------------------------------------------------------------------
\* allocateReservationSlots never keeps more slots than the capacity has, and
\* an oversubscribed capacity keeps every one of its slots: rounding loses
\* none and invents none.
KeptExactly ==
  SlotSum(Kept) = IF SlotSum(configured) <= limit THEN SlotSum(configured) ELSE limit
=============================================================================
