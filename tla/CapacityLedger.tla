--------------------------- MODULE CapacityLedger ---------------------------
(***************************************************************************)
(* What the capacity store promises its callers, with queues, policies,    *)
(* clocks and sweeps abstracted away: an admission request moves once      *)
(* through its life cycle, holds a slot of one capacity exactly while it   *)
(* is ADMITTED, and is given one only while the capacity's limit allows.   *)
(***************************************************************************)
EXTENDS Optional, FiniteSets

CONSTANTS Requests, Capacities

VARIABLES
  state,   \* AdmissionRequest.state, "ABSENT" before it is created
  slot,    \* the capacity whose ACTIVE lease the request holds, or Null
  limit    \* hard concurrency limit of each capacity, Null = unlimited

vars == <<state, slot, limit>>

RequestStates == {"ABSENT", "WAITING", "ADMITTED", "TERMINAL", "CANCELLED", "EXPIRED"}

LifeCycle ==
  {<<"ABSENT", "WAITING">>, <<"ABSENT", "ADMITTED">>, <<"ABSENT", "EXPIRED">>,
   <<"WAITING", "ADMITTED">>, <<"WAITING", "CANCELLED">>, <<"WAITING", "EXPIRED">>,
   <<"ADMITTED", "TERMINAL">>}

Holders(c) == {r \in Requests : slot[r] = c}

Init ==
  /\ state = [r \in Requests |-> "ABSENT"]
  /\ slot = [r \in Requests |-> Null]
  /\ limit \in [Capacities -> NatOrNull]

\* One transaction: requests move along the life cycle, at most one is new.
Transact ==
  /\ state' \in [Requests -> RequestStates] /\ slot' \in [Requests -> Capacities \cup {Null}]
  /\ \A r \in Requests :
       /\ state'[r] # state[r] => <<state[r], state'[r]>> \in LifeCycle
       /\ slot'[r] # Null <=> state'[r] = "ADMITTED"
       /\ slot[r] # Null /\ slot'[r] # Null => slot'[r] = slot[r]
  /\ \A c \in Capacities :
       ~(Holders(c)' \subseteq Holders(c)) /\ limit[c] # Null
         => Cardinality(Holders(c)') <= limit[c]
  /\ \A q, r \in Requests :
       state[q] = "ABSENT" /\ state[r] = "ABSENT" /\ state'[q] # "ABSENT" /\ state'[r] # "ABSENT"
         => q = r
  /\ UNCHANGED limit

ChangeLimit == limit' \in [Capacities -> NatOrNull] /\ UNCHANGED <<state, slot>>

Next == Transact \/ ChangeLimit

Spec == Init /\ [][Next]_vars
=============================================================================
