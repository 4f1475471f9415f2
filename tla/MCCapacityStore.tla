-------------------------- MODULE MCCapacityStore --------------------------
(* Three requests on two capacities.  r1 and r3 belong to pool A, whose    *)
(* members a1 (capacity 1, one kept slot) and a2 (capacity 2) share a      *)
(* limit of one lease; r2 belongs to pool B, whose member b1 is on         *)
(* capacity 1.  r1 is deferred on a2 behind the cache holder a1.           *)
EXTENDS CapacityStore

CONSTANTS r1, r2, r3, a1, a2, b1

MCRequests == {r1, r2, r3}
MCOwners == {a1, a2, b1}
MCPools == {"A", "B"}
MCCapacities == {1, 2}
MCQuanta == (0 :> 1) @@ (1 :> 2) @@ (2 :> 3)
MCHome == (a1 :> 1) @@ (a2 :> 2) @@ (b1 :> 1)
MCPoolOf == (a1 :> "A") @@ (a2 :> "A") @@ (b1 :> "B")
MCConfigured == (a1 :> 1) @@ (a2 :> 0) @@ (b1 :> 0)
MCTie == (a1 :> 1) @@ (a2 :> 2) @@ (b1 :> 3)

Candidate(r, order, o, prio, cap, delay, budget) ==
  [req |-> r, order |-> order, owner |-> o, prio |-> prio, cap |-> cap, borrow |-> TRUE,
   own |-> Null, delay |-> delay, budget |-> budget]

MCCand == <<Candidate(r1, 0, a1, 1, 1, 0, 1), Candidate(r1, 1, a2, 1, 1, 1, 1),
            Candidate(r2, 0, b1, 2, Null, 0, Null),
            Candidate(r3, 0, a2, 1, 1, 0, 0), Candidate(r3, 1, a1, 1, 1, 0, 2)>>

MkAttempt(deadline, failOpen, anchor) ==
  [deadline |-> deadline, failOpen |-> failOpen, anchor |-> anchor, spillDelay |-> 1]

MCAttempt == (r1 :> MkAttempt(2, FALSE, Null)) @@ (r2 :> MkAttempt(1, TRUE, Null))
               @@ (r3 :> MkAttempt(3, TRUE, r1))

(* A long queue on a graph that stays as it is.                            *)
Queue ==
  [cand |-> MCCand, moves |-> {}, limits |-> (1 :> {1}) @@ (2 :> {1}), until |-> 3]

(* The graph moves under the queue: pool A may hold two leases, capacity 1 *)
(* gains a slot, a member fills up and disappears.                         *)
GraphCand == <<Candidate(r1, 0, a1, 1, 2, 0, Null), Candidate(r1, 1, a2, 1, 2, 1, Null),
               Candidate(r2, 0, b1, 2, Null, 0, Null),
               Candidate(r3, 0, a1, 1, 2, 0, 0)>>
Graph ==
  [cand |-> GraphCand, moves |-> {<<a1, "FULL">>, <<a1, "TARGET_DELETED">>},
   limits |-> (1 :> {1, 2}) @@ (2 :> {1}), until |-> 1]

(* A member drains under waiters that are already queued.                  *)
Drain ==
  [cand |-> GraphCand, moves |-> {<<b1, "DRAINED">>},
   limits |-> (1 :> {1}) @@ (2 :> {1}), until |-> 1]

MCWorlds == {Queue, Graph, Drain}
============================================================================
