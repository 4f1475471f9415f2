------------------------------ MODULE Optional ------------------------------
(* The value the code writes as null or undefined, and optional numbers.   *)
EXTENDS Naturals

CONSTANT Null

NatOrNull == Nat \cup {Null}
=============================================================================
