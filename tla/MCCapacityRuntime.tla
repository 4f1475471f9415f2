-------------------------- MODULE MCCapacityRuntime --------------------------
(***************************************************************************)
(* One time unit stands for about 8 s: TTL 30 s, interval 10 s, one        *)
(* backoff of 4 s rounded up.                                              *)
(***************************************************************************)
EXTENDS CapacityRuntime

MCDelays == <<1>>
=============================================================================
