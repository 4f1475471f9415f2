------------------------- MODULE MCRuntimeLifecycle -------------------------
EXTENDS RuntimeLifecycle, TLC

AnyPort == Permutations(Ports)
=============================================================================
