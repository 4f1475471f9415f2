---------------------------- MODULE MCSpendBudget ----------------------------
(* Two attempts of liability 2 under a cap of 3, in months of two ticks.    *)
EXTENDS SpendBudget
=============================================================================
