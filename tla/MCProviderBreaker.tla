-------------------------- MODULE MCProviderBreaker --------------------------
(* A few attempts on the models of one account.  Failures back off for 1,  *)
(* then 2; a provider may ask for more than the maximum of 3.              *)
EXTENDS ProviderBreaker, TLC

CONSTANTS m1, m2

MCBackoff == <<1, 2>>
TwoModels == Permutations({m1, m2})
==============================================================================
