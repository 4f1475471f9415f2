--------------------------- MODULE MCUserDeletion ---------------------------
(* Two users, of whom one may stay stuck, a request that deletes and the     *)
(* sweep with pages of one user; two generations, so that an abandoned user  *)
(* is restored and marked again while a worker of the old generation is      *)
(* still under way; one user request, and one fault anywhere.                *)
EXTENDS UserDeletion
=============================================================================
