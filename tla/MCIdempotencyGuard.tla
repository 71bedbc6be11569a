------------------------- MODULE MCIdempotencyGuard -------------------------
(***************************************************************************)
(* Model-checking instance of IdempotencyGuard, see Guard.cfg.  Three      *)
(* clients are needed for the second SET to lose a race to a third party,  *)
(* and one token more than clients and keys in use always leaves a fresh   *)
(* one.  Without symmetry: the refinement mapping chooses among clients.   *)
(***************************************************************************)
EXTENDS IdempotencyGuard

=============================================================================
