---------------------------- MODULE MCOrderCache ----------------------------
(***************************************************************************)
(* Model-checking instance of OrderCache.                                  *)
(***************************************************************************)
EXTENDS OrderCache

=============================================================================
