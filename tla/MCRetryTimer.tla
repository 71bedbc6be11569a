---------------------------- MODULE MCRetryTimer ----------------------------
(***************************************************************************)
(* Model-checking instance of RetryTimer.  Consumers and partitions are    *)
(* interchangeable, and only invariants are checked.                       *)
(***************************************************************************)
EXTENDS RetryTimer, TLC

Symmetric == Permutations(Consumers) \cup Permutations(Partitions)

=============================================================================
