--------------------------- MODULE MCSubmitOrder ---------------------------
(***************************************************************************)
(* Model-checking instances of SubmitOrder: the calls share one key, and   *)
(* one call has none.                                                      *)
(***************************************************************************)
EXTENDS SubmitOrder, TLC

CONSTANTS theKey, keyless

OneKey == {theKey}

SharedKey == [r \in Requests |-> IF r = keyless THEN "none" ELSE theKey]

Symmetric == Permutations(Requests \ {keyless})

=============================================================================
