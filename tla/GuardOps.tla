------------------------------ MODULE GuardOps ------------------------------
(***************************************************************************)
(* The value of the Redis key idem:event:{event_id}, as its users see it.  *)
(*                                                                         *)
(* In the code the key holds a random token, and a claimant owns the key   *)
(* exactly when it still remembers that token.  Seen from outside, a key   *)
(* that holds a token is therefore either owned by the one client that     *)
(* remembers the token, or an "orphan" (its owner crashed, or dropped the  *)
(* claim without giving it back) which only its TTL can remove.  Module    *)
(* IdempotencyGuard models the tokens and is shown to implement this view. *)
(***************************************************************************)

\* What a key may hold when the clients are the members of Owner.
GuardValue(Owner) == Owner \cup {"absent", "done", "orphan"}

\* SET key token NX EX ttl, on an absent key: c owns the key.
SetNx(g, e, c) == [g EXCEPT ![e] = c]

\* _COMPLETE_LUA: the tombstone replaces the token only for its owner.
CasComplete(g, e, c) == IF g[e] = c THEN [g EXCEPT ![e] = "done"] ELSE g

\* _RELEASE_LUA: the key is deleted only for its owner.
CasRelease(g, e, c) == IF g[e] = c THEN [g EXCEPT ![e] = "absent"] ELSE g

\* c forgets its token; a key that still holds it has no owner any more.
Abandon(g, e, c) == IF g[e] = c THEN [g EXCEPT ![e] = "orphan"] ELSE g

=============================================================================
