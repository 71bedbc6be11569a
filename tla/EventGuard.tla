----------------------------- MODULE EventGuard -----------------------------
(***************************************************************************)
(* What the idempotency guard promises its callers: claim() is one atomic  *)
(* step, and only the owner of a key can complete or release it.           *)
(***************************************************************************)
EXTENDS GuardOps

CONSTANTS Clients, Events

VARIABLES guard,    \* guard[e]: the key of event e
          status,   \* status[c]: where c's claim stands, the Claim.status it got
          ev        \* ev[c]: the event of c's claim

vars == <<guard, status, ev>>

Init ==
  /\ guard = [e \in Events |-> "absent"]
  /\ status = [c \in Clients |-> "idle"]
  /\ ev = [c \in Clients |-> "none"]

Call(c, e) ==
  /\ status[c] = "idle"
  /\ status' = [status EXCEPT ![c] = "calling"]
  /\ ev' = [ev EXCEPT ![c] = e]
  /\ UNCHANGED guard

Answer(c, s) ==
  /\ status[c] = "calling"
  /\ status' = [status EXCEPT ![c] = s]
  /\ UNCHANGED ev

\* Exactly one claimant of an absent key wins it.
Acquire(c) ==
  /\ Answer(c, "acquired")
  /\ guard[ev[c]] = "absent"
  /\ guard' = SetNx(guard, ev[c], c)

\* "already done" is answered only while the tombstone is there.
AlreadyDone(c) ==
  /\ Answer(c, "already_done")
  /\ guard[ev[c]] = "done"
  /\ UNCHANGED guard

\* "in progress" promises nothing: the caller must try again.
InProgress(c) == Answer(c, "in_progress") /\ UNCHANGED guard

Complete(c) ==
  /\ status[c] = "acquired"
  /\ guard' = CasComplete(guard, ev[c], c)
  /\ status' = [status EXCEPT ![c] = "completed"]
  /\ UNCHANGED ev

\* The caller lets go of its claim: after a release, or by forgetting it.
LetGo(c) ==
  /\ status[c] # "idle"
  /\ \/ /\ status[c] \in {"acquired", "completed"}
        /\ guard' = CasRelease(guard, ev[c], c)
     \/ guard' = Abandon(guard, ev[c], c)
  /\ status' = [status EXCEPT ![c] = "idle"]
  /\ ev' = [ev EXCEPT ![c] = "none"]

\* The TTL of a key runs out, or an operator deletes it.
Vanish(e) ==
  /\ guard' = [guard EXCEPT ![e] = "absent"]
  /\ UNCHANGED <<status, ev>>

Next ==
  \/ \E c \in Clients : \/ \E e \in Events : Call(c, e)
                        \/ Acquire(c) \/ AlreadyDone(c) \/ InProgress(c)
                        \/ Complete(c) \/ LetGo(c)
  \/ \E e \in Events : Vanish(e)

Spec == Init /\ [][Next]_vars

=============================================================================
