----------------------------- MODULE OrderLife -----------------------------
(***************************************************************************)
(* What the pipeline promises of each order: the state machine that        *)
(* docs/ARCHITECTURE.md draws, with the attempts and the dead letter.      *)
(* There are no workers, topics, locks or transactions here.               *)
(***************************************************************************)
EXTENDS Integers

CONSTANTS Orders,
          Hopeless,      \* the orders that fulfil() fails for good
          Doomed,        \* the orders that fulfil() fails, for good or not
          MaxAttempts

VARIABLES announced,   \* the orders whose event was published
          status,      \* status[o], attempts[o]: the row of o
          attempts,
          letters      \* the orders with a dead letter

vars == <<announced, status, attempts, letters>>

Init ==
  /\ announced = {}
  /\ status = [o \in Orders |-> "pending"]
  /\ attempts = [o \in Orders |-> 0]
  /\ letters = {}

\* An event is published, or a retry of it replayed.
Announce(o) ==
  /\ announced' = announced \cup {o}
  /\ UNCHANGED <<status, attempts, letters>>

Move(o, s) ==
  /\ status' = [status EXCEPT ![o] = s]
  /\ UNCHANGED <<announced, letters>>

\* An attempt starts.  After a crash the order is still processing, and after a
\* rebalance the record of an earlier attempt may come once more.
TakeUp(o, n) ==
  /\ o \in announced /\ status[o] \in {"pending", "processing"}
  /\ Move(o, "processing")
  /\ attempts' = [attempts EXCEPT ![o] = n]

\* An attempt succeeds ...
Complete(o) ==
  /\ status[o] = "processing" /\ o \notin Doomed
  /\ Move(o, "completed")
  /\ UNCHANGED attempts

\* ... or fails and there will be another ...
Postpone(o) ==
  /\ status[o] = "processing" /\ o \in Doomed \ Hopeless /\ attempts[o] < MaxAttempts
  /\ Move(o, "pending")
  /\ UNCHANGED attempts

\* ... or fails for good.
Fail(o) ==
  /\ status[o] = "processing" /\ o \in Doomed
  /\ o \in Hopeless \/ attempts[o] = MaxAttempts
  /\ Move(o, "failed")
  /\ UNCHANGED attempts

DeadLetter(o) ==
  /\ status[o] = "failed"
  /\ letters' = letters \cup {o}
  /\ UNCHANGED <<announced, status, attempts>>

Next ==
  \E o \in Orders :
    \/ Announce(o) \/ \E n \in 1..MaxAttempts : TakeUp(o, n)
    \/ Complete(o) \/ Postpone(o) \/ Fail(o) \/ DeadLetter(o)

Spec == Init /\ [][Next]_vars

=============================================================================
