--------------------------- MODULE TopicDelivery ---------------------------
(***************************************************************************)
(* What the consume loop promises of a topic: at-least-once delivery, in   *)
(* the order of each partition.  There are no workers, batches, positions  *)
(* or rebalances here, and records may be handled again at any time.       *)
(***************************************************************************)
EXTENDS Integers

CONSTANT Partitions

VARIABLES logEnd,      \* logEnd[p]: how many records p has
          committed,   \* committed[p]: where the group would start again
          handled      \* the records that were handled, as <<partition, offset>>

vars == <<logEnd, committed, handled>>

Init ==
  /\ logEnd = [p \in Partitions |-> 0]
  /\ committed = [p \in Partitions |-> 0]
  /\ handled = {}

HandledUpTo(p, n) == \A o \in 0..(n - 1) : <<p, o>> \in handled

Append(p) ==
  /\ logEnd' = [logEnd EXCEPT ![p] = @ + 1]
  /\ UNCHANGED <<committed, handled>>

\* A record is handled when all before it were.
Handle(p, o) ==
  /\ HandledUpTo(p, o)
  /\ handled' = handled \cup {<<p, o>>}
  /\ UNCHANGED <<logEnd, committed>>

\* An offset is committed, even an older one, when all before it were handled.
CommitOffset(p, n) ==
  /\ HandledUpTo(p, n)
  /\ committed' = [committed EXCEPT ![p] = n]
  /\ UNCHANGED <<logEnd, handled>>

Next ==
  \E p \in Partitions :
    \/ Append(p)
    \/ \E o \in 0..(logEnd[p] - 1) : Handle(p, o)
    \/ \E n \in 0..logEnd[p] : CommitOffset(p, n)

Spec == Init /\ [][Next]_vars

=============================================================================
