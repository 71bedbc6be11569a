-------------------------- MODULE MCConsumerGroup --------------------------
(***************************************************************************)
(* Model-checking instances of ConsumerGroup.                              *)
(***************************************************************************)
EXTENDS ConsumerGroup

\* The records that are not JSON: the first of each partition, or the second of
\* one partition (the partitions are then not interchangeable).
FirstIsGarbage == Partitions \X {0}
OneSecondIsGarbage == {<<CHOOSE p \in Partitions : TRUE, 1>>}

=============================================================================
