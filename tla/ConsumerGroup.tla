--------------------------- MODULE ConsumerGroup ---------------------------
(***************************************************************************)
(* BaseConsumer (app/kafka/consumers.py): the consume loop that all three  *)
(* consumers of a worker run, for one topic and its consumer group.        *)
(*                                                                         *)
(* The loop polls a batch, hands its records one by one to the handler,    *)
(* and after each record either commits the next offset or rewinds to the  *)
(* record.  Between any two of these steps the group may be rebalanced,    *)
(* and the worker may stop, die and start again.  What the handler does is *)
(* the business of OrderPipeline; here it answers COMMIT or REDELIVER.     *)
(*                                                                         *)
(* The group coordinator and the client library are not in the repository; *)
(* they are modelled from how the loop uses them.                          *)
(***************************************************************************)
EXTENDS Integers, FiniteSets

CONSTANTS Workers, Partitions,
          Garbage,       \* the records whose bytes are not JSON
          MaxPoll,       \* max_poll_records
          MaxLen,        \* bound on the records of a partition
          MaxRecords,    \* bound on the records of the topic
          MaxFaults      \* bound on rebalances, shutdowns and crashes

Records == Partitions \X Nat

ASSUME GroupAssumption ==
  /\ Garbage \subseteq Records
  /\ MaxPoll \in Nat \ {0} /\ MaxLen \in Nat /\ MaxRecords \in Nat /\ MaxFaults \in Nat
  /\ "none" \notin Workers

VARIABLES
  logEnd,     \* logEnd[p]: the offset the next record of p will get
  committed,  \* committed[p]: the group's committed offset
  owner,      \* owner[p]: the member p is assigned to
  position,   \* position[w][p]: where w fetches next, NoPosition if p is not its own
  loop,       \* loop[w]: where w is in run()
  batch,      \* batch[w]: the records of the last poll that are still to be handled
  rec,        \* rec[w]: the record of the batch in hand, as <<partition, offset>>
  stopping,   \* stopping[w]: the flag set by stop()
  handled,    \* the records for which a handler has answered COMMIT
  group,      \* history: "new", "first" assignment, or "rebalanced" since
  faults      \* how many faults have happened

vars == <<logEnd, committed, owner, position, loop, batch, rec, stopping, handled, group, faults>>

NoPosition == -1
NoRecord == <<>>
InHand == {"handle", "commit", "seek"}

TypeOK ==
  /\ logEnd \in [Partitions -> Nat]
  /\ committed \in [Partitions -> Nat]
  /\ owner \in [Partitions -> Workers \cup {"none"}]
  /\ position \in [Workers -> [Partitions -> Nat \cup {NoPosition}]]
  /\ loop \in [Workers -> InHand \cup {"join", "poll", "next", "down"}]
  /\ batch \in [Workers -> SUBSET Records]
  /\ rec \in [Workers -> Records \cup {NoRecord}]
  /\ \A w \in Workers : loop[w] \in InHand => rec[w] \in Records
  /\ stopping \in [Workers -> BOOLEAN]
  /\ handled \subseteq Records
  /\ group \in {"new", "first", "rebalanced"}
  /\ faults \in Nat

Unassigned == [p \in Partitions |-> NoPosition]

Init ==
  /\ logEnd = [p \in Partitions |-> 0]
  /\ committed = [p \in Partitions |-> 0]
  /\ owner = [p \in Partitions |-> "none"]
  /\ position = [w \in Workers |-> Unassigned]
  /\ loop = [w \in Workers |-> "join"]
  /\ batch = [w \in Workers |-> {}]
  /\ rec = [w \in Workers |-> NoRecord]
  /\ stopping = [w \in Workers |-> FALSE]
  /\ handled = {}
  /\ group = "new"
  /\ faults = 0

-----------------------------------------------------------------------------
(* The broker.                                                             *)

\* A producer appends a record.
Append(p) ==
  /\ logEnd[p] < MaxLen
  /\ Cardinality({r \in Partitions \X (0..MaxLen) : r[2] < logEnd[r[1]]}) < MaxRecords
  /\ logEnd' = [logEnd EXCEPT ![p] = @ + 1]
  /\ UNCHANGED <<committed, owner, position, loop, batch, rec, stopping, handled, group, faults>>

\* The coordinator assigns the partitions to the members that joined; each of
\* them fetches from the committed offsets, and one whose start() was waiting for
\* this goes on.  A live worker that did not join in time keeps its old positions
\* until it finds out.
Rebalance(members) ==
  /\ members # {}
  /\ \A w \in members : loop[w] # "down"
  /\ owner' \in [Partitions -> members]
  /\ position' = [w \in Workers |->
       IF w \notin members THEN position[w]
       ELSE [p \in Partitions |-> IF owner'[p] = w THEN committed[p] ELSE NoPosition]]
  /\ loop' = [w \in Workers |->
       IF w \in members /\ loop[w] = "join" THEN "poll" ELSE loop[w]]
  /\ group' = IF group = "new" THEN "first" ELSE "rebalanced"
  /\ UNCHANGED <<logEnd, committed, batch, rec, stopping, handled>>

\* Some partition has no owner that consumes it.
Unserved ==
  \E p \in Partitions : \A w \in Workers : owner[p] # w \/ position[w][p] = NoPosition

\* The rebalance that every join and every death makes, and one that comes at any
\* other time (a slow heartbeat, a new replica).
Assign(members) ==
  /\ Unserved \/ \E w \in members : loop[w] = "join"
  /\ Rebalance(members)
  /\ UNCHANGED faults
Reassign(members) == faults < MaxFaults /\ Rebalance(members) /\ faults' = faults + 1

-----------------------------------------------------------------------------
(* run()                                                                   *)

\* w may be sent the records of p from its position up to offset n.
MayFetch(w, p, n) ==
  IF position[w][p] = NoPosition THEN n = NoPosition
  ELSE position[w][p] <= n /\ n <= logEnd[p]

Fetched(w, upto) ==
  {r \in Partitions \X (0..MaxLen) :
     position[w][r[1]] # NoPosition /\ position[w][r[1]] <= r[2] /\ r[2] < upto[r[1]]}

\* run() has ended, by return or by an exception: consumer.stop() leaves the group.
Ended(w) ==
  /\ loop' = [loop EXCEPT ![w] = "down"]
  /\ batch' = [batch EXCEPT ![w] = {}]
  /\ rec' = [rec EXCEPT ![w] = NoRecord]
  /\ position' = [position EXCEPT ![w] = Unassigned]

\* getmany() returns records, all of which the value_deserializer could read.
GetMany(w) ==
  /\ loop[w] = "poll" /\ ~stopping[w]
  /\ \E upto \in [Partitions -> NoPosition..MaxLen] :
       LET got == Fetched(w, upto) IN
       /\ \A p \in Partitions : MayFetch(w, p, upto[p])
       /\ got # {} /\ Cardinality(got) <= MaxPoll
       /\ got \cap Garbage = {}
       /\ batch' = [batch EXCEPT ![w] = got]
       /\ position' = [position EXCEPT ![w] = upto]
  /\ loop' = [loop EXCEPT ![w] = "next"]
  /\ UNCHANGED <<logEnd, committed, owner, rec, stopping, handled, group, faults>>

\* getmany() comes to a record that json.loads cannot read: the exception is
\* not _safe_handle's, it ends run().
GetManyRaises(w) ==
  /\ loop[w] = "poll" /\ ~stopping[w]
  /\ \E p \in Partitions : \E n \in 0..(logEnd[p] - 1) :
       /\ position[w][p] # NoPosition
       /\ position[w][p] <= n /\ n < position[w][p] + MaxPoll
       /\ <<p, n>> \in Garbage
  /\ Ended(w)
  /\ UNCHANGED <<logEnd, committed, owner, stopping, handled, group, faults>>

\* The first record left of a partition; a partition once begun is gone through.
IsNext(w, r) ==
  /\ r \in batch[w]
  /\ \A s \in batch[w] : s[1] = r[1] => r[2] <= s[2]
  /\ rec[w] # NoRecord /\ (\E s \in batch[w] : s[1] = rec[w][1]) => r[1] = rec[w][1]

TakeRecord(w) ==
  /\ loop[w] = "next" /\ ~stopping[w]
  /\ \E r \in batch[w] :
       /\ IsNext(w, r)
       /\ rec' = [rec EXCEPT ![w] = r]
       /\ batch' = [batch EXCEPT ![w] = @ \ {r}]
  /\ loop' = [loop EXCEPT ![w] = "handle"]
  /\ UNCHANGED <<logEnd, committed, owner, position, stopping, handled, group, faults>>

BatchDone(w) ==
  /\ loop[w] = "next" /\ batch[w] = {}
  /\ loop' = [loop EXCEPT ![w] = "poll"]
  /\ rec' = [rec EXCEPT ![w] = NoRecord]
  /\ UNCHANGED <<logEnd, committed, owner, position, batch, stopping, handled, group, faults>>

\* As a mutant: the rest of the batch is handled along with the record.
HandleCommit_WholeBatch(w) ==
  /\ loop[w] = "handle"
  /\ handled' = handled \cup {rec[w]} \cup batch[w]
  /\ loop' = [loop EXCEPT ![w] = "commit"]
  /\ UNCHANGED <<logEnd, committed, owner, position, batch, rec, stopping, group, faults>>

\* handle(record) is Ack.COMMIT ...
HandleCommit(w) ==
  /\ loop[w] = "handle"
  /\ handled' = handled \cup {rec[w]}
  /\ loop' = [loop EXCEPT ![w] = "commit"]
  /\ UNCHANGED <<logEnd, committed, owner, position, batch, rec, stopping, group, faults>>

\* As a mutant: an exception of the handler is logged and the record committed.
HandleRedeliver_Commits(w) ==
  /\ loop[w] = "handle"
  /\ loop' = [loop EXCEPT ![w] = "commit"]
  /\ UNCHANGED <<logEnd, committed, owner, position, batch, rec, stopping, handled, group, faults>>

\* ... or Ack.REDELIVER, which is also what _safe_handle makes of an exception.
HandleRedeliver(w) ==
  /\ loop[w] = "handle"
  /\ loop' = [loop EXCEPT ![w] = "seek"]
  /\ UNCHANGED <<logEnd, committed, owner, position, batch, rec, stopping, handled, group, faults>>

\* As a mutant: the offset before the record is committed, not the one after it.
Commit_OffByOne(w) ==
  /\ loop[w] = "commit" /\ owner[rec[w][1]] = w
  /\ committed' = [committed EXCEPT ![rec[w][1]] = rec[w][2] - 1]
  /\ loop' = [loop EXCEPT ![w] = "next"]
  /\ UNCHANGED <<logEnd, owner, position, batch, rec, stopping, handled, group, faults>>

\* commit({tp: offset + 1}); it raises when w is not the owner any more.
Commit(w) ==
  LET p == rec[w][1] IN
  /\ loop[w] = "commit"
  /\ IF owner[p] = w
       THEN /\ committed' = [committed EXCEPT ![p] = rec[w][2] + 1]
            /\ loop' = [loop EXCEPT ![w] = "next"]
            /\ UNCHANGED <<position, batch, rec>>
       ELSE Ended(w) /\ UNCHANGED committed
  /\ UNCHANGED <<logEnd, owner, stopping, handled, group, faults>>

OthersOf(w) == {r \in batch[w] : r[1] # rec[w][1]}

\* As a mutant: the rest of the partition's batch is not abandoned.
Seek_NoBreak(w) ==
  /\ loop[w] = "seek"
  /\ position' = [position EXCEPT ![w][rec[w][1]] = rec[w][2]]
  /\ loop' = [loop EXCEPT ![w] = "next"]
  /\ UNCHANGED <<logEnd, committed, owner, batch, rec, stopping, handled, group, faults>>

\* As a mutant: the batch is abandoned without rewinding to the record.
Seek_NoSeek(w) ==
  /\ loop[w] = "seek"
  /\ batch' = [batch EXCEPT ![w] = OthersOf(w)]
  /\ loop' = [loop EXCEPT ![w] = "next"]
  /\ UNCHANGED <<logEnd, committed, owner, position, rec, stopping, handled, group, faults>>

\* seek(tp, offset) and break; it raises when the partition was taken away.
Seek(w) ==
  LET p == rec[w][1] IN
  /\ loop[w] = "seek"
  /\ IF position[w][p] # NoPosition
       THEN /\ position' = [position EXCEPT ![w][p] = rec[w][2]]
            /\ batch' = [batch EXCEPT ![w] = OthersOf(w)]
            /\ loop' = [loop EXCEPT ![w] = "next"]
            /\ UNCHANGED rec
       ELSE Ended(w)
  /\ UNCHANGED <<logEnd, committed, owner, stopping, handled, group, faults>>

\* stop(): the drain on SIGTERM, or because another consumer's run() ended.
Stop(w) ==
  /\ faults < MaxFaults
  /\ loop[w] # "down" /\ ~stopping[w]
  /\ stopping' = [stopping EXCEPT ![w] = TRUE]
  /\ faults' = faults + 1
  /\ UNCHANGED <<logEnd, committed, owner, position, loop, batch, rec, handled, group>>

\* The two places where run() looks at the flag.
Stopped(w) ==
  /\ stopping[w]
  /\ loop[w] = "poll" \/ (loop[w] = "next" /\ batch[w] # {})
  /\ Ended(w)
  /\ UNCHANGED <<logEnd, committed, owner, stopping, handled, group, faults>>

Crash(w) ==
  /\ faults < MaxFaults
  /\ loop[w] # "down"
  /\ Ended(w)
  /\ faults' = faults + 1
  /\ UNCHANGED <<logEnd, committed, owner, stopping, handled, group>>

\* The container starts again; start() joins the group and waits for partitions.
Restart(w) ==
  /\ loop[w] = "down"
  /\ loop' = [loop EXCEPT ![w] = "join"]
  /\ stopping' = [stopping EXCEPT ![w] = FALSE]
  /\ UNCHANGED <<logEnd, committed, owner, position, batch, rec, handled, group, faults>>

LoopStep(w) ==
  \/ GetMany(w) \/ GetManyRaises(w)
  \/ TakeRecord(w) \/ BatchDone(w)
  \/ HandleCommit(w) \/ HandleRedeliver(w)
  \/ Commit(w) \/ Seek(w)
  \/ Stopped(w)

Next ==
  \/ \E p \in Partitions : Append(p)
  \/ \E members \in SUBSET Workers : Assign(members) \/ Reassign(members)
  \/ \E w \in Workers : LoopStep(w) \/ Stop(w) \/ Crash(w) \/ Restart(w)

Spec == Init /\ [][Next]_vars

\* The loop runs on, the container restarts, the coordinator reassigns, and a
\* handler that is asked again and again does in the end answer COMMIT.
Fairness ==
  /\ \A w \in Workers :
       WF_vars(LoopStep(w)) /\ SF_vars(HandleCommit(w)) /\ WF_vars(Restart(w))
  /\ WF_vars(\E members \in SUBSET Workers : Assign(members))

FairSpec == Spec /\ Fairness

-----------------------------------------------------------------------------
\* At-least-once: an offset is committed only when every record below it was
\* handled.  Rebalances, stale batches, rewinds, shutdowns and crashes at any
\* point of the loop do not make the group skip a record.
CommittedIsHandled ==
  \A p \in Partitions : \A o \in 0..(committed[p] - 1) : <<p, o>> \in handled

\* No record "jumps the queue": a record is handled for the first time only
\* after all earlier records of its partition, whichever workers they went to.
HandledInOrder ==
  \A r \in handled : \A o \in 0..(r[2] - 1) : <<r[1], o>> \in handled

\* Until the group is rebalanced, no record is handled twice: redelivery rewinds
\* no further than the record that was not handled, no batch overlaps another,
\* and the partitions of a worker that stops or dies are left alone.
HandledOnce ==
  group # "rebalanced" =>
    \A w \in Workers : loop[w] = "handle" => rec[w] \notin handled

\* Every record of the topic is handled eventually: no record blocks those
\* behind it for good.
PartitionNeverBlocks ==
  \A p \in Partitions : \A o \in 0..(MaxLen - 1) : logEnd[p] > o ~> <<p, o>> \in handled

Settled == \A w \in Workers : loop[w] \notin {"down", "join"}

\* Once no worker leaves or joins any more, every record is handled eventually,
\* the ones that are redelivered again and again and those behind them included.
\* Whether the workers do stop joining is another matter: a join moves partitions,
\* a commit on a partition that has moved ends run(), and the restart joins again.
SettledGroupDelivers == <>[]Settled => PartitionNeverBlocks

Promise == INSTANCE TopicDelivery

\* The loop with its workers, batches, rebalances, shutdowns and crashes does to
\* the topic only what TopicDelivery allows: nothing but records that exist is
\* handled or committed, each after all records before it.
ImplementsTopicDelivery == Promise!Spec

=============================================================================
