# OrderFlow: a TLA+ verification of the order pipeline

This directory holds TLA+ models of OrderFlow (FastAPI, Kafka, Redis, Postgres),
TLC configurations that check them on small instances, and TLAPS proofs of the
properties that matter most for every size of the system. Paths such as
`consumers.py` are relative to `app/` and `app/kafka/`.

## 1. The system

| Part | State it keeps | Operations | Talks to |
| --- | --- | --- | --- |
| Order submission (`service.py`, `api/routes.py`, `db.py`) | row in `orders`, Redis key `idem:api:{key}` | `POST /orders`: look the key up, insert and commit, store the key, publish, cache | Postgres, Redis, `orders.created` |
| Consume loop (`consumers.py`, `BaseConsumer`) | position, polled batch, committed offset, stop flag | `getmany`, handle, `commit` or `seek`, `stop` | Kafka group coordinator |
| Order consumer (`OrderConsumer`) | claim, session with a loaded `Order` | validate, claim, load, transition, `fulfil`, retry or dead-letter, complete or release | guard, Postgres, `orders.retry`, `orders.dlq` |
| Retry scheduler (`RetryScheduler`) | none | wait until `x-not-before`, republish | `orders.retry` to `orders.created` |
| Dead letter archiver (`DlqArchiver`) | rows in `dead_letters` | insert | `orders.dlq`, Postgres |
| Idempotency guard (`idempotency.py`) | Redis key `idem:event:{event_id}`: absent, a token, `done` | `claim`, `complete`, `release`, `forget` | Redis |
| Order cache and read path (`cache.py`, `service.read_order`) | Redis key `order:{id}` | get, put, invalidate | Redis, Postgres |
| Worker and API processes (`worker.py`, `main.py`) | three consumer tasks or one server, the shared clients | create tables and topics, start, drain on a signal or when a task ends, close | all of the above |
| Topic bootstrap (`admin.py`) | the topics | list, create what is missing, try again | Kafka |
| Producer, headers, retry policy (`producer.py`, `headers.py`, `processing.py`) | header values | publish; encode and decode; back off | Kafka |
| Counters, health, statistics and list endpoints | Redis counters | increment; read | Redis, Postgres |

The interactions that are hard, and that the test suite (unit tests on single
calls) hardly reaches:

* several worker processes, each with three consumers in one event loop, and
  API processes whose requests interleave at every `await`;
* at-least-once delivery: crashes and rebalances between any two steps of the
  consume loop, stale batches, offsets that go back;
* effects in four systems (Kafka, Postgres, Redis guard, Redis cache) without a
  common transaction, and calls that raise after they had their effect;
* locks that expire while their owner is at work, or that outlive a dead owner;
* the same order on two topics, with the attempt number in a header;
* a cache that the API, the workers and every read write, each with the copy it
  happens to hold, at a time of its own;
* delays stamped by one clock and slept by another, one record at a time;
* replicas that boot together against an empty database and a broker that is not
  up yet, and shut down while handlers are at work.

What makes each part correct:

* guard: one holder per event; nobody touches somebody else's key; `ALREADY_DONE`
  only for finished work; a dead holder's key goes away in the end;
* consume loop: no offset is committed past an unfinished record; records of a
  partition are handled in order; no record blocks the partition;
* pipeline: no accepted order is lost; verdicts are final; an order is failed only
  when its attempts are used up; every failed or unreadable record reaches the
  dead letters and the archive;
* submission: an accepted order is published; a repeated request creates nothing,
  and is answered with the order of its key;
* cache: a read shows committed states only; an outage of Redis makes it slow, not
  wrong; what is stale ages out;
* retry delay: not before the backoff, and no longer between two polls than one delay;
* processes: nothing serves before tables and topics exist; clients outlive the
  handlers that use them; no process limps, none refuses to stop.

`PROJECT.json` lists the places in the code where each of these can go wrong
(`hazards`) and the properties that watch them.

## 2. The modules

| Module | Models | State and actions |
| --- | --- | --- |
| `GuardOps` | the values of a guard key and the four operations on it | `SetNx`, `CasComplete`, `CasRelease`, `Abandon` |
| `EventGuard` | what the guard promises: claim is one atomic step | abstract specification |
| `IdempotencyGuard` | `idempotency.py`, one Redis command per step | `key` (Redis), `pc`, `ev`, `tok` (the `Claim` of each caller), `lapsed` (history: whose key vanished under it); `Call`, `FirstSet`, `FirstGet`, `SecondSet`, `SecondGet`, `Complete`, `Release`, `Forget`, `Expire`, `Drop` (crash, or return without release) |
| `TopicDelivery` | what the consume loop promises: at-least-once, in partition order | abstract specification: `Append`, `Handle`, `CommitOffset` |
| `ConsumerGroup` | `BaseConsumer.run`, `stop`, `_safe_handle` | `position`, `batch`, `rec`, `loop`, `stopping` per worker; `committed`, `owner`, `logEnd` at the broker; `handled`, `group` (history: was the group rebalanced after its first assignment); `GetMany`, `GetManyRaises`, `TakeRecord`, `HandleCommit`, `HandleRedeliver`, `Commit`, `Seek`, `Stop`, `Crash`, `Restart`, rebalances |
| `OrderPipeline` | the handlers of the three consumers over the three topics | `log`, `acked` (Kafka), `orders`, `archive` (Postgres), `guard` (Redis), `pc`, `hand`, `loaded`, `goal` (each consumer); one action per awaited call of `handle`, `_process`, `_fail`, `_to_dlq`, and `Raise`, `Recover`, `RaiseUnguarded`, `RaiseRelay`, `Crash` for what goes wrong |
| `OrderLife` | what the pipeline promises of each order: the state machine of `docs/ARCHITECTURE.md`, section 5, with attempts and dead letters | abstract specification: `Announce`, `TakeUp`, `Complete`, `Postpone`, `Fail`, `DeadLetter` |
| `SubmitOrder` | `POST /orders` | `pc`, `answer`, `original` per request; `rows`, `keyed`, `published`; `expired`, `earlier` (history); `Begin`, `Resolve`, `Create`, `SetKey`, `Publish`, `Respond`, `Fail`, `Expire` |
| `OrderCache` | the key `order:{id}` with all its writers and readers (`cache.py`, `read_order`, `submit_order`, the consumer's transitions) | `row`, `entry`; `api`, `worker`, `draft`, `published`; `reader`, `seen`, `reply` per call; `Insert`, `Publish`, `Warm`, `Flush`, `Commit`, `Refresh`, `Begin`, `Get`, `Drop`, `Load`, `Fill`, `InvalidateOrder`, `Expire`, and the faults `ApiDies`, `WorkerDies`, `GetFails`, `DropFails`, `Reshape` |
| `RetryTimer` | the delay topic with a clock: `_fail`, `backoff_delay`, the headers, and the one loop in which `RetryScheduler.handle` is called for the records of all partitions | `now`; `flight` (what each order consumer is publishing); `log`, `committed` per partition; `sched`, `batch`, `hand`, `wake` (the scheduler); `polled`, `lost` (history: when it polled, and what its calls have cost since); `Fail`, `Publish`, `PublishFails`, `GetMany`, `TakeRecord`, `WakeUp`, `Replay`, `Commit`, `BatchDone`, `Tick`, `Stall`, `Redeliver`, `Crash` |
| `WorkerLife` | `main()` of the worker, the lifespan of the API, `create_schema`, `ensure_topics`, the process-wide clients | `broker`, `tables`, `topics` (shared); `phase`, `missing`, `tries`, `tasks`, `stop`, `open`, `exit` per process; `stopped` (what the operator asked); one action per awaited call from `CheckTables` to `Close`, and `Signal`, `Die`, `Restart`, `BrokerDown`, `BrokerUp` |
| `*_proofs` | theorems and their proofs; `OrderFate_proofs` continues `OrderPipeline_proofs` | |
| `MC*` | constants of the TLC instances | |

How they compose. `OrderPipeline` uses the guard through the operators of
`GuardOps`, the atomic view that `EventGuard` states; `IdempotencyGuard` is shown
to implement that view (checked and proved), with a refinement mapping that turns
a token into the client that remembers it, or into `orphan` when nobody does.
`OrderPipeline` uses a topic as `TopicDelivery` promises it: an uncommitted record
is delivered, the records of one order in order, and records may be delivered
again; `ConsumerGroup` is shown to implement `TopicDelivery` (checked and proved),
forgetting its workers. `OrderPipeline` in turn is shown to implement `OrderLife`
(checked and proved), forgetting everything but the log and the table: the orders on
`orders.created`, the rows, and the orders on `orders.dlq`. `SubmitOrder` ends where `OrderPipeline!PublishEvent`
begins. `OrderCache` takes from `OrderPipeline` that transitions of an order come
one after the other (`NoStaleFlush`). `RetryTimer` refines the relay step of
`OrderPipeline` by a clock, and `WorkerLife` the crash and restart of
`ConsumerGroup` by what happens between them.

Points of correspondence worth knowing:

* An `await` that touches Redis, Postgres or Kafka is a step of its own. A session
  is two steps: `Load` (`repo.get_order`) and `Flush` (the `UPDATE` and commit of
  `session_scope`). `Update` writes only the columns that differ from what was
  loaded, which is what SQLAlchemy's flush does.
* A call that raises may have had its effect: `Raise` offers both. A call inside
  `_process` leads to the `except` clause of `handle` (`Recover`, which releases);
  calls outside that `try` (`claim`, the dead letter of a record that does not
  parse, the release of the `except` clause itself) go straight to `_safe_handle`.
* `fulfil` is its outcome, which depends on the payload only (`Kind`).
* The lock of an event in `Slow` may lapse while its worker is at work; the other
  orders are the `Timely` ones. The properties about one order speak of timely
  orders, in a system where slow ones are processed beside them.
* `OrderLife!TakeUp` sets any attempt: a record of an earlier attempt that a rebalance
  delivers again takes the order up with its own, lower, number. That is what the code
  does; `attempts` in the row is the attempt of the last record, not a maximum.
* A random token is a value nobody else remembers and no key holds.
* `MaxEvents` bounds the events that one run of `OrderPipeline` publishes. Events of
  different orders share neither a key nor a row, so the runs put one event on the
  topic and let TLC choose its kind; the theorems have no such bound.
* The counters are written by the handlers and read by none; their calls swallow
  every error. They change none of the modelled state.
* A worker of `ConsumerGroup` that starts is `join`ing until the coordinator assigns
  partitions, which it does at every join: `Assign` may take partitions from workers in
  mid-record, as often as somebody joins. `Reassign` is a rebalance at any other time
  (a missed heartbeat, say) and counts as a fault. A worker that is not among the
  `members` has lost its partitions and does not know it yet.
* `ConsumerGroup!GetManyRaises`: `json.loads` is the `value_deserializer`, so it
  runs inside `getmany`. How far a batch gets before the exception is left open.
* `OrderCache`: an order is its version, the length of its audit trail; every
  transition adds one row to it and `put_order` caches the whole of it. Between the
  flush and the commit the handler holds a version the table does not have yet.
  `InvalidateOrder` is an entry point of the module that no other code calls.
* `RetryTimer`: `Delays` is the set `random.uniform` draws from, in whole units;
  `GetAttempt` reads a header that any producer may have written. The scheduler's
  clock is the time; the clock that stamps a record is off by up to `Skew`. A record is
  stamped when `_fail` builds its headers (`Fail`) and is on the topic when the
  publish is done (`Publish`), any time later and in any order. One scheduler goes
  through its batch partition by partition, and while it sleeps with one record in
  hand all others wait. Time passes while it sleeps or polls; any other time its
  calls take is `lost`.
* `OrderPipeline!InProgress`: `claim` may answer IN_PROGRESS also for a key that has
  vanished after its second `SET`; only `done` excludes the answer.
* `WorkerLife`: `create_all` is a look and a `CREATE`, with room for another replica
  in between. `create_topics` creates topic by topic, and a topic that exists is
  an error of that topic only. A signal kills a worker whose handlers are not
  installed; uvicorn keeps it until the application has started, and then leaves without
  the second half of the lifespan (`StartProducer`).

## 3. What TLC checks

| Run | Instance | Shows |
| --- | --- | --- |
| `guard` | 3 clients, 1 event, 4 tokens | types; `OneHolder`; `HolderKeepsKey`; `NoClobber`; `ImplementsEventGuard` |
| `pipeline_faults` | 2 workers, an event of any of the 5 kinds or a slow one, 2 attempts, 2 faults (807,000 states) | types; `AttemptsBounded`; `NoOrphan`; `DoneMeansSettled`; `DeadLetterIsJustified`; `NoStaleFlush`; `PoisonReachesDlq`; `TerminalIsFinal`; `ImplementsOrderLife` |
| `pipeline_live` | 2 workers, a transiently failing order or a record that does not parse, 2 faults, fair (122,000) | `EveryOrderSettles`, `EveryDeadLetterArchived` |
| `group_delivery` | 2 workers, 2 partitions, 2 records in all (of which one position is not JSON), 1 fault and any number of joins, fair (174,000) | types; `CommittedIsHandled`; `HandledInOrder`; `HandledOnce`; `ImplementsTopicDelivery`; `SettledGroupDelivers` |
| `submit` | 3 requests with one key, 1 without, 2 failing calls (116,000) | types; `RepeatCreatesNothing`; `AcceptedIsPublished`; `DuplicateIsOriginal` |
| `cache` | 2 readers, 3 versions, 2 faults, fair (31,000) | types; `ReadsAreCommitted`; `CacheConverges` |
| `worker` | 1 worker and 1 API process, 2 topics, 2 attempts, 3 faults, fair (97,000) | types; `ServesOnlyWhenReady`; `ClientsOutliveHandlers`; `FullStrength`; `StopsWhenAsked` |
| `retry` | 2 order consumers, 2 partitions, base delay 2, maximal delay 3, 3 attempts, skew 1, 2 records, 5 units of time of which 1 may be lost between two polls (3.1 million, up to symmetry) | types; `NotTooEarly`; `NoPileUp` |
| `pipeline_lost_dead_letter` | a permanently failing order or an event without an order, 1 fault | violated: `FailedIsDeadLettered` |
| `group_garbage` | first record is not JSON, fair | violated: `PartitionNeverBlocks` |
| `cache_outage` | 1 reader, 2 versions, an entry of another shape and one failing call | violated: `OutageDegrades` |
| `submit_double_tap` | 2 requests with one key, no fault | violated: `OneOrderPerKey` |

Why the bounds are enough. Every race in this code is between two parties (two
workers, two requests, a reader and a writer) and at most one more that moves a
key: three clients for the guard, where the second `SET` must lose to a third party;
two workers elsewhere, since a third behaves like one of the two after a crash.
`MaxFaults` bounds crashes, rebalances, outages and failing calls together; two of
them allow a failed call and a crash during its recovery, or a redelivery while the
former owner is still at work and one of its calls failing. Two attempts
are the shortest ladder with a retry and an exhaustion. Three versions let a cache
entry be two behind; two topics let a request be cut between them; in `retry` the
delays of the second attempt reach the cut at the maximal delay, a record can wait
behind another of its own or of another partition, and the time is enough for two
delays slept one after the other to show. In `group_delivery` two records are a batch
that is cut in two, or two partitions in one batch; `MaxRecords` bounds them together. The theorems of section 5 remove all of these bounds for every
safety property. The runs that may end (all work done, or no fault left) say
`CHECK_DEADLOCK FALSE`; the guard and the cache run for ever and are checked for
deadlock.

Fairness. Faults, requests, records and signals are never fair.

* `OrderPipeline!FairSpec`: every consumer task goes on (asyncio runs a ready task,
  and every handler ends or raises), and Redis expires keys; workers that died are
  restarted by the container, so they too deliver again. `Claim` is strongly fair: a
  claim that is tried again and again while the key comes free again and again wins
  at some time; each single answer IN_PROGRESS for a key that has just vanished is a
  race of two commands, not a rule.
* `ConsumerGroup!FairSpec`: the loops go on, the container restarts
  (`docker-compose.yml`), the coordinator assigns partitions when somebody joins or a
  partition is not served, and a handler that is asked for ever answers COMMIT at some time (strong fairness:
  REDELIVER is the answer while a dependency is down or a peer holds the lock).
* `OrderCache!FairSpec`: a call that has begun goes on, and Redis expires keys
  (`put_order` always sets a TTL; the mutant without one breaks `CacheConverges`).
* `WorkerLife!FairSpec`: a process runs on, a handler ends, Docker restarts what has
  exited (`restart: unless-stopped`), and the broker comes back.

## 4. Where the code and its documentation part

Four runs show a sentence of the documentation violated by what the code does.

* **`FailedIsDeadLettered`.** `FAILED` is committed before the dead letter is
  published. A crash in between makes the redelivery see a terminal order and skip.
  The same happens to an event without an order, whose tombstone is set first.
* **`PartitionNeverBlocks` with undecodable bytes.** They raise inside `getmany`, where
  `_safe_handle` cannot catch them: the worker restarts at the same offset for ever.
* **`OneOrderPerKey`.** The key is read before the insert and written after it with a
  plain `SET`; the documented `SET NX` reservation is not there.
* **`OutageDegrades`.** `cache.py:49` drops an unreadable entry in the `except` clause
  itself, with nothing around the call: when this `DEL` fails the read fails.
  `README.md:167` says that every Redis call on this path is wrapped. It is the only
  such call: the `GET`, the `SET` and the counters catch what Redis raises.

The models show more that no run of its own records:

* *A lock that lapses while its owner works.* For an order in `Slow`, `TerminalIsFinal`,
  `NoStaleFlush` and, with fairness, `EveryOrderSettles` are false (state them with
  `Known` in place of `Timely` and TLC finds the counterexamples). The terminal-status check is made once, at
  the start of `_process`; the transactions after `fulfil` do not look again. A worker
  that passed the check before its lock lapsed moves an order that another worker has
  decided meanwhile, also back to `pending`. `docs/ARCHITECTURE.md:483` says the check
  covers this case, and `:239` calls it a second, independent defence. What is proved
  is that the damage stays with the slow order: every other order keeps all of its
  properties, and even a slow one never has a record with an attempt above
  `MaxAttempts`, nor a dead letter before its last attempt.
* *Late cache writes.* The API caches the pending order after it has published, and a
  read caches the copy it loaded, while a worker commits and caches the next status
  in between: the older copy stays until the next transition or the TTL.
  `README.md:165` says that a status change is visible immediately;
  `CacheConverges` is what holds.
* *A duplicate of an order that was never published.* The key is stored before the
  event is published. When the publish fails the request is answered with an error,
  and its retry with 200 and an order that stays `pending`. `service.py:53-57` and
  `ARCHITECTURE.md:479` name the gap between the commit and the publish;
  `routes.py:54-55` is where the retry hides it. `DuplicateIsOriginal` holds, and
  `AcceptedIsPublished` speaks of 202 only.
* *The same attempt twice.* A crash after the retry was published and before the
  offset is committed delivers the event again and schedules the same attempt a second
  time. `NoOrphan`, `NoStaleFlush` and `TerminalIsFinal` hold across it.
* *Rebalances without end.* `PartitionNeverBlocks` fails also without undecodable
  bytes and without any fault. A commit on a lost partition ends `run()`; the worker is
  restarted and joins; the join rebalances the group and takes a partition from the
  peer in mid-record, whose commit then raises in turn; and nothing in the code keeps
  this from repeating. Each member is taken to get some assignment, as Kafka allows,
  not the one that moves the fewest partitions. `SettledGroupDelivers` is what holds:
  once nobody dies or joins any more, every record is handled.
* *Replicas that create the tables together.* One of them may find its tables
  created by another and exits with an error; the restart heals it (`FullStrength`).

## 5. What is proved

For every number of workers, clients, partitions, requests, readers, events, attempts
and faults, every safety property of the passing runs:

| Module | Theorem | States |
| --- | --- | --- |
| `IdempotencyGuard_proofs` | `TypeCorrect`, `HoldersKeepTheirKeys`, `MutualExclusion`, `NeverClobbers` | `TypeOK`, `HolderKeepsKey`, `OneHolder`, `NoClobber` |
| | `GuardImplementsAtomicGuard` | `ImplementsEventGuard` |
| `ConsumerGroup_proofs` | `TypeCorrect`, `AtLeastOnce`, `InOrder` | `TypeOK`, `CommittedIsHandled`, `HandledInOrder` |
| | `OnceWhileQuiet` | `HandledOnce` |
| | `LoopImplementsDelivery` | `ImplementsTopicDelivery` |
| `OrderPipeline_proofs` | `TypeCorrect` | `TypeOK` |
| | `FlushIsFresh`, `TombstoneIsHonest`, `VerdictsAreFinal` | `NoStaleFlush`, `DoneMeansSettled`, `TerminalIsFinal` |
| `OrderFate_proofs` | `PoisonIsDeadLettered`, `NoAttemptTooMany` | `PoisonReachesDlq`, `AttemptsBounded` |
| | `NoOrderIsLost`, `DeadLettersAreJustified` | `NoOrphan`, `DeadLetterIsJustified` |
| | `PipelineImplementsOrderLife` | `ImplementsOrderLife` |
| `SubmitOrder_proofs` | `TypeCorrect`, `AcceptedOrdersArePublished`, `RepeatsCreateNothing`, `DuplicatesAreOriginals` | `TypeOK`, `AcceptedIsPublished`, `RepeatCreatesNothing`, `DuplicateIsOriginal` |
| `OrderCache_proofs` | `TypeCorrect`, `OnlyCommittedReads` | `TypeOK`, `ReadsAreCommitted` |
| `WorkerLife_proofs` | `TypeCorrect`, `ServedOnlyWhenReady`, `HandlersAreOutlived` | `TypeOK`, `ServesOnlyWhenReady`, `ClientsOutliveHandlers` |
| `RetryTimer_proofs` | `TypeCorrect`, `NeverTooEarly`, `DelaysDoNotPileUp` | `TypeOK`, `NotTooEarly`, `NoPileUp` |

The assumptions are the `ASSUME`s of the modules (types of the constants, that the
names of clients and tokens differ from `"absent"`, `"done"` and the like, and that
half the base delay is within the maximal delay). No theorem assumes that locks do not
lapse. `docs/ARCHITECTURE.md:291` asks that the lock TTL exceed the processing time of
a message; `Slow` is any set of events for which it does not, and the properties of an
order are proved for each order outside it. Section 4 says what happens to the others.

The arguments.

* *Guard.* No two clients remember one token (`TokenInv`), and a key holds a client's
  token only between its claim and its complete or release (`KeyInv`). So the
  compare-and-set scripts can only hit their own key, and a claim wins only an
  absent one. Neither property alone is inductive: a late `complete` is harmless
  only because its token is nobody else's. For the refinement, each command maps to
  an atomic answer or to a stutter; dropping a claim maps its key to `orphan`.
* *Consume loop.* `WorkerInv`: a worker has a record in hand only when all earlier
  records of its partition were handled, and what it fetched past is handled or still
  in its batch or hand. So the commit of a record, even from a batch that a rebalance
  made stale, leaves only handled records below the offset (`GroupInv`), and a first
  handling comes after all earlier ones (`OrderInv`). `LoopInv` is `WorkerInv` of all.
  For the refinement, `BoundInv` adds that nobody is past the end of the log; then a
  handler's COMMIT maps to `Handle`, the loop's commit to `CommitOffset`, and every
  other step of the group to a stutter.
* *Handled once.* Until the group is rebalanced after its first assignment, each partition is fetched by its owner only
  (`Shared`; before the first assignment nobody has fetched anything, `Fresh`), and what
  a worker has in its batch or hand was not handled and lies below its position, as
  does everything that was handled (`Holds`). `seek` rewinds to the unhandled record in
  hand and drops what was fetched behind it; since records are handled in order
  (`OrderInv`), nothing at or above the new position was handled. A poll therefore
  fetches unhandled records only.
* *Verdicts.* A worker between claim and complete owns the key of its event
  (`HoldsLock`), unless the event is slow (`Exclusive`); so two such workers are on
  different orders, and each finds the row as it loaded it. With this, a worker about to
  write has an undecided order, a worker about to complete has a decided one, and the
  tombstone is set only there. A step of one worker (`StepOf`) leaves the others' keys
  and rows alone; a step of the other consumers or of the broker (`Elsewhere`) leaves
  all of them alone. The argument is about one order at a time, which is why a slow
  order, for which it fails, does not spoil it for the rest.
* *No order is lost.* That some record of an undecided order waits is not inductive:
  a commit takes one away. Records are ranked, twice the attempt and one more on
  `orders.created`; what follows a record always has a higher rank. `FateInv`: a
  consumer about to commit has seen to it that the order is decided or a record of a
  higher rank waits. So committing the record at hand leaves one waiting, however
  often, and by whom, older records are delivered again.
* *State machine.* Which move of `OrderLife` a flush is depends on the row it finds.
  `StageInv`: between the start of an attempt and its outcome (`Underway`) the row of a
  timely order is `processing` with the attempt of the record at hand. Then each flush
  and each send, also of a call that raises after its effect, maps to one move of its
  order (`LifeOfFlush`, `LifeOfSend`), and every other step to a stutter; the writes of
  a slow order change nothing that `OrderLife` sees.
* *Attempts.* A retry is published one attempt higher, and only by a worker that pursues
  another attempt (`Purpose`), which `_fail` decides on the attempt of the record at
  hand and below `max_attempts`; so this needs no lock.
* *Dead letters.* A worker pursues the outcome its record and its attempt dictate, and
  publishes to `orders.dlq` only when the row has failed for good (`Purpose`); a
  decided row never changes again. An unparseable record goes from hand to
  `orders.dlq` to commit and takes no other way (`PoisonInHand`).
* *Submission.* What a call has done follows from where it is (`CallInv`), a key names
  an order that was committed with it (`KeyInv`), and a call that came past `SetKey`
  leaves its key set until it expires (`LiveInv`); so a repeat of an answered call is
  never past the lookup (`RepeatInv`).
* *Cache.* Neither the entry nor a reader is ahead of the row (`CopyInv`), because the
  handler caches after its commit (`WorkerInv`) and the API publishes after its insert
  (`ApiInv`).
* *Processes.* What exists follows from the phase of any process (`BootInv`): in the
  middle of its request the topics it does not miss exist. Tasks run in two phases
  only, and each phase of the shutdown tells what is still open (`ClientInv`).
* *Retry delay.* Each `x-not-before` is its delay after its stamp, up to the skew, on
  the topic and on the way there (`LogInv`), and everything in a batch was stamped
  before the poll (`BatchInv`). A sleep therefore ends neither before the delay has
  passed nor later than the longest delay after the poll (`SleepInv`): however many
  records the scheduler sleeps for, of whichever partitions, all their sleeps end by
  the same bound, and only what the calls themselves cost is added (`NoPileUp`). That
  an older record of another partition waits behind a newer one is possible; the bound
  on it is the one on the whole batch.

Only model-checked: liveness (fairness is out of the prover's reach), that is
`EveryOrderSettles`, `EveryDeadLetterArchived`, `SettledGroupDelivers`,
`CacheConverges`, `FullStrength` and `StopsWhenAsked`; and the violated properties,
which are false.

## 6. Plan

Done: the guard, the pipeline, the consume loop and submission with their abstract
specifications; the cache, the delay topic and the life cycle of the processes; a
theorem for every safety property that a passing run checks, and for each of the three
refinements.

Left, in order of importance:

1. Several orders at once in `OrderPipeline` runs, to check liveness across orders
   that share a partition (the theorems already cover safety, and that a slow order
   harms no other).
2. The release of an archived dead letter back into the pipeline, should the code
   ever get one; today `dead_letters` is only written and listed.

## 7. What is not modelled

Counters, health, statistics and listing endpoints: they read, or increment numbers
that no handler reads. The rows of the audit trail: their number is the version of
`OrderCache`, their contents are what the transitions write. Sizes of payloads and
columns (a dead letter that the insert rejects for its size would be redelivered for
ever), texts of headers other than the attempt and the time, logging and
configuration. Connection pools and their limits, which are SQLAlchemy's and
redis-py's. Time outside `RetryTimer` (a delay may end, a key expire, at any moment).
Kafka, Redis and Postgres are modelled from how this code uses them: Kafka keeps and
delivers records in partition order and does not lose committed offsets, Redis
executes commands and scripts atomically and keeps the guard keys (append-only
persistence is on), Postgres commits atomically.

## 8. Running

    tlc -config Guard.cfg MCIdempotencyGuard
    tlc -config PipelineFaults.cfg MCOrderPipeline
    tlapm OrderPipeline_proofs.tla

Each run takes about two minutes at most; each proof module less than one.
