----------------------------- MODULE RetryTimer -----------------------------
(***************************************************************************)
(* The delay topic in time: the order consumers give a retry record an     *)
(* x-not-before header (_fail in app/kafka/consumers.py, backoff_delay in  *)
(* app/processing.py, app/kafka/headers.py), and the one retry scheduler   *)
(* of a worker goes through the records of all its partitions, sleeps      *)
(* with each in hand until it is due, and replays it.  OrderPipeline has   *)
(* the same steps without the clock.                                       *)
(*                                                                         *)
(* Time passes in whole units.  The scheduler's clock is the time itself;  *)
(* the clock of the worker that stamped a record is off by up to Skew.     *)
(***************************************************************************)
EXTENDS Integers, Sequences, FiniteSets

CONSTANTS Consumers,     \* the order consumers that publish retries
          Partitions,    \* the partitions of orders.retry the scheduler owns
          Base,          \* retry_base_delay_seconds
          MaxDelay,      \* retry_max_delay_seconds
          MaxAttempts,   \* max_attempts
          Skew,          \* how far the clocks of two workers are apart
          MaxRecords,    \* bound on the retry records, published or on their way
          MaxTime,       \* bound on the time
          MaxLost        \* bound on the time lost in slow calls between two polls

ASSUME TimerAssumption ==
  /\ Base \in Nat \ {0} /\ MaxDelay \in Nat /\ Base \div 2 <= MaxDelay
  /\ MaxAttempts \in Nat /\ Skew \in Nat
  /\ MaxRecords \in Nat /\ MaxTime \in Nat /\ MaxLost \in Nat

VARIABLES
  now,       \* the time
  flight,    \* flight[c]: the record c is publishing, as <<record>>, or <<>>
  log,       \* log[p]: the records of partition p
  committed, \* committed[p]: how many of them the scheduler has committed
  sched,     \* where the scheduler's run() is
  batch,     \* what it was given by its last poll and has not begun
  hand,      \* the record of the batch in hand, <<>> before the first one
  wake,      \* when its sleep ends
  polled,    \* when its last poll returned
  lost       \* the time its calls have cost since

vars == <<now, flight, log, committed, sched, batch, hand, wake, polled, lost>>

\* sent and delay are history: when the record was stamped, with which delay.
Retry == [attempt : 2..MaxAttempts, notBefore : Int, sent : Nat, delay : 0..MaxDelay]

\* A record of the topic, as <<partition, offset>>; offsets start at 1.
Places == Partitions \X (Nat \ {0})
Topic == {r \in Partitions \X (1..MaxRecords) : r[2] <= Len(log[r[1]])}

InHand == {"sleep", "publish", "commit"}

TypeOK ==
  /\ now \in Nat
  /\ flight \in [Consumers -> Seq(Retry)]
  /\ log \in [Partitions -> Seq(Retry)]
  /\ committed \in [Partitions -> Nat]
  /\ sched \in {"poll", "next"} \cup InHand
  /\ batch \subseteq Places
  /\ hand \in Places \cup {<<>>}
  /\ sched \in InHand => hand \in Places
  /\ wake \in Nat /\ polled \in Nat /\ lost \in Nat

Init ==
  /\ now = 0
  /\ flight = [c \in Consumers |-> <<>>]
  /\ log = [p \in Partitions |-> <<>>]
  /\ committed = [p \in Partitions |-> 0]
  /\ sched = "poll" /\ batch = {} /\ hand = <<>>
  /\ wake = 0 /\ polled = 0 /\ lost = 0

loopVars == <<committed, sched, batch, hand, wake, polled, lost>>

-----------------------------------------------------------------------------
(* headers.py and processing.py                                            *)

\* x-attempt as it arrives on orders.created, where anybody may have put it:
\* <<n>> when it reads as the number n, <<>> when there is none.
RawAttempts == {<<>>} \cup {<<n>> : n \in -1..(MaxAttempts + 1)}

\* As a mutant: int(raw) without max(1, .).
GetAttempt_Raw(raw) == IF raw = <<>> THEN 1 ELSE raw[1]

GetAttempt(raw) == IF raw = <<>> \/ raw[1] < 1 THEN 1 ELSE raw[1]

Least(a, b) == IF a <= b THEN a ELSE b

\* What random.uniform may pick in backoff_delay: from half the base delay to
\* the exponential ceiling, which is cut at the maximal delay.
Delays(attempt) ==
  {d \in (Base \div 2)..MaxDelay : d <= Base * 2^(IF attempt < 1 THEN 0 ELSE attempt - 1)}

-----------------------------------------------------------------------------
(* _fail, when the attempt can be retried.                                 *)

\* The record for the delay topic, with the next attempt and the time it is not
\* to be replayed before.
Stamp(attempt, delay, skew) ==
  [attempt |-> attempt + 1, notBefore |-> now + skew + delay, sent |-> now, delay |-> delay]

\* The arguments of publish_raw are built, and the call is made.
Fail(c, raw) ==
  LET attempt == GetAttempt(raw) IN
  /\ flight[c] = <<>>
  /\ Cardinality(Topic) + Cardinality({d \in Consumers : flight[d] # <<>>}) < MaxRecords
  /\ attempt < MaxAttempts
  /\ \E delay \in Delays(attempt), skew \in -Skew..Skew :
       flight' = [flight EXCEPT ![c] = <<Stamp(attempt, delay, skew)>>]
  /\ UNCHANGED <<now, log, loopVars>>

\* The record arrives: publishes of different consumers overtake each other.
Publish(c, p) ==
  /\ flight[c] # <<>>
  /\ log' = [log EXCEPT ![p] = Append(@, flight[c][1])]
  /\ flight' = [flight EXCEPT ![c] = <<>>]
  /\ UNCHANGED <<now, loopVars>>

\* The publish raises, or the worker dies: the order's own record is redelivered
\* and fails again.
PublishFails(c) ==
  /\ flight[c] # <<>>
  /\ flight' = [flight EXCEPT ![c] = <<>>]
  /\ UNCHANGED <<now, log, loopVars>>

-----------------------------------------------------------------------------
(* The scheduler: run() of BaseConsumer around RetryScheduler.handle.      *)

\* getmany() returns some of what is not committed, of one partition or several.
GetMany ==
  /\ sched = "poll"
  /\ \E upto \in [Partitions -> 0..MaxRecords] :
       batch' = {r \in Topic : committed[r[1]] < r[2] /\ r[2] <= upto[r[1]]}
  /\ batch' # {}
  /\ sched' = "next"
  /\ polled' = now /\ lost' = 0
  /\ UNCHANGED <<now, flight, log, committed, hand, wake>>

\* The first record left of a partition; a partition once begun is gone through.
IsNext(r) ==
  /\ r \in batch
  /\ \A s \in batch : s[1] = r[1] => r[2] <= s[2]
  /\ (hand # <<>> /\ \E s \in batch : s[1] = hand[1]) => r[1] = hand[1]

Rec(r) == log[r[1]][r[2]]
Wait(r) == Rec(r).notBefore - now

SleepFor(time) == sched' = "sleep" /\ wake' = now + time

\* As a mutant: the sleep is cut at the shortest delay instead of the longest.
Hold_CutShort(r) ==
  IF Wait(r) > 0 THEN SleepFor(Least(Wait(r), Base \div 2)) ELSE sched' = "publish" /\ UNCHANGED wake

\* As a mutant: the record's delay is slept from when the scheduler gets to it.
Hold_Relative(r) ==
  IF Rec(r).delay > 0 THEN SleepFor(Rec(r).delay) ELSE sched' = "publish" /\ UNCHANGED wake

\* handle(record): sleep until it is due, at most for the longest delay.
Hold(r) ==
  IF Wait(r) > 0 THEN SleepFor(Least(Wait(r), MaxDelay)) ELSE sched' = "publish" /\ UNCHANGED wake

TakeRecord ==
  /\ sched = "next"
  /\ \E r \in batch :
       /\ IsNext(r)
       /\ hand' = r
       /\ batch' = batch \ {r}
       /\ Hold(r)
  /\ UNCHANGED <<now, flight, log, committed, polled, lost>>

BatchDone ==
  /\ sched = "next" /\ batch = {}
  /\ sched' = "poll"
  /\ hand' = <<>>
  /\ UNCHANGED <<now, flight, log, committed, batch, wake, polled, lost>>

WakeUp ==
  /\ sched = "sleep" /\ now >= wake
  /\ sched' = "publish"
  /\ UNCHANGED <<now, flight, log, committed, batch, hand, wake, polled, lost>>

\* publish_raw onto orders.created.
Replay ==
  /\ sched = "publish"
  /\ sched' = "commit"
  /\ UNCHANGED <<now, flight, log, committed, batch, hand, wake, polled, lost>>

Commit ==
  /\ sched = "commit"
  /\ committed' = [committed EXCEPT ![hand[1]] = hand[2]]
  /\ sched' = "next"
  /\ UNCHANGED <<now, flight, log, batch, hand, wake, polled, lost>>

-----------------------------------------------------------------------------
(* Time                                                                    *)

\* Time passes while the scheduler sleeps or waits for records ...
Tick ==
  /\ now < MaxTime
  /\ (sched = "sleep" /\ now < wake) \/ sched = "poll"
  /\ now' = now + 1
  /\ UNCHANGED <<flight, log, loopVars>>

LoseTime ==
  /\ sched # "poll"
  /\ now < MaxTime /\ lost < MaxLost
  /\ now' = now + 1 /\ lost' = lost + 1

\* ... while a call of it is slow ...
Stall ==
  /\ LoseTime
  /\ UNCHANGED <<flight, log, committed, sched, batch, hand, wake, polled>>

\* ... and when the handler raises: _safe_handle pauses, and the rest of the
\* partition's batch is abandoned with the record.
Redeliver ==
  /\ sched = "publish"
  /\ LoseTime
  /\ sched' = "next"
  /\ batch' = {r \in batch : r[1] # hand[1]}
  /\ UNCHANGED <<flight, log, committed, hand, wake, polled>>

\* The worker dies, or the commit raises; it starts again and polls what is not
\* committed.
Crash ==
  /\ sched # "poll"
  /\ sched' = "poll" /\ batch' = {} /\ hand' = <<>>
  /\ UNCHANGED <<now, flight, log, committed, wake, polled, lost>>

Next ==
  \/ \E c \in Consumers :
       \/ \E raw \in RawAttempts : Fail(c, raw)
       \/ \E p \in Partitions : Publish(c, p)
       \/ PublishFails(c)
  \/ GetMany \/ TakeRecord \/ BatchDone \/ WakeUp \/ Replay \/ Commit
  \/ Tick \/ Stall \/ Redeliver \/ Crash

Spec == Init /\ [][Next]_vars

-----------------------------------------------------------------------------
\* A record is not replayed before its backoff has passed, up to the difference
\* of the clocks: the cut at retry_max_delay_seconds, a redelivery in the middle
\* of the sleep, and a scheduler that comes late do not shorten it.
NotTooEarly ==
  sched \in {"publish", "commit"} => now + Skew >= Rec(hand).sent + Rec(hand).delay

\* "simply sleeping in the loop is safe" (RetryScheduler): from one poll to the
\* next the scheduler takes no longer than one maximal delay, plus what its calls
\* cost, however many records of however many partitions it has to sleep for one
\* after the other.  max.poll.interval.ms has to exceed this and no more.
NoPileUp == sched # "poll" => now <= polled + MaxDelay + Skew + lost

=============================================================================
