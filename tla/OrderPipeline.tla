--------------------------- MODULE OrderPipeline ---------------------------
(***************************************************************************)
(* The worker's three consumers (app/kafka/consumers.py) over the topics   *)
(* orders.created, orders.retry and orders.dlq, the idempotency guard and  *)
(* the orders and dead_letters tables.                                     *)
(*                                                                         *)
(* An event stands for the order it announces: submit_order publishes one  *)
(* event per order, and a retry republishes the same payload.  The guard   *)
(* is used through its atomic view (GuardOps, which IdempotencyGuard is    *)
(* shown to implement) and a topic through what module ConsumerGroup shows *)
(* of the consume loop: a record whose offset is not committed will be     *)
(* delivered, records of one order are delivered in order to one consumer, *)
(* and only a rebalance hands out a record again that is committed or      *)
(* still being handled elsewhere.                                          *)
(*                                                                         *)
(* The order cache and the counters are written by these handlers and read *)
(* by none of them: their calls swallow every error, so they are left out. *)
(***************************************************************************)
EXTENDS GuardOps, Integers, Sequences, FiniteSets

CONSTANTS Workers, Events,
          Kind,           \* Kind[e]: what the payload of e is, and leads to
          MaxAttempts,    \* settings.max_attempts
          Slow,           \* the events whose processing may outlast the lock TTL
          MaxEvents,      \* bound on the events that are published
          MaxFaults       \* bound on crashes, rebalances and failed calls

Kinds == {"ok", "transient", "permanent",  \* what fulfil() does with it
          "unknown",                       \* parses, but there is no such order
          "poison"}                        \* does not parse as an OrderEvent

ASSUME PipelineAssumption ==
  /\ Kind \in [Events -> Kinds]
  /\ MaxAttempts \in Nat \ {0}
  /\ Slow \subseteq Events
  /\ MaxEvents \in Nat /\ MaxFaults \in Nat
  /\ Workers \cap {"absent", "done", "orphan"} = {}

VARIABLES
  log,      \* log[t]: the records of topic t, by offset
  acked,    \* acked[t]: the offsets of t that were committed
  orders,   \* the rows of the orders table
  guard,    \* guard[e]: the key idem:event:{e}
  archive,  \* the offsets of orders.dlq with a row in dead_letters
  pc,       \* pc[t][w]: where worker w's consumer of topic t is
  hand,     \* hand[t][w]: the offset it is handling, 0 for none
  loaded,   \* loaded[w]: the Order object in the processor's session
  goal,     \* goal[w]: the status its current transaction moves the order to
  faults    \* how many faults have happened

vars == <<log, acked, orders, guard, archive, pc, hand, loaded, goal, faults>>

Topics == {"created", "retry", "dlq"}
Terminal == {"completed", "failed"}
Statuses == {"pending", "processing"} \cup Terminal
Row == [status: Statuses, attempts: Nat, reason: {"none", "error"}]
Record == [ev: Events, attempt: Nat \ {0}]
Known == {e \in Events : Kind[e] \in {"ok", "transient", "permanent"}}
\* The orders whose processing ends within the lock TTL, as the docs ask.
Timely == Known \ Slow
NewRow == [status |-> "pending", attempts |-> 0, reason |-> "none"]

\* Where the consumer of each topic can be.
Pcs == [created |-> {"idle", "claim", "load", "flush", "fulfil", "publishRetry", "publishDlq",
                     "complete", "release", "recover", "commit"},
        retry   |-> {"idle", "replay", "commit"},
        dlq     |-> {"idle", "archive", "commit"}]
Pc == Pcs.created \cup Pcs.retry \cup Pcs.dlq

TypeOK ==
  /\ log \in [Topics -> Seq(Record)]
  /\ acked \in [Topics -> SUBSET (Nat \ {0})]
  /\ orders \in [Known -> Row]
  /\ guard \in [Events -> GuardValue(Workers)]
  /\ archive \subseteq Nat
  /\ pc \in [Topics -> [Workers -> Pc]]
  /\ hand \in [Topics -> [Workers -> Nat]]
  /\ \A t \in Topics, w \in Workers :
       /\ pc[t][w] \in Pcs[t]
       /\ hand[t][w] \in 0..Len(log[t])
       /\ (hand[t][w] = 0) <=> (pc[t][w] = "idle")
  /\ loaded \in [Workers -> Row]
  /\ goal \in [Workers -> Statuses]
  /\ faults \in Nat

Init ==
  /\ log = [t \in Topics |-> <<>>]
  /\ acked = [t \in Topics |-> {}]
  /\ orders = [e \in Known |-> NewRow]
  /\ guard = [e \in Events |-> "absent"]
  /\ archive = {}
  /\ pc = [t \in Topics |-> [w \in Workers |-> "idle"]]
  /\ hand = [t \in Topics |-> [w \in Workers |-> 0]]
  /\ loaded = [w \in Workers |-> NewRow]
  /\ goal = [w \in Workers |-> "processing"]
  /\ faults = 0

-----------------------------------------------------------------------------
(* The broker.                                                             *)

Offsets(t) == 1..Len(log[t])

Published == {log["created"][i].ev : i \in Offsets("created")}

Send(t, e, n) ==
  log' = [log EXCEPT ![t] = Append(@, [ev |-> e, attempt |-> n])]

\* publish_event(event, attempt=1), the last durable step of submit_order.
PublishEvent(e) ==
  /\ e \notin Published /\ Cardinality(Published) < MaxEvents
  /\ Send("created", e, 1)
  /\ UNCHANGED <<acked, orders, guard, archive, pc, hand, loaded, goal, faults>>

-----------------------------------------------------------------------------
(* BaseConsumer: delivery, commit and redelivery, for the three topics.    *)

Goto(t, w, p) == pc' = [pc EXCEPT ![t][w] = p]

\* As a mutant: the record is not forgotten.
Rest_KeepsRecord(t, w) ==
  /\ Goto(t, w, "idle")
  /\ UNCHANGED <<hand, loaded, goal>>

\* The consumer is done with its record and forgets all about it.
Rest(t, w) ==
  /\ Goto(t, w, "idle")
  /\ hand' = [hand EXCEPT ![t][w] = 0]
  /\ loaded' = IF t = "created" THEN [loaded EXCEPT ![w] = NewRow] ELSE loaded
  /\ goal' = IF t = "created" THEN [goal EXCEPT ![w] = "processing"] ELSE goal

\* As a mutant: a record that does not parse is skipped.
FirstStep_SkipsPoison(t, i) ==
  CASE t = "created" -> IF Kind[log[t][i].ev] = "poison" THEN "commit" ELSE "claim"
    [] t = "retry"   -> "replay"
    [] t = "dlq"     -> "archive"

\* The first step of each consumer's handle(record).
FirstStep(t, i) ==
  CASE t = "created" -> IF Kind[log[t][i].ev] = "poison" THEN "publishDlq" ELSE "claim"
    [] t = "retry"   -> "replay"
    [] t = "dlq"     -> "archive"

Take(t, w, i) ==
  /\ pc[t][w] = "idle"
  /\ hand' = [hand EXCEPT ![t][w] = i]
  /\ Goto(t, w, FirstStep(t, i))
  /\ UNCHANGED <<log, acked, orders, guard, archive, loaded, goal>>

\* The records of one order share a key, hence a partition: its one owner
\* handles them one at a time, lowest uncommitted offset first.
Deliver(t, w, i) ==
  /\ i \notin acked[t]
  /\ \A j \in Offsets(t) \ acked[t] : log[t][j].ev = log[t][i].ev => i <= j
  /\ \A v \in Workers : hand[t][v] # 0 => log[t][hand[t][v]].ev # log[t][i].ev
  /\ Take(t, w, i)
  /\ UNCHANGED faults

\* After a rebalance: a record that is committed (the group's offset went
\* back) or that its former owner is still handling is delivered again.
Redeliver(t, w, i) ==
  /\ faults < MaxFaults
  /\ i \in acked[t] \/ \E v \in Workers : hand[t][v] = i
  /\ Take(t, w, i)
  /\ faults' = faults + 1

\* Ack.COMMIT: consumer.commit({tp: record.offset + 1}).
Commit(t, w) ==
  /\ pc[t][w] = "commit"
  /\ acked' = [acked EXCEPT ![t] = @ \cup {hand[t][w]}]
  /\ Rest(t, w)
  /\ UNCHANGED <<log, orders, guard, archive, faults>>

-----------------------------------------------------------------------------
(* OrderConsumer.  The consumer of worker w handles the event Ev(w).       *)

Ev(w) == log["created"][hand["created"][w]].ev
Attempt(w) == log["created"][hand["created"][w]].attempt

At(w, p) == pc["created"][w] = p
Go(w, p) == Goto("created", w, p) /\ UNCHANGED <<acked, archive, hand, faults>>

\* As a mutant: SET without NX, so a peer's lock is overwritten.
Claim_NoNX(w) ==
  /\ At(w, "claim")
  /\ guard[Ev(w)] # "done"
  /\ guard' = SetNx(guard, Ev(w), w)
  /\ Go(w, "load")
  /\ UNCHANGED <<log, orders, loaded, goal>>

\* The gate of handle(): claim(event_id) is ACQUIRED ...
Claim(w) ==
  /\ At(w, "claim")
  /\ guard[Ev(w)] = "absent"
  /\ guard' = SetNx(guard, Ev(w), w)
  /\ Go(w, "load")
  /\ UNCHANGED <<log, orders, loaded, goal>>

\* ... or ALREADY_DONE: skip and commit ...
AlreadyDone(w) ==
  /\ At(w, "claim")
  /\ guard[Ev(w)] = "done"
  /\ Go(w, "commit")
  /\ UNCHANGED <<log, orders, guard, loaded, goal>>

\* As a mutant: a record whose event is in flight elsewhere is committed.
InProgress_Commits(w) ==
  /\ At(w, "claim")
  /\ guard[Ev(w)] \notin {"absent", "done"}
  /\ Go(w, "commit")
  /\ UNCHANGED <<log, orders, guard, loaded, goal>>

\* ... or IN_PROGRESS: redeliver without committing.  The key may be gone again
\* when claim() looks for the second time, and the answer is the same.
InProgress(w) ==
  /\ At(w, "claim")
  /\ guard[Ev(w)] # "done"
  /\ Rest("created", w)
  /\ UNCHANGED <<log, acked, orders, guard, archive, faults>>

\* As a mutant: the status of the order is not looked at.
Load_NoTerminalCheck(w) ==
  /\ At(w, "load")
  /\ IF Ev(w) \notin Known
       THEN Go(w, "complete") /\ UNCHANGED loaded
       ELSE Go(w, "flush") /\ loaded' = [loaded EXCEPT ![w] = orders[Ev(w)]]
  /\ UNCHANGED <<log, orders, guard, goal>>

\* repo.get_order in a new session.  The first one is the second line of
\* defence: no such order, or an order that is already terminal.
Load(w) ==
  /\ At(w, "load")
  /\ IF \/ Ev(w) \notin Known
        \/ goal[w] = "processing" /\ orders[Ev(w)].status \in Terminal
       THEN Go(w, "complete") /\ UNCHANGED loaded
       ELSE Go(w, "flush") /\ loaded' = [loaded EXCEPT ![w] = orders[Ev(w)]]
  /\ UNCHANGED <<log, orders, guard, goal>>

\* repo.transition on the loaded object.
Moved(w) ==
  [status   |-> goal[w],
   attempts |-> Attempt(w),
   reason   |-> IF goal[w] \in {"pending", "failed"} THEN "error" ELSE "none"]

\* The UPDATE of a flush sets the columns that differ from what was loaded.
Column(current, old, new) == IF new = old THEN current ELSE new

Update(current, old, new) ==
  [status   |-> Column(current.status, old.status, new.status),
   attempts |-> Column(current.attempts, old.attempts, new.attempts),
   reason   |-> Column(current.reason, old.reason, new.reason)]

Persist(w) ==
  /\ orders' = [orders EXCEPT ![Ev(w)] = Update(@, loaded[w], Moved(w))]
  /\ UNCHANGED <<log, guard>>

\* What follows the commit of each transition.
NextAfterFlush(w) ==
  CASE goal[w] = "processing" -> "fulfil"
    [] goal[w] = "completed"  -> "complete"
    [] goal[w] = "pending"    -> "publishRetry"
    [] goal[w] = "failed"     -> "publishDlq"

\* session_scope commits the transition.
Flush(w) ==
  /\ At(w, "flush")
  /\ Persist(w)
  /\ Go(w, NextAfterFlush(w))
  /\ UNCHANGED <<loaded, goal>>

CanRetry(w) == Kind[Ev(w)] = "transient" /\ Attempt(w) < MaxAttempts

\* As a mutant: one attempt too many.
Outcome_OffByOne(w) ==
  IF Kind[Ev(w)] = "ok" THEN "completed"
  ELSE IF Kind[Ev(w)] = "transient" /\ Attempt(w) <= MaxAttempts THEN "pending" ELSE "failed"

\* fulfil(event), and the choice _fail makes between retry and dead letter.
Outcome(w) ==
  IF Kind[Ev(w)] = "ok" THEN "completed" ELSE IF CanRetry(w) THEN "pending" ELSE "failed"

Fulfil(w) ==
  /\ At(w, "fulfil")
  /\ goal' = [goal EXCEPT ![w] = Outcome(w)]
  /\ Go(w, "load")
  /\ UNCHANGED <<log, orders, guard, loaded>>

SendRetry(w) ==
  /\ Send("retry", Ev(w), Attempt(w) + 1)
  /\ UNCHANGED <<orders, guard>>

\* publish_raw to orders.retry, x-attempt one higher.
PublishRetry(w) ==
  /\ At(w, "publishRetry")
  /\ SendRetry(w)
  /\ Go(w, "release")
  /\ UNCHANGED <<loaded, goal>>

SendDlq(w) ==
  /\ Send("dlq", Ev(w), Attempt(w))
  /\ UNCHANGED <<orders, guard>>

\* _to_dlq: for a failed order before complete(), for an unknown one after it.
PublishDlq(w) ==
  /\ At(w, "publishDlq")
  /\ SendDlq(w)
  /\ Go(w, IF Ev(w) \in Known THEN "complete" ELSE "commit")
  /\ UNCHANGED <<loaded, goal>>

MarkDone(w) ==
  /\ guard' = CasComplete(guard, Ev(w), w)
  /\ UNCHANGED <<log, orders>>

\* guard.complete(claim); its result is ignored.
Complete(w) ==
  /\ At(w, "complete")
  /\ MarkDone(w)
  /\ Go(w, IF Ev(w) \in Known THEN "commit" ELSE "publishDlq")
  /\ UNCHANGED <<loaded, goal>>

HandBack(w) ==
  /\ guard' = CasRelease(guard, Ev(w), w)
  /\ UNCHANGED <<log, orders>>

\* As a mutant: complete() where the retry path must release().
Release_Completes(w) ==
  /\ At(w, "release")
  /\ MarkDone(w)
  /\ Go(w, "commit")
  /\ UNCHANGED <<loaded, goal>>

\* guard.release(claim) after the retry was published.
Release(w) ==
  /\ At(w, "release")
  /\ HandBack(w)
  /\ Go(w, "commit")
  /\ UNCHANGED <<loaded, goal>>

-----------------------------------------------------------------------------
(* Failing calls.  A call that raises may have had its effect: the reply   *)
(* was lost.                                                               *)

Nothing == UNCHANGED <<log, orders, guard>>

\* A call of _process raises: handle() releases the claim and re-raises.
Raise(w) ==
  /\ faults < MaxFaults
  /\ \/ At(w, "load") /\ Nothing
     \/ At(w, "flush") /\ (Persist(w) \/ Nothing)
     \/ At(w, "publishRetry") /\ (SendRetry(w) \/ Nothing)
     \/ At(w, "publishDlq") /\ Kind[Ev(w)] # "poison" /\ (SendDlq(w) \/ Nothing)
     \/ At(w, "complete") /\ (MarkDone(w) \/ Nothing)
     \/ At(w, "release") /\ (HandBack(w) \/ Nothing)
  /\ Goto("created", w, "recover")
  /\ faults' = faults + 1
  /\ UNCHANGED <<acked, archive, hand, loaded, goal>>

\* The except clause of handle(): release, then redelivery by _safe_handle.
Recover(w) ==
  /\ At(w, "recover")
  /\ HandBack(w)
  /\ Rest("created", w)
  /\ UNCHANGED <<acked, archive, faults>>

\* A call outside that try raises (claim, the poison record's _to_dlq, or the
\* release in the except clause): redelivery, and a lock that was taken or is
\* still held is left to its TTL.
RaiseUnguarded(w) ==
  /\ faults < MaxFaults
  /\ \/ /\ At(w, "claim")
        /\ \/ guard[Ev(w)] = "absent" /\ guard' = [guard EXCEPT ![Ev(w)] = "orphan"]
           \/ UNCHANGED guard
        /\ UNCHANGED log
     \/ At(w, "publishDlq") /\ Kind[Ev(w)] = "poison" /\ (SendDlq(w) \/ Nothing) /\ UNCHANGED guard
     \/ At(w, "recover") /\ guard' = Abandon(guard, Ev(w), w) /\ UNCHANGED log
  /\ Rest("created", w)
  /\ faults' = faults + 1
  /\ UNCHANGED <<acked, orders, archive>>

-----------------------------------------------------------------------------
(* RetryScheduler and DlqArchiver.                                         *)

\* publish_raw to orders.created with the attempt of the retry record.
Replayed(w) ==
  LET r == log["retry"][hand["retry"][w]] IN Send("created", r.ev, r.attempt)

\* RetryScheduler.handle: once x-not-before has passed, republish verbatim.
Replay(w) ==
  /\ pc["retry"][w] = "replay"
  /\ Replayed(w)
  /\ Goto("retry", w, "commit")
  /\ UNCHANGED <<acked, orders, guard, archive, hand, loaded, goal, faults>>

\* As a mutant: one row per event, a second dead letter of it is not stored.
Archived_OncePerEvent(w) ==
  LET i == hand["dlq"][w] IN
  archive' = IF \E j \in archive : log["dlq"][j].ev = log["dlq"][i].ev THEN archive
             ELSE archive \cup {i}

Archived(w) == archive' = archive \cup {hand["dlq"][w]}

\* DlqArchiver.handle: record_dead_letter.
Archive(w) ==
  /\ pc["dlq"][w] = "archive"
  /\ Archived(w)
  /\ Goto("dlq", w, "commit")
  /\ UNCHANGED <<log, acked, orders, guard, hand, loaded, goal, faults>>

\* Either of them raises in its one call: redelivery.
RaiseRelay(t, w) ==
  /\ faults < MaxFaults
  /\ \/ pc[t][w] = "replay" /\ (Replayed(w) \/ UNCHANGED log) /\ UNCHANGED archive
     \/ pc[t][w] = "archive" /\ (Archived(w) \/ UNCHANGED archive) /\ UNCHANGED log
  /\ Rest(t, w)
  /\ faults' = faults + 1
  /\ UNCHANGED <<acked, orders, guard>>

-----------------------------------------------------------------------------
(* The process and the clock.                                              *)

\* The worker dies with all three consumers, or leaves the group because a
\* commit or seek raised; it starts again from the committed offsets.
Crash(w) ==
  /\ faults < MaxFaults
  /\ \E t \in Topics : pc[t][w] # "idle"
  /\ pc' = [t \in Topics |-> [pc[t] EXCEPT ![w] = "idle"]]
  /\ hand' = [t \in Topics |-> [hand[t] EXCEPT ![w] = 0]]
  /\ loaded' = [loaded EXCEPT ![w] = NewRow]
  /\ goal' = [goal EXCEPT ![w] = "processing"]
  /\ guard' = IF At(w, "idle") THEN guard ELSE Abandon(guard, Ev(w), w)
  /\ faults' = faults + 1
  /\ UNCHANGED <<log, acked, orders, archive>>

\* As a mutant: SET NX without EX, so that only the tombstone expires.
Expire_NoLockTtl(e) ==
  /\ guard[e] = "done"
  /\ guard' = [guard EXCEPT ![e] = "absent"]
  /\ UNCHANGED <<log, acked, orders, archive, pc, hand, loaded, goal, faults>>

\* The TTL of a guard key runs out.
Expire(e) ==
  /\ guard[e] # "absent"
  /\ guard[e] \in Workers => e \in Slow
  /\ guard' = [guard EXCEPT ![e] = "absent"]
  /\ UNCHANGED <<log, acked, orders, archive, pc, hand, loaded, goal, faults>>

ProcessorStep(w) ==
  \/ Claim(w) \/ AlreadyDone(w) \/ InProgress(w)
  \/ Load(w) \/ Flush(w) \/ Fulfil(w)
  \/ PublishRetry(w) \/ PublishDlq(w) \/ Complete(w) \/ Release(w)
  \/ Recover(w)

Fault(w) ==
  \/ \E t \in Topics : \E i \in Offsets(t) : Redeliver(t, w, i)
  \/ Raise(w) \/ RaiseUnguarded(w)
  \/ \E t \in Topics : RaiseRelay(t, w)
  \/ Crash(w)

Next ==
  \/ \E e \in Events : PublishEvent(e) \/ Expire(e)
  \/ \E w \in Workers :
       \/ \E t \in Topics : Commit(t, w) \/ \E i \in Offsets(t) : Deliver(t, w, i)
       \/ ProcessorStep(w) \/ Replay(w) \/ Archive(w)
       \/ Fault(w)

Spec == Init /\ [][Next]_vars

\* Every consumer task of the event loop runs on, Redis expires keys, and a claim
\* that again and again finds no key does not lose the race for it every time.
Fairness ==
  /\ \A w \in Workers :
       /\ SF_vars(Claim(w))
       /\ WF_vars(ProcessorStep(w)) /\ WF_vars(Replay(w)) /\ WF_vars(Archive(w))
       /\ \A t \in Topics : WF_vars(Commit(t, w)) /\ WF_vars(\E i \in Offsets(t) : Deliver(t, w, i))
  /\ \A e \in Events : WF_vars(Expire(e))

FairSpec == Spec /\ Fairness

-----------------------------------------------------------------------------
Unacked(t, i) == i \in Offsets(t) /\ i \notin acked[t]

Settled(e) == e \in Known /\ orders[e].status \in Terminal

\* Nothing accepted is lost: a timely order whose event was published is terminal,
\* or a record of it waits uncommitted on orders.created or orders.retry.  Holds
\* across crashes, rebalances, failing calls and the lapsed locks of other orders,
\* because every handler commits after its effects and publishes the retry before
\* it commits.
NoOrphan ==
  \A e \in Timely :
    e \in Published =>
      \/ Settled(e)
      \/ \E t \in {"created", "retry"} : \E i \in Offsets(t) : Unacked(t, i) /\ log[t][i].ev = e

\* The Order object a transaction is about to flush is what the table holds:
\* no other worker's transition is overwritten, and the from_status written to
\* the audit trail is the status before.  This is what the guard buys for an
\* order that is processed within its lock's TTL.
NoStaleFlush ==
  \A w \in Workers : At(w, "flush") /\ Ev(w) \notin Slow => loaded[w] = orders[Ev(w)]

\* A decided timely order keeps its status in this step.
VerdictsKept == \A e \in Timely : Settled(e) => orders'[e].status = orders[e].status

\* completed and failed are final for a timely order, whatever is redelivered:
\* _process checks the status before its first transition only.
TerminalIsFinal == [][VerdictsKept]_vars

\* The tombstone of a timely order is set only once it is decided: what ALREADY_DONE skips
\* and commits was really handled.
DoneMeansSettled ==
  \A e \in Timely : guard[e] = "done" => Settled(e)

\* No record carries an attempt above max_attempts, whatever is redelivered, and
\* whether or not locks lapse: _fail compares the attempt of its own record.
AttemptsBounded == \A t \in Topics : \A i \in Offsets(t) : log[t][i].attempt <= MaxAttempts

\* The dead letter of an order that may be retried carries its last attempt; that of
\* a timely order is published only after the order durably failed.
DeadLetterIsJustified ==
  \A i \in Offsets("dlq") :
    LET r == log["dlq"][i] IN
      r.ev \in Known =>
        /\ Kind[r.ev] = "permanent" \/ r.attempt = MaxAttempts
        /\ r.ev \in Timely =>
             /\ orders[r.ev].status = "failed"
             /\ Kind[r.ev] = "permanent" \/ orders[r.ev].attempts = MaxAttempts

\* Once the group is through with an order that failed, or with an event that
\* names no order, its dead letter is on orders.dlq.
FailedIsDeadLettered ==
  \A e \in Published :
    /\ Kind[e] = "unknown" \/ (e \in Known /\ orders[e].status = "failed")
    /\ \A i \in Offsets("created") : log["created"][i].ev = e => i \in acked["created"]
    => \E i \in Offsets("dlq") : log["dlq"][i].ev = e

\* A record that does not parse is committed only once it is on orders.dlq.
PoisonReachesDlq ==
  \A i \in acked["created"] :
    LET e == log["created"][i].ev IN
      Kind[e] = "poison" => \E j \in Offsets("dlq") : log["dlq"][j].ev = e

\* The life of the orders that are not slow, as the log and the table show it.
Life == INSTANCE OrderLife WITH
  Orders    <- Timely,
  Hopeless  <- {e \in Timely : Kind[e] = "permanent"},
  Doomed    <- {e \in Timely : Kind[e] # "ok"},
  announced <- Published \cap Timely,
  status    <- [e \in Timely |-> orders[e].status],
  attempts  <- [e \in Timely |-> orders[e].attempts],
  letters   <- {log["dlq"][i].ev : i \in Offsets("dlq")} \cap Timely

\* The consumers move every order along the documented state machine: out of
\* processing only by what its attempt came to, and into the dead letters only
\* from failed, with rebalances, crashes and failing calls between any two steps.
ImplementsOrderLife == Life!Spec

\* Every published timely order is eventually completed or failed: handle() commits
\* a record only after a verdict or after the retry that follows it.
EveryOrderSettles ==
  \A e \in Timely : e \in Published ~> Settled(e)

\* Every dead letter is eventually archived, each of them when an event has
\* several: a publish that raised after its effect, or a redelivered record that
\* does not parse, sends one more.  No fault sends more than one.
EveryDeadLetterArchived ==
  \A i \in 1..(MaxEvents + MaxFaults) : i \in Offsets("dlq") ~> i \in archive

=============================================================================
