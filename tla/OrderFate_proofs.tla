-------------------------- MODULE OrderFate_proofs --------------------------
(***************************************************************************)
(* What becomes of every event: records that do not parse reach orders.dlq *)
(* before they are committed, no attempt beyond the last is scheduled, no  *)
(* order whose lock outlives its processing is lost, and each goes through *)
(* the documented state machine.  For any number of workers, events,       *)
(* attempts and faults, and whatever the locks of slower orders do.        *)
(***************************************************************************)
EXTENDS OrderPipeline_proofs

\* Only offsets that exist are committed.
AckInv == \A t \in Topics : acked[t] \subseteq Offsets(t)

-----------------------------------------------------------------------------
(* Records that do not parse.                                              *)

Dead(e) == \E j \in Offsets("dlq") : log["dlq"][j].ev = e

\* A processor with such a record publishes it, then commits it.
PoisonInHand(w) ==
  pc["created"][w] # "idle" /\ Kind[Ev(w)] = "poison" =>
    /\ pc["created"][w] \in {"publishDlq", "commit"}
    /\ pc["created"][w] = "commit" => Dead(Ev(w))

PoisonInv == AckInv /\ PoisonReachesDlq /\ \A w \in Workers : PoisonInHand(w)

-----------------------------------------------------------------------------
(* Orders.                                                                 *)

\* A record goes from orders.created to orders.retry with the next attempt, and
\* back with the same one: what follows a record always has a higher rank.
Rank(t, i) == 2 * log[t][i].attempt + (IF t = "created" THEN 1 ELSE 0)

\* A record of e with a rank above k waits to be handled.
Waits(e, k) ==
  \E t \in {"created", "retry"} : \E i \in Offsets(t) :
    i \notin acked[t] /\ log[t][i].ev = e /\ Rank(t, i) > k

Safe(e, k) == e \in Timely => Settled(e) \/ Waits(e, k)

\* A consumer that is about to commit its record has seen to what follows it.
Followed(t, w) ==
  pc[t][w] \in {"commit", "release"} => Safe(log[t][hand[t][w]].ev, Rank(t, hand[t][w]))

FateInv ==
  /\ AckInv
  /\ \A e \in Published : Safe(e, 0)
  /\ \A t \in {"created", "retry"}, w \in Workers : Followed(t, w)

-----------------------------------------------------------------------------
(* Verdicts and attempts.                                                  *)

\* The order of e failed for good.
Exhausted(e) ==
  /\ orders[e].status = "failed"
  /\ Kind[e] = "permanent" \/ orders[e].attempts = MaxAttempts

\* A processor pursues the outcome of its event, and publishes accordingly.
Purpose(w) ==
  pc["created"][w] # "idle" =>
    /\ goal[w] # "processing" => Ev(w) \in Known /\ goal[w] = Outcome(w)
    /\ pc["created"][w] = "publishRetry" => goal[w] = "pending"
    /\ pc["created"][w] = "publishDlq" /\ Ev(w) \in Known =>
         goal[w] = "failed" /\ (Ev(w) \notin Slow => Exhausted(Ev(w)))

VerdictInv == AttemptsBounded /\ DeadLetterIsJustified /\ \A w \in Workers : Purpose(w)

\* Between the start of an attempt and its outcome the row says so.
Underway(w) ==
  \/ pc["created"][w] = "fulfil"
  \/ pc["created"][w] \in {"load", "flush"} /\ goal[w] # "processing"

Stage(w) ==
  Underway(w) /\ Ev(w) \in Timely =>
    orders[Ev(w)].status = "processing" /\ orders[Ev(w)].attempts = Attempt(w)

StageInv == \A w \in Workers : Stage(w)

-----------------------------------------------------------------------------
(* Steps, seen from the log and the offsets.                               *)

\* Offsets are committed by the consume loop only.
LEMMA OnlyCommitAcks ==
  ASSUME [Next]_vars
  PROVE  acked' = acked \/ \E t \in Topics, w \in Workers : Commit(t, w)
<1>1. ASSUME NEW w \in Workers, ProcessorStep(w) PROVE acked' = acked
  BY <1>1 DEF ProcessorStep, Claim, AlreadyDone, InProgress, Load, Flush, Fulfil, PublishRetry,
              PublishDlq, Complete, Release, Recover, Go
<1>2. ASSUME NEW w \in Workers, Fault(w) PROVE acked' = acked
  BY <1>2 DEF Fault, Redeliver, Take, Raise, RaiseUnguarded, RaiseRelay, Crash
<1>3. ASSUME NEW w \in Workers, Replay(w) \/ Archive(w) PROVE acked' = acked
  BY <1>3 DEF Replay, Archive
<1>4. ASSUME NEW e \in Events, PublishEvent(e) \/ Expire(e) PROVE acked' = acked
  BY <1>4 DEF PublishEvent, Expire
<1>5. ASSUME NEW t \in Topics, NEW w \in Workers, NEW i, Deliver(t, w, i) PROVE acked' = acked
  BY <1>5 DEF Deliver, Take
<1>6. CASE UNCHANGED vars
  BY <1>6 DEF vars
<1>7. QED
  BY <1>1, <1>2, <1>3, <1>4, <1>5, <1>6 DEF Next

\* What a commit does.
LEMMA CommitEffect ==
  ASSUME TypeOK, NEW t \in Topics, NEW w \in Workers, Commit(t, w)
  PROVE  /\ pc[t][w] = "commit" /\ log' = log
         /\ hand[t][w] \in Offsets(t)
         /\ acked'[t] = acked[t] \cup {hand[t][w]}
         /\ \A u \in Topics \ {t} : acked'[u] = acked[u]
<1>1. hand[t][w] \in 1..Len(log[t])
  BY InHand DEF Commit
<1>2. QED
  BY <1>1 DEF Commit, TypeOK, Offsets

\* Whatever is committed was there before the step.
LEMMA AckStep ==
  ASSUME TypeOK, AckInv, [Next]_vars
  PROVE  AckInv' /\ \A t \in Topics : acked'[t] \subseteq Offsets(t)
<1>1. \A t \in Topics : acked'[t] \subseteq Offsets(t)
  BY OnlyCommitAcks, CommitEffect DEF AckInv
<1>2. \A t \in Topics : Offsets(t) \subseteq Offsets(t)'
  BY LogStep DEF LogGrows, Offsets
<1>3. QED
  BY <1>1, <1>2 DEF AckInv

\* A record keeps its event and its attempt.
LEMMA RecordKept ==
  ASSUME LogGrows, NEW t \in Topics, NEW i \in Offsets(t)
  PROVE  i \in Offsets(t)' /\ log'[t][i] = log[t][i] /\ Rank(t, i)' = Rank(t, i)
  BY DEF LogGrows, Offsets, Rank

-----------------------------------------------------------------------------
(* Steps, seen from one consumer.                                          *)

Stays(t, w) ==
  /\ pc'[t][w] = pc[t][w] /\ hand'[t][w] = hand[t][w]
  /\ t = "created" => goal'[w] = goal[w]

Advances(w) ==
  \/ Claim(w) \/ AlreadyDone(w) \/ Load(w) \/ Flush(w) \/ Fulfil(w)
  \/ PublishRetry(w) \/ PublishDlq(w) \/ Complete(w) \/ Release(w) \/ Raise(w)

\* The consumer goes on with the record it has in hand.
Proceeds(t, w) ==
  /\ pc[t][w] # "idle" /\ hand'[t][w] = hand[t][w]
  /\ \/ t = "created" /\ Advances(w)
     \/ t = "retry" /\ Replay(w)
     \/ t = "dlq" /\ Archive(w)

\* Moving one consumer moves no other.
LEMMA GotoEffect ==
  ASSUME TypeOK, NEW u \in Topics, NEW v \in Workers, NEW p, Goto(u, v, p)
  PROVE  /\ pc'[u][v] = p
         /\ \A t \in Topics, w \in Workers : t # u \/ w # v => pc'[t][w] = pc[t][w]
  BY DEF TypeOK, Goto

\* A consumer that puts its record down is idle, and the others stay.
LEMMA RestMoves ==
  ASSUME TypeOK, NEW u \in Topics, NEW v \in Workers, Rest(u, v),
         NEW t \in Topics, NEW w \in Workers
  PROVE  pc'[t][w] = "idle" \/ Stays(t, w)
<1>1. CASE t = u /\ w = v
  BY <1>1, GotoEffect DEF Rest
<1>2. CASE t # u \/ w # v
  <2>1. pc'[t][w] = pc[t][w]
    BY <1>2, GotoEffect DEF Rest
  <2>2. hand'[t][w] = hand[t][w]
    BY <1>2 DEF Rest, TypeOK
  <2>3. t = "created" => goal'[w] = goal[w]
    BY <1>2 DEF Rest, TypeOK
  <2>4. QED
    BY <2>1, <2>2, <2>3 DEF Stays
<1>3. QED
  BY <1>1, <1>2

\* In every step a consumer comes to rest, stays, takes a record or goes on.
LEMMA Moves ==
  ASSUME TypeOK, [Next]_vars, NEW t \in Topics, NEW w \in Workers
  PROVE  \/ pc'[t][w] = "idle" \/ Stays(t, w) \/ Proceeds(t, w)
         \/ \E i \in Offsets(t) : Take(t, w, i)
<1> DEFINE Goal == \/ pc'[t][w] = "idle" \/ Stays(t, w) \/ Proceeds(t, w)
                   \/ \E i \in Offsets(t) : Take(t, w, i)
<1>0. "created" \in Topics /\ "retry" \in Topics /\ "dlq" \in Topics
  BY DEF Topics
<1>1. ASSUME NEW u \in Topics, NEW v \in Workers, NEW i \in Offsets(u), Take(u, v, i) PROVE Goal
  <2>1. CASE t = u /\ w = v
    BY <1>1, <2>1
  <2>2. CASE t # u \/ w # v
    <3>1. pc'[t][w] = pc[t][w]
      BY <1>1, <2>2, GotoEffect DEF Take
    <3>2. hand'[t][w] = hand[t][w] /\ goal' = goal
      BY <1>1, <2>2 DEF Take, TypeOK
    <3>3. QED
      BY <3>1, <3>2 DEF Stays
  <2>3. QED
    BY <2>1, <2>2
<1>2. ASSUME NEW u \in Topics, NEW v \in Workers, Rest(u, v) PROVE Goal
  BY <1>2, RestMoves
<1>3. ASSUME NEW v \in Workers, Advances(v) PROVE Goal
  <2>1. /\ pc["created"][v] # "idle" /\ hand' = hand
        /\ \E p : Goto("created", v, p)
    BY <1>3 DEF Advances, Claim, AlreadyDone, Load, Flush, Fulfil, PublishRetry, PublishDlq,
                Complete, Release, Raise, Go, At
  <2>2. goal' = goal \/ goal' = [goal EXCEPT ![v] = Outcome(v)]
    BY <1>3 DEF Advances, Claim, AlreadyDone, Load, Flush, Fulfil, PublishRetry, PublishDlq,
                Complete, Release, Raise
  <2>3. CASE t = "created" /\ w = v
    BY <1>3, <2>1, <2>3 DEF Proceeds
  <2>4. CASE t # "created" \/ w # v
    <3>1. pc'[t][w] = pc[t][w]
      BY <1>0, <2>1, <2>4, GotoEffect
    <3>2. t = "created" => goal'[w] = goal[w]
      BY <2>2, <2>4 DEF TypeOK
    <3>3. QED
      BY <2>1, <3>1, <3>2 DEF Stays
  <2>5. QED
    BY <2>3, <2>4
<1>4. ASSUME NEW u \in {"retry", "dlq"}, NEW v \in Workers,
             (u = "retry" /\ Replay(v)) \/ (u = "dlq" /\ Archive(v))
      PROVE  Goal
  <2>1. /\ pc[u][v] # "idle" /\ hand' = hand /\ goal' = goal
        /\ u \in Topics /\ Goto(u, v, "commit")
    BY <1>0, <1>4 DEF Replay, Archive
  <2>2. CASE t = u /\ w = v
    BY <1>4, <2>1, <2>2 DEF Proceeds
  <2>3. CASE t # u \/ w # v
    BY <2>1, <2>3, GotoEffect DEF Stays
  <2>4. QED
    BY <2>2, <2>3
<1>5. ASSUME NEW v \in Workers, Crash(v) PROVE Goal
  <2>1. CASE w = v
    BY <1>5, <2>1 DEF Crash, TypeOK
  <2>2. CASE w # v
    BY <1>5, <2>2 DEF Crash, TypeOK, Stays
  <2>3. QED
    BY <2>1, <2>2
<1>6. ASSUME NEW e \in Events, PublishEvent(e) \/ Expire(e) PROVE Goal
  BY <1>6 DEF PublishEvent, Expire, Stays
<1>7. CASE UNCHANGED vars
  BY <1>7 DEF vars, Stays
<1>8. ASSUME NEW v \in Workers, ProcessorStep(v) PROVE Goal
  BY <1>0, <1>2, <1>3, <1>8 DEF ProcessorStep, Advances, InProgress, Recover
<1>9. ASSUME NEW v \in Workers, Fault(v) PROVE Goal
  BY <1>0, <1>1, <1>2, <1>3, <1>5, <1>9 DEF Fault, Redeliver, Advances, RaiseUnguarded, RaiseRelay
<1>10. QED
  BY <1>1, <1>2, <1>4, <1>6, <1>7, <1>8, <1>9 DEF Next, Deliver, Commit

\* The record that a send appends.
LEMMA SentRecord ==
  ASSUME TypeOK, NEW t \in Topics, NEW e \in Events, NEW n \in Nat \ {0}, Send(t, e, n)
  PROVE  \E i \in Offsets(t)' \ Offsets(t) : log'[t][i] = [ev |-> e, attempt |-> n]
<1> DEFINE r == [ev |-> e, attempt |-> n]
<1>1. r \in Record /\ log[t] \in Seq(Record) /\ Len(log[t]) \in Nat
  BY LenProperties DEF Record, TypeOK
<1>2. log'[t] = Append(log[t], r)
  BY DEF Send, TypeOK
<1>3. Len(log'[t]) = Len(log[t]) + 1 /\ log'[t][Len(log[t]) + 1] = r
  BY <1>1, <1>2, AppendProperties
<1>4. QED
  BY <1>1, <1>3 DEF Offsets

-----------------------------------------------------------------------------
\* A dead letter stays on orders.dlq.
LEMMA DeadKept == ASSUME LogGrows, NEW e, Dead(e) PROVE Dead(e)'
<1>1. "dlq" \in Topics
  BY DEF Topics
<1>2. QED
  BY <1>1, RecordKept DEF Dead

\* Every processor keeps its part.
LEMMA PoisonKept ==
  ASSUME TypeOK, PoisonInv, [Next]_vars, NEW w \in Workers
  PROVE  PoisonInHand(w)'
<1> SUFFICES ASSUME pc'["created"][w] # "idle", Kind[Ev(w)'] = "poison"
             PROVE  /\ pc'["created"][w] \in {"publishDlq", "commit"}
                    /\ pc'["created"][w] = "commit" => Dead(Ev(w))'
  BY DEF PoisonInHand
<1>0. LogGrows /\ "created" \in Topics /\ "dlq" \in Topics /\ PoisonInHand(w)
  BY LogStep DEF Topics, PoisonInv
<1>1. CASE Stays("created", w)
  <2>1. pc["created"][w] # "idle" /\ Ev(w)' = Ev(w)
    BY <1>0, <1>1, EvKept DEF Stays
  <2>2. QED
    BY <1>0, <1>1, <2>1, DeadKept DEF Stays, PoisonInHand
<1>2. CASE \E i \in Offsets("created") : Take("created", w, i)
  <2>1. PICK i \in Offsets("created") : Take("created", w, i)
    BY <1>2
  <2>2. hand'["created"][w] = i /\ log' = log
    BY <1>0, <2>1 DEF Take, TypeOK
  <2>3. Ev(w)' = log["created"][i].ev
    BY <2>2 DEF Ev
  <2>4. FirstStep("created", i) = "publishDlq"
    BY <2>3 DEF FirstStep
  <2>5. QED
    BY <1>0, <2>1, <2>4, GotoEffect DEF Take
<1>3. CASE Proceeds("created", w)
  <2>1. pc["created"][w] # "idle" /\ Ev(w)' = Ev(w) /\ Advances(w)
    BY <1>0, <1>3, EvKept DEF Proceeds
  <2>2. pc["created"][w] \in {"publishDlq", "commit"} /\ Kind[Ev(w)] = "poison"
    BY <1>0, <2>1 DEF PoisonInHand
  <2>3. PublishDlq(w)
    BY <2>1, <2>2 DEF Advances, Claim, AlreadyDone, Load, Flush, Fulfil, PublishRetry,
                      Complete, Release, Raise, At
  <2>4. Ev(w) \notin Known /\ Ev(w) \in Events /\ Attempt(w) \in Nat \ {0}
    BY <2>1, <2>2, EventInHand DEF Known
  <2>5. Send("dlq", Ev(w), Attempt(w)) /\ Goto("created", w, "commit")
    BY <2>3, <2>4 DEF PublishDlq, SendDlq, Go
  <2>6. PICK i \in Offsets("dlq")' \ Offsets("dlq") :
          log'["dlq"][i] = [ev |-> Ev(w), attempt |-> Attempt(w)]
    BY <1>0, <2>4, <2>5, SentRecord
  <2>7. Dead(Ev(w))'
    BY <2>1, <2>6 DEF Dead
  <2>8. QED
    BY <1>0, <2>5, <2>7, GotoEffect
<1>4. QED
  BY <1>0, <1>1, <1>2, <1>3, Moves

\* The invariant is inductive, with or without lapsing locks.
LEMMA PoisonStep == TypeOK /\ PoisonInv /\ [Next]_vars => PoisonInv'
<1> SUFFICES ASSUME TypeOK, PoisonInv, [Next]_vars PROVE PoisonInv'
  OBVIOUS
<1>0. LogGrows /\ AckInv /\ "created" \in Topics
  BY LogStep DEF Topics, PoisonInv
<1>1. ASSUME NEW i \in acked'["created"], Kind[log'["created"][i].ev] = "poison"
      PROVE  Dead(log["created"][i].ev)' /\ log'["created"][i] = log["created"][i]
  <2>1. i \in Offsets("created")
    BY <1>0, AckStep
  <2>2. log'["created"][i] = log["created"][i]
    BY <1>0, <2>1, RecordKept
  <2>3. CASE i \in acked["created"]
    <3>1. Dead(log["created"][i].ev)
      BY <1>1, <2>2, <2>3 DEF PoisonInv, PoisonReachesDlq, Dead
    <3>2. QED
      BY <1>0, <2>2, <3>1, DeadKept
  <2>4. CASE i \notin acked["created"]
    <3>1. PICK w \in Workers : Commit("created", w) /\ i = hand["created"][w]
      BY <1>0, <1>1, <2>4, OnlyCommitAcks, CommitEffect
    <3>2. pc["created"][w] = "commit" /\ Ev(w) = log["created"][i].ev
      BY <1>0, <3>1, CommitEffect DEF Ev
    <3>3. Dead(log["created"][i].ev)
      BY <1>1, <2>2, <3>2 DEF PoisonInv, PoisonInHand
    <3>4. QED
      BY <1>0, <2>2, <3>3, DeadKept
  <2>5. QED
    BY <2>3, <2>4
<1>2. PoisonReachesDlq'
  BY <1>1 DEF PoisonReachesDlq, Dead
<1>3. QED
  BY <1>0, <1>2, AckStep, PoisonKept DEF PoisonInv

\* A record that does not parse is committed only when it is on orders.dlq,
\* whatever fails, dies or is delivered twice.
THEOREM PoisonIsDeadLettered == Spec => []PoisonReachesDlq
<1>1. Init => PoisonInv
  <2> SUFFICES ASSUME Init PROVE PoisonInv
    OBVIOUS
  <2>1. \A t \in Topics : acked[t] = {}
    BY DEF Init
  <2>2. \A w \in Workers : pc["created"][w] = "idle"
    BY DEF Init, Topics
  <2>3. QED
    BY <2>1, <2>2 DEF PoisonInv, AckInv, PoisonReachesDlq, PoisonInHand, Topics
<1>2. PoisonInv => PoisonReachesDlq
  BY DEF PoisonInv
<1>3. QED
  BY <1>1, <1>2, PoisonStep, TypeCorrect, PTL DEF Spec

-----------------------------------------------------------------------------
\* Ranks are natural numbers above 0.
LEMMA RankType ==
  ASSUME TypeOK, NEW t \in Topics, NEW i \in Offsets(t)
  PROVE  log[t][i] \in Record /\ log[t][i].ev \in Events /\ Rank(t, i) \in Nat \ {0}
<1>1. log[t][i] \in Record
  BY ElementOfSeq DEF TypeOK, Offsets
<1>2. QED
  BY <1>1 DEF Record, Rank

\* An order that is safe stays safe: when the record it waits for is committed,
\* a later one waits, or there is a verdict.
LEMMA SafeKept ==
  ASSUME TypeOK, FateInv, VerdictsKept, [Next]_vars, NEW e \in Events, NEW k \in Nat, Safe(e, k)
  PROVE  Safe(e, k)'
<1> SUFFICES ASSUME e \in Timely PROVE Settled(e)' \/ Waits(e, k)'
  BY DEF Safe
<1>0. LogGrows /\ AckInv /\ {"created", "retry"} \subseteq Topics
  BY LogStep DEF Topics, FateInv
<1>1. Settled(e) => Settled(e)'
  BY DEF VerdictsKept, Settled
<1>2. ASSUME NEW u \in {"created", "retry"}, NEW j \in Offsets(u), j \notin acked'[u],
             log[u][j].ev = e, Rank(u, j) > k
      PROVE  Waits(e, k)'
  <2>1. j \in Offsets(u)' /\ log'[u][j].ev = e /\ Rank(u, j)' > k
    BY <1>0, <1>2, RecordKept
  <2>2. QED
    BY <1>2, <2>1 DEF Waits
<1>3. CASE Waits(e, k)
  <2>1. PICK t \in {"created", "retry"} : \E i \in Offsets(t) :
          i \notin acked[t] /\ log[t][i].ev = e /\ Rank(t, i) > k
    BY <1>3 DEF Waits
  <2>2. PICK i \in Offsets(t) : i \notin acked[t] /\ log[t][i].ev = e /\ Rank(t, i) > k
    BY <2>1
  <2>3. CASE i \notin acked'[t]
    BY <1>2, <2>2, <2>3
  <2>4. CASE i \in acked'[t]
    <3>1. PICK w \in Workers : Commit(t, w) /\ i = hand[t][w]
      BY <1>0, <2>2, <2>4, OnlyCommitAcks, CommitEffect
    <3>2. pc[t][w] = "commit" /\ acked'[t] = acked[t] \cup {i}
          /\ \A u \in Topics \ {t} : acked'[u] = acked[u]
      BY <1>0, <3>1, CommitEffect
    <3>3. Settled(e) \/ Waits(e, Rank(t, i))
      BY <2>2, <3>1, <3>2 DEF FateInv, Followed, Safe
    <3>4. CASE Waits(e, Rank(t, i))
      <4>1. PICK u \in {"created", "retry"} : \E j \in Offsets(u) :
              j \notin acked[u] /\ log[u][j].ev = e /\ Rank(u, j) > Rank(t, i)
        BY <3>4 DEF Waits
      <4>2. PICK j \in Offsets(u) : j \notin acked[u] /\ log[u][j].ev = e /\ Rank(u, j) > Rank(t, i)
        BY <4>1
      <4>3. Rank(u, j) \in Nat /\ Rank(t, i) \in Nat
        BY <1>0, RankType
      <4>4. u # t \/ j # i
        BY <4>2, <4>3
      <4>5. j \notin acked'[u]
        BY <1>0, <3>2, <4>2, <4>4
      <4>6. Rank(u, j) > k
        BY <2>2, <4>2, <4>3
      <4>7. QED
        BY <1>2, <4>2, <4>5, <4>6
    <3>5. QED
      BY <1>1, <3>3, <3>4
  <2>5. QED
    BY <2>3, <2>4
<1>4. QED
  BY <1>1, <1>3 DEF Safe

\* A processor that comes to its commit has seen to what follows.
LEMMA AdvanceFollowed ==
  ASSUME IInv, FateInv, VerdictsKept, [Next]_vars, NEW w \in Workers, Advances(w),
         pc["created"][w] # "idle", hand'["created"][w] = hand["created"][w],
         pc'["created"][w] \in {"commit", "release"}
  PROVE  Safe(Ev(w), Rank("created", hand["created"][w]))'
<1> DEFINE i == hand["created"][w]
<1>0. /\ TypeOK /\ WorkerInv(w) /\ LogGrows /\ "created" \in Topics /\ "retry" \in Topics
      /\ AckInv /\ Followed("created", w)
  BY LogStep DEF IInv, LockInv, Topics, FateInv
<1>1. /\ i \in Offsets("created") /\ Ev(w) \in Events /\ Attempt(w) \in Nat \ {0}
      /\ Rank("created", i) = 2 * Attempt(w) + 1
  BY <1>0, InHand, EventInHand DEF Offsets, Attempt, Rank
<1>2. Ev(w)' = Ev(w) /\ Rank("created", i)' = Rank("created", i) /\ i' = i
  BY <1>0, <1>1, EvKept, RecordKept
<1>3. ASSUME Settled(Ev(w)) PROVE Safe(Ev(w), Rank("created", i))'
  BY <1>2, <1>3 DEF VerdictsKept, Settled, Safe
<1>4. ASSUME NEW p, Goto("created", w, p) PROVE pc'["created"][w] = p
  BY <1>0, <1>4, GotoEffect
<1>5. CASE AlreadyDone(w)
  <2>1. Ev(w) \in Timely => Settled(Ev(w))
    BY <1>5 DEF AlreadyDone, IInv, DoneMeansSettled
  <2>2. QED
    BY <1>2, <1>3, <2>1 DEF Safe
<1>6. CASE PublishRetry(w)
  <2>1. Send("retry", Ev(w), Attempt(w) + 1) /\ Attempt(w) + 1 \in Nat \ {0}
    BY <1>1, <1>6 DEF PublishRetry, SendRetry
  <2>2. PICK j \in Offsets("retry")' \ Offsets("retry") :
          log'["retry"][j] = [ev |-> Ev(w), attempt |-> Attempt(w) + 1]
    BY <1>0, <1>1, <2>1, SentRecord
  <2>3. log'["retry"][j].ev = Ev(w) /\ Rank("retry", j)' > Rank("created", i)
    BY <1>1, <2>2 DEF Rank
  <2>4. Waits(Ev(w), Rank("created", i))'
    <3>1. j \notin acked'["retry"]
      BY <1>0, <2>2, AckStep
    <3>2. QED
      BY <1>2, <2>2, <2>3, <3>1 DEF Waits
  <2>5. QED
    BY <2>4 DEF Safe
<1>7. CASE PublishDlq(w)
  <2>1. Ev(w) \notin Known
    BY <1>4, <1>7 DEF PublishDlq, Go
  <2>2. QED
    BY <1>2, <2>1 DEF Safe, Timely
<1>8. CASE Complete(w)
  <2>1. Ev(w) \in Timely => Settled(Ev(w))
    BY <1>0, <1>8 DEF Complete, At, WorkerInv, Exclusive, Timely
  <2>2. QED
    BY <1>2, <1>3, <2>1 DEF Safe
<1>9. CASE Release(w)
  <2>1. Safe(Ev(w), Rank("created", i)) /\ Rank("created", i) \in Nat
    BY <1>0, <1>1, <1>9 DEF Release, At, Followed, Ev
  <2>2. QED
    BY <1>0, <1>1, <1>2, <2>1, SafeKept DEF Safe, Waits, Settled
<1>10. CASE Claim(w) \/ Load(w) \/ Fulfil(w) \/ Raise(w)
  BY <1>4, <1>10 DEF Claim, Load, Fulfil, Raise, Go
<1>11. CASE Flush(w)
  <2>1. goal[w] \in {"pending", "processing", "completed", "failed"}
    BY <1>0 DEF TypeOK, Statuses, Terminal
  <2>2. NextAfterFlush(w) \notin {"commit", "release"}
    BY <2>1 DEF NextAfterFlush
  <2>3. QED
    BY <1>4, <1>11, <2>2 DEF Flush, Go
<1>12. QED
  BY <1>5, <1>6, <1>7, <1>8, <1>9, <1>10, <1>11 DEF Advances

\* Every consumer that is about to commit keeps, or gains, what it has seen to.
LEMMA FollowedKept ==
  ASSUME IInv, FateInv, VerdictsKept, [Next]_vars, NEW t \in {"created", "retry"}, NEW w \in Workers
  PROVE  Followed(t, w)'
<1> SUFFICES ASSUME pc'[t][w] \in {"commit", "release"}
             PROVE  Safe(log[t][hand[t][w]].ev, Rank(t, hand[t][w]))'
  BY DEF Followed
<1>0. /\ TypeOK /\ LogGrows /\ AckInv /\ Followed(t, w)
      /\ t \in Topics /\ "created" \in Topics /\ "retry" \in Topics
  BY LogStep DEF IInv, Topics, FateInv
<1>1. CASE Stays(t, w)
  <2>1. pc[t][w] \in {"commit", "release"} /\ pc[t][w] # "idle" /\ hand'[t][w] = hand[t][w]
    BY <1>1 DEF Stays
  <2>2. hand[t][w] \in Offsets(t)
    BY <1>0, <2>1, InHand DEF Offsets
  <2>3. /\ log[t][hand[t][w]].ev \in Events /\ Rank(t, hand[t][w]) \in Nat
        /\ log'[t][hand'[t][w]] = log[t][hand[t][w]]
        /\ Rank(t, hand[t][w])' = Rank(t, hand[t][w])
    BY <1>0, <2>1, <2>2, RankType, RecordKept DEF Rank
  <2>4. Safe(log[t][hand[t][w]].ev, Rank(t, hand[t][w]))
    BY <1>0, <2>1 DEF Followed
  <2>5. QED
    BY <1>0, <2>3, <2>4, SafeKept DEF Safe, Waits, Settled
<1>2. CASE \E i \in Offsets(t) : Take(t, w, i)
  <2>1. PICK i \in Offsets(t) : Take(t, w, i)
    BY <1>2
  <2>2. FirstStep(t, i) \in {"publishDlq", "claim", "replay"}
    BY DEF FirstStep
  <2>3. QED
    BY <1>0, <2>1, <2>2, GotoEffect DEF Take
<1>3. CASE Proceeds(t, w) /\ t = "created"
  BY <1>3, AdvanceFollowed DEF Proceeds, Ev
<1>4. CASE Proceeds(t, w) /\ t = "retry"
  <2> DEFINE i == hand["retry"][w]
             r == log["retry"][i]
  <2>1. pc["retry"][w] # "idle" /\ hand'["retry"][w] = i /\ Replay(w)
    BY <1>4 DEF Proceeds
  <2>2. i \in Offsets("retry") /\ r.ev \in Events /\ r.attempt \in Nat \ {0}
    BY <1>0, <2>1, InHand DEF Offsets, Record
  <2>3. log'["retry"][i] = r /\ Rank("retry", i)' = 2 * r.attempt
    BY <1>0, <2>1, <2>2, RecordKept DEF Rank
  <2>4. Send("created", r.ev, r.attempt)
    BY <2>1 DEF Replay, Replayed
  <2>5. PICK j \in Offsets("created")' \ Offsets("created") :
          log'["created"][j] = [ev |-> r.ev, attempt |-> r.attempt]
    BY <1>0, <2>2, <2>4, SentRecord
  <2>6. log'["created"][j].ev = r.ev /\ Rank("created", j)' > 2 * r.attempt
    BY <2>2, <2>5 DEF Rank
  <2>7. j \notin acked'["created"]
    BY <1>0, <2>5, AckStep
  <2>8. Waits(log["retry"][hand["retry"][w]].ev, Rank("retry", hand["retry"][w]))'
    BY <2>1, <2>3, <2>5, <2>6, <2>7 DEF Waits
  <2>9. QED
    BY <1>4, <2>8 DEF Safe
<1>5. QED
  BY <1>0, <1>1, <1>2, <1>3, <1>4, Moves

\* The invariant is inductive while verdicts stand and tombstones are honest.
LEMMA FateStep == IInv /\ FateInv /\ [Next]_vars => FateInv'
<1> SUFFICES ASSUME IInv, FateInv, [Next]_vars PROVE FateInv'
  OBVIOUS
<1>0. TypeOK /\ AckInv /\ VerdictsKept /\ LogGrows /\ "created" \in Topics /\ TypeOK'
  BY InvStep, LogStep, TypeStep DEF IInv, FateInv, Topics
<1>1. ASSUME NEW e \in Published' PROVE Safe(e, 0)'
  <2>1. PICK i \in Offsets("created")' : log'["created"][i].ev = e
    BY <1>1 DEF Published
  <2>2. CASE i \in Offsets("created")
    <3>1. log[ "created"][i].ev = e /\ e \in Events
      BY <1>0, <2>1, <2>2, RecordKept, RankType
    <3>2. e \in Published
      BY <2>2, <3>1 DEF Published
    <3>3. QED
      BY <1>0, <3>1, <3>2, SafeKept DEF FateInv
  <2>3. CASE i \notin Offsets("created")
    <3>1. Rank("created", i)' \in Nat \ {0}
      <4>1. log'["created"][i] \in Record
        BY <1>0, <2>1, ElementOfSeq DEF TypeOK, Offsets
      <4>2. QED
        BY <4>1 DEF Record, Rank
    <3>2. i \notin acked'["created"]
      BY <1>0, <2>3, AckStep
    <3>3. Waits(e, 0)'
      BY <2>1, <3>1, <3>2 DEF Waits
    <3>4. QED
      BY <3>3 DEF Safe
  <2>4. QED
    BY <2>2, <2>3
<1>2. QED
  BY <1>0, <1>1, AckStep, FollowedKept DEF FateInv

\* Nothing accepted is lost: an order whose event was published has its verdict
\* or a record that waits, whatever dies, fails or is delivered twice.
THEOREM NoOrderIsLost == Spec => []NoOrphan
<1>1. Init => FateInv
  <2> SUFFICES ASSUME Init PROVE FateInv
    OBVIOUS
  <2>1. \A t \in Topics : acked[t] = {} /\ log[t] = <<>>
    BY DEF Init
  <2>2. \A t \in {"created", "retry"}, w \in Workers : pc[t][w] = "idle"
    BY DEF Init, Topics
  <2>3. Published = {}
    BY <2>1, EmptySeq DEF Published, Offsets, Topics
  <2>4. QED
    BY <2>1, <2>2, <2>3 DEF FateInv, AckInv, Followed
<1>2. FateInv => NoOrphan
  BY DEF FateInv, NoOrphan, Safe, Waits, Unacked
<1>3. QED
  BY <1>1, <1>2, FateStep, Invariant, PTL DEF Spec

-----------------------------------------------------------------------------
\* Who appends what.
LEMMA Sends ==
  ASSUME TypeOK, [Next]_vars
  PROVE  \/ log' = log
         \/ \E e \in Events : Send("created", e, 1)
         \/ \E v \in Workers : At(v, "publishRetry") /\ SendRetry(v)
         \/ \E v \in Workers : At(v, "publishDlq") /\ SendDlq(v)
         \/ \E v \in Workers : pc["retry"][v] # "idle" /\ Replayed(v)
<1> DEFINE Goal == \/ log' = log
                   \/ \E e \in Events : Send("created", e, 1)
                   \/ \E v \in Workers : At(v, "publishRetry") /\ SendRetry(v)
                   \/ \E v \in Workers : At(v, "publishDlq") /\ SendDlq(v)
                   \/ \E v \in Workers : pc["retry"][v] # "idle" /\ Replayed(v)
<1>1. ASSUME NEW w \in Workers, ProcessorStep(w) PROVE Goal
  BY <1>1 DEF ProcessorStep, Claim, AlreadyDone, InProgress, Load, Flush, Persist, Fulfil,
              PublishRetry, PublishDlq, Complete, MarkDone, Release, Recover, HandBack
<1>2. ASSUME NEW w \in Workers, Raise(w) \/ RaiseUnguarded(w) PROVE Goal
  BY <1>2 DEF Raise, RaiseUnguarded, Nothing, Persist, MarkDone, HandBack
<1>3. ASSUME NEW t \in Topics, NEW w \in Workers, RaiseRelay(t, w) PROVE Goal
  <2>1. pc[t][w] = "replay" => t = "retry"
    BY DEF TypeOK, Pcs, Topics
  <2>2. QED
    BY <1>3, <2>1 DEF RaiseRelay
<1>4. ASSUME NEW w \in Workers, Replay(w) \/ Archive(w) \/ Crash(w) PROVE Goal
  BY <1>4 DEF Replay, Archive, Crash
<1>5. ASSUME NEW t \in Topics, NEW w \in Workers,
             Commit(t, w) \/ \E i \in Offsets(t) : Deliver(t, w, i) \/ Redeliver(t, w, i)
      PROVE  Goal
  BY <1>5 DEF Commit, Deliver, Redeliver, Take
<1>6. ASSUME NEW e \in Events, PublishEvent(e) \/ Expire(e) PROVE Goal
  BY <1>6 DEF PublishEvent, Expire
<1>7. CASE UNCHANGED vars
  BY <1>7 DEF vars
<1>8. QED
  BY <1>1, <1>2, <1>3, <1>4, <1>5, <1>6, <1>7 DEF Next, Fault

\* A send appends one record and nothing else.
LEMMA SentOnly ==
  ASSUME TypeOK, NEW t \in Topics, NEW e \in Events, NEW n \in Nat \ {0}, Send(t, e, n),
         NEW u \in Topics, NEW i \in Offsets(u)', i \notin Offsets(u)
  PROVE  u = t /\ log'[u][i] = [ev |-> e, attempt |-> n]
<1> DEFINE r == [ev |-> e, attempt |-> n]
<1>1. r \in Record /\ log[t] \in Seq(Record) /\ Len(log[t]) \in Nat
  BY LenProperties DEF Record, TypeOK
<1>2. log'[t] = Append(log[t], r) /\ \A s \in Topics \ {t} : log'[s] = log[s]
  BY DEF Send, TypeOK
<1>3. Len(log'[t]) = Len(log[t]) + 1 /\ log'[t][Len(log[t]) + 1] = r
  BY <1>1, <1>2, AppendProperties
<1>4. u = t
  BY <1>2 DEF Offsets
<1>5. i = Len(log[t]) + 1
  BY <1>1, <1>3, <1>4 DEF Offsets
<1>6. QED
  BY <1>3, <1>4, <1>5

\* The row of a decided order does not change at all.
LEMMA RowKept ==
  ASSUME IInv, [Next]_vars, NEW e \in Timely, Settled(e)
  PROVE  orders'[e] = orders[e]
<1>1. LogGrows
  BY LogStep DEF IInv
<1>2. CASE Elsewhere
  BY <1>2 DEF Elsewhere
<1>3. ASSUME NEW v \in Workers, StepOf(v) PROVE orders'[e] = orders[e]
  BY <1>3, FlushWrites DEF StepOf, Timely
<1>4. QED
  BY <1>1, <1>2, <1>3, StepKinds

\* So a failed order stays exhausted.
LEMMA ExhaustedKept ==
  ASSUME IInv, [Next]_vars, NEW e \in Timely, Exhausted(e)
  PROVE  Exhausted(e)'
<1>1. Settled(e)
  BY DEF Exhausted, Settled, Terminal, Timely
<1>2. QED
  BY <1>1, RowKept DEF Exhausted

\* A processor that keeps its record keeps the outcome of it.
LEMMA OutcomeKept ==
  ASSUME TypeOK, LogGrows, NEW w \in Workers, pc["created"][w] # "idle",
         hand'["created"][w] = hand["created"][w]
  PROVE  Ev(w)' = Ev(w) /\ Attempt(w)' = Attempt(w) /\ Outcome(w)' = Outcome(w)
<1>1. "created" \in Topics /\ hand["created"][w] \in Offsets("created")
  BY InHand DEF Topics, Offsets
<1>2. log'["created"][hand["created"][w]] = log["created"][hand["created"][w]]
  BY <1>1, RecordKept
<1>3. QED
  BY <1>2 DEF Ev, Attempt, Outcome, CanRetry

\* An order that fails when its outcome is to fail is exhausted.
LEMMA FlushExhausts ==
  ASSUME IInv, AttemptsBounded, NEW w \in Workers, At(w, "flush"), Persist(w),
         hand' = hand, goal[w] = "failed", Outcome(w) = "failed", Ev(w) \notin Slow
  PROVE  Exhausted(Ev(w))'
<1>1. TypeOK /\ WorkerInv(w) /\ "created" \in Topics
  BY DEF IInv, LockInv, Topics
<1>2. Ev(w) \in Known /\ loaded[w] = orders[Ev(w)] /\ Attempt(w) \in Nat
  BY <1>1, EventInHand DEF WorkerInv, Exclusive, Undecided, At
<1>3. /\ orders' = [orders EXCEPT ![Ev(w)] = Update(orders[Ev(w)], loaded[w], Moved(w))]
      /\ log' = log
  BY DEF Persist
<1>4. orders'[Ev(w)] = Update(orders[Ev(w)], loaded[w], Moved(w))
  BY <1>1, <1>2, <1>3 DEF TypeOK
<1>5. orders'[Ev(w)].status = "failed" /\ orders'[Ev(w)].attempts = Attempt(w)
  BY <1>2, <1>4 DEF Update, Column, Moved
<1>6. Attempt(w) <= MaxAttempts
  <2>1. hand["created"][w] \in Offsets("created")
    BY <1>1, InHand DEF Offsets, At
  <2>2. QED
    BY <1>1, <2>1 DEF AttemptsBounded, Attempt
<1>7. Kind[Ev(w)] = "permanent" \/ ~(Attempt(w) < MaxAttempts)
  BY <1>2 DEF Outcome, CanRetry, Known
<1>8. Kind[Ev(w)] = "permanent" \/ Attempt(w) = MaxAttempts
  BY <1>2, <1>6, <1>7, PipelineAssumption
<1>9. Ev(w)' = Ev(w)
  BY <1>3 DEF Ev
<1>10. QED
  BY <1>5, <1>8, <1>9 DEF Exhausted

\* Every processor keeps its purpose.
LEMMA PurposeKept ==
  ASSUME IInv, VerdictInv, [Next]_vars, NEW w \in Workers
  PROVE  Purpose(w)'
<1> SUFFICES ASSUME pc'["created"][w] # "idle" PROVE Purpose(w)'
  BY DEF Purpose
<1>0. /\ TypeOK /\ LogGrows /\ "created" \in Topics /\ Purpose(w) /\ WorkerInv(w) /\ AttemptsBounded
  BY LogStep DEF IInv, LockInv, Topics, VerdictInv
<1>1. CASE Stays("created", w)
  <2>1. /\ pc["created"][w] # "idle" /\ Ev(w)' = Ev(w) /\ Outcome(w)' = Outcome(w)
        /\ goal'[w] = goal[w] /\ pc'["created"][w] = pc["created"][w]
    BY <1>0, <1>1, OutcomeKept DEF Stays
  <2>2. Ev(w) \in Timely /\ Exhausted(Ev(w)) => Exhausted(Ev(w))'
    BY <2>1, ExhaustedKept DEF Exhausted
  <2>3. QED
    BY <1>0, <2>1, <2>2 DEF Purpose, Timely
<1>2. CASE \E i \in Offsets("created") : Take("created", w, i)
  <2>1. PICK i \in Offsets("created") : Take("created", w, i)
    BY <1>2
  <2>2. /\ pc["created"][w] = "idle" /\ goal' = goal /\ goal[w] = "processing"
        /\ hand'["created"][w] = i /\ log' = log
    BY <1>0, <2>1 DEF Take, TypeOK, WorkerInv
  <2>3. pc'["created"][w] = FirstStep("created", i)
    BY <1>0, <2>1, GotoEffect DEF Take
  <2>4. Ev(w)' = log["created"][i].ev
    BY <2>2 DEF Ev
  <2>5. /\ FirstStep("created", i) # "publishRetry"
        /\ FirstStep("created", i) = "publishDlq" => Ev(w)' \notin Known
    BY <2>4 DEF FirstStep, Known
  <2>6. QED
    BY <2>2, <2>3, <2>5 DEF Purpose
<1>3. CASE Proceeds("created", w)
  <2>1. /\ pc["created"][w] # "idle" /\ Advances(w) /\ Ev(w)' = Ev(w) /\ Outcome(w)' = Outcome(w)
    BY <1>0, <1>3, OutcomeKept DEF Proceeds
  <2>2. goal[w] # "processing" => Ev(w) \in Known /\ goal[w] = Outcome(w)
    BY <1>0, <2>1 DEF Purpose
  <2>3. ASSUME NEW p, Goto("created", w, p) PROVE pc'["created"][w] = p
    BY <1>0, <2>3, GotoEffect
  <2>4. ASSUME goal' = goal, pc'["created"][w] # "publishRetry",
               pc'["created"][w] = "publishDlq" => Ev(w) \notin Known
        PROVE  Purpose(w)'
    BY <2>1, <2>2, <2>4 DEF Purpose
  <2>5. CASE Claim(w) \/ AlreadyDone(w) \/ Load(w) \/ PublishRetry(w) \/ PublishDlq(w) \/ Release(w)
             \/ Raise(w)
    <3>1. goal' = goal
      BY <2>5 DEF Claim, AlreadyDone, Load, PublishRetry, PublishDlq, Release, Raise
    <3>2. pc'["created"][w] \in {"load", "commit", "complete", "flush", "release", "recover"}
      BY <2>3, <2>5 DEF Claim, AlreadyDone, Load, PublishRetry, PublishDlq, Release, Raise, Go
    <3>3. QED
      BY <2>4, <3>1, <3>2
  <2>6. CASE Complete(w)
    <3>1. goal' = goal /\ pc'["created"][w] = IF Ev(w) \in Known THEN "commit" ELSE "publishDlq"
      BY <2>3, <2>6 DEF Complete, Go
    <3>2. QED
      BY <2>4, <3>1
  <2>7. CASE Fulfil(w)
    <3>1. goal'[w] = Outcome(w) /\ Ev(w) \in Known
      BY <1>0, <2>7 DEF Fulfil, TypeOK, WorkerInv, Undecided, At
    <3>2. pc'["created"][w] = "load"
      BY <2>3, <2>7 DEF Fulfil, Go
    <3>3. QED
      BY <2>1, <3>1, <3>2 DEF Purpose
  <2>8. CASE Flush(w)
    <3>1. /\ At(w, "flush") /\ Persist(w) /\ goal' = goal /\ hand' = hand
          /\ pc'["created"][w] = NextAfterFlush(w)
      BY <2>3, <2>8 DEF Flush, Go
    <3>2. goal[w] \in {"pending", "processing", "completed", "failed"}
      BY <1>0 DEF TypeOK, Statuses, Terminal
    <3>3. /\ NextAfterFlush(w) = "publishRetry" => goal[w] = "pending"
          /\ NextAfterFlush(w) = "publishDlq" => goal[w] = "failed"
      BY <3>2 DEF NextAfterFlush
    <3>4. goal[w] = "failed" /\ Ev(w) \notin Slow => Exhausted(Ev(w))'
      BY <1>0, <2>2, <3>1, FlushExhausts
    <3>5. QED
      BY <2>1, <2>2, <3>1, <3>3, <3>4 DEF Purpose
  <2>9. QED
    BY <2>1, <2>5, <2>6, <2>7, <2>8 DEF Advances
<1>4. QED
  BY <1>0, <1>1, <1>2, <1>3, Moves

\* The invariant is inductive.
LEMMA VerdictStep == IInv /\ VerdictInv /\ [Next]_vars => VerdictInv'
<1> SUFFICES ASSUME IInv, VerdictInv, [Next]_vars PROVE VerdictInv'
  OBVIOUS
<1>0. /\ TypeOK /\ LogGrows /\ AttemptsBounded /\ DeadLetterIsJustified
      /\ \A w \in Workers : Purpose(w)
      /\ "created" \in Topics /\ "retry" \in Topics /\ "dlq" \in Topics
  BY LogStep DEF IInv, VerdictInv, Topics
<1> DEFINE New(u, i) == u \in Topics /\ i \in Offsets(u)' /\ i \notin Offsets(u)
           Due(e, n) == /\ e \in Known => Kind[e] = "permanent" \/ n = MaxAttempts
                        /\ e \in Timely => Exhausted(e)
<1>1. ASSUME NEW u, NEW i, New(u, i)
      PROVE  /\ log'[u][i].attempt <= MaxAttempts
             /\ u = "dlq" => Due(log'[u][i].ev, log'[u][i].attempt)
  <2>1. CASE log' = log
    BY <1>1, <2>1 DEF Offsets
  <2>2. ASSUME NEW t \in Topics, NEW e \in Events, NEW n \in Nat \ {0}, Send(t, e, n),
               n <= MaxAttempts, t = "dlq" => Due(e, n)
        PROVE  /\ log'[u][i].attempt <= MaxAttempts
               /\ u = "dlq" => Due(log'[u][i].ev, log'[u][i].attempt)
    <3>1. u = t /\ log'[u][i] = [ev |-> e, attempt |-> n]
      BY <1>0, <1>1, <2>2, SentOnly
    <3>2. QED
      BY <2>2, <3>1
  <2>3. CASE \E e \in Events : Send("created", e, 1)
    <3>1. 1 <= MaxAttempts /\ 1 \in Nat \ {0}
      BY PipelineAssumption
    <3>2. QED
      BY <1>0, <2>2, <2>3, <3>1
  <2>4. ASSUME NEW v \in Workers, pc["created"][v] # "idle"
        PROVE  Ev(v) \in Events /\ Attempt(v) \in Nat \ {0} /\ Attempt(v) <= MaxAttempts
    <3>1. hand["created"][v] \in Offsets("created")
      BY <1>0, <2>4, InHand DEF Offsets
    <3>2. QED
      BY <1>0, <2>4, <3>1, EventInHand DEF AttemptsBounded, Attempt
  <2>5. ASSUME NEW v \in Workers, At(v, "publishRetry"), SendRetry(v)
        PROVE  Attempt(v) + 1 <= MaxAttempts /\ Attempt(v) + 1 \in Nat \ {0} /\ Ev(v) \in Events
    <3>1. pc["created"][v] # "idle" /\ goal[v] = "pending" /\ goal[v] = Outcome(v)
      BY <1>0, <2>5 DEF Purpose, At
    <3>2. Attempt(v) < MaxAttempts
      BY <3>1 DEF Outcome, CanRetry
    <3>3. QED
      BY <2>4, <3>1, <3>2, PipelineAssumption
  <2>6. ASSUME NEW v \in Workers, At(v, "publishDlq"), SendDlq(v)
        PROVE  /\ Attempt(v) <= MaxAttempts /\ Attempt(v) \in Nat \ {0} /\ Ev(v) \in Events
               /\ Due(Ev(v), Attempt(v))
    <3>1. /\ pc["created"][v] = "publishDlq" /\ Ev(v) \in Events
          /\ Attempt(v) <= MaxAttempts /\ Attempt(v) \in Nat \ {0}
      BY <2>4, <2>6 DEF At
    <3>2. Ev(v) \in Known => Outcome(v) = "failed" /\ (Ev(v) \notin Slow => Exhausted(Ev(v)))
      BY <1>0, <3>1 DEF Purpose
    <3>3. Ev(v) \in Known => Kind[Ev(v)] = "permanent" \/ ~(Attempt(v) < MaxAttempts)
      BY <3>2 DEF Outcome, CanRetry, Known
    <3>4. QED
      BY <3>1, <3>2, <3>3, PipelineAssumption DEF Timely
  <2>7. ASSUME NEW v \in Workers, pc["retry"][v] # "idle", Replayed(v)
        PROVE  \E e \in Events, n \in Nat \ {0} : n <= MaxAttempts /\ Send("created", e, n)
    <3> DEFINE r == log["retry"][hand["retry"][v]]
    <3>1. hand["retry"][v] \in Offsets("retry") /\ r \in Record
      BY <1>0, <2>7, InHand DEF Offsets
    <3>2. r.ev \in Events /\ r.attempt \in Nat \ {0} /\ r.attempt <= MaxAttempts
      BY <1>0, <3>1 DEF Record, AttemptsBounded
    <3>3. Send("created", r.ev, r.attempt)
      BY <2>7 DEF Replayed
    <3>4. QED
      BY <3>2, <3>3
  <2>8. CASE \E v \in Workers : At(v, "publishRetry") /\ SendRetry(v)
    BY <1>0, <2>2, <2>5, <2>8 DEF SendRetry
  <2>9. CASE \E v \in Workers : At(v, "publishDlq") /\ SendDlq(v)
    BY <1>0, <2>2, <2>6, <2>9 DEF SendDlq
  <2>10. CASE \E v \in Workers : pc["retry"][v] # "idle" /\ Replayed(v)
    BY <1>0, <2>2, <2>7, <2>10
  <2>11. QED
    BY <1>0, <2>1, <2>3, <2>8, <2>9, <2>10, Sends
<1>2. AttemptsBounded'
  <2> SUFFICES ASSUME NEW t \in Topics, NEW i \in Offsets(t)'
               PROVE  log'[t][i].attempt <= MaxAttempts
    BY DEF AttemptsBounded
  <2>1. CASE i \in Offsets(t)
    BY <1>0, <2>1, RecordKept DEF AttemptsBounded
  <2>2. CASE i \notin Offsets(t)
    BY <1>1, <2>2
  <2>3. QED
    BY <2>1, <2>2
<1>3. DeadLetterIsJustified'
  <2> DEFINE r(i) == log["dlq"][i]
  <2>1. ASSUME NEW i \in Offsets("dlq")' PROVE Due(r(i)'.ev, r(i)'.attempt)
    <3>1. CASE i \in Offsets("dlq")
      BY <1>0, <3>1, RecordKept DEF DeadLetterIsJustified, Exhausted, Timely
    <3>2. CASE i \notin Offsets("dlq")
      BY <1>0, <1>1, <3>2
    <3>3. QED
      BY <3>1, <3>2
  <2>2. ASSUME NEW e \in Timely, Exhausted(e)
        PROVE  /\ orders'[e].status = "failed"
               /\ Kind[e] = "permanent" \/ orders'[e].attempts = MaxAttempts
    BY <2>2, ExhaustedKept DEF Exhausted
  <2>3. QED
    BY <2>1, <2>2 DEF DeadLetterIsJustified
<1>4. QED
  BY <1>2, <1>3, PurposeKept DEF VerdictInv

\* The invariant holds in every reachable state.
LEMMA VerdictsHold == Spec => []VerdictInv
<1>1. Init => VerdictInv
  <2> SUFFICES ASSUME Init PROVE VerdictInv
    OBVIOUS
  <2>1. \A t \in Topics : Offsets(t) = {}
    BY EmptySeq DEF Init, Offsets
  <2>2. \A w \in Workers : pc["created"][w] = "idle"
    BY DEF Init, Topics
  <2>3. QED
    BY <2>1, <2>2 DEF VerdictInv, AttemptsBounded, DeadLetterIsJustified, Purpose, Topics
<1>2. QED
  BY <1>1, VerdictStep, Invariant, PTL DEF Spec

\* A dead letter of an order that may be retried carries its last attempt; an
\* order that is not slow durably failed before its dead letter was published.
THEOREM DeadLettersAreJustified == Spec => []DeadLetterIsJustified
<1>1. VerdictInv => DeadLetterIsJustified
  BY DEF VerdictInv
<1>2. QED
  BY <1>1, VerdictsHold, PTL

\* No record on any topic carries an attempt above max_attempts.
THEOREM NoAttemptTooMany == Spec => []AttemptsBounded
<1>1. VerdictInv => AttemptsBounded
  BY DEF VerdictInv
<1>2. QED
  BY <1>1, VerdictsHold, PTL

-----------------------------------------------------------------------------
(* The life of an order.                                                   *)

\* The table is written at a flush, which the processor then leaves.
LEMMA Writes ==
  ASSUME TypeOK, [Next]_vars, orders' # orders
  PROVE  \E v \in Workers : At(v, "flush") /\ Persist(v) /\ pc'["created"][v] # "flush"
<1>0. "created" \in Topics
  BY DEF Topics
<1>1. PICK v \in Workers : Flush(v) \/ (Raise(v) /\ At(v, "flush") /\ Persist(v))
  <2>1. ASSUME NEW w \in Workers, ProcessorStep(w), ~Flush(w) PROVE FALSE
    BY <2>1 DEF ProcessorStep, Claim, AlreadyDone, InProgress, Load, Fulfil, PublishRetry, SendRetry,
                PublishDlq, SendDlq, Complete, MarkDone, Release, Recover, HandBack
  <2>2. ASSUME NEW w \in Workers, Fault(w) PROVE Raise(w) /\ At(w, "flush") /\ Persist(w)
    BY <2>2 DEF Fault, Redeliver, Take, Raise, Nothing, SendRetry, SendDlq, MarkDone, HandBack,
                RaiseUnguarded, RaiseRelay, Crash
  <2>3. ASSUME NEW w \in Workers, Replay(w) \/ Archive(w) PROVE FALSE
    BY <2>3 DEF Replay, Archive
  <2>4. ASSUME NEW e \in Events, PublishEvent(e) \/ Expire(e) PROVE FALSE
    BY <2>4 DEF PublishEvent, Expire
  <2>5. ASSUME NEW t \in Topics, NEW w \in Workers,
               Commit(t, w) \/ \E i \in Offsets(t) : Deliver(t, w, i)
        PROVE  FALSE
    BY <2>5 DEF Commit, Deliver, Take
  <2>6. ~UNCHANGED vars
    BY DEF vars
  <2>7. QED
    BY <2>1, <2>2, <2>3, <2>4, <2>5, <2>6 DEF Next
<1>2. At(v, "flush") /\ Persist(v)
  BY <1>1 DEF Flush
<1>3. CASE Flush(v)
  <2>1. goal[v] \in {"pending", "processing", "completed", "failed"}
    BY DEF TypeOK, Statuses, Terminal
  <2>2. NextAfterFlush(v) # "flush"
    BY <2>1 DEF NextAfterFlush
  <2>3. QED
    BY <1>0, <1>2, <1>3, <2>2, GotoEffect DEF Flush, Go
<1>4. CASE Raise(v)
  BY <1>0, <1>2, <1>4, GotoEffect DEF Raise
<1>5. QED
  BY <1>1, <1>3, <1>4

\* A flush under the lock leaves exactly the row it was asked for.
LEMMA FlushRow ==
  ASSUME IInv, NEW v \in Workers, At(v, "flush"), Persist(v), Ev(v) \notin Slow
  PROVE  orders'[Ev(v)] = Moved(v)
<1>1. TypeOK /\ WorkerInv(v)
  BY DEF IInv, LockInv
<1>2. Ev(v) \in Known /\ loaded[v] = orders[Ev(v)]
  BY <1>1 DEF WorkerInv, Exclusive, Undecided, At
<1>3. orders'[Ev(v)] = Update(orders[Ev(v)], orders[Ev(v)], Moved(v))
  BY <1>1, <1>2 DEF Persist, TypeOK
<1>4. QED
  BY <1>3 DEF Update, Column, Moved

\* An attempt that is under way stays so while others work.
LEMMA RowHeld ==
  ASSUME IInv, [Next]_vars, NEW w \in Workers, Underway(w), Ev(w) \in Timely,
         pc'["created"][w] = pc["created"][w]
  PROVE  orders'[Ev(w)] = orders[Ev(w)]
<1> SUFFICES ASSUME orders' # orders PROVE orders'[Ev(w)] = orders[Ev(w)]
  OBVIOUS
<1>0. TypeOK /\ WorkerInv(w) /\ Ev(w) \in Known /\ Ev(w) \notin Slow
  BY DEF IInv, LockInv, Timely
<1>1. PICK v \in Workers : At(v, "flush") /\ Persist(v) /\ pc'["created"][v] # "flush"
  BY <1>0, Writes
<1>2. v # w
  BY <1>1 DEF At
<1>3. guard[Ev(w)] = w
  BY <1>0 DEF WorkerInv, Exclusive, HoldsLock, Underway
<1>4. Ev(v) \notin Slow => guard[Ev(v)] = v
  BY <1>1 DEF IInv, LockInv, WorkerInv, Exclusive, HoldsLock, At
<1>5. Ev(v) # Ev(w)
  BY <1>0, <1>2, <1>3, <1>4
<1>6. QED
  BY <1>0, <1>1, <1>5, FlushWrites

\* Every processor keeps its stage.
LEMMA StageKept ==
  ASSUME IInv, StageInv, [Next]_vars, NEW w \in Workers
  PROVE  Stage(w)'
<1> SUFFICES ASSUME Underway(w)', Ev(w)' \in Timely
             PROVE  orders'[Ev(w)'].status = "processing" /\ orders'[Ev(w)'].attempts = Attempt(w)'
  BY DEF Stage
<1>0. /\ TypeOK /\ LogGrows /\ "created" \in Topics /\ Stage(w) /\ WorkerInv(w)
      /\ pc'["created"][w] \in {"fulfil", "load", "flush"}
  BY LogStep DEF IInv, LockInv, Topics, StageInv, Underway
<1>1. CASE Stays("created", w)
  <2>1. pc["created"][w] # "idle" /\ pc'["created"][w] = pc["created"][w] /\ Underway(w)
        /\ hand'["created"][w] = hand["created"][w]
    BY <1>0, <1>1 DEF Stays, Underway
  <2>2. Ev(w)' = Ev(w) /\ Attempt(w)' = Attempt(w)
    BY <1>0, <2>1, OutcomeKept
  <2>3. orders'[Ev(w)] = orders[Ev(w)]
    BY <2>1, <2>2, RowHeld
  <2>4. QED
    BY <1>0, <2>1, <2>2, <2>3 DEF Stage
<1>2. CASE \E i \in Offsets("created") : Take("created", w, i)
  <2>1. PICK i \in Offsets("created") : Take("created", w, i)
    BY <1>2
  <2>2. FirstStep("created", i) \in {"publishDlq", "claim"}
    BY DEF FirstStep
  <2>3. QED
    BY <1>0, <2>1, <2>2, GotoEffect DEF Take
<1>3. CASE Proceeds("created", w)
  <2>1. /\ pc["created"][w] # "idle" /\ Advances(w)
        /\ Ev(w)' = Ev(w) /\ Attempt(w)' = Attempt(w)
    BY <1>0, <1>3, OutcomeKept DEF Proceeds
  <2>2. ASSUME NEW p, Goto("created", w, p) PROVE pc'["created"][w] = p
    BY <1>0, <2>2, GotoEffect
  <2>3. CASE Claim(w)
    BY <1>0, <2>2, <2>3 DEF Claim, Go, At, WorkerInv, Underway
  <2>4. CASE Load(w) \/ Fulfil(w)
    <3>1. orders' = orders /\ Underway(w)
      BY <1>0, <2>2, <2>4 DEF Load, Fulfil, Go, At, Underway
    <3>2. QED
      BY <1>0, <2>1, <3>1 DEF Stage
  <2>5. CASE Flush(w)
    <3>1. /\ At(w, "flush") /\ Persist(w) /\ pc'["created"][w] = NextAfterFlush(w)
          /\ goal[w] \in {"pending", "processing", "completed", "failed"}
      BY <1>0, <2>2, <2>5 DEF Flush, Go, TypeOK, Statuses, Terminal
    <3>2. goal[w] = "processing"
      BY <1>0, <3>1 DEF NextAfterFlush
    <3>3. orders'[Ev(w)] = Moved(w)
      BY <2>1, <3>1, FlushRow DEF Timely
    <3>4. QED
      BY <2>1, <3>2, <3>3 DEF Moved
  <2>6. CASE AlreadyDone(w) \/ PublishRetry(w) \/ PublishDlq(w) \/ Complete(w) \/ Release(w) \/ Raise(w)
    BY <1>0, <2>2, <2>6 DEF AlreadyDone, PublishRetry, PublishDlq, Complete, Release, Raise, Go
  <2>7. QED
    BY <2>1, <2>3, <2>4, <2>5, <2>6 DEF Advances
<1>4. QED
  BY <1>0, <1>1, <1>2, <1>3, Moves

\* The events with a record on topic t.
On(t) == {log[t][i].ev : i \in Offsets(t)}

\* A send puts one event on one topic.
LEMMA SendOn ==
  ASSUME TypeOK, NEW t \in Topics, NEW e \in Events, NEW n \in Nat \ {0}, Send(t, e, n)
  PROVE  \A u \in Topics : On(u)' = IF u = t THEN On(u) \cup {e} ELSE On(u)
<1> SUFFICES ASSUME NEW u \in Topics PROVE On(u)' = IF u = t THEN On(u) \cup {e} ELSE On(u)
  OBVIOUS
<1>1. LogGrows
  BY SendStep DEF TypeOK, LogType
<1>2. \A i \in Offsets(u) : i \in Offsets(u)' /\ log'[u][i] = log[u][i]
  BY <1>1, RecordKept
<1>3. \A i \in Offsets(u)' : i \notin Offsets(u) => u = t /\ log'[u][i].ev = e
  <2>1. ASSUME NEW i \in Offsets(u)', i \notin Offsets(u)
        PROVE  u = t /\ log'[u][i] = [ev |-> e, attempt |-> n]
    BY <2>1, SentOnly
  <2>2. QED
    BY <2>1
<1>4. u = t => \E i \in Offsets(u)' : log'[u][i].ev = e
  <2>1. \E i \in Offsets(t)' \ Offsets(t) : log'[t][i] = [ev |-> e, attempt |-> n]
    BY SentRecord
  <2>2. QED
    BY <2>1
<1>5. QED
  BY <1>2, <1>3, <1>4 DEF On

\* A send announces an order, or dead-letters a failed one, or is no step of its
\* life.
LEMMA LifeOfSend ==
  ASSUME TypeOK, NEW t \in Topics, NEW e \in Events, NEW n \in Nat \ {0}, Send(t, e, n),
         orders' = orders, t = "dlq" /\ e \in Timely => orders[e].status = "failed"
  PROVE  [Life!Next]_(Life!vars)
<1>1. /\ On("created")' = IF t = "created" THEN On("created") \cup {e} ELSE On("created")
      /\ On("dlq")' = IF t = "dlq" THEN On("dlq") \cup {e} ELSE On("dlq")
  BY SendOn DEF Topics
<1>2. CASE e \in Timely /\ t = "created"
  <2>1. Life!Announce(e)
    BY <1>1, <1>2 DEF Life!Announce, On, Published
  <2>2. QED
    BY <1>2, <2>1 DEF Life!Next
<1>3. CASE e \in Timely /\ t = "dlq"
  <2>1. Life!DeadLetter(e)
    BY <1>1, <1>3 DEF Life!DeadLetter, On, Published
  <2>2. QED
    BY <1>3, <2>1 DEF Life!Next
<1>4. CASE e \notin Timely \/ t \notin {"created", "dlq"}
  BY <1>1, <1>4 DEF Life!vars, On, Published
<1>5. QED
  BY <1>2, <1>3, <1>4

\* A flush moves an order as its goal says, and a slow one is no order here.
LEMMA LifeOfFlush ==
  ASSUME IInv, VerdictInv, StageInv, NEW v \in Workers, At(v, "flush"), Persist(v)
  PROVE  [Life!Next]_(Life!vars)
<1>0. /\ TypeOK /\ WorkerInv(v) /\ Purpose(v) /\ Stage(v)
      /\ pc["created"][v] = "flush" /\ log' = log /\ Ev(v) \in Known
  BY FlushWrites DEF IInv, LockInv, VerdictInv, StageInv, At, Persist
<1>1. PICK o \in Known, n \in Nat, g \in Statuses : o = Ev(v) /\ n = Attempt(v) /\ g = goal[v]
  BY <1>0, EventInHand DEF TypeOK
<1>2. /\ UNCHANGED <<Published \cap Timely, {log["dlq"][i].ev : i \in Offsets("dlq")} \cap Timely>>
      /\ \A e \in Timely \ {o} : orders'[e] = orders[e]
  BY <1>0, <1>1, FlushWrites DEF Published, Offsets, Timely
<1>3. CASE o \in Slow
  BY <1>2, <1>3 DEF Life!vars, Timely
<1>4. CASE o \notin Slow
  <2>1. o \in Timely /\ orders'[o].status = g /\ orders'[o].attempts = n
    <3>1. orders'[o] = Moved(v)
      BY <1>1, <1>4, FlushRow
    <3>2. Moved(v).status = g /\ Moved(v).attempts = n
      BY <1>1 DEF Moved
    <3>3. QED
      BY <1>4, <3>1, <3>2 DEF Timely
  <2>2. Life!Move(o, g)
    <3>1. [e \in Timely |-> orders[e].status]'
            = [[e \in Timely |-> orders[e].status] EXCEPT ![o] = g]
      BY <1>2, <2>1
    <3>2. QED
      BY <1>2, <3>1 DEF Life!Move
  <2>3. g # "processing" => /\ g = Outcome(v)
                            /\ orders[o].status = "processing" /\ orders[o].attempts = n
    BY <1>0, <1>1, <2>1 DEF Purpose, Stage, Underway
  <2>4. g # "processing" => UNCHANGED [e \in Timely |-> orders[e].attempts]
    BY <1>2, <2>1, <2>3
  <2>5. o \in Published /\ n \in 1..MaxAttempts
    <3>1. hand["created"][v] \in Offsets("created") /\ n \in Nat \ {0}
      BY <1>0, <1>1, InHand, EventInHand DEF Topics, Offsets
    <3>2. n <= MaxAttempts
      BY <1>1, <3>1 DEF VerdictInv, AttemptsBounded, Attempt, Topics
    <3>3. QED
      BY <1>1, <3>1, <3>2, PipelineAssumption DEF Published, Ev
  <2>6. CASE g = "processing"
    <3>1. orders[o].status \in {"pending", "processing"}
      <4>1. orders[o].status \notin Terminal /\ orders[o] \in Row
        BY <1>0, <1>1, <1>4 DEF WorkerInv, Exclusive, Undecided, TypeOK
      <4>2. QED
        BY <4>1 DEF Row, Statuses
    <3>2. [e \in Timely |-> orders[e].attempts]'
            = [[e \in Timely |-> orders[e].attempts] EXCEPT ![o] = n]
      BY <1>2, <2>1
    <3>3. Life!TakeUp(o, n)
      BY <2>1, <2>2, <2>5, <2>6, <3>1, <3>2 DEF Life!TakeUp
    <3>4. QED
      BY <2>1, <2>5, <3>3 DEF Life!Next
  <2>7. CASE g = "completed"
    <3>1. Kind[o] = "ok"
      BY <1>1, <2>3, <2>7 DEF Outcome
    <3>2. Life!Complete(o)
      BY <2>1, <2>2, <2>3, <2>4, <2>7, <3>1 DEF Life!Complete
    <3>3. QED
      BY <2>1, <3>2 DEF Life!Next
  <2>8. CASE g = "pending"
    <3>1. Kind[o] = "transient" /\ n < MaxAttempts
      BY <1>1, <2>3, <2>8 DEF Outcome, CanRetry
    <3>2. Life!Postpone(o)
      BY <2>1, <2>2, <2>3, <2>4, <2>8, <3>1 DEF Life!Postpone
    <3>3. QED
      BY <2>1, <3>2 DEF Life!Next
  <2>9. CASE g = "failed"
    <3>1. Kind[o] # "ok" /\ (Kind[o] = "permanent" \/ ~(n < MaxAttempts))
      BY <1>1, <2>3, <2>9 DEF Outcome, CanRetry, Known
    <3>2. Kind[o] = "permanent" \/ n = MaxAttempts
      BY <2>5, <3>1, PipelineAssumption
    <3>3. Life!Fail(o)
      BY <2>1, <2>2, <2>3, <2>4, <2>9, <3>1, <3>2 DEF Life!Fail
    <3>4. QED
      BY <2>1, <3>3 DEF Life!Next
  <2>10. QED
    BY <2>6, <2>7, <2>8, <2>9 DEF Statuses, Terminal
<1>5. QED
  BY <1>3, <1>4

\* Every step of the pipeline is a step of an order's life, or none.
LEMMA LifeStep == IInv /\ VerdictInv /\ StageInv /\ [Next]_vars => [Life!Next]_(Life!vars)
<1> SUFFICES ASSUME IInv, VerdictInv, StageInv, [Next]_vars PROVE [Life!Next]_(Life!vars)
  OBVIOUS
<1>0. /\ TypeOK /\ "created" \in Topics /\ "retry" \in Topics /\ "dlq" \in Topics
      /\ \A w \in Workers : Purpose(w)
  BY DEF IInv, VerdictInv, Topics
<1>1. CASE orders' # orders
  BY <1>0, <1>1, Writes, LifeOfFlush
<1>2. CASE orders' = orders /\ log' = log
  BY <1>2 DEF Life!vars, Published, Offsets
<1>3. CASE orders' = orders /\ log' # log
  <2>1. CASE \E e \in Events : Send("created", e, 1)
    BY <1>0, <1>3, <2>1, LifeOfSend
  <2>2. ASSUME NEW v \in Workers, At(v, "publishRetry"), SendRetry(v) PROVE [Life!Next]_(Life!vars)
    <3>1. Ev(v) \in Events /\ Attempt(v) + 1 \in Nat \ {0}
      BY <1>0, <2>2, EventInHand DEF At
    <3>2. QED
      BY <1>0, <1>3, <2>2, <3>1, LifeOfSend DEF SendRetry
  <2>3. ASSUME NEW v \in Workers, At(v, "publishDlq"), SendDlq(v) PROVE [Life!Next]_(Life!vars)
    <3>1. Ev(v) \in Events /\ Attempt(v) \in Nat \ {0}
      BY <1>0, <2>3, EventInHand DEF At
    <3>2. Ev(v) \in Timely => orders[Ev(v)].status = "failed"
      BY <1>0, <2>3 DEF Purpose, Exhausted, At, Timely
    <3>3. QED
      BY <1>0, <1>3, <2>3, <3>1, <3>2, LifeOfSend DEF SendDlq
  <2>4. ASSUME NEW v \in Workers, pc["retry"][v] # "idle", Replayed(v) PROVE [Life!Next]_(Life!vars)
    <3> DEFINE r == log["retry"][hand["retry"][v]]
    <3>1. r.ev \in Events /\ r.attempt \in Nat \ {0}
      BY <1>0, <2>4, InHand DEF Record
    <3>2. QED
      BY <1>0, <1>3, <2>4, <3>1, LifeOfSend DEF Replayed
  <2>5. QED
    BY <1>0, <1>3, <2>1, <2>2, <2>3, <2>4, Sends
<1>4. QED
  BY <1>1, <1>2, <1>3

\* The three consumers, with their locks, transactions, retries, redeliveries
\* and crashes, implement the documented state machine of an order.
THEOREM PipelineImplementsOrderLife == Spec => ImplementsOrderLife
<1>1. Init => Life!Init
  <2> SUFFICES ASSUME Init PROVE Life!Init
    OBVIOUS
  <2>1. Offsets("created") = {} /\ Offsets("dlq") = {}
    BY EmptySeq DEF Init, Offsets, Topics
  <2>2. \A e \in Timely : orders[e] = NewRow
    BY DEF Init, Timely
  <2>3. QED
    BY <2>1, <2>2 DEF Life!Init, Published, NewRow
<1>2. Init => StageInv
  BY DEF Init, StageInv, Stage, Underway, Topics
<1>3. IInv /\ StageInv /\ [Next]_vars => StageInv'
  BY StageKept DEF StageInv
<1>4. QED
  BY <1>1, <1>2, <1>3, LifeStep, Invariant, VerdictsHold, PTL DEF Spec, ImplementsOrderLife, Life!Spec

=============================================================================
