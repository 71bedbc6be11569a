------------------------ MODULE OrderPipeline_proofs ------------------------
(***************************************************************************)
(* The guard makes the row of an order whose processing does not outlast   *)
(* the lock TTL the work of one worker at a time: no stale flush, final    *)
(* verdicts, honest tombstones, whatever the locks of slower orders do.    *)
(* For any number of workers, events, attempts and faults.                 *)
(***************************************************************************)
EXTENDS OrderPipeline, SequenceTheorems, TLAPS

\* The conjuncts of TypeOK, by what changes them.
LogType == log \in [Topics -> Seq(Record)]

FlowType ==
  /\ pc \in [Topics -> [Workers -> Pc]]
  /\ hand \in [Topics -> [Workers -> Nat]]
  /\ \A t \in Topics, w \in Workers :
       /\ pc[t][w] \in Pcs[t]
       /\ hand[t][w] \in 0..Len(log[t])
       /\ (hand[t][w] = 0) <=> (pc[t][w] = "idle")

DataType ==
  /\ acked \in [Topics -> SUBSET (Nat \ {0})]
  /\ orders \in [Known -> Row]
  /\ guard \in [Events -> GuardValue(Workers)]
  /\ archive \subseteq Nat
  /\ loaded \in [Workers -> Row]
  /\ goal \in [Workers -> Statuses]
  /\ faults \in Nat

\* Records are only ever appended.
LogGrows ==
  \A t \in Topics : /\ Len(log[t]) \in Nat /\ Len(log'[t]) \in Nat /\ Len(log[t]) <= Len(log'[t])
                    /\ \A i \in 1..Len(log[t]) : log'[t][i] = log[t][i]

-----------------------------------------------------------------------------
\* TypeOK is the conjunction of its three parts.
LEMMA TypeParts == TypeOK <=> LogType /\ FlowType /\ DataType
  BY DEF TypeOK, LogType, FlowType, DataType

\* A consumer that is not idle has a record of its topic in hand.
LEMMA InHand ==
  ASSUME TypeOK, NEW t \in Topics, NEW w \in Workers, pc[t][w] # "idle"
  PROVE  hand[t][w] \in 1..Len(log[t]) /\ log[t][hand[t][w]] \in Record
<1>1. hand[t][w] \in 1..Len(log[t]) /\ log[t] \in Seq(Record)
  BY DEF TypeOK
<1>2. QED
  BY <1>1, ElementOfSeq

\* The event and the attempt the processor works on.
LEMMA EventInHand ==
  ASSUME TypeOK, NEW w \in Workers, pc["created"][w] # "idle"
  PROVE  Ev(w) \in Events /\ Attempt(w) \in Nat \ {0}
  BY InHand DEF Ev, Attempt, Record, Topics

\* What a send does to the log.
LEMMA SendStep ==
  ASSUME LogType, NEW t \in Topics, NEW e \in Events, NEW n \in Nat \ {0}, Send(t, e, n)
  PROVE  LogType' /\ LogGrows
<1> DEFINE r == [ev |-> e, attempt |-> n]
<1>1. r \in Record
  BY DEF Record
<1>2. log' = [log EXCEPT ![t] = Append(log[t], r)]
  BY DEF Send
<1>3. \A u \in Topics : log[u] \in Seq(Record) /\ Len(log[u]) \in Nat
  BY LenProperties DEF LogType
<1>4. /\ Append(log[t], r) \in Seq(Record)
      /\ Len(Append(log[t], r)) = Len(log[t]) + 1
      /\ \A i \in 1..Len(log[t]) : Append(log[t], r)[i] = log[t][i]
  BY <1>1, <1>3, AppendProperties
<1>5. log'[t] = Append(log[t], r) /\ \A u \in Topics \ {t} : log'[u] = log[u]
  BY <1>2 DEF LogType
<1>6. LogType'
  BY <1>2, <1>4 DEF LogType
<1>7. LogGrows
  <2>1. ASSUME NEW u \in Topics
        PROVE  /\ Len(log[u]) \in Nat /\ Len(log'[u]) \in Nat /\ Len(log[u]) <= Len(log'[u])
               /\ \A i \in 1..Len(log[u]) : log'[u][i] = log[u][i]
    <3>1. CASE u = t
      <4>1. Len(log'[t]) = Len(log[t]) + 1 /\ \A i \in 1..Len(log[t]) : log'[t][i] = log[t][i]
        BY <1>4, <1>5
      <4>2. QED
        BY <1>3, <3>1, <4>1
    <3>2. CASE u # t
      BY <1>3, <1>5, <3>2
    <3>3. QED
      BY <3>1, <3>2
  <2>2. QED
    BY <2>1 DEF LogGrows
<1>8. QED
  BY <1>6, <1>7

\* Nothing sent, nothing changed.
LEMMA NoSend == ASSUME LogType, UNCHANGED log PROVE LogType' /\ LogGrows
<1>1. \A u \in Topics : Len(log[u]) \in Nat
  BY LenProperties DEF LogType
<1>2. QED
  BY <1>1 DEF LogType, LogGrows

\* Every step either appends one record or leaves the log alone.
LEMMA LogStep == ASSUME TypeOK, [Next]_vars PROVE LogType' /\ LogGrows
<1>0. LogType /\ "created" \in Topics /\ "retry" \in Topics /\ "dlq" \in Topics
  BY DEF TypeOK, LogType, Topics
<1>1. ASSUME NEW e \in Events, PublishEvent(e) PROVE LogType' /\ LogGrows
  BY <1>0, <1>1, SendStep DEF PublishEvent
<1>2. ASSUME NEW w \in Workers, pc["created"][w] # "idle", SendRetry(w) \/ SendDlq(w)
      PROVE  LogType' /\ LogGrows
  <2>1. Ev(w) \in Events /\ Attempt(w) \in Nat \ {0} /\ Attempt(w) + 1 \in Nat \ {0}
    BY <1>2, EventInHand
  <2>2. QED
    BY <1>0, <1>2, <2>1, SendStep DEF SendRetry, SendDlq
<1>3. ASSUME NEW w \in Workers, pc["retry"][w] # "idle", Replayed(w) PROVE LogType' /\ LogGrows
  <2>1. log["retry"][hand["retry"][w]] \in Record
    BY <1>0, <1>3, InHand
  <2>2. /\ log["retry"][hand["retry"][w]].ev \in Events
        /\ log["retry"][hand["retry"][w]].attempt \in Nat \ {0}
    BY <2>1 DEF Record
  <2>3. QED
    BY <1>0, <1>3, <2>2, SendStep DEF Replayed
<1>4. ASSUME NEW w \in Workers, Raise(w) PROVE LogType' /\ LogGrows
  BY <1>0, <1>2, <1>4, NoSend DEF Raise, At, Nothing, Persist, MarkDone, HandBack
<1>5. ASSUME NEW w \in Workers, RaiseUnguarded(w) PROVE LogType' /\ LogGrows
  BY <1>0, <1>2, <1>5, NoSend DEF RaiseUnguarded, At, Nothing
<1>6. ASSUME NEW t \in Topics, NEW w \in Workers, RaiseRelay(t, w) PROVE LogType' /\ LogGrows
  <2>1. pc[t][w] = "replay" => t = "retry"
    BY DEF TypeOK, Pcs, Topics
  <2>2. QED
    BY <1>0, <1>3, <1>6, <2>1, NoSend DEF RaiseRelay
<1>7. ASSUME NEW w \in Workers, PublishRetry(w) \/ PublishDlq(w) \/ Replay(w)
      PROVE  LogType' /\ LogGrows
  BY <1>2, <1>3, <1>7 DEF PublishRetry, PublishDlq, Replay, At
<1>8. ASSUME NEW t \in Topics, NEW w \in Workers,
             Commit(t, w) \/ \E i \in Offsets(t) : Deliver(t, w, i) \/ Redeliver(t, w, i)
      PROVE  LogType' /\ LogGrows
  BY <1>0, <1>8, NoSend DEF Commit, Deliver, Redeliver, Take
<1>9. ASSUME NEW w \in Workers,
             \/ Claim(w) \/ AlreadyDone(w) \/ InProgress(w) \/ Load(w) \/ Flush(w) \/ Fulfil(w)
             \/ Complete(w) \/ Release(w) \/ Recover(w) \/ Archive(w) \/ Crash(w)
      PROVE  LogType' /\ LogGrows
  BY <1>0, <1>9, NoSend
  DEF Claim, AlreadyDone, InProgress, Load, Flush, Persist, Fulfil, Complete, MarkDone,
      Release, HandBack, Recover, Archive, Crash
<1>10. ASSUME NEW e \in Events, Expire(e) PROVE LogType' /\ LogGrows
  BY <1>0, <1>10, NoSend DEF Expire
<1>11. CASE UNCHANGED vars
  BY <1>0, <1>11, NoSend DEF vars
<1>12. QED
  BY <1>1, <1>4, <1>5, <1>6, <1>7, <1>8, <1>9, <1>10, <1>11 DEF Next, ProcessorStep, Fault

-----------------------------------------------------------------------------
\* Pc has the places of every topic's consumer.
LEMMA PcOfTopic == \A t \in Topics : Pcs[t] \subseteq Pc /\ "idle" \in Pcs[t]
  BY DEF Topics, Pcs, Pc

\* A consumer moves on with its record: the flow stays well-typed.
LEMMA GoFlow ==
  ASSUME TypeOK, LogGrows, NEW t \in Topics, NEW w \in Workers, NEW p \in Pcs[t],
         p # "idle", pc[t][w] # "idle", Goto(t, w, p), UNCHANGED hand
  PROVE  FlowType'
<1>0. pc \in [Topics -> [Workers -> Pc]] /\ p \in Pc /\ hand' \in [Topics -> [Workers -> Nat]]
  BY PcOfTopic DEF TypeOK
<1>1. pc' = [pc EXCEPT ![t][w] = p]
  BY DEF Goto
<1>2. pc' \in [Topics -> [Workers -> Pc]]
  BY <1>0, <1>1
<1>3. \A u \in Topics, v \in Workers : pc'[u][v] = IF u = t /\ v = w THEN p ELSE pc[u][v]
  BY <1>0, <1>1
<1>4. \A u \in Topics, v \in Workers : hand'[u][v] \in 0..Len(log'[u])
  BY DEF TypeOK, LogGrows
<1>5. \A u \in Topics, v \in Workers :
        /\ pc'[u][v] \in Pcs[u]
        /\ (hand'[u][v] = 0) <=> (pc'[u][v] = "idle")
  BY <1>3 DEF TypeOK
<1>6. QED
  BY <1>0, <1>2, <1>4, <1>5 DEF FlowType

\* A consumer takes a record, or puts it down: both change at once.
LEMMA TakeFlow ==
  ASSUME TypeOK, LogGrows, NEW t \in Topics, NEW w \in Workers, NEW p \in Pcs[t],
         NEW i \in 0..Len(log[t]), i = 0 <=> p = "idle",
         Goto(t, w, p), hand' = [hand EXCEPT ![t][w] = i]
  PROVE  FlowType'
<1>0. /\ pc \in [Topics -> [Workers -> Pc]] /\ p \in Pc
      /\ hand \in [Topics -> [Workers -> Nat]] /\ i \in Nat
  BY PcOfTopic DEF TypeOK, LogGrows
<1>1. pc' = [pc EXCEPT ![t][w] = p]
  BY DEF Goto
<1>2. pc' \in [Topics -> [Workers -> Pc]]
  BY <1>0, <1>1
<1>3. \A u \in Topics, v \in Workers :
        /\ pc'[u][v] = IF u = t /\ v = w THEN p ELSE pc[u][v]
        /\ hand'[u][v] = IF u = t /\ v = w THEN i ELSE hand[u][v]
  BY <1>0, <1>1
<1>4. i \in Nat
  BY <1>0
<1>5. hand' \in [Topics -> [Workers -> Nat]]
  BY <1>0
<1>6. \A u \in Topics, v \in Workers : hand'[u][v] \in 0..Len(log'[u])
  BY <1>3, <1>4 DEF TypeOK, LogGrows
<1>7. QED
  BY <1>2, <1>3, <1>5, <1>6 DEF TypeOK, FlowType

\* Nothing moves.
LEMMA SameFlow == ASSUME TypeOK, LogGrows, UNCHANGED <<pc, hand>> PROVE FlowType'
<1>1. \A u \in Topics, v \in Workers : hand[u][v] \in 0..Len(log'[u])
  BY DEF TypeOK, LogGrows
<1>2. QED
  BY <1>1 DEF TypeOK, FlowType

\* A consumer at rest.
LEMMA RestFlow ==
  ASSUME TypeOK, LogGrows, NEW t \in Topics, NEW w \in Workers, Rest(t, w) PROVE FlowType'
<1>1. "idle" \in Pcs[t] /\ 0 \in 0..Len(log[t])
  BY DEF Pcs, Topics, LogGrows
<1>2. QED
  BY <1>1, TakeFlow DEF Rest

\* Every step keeps pc and hand well-typed and in step with each other.
LEMMA FlowStep == ASSUME TypeOK, [Next]_vars PROVE FlowType'
<1>0. /\ LogGrows /\ "created" \in Topics /\ "retry" \in Topics /\ "dlq" \in Topics
      /\ Pcs["retry"] = {"idle", "replay", "commit"} /\ Pcs["dlq"] = {"idle", "archive", "commit"}
      /\ Pcs["created"] = {"idle", "claim", "load", "flush", "fulfil", "publishRetry", "publishDlq",
                           "complete", "release", "recover", "commit"}
  BY LogStep DEF Topics, Pcs
<1>1. ASSUME NEW t \in Topics, NEW w \in Workers, NEW i \in Offsets(t), Take(t, w, i) PROVE FlowType'
  <2>1. i \in 0..Len(log[t]) /\ i # 0
    BY <1>0 DEF Offsets, LogGrows
  <2>2. FirstStep(t, i) \in Pcs[t] /\ FirstStep(t, i) # "idle"
    BY <1>0 DEF FirstStep, Topics
  <2>3. QED
    BY <1>0, <1>1, <2>1, <2>2, TakeFlow DEF Take
<1>2. ASSUME NEW w \in Workers, NEW p \in Pcs["created"] \ {"idle"}, Go(w, p), pc["created"][w] # "idle"
      PROVE  FlowType'
  BY <1>0, <1>2, GoFlow DEF Go
<1>3. ASSUME NEW w \in Workers, Claim(w) \/ AlreadyDone(w) \/ Load(w) \/ Fulfil(w) PROVE FlowType'
  BY <1>0, <1>2, <1>3 DEF Claim, AlreadyDone, Load, Fulfil, At
<1>4. ASSUME NEW w \in Workers, Flush(w) PROVE FlowType'
  <2>1. goal[w] \in {"pending", "processing", "completed", "failed"}
    BY DEF TypeOK, Statuses, Terminal
  <2>2. NextAfterFlush(w) \in Pcs["created"] \ {"idle"}
    BY <1>0, <2>1 DEF NextAfterFlush
  <2>3. QED
    BY <1>2, <1>4, <2>2 DEF Flush, At
<1>5. ASSUME NEW w \in Workers, PublishRetry(w) \/ PublishDlq(w) \/ Complete(w) \/ Release(w)
      PROVE FlowType'
  BY <1>0, <1>2, <1>5 DEF PublishRetry, PublishDlq, Complete, Release, At
<1>6. ASSUME NEW t \in Topics, NEW w \in Workers, Rest(t, w) PROVE FlowType'
  BY <1>0, <1>6, RestFlow
<1>7. ASSUME NEW w \in Workers, InProgress(w) \/ Recover(w) \/ RaiseUnguarded(w) PROVE FlowType'
  BY <1>0, <1>6, <1>7 DEF InProgress, Recover, RaiseUnguarded
<1>8. ASSUME NEW w \in Workers, Raise(w) PROVE FlowType'
  <2>1. pc["created"][w] # "idle" /\ Goto("created", w, "recover") /\ UNCHANGED hand
    BY <1>8 DEF Raise, At
  <2>2. QED
    BY <1>0, <2>1, GoFlow
<1>9. ASSUME NEW w \in Workers, Replay(w) PROVE FlowType'
  BY <1>0, <1>9, GoFlow DEF Replay
<1>10. ASSUME NEW w \in Workers, Archive(w) PROVE FlowType'
  BY <1>0, <1>10, GoFlow DEF Archive
<1>11. ASSUME NEW t \in Topics, NEW w \in Workers, RaiseRelay(t, w) \/ Commit(t, w) PROVE FlowType'
  BY <1>6, <1>11 DEF RaiseRelay, Commit
<1>12. ASSUME NEW w \in Workers, Crash(w) PROVE FlowType'
  <2>0. /\ pc \in [Topics -> [Workers -> Pc]] /\ hand \in [Topics -> [Workers -> Nat]]
        /\ pc' = [u \in Topics |-> [pc[u] EXCEPT ![w] = "idle"]]
        /\ hand' = [u \in Topics |-> [hand[u] EXCEPT ![w] = 0]]
    BY <1>12 DEF Crash, TypeOK
  <2>1. \A u \in Topics, v \in Workers :
          /\ pc'[u][v] = IF v = w THEN "idle" ELSE pc[u][v]
          /\ hand'[u][v] = IF v = w THEN 0 ELSE hand[u][v]
    BY <2>0
  <2>2. "idle" \in Pc /\ \A u \in Topics : "idle" \in Pcs[u]
    BY <1>0, PcOfTopic
  <2>3. pc' \in [Topics -> [Workers -> Pc]]
    BY <2>0, <2>2
  <2>4. hand' \in [Topics -> [Workers -> Nat]]
    BY <2>0
  <2>5. ASSUME NEW u \in Topics, NEW v \in Workers PROVE hand'[u][v] \in 0..Len(log'[u])
    <3>1. Len(log'[u]) \in Nat /\ hand[u][v] \in 0..Len(log'[u])
      BY <1>0 DEF LogGrows, TypeOK
    <3>2. QED
      BY <2>1, <3>1
  <2>6. QED
    BY <2>1, <2>2, <2>3, <2>4, <2>5 DEF TypeOK, FlowType
<1>13. ASSUME NEW e \in Events, PublishEvent(e) \/ Expire(e) PROVE FlowType'
  BY <1>0, <1>13, SameFlow DEF PublishEvent, Expire
<1>14. CASE UNCHANGED vars
  BY <1>0, <1>14, SameFlow DEF vars
<1>15. QED
  BY <1>1, <1>3, <1>4, <1>5, <1>7, <1>8, <1>9, <1>10, <1>11, <1>12, <1>13, <1>14
  DEF Next, ProcessorStep, Fault, Deliver, Redeliver

-----------------------------------------------------------------------------
\* A transition writes a well-typed row.
LEMMA PersistType ==
  ASSUME TypeOK, NEW w \in Workers, pc["created"][w] # "idle", Persist(w)
  PROVE  orders' \in [Known -> Row]
<1>1. Attempt(w) \in Nat
  BY EventInHand
<1>2. Moved(w) \in Row
  BY <1>1 DEF TypeOK, Moved, Row
<1>3. \A a, b, c \in Row : Update(a, b, c) \in Row
  BY DEF Row, Update, Column
<1>4. orders \in [Known -> Row] /\ loaded[w] \in Row
  BY DEF TypeOK
<1>5. orders' = [orders EXCEPT ![Ev(w)] = Update(orders[Ev(w)], loaded[w], Moved(w))]
  BY DEF Persist
<1>6. QED
  BY <1>2, <1>3, <1>4, <1>5

\* The operations on the guard give well-typed keys.
LEMMA GuardType ==
  ASSUME TypeOK, NEW w \in Workers, NEW e \in Events
  PROVE  /\ SetNx(guard, e, w) \in [Events -> GuardValue(Workers)]
         /\ CasComplete(guard, e, w) \in [Events -> GuardValue(Workers)]
         /\ CasRelease(guard, e, w) \in [Events -> GuardValue(Workers)]
         /\ Abandon(guard, e, w) \in [Events -> GuardValue(Workers)]
         /\ [guard EXCEPT ![e] = "orphan"] \in [Events -> GuardValue(Workers)]
         /\ [guard EXCEPT ![e] = "absent"] \in [Events -> GuardValue(Workers)]
  BY DEF TypeOK, GuardValue, SetNx, CasComplete, CasRelease, Abandon

\* A consumer at rest has well-typed session variables.
LEMMA RestData ==
  ASSUME TypeOK, NEW t \in Topics, NEW w \in Workers, Rest(t, w)
  PROVE  loaded' \in [Workers -> Row] /\ goal' \in [Workers -> Statuses]
<1>1. NewRow \in Row /\ "processing" \in Statuses
  BY DEF NewRow, Row, Statuses
<1>2. QED
  BY <1>1 DEF TypeOK, Rest

\* Every step keeps the tables, the guard and the session variables well-typed.
LEMMA DataStep == ASSUME TypeOK, [Next]_vars PROVE DataType'
<1>0. DataType /\ "created" \in Topics /\ "retry" \in Topics /\ "dlq" \in Topics
  BY DEF TypeOK, DataType, Topics
<1>1. ASSUME NEW t \in Topics, NEW w \in Workers, NEW i, Take(t, w, i), faults' \in Nat PROVE DataType'
  BY <1>0, <1>1 DEF Take, DataType
<1>2. ASSUME NEW t \in Topics, NEW w \in Workers, NEW i, Deliver(t, w, i) \/ Redeliver(t, w, i)
      PROVE  DataType'
  BY <1>0, <1>1, <1>2 DEF Deliver, Redeliver, DataType
<1>3. ASSUME NEW t \in Topics, NEW w \in Workers, Commit(t, w) PROVE DataType'
  <2>1. hand[t][w] \in Nat \ {0}
    BY <1>3, InHand DEF Commit
  <2>2. acked' \in [Topics -> SUBSET (Nat \ {0})]
    BY <1>0, <1>3, <2>1 DEF Commit, DataType
  <2>3. QED
    BY <1>0, <1>3, <2>2, RestData DEF Commit, DataType
<1>4. ASSUME NEW w \in Workers, Claim(w) \/ AlreadyDone(w) PROVE DataType'
  <2>1. Ev(w) \in Events
    BY <1>4, EventInHand DEF Claim, AlreadyDone, At
  <2>2. guard' \in [Events -> GuardValue(Workers)]
    <3>1. guard' = SetNx(guard, Ev(w), w) \/ guard' = guard
      BY <1>4 DEF Claim, AlreadyDone
    <3>2. QED
      BY <1>0, <2>1, <3>1, GuardType DEF DataType
  <2>3. QED
    BY <1>0, <1>4, <2>2 DEF Claim, AlreadyDone, Go, DataType
<1>5. ASSUME NEW w \in Workers, InProgress(w) PROVE DataType'
  BY <1>0, <1>5, RestData DEF InProgress, DataType
<1>6. ASSUME NEW w \in Workers, Load(w) PROVE DataType'
  BY <1>0, <1>6 DEF Load, Go, DataType
<1>7. ASSUME NEW w \in Workers, Fulfil(w) PROVE DataType'
  <2>1. Outcome(w) \in Statuses
    BY DEF Outcome, Statuses, Terminal
  <2>2. QED
    BY <1>0, <1>7, <2>1 DEF Fulfil, Go, DataType
<1>8. ASSUME NEW w \in Workers, Flush(w) PROVE DataType'
  BY <1>0, <1>8, PersistType DEF Flush, At, Go, DataType, Persist
<1>9. ASSUME NEW w \in Workers, PublishRetry(w) \/ PublishDlq(w) PROVE DataType'
  BY <1>0, <1>9 DEF PublishRetry, PublishDlq, SendRetry, SendDlq, Go, DataType
<1>10. ASSUME NEW w \in Workers, pc["created"][w] # "idle", MarkDone(w) \/ HandBack(w)
       PROVE  orders' = orders /\ guard' \in [Events -> GuardValue(Workers)]
  BY <1>10, EventInHand, GuardType DEF MarkDone, HandBack
<1>11. ASSUME NEW w \in Workers, Complete(w) \/ Release(w) PROVE DataType'
  BY <1>0, <1>10, <1>11 DEF Complete, Release, At, Go, DataType
<1>12. ASSUME NEW w \in Workers, Recover(w) PROVE DataType'
  BY <1>0, <1>10, <1>12, RestData DEF Recover, At, DataType
<1>13. ASSUME NEW w \in Workers, Raise(w) PROVE DataType'
  <2>1. orders' \in [Known -> Row] /\ guard' \in [Events -> GuardValue(Workers)]
    BY <1>0, <1>10, <1>13, PersistType
    DEF Raise, At, Nothing, Persist, SendRetry, SendDlq, DataType
  <2>2. faults' \in Nat /\ UNCHANGED <<acked, archive, loaded, goal>>
    BY <1>0, <1>13 DEF Raise, DataType
  <2>3. QED
    BY <1>0, <2>1, <2>2 DEF DataType
<1>14. ASSUME NEW w \in Workers, RaiseUnguarded(w) PROVE DataType'
  <2>1. Ev(w) \in Events
    BY <1>14, EventInHand DEF RaiseUnguarded, At
  <2>2. guard' \in [Events -> GuardValue(Workers)]
    BY <1>0, <1>14, <2>1, GuardType DEF RaiseUnguarded, SendDlq, Nothing, DataType
  <2>3. QED
    BY <1>0, <1>14, <2>2, RestData DEF RaiseUnguarded, DataType
<1>15. ASSUME NEW w \in Workers, Replay(w) PROVE DataType'
  BY <1>0, <1>15 DEF Replay, DataType
<1>16. ASSUME NEW w \in Workers, Archived(w) PROVE archive' \subseteq Nat
  <2>1. hand["dlq"][w] \in Nat /\ archive \subseteq Nat
    BY <1>0 DEF TypeOK
  <2>2. QED
    BY <1>16, <2>1 DEF Archived
<1>17. ASSUME NEW w \in Workers, Archive(w) PROVE DataType'
  BY <1>0, <1>16, <1>17 DEF Archive, DataType
<1>18. ASSUME NEW t \in Topics, NEW w \in Workers, RaiseRelay(t, w) PROVE DataType'
  <2>1. archive' \subseteq Nat
    BY <1>0, <1>16, <1>18 DEF RaiseRelay, DataType
  <2>2. QED
    BY <1>0, <1>18, <2>1, RestData DEF RaiseRelay, DataType
<1>19. ASSUME NEW w \in Workers, Crash(w) PROVE DataType'
  <2>1. guard' \in [Events -> GuardValue(Workers)]
    BY <1>0, <1>19, EventInHand, GuardType DEF Crash, At, DataType
  <2>2. NewRow \in Row /\ "processing" \in Statuses
    BY DEF NewRow, Row, Statuses
  <2>3. QED
    BY <1>0, <1>19, <2>1, <2>2 DEF Crash, DataType
<1>20. ASSUME NEW e \in Events, PublishEvent(e) \/ Expire(e) PROVE DataType'
  <2>1. guard' \in [Events -> GuardValue(Workers)]
    BY <1>0, <1>20 DEF PublishEvent, Expire, DataType, GuardValue
  <2>2. QED
    BY <1>0, <1>20, <2>1 DEF PublishEvent, Expire, DataType
<1>21. CASE UNCHANGED vars
  BY <1>0, <1>21 DEF vars, DataType
<1>22. QED
  BY <1>2, <1>3, <1>4, <1>5, <1>6, <1>7, <1>8, <1>9, <1>11, <1>12, <1>13, <1>14, <1>15, <1>17,
     <1>18, <1>19, <1>20, <1>21
  DEF Next, ProcessorStep, Fault

\* Every step keeps the types.
LEMMA TypeStep == TypeOK /\ [Next]_vars => TypeOK'
  BY LogStep, FlowStep, DataStep, TypeParts DEF TypeOK, LogType, FlowType, DataType

\* The pipeline's variables keep their types, and a consumer has a record in
\* hand exactly while it is not idle.
THEOREM TypeCorrect == Spec => []TypeOK
<1>1. Init => TypeOK
  <2> SUFFICES ASSUME Init PROVE TypeOK
    OBVIOUS
  <2>1. LogType
    BY EmptySeq DEF Init, LogType
  <2>2. FlowType
    <3>1. "idle" \in Pc /\ \A t \in Topics : "idle" \in Pcs[t] /\ 0 \in 0..Len(log[t])
      BY PcOfTopic, EmptySeq DEF Init, Topics
    <3>2. QED
      BY <3>1 DEF Init, FlowType
  <2>3. DataType
    BY DEF Init, DataType, NewRow, Row, Statuses, GuardValue
  <2>4. QED
    BY <2>1, <2>2, <2>3, TypeParts
<1>2. QED
  BY <1>1, TypeStep, PTL DEF Spec

-----------------------------------------------------------------------------
(* The lock and the row.                                                   *)

\* w is between a successful claim and its complete or release.
HoldsLock(w) ==
  \/ pc["created"][w] \in {"load", "flush", "fulfil", "publishRetry", "release", "complete"}
  \/ pc["created"][w] = "publishDlq" /\ Ev(w) \in Known

\* w has looked at the order and not yet given its verdict.
Undecided(w) ==
  pc["created"][w] \in {"flush", "fulfil"} \/ (pc["created"][w] = "load" /\ goal[w] # "processing")

\* The key of the event is w's, and so is the row until there is a verdict.
Exclusive(w) ==
  /\ HoldsLock(w) => guard[Ev(w)] = w
  /\ pc["created"][w] = "flush" => loaded[w] = orders[Ev(w)]
  /\ Undecided(w) => orders[Ev(w)].status \notin Terminal
  /\ pc["created"][w] \in {"publishDlq", "complete"} /\ Ev(w) \in Known => Settled(Ev(w))

\* What holds of the processor of one worker: a slow event gives it no exclusivity.
WorkerInv(w) ==
  /\ pc["created"][w] \in {"idle", "claim"} => goal[w] = "processing"
  /\ Undecided(w) => Ev(w) \in Known
  /\ Ev(w) \notin Slow => Exclusive(w)

LockInv == \A w \in Workers : WorkerInv(w)

IInv == TypeOK /\ LockInv /\ DoneMeansSettled

\* What a step of worker v may do to the others: their own state and their keys
\* are left alone, and the table changes only by the flush of v.
StepOf(v) ==
  /\ \A w \in Workers \ {v} :
       /\ pc'["created"][w] = pc["created"][w] /\ hand'["created"][w] = hand["created"][w]
       /\ loaded'[w] = loaded[w] /\ goal'[w] = goal[w]
  /\ \A e \in Events : guard[e] \in Workers \ {v} => guard'[e] = guard[e]
  /\ \A e \in Events : guard'[e] = "done" =>
       guard[e] = "done" \/ (At(v, "complete") /\ Ev(v) = e)
  /\ orders' = orders \/ (At(v, "flush") /\ Persist(v))

\* A record in hand stays what it is.
LEMMA EvKept ==
  ASSUME TypeOK, LogGrows, NEW w \in Workers, pc["created"][w] # "idle",
         hand'["created"][w] = hand["created"][w]
  PROVE  Ev(w)' = Ev(w)
<1>1. "created" \in Topics
  BY DEF Topics
<1>2. hand["created"][w] \in 1..Len(log["created"])
  BY <1>1, InHand
<1>3. log'["created"][hand["created"][w]] = log["created"][hand["created"][w]]
  BY <1>1, <1>2 DEF LogGrows
<1>4. QED
  BY <1>3 DEF Ev

\* The worker whose key and row are left alone keeps its invariant.
LEMMA WorkerKept ==
  ASSUME TypeOK, LogGrows, NEW w \in Workers, WorkerInv(w),
         pc'["created"][w] = pc["created"][w], hand'["created"][w] = hand["created"][w],
         loaded'[w] = loaded[w], goal'[w] = goal[w],
         HoldsLock(w) /\ Ev(w) \notin Slow =>
           /\ guard'[Ev(w)] = guard[Ev(w)]
           /\ Ev(w) \in Known => orders'[Ev(w)] = orders[Ev(w)]
  PROVE  WorkerInv(w)'
<1>1. CASE pc["created"][w] = "idle"
  BY <1>1 DEF WorkerInv, Exclusive, HoldsLock, Undecided
<1>2. CASE pc["created"][w] # "idle"
  <2>1. Ev(w)' = Ev(w)
    BY <1>2, EvKept
  <2>2. HoldsLock(w)' <=> HoldsLock(w)
    BY <2>1 DEF HoldsLock
  <2>3. Undecided(w)' <=> Undecided(w)
    BY DEF Undecided
  <2>4. Undecided(w) => HoldsLock(w)
    BY DEF Undecided, HoldsLock
  <2>5. ASSUME Ev(w) \notin Slow PROVE Exclusive(w)'
    BY <2>1, <2>2, <2>3, <2>4, <2>5 DEF WorkerInv, Exclusive, HoldsLock, Undecided, Settled
  <2>6. QED
    BY <2>1, <2>3, <2>5 DEF WorkerInv
<1>3. QED
  BY <1>1, <1>2

\* Two workers never hold the lock of one event, so the flush of one leaves the
\* rows of the others alone.
LEMMA OthersKept ==
  ASSUME IInv, LogGrows, NEW v \in Workers, StepOf(v), NEW w \in Workers \ {v}
  PROVE  WorkerInv(w)'
<1>1. TypeOK /\ WorkerInv(w) /\ WorkerInv(v)
  BY DEF IInv, LockInv
<1>2. ASSUME HoldsLock(w), Ev(w) \notin Slow
      PROVE  /\ guard'[Ev(w)] = guard[Ev(w)]
             /\ Ev(w) \in Known => orders'[Ev(w)] = orders[Ev(w)]
  <2>1. Ev(w) \in Events /\ guard[Ev(w)] = w
    BY <1>1, <1>2, EventInHand DEF WorkerInv, Exclusive, HoldsLock
  <2>2. ASSUME Ev(w) \in Known, At(v, "flush"), Persist(v)
        PROVE  orders'[Ev(w)] = orders[Ev(w)]
    <3>1. Ev(v) \notin Slow => guard[Ev(v)] = v
      BY <1>1, <2>2 DEF WorkerInv, Exclusive, HoldsLock, At
    <3>2. Ev(v) # Ev(w)
      BY <1>2, <2>1, <3>1
    <3>3. QED
      BY <1>1, <2>2, <3>2 DEF Persist, TypeOK
  <2>3. QED
    BY <2>1, <2>2 DEF StepOf
<1>3. QED
  BY <1>1, <1>2, WorkerKept DEF StepOf

\* A flush under the lock writes exactly the transition it was asked for.
LEMMA FlushWrites ==
  ASSUME IInv, NEW v \in Workers, At(v, "flush"), Persist(v)
  PROVE  /\ Ev(v) \in Known
         /\ \A e \in Known \ {Ev(v)} : orders'[e] = orders[e]
         /\ Ev(v) \notin Slow => ~Settled(Ev(v)) /\ orders'[Ev(v)].status = goal[v]
<1>1. TypeOK /\ WorkerInv(v)
  BY DEF IInv, LockInv
<1>2. Ev(v) \in Known
  BY <1>1 DEF WorkerInv, Undecided, At
<1>3. orders' = [orders EXCEPT ![Ev(v)] = Update(orders[Ev(v)], loaded[v], Moved(v))]
  BY DEF Persist
<1>4. \A e \in Known \ {Ev(v)} : orders'[e] = orders[e]
  BY <1>1, <1>3 DEF TypeOK
<1>5. ASSUME Ev(v) \notin Slow PROVE ~Settled(Ev(v)) /\ orders'[Ev(v)].status = goal[v]
  <2>1. loaded[v] = orders[Ev(v)] /\ orders[Ev(v)].status \notin Terminal
    BY <1>1, <1>5 DEF WorkerInv, Exclusive, Undecided, At
  <2>2. orders'[Ev(v)] = Update(orders[Ev(v)], loaded[v], Moved(v))
    BY <1>1, <1>2, <1>3 DEF TypeOK
  <2>3. Update(orders[Ev(v)], loaded[v], Moved(v)).status = goal[v]
    BY <2>1 DEF Update, Column, Moved
  <2>4. QED
    BY <2>1, <2>2, <2>3 DEF Settled
<1>6. QED
  BY <1>2, <1>4, <1>5

\* Verdicts stand, and the tombstone is put on decided orders only.
LEMMA VerdictsStand ==
  ASSUME IInv, NEW v \in Workers, StepOf(v)
  PROVE  VerdictsKept /\ DoneMeansSettled'
<1>0. \A e \in Timely : e \in Known /\ e \in Events /\ e \notin Slow
  BY DEF Timely, Known
<1>1. VerdictsKept
  BY <1>0, FlushWrites DEF StepOf, VerdictsKept
<1>2. ASSUME NEW e \in Timely, guard'[e] = "done" PROVE Settled(e)
  <2>1. CASE guard[e] = "done"
    BY <2>1 DEF IInv, DoneMeansSettled
  <2>2. CASE At(v, "complete") /\ Ev(v) = e
    BY <1>0, <2>2 DEF IInv, LockInv, WorkerInv, Exclusive, At
  <2>3. QED
    BY <1>0, <1>2, <2>1, <2>2 DEF StepOf
<1>3. QED
  BY <1>1, <1>2 DEF DoneMeansSettled, VerdictsKept, Settled

-----------------------------------------------------------------------------
\* The session variables of the processors other than v are left alone.
OthersLeftAlone(v) ==
  \A w \in Workers \ {v} :
    /\ pc'["created"][w] = pc["created"][w] /\ hand'["created"][w] = hand["created"][w]
    /\ loaded'[w] = loaded[w] /\ goal'[w] = goal[w]

\* Going on with the record.
LEMMA GoEffect ==
  ASSUME TypeOK, LogGrows, NEW v \in Workers, pc["created"][v] # "idle", NEW p,
         Goto("created", v, p), UNCHANGED hand
  PROVE  /\ pc'["created"][v] = p /\ Ev(v)' = Ev(v)
         /\ \A w \in Workers \ {v} : pc'["created"][w] = pc["created"][w]
                                     /\ hand'["created"][w] = hand["created"][w]
<1>1. "created" \in Topics /\ pc \in [Topics -> [Workers -> Pc]]
  BY DEF TypeOK, Topics
<1>2. pc' = [pc EXCEPT !["created"][v] = p]
  BY DEF Goto
<1>3. pc'["created"][v] = p /\ \A w \in Workers \ {v} : pc'["created"][w] = pc["created"][w]
  BY <1>1, <1>2
<1>4. QED
  BY <1>3, EvKept

\* Coming to rest: nothing of the worker's invariant is left to show.
LEMMA RestEffect ==
  ASSUME TypeOK, NEW v \in Workers, Rest("created", v)
  PROVE  WorkerInv(v)' /\ OthersLeftAlone(v)
<1>1. /\ "created" \in Topics /\ pc \in [Topics -> [Workers -> Pc]]
      /\ hand \in [Topics -> [Workers -> Nat]]
      /\ loaded \in [Workers -> Row] /\ goal \in [Workers -> Statuses]
  BY DEF TypeOK, Topics
<1>2. /\ pc' = [pc EXCEPT !["created"][v] = "idle"]
      /\ hand' = [hand EXCEPT !["created"][v] = 0]
      /\ loaded' = [loaded EXCEPT ![v] = NewRow]
      /\ goal' = [goal EXCEPT ![v] = "processing"]
  BY DEF Rest, Goto
<1>3. pc'["created"][v] = "idle" /\ goal'[v] = "processing"
  BY <1>1, <1>2
<1>4. OthersLeftAlone(v)
  BY <1>1, <1>2 DEF OthersLeftAlone
<1>5. WorkerInv(v)'
  BY <1>3 DEF WorkerInv, Exclusive, HoldsLock, Undecided
<1>6. QED
  BY <1>4, <1>5

\* Giving a key back, or up, changes no key of another worker and sets no tombstone.
LEMMA GuardFreed ==
  ASSUME TypeOK, NEW v \in Workers, NEW f \in Events,
         \/ guard' = guard \/ guard' = CasRelease(guard, f, v) \/ guard' = Abandon(guard, f, v)
  PROVE  \A e \in Events : /\ guard[e] \in Workers \ {v} => guard'[e] = guard[e]
                           /\ guard'[e] = "done" => guard[e] = "done"
  BY DEF TypeOK, CasRelease, Abandon

\* Completing changes no key of another worker and sets one tombstone at most.
LEMMA GuardCompleted ==
  ASSUME TypeOK, NEW v \in Workers, NEW f \in Events, guard' = CasComplete(guard, f, v)
  PROVE  \A e \in Events : /\ guard[e] \in Workers \ {v} => guard'[e] = guard[e]
                           /\ guard'[e] = "done" => guard[e] = "done" \/ f = e
  BY DEF TypeOK, CasComplete

\* The steps of the processor of v that go on with the record.
LEMMA ProcessorKeeps ==
  ASSUME IInv, LogGrows, NEW v \in Workers,
         \/ Claim(v) \/ AlreadyDone(v) \/ Load(v) \/ Flush(v) \/ Fulfil(v)
         \/ PublishRetry(v) \/ PublishDlq(v) \/ Complete(v) \/ Release(v)
  PROVE  StepOf(v) /\ WorkerInv(v)'
<1> USE PipelineAssumption
<1>0. TypeOK /\ WorkerInv(v)
  BY DEF IInv, LockInv
<1>n. pc["created"][v] # "idle" /\ Ev(v) \in Events
  BY <1>0, EventInHand
  DEF Claim, AlreadyDone, Load, Flush, Fulfil, PublishRetry, PublishDlq, Complete, Release, At
<1>g. ASSUME NEW p, Go(v, p)
      PROVE  /\ pc'["created"][v] = p /\ Ev(v)' = Ev(v)
             /\ \A w \in Workers \ {v} : pc'["created"][w] = pc["created"][w]
                                         /\ hand'["created"][w] = hand["created"][w]
  BY <1>0, <1>n, <1>g, GoEffect DEF Go
<1>1. CASE Claim(v)
  <2>1. pc["created"][v] = "claim" /\ goal[v] = "processing" /\ UNCHANGED <<orders, loaded, goal>>
    BY <1>0, <1>1 DEF Claim, At, WorkerInv
  <2>2. /\ guard[Ev(v)] = "absent" /\ guard' = [guard EXCEPT ![Ev(v)] = v]
        /\ Go(v, "load")
    BY <1>1 DEF Claim, SetNx
  <2>3. guard'[Ev(v)] = v /\ \A e \in Events \ {Ev(v)} : guard'[e] = guard[e]
    BY <1>0, <1>n, <2>2 DEF TypeOK
  <2>4. StepOf(v)
    BY <1>g, <2>1, <2>2, <2>3 DEF StepOf
  <2>5. WorkerInv(v)'
    BY <1>g, <2>1, <2>2, <2>3 DEF WorkerInv, Exclusive, HoldsLock, Undecided
  <2>6. QED
    BY <2>4, <2>5
<1>2. CASE AlreadyDone(v)
  BY <1>g, <1>2 DEF AlreadyDone, StepOf, WorkerInv, Exclusive, HoldsLock, Undecided
<1>3. CASE Load(v)
  <2>1. /\ pc["created"][v] = "load" /\ (Ev(v) \notin Slow => guard[Ev(v)] = v)
        /\ UNCHANGED <<orders, guard, goal>>
    BY <1>0, <1>3 DEF Load, At, WorkerInv, Exclusive, HoldsLock
  <2>2. CASE Ev(v) \notin Known \/ (goal[v] = "processing" /\ orders[Ev(v)].status \in Terminal)
    <3>1. Go(v, "complete") /\ UNCHANGED loaded
      BY <1>3, <2>2 DEF Load
    <3>2. Ev(v) \in Known => Settled(Ev(v))
      BY <2>2 DEF Settled
    <3>3. QED
      BY <1>g, <2>1, <3>1, <3>2 DEF StepOf, WorkerInv, Exclusive, HoldsLock, Undecided, Settled
  <2>3. CASE Ev(v) \in Known /\ ~(goal[v] = "processing" /\ orders[Ev(v)].status \in Terminal)
    <3>1. Go(v, "flush") /\ loaded' = [loaded EXCEPT ![v] = orders[Ev(v)]]
      BY <1>3, <2>3 DEF Load
    <3>2. loaded'[v] = orders[Ev(v)] /\ \A w \in Workers \ {v} : loaded'[w] = loaded[w]
      BY <1>0, <3>1 DEF TypeOK
    <3>3. Ev(v) \notin Slow => orders[Ev(v)].status \notin Terminal
      BY <1>0, <2>1, <2>3 DEF WorkerInv, Exclusive, Undecided
    <3>4. StepOf(v)
      BY <1>g, <2>1, <3>1, <3>2 DEF StepOf
    <3>5. WorkerInv(v)'
      BY <1>g, <2>1, <2>3, <3>1, <3>2, <3>3 DEF WorkerInv, Exclusive, HoldsLock, Undecided
    <3>6. QED
      BY <3>4, <3>5
  <2>4. QED
    BY <2>2, <2>3
<1>4. CASE Flush(v)
  <2>1. /\ pc["created"][v] = "flush" /\ At(v, "flush") /\ (Ev(v) \notin Slow => guard[Ev(v)] = v)
        /\ Persist(v) /\ UNCHANGED <<guard, loaded, goal>> /\ Go(v, NextAfterFlush(v))
    BY <1>0, <1>4 DEF Flush, Persist, At, WorkerInv, Exclusive, HoldsLock
  <2>2. Ev(v) \in Known /\ (Ev(v) \notin Slow => orders'[Ev(v)].status = goal[v])
    BY <2>1, FlushWrites
  <2>3. StepOf(v)
    BY <1>g, <2>1 DEF StepOf
  <2>4. goal[v] \in {"pending", "processing", "completed", "failed"}
    BY <1>0 DEF TypeOK, Statuses, Terminal
  <2>5. /\ NextAfterFlush(v) \in {"fulfil", "complete", "publishRetry", "publishDlq"}
        /\ NextAfterFlush(v) = "fulfil" => goal[v] \notin Terminal
        /\ NextAfterFlush(v) \in {"complete", "publishDlq"} => goal[v] \in Terminal
    BY <2>4 DEF NextAfterFlush, Terminal
  <2>6. WorkerInv(v)'
    BY <1>g, <2>1, <2>2, <2>5 DEF WorkerInv, Exclusive, HoldsLock, Undecided, Settled
  <2>7. QED
    BY <2>3, <2>6
<1>5. CASE Fulfil(v)
  <2>1. /\ pc["created"][v] = "fulfil" /\ Ev(v) \in Known
        /\ Ev(v) \notin Slow => guard[Ev(v)] = v /\ orders[Ev(v)].status \notin Terminal
        /\ UNCHANGED <<orders, guard, loaded>> /\ Go(v, "load")
        /\ goal' = [goal EXCEPT ![v] = Outcome(v)]
    BY <1>0, <1>5 DEF Fulfil, At, WorkerInv, Exclusive, HoldsLock, Undecided
  <2>2. \A w \in Workers \ {v} : goal'[w] = goal[w]
    BY <1>0, <2>1 DEF TypeOK
  <2>3. StepOf(v)
    BY <1>g, <2>1, <2>2 DEF StepOf
  <2>4. WorkerInv(v)'
    BY <1>g, <2>1 DEF WorkerInv, Exclusive, HoldsLock, Undecided
  <2>5. QED
    BY <2>3, <2>4
<1>6. CASE PublishRetry(v)
  <2>1. /\ pc["created"][v] = "publishRetry" /\ (Ev(v) \notin Slow => guard[Ev(v)] = v)
        /\ UNCHANGED <<orders, guard, loaded, goal>> /\ Go(v, "release")
    BY <1>0, <1>6 DEF PublishRetry, SendRetry, At, WorkerInv, Exclusive, HoldsLock
  <2>2. QED
    BY <1>g, <2>1 DEF StepOf, WorkerInv, Exclusive, HoldsLock, Undecided
<1>7. CASE PublishDlq(v)
  <2>1. /\ pc["created"][v] = "publishDlq"
        /\ UNCHANGED <<orders, guard, loaded, goal>>
        /\ Go(v, IF Ev(v) \in Known THEN "complete" ELSE "commit")
        /\ Ev(v) \in Timely => guard[Ev(v)] = v /\ Settled(Ev(v))
    BY <1>0, <1>7 DEF PublishDlq, SendDlq, At, WorkerInv, Exclusive, HoldsLock, Timely
  <2>2. QED
    BY <1>g, <2>1 DEF StepOf, Timely, WorkerInv, Exclusive, HoldsLock, Undecided, Settled
<1>8. CASE Complete(v) \/ Release(v)
  <2>1. /\ UNCHANGED <<orders, loaded, goal>>
        /\ \/ At(v, "complete") /\ guard' = CasComplete(guard, Ev(v), v)
           \/ guard' = CasRelease(guard, Ev(v), v)
        /\ \/ Go(v, "commit")
           \/ Go(v, "publishDlq") /\ Ev(v) \notin Known
    BY <1>8 DEF Complete, Release, MarkDone, HandBack
  <2>2. \A e \in Events :
          /\ guard[e] \in Workers \ {v} => guard'[e] = guard[e]
          /\ guard'[e] = "done" => guard[e] = "done" \/ (At(v, "complete") /\ Ev(v) = e)
    <3>1. CASE At(v, "complete") /\ guard' = CasComplete(guard, Ev(v), v)
      BY <1>0, <1>n, <3>1, GuardCompleted
    <3>2. CASE guard' = CasRelease(guard, Ev(v), v)
      BY <1>0, <1>n, <3>2, GuardFreed
    <3>3. QED
      BY <2>1, <3>1, <3>2
  <2>3. StepOf(v)
    BY <1>g, <2>1, <2>2 DEF StepOf
  <2>4. WorkerInv(v)'
    BY <1>g, <2>1 DEF WorkerInv, Exclusive, HoldsLock, Undecided
  <2>5. QED
    BY <2>3, <2>4
<1>9. QED
  BY <1>1, <1>2, <1>3, <1>4, <1>5, <1>6, <1>7, <1>8

\* The steps that end the work of v on its record, or on nothing.
LEMMA RestKeeps ==
  ASSUME IInv, NEW v \in Workers,
         InProgress(v) \/ Recover(v) \/ RaiseUnguarded(v) \/ Commit("created", v)
  PROVE  StepOf(v) /\ WorkerInv(v)'
<1> USE PipelineAssumption
<1>0. TypeOK /\ Rest("created", v) /\ orders' = orders
  BY DEF IInv, InProgress, Recover, HandBack, RaiseUnguarded, Commit
<1>1. WorkerInv(v)' /\ OthersLeftAlone(v)
  BY <1>0, RestEffect
<1>2. pc["created"][v] # "idle" /\ Ev(v) \in Events
  BY <1>0, EventInHand DEF InProgress, Recover, RaiseUnguarded, Commit, At
<1>3. \/ guard' = guard
      \/ guard' = CasRelease(guard, Ev(v), v)
      \/ guard' = Abandon(guard, Ev(v), v)
      \/ guard[Ev(v)] = "absent" /\ guard' = [guard EXCEPT ![Ev(v)] = "orphan"]
  BY DEF InProgress, Recover, HandBack, RaiseUnguarded, Commit
<1>4. \A e \in Events : /\ guard[e] \in Workers \ {v} => guard'[e] = guard[e]
                        /\ guard'[e] = "done" => guard[e] = "done"
  <2>1. CASE guard[Ev(v)] = "absent" /\ guard' = [guard EXCEPT ![Ev(v)] = "orphan"]
    BY <1>0, <1>2, <2>1 DEF TypeOK
  <2>2. QED
    BY <1>0, <1>2, <1>3, <2>1, GuardFreed
<1>5. QED
  BY <1>0, <1>1, <1>4 DEF StepOf, OthersLeftAlone

\* A call of _process raises: v goes to the except clause, where it is owed nothing.
LEMMA RaiseKeeps ==
  ASSUME IInv, LogGrows, NEW v \in Workers, Raise(v)
  PROVE  StepOf(v) /\ WorkerInv(v)'
<1>0. /\ TypeOK /\ pc["created"][v] # "idle" /\ Ev(v) \in Events
      /\ Goto("created", v, "recover") /\ UNCHANGED <<hand, loaded, goal>>
  BY EventInHand DEF IInv, Raise, At
<1>1. /\ pc'["created"][v] = "recover"
      /\ \A w \in Workers \ {v} : pc'["created"][w] = pc["created"][w]
                                  /\ hand'["created"][w] = hand["created"][w]
  BY <1>0, GoEffect
<1>2. orders' = orders \/ (At(v, "flush") /\ Persist(v))
  BY DEF Raise, Nothing, SendRetry, SendDlq, MarkDone, HandBack
<1>3. \/ guard' = guard
      \/ At(v, "complete") /\ guard' = CasComplete(guard, Ev(v), v)
      \/ guard' = CasRelease(guard, Ev(v), v)
  BY DEF Raise, Nothing, Persist, SendRetry, SendDlq, MarkDone, HandBack
<1>4. \A e \in Events :
        /\ guard[e] \in Workers \ {v} => guard'[e] = guard[e]
        /\ guard'[e] = "done" => guard[e] = "done" \/ (At(v, "complete") /\ Ev(v) = e)
  <2>1. CASE At(v, "complete") /\ guard' = CasComplete(guard, Ev(v), v)
    BY <1>0, <2>1, GuardCompleted
  <2>2. CASE guard' = guard \/ guard' = CasRelease(guard, Ev(v), v)
    BY <1>0, <2>2, GuardFreed
  <2>3. QED
    BY <1>3, <2>1, <2>2
<1>5. StepOf(v)
  BY <1>0, <1>1, <1>2, <1>4 DEF StepOf
<1>6. WorkerInv(v)'
  BY <1>1 DEF WorkerInv, Exclusive, HoldsLock, Undecided
<1>7. QED
  BY <1>5, <1>6

\* A processor takes a record, new or again.
LEMMA TakeKeeps ==
  ASSUME IInv, NEW v \in Workers, NEW i, Take("created", v, i)
  PROVE  StepOf(v) /\ WorkerInv(v)'
<1>0. /\ TypeOK /\ WorkerInv(v) /\ "created" \in Topics
      /\ pc \in [Topics -> [Workers -> Pc]] /\ hand \in [Topics -> [Workers -> Nat]]
  BY DEF IInv, LockInv, TypeOK, Topics
<1>1. /\ pc' = [pc EXCEPT !["created"][v] = FirstStep("created", i)]
      /\ hand' = [hand EXCEPT !["created"][v] = i]
      /\ pc["created"][v] = "idle"
      /\ UNCHANGED <<log, orders, guard, loaded, goal>>
  BY DEF Take, Goto
<1>2. /\ pc'["created"][v] = FirstStep("created", i) /\ hand'["created"][v] = i
      /\ \A w \in Workers \ {v} : pc'["created"][w] = pc["created"][w]
                                  /\ hand'["created"][w] = hand["created"][w]
  BY <1>0, <1>1
<1>3. goal'[v] = "processing"
  BY <1>0, <1>1 DEF WorkerInv
<1>4. FirstStep("created", i) = IF Kind[log["created"][i].ev] = "poison" THEN "publishDlq" ELSE "claim"
  BY DEF FirstStep
<1>5. (Ev(v))' = log["created"][i].ev
  BY <1>1, <1>2 DEF Ev
<1>6. Kind[log["created"][i].ev] = "poison" => log["created"][i].ev \notin Known
  BY DEF Known
<1>7. StepOf(v)
  BY <1>1, <1>2 DEF StepOf
<1>8. WorkerInv(v)'
  BY <1>2, <1>3, <1>4, <1>5, <1>6 DEF WorkerInv, Exclusive, HoldsLock, Undecided
<1>9. QED
  BY <1>7, <1>8

\* The worker dies.
LEMMA CrashKeeps ==
  ASSUME IInv, NEW v \in Workers, Crash(v)
  PROVE  StepOf(v) /\ WorkerInv(v)'
<1>0. /\ TypeOK /\ "created" \in Topics
      /\ pc \in [Topics -> [Workers -> Pc]] /\ hand \in [Topics -> [Workers -> Nat]]
      /\ loaded \in [Workers -> Row] /\ goal \in [Workers -> Statuses]
  BY DEF IInv, TypeOK, Topics
<1>1. /\ pc' = [t \in Topics |-> [pc[t] EXCEPT ![v] = "idle"]]
      /\ hand' = [t \in Topics |-> [hand[t] EXCEPT ![v] = 0]]
      /\ loaded' = [loaded EXCEPT ![v] = NewRow] /\ goal' = [goal EXCEPT ![v] = "processing"]
      /\ orders' = orders
  BY DEF Crash
<1>2. OthersLeftAlone(v) /\ pc'["created"][v] = "idle" /\ goal'[v] = "processing"
  BY <1>0, <1>1 DEF OthersLeftAlone
<1>3. guard' = guard \/ (Ev(v) \in Events /\ guard' = Abandon(guard, Ev(v), v))
  BY <1>0, EventInHand DEF Crash, At
<1>4. \A e \in Events : /\ guard[e] \in Workers \ {v} => guard'[e] = guard[e]
                        /\ guard'[e] = "done" => guard[e] = "done"
  BY <1>0, <1>3, GuardFreed
<1>5. StepOf(v)
  BY <1>1, <1>2, <1>4 DEF StepOf, OthersLeftAlone
<1>6. WorkerInv(v)'
  BY <1>2 DEF WorkerInv, Exclusive, HoldsLock, Undecided
<1>7. QED
  BY <1>5, <1>6

-----------------------------------------------------------------------------
\* What a step away from the processors leaves alone: their state, the keys
\* they hold unless the event is slow, and the table.
Elsewhere ==
  /\ \A w \in Workers :
       /\ pc'["created"][w] = pc["created"][w] /\ hand'["created"][w] = hand["created"][w]
       /\ loaded'[w] = loaded[w] /\ goal'[w] = goal[w]
  /\ \A e \in Events : /\ guard[e] \in Workers /\ e \notin Slow => guard'[e] = guard[e]
                       /\ guard'[e] = "done" => guard[e] = "done"
  /\ orders' = orders

\* Such a step keeps the invariant.
LEMMA ElsewhereKeeps ==
  ASSUME IInv, LogGrows, Elsewhere
  PROVE  LockInv' /\ DoneMeansSettled' /\ VerdictsKept
<1>1. ASSUME NEW w \in Workers PROVE WorkerInv(w)'
  <2>1. TypeOK /\ WorkerInv(w)
    BY DEF IInv, LockInv
  <2>2. HoldsLock(w) /\ Ev(w) \notin Slow => Ev(w) \in Events /\ guard[Ev(w)] = w
    BY <2>1, EventInHand DEF WorkerInv, Exclusive, HoldsLock
  <2>3. HoldsLock(w) /\ Ev(w) \notin Slow => guard'[Ev(w)] = guard[Ev(w)]
    BY <2>2 DEF Elsewhere
  <2>4. QED
    BY <2>1, <2>3, WorkerKept DEF Elsewhere
<1>2. DoneMeansSettled'
  <2>1. \A e \in Timely : e \in Events
    BY DEF Timely, Known
  <2>2. QED
    BY <2>1 DEF IInv, DoneMeansSettled, Settled, Elsewhere
<1>3. QED
  BY <1>1, <1>2 DEF LockInv, VerdictsKept, Elsewhere

\* The consumers of the other topics move without touching a processor.
LEMMA OtherTopic ==
  ASSUME TypeOK, NEW t \in Topics \ {"created"}, NEW w \in Workers, NEW p, NEW i,
         Goto(t, w, p), hand' = hand \/ hand' = [hand EXCEPT ![t][w] = i],
         UNCHANGED <<orders, guard, loaded, goal>>
  PROVE  Elsewhere
<1>1. /\ "created" \in Topics /\ pc \in [Topics -> [Workers -> Pc]]
      /\ hand \in [Topics -> [Workers -> Nat]] /\ t # "created"
      /\ pc' = [pc EXCEPT ![t][w] = p]
  BY DEF TypeOK, Topics, Goto
<1>2. pc'["created"] = pc["created"] /\ hand'["created"] = hand["created"]
  BY <1>1
<1>3. QED
  BY <1>2 DEF Elsewhere

\* Every step is the step of one processor, or happens elsewhere.
LEMMA StepKinds ==
  ASSUME IInv, LogGrows, [Next]_vars
  PROVE  Elsewhere \/ \E v \in Workers : StepOf(v) /\ WorkerInv(v)'
<1> DEFINE Goal == Elsewhere \/ \E v \in Workers : StepOf(v) /\ WorkerInv(v)'
<1>0. /\ TypeOK /\ "retry" \in Topics \ {"created"} /\ "dlq" \in Topics \ {"created"}
  BY DEF IInv, Topics
<1>1. ASSUME NEW e \in Events, PublishEvent(e) \/ Expire(e) PROVE Goal
  <2>1. /\ UNCHANGED <<orders, pc, hand, loaded, goal>>
        /\ guard' = guard \/ ((guard[e] \in Workers => e \in Slow) /\ guard' = [guard EXCEPT ![e] = "absent"])
    BY <1>1 DEF PublishEvent, Expire
  <2>2. Elsewhere
    BY <1>0, <2>1 DEF Elsewhere, TypeOK
  <2>3. QED
    BY <2>2
<1>2. ASSUME NEW w \in Workers, NEW t \in Topics, NEW i, Take(t, w, i) PROVE Goal
  <2>1. CASE t = "created"
    BY <1>2, <2>1, TakeKeeps
  <2>2. CASE t # "created"
    BY <1>0, <1>2, <2>2, OtherTopic DEF Take
  <2>3. QED
    BY <2>1, <2>2
<1>3. ASSUME NEW w \in Workers, NEW t \in Topics \ {"created"}, Rest(t, w), UNCHANGED <<orders, guard>>
      PROVE  Goal
  BY <1>0, <1>3, OtherTopic DEF Rest
<1>4. ASSUME NEW w \in Workers, NEW t \in Topics, Commit(t, w) PROVE Goal
  <2>1. CASE t = "created"
    BY <1>4, <2>1, RestKeeps
  <2>2. CASE t # "created"
    BY <1>3, <1>4, <2>2 DEF Commit
  <2>3. QED
    BY <2>1, <2>2
<1>5. ASSUME NEW w \in Workers, NEW t \in Topics, RaiseRelay(t, w) PROVE Goal
  <2>1. t # "created"
    BY <1>0, <1>5 DEF RaiseRelay, TypeOK, Pcs, Topics
  <2>2. QED
    BY <1>3, <1>5, <2>1 DEF RaiseRelay
<1>6. ASSUME NEW w \in Workers, Replay(w) \/ Archive(w) PROVE Goal
  BY <1>0, <1>6, OtherTopic DEF Replay, Archive
<1>7. ASSUME NEW w \in Workers, ProcessorStep(w) PROVE Goal
  BY <1>7, ProcessorKeeps, RestKeeps DEF ProcessorStep
<1>8. ASSUME NEW w \in Workers, Raise(w) \/ RaiseUnguarded(w) \/ Crash(w) PROVE Goal
  BY <1>8, RaiseKeeps, RestKeeps, CrashKeeps
<1>9. CASE UNCHANGED vars
  BY <1>9 DEF vars, Elsewhere
<1>10. QED
  BY <1>1, <1>2, <1>4, <1>5, <1>6, <1>7, <1>8, <1>9 DEF Next, Fault, Deliver, Redeliver

\* The invariant is inductive, and verdicts stand.
LEMMA InvStep == IInv /\ [Next]_vars => IInv' /\ VerdictsKept
<1> SUFFICES ASSUME IInv, [Next]_vars PROVE IInv' /\ VerdictsKept
  OBVIOUS
<1>1. TypeOK' /\ LogGrows
  BY TypeStep, LogStep DEF IInv
<1>2. CASE Elsewhere
  BY <1>1, <1>2, ElsewhereKeeps DEF IInv
<1>3. ASSUME NEW v \in Workers, StepOf(v), WorkerInv(v)' PROVE IInv' /\ VerdictsKept
  <2>1. \A w \in Workers : WorkerInv(w)'
    BY <1>1, <1>3, OthersKept
  <2>2. DoneMeansSettled' /\ VerdictsKept
    BY <1>3, VerdictsStand
  <2>3. QED
    BY <1>1, <2>1, <2>2 DEF IInv, LockInv
<1>4. QED
  BY <1>1, <1>2, <1>3, StepKinds

\* The invariant holds in every reachable state.
LEMMA Invariant == Spec => []IInv
<1>1. Init => LockInv /\ DoneMeansSettled
  <2> SUFFICES ASSUME Init PROVE LockInv /\ DoneMeansSettled
    OBVIOUS
  <2>1. \A w \in Workers : pc["created"][w] = "idle" /\ goal[w] = "processing"
    BY DEF Init, Topics
  <2>2. \A e \in Timely : guard[e] = "absent"
    BY DEF Init, Timely, Known
  <2>3. QED
    BY <2>1, <2>2 DEF LockInv, WorkerInv, Exclusive, HoldsLock, Undecided, DoneMeansSettled
<1>2. Spec => Init /\ []TypeOK /\ [][Next]_vars
  BY TypeCorrect, PTL DEF Spec
<1>3. Init /\ TypeOK => IInv
  BY <1>1 DEF IInv
<1>4. QED
  BY <1>2, <1>3, InvStep, PTL

\* No transaction of an order whose lock outlives its processing overwrites
\* another worker's transition.
THEOREM FlushIsFresh == Spec => []NoStaleFlush
<1>1. IInv => NoStaleFlush
  BY DEF IInv, LockInv, WorkerInv, Exclusive, NoStaleFlush, At
<1>2. QED
  BY <1>1, Invariant, PTL

\* The tombstone that makes later deliveries skip is set on decided orders only.
THEOREM TombstoneIsHonest == Spec => []DoneMeansSettled
<1>1. IInv => DoneMeansSettled
  BY DEF IInv
<1>2. QED
  BY <1>1, Invariant, PTL

\* Verdicts are final, whatever is redelivered, duplicated or lost.
THEOREM VerdictsAreFinal == Spec => TerminalIsFinal
<1>1. IInv /\ [Next]_vars => [VerdictsKept]_vars
  BY InvStep
<1>2. QED
  BY <1>1, Invariant, PTL DEF Spec, TerminalIsFinal

=============================================================================
