------------------------- MODULE RetryTimer_proofs -------------------------
(***************************************************************************)
(* The delays of the retry scheduler, for every base and maximal delay,    *)
(* every difference of clocks and any number of records.                   *)
(***************************************************************************)
EXTENDS RetryTimer, TLAPS

\* A record was stamped in the past, and its x-not-before is its delay later, up
\* to the difference of the clocks.
Stamped(r) ==
  /\ r.sent <= now
  /\ r.sent + r.delay <= r.notBefore + Skew
  /\ r.notBefore <= r.sent + r.delay + Skew

LogInv ==
  /\ \A p \in Partitions : \A i \in 1..Len(log[p]) : Stamped(log[p][i])
  /\ \A c \in Consumers : flight[c] # <<>> => Stamped(flight[c][1])

\* What the scheduler was given is on the topic and was stamped before the poll.
Given(r) == r[2] <= Len(log[r[1]]) /\ Rec(r).sent <= polled

BatchInv ==
  /\ polled <= now
  /\ \A r \in batch : Given(r)
  /\ sched \in InHand => Given(hand)

\* The sleep ends when the delay has passed, and not later than it has to.
SleepInv ==
  sched = "sleep" =>
    /\ Rec(hand).sent + Rec(hand).delay <= wake + Skew
    /\ wake <= polled + MaxDelay + Skew

IInv == TypeOK /\ LogInv /\ BatchInv /\ SleepInv /\ NotTooEarly /\ NoPileUp

-----------------------------------------------------------------------------
\* The delays of any attempt are within 0 and the maximal delay.
LEMMA DelayRange == \A a : Delays(a) \subseteq 0..MaxDelay
  BY TimerAssumption DEF Delays

\* What is read of an attempt header is at least 1.
LEMMA AttemptRange == \A raw \in RawAttempts : GetAttempt(raw) \in Nat /\ GetAttempt(raw) >= 1
<1>1. ASSUME NEW n \in -1..(MaxAttempts + 1), <<n>> # <<>>
      PROVE  GetAttempt(<<n>>) \in Nat /\ GetAttempt(<<n>>) >= 1
  BY <1>1, TimerAssumption DEF GetAttempt
<1>2. \A n : <<n>> # <<>>
  OBVIOUS
<1>3. GetAttempt(<<>>) = 1
  BY DEF GetAttempt
<1>4. QED
  BY <1>1, <1>2, <1>3 DEF RawAttempts

\* What Fail gives to publish_raw.
LEMMA FailStamps ==
  ASSUME TypeOK, NEW c \in Consumers, NEW raw \in RawAttempts, Fail(c, raw)
  PROVE  \E r \in Retry : flight' = [flight EXCEPT ![c] = <<r>>] /\ Stamped(r)
<1> DEFINE a == GetAttempt(raw)
<1>1. a \in Nat /\ a >= 1 /\ a < MaxAttempts
  BY AttemptRange DEF Fail
<1>2. PICK delay \in Delays(a), skew \in -Skew..Skew :
        flight' = [flight EXCEPT ![c] = <<Stamp(a, delay, skew)>>]
  BY DEF Fail
<1>3. delay \in 0..MaxDelay /\ skew \in Int /\ -Skew <= skew /\ skew <= Skew
  BY <1>2, DelayRange, TimerAssumption
<1> DEFINE r == Stamp(a, delay, skew)
<1>4. /\ r = [attempt |-> a + 1, notBefore |-> now + skew + delay, sent |-> now, delay |-> delay]
      /\ r.sent = now /\ r.delay = delay /\ r.notBefore = now + skew + delay
  BY DEF Stamp
<1> HIDE DEF a
<1>5. r \in Retry
  BY <1>1, <1>3, <1>4, TimerAssumption DEF Retry, TypeOK
<1>6. Stamped(r)
  BY <1>3, <1>4, TimerAssumption DEF TypeOK, Stamped
<1> QED
  BY <1>2, <1>5, <1>6

\* A record that is being published is a retry record.
LEMMA FlightRecord ==
  ASSUME TypeOK, NEW c \in Consumers, flight[c] # <<>>
  PROVE  flight[c][1] \in Retry
<1>1. flight[c] \in Seq(Retry)
  BY DEF TypeOK
<1>2. QED
  BY <1>1

\* Publishing leaves the records of the topic where they are.
LEMMA PublishKeeps ==
  ASSUME TypeOK, NEW c \in Consumers, NEW p \in Partitions, Publish(c, p)
  PROVE  /\ log' \in [Partitions -> Seq(Retry)]
         /\ log'[p] = Append(log[p], flight[c][1])
         /\ \A q \in Partitions \ {p} : log'[q] = log[q]
         /\ \A q \in Partitions : /\ Len(log[q]) <= Len(log'[q])
                                  /\ \A i \in 1..Len(log[q]) : log'[q][i] = log[q][i]
<1>1. log \in [Partitions -> Seq(Retry)] /\ flight[c][1] \in Retry
  BY FlightRecord DEF TypeOK, Publish
<1>2. log' = [log EXCEPT ![p] = Append(log[p], flight[c][1])]
  BY DEF Publish
<1>3. log[p] \in Seq(Retry) /\ log'[p] = Append(log[p], flight[c][1])
  BY <1>1, <1>2
<1>4. /\ log'[p] \in Seq(Retry)
      /\ Len(log[p]) <= Len(log'[p])
      /\ \A i \in 1..Len(log[p]) : log'[p][i] = log[p][i]
  BY <1>1, <1>3
<1>5. \A q \in Partitions \ {p} : log'[q] = log[q] /\ log'[q] \in Seq(Retry)
  BY <1>1, <1>2
<1>6. \A q \in Partitions : Len(log[q]) \in Nat
  BY <1>1
<1>7. log' \in [Partitions -> Seq(Retry)]
  BY <1>1, <1>2, <1>4, <1>5
<1>8. ASSUME NEW q \in Partitions
      PROVE  Len(log[q]) <= Len(log'[q]) /\ \A i \in 1..Len(log[q]) : log'[q][i] = log[q][i]
  <2>1. CASE q = p
    BY <1>4, <2>1
  <2>2. CASE q # p
    BY <1>5, <1>6, <2>2
  <2>3. QED
    BY <2>1, <2>2
<1>9. QED
  BY <1>3, <1>5, <1>7, <1>8

\* A record of the topic has the fields of a retry record.
LEMMA Fields ==
  ASSUME TypeOK, NEW r \in Places, r[2] <= Len(log[r[1]])
  PROVE  /\ Rec(r).sent \in Nat /\ Rec(r).delay \in 0..MaxDelay /\ Rec(r).notBefore \in Int
         /\ r[1] \in Partitions /\ r[2] \in 1..Len(log[r[1]])
<1>1. r[1] \in Partitions /\ r[2] \in Nat /\ r[2] >= 1
  BY DEF Places
<1>2. log[r[1]] \in Seq(Retry)
  BY <1>1 DEF TypeOK
<1>3. Rec(r) \in Retry
  BY <1>1, <1>2 DEF Rec
<1>4. QED
  BY <1>1, <1>2, <1>3 DEF Retry

\* Every step keeps the types.
LEMMA TypeStep == TypeOK /\ BatchInv /\ [Next]_vars => TypeOK'
<1> SUFFICES ASSUME TypeOK, BatchInv, [Next]_vars PROVE TypeOK'
  OBVIOUS
<1> USE TimerAssumption
<1>1. ASSUME NEW c \in Consumers, NEW raw \in RawAttempts, Fail(c, raw) PROVE TypeOK'
  <2>1. PICK r \in Retry : flight' = [flight EXCEPT ![c] = <<r>>]
    BY <1>1, FailStamps
  <2>2. flight' \in [Consumers -> Seq(Retry)]
    BY <2>1 DEF TypeOK
  <2>3. UNCHANGED <<now, log, committed, sched, batch, hand, wake, polled, lost>>
    BY <1>1 DEF Fail, loopVars
  <2>4. QED
    BY <2>2, <2>3 DEF TypeOK, Places
<1>2. ASSUME NEW c \in Consumers, NEW p \in Partitions, Publish(c, p) PROVE TypeOK'
  <2>1. log' \in [Partitions -> Seq(Retry)]
    BY <1>2, PublishKeeps
  <2>2. flight' \in [Consumers -> Seq(Retry)]
    BY <1>2 DEF Publish, TypeOK
  <2>3. UNCHANGED <<now, committed, sched, batch, hand, wake, polled, lost>>
    BY <1>2 DEF Publish, loopVars
  <2>4. QED
    BY <2>1, <2>2, <2>3 DEF TypeOK, Places
<1>3. ASSUME NEW c \in Consumers, PublishFails(c) PROVE TypeOK'
  <2>1. flight' \in [Consumers -> Seq(Retry)]
    BY <1>3 DEF PublishFails, TypeOK
  <2>2. UNCHANGED <<now, log, committed, sched, batch, hand, wake, polled, lost>>
    BY <1>3 DEF PublishFails, loopVars
  <2>3. QED
    BY <2>1, <2>2 DEF TypeOK, Places
<1>4. CASE GetMany
  <2>1. batch' \subseteq Places
    BY <1>4 DEF GetMany, Topic, Places
  <2>2. QED
    BY <1>4, <2>1 DEF GetMany, TypeOK, InHand, Places
<1>5. CASE TakeRecord
  <2>1. PICK r \in batch : hand' = r /\ batch' = batch \ {r} /\ Hold(r)
    BY <1>5 DEF TakeRecord
  <2>2. r \in Places /\ r[2] <= Len(log[r[1]])
    BY <2>1 DEF TypeOK, BatchInv, Given
  <2>3. Rec(r).notBefore \in Int
    BY <2>2, Fields
  <2>4. Wait(r) > 0 => now + Least(Wait(r), MaxDelay) \in Nat
    BY <2>3 DEF Wait, Least, TypeOK
  <2>5. wake' \in Nat /\ sched' \in InHand
    BY <2>1, <2>4 DEF Hold, SleepFor, TypeOK, InHand
  <2>6. UNCHANGED <<now, flight, log, committed, polled, lost>>
    BY <1>5 DEF TakeRecord
  <2>7. QED
    BY <2>1, <2>2, <2>5, <2>6 DEF TypeOK, Places
<1>6. CASE BatchDone \/ WakeUp \/ Replay
  BY <1>6 DEF BatchDone, WakeUp, Replay, TypeOK, InHand, Places
<1>7. CASE Commit
  <2>1. hand \in Places /\ hand[2] \in Nat
    BY <1>7 DEF Commit, TypeOK, InHand, Places
  <2>2. committed' \in [Partitions -> Nat]
    BY <1>7, <2>1 DEF Commit, TypeOK
  <2>3. QED
    BY <1>7, <2>2 DEF Commit, TypeOK, InHand, Places
<1>8. CASE Tick \/ Stall
  BY <1>8 DEF Tick, Stall, LoseTime, loopVars, TypeOK, Places
<1>9. CASE Redeliver
  <2>1. batch' \subseteq Places
    BY <1>9 DEF Redeliver, TypeOK
  <2>2. QED
    BY <1>9, <2>1 DEF Redeliver, LoseTime, TypeOK, InHand, Places
<1>10. CASE Crash
  BY <1>10 DEF Crash, TypeOK, InHand, Places
<1>11. CASE UNCHANGED vars
  BY <1>11 DEF vars, TypeOK, Places
<1>12. QED
  BY <1>1, <1>2, <1>3, <1>4, <1>5, <1>6, <1>7, <1>8, <1>9, <1>10, <1>11 DEF Next

\* A sleep until not-before, or for the longest delay when that is sooner, ends
\* neither before the backoff is over nor long after it.
LEMMA SleepBounds ==
  ASSUME MaxDelay \in Nat, Skew \in Nat,
         NEW sent \in Nat, NEW delay \in 0..MaxDelay, NEW notBefore \in Int, NEW n \in Nat, NEW end,
         sent <= n, sent + delay <= notBefore + Skew, notBefore <= sent + delay + Skew,
         end = notBefore \/ (end = n + MaxDelay /\ n + MaxDelay <= notBefore)
  PROVE  sent + delay <= end + Skew /\ end <= sent + MaxDelay + Skew
<1>1. CASE end = notBefore
  BY <1>1
<1>2. CASE end = n + MaxDelay /\ n + MaxDelay <= notBefore
  BY <1>2
<1>3. QED
  BY <1>1, <1>2

-----------------------------------------------------------------------------
\* Every step keeps the invariant.
LEMMA InvStep == IInv /\ [Next]_vars => IInv'
<1> SUFFICES ASSUME IInv, [Next]_vars PROVE IInv'
  OBVIOUS
<1> USE TimerAssumption
<1>t. TypeOK /\ TypeOK' /\ LogInv /\ BatchInv /\ SleepInv /\ NotTooEarly /\ NoPileUp
  BY TypeStep DEF IInv
<1>n. now \in Nat /\ lost \in Nat /\ wake \in Nat /\ polled \in Nat
  BY <1>t DEF TypeOK
<1>b. /\ batch \subseteq Places
      /\ \A r \in batch : Given(r)
      /\ polled <= now
      /\ sched \in InHand => hand \in Places /\ Given(hand)
  BY <1>t DEF TypeOK, BatchInv
<1>f. ASSUME NEW r \in Places, Given(r)
      PROVE  /\ Rec(r).sent \in Nat /\ Rec(r).delay \in 0..MaxDelay /\ Rec(r).notBefore \in Int
             /\ r[1] \in Partitions /\ r[2] \in 1..Len(log[r[1]])
             /\ Stamped(Rec(r))
  <2>1. /\ Rec(r).sent \in Nat /\ Rec(r).delay \in 0..MaxDelay /\ Rec(r).notBefore \in Int
        /\ r[1] \in Partitions /\ r[2] \in 1..Len(log[r[1]])
    BY <1>t, <1>f, Fields DEF Given
  <2>2. Stamped(Rec(r))
    BY <1>t, <2>1 DEF LogInv, Rec
  <2>3. QED
    BY <2>1, <2>2
<1>1. ASSUME NEW c \in Consumers, NEW raw \in RawAttempts, Fail(c, raw) PROVE IInv'
  <2>1. PICK r \in Retry : flight' = [flight EXCEPT ![c] = <<r>>] /\ Stamped(r)
    BY <1>t, <1>1, FailStamps
  <2>2. UNCHANGED <<now, log, committed, sched, batch, hand, wake, polled, lost>>
    BY <1>1 DEF Fail, loopVars
  <2>3. \A d \in Consumers : flight'[d] = flight[d] \/ flight'[d][1] = r
    BY <1>t, <2>1 DEF TypeOK
  <2>4. LogInv'
    BY <1>t, <2>1, <2>2, <2>3 DEF LogInv, Stamped
  <2>5. QED
    BY <1>t, <2>2, <2>4 DEF IInv, BatchInv, Given, Rec, SleepInv, NotTooEarly, NoPileUp
<1>2. ASSUME NEW c \in Consumers, NEW p \in Partitions, Publish(c, p) PROVE IInv'
  <2>1. /\ log'[p] = Append(log[p], flight[c][1])
        /\ \A q \in Partitions \ {p} : log'[q] = log[q]
        /\ \A q \in Partitions : /\ Len(log[q]) <= Len(log'[q])
                                 /\ \A i \in 1..Len(log[q]) : log'[q][i] = log[q][i]
    BY <1>t, <1>2, PublishKeeps
  <2>2. UNCHANGED <<now, committed, sched, batch, hand, wake, polled, lost>>
    BY <1>2 DEF Publish, loopVars
  <2>3. Stamped(flight[c][1]) /\ flight[c][1] \in Retry
    BY <1>t, <1>2, FlightRecord DEF LogInv, Publish
  <2>4. \A q \in Partitions : \A i \in 1..Len(log'[q]) : Stamped(log'[q][i])
    <3>1. ASSUME NEW i \in 1..Len(log'[p]) PROVE Stamped(log'[p][i])
      <4>1. log[p] \in Seq(Retry)
        BY <1>t DEF TypeOK
      <4>2. log'[p][i] = flight[c][1] \/ (i \in 1..Len(log[p]) /\ log'[p][i] = log[p][i])
        BY <2>1, <2>3, <3>1, <4>1
      <4>3. QED
        BY <1>t, <2>3, <4>2 DEF LogInv
    <3>2. QED
      BY <1>t, <2>1, <3>1 DEF LogInv
  <2>5. \A d \in Consumers : flight'[d] = flight[d] \/ flight'[d] = <<>>
    BY <1>t, <1>2 DEF Publish, TypeOK
  <2>6. LogInv'
    BY <1>t, <2>2, <2>4, <2>5 DEF LogInv, Stamped
  <2>7. ASSUME NEW r \in Places, Given(r)
        PROVE  Given(r)' /\ log'[r[1]][r[2]] = log[r[1]][r[2]]
    <3>1. r[1] \in Partitions /\ r[2] \in 1..Len(log[r[1]]) /\ Rec(r).sent <= polled
      BY <1>f, <2>7 DEF Given
    <3>2. log'[r[1]][r[2]] = log[r[1]][r[2]] /\ r[2] <= Len(log'[r[1]])
      <4>1. Len(log[r[1]]) \in Nat /\ Len(log'[r[1]]) \in Nat
        <5>1. log[r[1]] \in Seq(Retry)
          BY <1>t, <3>1 DEF TypeOK
        <5>2. log'[r[1]] \in Seq(Retry)
          BY <1>t, <1>2, <3>1, PublishKeeps
        <5>3. QED
          BY <5>1, <5>2
      <4>2. QED
        BY <2>1, <3>1, <4>1
    <3>3. QED
      BY <2>2, <3>1, <3>2 DEF Given, Rec
  <2>8. BatchInv'
    BY <1>b, <2>2, <2>7 DEF BatchInv, Given
  <2>9. sched \in InHand => Rec(hand)' = Rec(hand)
    BY <1>b, <2>2, <2>7 DEF Rec
  <2>10. QED
    BY <1>t, <2>2, <2>6, <2>8, <2>9 DEF IInv, SleepInv, NotTooEarly, NoPileUp, InHand
<1>3. ASSUME NEW c \in Consumers, PublishFails(c) PROVE IInv'
  <2>1. UNCHANGED <<now, log, committed, sched, batch, hand, wake, polled, lost>>
    BY <1>3 DEF PublishFails, loopVars
  <2>2. \A d \in Consumers : flight'[d] = flight[d] \/ flight'[d] = <<>>
    BY <1>t, <1>3 DEF PublishFails, TypeOK
  <2>3. LogInv'
    BY <1>t, <2>1, <2>2 DEF LogInv, Stamped
  <2>4. QED
    BY <1>t, <2>1, <2>3 DEF IInv, BatchInv, Given, Rec, SleepInv, NotTooEarly, NoPileUp
<1>4. CASE GetMany
  <2>1. /\ sched' = "next" /\ polled' = now /\ lost' = 0
        /\ UNCHANGED <<now, flight, log, hand, wake>>
    BY <1>4 DEF GetMany
  <2>2. batch' \subseteq Topic /\ batch' \subseteq Places
    BY <1>4, <1>t DEF GetMany, TypeOK
  <2>3. ASSUME NEW r \in batch' PROVE Given(r)'
    <3>1. r \in Places /\ r[2] <= Len(log[r[1]])
      BY <2>2, <2>3 DEF Topic
    <3>2. r[1] \in Partitions /\ r[2] \in 1..Len(log[r[1]])
      BY <1>t, <3>1, Fields
    <3>3. Rec(r).sent <= now
      BY <1>t, <3>2 DEF LogInv, Stamped, Rec
    <3>4. QED
      BY <2>1, <3>1, <3>3 DEF Given, Rec
  <2>4. BatchInv'
    BY <1>n, <2>1, <2>3 DEF BatchInv, InHand
  <2>5. NoPileUp'
    BY <1>n, <2>1 DEF NoPileUp
  <2>6. QED
    BY <1>t, <2>1, <2>4, <2>5 DEF IInv, LogInv, Stamped, SleepInv, NotTooEarly
<1>5. CASE TakeRecord
  <2>1. PICK r \in batch : hand' = r /\ batch' = batch \ {r} /\ Hold(r)
    BY <1>5 DEF TakeRecord
  <2>2. sched = "next" /\ UNCHANGED <<now, flight, log, committed, polled, lost>>
    BY <1>5 DEF TakeRecord
  <2>3. r \in Places /\ Given(r) /\ Rec(r).sent <= polled
    BY <1>b, <2>1 DEF Given
  <2>4. /\ Rec(r).sent \in Nat /\ Rec(r).delay \in 0..MaxDelay /\ Rec(r).notBefore \in Int
        /\ Rec(r).sent <= now
        /\ Rec(r).sent + Rec(r).delay <= Rec(r).notBefore + Skew
        /\ Rec(r).notBefore <= Rec(r).sent + Rec(r).delay + Skew
    BY <1>f, <2>3 DEF Stamped
  <2>5. Rec(hand)' = Rec(r)
    BY <2>1, <2>2 DEF Rec
  <2>6. LogInv'
    BY <1>t, <2>2 DEF LogInv, Stamped
  <2>7. BatchInv'
    BY <1>b, <2>1, <2>2, <2>3 DEF BatchInv, Given, Rec
  <2>8. NoPileUp'
    BY <1>t, <2>2 DEF NoPileUp
  <2>9. CASE Wait(r) > 0
    <3>1. sched' = "sleep" /\ wake' = now + Least(Wait(r), MaxDelay)
      BY <2>1, <2>9 DEF Hold, SleepFor
    <3>2. \/ wake' = Rec(r).notBefore
          \/ wake' = now + MaxDelay /\ now + MaxDelay <= Rec(r).notBefore
      BY <1>n, <2>4, <3>1 DEF Wait, Least
    <3>3. /\ Rec(r).sent + Rec(r).delay <= wake' + Skew
          /\ wake' <= Rec(r).sent + MaxDelay + Skew
      BY <1>n, <2>4, <3>2, SleepBounds
    <3>4. wake' <= polled + MaxDelay + Skew /\ polled' = polled
      <4>1. wake' \in Nat /\ polled' = polled
        BY <1>t, <2>2 DEF TypeOK
      <4>2. QED
        BY <1>n, <2>3, <2>4, <3>3, <4>1
    <3>5. SleepInv'
      BY <2>5, <3>3, <3>4 DEF SleepInv
    <3>6. QED
      BY <1>t, <2>6, <2>7, <2>8, <3>1, <3>5 DEF IInv, NotTooEarly
  <2>10. CASE ~(Wait(r) > 0)
    <3>1. sched' = "publish"
      BY <2>1, <2>10 DEF Hold
    <3>2. now + Skew >= Rec(r).sent + Rec(r).delay
      BY <1>n, <2>4, <2>10 DEF Wait
    <3>3. NotTooEarly'
      BY <2>2, <2>5, <3>2 DEF NotTooEarly
    <3>4. QED
      BY <1>t, <2>6, <2>7, <2>8, <3>1, <3>3 DEF IInv, SleepInv
  <2>11. QED
    BY <2>9, <2>10
<1>6. CASE WakeUp
  <2>1. /\ sched = "sleep" /\ now >= wake /\ sched' = "publish"
        /\ UNCHANGED <<now, flight, log, batch, hand, wake, polled, lost>>
    BY <1>6 DEF WakeUp
  <2>2. Rec(hand).sent \in Nat /\ Rec(hand).delay \in 0..MaxDelay /\ Rec(hand)' = Rec(hand)
    BY <1>b, <1>f, <2>1 DEF InHand, Rec
  <2>3. NotTooEarly'
    BY <1>t, <1>n, <2>1, <2>2 DEF NotTooEarly, SleepInv
  <2>4. QED
    BY <1>t, <2>1, <2>3 DEF IInv, LogInv, Stamped, BatchInv, Given, Rec, InHand, SleepInv, NoPileUp
<1>7. CASE Replay
  <2>1. /\ sched = "publish" /\ sched' = "commit"
        /\ UNCHANGED <<now, flight, log, batch, hand, wake, polled, lost>>
    BY <1>7 DEF Replay
  <2>2. QED
    BY <1>t, <2>1 DEF IInv, LogInv, Stamped, BatchInv, Given, Rec, InHand, SleepInv, NotTooEarly, NoPileUp
<1>8. CASE Commit
  <2>1. /\ sched = "commit" /\ sched' = "next"
        /\ UNCHANGED <<now, flight, log, batch, hand, wake, polled, lost>>
    BY <1>8 DEF Commit
  <2>2. QED
    BY <1>t, <2>1 DEF IInv, LogInv, Stamped, BatchInv, Given, Rec, InHand, SleepInv, NotTooEarly, NoPileUp
<1>9. CASE BatchDone \/ Crash
  <2>1. /\ sched' = "poll" /\ batch' = {}
        /\ UNCHANGED <<now, flight, log, wake, polled, lost>>
    BY <1>9 DEF BatchDone, Crash
  <2>2. QED
    BY <1>t, <2>1 DEF IInv, LogInv, Stamped, BatchInv, InHand, SleepInv, NotTooEarly, NoPileUp
<1>10. ASSUME now' = now + 1, UNCHANGED <<flight, log>> PROVE LogInv'
  <2>1. ASSUME NEW r \in Retry, Stamped(r) PROVE Stamped(r)'
    BY <1>n, <1>10, <2>1 DEF Retry, Stamped
  <2>2. \A p \in Partitions : \A i \in 1..Len(log[p]) : log[p][i] \in Retry
    BY <1>t DEF TypeOK
  <2>3. \A c \in Consumers : flight[c] # <<>> => flight[c][1] \in Retry
    BY <1>t, FlightRecord
  <2>4. \A p \in Partitions : \A i \in 1..Len(log[p]) : Stamped(log[p][i])'
    BY <1>t, <1>10, <2>1, <2>2 DEF LogInv, Stamped
  <2>5. \A c \in Consumers : flight[c] # <<>> => Stamped(flight[c][1])'
    BY <1>t, <1>10, <2>1, <2>3 DEF LogInv, Stamped
  <2>6. QED
    BY <1>10, <2>4, <2>5 DEF LogInv, Stamped
<1>11. CASE Tick
  <2>1. /\ now' = now + 1 /\ UNCHANGED <<flight, log, sched, batch, hand, wake, polled, lost>>
        /\ (sched = "sleep" /\ now < wake) \/ sched = "poll"
    BY <1>11 DEF Tick, loopVars
  <2>2. LogInv' /\ BatchInv'
    BY <1>t, <1>n, <1>10, <2>1 DEF BatchInv, Given, Rec
  <2>3. SleepInv' /\ NotTooEarly'
    BY <1>t, <2>1 DEF SleepInv, NotTooEarly, Rec
  <2>4. NoPileUp'
    BY <1>t, <1>n, <2>1 DEF NoPileUp, SleepInv
  <2>5. QED
    BY <1>t, <2>2, <2>3, <2>4 DEF IInv
<1>12. CASE Stall \/ Redeliver
  <2>1. /\ now' = now + 1 /\ lost' = lost + 1 /\ sched # "poll" /\ sched' \in {sched, "next"}
        /\ batch' \subseteq batch
        /\ UNCHANGED <<flight, log, hand, wake, polled>>
    BY <1>12 DEF Stall, Redeliver, LoseTime
  <2>2. LogInv' /\ BatchInv'
    BY <1>t, <1>n, <1>10, <2>1 DEF BatchInv, Given, Rec, InHand
  <2>3. SleepInv'
    BY <1>t, <2>1 DEF SleepInv, Rec
  <2>4. NotTooEarly'
    <3>1. ASSUME sched' \in {"publish", "commit"}
          PROVE  now + 1 + Skew >= Rec(hand).sent + Rec(hand).delay
      <4>1. sched \in {"publish", "commit"} /\ sched \in InHand
        BY <2>1, <3>1 DEF InHand
      <4>2. Rec(hand).sent \in Nat /\ Rec(hand).delay \in 0..MaxDelay
        BY <1>b, <1>f, <4>1
      <4>3. now + Skew >= Rec(hand).sent + Rec(hand).delay
        BY <1>t, <4>1 DEF NotTooEarly
      <4>4. QED
        BY <1>n, <4>2, <4>3
    <3>2. QED
      BY <2>1, <3>1 DEF NotTooEarly, Rec
  <2>5. NoPileUp'
    BY <1>t, <1>n, <2>1 DEF NoPileUp
  <2>6. QED
    BY <1>t, <2>2, <2>3, <2>4, <2>5 DEF IInv
<1>13. CASE UNCHANGED vars
  BY <1>t, <1>13
     DEF vars, IInv, LogInv, Stamped, BatchInv, Given, Rec, SleepInv, NotTooEarly, NoPileUp
<1>14. QED
  BY <1>1, <1>2, <1>3, <1>4, <1>5, <1>6, <1>7, <1>8, <1>9, <1>11, <1>12, <1>13 DEF Next

\* The invariant holds at the start and for ever.
LEMMA AlwaysInv == Spec => []IInv
<1>1. Init => IInv
  BY TimerAssumption
     DEF Init, IInv, TypeOK, Places, InHand, LogInv, BatchInv, SleepInv, NotTooEarly, NoPileUp
<1>2. QED
  BY <1>1, InvStep, PTL DEF Spec

\* The clock, the log and the scheduler keep their types: whatever attempt
\* header arrives, a retry record carries an attempt from 2 to max_attempts.
THEOREM TypeCorrect == Spec => []TypeOK
<1>1. IInv => TypeOK
  BY DEF IInv
<1>2. QED
  BY <1>1, AlwaysInv, PTL

\* No record is replayed before its backoff has passed, up to the clock skew.
THEOREM NeverTooEarly == Spec => []NotTooEarly
<1>1. IInv => NotTooEarly
  BY DEF IInv
<1>2. QED
  BY <1>1, AlwaysInv, PTL

\* However many records of however many partitions a batch has, the scheduler is
\* back at the poll after one maximal delay and what its calls cost.
THEOREM DelaysDoNotPileUp == Spec => []NoPileUp
<1>1. IInv => NoPileUp
  BY DEF IInv
<1>2. QED
  BY <1>1, AlwaysInv, PTL

=============================================================================
