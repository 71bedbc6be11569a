------------------------ MODULE ConsumerGroup_proofs ------------------------
(***************************************************************************)
(* The consume loop is at-least-once and in order, for any number of       *)
(* workers, partitions, records, rebalances, shutdowns and crashes.        *)
(***************************************************************************)
EXTENDS ConsumerGroup, TLAPS

\* Every record of p below offset n was handled.
HandledBelow(p, n) == \A o \in Nat : o < n => <<p, o>> \in handled

\* What w was given by its poll and has not yet been through.
Pending(w) == batch[w] \cup (IF loop[w] \in {"handle", "seek"} THEN {rec[w]} ELSE {})

\* Every record of p below offset n was handled, or w has it in its hands.
CoveredBelow(w, p, n) ==
  \A o \in Nat : o < n => <<p, o>> \in handled \/ <<p, o>> \in Pending(w)

\* The group: the committed offset has only handled records below it.
GroupInv == \A p \in Partitions : HandledBelow(p, committed[p])

\* Everything before a handled record was handled.
OrderInv == \A p \in Partitions : \A n \in Nat : <<p, n>> \in handled => HandledBelow(p, n)

\* The loop: a record is taken in hand after all its predecessors were handled,
\* and what a worker has fetched past is handled or still in its batch.
WorkerInv(w) ==
  /\ loop[w] \in InHand => HandledBelow(rec[w][1], rec[w][2])
  /\ loop[w] = "commit" => rec[w] \in handled
  /\ loop[w] \in {"join", "poll", "down"} => batch[w] = {}
  /\ \A p \in Partitions : CoveredBelow(w, p, position[w][p])
  /\ \A p \in Partitions : \A n \in Nat : <<p, n>> \in batch[w] => CoveredBelow(w, p, n)

LoopInv == \A w \in Workers : WorkerInv(w)

IInv == TypeOK /\ GroupInv /\ OrderInv /\ LoopInv

-----------------------------------------------------------------------------
\* The end of run() keeps the types.
LEMMA EndedType ==
  ASSUME TypeOK, NEW w \in Workers, Ended(w), faults' \in Nat,
         UNCHANGED <<logEnd, committed, owner, stopping, handled, group>>
  PROVE  TypeOK'
<1> USE DEF TypeOK, Records, NoPosition, NoRecord, InHand, Unassigned
<1>1. Unassigned \in [Partitions -> Nat \cup {NoPosition}]
  OBVIOUS
<1>2. QED
  BY <1>1 DEF Ended

\* Every step keeps the types.
LEMMA TypeStep == TypeOK /\ [Next]_vars => TypeOK'
<1> SUFFICES ASSUME TypeOK, [Next]_vars PROVE TypeOK'
  OBVIOUS
<1> USE GroupAssumption DEF TypeOK, Records, NoPosition, NoRecord, InHand, Unassigned
<1>1. CASE \E p \in Partitions : Append(p)
  BY <1>1 DEF Append
<1>2. ASSUME NEW members \in SUBSET Workers, Assign(members) \/ Reassign(members)
      PROVE TypeOK'
  <2>1. Rebalance(members) /\ faults' \in Nat
    BY <1>2 DEF Assign, Reassign
  <2>2. /\ loop' \in [Workers -> InHand \cup {"join", "poll", "next", "down"}]
        /\ \A w \in Workers : loop'[w] \in InHand => loop[w] \in InHand
    BY <2>1 DEF Rebalance
  <2>3. /\ owner' \in [Partitions -> Workers \cup {"none"}]
        /\ position' \in [Workers -> [Partitions -> Nat \cup {NoPosition}]]
    BY <2>1 DEF Rebalance
  <2>4. QED
    BY <2>1, <2>2, <2>3 DEF Rebalance
<1>3. ASSUME NEW w \in Workers, GetMany(w) PROVE TypeOK'
  <2>1. PICK upto \in [Partitions -> NoPosition..MaxLen] :
          /\ batch' = [batch EXCEPT ![w] = Fetched(w, upto)]
          /\ position' = [position EXCEPT ![w] = upto]
    BY <1>3 DEF GetMany
  <2>2. upto \in [Partitions -> Nat \cup {NoPosition}]
    OBVIOUS
  <2>3. Fetched(w, upto) \subseteq Records
    BY DEF Fetched
  <2>4. QED
    BY <1>3, <2>1, <2>2, <2>3 DEF GetMany
<1>4. ASSUME NEW w \in Workers, GetManyRaises(w) \/ Stopped(w) \/ Crash(w) PROVE TypeOK'
  BY <1>4, EndedType DEF GetManyRaises, Stopped, Crash
<1>5. ASSUME NEW w \in Workers, TakeRecord(w) PROVE TypeOK'
  <2>1. PICK r \in batch[w] : /\ rec' = [rec EXCEPT ![w] = r]
                              /\ batch' = [batch EXCEPT ![w] = batch[w] \ {r}]
    BY <1>5 DEF TakeRecord
  <2>2. r \in Records
    OBVIOUS
  <2>3. rec' \in [Workers -> Records \cup {NoRecord}] /\ batch' \in [Workers -> SUBSET Records]
    BY <2>1, <2>2
  <2>4. loop' = [loop EXCEPT ![w] = "handle"]
    BY <1>5 DEF TakeRecord
  <2>5. \A v \in Workers : loop'[v] \in InHand => rec'[v] \in Records
    BY <2>1, <2>2, <2>4
  <2>6. QED
    BY <1>5, <2>3, <2>4, <2>5 DEF TakeRecord
<1>6. ASSUME NEW w \in Workers, BatchDone(w) \/ HandleRedeliver(w) PROVE TypeOK'
  BY <1>6 DEF BatchDone, HandleRedeliver
<1>7. ASSUME NEW w \in Workers, Stop(w) \/ Restart(w) PROVE TypeOK'
  <2>1. stopping' \in [Workers -> BOOLEAN]
    BY <1>7, Zenon DEF Stop, Restart
  <2>2. /\ loop' \in [Workers -> InHand \cup {"join", "poll", "next", "down"}]
        /\ \A v \in Workers : loop'[v] \in InHand => loop[v] \in InHand
    BY <1>7 DEF Stop, Restart
  <2>3. faults' \in Nat /\ UNCHANGED <<logEnd, committed, owner, position, batch, rec, handled, group>>
    BY <1>7 DEF Stop, Restart
  <2>4. QED
    BY <2>1, <2>2, <2>3
<1>8. ASSUME NEW w \in Workers, HandleCommit(w) PROVE TypeOK'
  BY <1>8 DEF HandleCommit
<1>9. ASSUME NEW w \in Workers, Commit(w) \/ Seek(w) PROVE TypeOK'
  <2>1. rec[w][1] \in Partitions /\ rec[w][2] \in Nat
    BY <1>9 DEF Commit, Seek
  <2>2. CASE Ended(w) /\ UNCHANGED <<logEnd, committed, owner, stopping, handled, group, faults>>
    BY <2>2, EndedType
  <2>3. CASE Commit(w) /\ owner[rec[w][1]] = w
    <3>1. /\ committed' = [committed EXCEPT ![rec[w][1]] = rec[w][2] + 1]
          /\ loop' = [loop EXCEPT ![w] = "next"]
          /\ UNCHANGED <<logEnd, owner, position, batch, rec, stopping, handled, group, faults>>
      BY <2>3, Zenon DEF Commit
    <3>2. QED
      BY <2>1, <3>1
  <2>4. CASE Seek(w) /\ position[w][rec[w][1]] # NoPosition
    <3>1. /\ position' = [position EXCEPT ![w][rec[w][1]] = rec[w][2]]
          /\ batch' = [batch EXCEPT ![w] = OthersOf(w)]
          /\ loop' = [loop EXCEPT ![w] = "next"]
          /\ UNCHANGED <<logEnd, committed, owner, rec, stopping, handled, group, faults>>
      BY <2>4, Zenon DEF Seek
    <3>2. OthersOf(w) \in SUBSET Records
      BY DEF OthersOf
    <3>3. position' \in [Workers -> [Partitions -> Nat \cup {NoPosition}]]
      BY <2>1, <3>1
    <3>4. QED
      BY <3>1, <3>2, <3>3
  <2>5. QED
    BY <1>9, <2>2, <2>3, <2>4 DEF Commit, Seek
<1>10. CASE UNCHANGED vars
  BY <1>10 DEF vars
<1>11. QED
  BY <1>1, <1>2, <1>3, <1>4, <1>5, <1>6, <1>7, <1>8, <1>9, <1>10 DEF Next, LoopStep

\* The variables of the consume loop keep their types in every behaviour.
THEOREM TypeCorrect == Spec => []TypeOK
<1>1. Init => TypeOK
  BY DEF Init, TypeOK, Records, NoPosition, NoRecord, InHand, Unassigned
<1>2. QED
  BY <1>1, TypeStep, PTL DEF Spec

-----------------------------------------------------------------------------
\* What a worker knows stays true while others work: handled only grows.
LEMMA WorkerKept ==
  ASSUME NEW v \in Workers, WorkerInv(v), handled \subseteq handled',
         loop'[v] = loop[v], rec'[v] = rec[v], batch'[v] = batch[v],
         position'[v] = position[v]
  PROVE  WorkerInv(v)'
<1>1. \A p, n : HandledBelow(p, n) => HandledBelow(p, n)'
  BY DEF HandledBelow
<1>2. \A p, n : CoveredBelow(v, p, n) => CoveredBelow(v, p, n)'
  BY DEF CoveredBelow, Pending
<1>3. QED
  BY <1>1, <1>2 DEF WorkerInv, InHand

\* The end of run() leaves nothing pending and no position.
LEMMA WorkerEnded ==
  ASSUME TypeOK, NEW w \in Workers, Ended(w)
  PROVE  WorkerInv(w)'
<1>1. loop'[w] = "down" /\ batch'[w] = {} /\ position'[w] = Unassigned
  BY DEF Ended, TypeOK
<1>2. \A p \in Partitions : CoveredBelow(w, p, position[w][p])'
  BY <1>1 DEF CoveredBelow, Unassigned, NoPosition
<1>3. QED
  BY <1>1, <1>2 DEF WorkerInv, InHand

\* The record in hand has a partition and an offset.
LEMMA RecordInHand ==
  ASSUME TypeOK, NEW w \in Workers, loop[w] \in InHand
  PROVE  \E q \in Partitions, m \in Nat : rec[w] = <<q, m>>
<1>1. rec[w] \in Partitions \X Nat
  BY DEF TypeOK, Records
<1>2. \A r \in Partitions \X Nat : \E q \in Partitions, m \in Nat : r = <<q, m>>
  OBVIOUS
<1>3. QED
  BY <1>1, <1>2

\* Every step keeps the invariant.
LEMMA InvStep == IInv /\ [Next]_vars => IInv'
<1> SUFFICES ASSUME IInv, [Next]_vars PROVE IInv'
  OBVIOUS
<1>t. TypeOK /\ TypeOK' /\ GroupInv /\ OrderInv /\ LoopInv
  BY TypeStep DEF IInv
<1>s. ASSUME UNCHANGED <<committed, handled>>, LoopInv' PROVE IInv'
  BY <1>t, <1>s DEF IInv, GroupInv, OrderInv, HandledBelow
<1>k. ASSUME UNCHANGED <<loop, rec, batch, position, handled>> PROVE LoopInv'
  BY <1>t, <1>k, WorkerKept DEF LoopInv
<1>1. ASSUME NEW p \in Partitions, Append(p) PROVE IInv'
  BY <1>1, <1>s, <1>k DEF Append
<1>2. ASSUME NEW members \in SUBSET Workers, Rebalance(members) PROVE IInv'
  <2>1. UNCHANGED <<committed, handled, rec, batch>>
    BY <1>2 DEF Rebalance
  <2>2. ASSUME NEW v \in Workers PROVE WorkerInv(v)'
    <3>1. CASE v \notin members
      <4>1. position'[v] = position[v] /\ loop'[v] = loop[v]
        BY <1>2, <3>1 DEF Rebalance
      <4>2. QED
        BY <1>t, <2>1, <4>1, WorkerKept DEF LoopInv
    <3>2. CASE v \in members
      <4>1. \A p \in Partitions : position'[v][p] \in {committed[p], NoPosition}
        BY <1>2, <3>2 DEF Rebalance
      <4>2. \A p \in Partitions : HandledBelow(p, committed[p])
        BY <1>t DEF GroupInv
      <4>3. \A p \in Partitions : CoveredBelow(v, p, position[v][p])'
        BY <2>1, <4>1, <4>2 DEF CoveredBelow, HandledBelow, NoPosition
      <4>4. loop'[v] = loop[v] \/ (loop[v] = "join" /\ loop'[v] = "poll")
        BY <1>2 DEF Rebalance
      <4>5. \A p, n : CoveredBelow(v, p, n) => CoveredBelow(v, p, n)'
        BY <2>1, <4>4 DEF CoveredBelow, Pending
      <4>6. WorkerInv(v)
        BY <1>t DEF LoopInv
      <4>7. QED
        BY <2>1, <4>3, <4>4, <4>5, <4>6 DEF WorkerInv, HandledBelow, InHand
    <3>3. QED
      BY <3>1, <3>2
  <2>3. QED
    BY <1>s, <2>1, <2>2 DEF LoopInv
<1>w. ASSUME NEW w \in Workers, UNCHANGED <<committed, handled>>, WorkerInv(w)',
             \A v \in Workers \ {w} : /\ loop'[v] = loop[v] /\ rec'[v] = rec[v]
                                     /\ batch'[v] = batch[v] /\ position'[v] = position[v]
      PROVE IInv'
  BY <1>t, <1>s, <1>w, WorkerKept DEF LoopInv
<1>e. ASSUME NEW w \in Workers, Ended(w), UNCHANGED <<committed, handled>> PROVE IInv'
  <2>1. \A v \in Workers \ {w} : /\ loop'[v] = loop[v] /\ rec'[v] = rec[v]
                                /\ batch'[v] = batch[v] /\ position'[v] = position[v]
    BY <1>t, <1>e DEF Ended, TypeOK
  <2>2. QED
    BY <1>t, <1>e, <1>w, <2>1, WorkerEnded
<1>3. ASSUME NEW w \in Workers, GetMany(w) PROVE IInv'
  <2>1. PICK upto \in [Partitions -> NoPosition..MaxLen] :
          /\ \A p \in Partitions : MayFetch(w, p, upto[p])
          /\ batch' = [batch EXCEPT ![w] = Fetched(w, upto)]
          /\ position' = [position EXCEPT ![w] = upto]
    BY <1>3 DEF GetMany
  <2>2. /\ loop[w] = "poll" /\ loop' = [loop EXCEPT ![w] = "next"]
        /\ UNCHANGED <<committed, handled, rec>>
    BY <1>3 DEF GetMany
  <2>3. loop'[w] = "next" /\ batch'[w] = Fetched(w, upto) /\ position'[w] = upto
    BY <1>t, <2>1, <2>2 DEF TypeOK
  <2>4. batch[w] = {} /\ Pending(w) = {}
    BY <1>t, <2>2 DEF LoopInv, WorkerInv, Pending
  <2>5. Pending(w)' = Fetched(w, upto)
    BY <2>3 DEF Pending
  <2>6. ASSUME NEW p \in Partitions, NEW o \in Nat, o < upto[p]
        PROVE  <<p, o>> \in handled \/ <<p, o>> \in Fetched(w, upto)
    <3>1. position[w][p] \in Nat /\ upto[p] \in Int /\ upto[p] <= MaxLen /\ MaxLen \in Nat
      BY <1>t, <2>1, <2>6, GroupAssumption DEF MayFetch, NoPosition, TypeOK
    <3>2. CASE o < position[w][p]
      BY <1>t, <2>4, <3>1, <3>2 DEF LoopInv, WorkerInv, CoveredBelow
    <3>3. CASE position[w][p] <= o
      BY <2>6, <3>1, <3>3 DEF Fetched, NoPosition
    <3>4. QED
      BY <3>1, <3>2, <3>3
  <2>7. \A p \in Partitions : CoveredBelow(w, p, position[w][p])'
    BY <2>2, <2>3, <2>5, <2>6 DEF CoveredBelow
  <2>8. ASSUME NEW p \in Partitions, NEW n \in Nat, <<p, n>> \in batch'[w]
        PROVE  CoveredBelow(w, p, n)'
    <3>1. n < upto[p] /\ upto[p] \in Int
      BY <2>3, <2>8, GroupAssumption DEF Fetched, NoPosition
    <3>2. QED
      BY <2>2, <2>5, <2>6, <3>1 DEF CoveredBelow
  <2>9. WorkerInv(w)'
    BY <2>3, <2>7, <2>8 DEF WorkerInv, InHand
  <2>10. QED
    BY <1>t, <1>w, <2>1, <2>2, <2>9 DEF TypeOK
<1>4. ASSUME NEW w \in Workers, GetManyRaises(w) \/ Stopped(w) \/ Crash(w) PROVE IInv'
  BY <1>4, <1>e DEF GetManyRaises, Stopped, Crash
<1>5. ASSUME NEW w \in Workers, TakeRecord(w) PROVE IInv'
  <2>1. PICK r \in batch[w] :
          /\ IsNext(w, r)
          /\ rec' = [rec EXCEPT ![w] = r]
          /\ batch' = [batch EXCEPT ![w] = batch[w] \ {r}]
    BY <1>5 DEF TakeRecord
  <2>2. /\ loop[w] = "next" /\ loop' = [loop EXCEPT ![w] = "handle"]
        /\ UNCHANGED <<committed, handled, position>>
    BY <1>5 DEF TakeRecord
  <2>3. loop'[w] = "handle" /\ rec'[w] = r /\ batch'[w] = batch[w] \ {r}
    BY <1>t, <2>1, <2>2 DEF TypeOK
  <2>4. PICK q \in Partitions, m \in Nat : r = <<q, m>>
    BY <1>t, <2>1 DEF TypeOK, Records
  <2>5. Pending(w)' = Pending(w)
    BY <2>1, <2>2, <2>3 DEF Pending
  <2>6. \A p, n : CoveredBelow(w, p, n) => CoveredBelow(w, p, n)'
    BY <2>2, <2>5 DEF CoveredBelow
  <2>7. HandledBelow(q, m)
    <3>1. Pending(w) = batch[w]
      BY <2>2 DEF Pending
    <3>2. CoveredBelow(w, q, m)
      BY <1>t, <2>1, <2>4 DEF LoopInv, WorkerInv
    <3>3. \A o \in Nat : <<q, o>> \in batch[w] => m <= o
      BY <2>1, <2>4 DEF IsNext
    <3>4. QED
      BY <3>1, <3>2, <3>3 DEF CoveredBelow, HandledBelow
  <2>8. WorkerInv(w)'
    BY <1>t, <2>2, <2>3, <2>4, <2>6, <2>7 DEF LoopInv, WorkerInv, HandledBelow
  <2>9. QED
    BY <1>t, <1>w, <2>1, <2>2, <2>8 DEF TypeOK
<1>6. ASSUME NEW w \in Workers, BatchDone(w) \/ HandleRedeliver(w) \/ Restart(w) PROVE IInv'
  <2>1. /\ UNCHANGED <<committed, handled, position, batch>>
        /\ \/ /\ loop[w] = "next" /\ batch[w] = {} /\ loop' = [loop EXCEPT ![w] = "poll"]
              /\ rec' = [rec EXCEPT ![w] = NoRecord]
           \/ loop[w] = "handle" /\ loop' = [loop EXCEPT ![w] = "seek"] /\ UNCHANGED rec
           \/ loop[w] = "down" /\ loop' = [loop EXCEPT ![w] = "join"] /\ UNCHANGED rec
    BY <1>6 DEF BatchDone, HandleRedeliver, Restart
  <2>2. Pending(w)' = Pending(w)
    BY <1>t, <2>1 DEF Pending, TypeOK
  <2>3. \A p, n : CoveredBelow(w, p, n) => CoveredBelow(w, p, n)'
    BY <2>1, <2>2 DEF CoveredBelow
  <2>4. /\ loop'[w] = "seek" => loop[w] = "handle"
        /\ loop'[w] = "seek" => rec'[w] = rec[w]
        /\ loop'[w] \in {"join", "poll"} => batch[w] = {}
        /\ loop'[w] \in {"seek", "join", "poll"}
    BY <1>t, <2>1 DEF TypeOK, LoopInv, WorkerInv
  <2>5. WorkerInv(w)
    BY <1>t DEF LoopInv
  <2>6. WorkerInv(w)'
    BY <2>1, <2>3, <2>4, <2>5 DEF WorkerInv, HandledBelow, InHand
  <2>7. QED
    BY <1>t, <1>w, <2>1, <2>6 DEF TypeOK
<1>7. ASSUME NEW w \in Workers, Stop(w) PROVE IInv'
  BY <1>7, <1>s, <1>k DEF Stop
<1>8. ASSUME NEW w \in Workers, HandleCommit(w) PROVE IInv'
  <2>1. /\ loop[w] = "handle" /\ loop' = [loop EXCEPT ![w] = "commit"]
        /\ handled' = handled \cup {rec[w]}
        /\ UNCHANGED <<committed, position, batch, rec>>
    BY <1>8 DEF HandleCommit
  <2>2. PICK q \in Partitions, m \in Nat : rec[w] = <<q, m>>
    BY <1>t, <2>1, RecordInHand DEF InHand
  <2>3. HandledBelow(q, m)
    BY <1>t, <2>1, <2>2 DEF LoopInv, WorkerInv, InHand
  <2>4. \A p, n : HandledBelow(p, n) => HandledBelow(p, n)'
    BY <2>1 DEF HandledBelow
  <2>5. GroupInv' /\ OrderInv'
    BY <1>t, <2>1, <2>2, <2>3, <2>4 DEF GroupInv, OrderInv
  <2>6. loop'[w] = "commit"
    BY <1>t, <2>1 DEF TypeOK
  <2>7. \A p, n : CoveredBelow(w, p, n) => CoveredBelow(w, p, n)'
    BY <2>1, <2>6 DEF CoveredBelow, Pending
  <2>8. WorkerInv(w)'
    BY <1>t, <2>1, <2>2, <2>3, <2>4, <2>6, <2>7 DEF LoopInv, WorkerInv
  <2>9. \A v \in Workers \ {w} : WorkerInv(v)'
    BY <1>t, <2>1, WorkerKept DEF LoopInv, TypeOK
  <2>10. QED
    BY <1>t, <2>5, <2>8, <2>9 DEF IInv, LoopInv
<1>9. ASSUME NEW w \in Workers, Commit(w), owner[rec[w][1]] = w PROVE IInv'
  <2>1. /\ loop[w] = "commit" /\ loop' = [loop EXCEPT ![w] = "next"]
        /\ committed' = [committed EXCEPT ![rec[w][1]] = rec[w][2] + 1]
        /\ UNCHANGED <<position, batch, rec, handled>>
    BY <1>9, Zenon DEF Commit
  <2>2. PICK q \in Partitions, m \in Nat : rec[w] = <<q, m>>
    BY <1>t, <2>1, RecordInHand DEF InHand
  <2>3. HandledBelow(q, m) /\ <<q, m>> \in handled
    BY <1>t, <2>1, <2>2 DEF LoopInv, WorkerInv, InHand
  <2>4. HandledBelow(q, m + 1)
    BY <2>3 DEF HandledBelow
  <2>5. GroupInv'
    BY <1>t, <2>1, <2>2, <2>4 DEF GroupInv, HandledBelow, TypeOK
  <2>6. loop'[w] = "next"
    BY <1>t, <2>1 DEF TypeOK
  <2>7. \A p, n : CoveredBelow(w, p, n) => CoveredBelow(w, p, n)'
    BY <2>1, <2>6 DEF CoveredBelow, Pending
  <2>8. WorkerInv(w)'
    BY <1>t, <2>1, <2>6, <2>7 DEF LoopInv, WorkerInv, InHand
  <2>9. \A v \in Workers \ {w} : WorkerInv(v)'
    BY <1>t, <2>1, WorkerKept DEF LoopInv, TypeOK
  <2>10. QED
    BY <1>t, <2>1, <2>5, <2>8, <2>9 DEF IInv, LoopInv, OrderInv, HandledBelow
<1>10. ASSUME NEW w \in Workers, Seek(w), position[w][rec[w][1]] # NoPosition PROVE IInv'
  <2>1. /\ loop[w] = "seek" /\ loop' = [loop EXCEPT ![w] = "next"]
        /\ position' = [position EXCEPT ![w][rec[w][1]] = rec[w][2]]
        /\ batch' = [batch EXCEPT ![w] = OthersOf(w)]
        /\ UNCHANGED <<committed, rec, handled>>
    BY <1>10, Zenon DEF Seek
  <2>2. PICK q \in Partitions, m \in Nat : rec[w] = <<q, m>>
    BY <1>t, <2>1, RecordInHand DEF InHand
  <2>3. HandledBelow(q, m)
    BY <1>t, <2>1, <2>2 DEF LoopInv, WorkerInv, InHand
  <2>4. /\ loop'[w] = "next" /\ batch'[w] = OthersOf(w)
        /\ position'[w] = [position[w] EXCEPT ![q] = m]
    BY <1>t, <2>1, <2>2 DEF TypeOK
  <2>5. \A p \in Partitions \ {q} : \A n : CoveredBelow(w, p, n) => CoveredBelow(w, p, n)'
    BY <2>1, <2>2, <2>4 DEF CoveredBelow, Pending, OthersOf
  <2>6. CoveredBelow(w, q, m)'
    BY <2>1, <2>3 DEF CoveredBelow, HandledBelow
  <2>7. \A p \in Partitions : CoveredBelow(w, p, position[w][p])'
    BY <1>t, <2>4, <2>5, <2>6 DEF LoopInv, WorkerInv, TypeOK
  <2>8. \A p \in Partitions : \A n \in Nat : <<p, n>> \in batch'[w] => p # q /\ <<p, n>> \in batch[w]
    BY <2>2, <2>4 DEF OthersOf
  <2>9. WorkerInv(w)'
    BY <1>t, <2>1, <2>4, <2>5, <2>7, <2>8 DEF LoopInv, WorkerInv, InHand
  <2>10. QED
    BY <1>t, <1>w, <2>1, <2>9 DEF TypeOK
<1>11. ASSUME NEW w \in Workers, Commit(w) \/ Seek(w) PROVE IInv'
  BY <1>e, <1>9, <1>10, <1>11 DEF Commit, Seek
<1>12. CASE UNCHANGED vars
  BY <1>12, <1>s, <1>k DEF vars
<1>13. QED
  BY <1>1, <1>2, <1>3, <1>4, <1>5, <1>6, <1>7, <1>8, <1>11, <1>12
  DEF Next, LoopStep, Assign, Reassign

\* The loop starts with nothing committed, handled or pending.
LEMMA InitInv == Init => IInv
<1> SUFFICES ASSUME Init PROVE IInv
  OBVIOUS
<1>1. TypeOK
  BY DEF Init, TypeOK, Records, NoPosition, NoRecord, InHand, Unassigned
<1>2. GroupInv /\ OrderInv
  BY DEF Init, GroupInv, OrderInv, HandledBelow
<1>3. LoopInv
  BY DEF Init, LoopInv, WorkerInv, CoveredBelow, InHand, Unassigned, NoPosition
<1>4. QED
  BY <1>1, <1>2, <1>3 DEF IInv

\* The inductive invariant implies what the runs check.
LEMMA InvImplies == IInv => CommittedIsHandled /\ HandledInOrder
<1> SUFFICES ASSUME IInv PROVE CommittedIsHandled /\ HandledInOrder
  OBVIOUS
<1>1. CommittedIsHandled
  <2>1. ASSUME NEW p \in Partitions, NEW o \in 0..(committed[p] - 1)
        PROVE  <<p, o>> \in handled
    <3>1. committed[p] \in Nat /\ HandledBelow(p, committed[p])
      BY DEF IInv, TypeOK, GroupInv
    <3>2. QED
      BY <3>1 DEF HandledBelow
  <2>2. QED
    BY <2>1 DEF CommittedIsHandled
<1>2. HandledInOrder
  <2>1. \A r \in handled : r \in Partitions \X Nat
    BY DEF IInv, TypeOK, Records
  <2>2. ASSUME NEW r \in handled, NEW o \in 0..(r[2] - 1) PROVE <<r[1], o>> \in handled
    <3>1. PICK q \in Partitions, m \in Nat : r = <<q, m>>
      BY <2>1
    <3>2. QED
      BY <2>2, <3>1 DEF IInv, OrderInv, HandledBelow
  <2>3. QED
    BY <2>2 DEF HandledInOrder
<1>3. QED
  BY <1>1, <1>2

\* At-least-once for every group: no offset is ever committed over a record that
\* no handler has finished.
THEOREM AtLeastOnce == Spec => []CommittedIsHandled
<1>1. QED
  BY InitInv, InvStep, InvImplies, PTL DEF Spec

\* First deliveries of a partition are handled in offset order, for every group.
THEOREM InOrder == Spec => []HandledInOrder
<1>1. QED
  BY InitInv, InvStep, InvImplies, PTL DEF Spec

-----------------------------------------------------------------------------
\* The workers have only records that exist.
Exists(r) == r[2] < logEnd[r[1]]

BoundInv ==
  \A w \in Workers :
    /\ \A r \in batch[w] : Exists(r)
    /\ loop[w] \in InHand => Exists(rec[w])

\* Every step keeps the records of the workers within the log.
LEMMA BoundStep == TypeOK /\ BoundInv /\ [Next]_vars => BoundInv'
<1> SUFFICES ASSUME TypeOK, BoundInv, [Next]_vars PROVE BoundInv'
  OBVIOUS
<1> USE DEF BoundInv, InHand
<1>1. ASSUME NEW p \in Partitions, Append(p) PROVE BoundInv'
  <2>1. \A r \in Records : Exists(r) => Exists(r)'
    BY <1>1 DEF Append, Exists, Records, TypeOK
  <2>2. QED
    BY <1>1, <2>1 DEF Append, TypeOK
<1>s. ASSUME UNCHANGED logEnd PROVE \A r : Exists(r) => Exists(r)'
  BY <1>s DEF Exists
<1>e. ASSUME NEW w \in Workers, Ended(w), UNCHANGED logEnd PROVE BoundInv'
  BY <1>e, <1>s DEF Ended, TypeOK
<1>2. ASSUME NEW members \in SUBSET Workers, Rebalance(members) PROVE BoundInv'
  <2>1. /\ UNCHANGED <<logEnd, batch, rec>>
        /\ \A w \in Workers : loop'[w] \in InHand => loop[w] \in InHand
    BY <1>2 DEF Rebalance
  <2>2. QED
    BY <1>s, <2>1
<1>3. ASSUME NEW w \in Workers, GetMany(w) PROVE BoundInv'
  <2>1. PICK upto \in [Partitions -> NoPosition..MaxLen] :
          /\ \A p \in Partitions : MayFetch(w, p, upto[p])
          /\ batch' = [batch EXCEPT ![w] = Fetched(w, upto)]
    BY <1>3 DEF GetMany
  <2>2. loop' = [loop EXCEPT ![w] = "next"] /\ UNCHANGED <<logEnd, rec>>
    BY <1>3 DEF GetMany
  <2>3. ASSUME NEW r \in Fetched(w, upto) PROVE Exists(r)
    <3>1. r[1] \in Partitions /\ r[2] \in Nat
      BY GroupAssumption DEF Fetched
    <3>2. r[2] < upto[r[1]] /\ upto[r[1]] <= logEnd[r[1]]
      BY <2>1, <3>1 DEF Fetched, MayFetch
    <3>3. upto[r[1]] \in Int /\ logEnd[r[1]] \in Nat
      BY <3>1, GroupAssumption DEF TypeOK, NoPosition
    <3>4. QED
      BY <3>1, <3>2, <3>3 DEF Exists
  <2>4. QED
    BY <1>s, <2>1, <2>2, <2>3 DEF TypeOK
<1>4. ASSUME NEW w \in Workers, GetManyRaises(w) \/ Stopped(w) \/ Crash(w) PROVE BoundInv'
  BY <1>4, <1>e DEF GetManyRaises, Stopped, Crash
<1>5. ASSUME NEW w \in Workers, TakeRecord(w) PROVE BoundInv'
  BY <1>5, <1>s DEF TakeRecord, TypeOK
<1>6. ASSUME NEW w \in Workers,
             BatchDone(w) \/ HandleCommit(w) \/ HandleRedeliver(w) \/ Restart(w) \/ Stop(w)
      PROVE BoundInv'
  BY <1>6, <1>s DEF BatchDone, HandleCommit, HandleRedeliver, Restart, Stop, TypeOK
<1>7. ASSUME NEW w \in Workers, Commit(w), owner[rec[w][1]] = w PROVE BoundInv'
  <2>1. loop' = [loop EXCEPT ![w] = "next"] /\ UNCHANGED <<logEnd, batch, rec>>
    BY <1>7, Zenon DEF Commit
  <2>2. QED
    BY <1>s, <2>1 DEF TypeOK
<1>8. ASSUME NEW w \in Workers, Seek(w), position[w][rec[w][1]] # NoPosition PROVE BoundInv'
  <2>1. /\ loop' = [loop EXCEPT ![w] = "next"]
        /\ batch' = [batch EXCEPT ![w] = OthersOf(w)]
        /\ UNCHANGED <<logEnd, rec>>
    BY <1>8, Zenon DEF Seek
  <2>2. OthersOf(w) \subseteq batch[w]
    BY DEF OthersOf
  <2>3. QED
    BY <1>s, <2>1, <2>2 DEF TypeOK
<1>9. ASSUME NEW w \in Workers, Commit(w) \/ Seek(w) PROVE BoundInv'
  BY <1>e, <1>7, <1>8, <1>9 DEF Commit, Seek
<1>10. CASE UNCHANGED vars
  BY <1>10, <1>s DEF vars
<1>11. QED
  BY <1>1, <1>2, <1>3, <1>4, <1>5, <1>6, <1>9, <1>10 DEF Next, LoopStep, Assign, Reassign

\* Every step of the loop is a step of the promise, or does not touch the topic.
LEMMA PromiseStep ==
  ASSUME IInv, BoundInv, [Next]_vars
  PROVE  [Promise!Next]_(Promise!vars)
<1> DEFINE Same == UNCHANGED <<logEnd, committed, handled>>
<1>s. Same => [Promise!Next]_(Promise!vars)
  BY DEF Promise!vars
<1>t. TypeOK
  BY DEF IInv
<1>1. ASSUME NEW p \in Partitions, Append(p) PROVE Promise!Next
  <2>1. Promise!Append(p)
    BY <1>1 DEF Append, Promise!Append
  <2>2. QED
    BY <2>1 DEF Promise!Next
<1>2. ASSUME NEW members \in SUBSET Workers, Rebalance(members) PROVE Same
  BY <1>2 DEF Rebalance
<1>3. ASSUME NEW w \in Workers, HandleCommit(w) PROVE Promise!Next
  <2>1. PICK q \in Partitions, m \in Nat : rec[w] = <<q, m>>
    BY <1>t, <1>3, RecordInHand DEF HandleCommit, InHand
  <2>2. loop[w] = "handle" /\ handled' = handled \cup {<<q, m>>}
        /\ UNCHANGED <<logEnd, committed>>
    BY <1>3, <2>1 DEF HandleCommit
  <2>3. HandledBelow(q, m)
    BY <2>1, <2>2 DEF IInv, LoopInv, WorkerInv, InHand
  <2>4. m \in 0..(logEnd[q] - 1)
    BY <1>t, <2>1, <2>2 DEF BoundInv, Exists, InHand, TypeOK
  <2>5. Promise!Handle(q, m)
    BY <2>2, <2>3 DEF Promise!Handle, Promise!HandledUpTo, HandledBelow
  <2>6. QED
    BY <2>4, <2>5 DEF Promise!Next
<1>4. ASSUME NEW w \in Workers, Commit(w), owner[rec[w][1]] = w PROVE Promise!Next
  <2>1. PICK q \in Partitions, m \in Nat : rec[w] = <<q, m>>
    BY <1>t, <1>4, RecordInHand DEF Commit, InHand
  <2>2. /\ loop[w] = "commit"
        /\ committed' = [committed EXCEPT ![rec[w][1]] = rec[w][2] + 1]
        /\ UNCHANGED <<logEnd, handled>>
    BY <1>4, Zenon DEF Commit
  <2>3. HandledBelow(q, m) /\ <<q, m>> \in handled
    BY <2>1, <2>2 DEF IInv, LoopInv, WorkerInv, InHand
  <2>4. m + 1 \in 0..logEnd[q]
    BY <1>t, <2>1, <2>2 DEF BoundInv, Exists, InHand, TypeOK
  <2>5. \A o \in 0..((m + 1) - 1) : <<q, o>> \in handled
    BY <2>3 DEF HandledBelow
  <2>6. Promise!CommitOffset(q, m + 1)
    BY <2>1, <2>2, <2>5 DEF Promise!CommitOffset, Promise!HandledUpTo
  <2>7. QED
    BY <2>4, <2>6 DEF Promise!Next
<1>5. ASSUME NEW w \in Workers, Commit(w), owner[rec[w][1]] # w PROVE Same
  BY <1>5, Zenon DEF Commit
<1>6. ASSUME NEW w \in Workers, Seek(w) PROVE Same
  BY <1>6, Zenon DEF Seek
<1>7. ASSUME NEW w \in Workers,
             \/ GetMany(w) \/ GetManyRaises(w) \/ TakeRecord(w) \/ BatchDone(w)
             \/ HandleRedeliver(w) \/ Stopped(w) \/ Stop(w) \/ Crash(w) \/ Restart(w)
      PROVE Same
  BY <1>7 DEF GetMany, GetManyRaises, TakeRecord, BatchDone, HandleRedeliver, Stopped, Stop,
              Crash, Restart
<1>8. UNCHANGED vars => Same
  BY DEF vars
<1> HIDE DEF Same
<1>9. Promise!Next \/ Same
  BY <1>1, <1>2, <1>3, <1>4, <1>5, <1>6, <1>7, <1>8
  DEF Next, LoopStep, Assign, Reassign, Same, vars
<1>10. QED
  BY <1>s, <1>9

\* The consume loop implements at-least-once, in-order delivery of its topic, for
\* every group, whatever rebalances, shutdowns and crashes do to its workers.
THEOREM LoopImplementsDelivery == Spec => ImplementsTopicDelivery
<1>1. Init => Promise!Init
  BY DEF Init, Promise!Init
<1>2. Init => BoundInv
  BY DEF Init, BoundInv, InHand
<1>3. IInv /\ BoundInv /\ [Next]_vars => [Promise!Next]_(Promise!vars)
  BY PromiseStep
<1>4. IInv => TypeOK
  BY DEF IInv
<1>5. QED
  BY <1>1, <1>2, <1>3, <1>4, InitInv, InvStep, BoundStep, PTL
  DEF Spec, ImplementsTopicDelivery, Promise!Spec

-----------------------------------------------------------------------------
(* A group that has not been rebalanced since its first assignment.        *)

Quiet == group # "rebalanced"

\* Nobody has been assigned anything.
Fresh ==
  /\ handled = {}
  /\ \A w \in Workers : position[w] = Unassigned /\ batch[w] = {} /\ loop[w] \in {"join", "down"}

\* Every partition is fetched by its owner and by nobody else.
Shared ==
  \A p \in Partitions, w \in Workers : position[w][p] # NoPosition => owner[p] = w

\* What w holds of partition p lies below its position and was not handled; what
\* was handled lies below its position, too.
Holds(w, p) ==
  /\ position[w][p] = NoPosition =>
       /\ \A n \in Nat : <<p, n>> \notin batch[w]
       /\ loop[w] \in InHand => rec[w][1] # p
  /\ \A n \in Nat :
       /\ <<p, n>> \in batch[w] => <<p, n>> \notin handled /\ n < position[w][p]
       /\ <<p, n>> = rec[w] /\ loop[w] \in {"handle", "seek"} =>
            <<p, n>> \notin handled /\ <<p, n>> \notin batch[w] /\ n < position[w][p]
       /\ <<p, n>> \in handled /\ position[w][p] # NoPosition => n < position[w][p]

QuietInv ==
  Quiet =>
    /\ group = "new" => Fresh
    /\ Shared
    /\ \A w \in Workers, p \in Partitions : Holds(w, p)

\* What w holds stays so while others work and p is left alone.
LEMMA HoldsKept ==
  ASSUME NEW w \in Workers, NEW p \in Partitions, Holds(w, p),
         position'[w][p] = position[w][p], batch'[w] = batch[w], rec'[w] = rec[w], loop'[w] = loop[w],
         \A n \in Nat : <<p, n>> \in handled' => <<p, n>> \in handled
  PROVE  Holds(w, p)'
  BY DEF Holds

\* Every step keeps a quiet group in order.
LEMMA QuietStep == IInv /\ QuietInv /\ [Next]_vars => QuietInv'
<1> SUFFICES ASSUME IInv, QuietInv, [Next]_vars, Quiet' PROVE QuietInv'
  BY DEF QuietInv
<1>t. TypeOK /\ OrderInv /\ TypeOK'
  BY TypeStep DEF IInv
<1>q. Quiet
  <2>1. group' = group \/ \E members \in SUBSET Workers : Rebalance(members)
    BY DEF Next, LoopStep, Append, Assign, Reassign, GetMany, GetManyRaises, TakeRecord, BatchDone,
           HandleCommit, HandleRedeliver, Commit, Seek, Stopped, Stop, Crash, Restart, vars
  <2>2. QED
    BY <1>t, <2>1 DEF Quiet, Rebalance
<1>0. /\ group = "new" => Fresh
      /\ Shared
      /\ \A w \in Workers, p \in Partitions : Holds(w, p)
  BY <1>q DEF QuietInv
\* The step of one worker that leaves the group and what was handled alone.
<1>w. ASSUME NEW w \in Workers, UNCHANGED <<owner, handled, group>>,
             group = "new" => Fresh', \A p \in Partitions : Holds(w, p)',
             \A p \in Partitions : position'[w][p] # NoPosition => position[w][p] # NoPosition,
             \A v \in Workers \ {w} : /\ loop'[v] = loop[v] /\ rec'[v] = rec[v]
                                     /\ batch'[v] = batch[v] /\ position'[v] = position[v]
      PROVE  QuietInv'
  <2>1. Shared'
    BY <1>0, <1>w DEF Shared
  <2>2. \A v \in Workers, p \in Partitions : Holds(v, p)'
    BY <1>0, <1>w, HoldsKept
  <2>3. QED
    BY <1>w, <2>1, <2>2 DEF QuietInv
<1>1. ASSUME UNCHANGED <<owner, position, loop, batch, rec, handled, group>> PROVE QuietInv'
  BY <1>0, <1>1, HoldsKept DEF QuietInv, Fresh, Shared
<1>2. ASSUME NEW members \in SUBSET Workers, Rebalance(members) PROVE QuietInv'
  <2>1. group = "new" /\ group' = "first" /\ Fresh
    BY <1>0, <1>2, <1>t DEF Rebalance, Quiet
  <2>2. /\ owner' \in [Partitions -> members]
        /\ UNCHANGED <<committed, batch, rec, handled>>
        /\ \A w \in Workers : loop'[w] \notin InHand
    BY <1>2, <2>1 DEF Rebalance, Fresh, InHand
  <2>3. \A w \in Workers, p \in Partitions :
          position'[w][p] = IF w \in members /\ owner'[p] = w THEN committed[p] ELSE NoPosition
    BY <1>2, <2>1 DEF Rebalance, Fresh, Unassigned
  <2>4. Shared'
    BY <2>2, <2>3 DEF Shared
  <2>5. \A w \in Workers, p \in Partitions : Holds(w, p)'
    BY <2>1, <2>2 DEF Holds, Fresh, InHand
  <2>6. QED
    BY <2>1, <2>4, <2>5 DEF QuietInv
<1>s. ASSUME NEW w \in Workers, loop[w] \notin {"join", "down"} PROVE group # "new"
  BY <1>0, <1>s DEF Fresh
<1>e. ASSUME NEW w \in Workers, Ended(w), UNCHANGED <<owner, handled, group>> PROVE QuietInv'
  <2>1. loop'[w] = "down" /\ batch'[w] = {} /\ position'[w] = Unassigned
    BY <1>e, <1>t DEF Ended, TypeOK
  <2>2. \A v \in Workers \ {w} : /\ loop'[v] = loop[v] /\ rec'[v] = rec[v]
                                /\ batch'[v] = batch[v] /\ position'[v] = position[v]
    BY <1>e, <1>t DEF Ended, TypeOK
  <2>3. \A p \in Partitions : position'[w][p] = NoPosition
    BY <2>1 DEF Unassigned
  <2>4. \A p \in Partitions : Holds(w, p)'
    BY <2>1, <2>3 DEF Holds, InHand
  <2>5. group = "new" => Fresh'
    BY <1>0, <1>e, <2>1, <2>2 DEF Fresh
  <2>6. QED
    BY <1>e, <1>w, <2>2, <2>3, <2>4, <2>5
<1>3. ASSUME NEW w \in Workers, GetMany(w) PROVE QuietInv'
  <2>1. PICK upto \in [Partitions -> NoPosition..MaxLen] :
          /\ \A p \in Partitions : MayFetch(w, p, upto[p])
          /\ Fetched(w, upto) # {}
          /\ batch' = [batch EXCEPT ![w] = Fetched(w, upto)]
          /\ position' = [position EXCEPT ![w] = upto]
    BY <1>3 DEF GetMany
  <2>2. /\ loop[w] = "poll" /\ loop' = [loop EXCEPT ![w] = "next"]
        /\ UNCHANGED <<owner, handled, rec, group>>
    BY <1>3 DEF GetMany
  <2>3. loop'[w] = "next" /\ batch'[w] = Fetched(w, upto) /\ position'[w] = upto
    BY <1>t, <2>1, <2>2 DEF TypeOK
  <2>4. group # "new"
    BY <1>s, <2>2
  <2>5. ASSUME NEW p \in Partitions PROVE Holds(w, p)' /\ (upto[p] = NoPosition <=> position[w][p] = NoPosition)
    <3>1. position[w][p] \in Nat \cup {NoPosition} /\ upto[p] \in Int /\ MayFetch(w, p, upto[p])
      BY <1>t, <2>1, GroupAssumption DEF TypeOK, NoPosition
    <3>2. \A n \in Nat : <<p, n>> \in Fetched(w, upto) =>
            position[w][p] # NoPosition /\ position[w][p] <= n /\ n < upto[p]
      BY DEF Fetched
    <3>3. \A n \in Nat : <<p, n>> \in handled /\ position[w][p] # NoPosition => n < position[w][p]
      BY <1>0 DEF Holds
    <3>4. upto[p] = NoPosition <=> position[w][p] = NoPosition
      BY <3>1 DEF MayFetch, NoPosition
    <3>5. ASSUME NEW n \in Nat, position[w][p] # NoPosition
          PROVE  /\ <<p, n>> \in Fetched(w, upto) => <<p, n>> \notin handled
                 /\ <<p, n>> \in handled => n < upto[p]
      BY <3>1, <3>2, <3>3, <3>5 DEF MayFetch, NoPosition
    <3>6. QED
      BY <2>2, <2>3, <3>2, <3>4, <3>5 DEF Holds, InHand
  <2>6. QED
    BY <1>t, <1>w, <2>1, <2>2, <2>3, <2>4, <2>5 DEF TypeOK
<1>4. ASSUME NEW w \in Workers, GetManyRaises(w) \/ Stopped(w) \/ Crash(w) PROVE QuietInv'
  BY <1>4, <1>e DEF GetManyRaises, Stopped, Crash
<1>5. ASSUME NEW w \in Workers, TakeRecord(w) PROVE QuietInv'
  <2>1. PICK r \in batch[w] : /\ rec' = [rec EXCEPT ![w] = r]
                              /\ batch' = [batch EXCEPT ![w] = batch[w] \ {r}]
    BY <1>5 DEF TakeRecord
  <2>2. /\ loop[w] = "next" /\ loop' = [loop EXCEPT ![w] = "handle"]
        /\ UNCHANGED <<owner, position, handled, group>>
    BY <1>5 DEF TakeRecord
  <2>3. loop'[w] = "handle" /\ rec'[w] = r /\ batch'[w] = batch[w] \ {r}
    BY <1>t, <2>1, <2>2 DEF TypeOK
  <2>4. PICK q \in Partitions, m \in Nat : r = <<q, m>>
    BY <1>t, <2>1 DEF TypeOK, Records
  <2>5. ASSUME NEW p \in Partitions PROVE Holds(w, p)'
    BY <1>0, <2>2, <2>3, <2>4 DEF Holds
  <2>6. QED
    BY <1>s, <1>t, <1>w, <2>1, <2>2, <2>3, <2>5 DEF TypeOK
<1>6. ASSUME NEW w \in Workers, BatchDone(w) \/ HandleRedeliver(w) \/ Restart(w) PROVE QuietInv'
  <2>1. /\ UNCHANGED <<owner, handled, group, position, batch>>
        /\ \/ loop[w] = "next" /\ loop' = [loop EXCEPT ![w] = "poll"] /\ rec' = [rec EXCEPT ![w] = NoRecord]
           \/ loop[w] = "handle" /\ loop' = [loop EXCEPT ![w] = "seek"] /\ UNCHANGED rec
           \/ loop[w] = "down" /\ loop' = [loop EXCEPT ![w] = "join"] /\ UNCHANGED rec
    BY <1>6 DEF BatchDone, HandleRedeliver, Restart
  <2>2. /\ loop'[w] \in {"poll", "seek", "join"}
        /\ loop'[w] = "seek" => loop[w] = "handle" /\ rec'[w] = rec[w]
    BY <1>t, <2>1 DEF TypeOK
  <2>3. \A p \in Partitions : Holds(w, p)'
    BY <1>0, <2>1, <2>2 DEF Holds, InHand
  <2>4. \A v \in Workers \ {w} : loop'[v] = loop[v] /\ rec'[v] = rec[v]
    BY <1>t, <2>1 DEF TypeOK
  <2>5. group = "new" => Fresh'
    <3>1. SUFFICES ASSUME group = "new" PROVE Fresh'
      OBVIOUS
    <3>2. Fresh
      BY <1>0, <3>1
    <3>3. loop'[w] = "join"
      BY <1>t, <2>1, <3>2 DEF Fresh, TypeOK
    <3>4. QED
      BY <2>1, <2>4, <3>2, <3>3 DEF Fresh
  <2>6. QED
    BY <1>w, <2>1, <2>3, <2>4, <2>5
<1>7. ASSUME NEW w \in Workers, HandleCommit(w) PROVE QuietInv'
  <2>1. /\ loop[w] = "handle" /\ loop' = [loop EXCEPT ![w] = "commit"]
        /\ handled' = handled \cup {rec[w]}
        /\ UNCHANGED <<owner, group, position, batch, rec>>
    BY <1>7 DEF HandleCommit
  <2>2. PICK q \in Partitions, m \in Nat : rec[w] = <<q, m>>
    BY <1>t, <2>1, RecordInHand DEF InHand
  <2>3. /\ loop'[w] = "commit" /\ position[w][q] # NoPosition
        /\ \A v \in Workers \ {w} : loop'[v] = loop[v] /\ position[v][q] = NoPosition
    <3>1. loop'[w] = "commit" /\ \A v \in Workers \ {w} : loop'[v] = loop[v]
      BY <1>t, <2>1 DEF TypeOK
    <3>2. position[w][q] # NoPosition
      BY <1>0, <2>1, <2>2 DEF Holds, InHand
    <3>3. QED
      BY <1>0, <3>1, <3>2 DEF Shared
  <2>4. ASSUME NEW v \in Workers, NEW p \in Partitions PROVE Holds(v, p)'
    <3>1. CASE p # q
      <4>1. \A n \in Nat : <<p, n>> \in handled' => <<p, n>> \in handled
        BY <2>1, <2>2, <3>1
      <4>2. CASE v = w
        BY <1>0, <2>1, <2>2, <2>3, <3>1, <4>1, <4>2 DEF Holds, InHand
      <4>3. CASE v # w
        BY <1>0, <2>1, <2>3, <4>1, <4>3, HoldsKept
      <4>4. QED
        BY <4>2, <4>3
    <3>2. CASE p = q /\ v = w
      BY <1>0, <2>1, <2>2, <2>3, <3>2 DEF Holds, InHand
    <3>3. CASE p = q /\ v # w
      <4>1. position'[v][p] = NoPosition /\ batch'[v] = batch[v] /\ rec'[v] = rec[v] /\ loop'[v] = loop[v]
        BY <2>1, <2>3, <3>3
      <4>2. /\ \A n \in Nat : <<p, n>> \notin batch[v]
            /\ loop[v] \in InHand => rec[v][1] # p
        BY <1>0, <2>3, <3>3 DEF Holds
      <4>3. QED
        BY <4>1, <4>2 DEF Holds, InHand
    <3>4. QED
      BY <3>1, <3>2, <3>3
  <2>5. Shared' /\ group' # "new"
    BY <1>0, <1>s, <2>1 DEF Shared
  <2>6. QED
    BY <2>4, <2>5 DEF QuietInv
<1>8. ASSUME NEW w \in Workers, loop[w] \in InHand
      PROVE  group # "new" /\ position[w][rec[w][1]] # NoPosition /\ owner[rec[w][1]] = w
  <2>1. PICK q \in Partitions, m \in Nat : rec[w] = <<q, m>>
    BY <1>t, <1>8, RecordInHand
  <2>2. group # "new" /\ position[w][q] # NoPosition
    BY <1>0, <1>s, <1>8, <2>1 DEF Holds, InHand
  <2>3. QED
    BY <1>0, <2>1, <2>2 DEF Shared
<1>9. ASSUME NEW w \in Workers, Commit(w) PROVE QuietInv'
  <2>1. loop[w] = "commit" /\ group # "new" /\ owner[rec[w][1]] = w
    BY <1>8, <1>9 DEF Commit, InHand
  <2>2. /\ loop' = [loop EXCEPT ![w] = "next"]
        /\ UNCHANGED <<owner, handled, group, position, batch, rec>>
    BY <1>9, <2>1, Zenon DEF Commit
  <2>3. loop'[w] = "next"
    BY <1>t, <2>2 DEF TypeOK
  <2>4. \A p \in Partitions : Holds(w, p)'
    BY <1>0, <2>2, <2>3 DEF Holds, InHand
  <2>5. QED
    BY <1>t, <1>w, <2>1, <2>2, <2>3, <2>4 DEF TypeOK
<1>10. ASSUME NEW w \in Workers, Seek(w) PROVE QuietInv'
  <2>1. loop[w] = "seek" /\ group # "new" /\ position[w][rec[w][1]] # NoPosition
    BY <1>8, <1>10 DEF Seek, InHand
  <2>2. /\ loop' = [loop EXCEPT ![w] = "next"]
        /\ position' = [position EXCEPT ![w][rec[w][1]] = rec[w][2]]
        /\ batch' = [batch EXCEPT ![w] = OthersOf(w)]
        /\ UNCHANGED <<owner, group, rec, handled>>
    BY <1>10, <2>1, Zenon DEF Seek
  <2>3. PICK q \in Partitions, m \in Nat : rec[w] = <<q, m>>
    BY <1>t, <2>1, RecordInHand DEF InHand
  <2>4. /\ loop'[w] = "next" /\ batch'[w] = OthersOf(w)
        /\ position'[w] = [position[w] EXCEPT ![q] = m]
    BY <1>t, <2>2, <2>3 DEF TypeOK
  <2>5. \A p \in Partitions : position'[w][p] = IF p = q THEN m ELSE position[w][p]
    BY <1>t, <2>4 DEF TypeOK
  <2>6. \A p \in Partitions, n \in Nat : <<p, n>> \in batch'[w] <=> <<p, n>> \in batch[w] /\ p # q
    BY <2>3, <2>4 DEF OthersOf
  <2>7. <<q, m>> \notin handled
    BY <1>0, <2>1, <2>3 DEF Holds
  <2>8. \A n \in Nat : <<q, n>> \in handled => n < m
    BY <1>t, <2>7 DEF OrderInv, HandledBelow
  <2>9. m # NoPosition
    BY DEF NoPosition
  <2>10. ASSUME NEW p \in Partitions PROVE Holds(w, p)'
    <3>1. CASE p = q
      BY <2>2, <2>4, <2>5, <2>6, <2>8, <2>9, <3>1 DEF Holds, InHand
    <3>2. CASE p # q
      BY <1>0, <2>2, <2>4, <2>5, <2>6, <3>2 DEF Holds, InHand
    <3>3. QED
      BY <3>1, <3>2
  <2>11. \A p \in Partitions : position'[w][p] = NoPosition <=> position[w][p] = NoPosition
    BY <2>1, <2>3, <2>5, <2>9
  <2>12. QED
    BY <1>t, <1>w, <2>1, <2>2, <2>4, <2>10, <2>11 DEF TypeOK
<1>11. ASSUME NEW p \in Partitions, Append(p) PROVE QuietInv'
  BY <1>1, <1>11 DEF Append
<1>12. ASSUME NEW w \in Workers, Stop(w) PROVE QuietInv'
  BY <1>1, <1>12 DEF Stop
<1>13. CASE UNCHANGED vars
  BY <1>1, <1>13 DEF vars
<1>14. QED
  BY <1>2, <1>3, <1>4, <1>5, <1>6, <1>7, <1>9, <1>10, <1>11, <1>12, <1>13
  DEF Next, LoopStep, Assign, Reassign

\* Until the group is rebalanced, no record is handled twice, for every group.
THEOREM OnceWhileQuiet == Spec => []HandledOnce
<1>1. Init => QuietInv
  <2> SUFFICES ASSUME Init PROVE QuietInv
    OBVIOUS
  <2>1. Fresh
    BY DEF Init, Fresh
  <2>2. \A w \in Workers, p \in Partitions : Holds(w, p)
    BY DEF Init, Holds, InHand
  <2>3. Shared
    BY DEF Init, Shared, Unassigned
  <2>4. QED
    BY <2>1, <2>2, <2>3 DEF QuietInv
<1>2. IInv /\ QuietInv => HandledOnce
  <2> SUFFICES ASSUME IInv, QuietInv, Quiet, NEW w \in Workers, loop[w] = "handle"
               PROVE  rec[w] \notin handled
    BY DEF HandledOnce, Quiet
  <2>1. PICK q \in Partitions, m \in Nat : rec[w] = <<q, m>>
    BY RecordInHand DEF IInv, InHand
  <2>2. QED
    BY <2>1 DEF QuietInv, Holds
<1>3. QED
  BY <1>1, <1>2, InitInv, InvStep, QuietStep, PTL DEF Spec

=============================================================================
