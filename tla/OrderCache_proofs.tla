------------------------- MODULE OrderCache_proofs -------------------------
(***************************************************************************)
(* What is read of an order was committed, for any number of readers,      *)
(* transitions and faults.                                                 *)
(***************************************************************************)
EXTENDS OrderCache, TLAPS

\* The API: nothing is published before the order is inserted.
ApiInv ==
  /\ api = "create" => row = 0 /\ ~published /\ worker = "idle"
  /\ api \in {"publish", "put"} => row >= 1
  /\ published => row >= 1

\* The worker: a flushed transition is the next one, a committed one is in the row.
WorkerInv ==
  /\ worker = "commit" => draft = row + 1 /\ row >= 1
  /\ worker = "put" => draft \in 1..row

\* The copies: neither the cache nor a reader is ahead of the row.
CopyInv ==
  /\ entry \in Versions => entry <= row
  /\ \A r \in Readers : /\ seen[r] <= row
                        /\ reader[r] = "put" => seen[r] >= 1

IInv == TypeOK /\ ApiInv /\ WorkerInv /\ CopyInv /\ ReadsAreCommitted

-----------------------------------------------------------------------------
\* The row only grows, and a step that leaves the readers alone keeps what they
\* know.
LEMMA ReadersKept ==
  ASSUME TypeOK, TypeOK', CopyInv, ReadsAreCommitted, UNCHANGED readVars, row' >= row
  PROVE  /\ ReadsAreCommitted'
         /\ \A r \in Readers : seen'[r] <= row' /\ (reader'[r] = "put" => seen'[r] >= 1)
<1>1. row \in Nat /\ row' \in Nat
  BY CacheAssumption DEF TypeOK
<1>2. \A r \in Readers : seen[r] \in Nat
  BY CacheAssumption DEF TypeOK
<1>3. QED
  BY <1>1, <1>2 DEF CopyInv, ReadsAreCommitted, readVars

\* What put_order leaves in the cache.
LEMMA PutOutcome ==
  ASSUME TypeOK, NEW v \in 0..MaxVersion, PutOrder(v)
  PROVE  /\ entry' \in {entry, v}
         /\ entry' \in Versions \cup {Miss, Unreadable}
         /\ faults' \in Nat
  BY CacheAssumption DEF TypeOK, PutOrder, Fault, Versions, Miss, Unreadable

\* Every step keeps the invariant.
LEMMA InvStep == IInv /\ [Next]_vars => IInv'
<1> SUFFICES ASSUME IInv, [Next]_vars PROVE IInv'
  OBVIOUS
<1> USE CacheAssumption
<1>t. TypeOK /\ ApiInv /\ WorkerInv /\ CopyInv /\ ReadsAreCommitted
  BY DEF IInv
<1>n. row \in Nat /\ row <= MaxVersion /\ draft \in Nat /\ faults \in Nat
  BY <1>t DEF TypeOK
<1>s. \A r \in Readers : seen[r] \in Nat /\ seen[r] <= row
  BY <1>t DEF TypeOK, CopyInv
\* A step of the API, of the worker or of Redis.
<1>k. ASSUME TypeOK', ApiInv', WorkerInv', UNCHANGED readVars, row' >= row,
             entry' \in Versions => entry' <= row'
      PROVE  IInv'
  BY <1>t, <1>k, ReadersKept DEF IInv, CopyInv
<1>1. CASE Insert
  <2>1. TypeOK'
    BY <1>t, <1>1 DEF Insert, TypeOK, workerVars, readVars
  <2>2. row = 0 /\ row' = 1
    BY <1>t, <1>1 DEF Insert, ApiInv
  <2>3. entry' \in Versions => entry' <= row'
    BY <1>t, <1>1, <2>2 DEF Insert, CopyInv, Versions
  <2>4. QED
    BY <1>t, <1>1, <1>k, <2>1, <2>2, <2>3 DEF Insert, ApiInv, WorkerInv, workerVars
<1>2. CASE Publish \/ ApiDies
  <2>a. published' \in BOOLEAN
    BY <1>t, <1>2, Zenon DEF Publish, ApiDies, TypeOK
  <2>b. api' \in {"put", "done"} /\ faults' \in Nat
        /\ UNCHANGED <<row, entry, workerVars, readVars>>
    BY <1>n, <1>2 DEF Publish, ApiDies, Fault
  <2>1. TypeOK'
    BY <1>t, <2>a, <2>b DEF TypeOK, workerVars, readVars
  <2>2. ApiInv' /\ WorkerInv' /\ UNCHANGED <<row, entry, readVars>>
    BY <1>t, <1>2 DEF Publish, ApiDies, ApiInv, WorkerInv, workerVars, readVars
  <2>3. QED
    BY <1>t, <1>n, <1>k, <2>1, <2>2 DEF CopyInv
<1>3. CASE Warm
  <2>1. entry' \in {entry, 1} /\ entry' \in Versions \cup {Miss, Unreadable} /\ faults' \in Nat
    BY <1>t, <1>3, PutOutcome DEF Warm
  <2>2. UNCHANGED <<row, workerVars, published, readVars>> /\ api' = "done" /\ row >= 1
    BY <1>t, <1>3 DEF Warm, ApiInv
  <2>3. TypeOK'
    BY <1>t, <2>1, <2>2 DEF TypeOK, workerVars, readVars
  <2>4. ApiInv' /\ WorkerInv'
    BY <1>t, <2>2 DEF ApiInv, WorkerInv, workerVars
  <2>5. entry' \in Versions => entry' <= row'
    BY <1>t, <1>n, <2>1, <2>2 DEF CopyInv
  <2>6. QED
    BY <1>n, <1>k, <2>2, <2>3, <2>4, <2>5
<1>4. CASE Flush
  <2>1. TypeOK'
    BY <1>t, <1>n, <1>4 DEF Flush, TypeOK, apiVars, readVars
  <2>2. ApiInv' /\ WorkerInv' /\ UNCHANGED <<row, entry, readVars>>
    BY <1>t, <1>4 DEF Flush, ApiInv, WorkerInv, apiVars, readVars
  <2>3. QED
    BY <1>t, <1>n, <1>k, <2>1, <2>2 DEF CopyInv
<1>5. CASE Commit
  <2>1. TypeOK'
    BY <1>t, <1>5 DEF Commit, TypeOK, apiVars, readVars
  <2>2. row' = row + 1 /\ draft' = row' /\ worker' = "put" /\ UNCHANGED <<entry, apiVars, readVars>>
    BY <1>t, <1>5 DEF Commit, WorkerInv, readVars
  <2>3. ApiInv' /\ WorkerInv'
    BY <1>t, <1>n, <1>5, <2>2 DEF ApiInv, WorkerInv, apiVars, Commit
  <2>4. entry' \in Versions => entry' <= row'
    BY <1>t, <1>n, <2>2 DEF CopyInv, Versions
  <2>5. QED
    BY <1>n, <1>k, <2>1, <2>2, <2>3, <2>4
<1>6. CASE Refresh
  <2>1. draft \in 0..MaxVersion /\ draft <= row
    BY <1>t, <1>n, <1>6 DEF TypeOK, WorkerInv, Refresh
  <2>2. entry' \in {entry, draft} /\ entry' \in Versions \cup {Miss, Unreadable} /\ faults' \in Nat
    BY <1>t, <1>6, <2>1, PutOutcome DEF Refresh
  <2>3. UNCHANGED <<row, apiVars, draft, readVars>> /\ worker' = "idle"
    BY <1>6 DEF Refresh
  <2>4. TypeOK'
    BY <1>t, <2>2, <2>3 DEF TypeOK, apiVars, readVars
  <2>5. ApiInv' /\ WorkerInv'
    BY <1>t, <2>3 DEF ApiInv, WorkerInv, apiVars
  <2>6. entry' \in Versions => entry' <= row'
    BY <1>t, <2>1, <2>2, <2>3 DEF CopyInv
  <2>7. QED
    BY <1>n, <1>k, <2>3, <2>4, <2>5, <2>6
<1>7. CASE WorkerDies
  <2>1. TypeOK'
    BY <1>t, <1>7 DEF WorkerDies, Fault, TypeOK, apiVars, readVars
  <2>2. ApiInv' /\ WorkerInv' /\ UNCHANGED <<row, entry, readVars>>
    BY <1>t, <1>7 DEF WorkerDies, ApiInv, WorkerInv, apiVars, readVars
  <2>3. QED
    BY <1>t, <1>n, <1>k, <2>1, <2>2 DEF CopyInv
<1>8. CASE Expire \/ InvalidateOrder \/ Reshape
  <2>1. entry' \in {entry, Miss, Unreadable} /\ faults' \in Nat
    BY <1>t, <1>n, <1>8 DEF Expire, InvalidateOrder, Reshape, PutOrder, Fault
  <2>2. UNCHANGED <<row, apiVars, workerVars, readVars>>
    BY <1>8 DEF Expire, InvalidateOrder, Reshape
  <2>3. TypeOK'
    BY <1>t, <2>1, <2>2 DEF TypeOK, apiVars, workerVars, readVars
  <2>4. ApiInv' /\ WorkerInv'
    BY <1>t, <2>2 DEF ApiInv, WorkerInv, apiVars, workerVars
  <2>5. entry' \in Versions => entry' <= row'
    BY <1>t, <1>n, <2>1, <2>2 DEF CopyInv, Versions, Miss, Unreadable
  <2>6. QED
    BY <1>n, <1>k, <2>2, <2>3, <2>4, <2>5
\* A step of a reader: it moves on, and answers with what it was given.
<1>r. ASSUME NEW r \in Readers, NEW to \in {"idle", "get", "drop", "load", "put"},
             NEW v \in 0..row, NEW how \in {"none", "cache", "database", "missing", "error"},
             reader' = [reader EXCEPT ![r] = to], seen' = [seen EXCEPT ![r] = v],
             reply' = [reply EXCEPT ![r] = how],
             how \in {"cache", "database"} \/ to = "put" => v >= 1,
             UNCHANGED <<row, apiVars, workerVars>>,
             entry' \in Versions \cup {Miss, Unreadable}, faults' \in Nat,
             entry' \in Versions => entry' <= row
      PROVE  IInv'
  <2>1. v \in 0..MaxVersion
    BY <1>n, <1>r
  <2>2. TypeOK'
    BY <1>t, <1>r, <2>1 DEF TypeOK, apiVars, workerVars
  <2>3. ApiInv' /\ WorkerInv'
    BY <1>t, <1>r DEF ApiInv, WorkerInv, apiVars, workerVars
  <2>4. CopyInv'
    BY <1>t, <1>n, <1>r DEF CopyInv, TypeOK
  <2>5. ReadsAreCommitted'
    BY <1>t, <1>n, <1>r DEF ReadsAreCommitted, TypeOK
  <2>6. QED
    BY <2>2, <2>3, <2>4, <2>5 DEF IInv
<1>e. entry \in Versions \cup {Miss, Unreadable} /\ (entry \in Versions => entry <= row)
  BY <1>t DEF TypeOK, CopyInv
\* Where the reader only moves on, it keeps what it has.
<1>m. ASSUME NEW r \in Readers
      PROVE  /\ seen = [seen EXCEPT ![r] = seen[r]] /\ reply = [reply EXCEPT ![r] = reply[r]]
             /\ seen[r] \in 0..row /\ reply[r] \in {"none", "cache", "database", "missing", "error"}
             /\ reply[r] \in {"cache", "database"} => seen[r] >= 1
  BY <1>t, <1>n, <1>s DEF TypeOK, ReadsAreCommitted
<1>9. ASSUME NEW r \in Readers, Begin(r) PROVE IInv'
  <2>1. /\ reader' = [reader EXCEPT ![r] = "get"] /\ seen' = [seen EXCEPT ![r] = 0]
        /\ reply' = [reply EXCEPT ![r] = "none"]
        /\ UNCHANGED <<row, entry, apiVars, workerVars, faults>>
    BY <1>9 DEF Begin, Step
  <2>2. 0 \in 0..row
    BY <1>n
  <2>3. QED
    BY <1>e, <1>n, <1>r, <2>1, <2>2
<1>10. ASSUME NEW r \in Readers, Get(r) PROVE IInv'
  <2>1. UNCHANGED <<row, entry, apiVars, workerVars, faults>>
    BY <1>10 DEF Get
  <2>2. CASE entry \in Versions
    <3>1. Answer(r, "get", "cache", entry)
      BY <1>10, <2>2 DEF Get, Versions, Miss, Unreadable
    <3>2. entry \in 0..row /\ entry >= 1
      BY <1>e, <1>n, <2>2 DEF Versions
    <3>3. QED
      BY <1>e, <1>n, <1>r, <2>1, <3>1, <3>2 DEF Answer, Step
  <2>3. CASE entry \notin Versions
    <3>1. \E to \in {"load", "drop"} : Step(r, "get", to) /\ UNCHANGED <<seen, reply>>
      BY <1>e, <1>10, <2>3 DEF Get, Versions, Miss, Unreadable
    <3>2. PICK to \in {"load", "drop"} : Step(r, "get", to) /\ UNCHANGED <<seen, reply>>
      BY <3>1
    <3>3. reader' = [reader EXCEPT ![r] = to] /\ to # "put" /\ UNCHANGED <<seen, reply>>
      BY <3>2 DEF Step
    <3>4. QED
      BY <1>e, <1>n, <1>m, <1>r, <2>1, <3>3
  <2>4. QED
    BY <2>2, <2>3
<1>11. ASSUME NEW r \in Readers, GetFails(r) PROVE IInv'
  <2>1. /\ reader' = [reader EXCEPT ![r] = "load"]
        /\ UNCHANGED <<seen, reply, row, entry, apiVars, workerVars>> /\ faults' \in Nat
    BY <1>n, <1>11 DEF GetFails, Fault, Step
  <2>2. QED
    BY <1>e, <1>m, <1>r, <2>1
<1>12. ASSUME NEW r \in Readers, Drop(r) PROVE IInv'
  <2>1. /\ reader' = [reader EXCEPT ![r] = "load"] /\ entry' = Miss
        /\ UNCHANGED <<seen, reply, row, apiVars, workerVars, faults>>
    BY <1>12 DEF Drop, Step
  <2>2. entry' \in Versions => entry' <= row
    BY <2>1 DEF Versions, Miss
  <2>3. QED
    BY <1>n, <1>m, <1>r, <2>1, <2>2
<1>13. ASSUME NEW r \in Readers, DropFails(r) PROVE IInv'
  <2>1. /\ reader' = [reader EXCEPT ![r] = "idle"] /\ seen' = [seen EXCEPT ![r] = 0]
        /\ reply' = [reply EXCEPT ![r] = "error"]
        /\ UNCHANGED <<row, entry, apiVars, workerVars>> /\ faults' \in Nat
    BY <1>n, <1>13 DEF DropFails, Fault, Answer, Step
  <2>2. 0 \in 0..row
    BY <1>n
  <2>3. QED
    BY <1>e, <1>r, <2>1, <2>2
<1>14. ASSUME NEW r \in Readers, Load(r) PROVE IInv'
  <2>1. UNCHANGED <<row, entry, apiVars, workerVars, faults>>
    BY <1>14 DEF Load
  <2>2. CASE row = 0
    BY <1>e, <1>n, <1>r, <1>14, <2>1, <2>2 DEF Load, Answer, Step
  <2>3. CASE row # 0
    <3>1. /\ reader' = [reader EXCEPT ![r] = "put"] /\ seen' = [seen EXCEPT ![r] = row]
          /\ reply' = [reply EXCEPT ![r] = reply[r]]
      BY <1>m, <1>14, <2>3 DEF Load, Step
    <3>2. row \in 0..row /\ row >= 1
      BY <1>n, <2>3
    <3>3. QED
      BY <1>e, <1>n, <1>m, <1>r, <2>1, <3>1, <3>2
  <2>4. QED
    BY <2>2, <2>3
<1>15. ASSUME NEW r \in Readers, Fill(r) PROVE IInv'
  <2>1. reader[r] = "put" /\ seen[r] >= 1 /\ seen[r] \in 0..MaxVersion /\ seen[r] \in 0..row
    BY <1>t, <1>n, <1>m, <1>15 DEF Fill, Answer, Step, CopyInv, TypeOK
  <2>2. entry' \in {entry, seen[r]} /\ entry' \in Versions \cup {Miss, Unreadable} /\ faults' \in Nat
    BY <1>t, <1>15, <2>1, PutOutcome DEF Fill
  <2>3. entry' \in Versions => entry' <= row
    BY <1>e, <1>s, <2>2
  <2>4. QED
    BY <1>15, <1>r, <2>1, <2>2, <2>3 DEF Fill, Answer, Step
<1>16. CASE UNCHANGED vars
  BY <1>t, <1>16 DEF vars, IInv, TypeOK, ApiInv, WorkerInv, CopyInv, ReadsAreCommitted
<1>17. QED
  BY <1>1, <1>2, <1>3, <1>4, <1>5, <1>6, <1>7, <1>8, <1>9, <1>10, <1>11, <1>12, <1>13, <1>14,
     <1>15, <1>16
  DEF Next, ApiStep, WorkerStep, ReadStep

\* The invariant holds at the start and for ever.
LEMMA AlwaysInv == Spec => []IInv
<1>1. Init => IInv
  <2> SUFFICES ASSUME Init PROVE IInv
    OBVIOUS
  <2>1. published \in BOOLEAN
    BY Zenon DEF Init
  <2>2. TypeOK
    BY <2>1, CacheAssumption DEF Init, TypeOK, Miss
  <2>3. ApiInv /\ WorkerInv
    BY DEF Init, ApiInv, WorkerInv
  <2>4. CopyInv /\ ReadsAreCommitted
    BY DEF Init, CopyInv, ReadsAreCommitted, Versions, Miss
  <2>5. QED
    BY <2>2, <2>3, <2>4 DEF IInv
<1>2. QED
  BY <1>1, InvStep, PTL DEF Spec

\* The row, the cache entry and the readers keep their types: nobody is given an
\* entry that cannot be read.
THEOREM TypeCorrect == Spec => []TypeOK
<1>1. IInv => TypeOK
  BY DEF IInv
<1>2. QED
  BY <1>1, AlwaysInv, PTL

\* No read of an order, from the cache or the database, shows a version that was
\* not committed, for any number of readers and whatever dies.
THEOREM OnlyCommittedReads == Spec => []ReadsAreCommitted
<1>1. IInv => ReadsAreCommitted
  BY DEF IInv
<1>2. QED
  BY <1>1, AlwaysInv, PTL

=============================================================================
