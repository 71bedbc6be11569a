----------------------------- MODULE OrderCache -----------------------------
(***************************************************************************)
(* The Redis entry order:{id} of one order (app/cache.py), with all that   *)
(* write and read it: submit_order and read_order (app/service.py) and the *)
(* transitions of the order consumer (app/kafka/consumers.py).  Entries of *)
(* different orders have nothing to do with each other.                    *)
(*                                                                         *)
(* A version of the order is the length of its audit trail: the insert and *)
(* every transition add one row to it, and put_order caches all of it.     *)
(* Transitions come one after the other, which is what OrderPipeline shows *)
(* of the guard (NoStaleFlush); cache entries are written by whoever holds *)
(* a copy, at any later time.                                              *)
(***************************************************************************)
EXTENDS Integers

CONSTANTS Readers,       \* concurrent GET /orders/{id} calls
          MaxVersion,    \* bound on the transitions of the order
          MaxFaults      \* bound on deaths, failing Redis calls and reshapings

ASSUME CacheAssumption == MaxVersion \in Nat \ {0} /\ MaxFaults \in Nat

VARIABLES
  row,         \* the committed version, 0 before the insert
  entry,       \* what the key holds: a version, Miss, or Unreadable
  api,         \* where submit_order is
  worker,      \* where the handler is with its current transition
  draft,       \* the version of the Order object in the handler
  published,   \* the event of the order is on orders.created
  reader,      \* reader[r]: where the call of read_order is
  seen,        \* seen[r]: the version it was given
  reply,       \* reply[r]: how its last call was answered
  faults       \* how many faults have happened

vars == <<row, entry, api, worker, draft, published, reader, seen, reply, faults>>

Miss == 0
Unreadable == -1
Versions == 1..MaxVersion

TypeOK ==
  /\ row \in 0..MaxVersion
  /\ entry \in Versions \cup {Miss, Unreadable}
  /\ api \in {"create", "publish", "put", "done"}
  /\ worker \in {"idle", "commit", "put"}
  /\ draft \in 0..MaxVersion
  /\ published \in BOOLEAN
  /\ reader \in [Readers -> {"idle", "get", "drop", "load", "put"}]
  /\ seen \in [Readers -> 0..MaxVersion]
  /\ reply \in [Readers -> {"none", "cache", "database", "missing", "error"}]
  /\ faults \in Nat

Init ==
  /\ row = 0 /\ entry = Miss
  /\ api = "create" /\ worker = "idle" /\ draft = 0 /\ published = FALSE
  /\ reader = [r \in Readers |-> "idle"]
  /\ seen = [r \in Readers |-> 0]
  /\ reply = [r \in Readers |-> "none"]
  /\ faults = 0

Fault == faults < MaxFaults /\ faults' = faults + 1

apiVars == <<api, published>>
workerVars == <<worker, draft>>
readVars == <<reader, seen, reply>>

-----------------------------------------------------------------------------
(* cache.py                                                                *)

\* put_order: SET with a TTL; a failure is swallowed.
PutOrder(v) ==
  \/ entry' = v /\ UNCHANGED faults
  \/ Fault /\ UNCHANGED entry

\* As a mutant: SET without EX.
Expire_NoTtl == FALSE /\ UNCHANGED vars

\* The TTL that put_order sets runs out.
Expire ==
  /\ entry # Miss
  /\ entry' = Miss
  /\ UNCHANGED <<row, apiVars, workerVars, readVars, faults>>

\* invalidate_order: DEL, a failure is swallowed.
InvalidateOrder ==
  /\ entry # Miss
  /\ PutOrder(Miss)
  /\ UNCHANGED <<row, apiVars, workerVars, readVars>>

\* A release with another OrderOut makes the entry that is there unreadable.
Reshape ==
  /\ entry \in Versions
  /\ Fault
  /\ entry' = Unreadable
  /\ UNCHANGED <<row, apiVars, workerVars, readVars>>

-----------------------------------------------------------------------------
(* submit_order: insert, publish, warm the cache with the pending order.   *)

Insert ==
  /\ api = "create"
  /\ row' = 1
  /\ api' = "publish"
  /\ UNCHANGED <<entry, workerVars, published, readVars, faults>>

Publish ==
  /\ api = "publish"
  /\ published' = TRUE
  /\ api' = "put"
  /\ UNCHANGED <<row, entry, workerVars, readVars, faults>>

Warm ==
  /\ api = "put"
  /\ PutOrder(1)
  /\ api' = "done"
  /\ UNCHANGED <<row, workerVars, published, readVars>>

\* The API process dies, or the publish raises.
ApiDies ==
  /\ api # "done"
  /\ Fault
  /\ api' = "done"
  /\ UNCHANGED <<row, entry, workerVars, published, readVars>>

ApiStep == Insert \/ Publish \/ Warm

-----------------------------------------------------------------------------
(* The order consumer: each transition is flushed and committed by         *)
(* session_scope, and the object it leaves behind refreshes the entry.     *)

\* As a mutant: put_order inside the session, before the commit.
Flush_PutsEarly ==
  /\ worker = "idle" /\ published /\ row < MaxVersion
  /\ draft' = row + 1
  /\ worker' = "commit"
  /\ PutOrder(row + 1)
  /\ UNCHANGED <<row, apiVars, readVars>>

Flush ==
  /\ worker = "idle" /\ published /\ row < MaxVersion
  /\ draft' = row + 1
  /\ worker' = "commit"
  /\ UNCHANGED <<row, entry, apiVars, readVars, faults>>

Commit ==
  /\ worker = "commit"
  /\ row' = draft
  /\ worker' = "put"
  /\ UNCHANGED <<entry, apiVars, draft, readVars, faults>>

Refresh ==
  /\ worker = "put"
  /\ PutOrder(draft)
  /\ worker' = "idle"
  /\ UNCHANGED <<row, apiVars, draft, readVars>>

\* The worker dies, or the commit raises: a flushed transition is rolled back,
\* a committed one is not cached.
WorkerDies ==
  /\ worker # "idle"
  /\ Fault
  /\ worker' = "idle"
  /\ UNCHANGED <<row, entry, apiVars, draft, readVars>>

WorkerStep == Commit \/ Refresh

-----------------------------------------------------------------------------
(* read_order and cache.get_order.                                         *)

Step(r, from, to) == reader[r] = from /\ reader' = [reader EXCEPT ![r] = to]

Answer(r, from, how, v) ==
  /\ Step(r, from, "idle")
  /\ reply' = [reply EXCEPT ![r] = how]
  /\ seen' = [seen EXCEPT ![r] = v]

Begin(r) ==
  /\ Step(r, "idle", "get")
  /\ reply' = [reply EXCEPT ![r] = "none"]
  /\ seen' = [seen EXCEPT ![r] = 0]
  /\ UNCHANGED <<row, entry, apiVars, workerVars, faults>>

\* As a mutant: what the key holds is not validated.
Get_NotValidated(r) ==
  /\ IF entry = Miss THEN Step(r, "get", "load") /\ UNCHANGED <<seen, reply>>
     ELSE Answer(r, "get", "cache", entry)
  /\ UNCHANGED <<row, entry, apiVars, workerVars, faults>>

\* GET order:{id}: a hit is the answer, a miss goes on to the database, an entry
\* that does not validate is dropped first.
Get(r) ==
  /\ \/ entry \in Versions /\ Answer(r, "get", "cache", entry)
     \/ entry = Miss /\ Step(r, "get", "load") /\ UNCHANGED <<seen, reply>>
     \/ entry = Unreadable /\ Step(r, "get", "drop") /\ UNCHANGED <<seen, reply>>
  /\ UNCHANGED <<row, entry, apiVars, workerVars, faults>>

\* Redis is out: GET raises, which counts as a miss.
GetFails(r) ==
  /\ Fault
  /\ Step(r, "get", "load")
  /\ UNCHANGED <<row, entry, apiVars, workerVars, seen, reply>>

Drop(r) ==
  /\ Step(r, "drop", "load")
  /\ entry' = Miss
  /\ UNCHANGED <<row, apiVars, workerVars, seen, reply, faults>>

\* The DEL stands in the except clause itself: nothing catches its failure.
DropFails(r) ==
  /\ Fault
  /\ Answer(r, "drop", "error", 0)
  /\ UNCHANGED <<row, entry, apiVars, workerVars>>

\* repo.get_order: no such order (404), or a copy that is cached next.
Load(r) ==
  /\ IF row = 0 THEN Answer(r, "load", "missing", 0)
     ELSE /\ Step(r, "load", "put")
          /\ seen' = [seen EXCEPT ![r] = row]
          /\ UNCHANGED reply
  /\ UNCHANGED <<row, entry, apiVars, workerVars, faults>>

Fill(r) ==
  /\ PutOrder(seen[r])
  /\ Answer(r, "put", "database", seen[r])
  /\ UNCHANGED <<row, apiVars, workerVars>>

ReadStep(r) == Get(r) \/ Drop(r) \/ Load(r) \/ Fill(r)

Next ==
  \/ ApiStep \/ ApiDies
  \/ Flush \/ WorkerStep \/ WorkerDies
  \/ \E r \in Readers : Begin(r) \/ ReadStep(r) \/ GetFails(r) \/ DropFails(r)
  \/ Expire \/ InvalidateOrder \/ Reshape

Spec == Init /\ [][Next]_vars

\* A call that has begun goes on, a handler goes on, and Redis expires keys.
\* Nobody has to read, and the order may stay as it is.
Fairness ==
  /\ WF_vars(ApiStep) /\ WF_vars(WorkerStep) /\ WF_vars(Expire)
  /\ \A r \in Readers : WF_vars(ReadStep(r))

FairSpec == Spec /\ Fairness

-----------------------------------------------------------------------------
\* A read answers with a version that was committed before: never with a
\* transition that was rolled back, whatever died between its flush, its commit
\* and its cache write, and whoever cached it.
ReadsAreCommitted ==
  \A r \in Readers : reply[r] \in {"cache", "database"} => seen[r] \in 1..row

\* "A cache outage must degrade to slow, never to down": Redis failing at any
\* call of get_order and put_order makes a read go to the database, not fail.
OutageDegrades == \A r \in Readers : reply[r] # "error"

\* Stale entries age out: late writes of older copies, by the API after its
\* publish or by reads that were overtaken, and refreshes lost with their
\* worker, leave the entry behind the row only for a while.
CacheConverges == <>[](entry \in {Miss, row})

=============================================================================
