----------------------------- MODULE WorkerLife -----------------------------
(***************************************************************************)
(* How the processes of the system come up and go down: main() of the      *)
(* workers (app/worker.py) and the lifespan of the APIs (app/main.py),     *)
(* which share create_schema (app/db.py), ensure_topics                    *)
(* (app/kafka/admin.py) and start_producer (app/kafka/producer.py).        *)
(*                                                                         *)
(* All replicas boot against the same database and the same broker, which  *)
(* may not be up; a process may die, or be told to stop, at any point, and *)
(* the containers are restarted (docker-compose.yml).  The records that    *)
(* the consumers handle are the business of ConsumerGroup.                 *)
(***************************************************************************)
EXTENDS Integers

CONSTANTS Workers, Apis,
          Topics,        \* _desired_topics()
          Retries,       \* the attempts of ensure_topics
          MaxFaults      \* bound on outages, deaths and failing consumers

ASSUME LifeAssumption ==
  /\ Workers \cap Apis = {}
  /\ Retries \in Nat \ {0} /\ MaxFaults \in Nat

VARIABLES
  broker,      \* Kafka can be reached
  tables,      \* the tables exist
  topics,      \* the topics that exist
  phase,       \* phase[p]: where p is between its start and its end
  missing,     \* missing[p]: the topics p has still to create
  tries,       \* tries[p]: failed attempts of ensure_topics
  tasks,       \* tasks[p]: the tasks that serve, in a worker one per consumer
  stop,        \* stop[p]: the event that a signal sets
  open,        \* open[p]: the process-wide clients p holds
  exit,        \* exit[p]: how the last run of p ended
  stopped,     \* stopped[p]: somebody has asked for p to stop
  faults       \* how many faults have happened

vars == <<broker, tables, topics, phase, missing, tries, tasks, stop, open, exit, stopped, faults>>

Procs == Workers \cup Apis
Consumers == {"processor", "retry", "dlq"}
TasksOf(p) == IF p \in Workers THEN Consumers ELSE {"http"}

StartUp == {"schema", "tables", "topics", "create", "producer"}
ShutDown == {"drain", "flush", "redis", "dispose"}

TypeOK ==
  /\ broker \in BOOLEAN /\ tables \in BOOLEAN /\ topics \subseteq Topics
  /\ phase \in [Procs -> StartUp \cup {"run", "down"} \cup ShutDown]
  /\ missing \in [Procs -> SUBSET Topics]
  /\ tries \in [Procs -> 0..(Retries - 1)]
  /\ tasks \in [Procs -> SUBSET (Consumers \cup {"http"})]
  /\ stop \in [Procs -> BOOLEAN]
  /\ open \in [Procs -> SUBSET {"producer", "redis", "db"}]
  /\ exit \in [Procs -> {"none", "clean", "error"}]
  /\ stopped \in [Procs -> BOOLEAN]
  /\ faults \in Nat

\* The first deployment: an empty database, an empty broker.
Init ==
  /\ broker \in BOOLEAN /\ tables = FALSE /\ topics = {}
  /\ phase = [p \in Procs |-> "schema"]
  /\ missing = [p \in Procs |-> {}]
  /\ tries = [p \in Procs |-> 0]
  /\ tasks = [p \in Procs |-> {}]
  /\ stop = [p \in Procs |-> FALSE]
  /\ open = [p \in Procs |-> {}]
  /\ exit = [p \in Procs |-> "none"]
  /\ stopped = [p \in Procs |-> FALSE]
  /\ faults = 0

shared == <<broker, tables, topics>>
boot == <<missing, tries>>
service == <<tasks, stop, open>>
outcome == <<exit, stopped>>

Fault == faults < MaxFaults /\ faults' = faults + 1

At(p, ph) == phase[p] = ph
Goto(p, ph) == phase' = [phase EXCEPT ![p] = ph]

\* The process is gone, and its tasks with it.
Exit(p, how) ==
  /\ Goto(p, "down")
  /\ tasks' = [tasks EXCEPT ![p] = {}]
  /\ exit' = [exit EXCEPT ![p] = how]

-----------------------------------------------------------------------------
(* create_schema: create_all looks for the tables, then creates what it    *)
(* did not find, in one transaction.                                       *)

CheckTables(p) ==
  /\ At(p, "schema")
  /\ Goto(p, IF tables THEN "topics" ELSE "tables")
  /\ UNCHANGED <<shared, boot, service, outcome, faults>>

\* Another replica may have created them since: CREATE TABLE raises.
CreateTables(p) ==
  /\ At(p, "tables")
  /\ IF tables THEN Exit(p, "error") /\ UNCHANGED tables
     ELSE Goto(p, "topics") /\ tables' = TRUE /\ UNCHANGED <<tasks, exit>>
  /\ UNCHANGED <<broker, topics, boot, stop, open, stopped, faults>>

-----------------------------------------------------------------------------
(* ensure_topics                                                           *)

ListTopics(p) ==
  /\ At(p, "topics") /\ broker
  /\ missing' = [missing EXCEPT ![p] = Topics \ topics]
  /\ Goto(p, IF missing'[p] = {} THEN "producer" ELSE "create")
  /\ UNCHANGED <<shared, tries, service, outcome, faults>>

\* The broker creates the topics of a request one by one; one that another
\* replica has created meanwhile is an error of that topic only.
CreateTopic(p) ==
  /\ At(p, "create") /\ broker
  /\ \E t \in missing[p] :
       /\ topics' = topics \cup {t}
       /\ missing' = [missing EXCEPT ![p] = @ \ {t}]
       /\ Goto(p, IF missing[p] = {t} THEN "producer" ELSE "create")
  /\ UNCHANGED <<broker, tables, tries, service, outcome, faults>>

\* As a mutant: the loop falls through after the last attempt.
Unreachable_GivesUp(p) ==
  /\ phase[p] \in {"topics", "create"} /\ ~broker
  /\ IF tries[p] + 1 < Retries
       THEN Goto(p, "topics") /\ tries' = [tries EXCEPT ![p] = @ + 1]
       ELSE Goto(p, "producer") /\ UNCHANGED tries
  /\ UNCHANGED <<shared, missing, service, outcome, faults>>

\* As a mutant: one attempt too many.
Unreachable_OneMore(p) ==
  /\ phase[p] \in {"topics", "create"} /\ ~broker
  /\ IF tries[p] < Retries
       THEN /\ Goto(p, "topics")
            /\ tries' = [tries EXCEPT ![p] = @ + 1]
            /\ UNCHANGED <<tasks, exit>>
       ELSE Exit(p, "error") /\ UNCHANGED tries
  /\ UNCHANGED <<shared, missing, stop, open, stopped, faults>>

\* start, list_topics or create_topics fails: sleep and try again, from the
\* start; after the last attempt raise.
Unreachable(p) ==
  /\ phase[p] \in {"topics", "create"} /\ ~broker
  /\ IF tries[p] + 1 < Retries
       THEN /\ Goto(p, "topics")
            /\ tries' = [tries EXCEPT ![p] = @ + 1]
            /\ UNCHANGED <<tasks, exit>>
       ELSE Exit(p, "error") /\ UNCHANGED tries
  /\ UNCHANGED <<shared, missing, stop, open, stopped, faults>>

-----------------------------------------------------------------------------
(* start_producer, and the tasks: the consumers of a worker, the server of *)
(* an API.                                                                 *)

\* An API that was told to stop meanwhile leaves at once: uvicorn skips the
\* second half of the lifespan then.
StartProducer(p) ==
  /\ At(p, "producer")
  /\ IF broker /\ ~stop[p]
       THEN /\ Goto(p, "run")
            /\ open' = [open EXCEPT ![p] = {"producer"}]
            /\ tasks' = [tasks EXCEPT ![p] = TasksOf(p)]
            /\ UNCHANGED exit
       ELSE Exit(p, "error") /\ UNCHANGED open
  /\ UNCHANGED <<shared, boot, stop, stopped, faults>>

\* A handler uses Redis and the database; both are opened on first use, again
\* if they were closed.
Serve(p, t) ==
  /\ t \in tasks[p]
  /\ open' = [open EXCEPT ![p] = @ \cup {"redis", "db"}]
  /\ UNCHANGED <<shared, phase, boot, tasks, stop, outcome, faults>>

\* A consumer's run() ends with an exception.
TaskRaises(p, t) ==
  /\ p \in Workers /\ t \in tasks[p]
  /\ Fault
  /\ tasks' = [tasks EXCEPT ![p] = @ \ {t}]
  /\ UNCHANGED <<shared, phase, boot, stop, open, outcome>>

-----------------------------------------------------------------------------
(* The end of main() and of the lifespan.                                  *)

\* As a mutant: return_when=ALL_COMPLETED.
Drain_AllCompleted(p) ==
  /\ At(p, "run")
  /\ stop[p] \/ tasks[p] = {}
  /\ Goto(p, "drain")
  /\ stop' = [stop EXCEPT ![p] = TRUE]
  /\ UNCHANGED <<shared, boot, tasks, open, outcome, faults>>

\* As a mutant: the consumers are not told to stop.
Drain_NoStop(p) ==
  /\ At(p, "run")
  /\ stop[p] \/ tasks[p] # TasksOf(p)
  /\ Goto(p, "drain")
  /\ stop' = [stop EXCEPT ![p] = FALSE]
  /\ UNCHANGED <<shared, boot, tasks, open, outcome, faults>>

\* asyncio.wait returns: a signal came, or the first consumer has ended.  The
\* others are told to stop.
Drain(p) ==
  /\ At(p, "run")
  /\ stop[p] \/ tasks[p] # TasksOf(p)
  /\ Goto(p, "drain")
  /\ stop' = [stop EXCEPT ![p] = TRUE]
  /\ UNCHANGED <<shared, boot, tasks, open, outcome, faults>>

\* A task finishes what it has in hand and returns.
TaskReturns(p, t) ==
  /\ At(p, "drain") /\ stop[p] /\ t \in tasks[p]
  /\ tasks' = [tasks EXCEPT ![p] = @ \ {t}]
  /\ UNCHANGED <<shared, phase, boot, stop, open, outcome, faults>>

\* As a mutant: the tasks are not waited for.
Gather_NotAwaited(p) ==
  /\ At(p, "drain")
  /\ Goto(p, "flush")
  /\ UNCHANGED <<shared, boot, service, outcome, faults>>

\* asyncio.gather(..., return_exceptions=True)
Gather(p) ==
  /\ At(p, "drain") /\ tasks[p] = {}
  /\ Goto(p, "flush")
  /\ UNCHANGED <<shared, boot, service, outcome, faults>>

\* stop_producer, close_redis and dispose, in this order; then main() returns.
Close(p) ==
  /\ \/ At(p, "flush") /\ Goto(p, "redis") /\ open' = [open EXCEPT ![p] = @ \ {"producer"}]
        /\ UNCHANGED <<tasks, exit>>
     \/ At(p, "redis") /\ Goto(p, "dispose") /\ open' = [open EXCEPT ![p] = @ \ {"redis"}]
        /\ UNCHANGED <<tasks, exit>>
     \/ At(p, "dispose") /\ Exit(p, "clean") /\ open' = [open EXCEPT ![p] = @ \ {"db"}]
  /\ UNCHANGED <<shared, boot, stop, stopped, faults>>

-----------------------------------------------------------------------------
(* The surroundings.                                                       *)

\* docker stop, once.  A worker that has not installed its handlers yet dies of
\* the signal; uvicorn remembers it until the application has started.
Signal(p) ==
  /\ ~stopped[p]
  /\ stopped' = [stopped EXCEPT ![p] = TRUE]
  /\ IF p \in Workers /\ phase[p] \in StartUp THEN Exit(p, "error") /\ UNCHANGED stop
     ELSE stop' = [stop EXCEPT ![p] = TRUE] /\ UNCHANGED <<phase, tasks, exit>>
  /\ UNCHANGED <<shared, boot, open, faults>>

\* p is killed, or anything else on its way raises.
Die(p) ==
  /\ ~At(p, "down")
  /\ Fault
  /\ Exit(p, "error")
  /\ UNCHANGED <<shared, boot, stop, open, stopped>>

\* restart: unless-stopped, whatever the exit status.
Restart(p) ==
  /\ At(p, "down") /\ ~stopped[p]
  /\ Goto(p, "schema")
  /\ tries' = [tries EXCEPT ![p] = 0]
  /\ missing' = [missing EXCEPT ![p] = {}]
  /\ stop' = [stop EXCEPT ![p] = FALSE]
  /\ open' = [open EXCEPT ![p] = {}]
  /\ exit' = [exit EXCEPT ![p] = "none"]
  /\ UNCHANGED <<shared, tasks, stopped, faults>>

BrokerDown == broker /\ Fault /\ broker' = FALSE
              /\ UNCHANGED <<tables, topics, phase, boot, service, outcome>>
BrokerUp == ~broker /\ broker' = TRUE
            /\ UNCHANGED <<tables, topics, phase, boot, service, outcome, faults>>

Step(p) ==
  \/ CheckTables(p) \/ CreateTables(p)
  \/ ListTopics(p) \/ CreateTopic(p) \/ Unreachable(p)
  \/ StartProducer(p)
  \/ Drain(p) \/ Gather(p) \/ Close(p)

Next ==
  \/ \E p \in Procs :
       \/ Step(p) \/ Signal(p) \/ Die(p) \/ Restart(p)
       \/ \E t \in TasksOf(p) : Serve(p, t) \/ TaskRaises(p, t) \/ TaskReturns(p, t)
  \/ BrokerDown \/ BrokerUp

Spec == Init /\ [][Next]_vars

\* A process runs on, what a consumer has in hand comes to an end, Docker
\* restarts what has exited, and the broker comes back.  Nobody has to stop
\* anything, and no request or record has to come.
Fairness ==
  /\ WF_vars(BrokerUp)
  /\ \A p \in Procs :
       /\ WF_vars(Step(p)) /\ WF_vars(Restart(p))
       /\ \A t \in TasksOf(p) : WF_vars(TaskReturns(p, t))

FairSpec == Spec /\ Fairness

-----------------------------------------------------------------------------
\* The tables and all three topics are there before any consumer or request
\* handler runs, although every replica creates them, the broker creates them
\* one by one and may be gone in between: "auto-topic-creation is disabled".
ServesOnlyWhenReady == \A p \in Procs : tasks[p] # {} => tables /\ topics = Topics

\* The clients outlive the handlers that use them: while a consumer finishes its
\* last record the producer can still publish, and a process that comes to its
\* regular end has left nothing open, not even what a handler opened late.
ClientsOutliveHandlers ==
  \A p \in Procs :
    /\ tasks[p] # {} => "producer" \in open[p]
    /\ exit[p] = "clean" => open[p] = {}

\* No process limps: whatever dies - a consumer, the broker, the process, one of
\* two replicas that create the same tables - every process that nobody stopped
\* comes to serve with all of its tasks, again and again.
FullStrength == \A p \in Procs : []<>(tasks[p] = TasksOf(p) \/ stopped[p])

\* A process that is told to stop does stop, at whatever point the signal comes.
StopsWhenAsked == \A p \in Procs : stopped[p] ~> phase[p] = "down"

=============================================================================
