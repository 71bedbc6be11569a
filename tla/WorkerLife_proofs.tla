------------------------- MODULE WorkerLife_proofs -------------------------
(***************************************************************************)
(* Start-up and shutdown, for any number of workers and APIs, any set of   *)
(* topics, and whatever dies or cannot be reached.                         *)
(***************************************************************************)
EXTENDS WorkerLife, TLAPS

\* The phases of p tell what p has found or created.
BootInv(p) ==
  /\ phase[p] \notin {"schema", "tables", "down"} => tables
  /\ phase[p] = "create" => Topics \subseteq topics \cup missing[p]
  /\ phase[p] \in {"producer", "run"} \cup ShutDown => Topics \subseteq topics

\* Tasks run between the start of the producer and the end of the drain, and the
\* clients are closed one after the other.
ClientInv(p) ==
  /\ tasks[p] # {} => phase[p] \in {"run", "drain"}
  /\ phase[p] \in {"run", "drain", "flush"} => "producer" \in open[p]
  /\ phase[p] = "redis" => "producer" \notin open[p]
  /\ phase[p] = "dispose" => open[p] \subseteq {"db"}
  /\ exit[p] = "clean" => phase[p] = "down" /\ open[p] = {}

IInv == TypeOK /\ \A p \in Procs : BootInv(p) /\ ClientInv(p)

-----------------------------------------------------------------------------
\* What one process knows of the tables and topics is not undone by others.
LEMMA OthersKept ==
  ASSUME TypeOK, NEW p \in Procs, BootInv(p), ClientInv(p), tables => tables', topics \subseteq topics',
         phase'[p] = phase[p], missing'[p] = missing[p], tasks'[p] = tasks[p],
         open'[p] = open[p], exit'[p] = exit[p]
  PROVE  BootInv(p)' /\ ClientInv(p)'
  BY DEF BootInv, ClientInv

\* A step of p that goes to another phase and leaves the others alone.
LEMMA ProcStep ==
  ASSUME IInv, TypeOK', NEW p \in Procs, BootInv(p)', ClientInv(p)',
         tables => tables', topics \subseteq topics',
         \A q \in Procs \ {p} :
           /\ phase'[q] = phase[q] /\ missing'[q] = missing[q] /\ tasks'[q] = tasks[q]
           /\ open'[q] = open[q] /\ exit'[q] = exit[q]
  PROVE  IInv'
  BY OthersKept DEF IInv

\* The end of p leaves nothing to claim but for a regular end.
LEMMA ExitFacts ==
  ASSUME IInv, NEW p \in Procs, NEW how \in {"clean", "error"}, Exit(p, how),
         how = "clean" => open'[p] = {}
  PROVE  BootInv(p)' /\ ClientInv(p)'
<1>1. phase'[p] = "down" /\ tasks'[p] = {} /\ exit'[p] = how
  BY DEF IInv, TypeOK, Exit, Goto
<1>2. QED
  BY <1>1 DEF BootInv, ClientInv, ShutDown

\* Every step keeps the types.
LEMMA TypeStep == TypeOK /\ [Next]_vars => TypeOK'
<1> SUFFICES ASSUME TypeOK, [Next]_vars PROVE TypeOK'
  OBVIOUS
<1> USE LifeAssumption
    DEF TypeOK, StartUp, ShutDown, At, Goto, Exit, Fault, shared, boot, service, outcome
<1>1. ASSUME NEW p \in Procs, CheckTables(p) PROVE TypeOK'
  BY <1>1 DEF CheckTables
<1>2. ASSUME NEW p \in Procs, CreateTables(p) PROVE TypeOK'
  <2>1. tables' \in BOOLEAN
    BY <1>2, Zenon DEF CreateTables
  <2>2. QED
    BY <1>2, <2>1 DEF CreateTables
<1>3. ASSUME NEW p \in Procs, ListTopics(p) \/ CreateTopic(p) PROVE TypeOK'
  BY <1>3 DEF ListTopics, CreateTopic
<1>4. ASSUME NEW p \in Procs, Unreachable(p) PROVE TypeOK'
  BY <1>4 DEF Unreachable
<1>5. ASSUME NEW p \in Procs, StartProducer(p) PROVE TypeOK'
  BY <1>5 DEF StartProducer, TasksOf, Consumers
<1>6. ASSUME NEW p \in Procs, NEW t, Serve(p, t) \/ TaskRaises(p, t) \/ TaskReturns(p, t)
      PROVE TypeOK'
  BY <1>6 DEF Serve, TaskRaises, TaskReturns
<1>7. ASSUME NEW p \in Procs, Drain(p) PROVE TypeOK'
  <2>1. stop' \in [Procs -> BOOLEAN]
    BY <1>7, Zenon DEF Drain
  <2>2. QED
    BY <1>7, <2>1 DEF Drain
<1>8. ASSUME NEW p \in Procs, Gather(p) \/ Close(p) \/ Die(p) PROVE TypeOK'
  BY <1>8 DEF Gather, Close, Die
<1>9. ASSUME NEW p \in Procs, Signal(p) PROVE TypeOK'
  <2>1. stop' \in [Procs -> BOOLEAN] /\ stopped' \in [Procs -> BOOLEAN]
    BY <1>9, Zenon DEF Signal
  <2>2. QED
    BY <1>9, <2>1 DEF Signal
<1>10. ASSUME NEW p \in Procs, Restart(p) PROVE TypeOK'
  <2>1. stop' \in [Procs -> BOOLEAN]
    BY <1>10, Zenon DEF Restart
  <2>2. QED
    BY <1>10, <2>1 DEF Restart
<1>11. CASE BrokerDown \/ BrokerUp
  <2>1. broker' \in BOOLEAN
    BY <1>11, Zenon DEF BrokerDown, BrokerUp
  <2>2. QED
    BY <1>11, <2>1 DEF BrokerDown, BrokerUp
<1>12. CASE UNCHANGED vars
  BY <1>12 DEF vars
<1>13. QED
  BY <1>1, <1>2, <1>3, <1>4, <1>5, <1>6, <1>7, <1>8, <1>9, <1>10, <1>11, <1>12 DEF Next, Step

-----------------------------------------------------------------------------
\* Every step keeps the invariant.
LEMMA InvStep == IInv /\ [Next]_vars => IInv'
<1> SUFFICES ASSUME IInv, [Next]_vars PROVE IInv'
  OBVIOUS
<1>t. TypeOK /\ TypeOK'
  BY TypeStep DEF IInv
<1>i. \A p \in Procs : BootInv(p) /\ ClientInv(p)
  BY DEF IInv
<1> USE DEF At, Goto
<1>1. ASSUME NEW p \in Procs, CheckTables(p) PROVE IInv'
  <2>1. /\ phase[p] = "schema" /\ phase' = [phase EXCEPT ![p] = IF tables THEN "topics" ELSE "tables"]
        /\ UNCHANGED <<tables, topics, missing, tasks, open, exit>>
    BY <1>1 DEF CheckTables, shared, boot, service, outcome
  <2>2. BootInv(p)' /\ ClientInv(p)'
    BY <1>t, <1>i, <2>1 DEF BootInv, ClientInv, TypeOK, ShutDown
  <2>3. QED
    BY <1>t, <2>1, <2>2, ProcStep DEF TypeOK
<1>2. ASSUME NEW p \in Procs, CreateTables(p) PROVE IInv'
  <2>1. phase[p] = "tables" /\ UNCHANGED <<topics, missing, open>>
    BY <1>2 DEF CreateTables, boot
  <2>2. CASE tables
    <3>1. Exit(p, "error") /\ UNCHANGED tables
      BY <1>2, <2>2 DEF CreateTables
    <3>2. BootInv(p)' /\ ClientInv(p)'
      BY <3>1, ExitFacts
    <3>3. QED
      BY <1>t, <2>1, <3>1, <3>2, ProcStep DEF Exit, TypeOK
  <2>3. CASE ~tables
    <3>1. phase' = [phase EXCEPT ![p] = "topics"] /\ tables' /\ UNCHANGED <<tasks, exit>>
      BY <1>2, <2>3 DEF CreateTables
    <3>2. BootInv(p)' /\ ClientInv(p)'
      BY <1>t, <1>i, <2>1, <3>1 DEF BootInv, ClientInv, TypeOK, ShutDown
    <3>3. QED
      BY <1>t, <2>1, <3>1, <3>2, ProcStep DEF TypeOK
  <2>4. QED
    BY <2>2, <2>3
<1>3. ASSUME NEW p \in Procs, ListTopics(p) PROVE IInv'
  <2>1. /\ phase[p] = "topics" /\ missing' = [missing EXCEPT ![p] = Topics \ topics]
        /\ phase' = [phase EXCEPT ![p] = IF missing'[p] = {} THEN "producer" ELSE "create"]
        /\ UNCHANGED <<tables, topics, tasks, open, exit>>
    BY <1>3 DEF ListTopics, shared, service, outcome
  <2>2. missing'[p] = Topics \ topics
    BY <1>t, <2>1 DEF TypeOK
  <2>3. BootInv(p)' /\ ClientInv(p)'
    BY <1>t, <1>i, <2>1, <2>2 DEF BootInv, ClientInv, TypeOK, ShutDown
  <2>4. QED
    BY <1>t, <2>1, <2>3, ProcStep DEF TypeOK
<1>4. ASSUME NEW p \in Procs, CreateTopic(p) PROVE IInv'
  <2>1. PICK t \in missing[p] :
          /\ topics' = topics \cup {t}
          /\ missing' = [missing EXCEPT ![p] = missing[p] \ {t}]
          /\ phase' = [phase EXCEPT ![p] = IF missing[p] = {t} THEN "producer" ELSE "create"]
    BY <1>4 DEF CreateTopic
  <2>2. phase[p] = "create" /\ UNCHANGED <<tables, tasks, open, exit>>
    BY <1>4 DEF CreateTopic, service, outcome
  <2>3. missing'[p] = missing[p] \ {t}
    BY <1>t, <2>1 DEF TypeOK
  <2>4. BootInv(p)' /\ ClientInv(p)'
    BY <1>t, <1>i, <2>1, <2>2, <2>3 DEF BootInv, ClientInv, TypeOK, ShutDown
  <2>5. QED
    BY <1>t, <2>1, <2>2, <2>4, ProcStep DEF TypeOK
\* The steps that may end with the process gone.
<1>e. ASSUME NEW p \in Procs, Exit(p, "error"), UNCHANGED <<tables, topics, missing, open>>
      PROVE IInv'
  <2>1. BootInv(p)' /\ ClientInv(p)'
    BY <1>e, ExitFacts
  <2>2. QED
    BY <1>t, <1>e, <2>1, ProcStep DEF Exit, TypeOK
<1>5. ASSUME NEW p \in Procs, Unreachable(p) PROVE IInv'
  <2>1. phase[p] \in {"topics", "create"} /\ UNCHANGED <<tables, topics, missing, open>>
    BY <1>5 DEF Unreachable, shared
  <2>2. CASE Exit(p, "error")
    BY <1>e, <2>1, <2>2
  <2>3. CASE phase' = [phase EXCEPT ![p] = "topics"] /\ UNCHANGED <<tasks, exit>>
    <3>1. BootInv(p)' /\ ClientInv(p)'
      BY <1>t, <1>i, <2>1, <2>3 DEF BootInv, ClientInv, TypeOK, ShutDown
    <3>2. QED
      BY <1>t, <2>1, <2>3, <3>1, ProcStep DEF TypeOK
  <2>4. QED
    BY <1>5, <2>2, <2>3 DEF Unreachable
<1>6. ASSUME NEW p \in Procs, StartProducer(p) PROVE IInv'
  <2>1. phase[p] = "producer" /\ UNCHANGED <<tables, topics, missing>>
    BY <1>6 DEF StartProducer, shared, boot
  <2>2. CASE Exit(p, "error") /\ UNCHANGED open
    BY <1>e, <2>1, <2>2
  <2>3. CASE /\ phase' = [phase EXCEPT ![p] = "run"] /\ open' = [open EXCEPT ![p] = {"producer"}]
             /\ tasks' = [tasks EXCEPT ![p] = TasksOf(p)] /\ UNCHANGED exit
    <3>1. BootInv(p)' /\ ClientInv(p)'
      BY <1>t, <1>i, <2>1, <2>3 DEF BootInv, ClientInv, TypeOK, ShutDown
    <3>2. QED
      BY <1>t, <2>1, <2>3, <3>1, ProcStep DEF TypeOK
  <2>4. QED
    BY <1>6, <2>2, <2>3 DEF StartProducer
<1>7. ASSUME NEW p \in Procs, NEW t, Serve(p, t) PROVE IInv'
  <2>1. /\ t \in tasks[p] /\ open' = [open EXCEPT ![p] = open[p] \cup {"redis", "db"}]
        /\ UNCHANGED <<tables, topics, phase, missing, tasks, exit>>
    BY <1>7 DEF Serve, shared, boot, outcome
  <2>2. BootInv(p)' /\ ClientInv(p)'
    BY <1>t, <1>i, <2>1 DEF BootInv, ClientInv, TypeOK
  <2>3. QED
    BY <1>t, <2>1, <2>2, ProcStep DEF TypeOK
<1>8. ASSUME NEW p \in Procs, NEW t, TaskRaises(p, t) \/ TaskReturns(p, t) PROVE IInv'
  <2>1. /\ tasks' = [tasks EXCEPT ![p] = tasks[p] \ {t}]
        /\ UNCHANGED <<tables, topics, phase, missing, open, exit>>
    BY <1>8 DEF TaskRaises, TaskReturns, shared, boot, outcome
  <2>2. BootInv(p)' /\ ClientInv(p)'
    BY <1>t, <1>i, <2>1 DEF BootInv, ClientInv, TypeOK
  <2>3. QED
    BY <1>t, <2>1, <2>2, ProcStep DEF TypeOK
<1>9. ASSUME NEW p \in Procs, Drain(p) \/ Gather(p) PROVE IInv'
  <2>1. /\ \/ phase[p] = "run" /\ phase' = [phase EXCEPT ![p] = "drain"]
           \/ phase[p] = "drain" /\ tasks[p] = {} /\ phase' = [phase EXCEPT ![p] = "flush"]
        /\ UNCHANGED <<tables, topics, missing, tasks, open, exit>>
    BY <1>9 DEF Drain, Gather, shared, boot, service, outcome
  <2>2. BootInv(p)' /\ ClientInv(p)'
    BY <1>t, <1>i, <2>1 DEF BootInv, ClientInv, TypeOK, ShutDown
  <2>3. QED
    BY <1>t, <2>1, <2>2, ProcStep DEF TypeOK
<1>10. ASSUME NEW p \in Procs, Close(p) PROVE IInv'
  <2>1. UNCHANGED <<tables, topics, missing>>
    BY <1>10 DEF Close, shared, boot
  <2>2. CASE /\ phase[p] = "flush" /\ phase' = [phase EXCEPT ![p] = "redis"]
             /\ open' = [open EXCEPT ![p] = open[p] \ {"producer"}] /\ UNCHANGED <<tasks, exit>>
    <3>1. BootInv(p)' /\ ClientInv(p)'
      BY <1>t, <1>i, <2>1, <2>2 DEF BootInv, ClientInv, TypeOK, ShutDown
    <3>2. QED
      BY <1>t, <2>1, <2>2, <3>1, ProcStep DEF TypeOK
  <2>3. CASE /\ phase[p] = "redis" /\ phase' = [phase EXCEPT ![p] = "dispose"]
             /\ open' = [open EXCEPT ![p] = open[p] \ {"redis"}] /\ UNCHANGED <<tasks, exit>>
    <3>1. BootInv(p)' /\ ClientInv(p)'
      BY <1>t, <1>i, <2>1, <2>3 DEF BootInv, ClientInv, TypeOK, ShutDown
    <3>2. QED
      BY <1>t, <2>1, <2>3, <3>1, ProcStep DEF TypeOK
  <2>4. CASE /\ phase[p] = "dispose" /\ Exit(p, "clean")
             /\ open' = [open EXCEPT ![p] = open[p] \ {"db"}]
    <3>1. open'[p] = {}
      BY <1>t, <1>i, <2>4 DEF ClientInv, TypeOK
    <3>2. BootInv(p)' /\ ClientInv(p)'
      BY <2>4, <3>1, ExitFacts
    <3>3. QED
      BY <1>t, <2>1, <2>4, <3>2, ProcStep DEF Exit, TypeOK
  <2>5. QED
    BY <1>10, <2>2, <2>3, <2>4 DEF Close
<1>11. ASSUME NEW p \in Procs, Die(p) PROVE IInv'
  BY <1>e, <1>11 DEF Die, shared, boot
<1>12. ASSUME NEW p \in Procs, Signal(p) PROVE IInv'
  <2>1. UNCHANGED <<tables, topics, missing, open>>
    BY <1>12 DEF Signal, shared, boot
  <2>2. CASE Exit(p, "error")
    BY <1>e, <2>1, <2>2
  <2>3. CASE UNCHANGED <<phase, tasks, exit>>
    <3>1. BootInv(p)' /\ ClientInv(p)'
      BY <1>i, <2>1, <2>3 DEF BootInv, ClientInv
    <3>2. QED
      BY <1>t, <2>1, <2>3, <3>1, ProcStep
  <2>4. QED
    BY <1>12, <2>2, <2>3 DEF Signal
<1>13. ASSUME NEW p \in Procs, Restart(p) PROVE IInv'
  <2>1. /\ phase[p] = "down" /\ phase' = [phase EXCEPT ![p] = "schema"]
        /\ missing' = [missing EXCEPT ![p] = {}] /\ open' = [open EXCEPT ![p] = {}]
        /\ exit' = [exit EXCEPT ![p] = "none"]
        /\ UNCHANGED <<tables, topics, tasks>>
    BY <1>13 DEF Restart, shared
  <2>2. BootInv(p)' /\ ClientInv(p)'
    BY <1>t, <1>i, <2>1 DEF BootInv, ClientInv, TypeOK, ShutDown
  <2>3. QED
    BY <1>t, <2>1, <2>2, ProcStep DEF TypeOK
<1>14. CASE BrokerDown \/ BrokerUp \/ UNCHANGED vars
  <2>1. UNCHANGED <<tables, topics, phase, missing, tasks, open, exit>>
    BY <1>14 DEF BrokerDown, BrokerUp, vars, boot, service, outcome
  <2>2. QED
    BY <1>t, <1>i, <2>1 DEF IInv, BootInv, ClientInv
<1>15. QED
  BY <1>1, <1>2, <1>3, <1>4, <1>5, <1>6, <1>7, <1>8, <1>9, <1>10, <1>11, <1>12, <1>13, <1>14
  DEF Next, Step

\* The invariant holds at the start and for ever.
LEMMA AlwaysInv == Spec => []IInv
<1>1. Init => IInv
  <2> SUFFICES ASSUME Init PROVE IInv
    OBVIOUS
  <2>1. tables \in BOOLEAN /\ stop \in [Procs -> BOOLEAN] /\ stopped \in [Procs -> BOOLEAN]
    BY Zenon DEF Init
  <2>2. TypeOK
    BY <2>1, LifeAssumption DEF Init, TypeOK, StartUp
  <2>3. \A p \in Procs : BootInv(p) /\ ClientInv(p)
    BY DEF Init, BootInv, ClientInv, ShutDown
  <2>4. QED
    BY <2>2, <2>3 DEF IInv
<1>2. QED
  BY <1>1, InvStep, PTL DEF Spec

\* The state of the processes keeps its types; ensure_topics never counts more
\* attempts than it has.
THEOREM TypeCorrect == Spec => []TypeOK
<1>1. IInv => TypeOK
  BY DEF IInv
<1>2. QED
  BY <1>1, AlwaysInv, PTL

\* No consumer and no request handler runs before tables and topics exist, for
\* any number of replicas that create them at once.
THEOREM ServedOnlyWhenReady == Spec => []ServesOnlyWhenReady
<1>1. IInv => ServesOnlyWhenReady
  BY DEF IInv, TypeOK, BootInv, ClientInv, ServesOnlyWhenReady, ShutDown
<1>2. QED
  BY <1>1, AlwaysInv, PTL

\* The producer outlives every handler, and a regular end leaves nothing open.
THEOREM HandlersAreOutlived == Spec => []ClientsOutliveHandlers
<1>1. IInv => ClientsOutliveHandlers
  BY DEF IInv, ClientInv, ClientsOutliveHandlers
<1>2. QED
  BY <1>1, AlwaysInv, PTL

=============================================================================
