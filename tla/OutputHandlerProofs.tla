------------------------- MODULE OutputHandlerProofs -------------------------
(***************************************************************************)
(* Proofs about OutputHandler for any numbers of queries, servers,         *)
(* connections and faults: the types, that the counter of the database     *)
(* thread pool is exact, that a task never meets a deleted connection      *)
(* pool, that connections are taken and returned in balance, that pop() is *)
(* never called on an empty queue, that the pool stays with its server     *)
(* until the shutdown, and that OutputHandler implements Delivery.         *)
(***************************************************************************)
EXTENDS OutputHandler, ThreadPoolProofs, WellFoundedInduction

(* The parts of the inductive invariant.  push_task runs between the two   *)
(* steps of the output thread, with a message in hand.                     *)
Pushing == IF opc = "push_enqueue" THEN 1 ELSE 0

TotalAccounts == tasks_total = Pushing + Counted

HandHolds == opc \in {"push_count", "push_enqueue"} => message \in Entry

(* The order of the threads: the output thread leaves its loop after       *)
(* stop(), and main() goes on when it has ended.                           *)
MainOrder ==
  /\ stop_ => mpc \in {"join", "drain", "exit"}
  /\ opc \in {"deinit_wait", "disconnect", "done"} => stop_
  /\ mpc \in {"drain", "exit"} => opc = "done"

PopSafe == opc \in {"running", "pop"} => messages # <<>>

(* A worker whose task is under way executes it.                           *)
TaskPlaces == \A w \in Workers : tpc[w] # "start" => wpc[w] = "exec"

(* Where there is a connection pool, and where there are no tasks.         *)
PoolNeeded ==
  /\ opc \in {"setup_wait", "setup_connect"} => conpool = "null"
  /\ opc \in {"while", "running", "pop", "push_count", "push_enqueue"}
       => conpool # "null"
  /\ conpool = "null" => tasks_total = 0
  /\ opc \in {"disconnect", "done"} => tasks_total = 0

Inv ==
  /\ TypeOK
  /\ JobPC
  /\ TotalAccounts
  /\ HandHolds
  /\ MainOrder
  /\ PopSafe
  /\ TaskPlaces
  /\ PoolNeeded
  /\ ConnectionsBalanced

(* Inv gives the invariant of the thread pool, which its lemmas are about. *)
LEMMA InvPool ==
  ASSUME Inv
  PROVE  /\ PoolInv(Entry)
         /\ Counted \in Nat
         /\ Pushing \in {0, 1}
         /\ NoTask \notin Entry
<1>1. Len(tasks) \in Nat /\ Cardinality(Busy) \in Nat
  BY BusyFinite, LenProperties DEF Inv, TypeOK, PoolTypeOK, Busy
<1>2. Counted \in Nat
  BY <1>1 DEF Counted
<1>3. Pushing \in {0, 1}
  BY DEF Pushing
<1>4. tasks_total >= Counted
  BY <1>2, <1>3 DEF Inv, TotalAccounts
<1> QED
  BY <1>2, <1>3, <1>4, OutputAssumption DEF Inv, TypeOK, PoolInv

(* The task that a worker executes is one of a message.                    *)
LEMMA JobEntry ==
  ASSUME Inv, NEW w \in Workers, wpc[w] = "exec"
  PROVE  job[w] \in Entry /\ job[w].query \in Msgs
<1>1. job[w] \in Entry
  BY DEF Inv, TypeOK, PoolTypeOK, JobPC
<1> QED
  BY <1>1 DEF Entry

(* While a task runs it is counted, so there is a connection pool.         *)
LEMMA RunningTask ==
  ASSUME Inv, NEW w \in Workers, wpc[w] = "exec"
  PROVE  tasks_total > 0 /\ conpool # "null"
<1>1. /\ Counted \in Nat
      /\ Pushing \in {0, 1}
      /\ Len(tasks) \in Nat
      /\ Cardinality(Busy) \in Nat
  BY InvPool, BusyFinite, LenProperties DEF Inv, TypeOK, PoolTypeOK, Busy
<1>2. job[w] # NoTask
  BY DEF Inv, JobPC
<1>3. Cardinality(Busy) # 0
  BY <1>2, NoneBusy
<1>4. Counted > 0
  BY <1>1, <1>3 DEF Counted
<1>5. tasks_total > 0
  BY <1>1, <1>4 DEF Inv, TotalAccounts
<1> QED
  BY <1>5 DEF Inv, PoolNeeded

-----------------------------------------------------------------------------
(* Every step keeps the thread pool and its counter; only push_task adds   *)
(* to the counter.                                                         *)
LEMMA PoolStep ==
  ASSUME Inv, [Next]_vars
  PROVE  /\ PoolInv(Entry)'
         /\ TotalAccounts'
         /\ opc # "push_count" => tasks_total' <= tasks_total
<1>0. /\ PoolInv(Entry)
      /\ Counted \in Nat
      /\ Pushing \in {0, 1}
      /\ NoTask \notin Entry
      /\ tasks_total = Pushing + Counted
      /\ tasks_total \in Nat
  BY InvPool DEF Inv, TotalAccounts, PoolInv, PoolTypeOK
<1>a. ASSUME PoolInv(Entry)', tasks_total' = tasks_total, Counted' = Counted,
             Pushing' = Pushing
      PROVE  /\ PoolInv(Entry)'
             /\ TotalAccounts'
             /\ tasks_total' <= tasks_total
  BY <1>0, <1>a DEF TotalAccounts
<1>b. ASSUME UNCHANGED poolVars, Pushing' = Pushing
      PROVE  /\ PoolInv(Entry)'
             /\ TotalAccounts'
             /\ tasks_total' <= tasks_total
  <2>1. PoolInv(Entry)' /\ tasks_total' = tasks_total /\ Counted' = Counted
    BY <1>0, <1>b DEF poolVars, PoolInv, PoolTypeOK, JobPC, Counted, Busy
  <2> QED
    BY <1>a, <1>b, <2>1
<1>c. ASSUME NEW w \in Workers, TaskReturn(w), UNCHANGED opc
      PROVE  /\ PoolInv(Entry)'
             /\ TotalAccounts'
             /\ tasks_total' <= tasks_total
  <2>1. PoolInv(Entry)' /\ tasks_total' = tasks_total /\ Counted' = Counted
    BY <1>0, <1>c, TaskReturnInv
  <2> QED
    BY <1>a, <1>c, <2>1 DEF Pushing
<1>1. CASE OutWait \/ OutConnect \/ OutLoop \/ OutWhile \/ OutPop \/ OutDisconnect
  <2>1. UNCHANGED poolVars /\ Pushing' = Pushing
    BY <1>1 DEF OutWait, OutConnect, OutLoop, OutWhile, OutPop, OutDisconnect,
                OutGoto, Pushing
  <2> QED
    BY <1>b, <2>1
<1>2. CASE OutReads
  <2>1. PoolInv(Entry)' /\ tasks_total' = tasks_total /\ Counted' = Counted
    BY <1>0, <1>2, ReadInv, OutputAssumption DEF OutReads
  <2> QED
    BY <1>2, <1>a, <2>1 DEF OutReads, Pushing
<1>3. CASE OutThrottle
  <2>1. NotReading \in [total : Int, queued : Int, totalFirst : BOOLEAN]
    BY DEF NotReading, Unread
  <2>2. PoolInv(Entry)' /\ tasks_total' = tasks_total /\ Counted' = Counted
    BY <1>0, <1>3, <2>1 DEF OutThrottle, PoolInv, PoolTypeOK, JobPC, Counted, Busy
  <2> QED
    BY <1>3, <1>a, <2>2 DEF OutThrottle, OutGoto, Pushing
<1>4. CASE OutPushCount
  <2>1. PoolInv(Entry)' /\ tasks_total' = tasks_total + 1 /\ Counted' = Counted
    BY <1>0, <1>4, PushCountInv DEF OutPushCount
  <2>2. opc = "push_count" /\ Pushing = 0 /\ Pushing' = 1
    BY <1>4 DEF OutPushCount, OutGoto, Pushing
  <2> QED
    BY <1>0, <2>1, <2>2 DEF TotalAccounts
<1>5. CASE OutPushEnqueue
  <2>1. message \in Entry /\ Pushing = 1 /\ Pushing' = 0
    BY <1>5 DEF OutPushEnqueue, OutGoto, Pushing, Inv, HandHolds
  <2>2. tasks_total >= Counted + 1
    BY <1>0, <2>1
  <2>3. /\ PoolInv(Entry)'
        /\ tasks_total' = tasks_total
        /\ Counted' = Counted + 1
    BY <1>0, <1>5, <2>1, <2>2, PushEnqueueInv DEF OutPushEnqueue
  <2> QED
    BY <1>0, <2>1, <2>3 DEF TotalAccounts
<1>6. ASSUME NEW w \in Workers, TaskStep(w)
      PROVE  /\ PoolInv(Entry)'
             /\ TotalAccounts'
             /\ tasks_total' <= tasks_total
  <2>1. UNCHANGED opc /\ (UNCHANGED poolVars \/ TaskReturn(w))
    BY <1>6 DEF TaskStep, TaskStart, TaskGetConnection, TaskNoConnection,
                TaskPushNull, TaskQuery, TaskPushDeadlock, TaskReturnConnection,
                TaskEnds
  <2> QED
    BY <1>b, <1>c, <2>1 DEF Pushing
<1>7. ASSUME NEW w \in Workers, Work(w)
      PROVE  /\ PoolInv(Entry)'
             /\ TotalAccounts'
             /\ tasks_total' <= tasks_total
  <2>1. PoolInv(Entry)' /\ tasks_total' - Counted' = tasks_total - Counted
    BY <1>0, <1>7, WorkerStepInv DEF Work
  <2>2. Pushing' = Pushing
    BY <1>7 DEF Work, Pushing
  <2>3. tasks_total' \in Nat /\ Len(tasks') \in Nat /\ Cardinality(Busy') \in Nat
    BY <2>1, BusyFinite, LenProperties DEF PoolInv, PoolTypeOK, Busy
  <2>4. Counted' \in Int
    BY <2>3 DEF Counted
  <2>5. tasks_total' - Counted' = Pushing
    BY <1>0, <2>1
  <2>6. \A a \in Int, b \in Int, c \in Int : a - b = c => a = c + b
    OBVIOUS
  <2>7. tasks_total' = Pushing' + Counted'
    <3>1. Pushing' \in Int /\ tasks_total' \in Int
      BY <1>0, <2>2, <2>3
    <3>2. tasks_total' - Counted' = Pushing'
      BY <2>2, <2>5
    <3> QED
      BY <2>4, <2>6, <3>1, <3>2
  <2>8. tasks_total' <= tasks_total
    BY <1>0, <1>7 DEF Work, WorkerStep, WorkerLoop, WorkerCheck, PopTask,
                      PopNothing, TaskCount
  <2> QED
    BY <2>1, <2>7, <2>8 DEF TotalAccounts
<1>8. CASE \/ MainLeavesLoop \/ MainStep
           \/ \E m \in Msgs : AddMessage(m)
           \/ \E s \in Servers : Clock(s)
           \/ UNCHANGED vars
  <2>1. UNCHANGED <<poolVars, opc>>
    BY <1>8 DEF MainLeavesLoop, MainStep, MainInputEnded, MainStopsOutput,
                MainJoins, MainDrains, AddMessage, Clock, vars
  <2> QED
    BY <1>b, <2>1 DEF Pushing
<1> QED
  BY <1>1, <1>2, <1>3, <1>4, <1>5, <1>6, <1>7, <1>8 DEF Next, OutputStep
-----------------------------------------------------------------------------
(* The workers with a connection, under any assignment of tpc.             *)
LEMMA HoldersFinite ==
  ASSUME NEW f
  PROVE  LET H == {w \in Workers : f[w] \in {"query", "push_deadlock", "return_con"}}
         IN  IsFiniteSet(H) /\ Cardinality(H) \in Nat
<1> DEFINE H == {w \in Workers : f[w] \in {"query", "push_deadlock", "return_con"}}
<1>1. H \in SUBSET Workers
  OBVIOUS
<1>2. IsFiniteSet(H)
  BY <1>1, PoolAssumption, FS_Subset
<1>3. Cardinality(H) \in Nat
  BY <1>2, FS_CardinalityType
<1> QED
  BY <1>2, <1>3

(* While no task is counted no worker has a connection.                    *)
LEMMA NoTaskNoHolder ==
  ASSUME Inv, tasks_total = 0
  PROVE  Holders = {} /\ Cardinality(Holders) = 0
<1>1. \A w \in Workers : wpc[w] # "exec"
  BY RunningTask
<1>2. \A w \in Workers : tpc[w] = "start"
  BY <1>1 DEF Inv, TaskPlaces
<1>3. Holders = {}
  BY <1>2 DEF Holders
<1> QED
  BY <1>3, FS_EmptySet

(* A task under way stays with a worker that executes it.                  *)
LEMMA TaskPlacesStep ==
  ASSUME Inv, [Next]_vars
  PROVE  TaskPlaces'
<1>0. /\ TaskPlaces
      /\ wpc \in [Workers -> WorkerPC]
      /\ tpc \in [Workers -> TaskPC]
  BY DEF Inv, TypeOK, PoolTypeOK
<1>1. ASSUME NEW w \in Workers, TaskStep(w) PROVE TaskPlaces'
  <2>1. ASSUME NEW from, NEW to, TaskGoto(w, from, to), UNCHANGED wpc
        PROVE  TaskPlaces'
    BY <1>0, <2>1 DEF TaskGoto, TaskPlaces
  <2>2. ASSUME NEW from, TaskEnds(w, from) PROVE TaskPlaces'
    BY <1>0, <2>2 DEF TaskEnds, TaskGoto, TaskReturn, TaskPlaces
  <2> QED
    BY <1>1, <2>1, <2>2 DEF TaskStep, TaskStart, TaskGetConnection,
       TaskNoConnection, TaskPushNull, TaskQuery, TaskPushDeadlock,
       TaskReturnConnection, poolVars
<1>2. ASSUME NEW w \in Workers, Work(w) PROVE TaskPlaces'
  <2>1. UNCHANGED tpc /\ wpc[w] # "exec" /\ \E p : wpc' = [wpc EXCEPT ![w] = p]
    BY <1>2 DEF Work, WorkerStep, WorkerLoop, WorkerCheck, PopTask, PopNothing,
                TaskCount
  <2> QED
    BY <1>0, <2>1 DEF TaskPlaces
<1>3. CASE \/ OutputStep \/ MainLeavesLoop \/ MainStep
           \/ \E m \in Msgs : AddMessage(m)
           \/ \E s \in Servers : Clock(s)
           \/ UNCHANGED vars
  <2>1. UNCHANGED <<wpc, tpc>>
    <3>1. CASE OutputStep
      BY <3>1 DEF OutputStep, OutWait, OutConnect, OutLoop, OutWhile, OutReads,
         OutThrottle, OutPop, OutPushCount, OutPushEnqueue, OutDisconnect,
         ReadTotal, ReadQueued, PushCount, PushEnqueue, poolVars
    <3>2. CASE ~OutputStep
      BY <1>3, <3>2 DEF MainLeavesLoop, MainStep, MainInputEnded, MainStopsOutput,
         MainJoins, MainDrains, AddMessage, Clock, vars, poolVars
    <3> QED
      BY <3>1, <3>2
  <2> QED
    BY <1>0, <2>1 DEF TaskPlaces
<1> QED
  BY <1>1, <1>2, <1>3 DEF Next

(* Connections are taken and returned in balance.                          *)
LEMMA ConnectionStep ==
  ASSUME Inv, [Next]_vars
  PROVE  ConnectionsBalanced' /\ active' \in Nat
<1>0. /\ ConnectionsBalanced
      /\ active \in Nat
      /\ tpc \in [Workers -> TaskPC]
      /\ IsFiniteSet(Holders) /\ Cardinality(Holders) \in Nat
      /\ MaxConnections \in Nat
  BY HoldersFinite, DatabaseAssumption
     DEF Inv, TypeOK, DatabaseTypeOK, Holders
<1>a. ASSUME UNCHANGED <<active, conpool>>, Holders' = Holders
      PROVE  ConnectionsBalanced' /\ active' \in Nat
  BY <1>0, <1>a
     DEF ConnectionsBalanced, GetMaxDatabaseConnections, HasConnectionPool
<1>b. ASSUME active' = 0, UNCHANGED tpc, tasks_total = 0
      PROVE  ConnectionsBalanced' /\ active' \in Nat
  <2>1. Holders' = Holders
    BY <1>b DEF Holders
  <2>2. Cardinality(Holders') = 0
    BY <1>b, <2>1, NoTaskNoHolder
  <2> QED
    BY <1>0, <1>b, <2>2 DEF ConnectionsBalanced, GetMaxDatabaseConnections
<1>1. CASE OutConnect
  <2>1. tasks_total = 0 /\ UNCHANGED tpc
    BY <1>1 DEF OutConnect, OutGoto, Inv, PoolNeeded
  <2>2. CASE ConnectKeeps
    BY <1>a, <2>1, <2>2 DEF ConnectKeeps, dbVars, Holders
  <2>3. CASE ~ConnectKeeps
    BY <1>1, <1>b, <2>1, <2>3 DEF OutConnect, ConnectReplaces
  <2> QED
    BY <2>2, <2>3
<1>2. CASE OutDisconnect
  <2>1. tasks_total = 0
    BY <1>2 DEF OutDisconnect, OutGoto, Inv, PoolNeeded
  <2> QED
    BY <1>2, <1>b, <2>1 DEF OutDisconnect, Disconnect
<1>3. ASSUME NEW w \in Workers, TaskStep(w)
      PROVE  ConnectionsBalanced' /\ active' \in Nat
  <2>1. CASE TaskGetConnection(w)
    <3>1. Holders' = Holders \cup {w} /\ w \notin Holders
      BY <1>0, <2>1 DEF TaskGetConnection, TaskGoto, Holders
    <3>2. Cardinality(Holders') = Cardinality(Holders) + 1
      BY <1>0, <3>1, FS_AddElement
    <3> QED
      BY <1>0, <2>1, <3>2 DEF TaskGetConnection, GetConnection,
         ConnectionsBalanced, GetMaxDatabaseConnections, HasConnectionPool
  <2>2. CASE TaskReturnConnection(w)
    <3>1. Holders' = Holders \ {w} /\ w \in Holders
      BY <1>0, <2>2 DEF TaskReturnConnection, TaskEnds, TaskGoto, Holders
    <3>2. Cardinality(Holders') = Cardinality(Holders) - 1
      BY <1>0, <3>1, FS_RemoveElement
    <3>3. conpool # "null"
      BY <2>2, RunningTask DEF TaskReturnConnection, TaskEnds, TaskGoto
    <3>4. Cardinality(Holders') \in Nat
      BY HoldersFinite DEF Holders
    <3> QED
      BY <1>0, <2>2, <3>2, <3>3, <3>4 DEF TaskReturnConnection,
         ReturnConnection, ConnectionsBalanced, GetMaxDatabaseConnections,
         HasConnectionPool
  <2>3. CASE \/ TaskStart(w) \/ TaskNoConnection(w) \/ TaskPushNull(w)
             \/ TaskQuery(w) \/ TaskPushDeadlock(w)
    <3>1. Holders' = Holders
      BY <1>0, <2>3 DEF TaskStart, TaskNoConnection, TaskPushNull, TaskQuery,
         TaskPushDeadlock, TaskEnds, TaskGoto, Holders
    <3>2. UNCHANGED dbVars
      BY <2>3 DEF TaskStart, TaskNoConnection, TaskPushNull, TaskQuery,
         TaskPushDeadlock
    <3> QED
      BY <1>a, <3>1, <3>2 DEF dbVars
  <2> QED
    BY <1>3, <2>1, <2>2, <2>3 DEF TaskStep
<1>4. CASE \/ OutWait \/ OutLoop \/ OutWhile \/ OutReads \/ OutThrottle
           \/ OutPop \/ OutPushCount \/ OutPushEnqueue
  BY <1>4, <1>a DEF OutWait, OutLoop, OutWhile, OutReads, OutThrottle, OutPop,
     OutPushCount, OutPushEnqueue, dbVars, Holders
<1>5. CASE \/ \E w \in Workers : Work(w)
           \/ MainLeavesLoop \/ MainStep
           \/ \E m \in Msgs : AddMessage(m)
           \/ \E s \in Servers : Clock(s)
           \/ UNCHANGED vars
  <2>1. UNCHANGED <<active, conpool, tpc>>
    BY <1>5 DEF Work, MainLeavesLoop, MainStep, MainInputEnded, MainStopsOutput,
       MainJoins, MainDrains, AddMessage, Clock, ErrorAges, vars, dbVars
  <2> QED
    BY <1>a, <2>1 DEF Holders
<1> QED
  BY <1>1, <1>2, <1>3, <1>4, <1>5 DEF Next, OutputStep
-----------------------------------------------------------------------------
(* What a step does to the message queue: nothing, a push of an entry, a   *)
(* pop by the output thread, or a pop by main() when that thread has ended.*)
LEMMA MessagesStep ==
  ASSUME Inv, [Next]_vars
  PROVE  /\ messages' \in Seq(Entry)
         /\ messages # <<>> /\ opc' = opc /\ opc # "done" => messages' # <<>>
<1>0. messages \in Seq(Entry)
  BY DEF Inv, TypeOK
<1>a. ASSUME NEW e \in Entry, PushMessage(e)
      PROVE  messages' \in Seq(Entry) /\ messages' # <<>>
  BY <1>0, <1>a, AppendProperties DEF PushMessage
<1>b. ASSUME UNCHANGED messages
      PROVE  messages' \in Seq(Entry) /\ (messages # <<>> => messages' # <<>>)
  BY <1>0, <1>b
<1>1. CASE OutPop
  <2>1. messages # <<>> /\ opc' # opc
    BY <1>1 DEF OutPop, Inv, PopSafe
  <2> QED
    BY <1>0, <1>1, <2>1, HeadTailProperties DEF OutPop, PopMessage
<1>2. CASE MainDrains
  <2>1. opc = "done"
    BY <1>2 DEF MainDrains, MainGoto, Inv, MainOrder
  <2> QED
    BY <1>0, <1>2, <2>1, HeadTailProperties DEF MainDrains, PopMessage, MessagesEmpty
<1>3. ASSUME NEW m \in Msgs, AddMessage(m)
      PROVE  messages' \in Seq(Entry) /\ messages' # <<>>
  <2>1. NewEntry(m) \in Entry
    BY DEF NewEntry, Entry
  <2> QED
    BY <1>3, <1>a, <2>1 DEF AddMessage
<1>4. ASSUME NEW w \in Workers, TaskStep(w)
      PROVE  messages' \in Seq(Entry) /\ (messages # <<>> => messages' # <<>>)
  <2>1. CASE TaskPushNull(w) \/ TaskPushDeadlock(w)
    <3>1. wpc[w] = "exec" /\ PushMessage(job[w])
      BY <2>1 DEF TaskPushNull, TaskPushDeadlock, TaskEnds, TaskGoto
    <3> QED
      BY <1>a, <3>1, JobEntry
  <2>2. CASE ~(TaskPushNull(w) \/ TaskPushDeadlock(w))
    BY <1>4, <1>b, <2>2 DEF TaskStep, TaskStart, TaskGetConnection,
       TaskNoConnection, TaskQuery, TaskReturnConnection, queueVars
  <2> QED
    BY <2>1, <2>2
<1>5. CASE \/ OutWait \/ OutConnect \/ OutLoop \/ OutWhile \/ OutReads
           \/ OutThrottle \/ OutPushCount \/ OutPushEnqueue \/ OutDisconnect
  BY <1>5, <1>b DEF OutWait, OutConnect, OutLoop, OutWhile, OutReads,
     OutThrottle, OutPushCount, OutPushEnqueue, OutDisconnect, queueVars
<1>6. CASE \/ \E w \in Workers : Work(w)
           \/ MainLeavesLoop \/ MainInputEnded \/ MainStopsOutput \/ MainJoins
           \/ \E s \in Servers : Clock(s)
           \/ UNCHANGED vars
  BY <1>6, <1>b DEF Work, MainLeavesLoop, MainInputEnded, MainStopsOutput,
     MainJoins, Clock, vars, queueVars
<1> QED
  BY <1>1, <1>2, <1>3, <1>4, <1>5, <1>6 DEF Next, OutputStep, MainStep

(* The message in hand is one of a query, and the queue it is taken from   *)
(* is not empty.                                                           *)
LEMMA HandStep ==
  ASSUME Inv, [Next]_vars
  PROVE  /\ HandHolds'
         /\ PopSafe'
         /\ message' \in Entry \cup {NoTask}
<1>0. /\ HandHolds /\ PopSafe
      /\ message \in Entry \cup {NoTask}
      /\ messages # <<>> /\ opc' = opc /\ opc # "done" => messages' # <<>>
  BY MessagesStep DEF Inv, TypeOK
<1>1. CASE OutPop
  <2>1. messages \in Seq(Entry) /\ messages # <<>>
    BY <1>1 DEF OutPop, Inv, PopSafe, TypeOK
  <2>2. message' \in Entry
    BY <1>1, <2>1, HeadTailProperties DEF OutPop, FrontMessage
  <2> QED
    BY <1>1, <2>2 DEF OutPop, HandHolds, PopSafe
<1>2. CASE \/ OutWait \/ OutConnect \/ OutLoop \/ OutWhile \/ OutThrottle
           \/ OutPushCount \/ OutPushEnqueue \/ OutDisconnect
  BY <1>0, <1>2 DEF OutWait, OutConnect, OutLoop, OutWhile, OutThrottle,
     OutPushCount, OutPushEnqueue, OutDisconnect, OutGoto, MessagesEmpty,
     queueVars, HandHolds, PopSafe
<1>3. CASE UNCHANGED <<opc, message>>
  BY <1>0, <1>3 DEF HandHolds, PopSafe
<1>4. CASE ~OutputStep \/ OutReads
  <2>1. UNCHANGED <<opc, message>>
    BY <1>4 DEF Next, OutReads, TaskStep, TaskStart, TaskGetConnection,
       TaskNoConnection, TaskPushNull, TaskQuery, TaskPushDeadlock,
       TaskReturnConnection, Work, MainLeavesLoop, MainStep, MainInputEnded,
       MainStopsOutput, MainJoins, MainDrains, AddMessage, Clock, vars
  <2> QED
    BY <1>3, <2>1
<1> QED
  BY <1>1, <1>2, <1>4 DEF OutputStep
(* The order of the threads is kept, and with it where there is a          *)
(* connection pool.                                                        *)
LEMMA OrderStep ==
  ASSUME Inv, [Next]_vars
  PROVE  MainOrder' /\ PoolNeeded'
<1>0. /\ MainOrder /\ PoolNeeded
      /\ tasks_total \in Nat /\ tasks_total' \in Nat
      /\ opc # "push_count" => tasks_total' <= tasks_total
      /\ opc # "push_count" /\ tasks_total = 0 => tasks_total' = 0
  <2>1. /\ tasks_total' \in Nat
        /\ opc # "push_count" => tasks_total' <= tasks_total
    BY PoolStep DEF PoolInv, PoolTypeOK
  <2>2. tasks_total \in Nat
    BY DEF Inv, TypeOK, PoolTypeOK
  <2> QED
    BY <2>1, <2>2 DEF Inv
<1>1. CASE OutPushCount
  BY <1>0, <1>1 DEF OutPushCount, OutGoto, MainOrder, PoolNeeded, dbVars
<1>2. CASE OutConnect
  BY <1>0, <1>2 DEF OutConnect, OutGoto, MainOrder, PoolNeeded
<1>3. CASE \/ OutWait \/ OutLoop \/ OutWhile \/ OutThrottle
           \/ OutPop \/ OutPushEnqueue
  BY <1>0, <1>3 DEF OutWait, OutLoop, OutWhile, OutThrottle, OutPop,
     OutPushEnqueue, OutGoto, HasConnectionPool, MainOrder, PoolNeeded, dbVars
<1>4. CASE OutDisconnect
  BY <1>0, <1>4 DEF OutDisconnect, Disconnect, OutGoto, MainOrder, PoolNeeded
<1>5. CASE \/ OutReads
           \/ \E w \in Workers : TaskStep(w) \/ Work(w)
           \/ \E m \in Msgs : AddMessage(m)
           \/ \E s \in Servers : Clock(s)
           \/ UNCHANGED vars
  <2>1. UNCHANGED <<opc, stop_, mpc, conpool>>
    BY <1>5 DEF OutReads, TaskStep, TaskStart, TaskGetConnection,
       TaskNoConnection, TaskPushNull, TaskQuery, TaskPushDeadlock,
       TaskReturnConnection, GetConnection, ReturnConnection, Work, AddMessage,
       Clock, ErrorAges, vars, dbVars
  <2> QED
    BY <1>0, <2>1 DEF MainOrder, PoolNeeded
<1>6. CASE MainLeavesLoop \/ MainStep
  <2>1. UNCHANGED <<opc, conpool>>
    BY <1>6 DEF MainLeavesLoop, MainStep, MainInputEnded, MainStopsOutput,
       MainJoins, MainDrains, dbVars
  <2>2. MainOrder'
    BY <1>0, <1>6 DEF MainLeavesLoop, MainStep, MainInputEnded, MainStopsOutput,
       MainJoins, MainDrains, MainGoto, MainOrder
  <2> QED
    BY <1>0, <2>1, <2>2 DEF PoolNeeded
<1> QED
  BY <1>1, <1>2, <1>3, <1>4, <1>5, <1>6 DEF Next, OutputStep
-----------------------------------------------------------------------------
(* The server that connect() chooses is one of those it chooses from.      *)
LEMMA MinOfServers ==
  ASSUME NEW S \in SUBSET Servers, S # {}
  PROVE  Min(S) \in S
<1>1. S \subseteq Nat
  BY DatabaseAssumption DEF Servers
<1>2. PICK x \in S : \A y \in S : ~ (<<y, x>> \in OpToRel(<, Nat))
  BY <1>1, NatLessThanWellFounded, WFMin
<1>3. \A y \in S : ~ (y < x)
  BY <1>1, <1>2 DEF OpToRel
<1>4. \A y \in S : x <= y
  BY <1>1, <1>3
<1> QED
  BY <1>4 DEF Min
(* The pointer, the index and the errors of LibzdbHandler keep their types.*)
LEMMA DatabaseStep ==
  ASSUME Inv, [Next]_vars
  PROVE  /\ conpool' \in {"null", "unstarted", "started"}
         /\ dbserverindex' \in 0 .. NumServers
         /\ recent' \subseteq Servers
<1>0. /\ conpool \in {"null", "unstarted", "started"}
      /\ dbserverindex \in 0 .. NumServers
      /\ recent \subseteq Servers
  BY DEF Inv, TypeOK, DatabaseTypeOK
<1>1. ASSUME NEW result \in {"null", "unstarted", "started"},
             ConnectReplaces(result)
      PROVE  /\ conpool' \in {"null", "unstarted", "started"}
             /\ dbserverindex' \in 0 .. NumServers
             /\ recent' \subseteq Servers
  <2> DEFINE errors == IF HasConnectionPool
                         THEN SetConnectionFaulty(dbserverindex, recent)
                         ELSE recent
             viable == Servers \ errors
  <2>1. errors \subseteq Servers
    BY <1>0, DatabaseAssumption DEF SetConnectionFaulty, Servers
  <2>2. CASE viable = {}
    BY <1>0, <1>1, <2>1, <2>2 DEF ConnectReplaces
  <2>3. CASE viable # {}
    <3>1. Min(viable) \in Servers
      BY <2>3, MinOfServers
    <3>2. Min(viable) \in 0 .. NumServers
      BY <3>1, DatabaseAssumption DEF Servers
    <3>3. /\ dbserverindex' = Min(viable)
          /\ conpool' = result
          /\ recent' = errors \/ recent' = errors \cup {Min(viable)}
      BY <1>1, <2>3 DEF ConnectReplaces
    <3> QED
      BY <2>1, <3>1, <3>2, <3>3
  <2> QED
    BY <2>2, <2>3
<1>2. CASE OutConnect
  <2>1. CASE ConnectKeeps
    BY <1>0, <2>1 DEF ConnectKeeps, dbVars
  <2>2. CASE ~ConnectKeeps
    <3>1. \E result \in {"null", "unstarted", "started"} : ConnectReplaces(result)
      BY <1>2, <2>2 DEF OutConnect
    <3> QED
      BY <1>1, <3>1
  <2> QED
    BY <2>1, <2>2
<1>3. CASE OutDisconnect
  BY <1>0, <1>3 DEF OutDisconnect, Disconnect
<1>4. CASE OutputStep /\ ~OutConnect /\ ~OutDisconnect
  BY <1>0, <1>4 DEF OutputStep, OutWait, OutLoop, OutWhile, OutReads,
     OutThrottle, OutPop, OutPushCount, OutPushEnqueue, dbVars
<1>5. ASSUME NEW w \in Workers, TaskStep(w) \/ Work(w)
      PROVE  UNCHANGED <<conpool, dbserverindex, recent>>
  BY <1>5 DEF TaskStep, TaskStart, TaskGetConnection, TaskNoConnection,
     TaskPushNull, TaskQuery, TaskPushDeadlock, TaskReturnConnection,
     GetConnection, ReturnConnection, Work, dbVars
<1>6. ASSUME NEW s \in Servers, Clock(s)
      PROVE  UNCHANGED <<conpool, dbserverindex>> /\ recent' = recent \ {s}
  BY <1>6 DEF Clock, ErrorAges
<1>7. CASE MainLeavesLoop \/ MainStep \/ (\E m \in Msgs : AddMessage(m)) \/ UNCHANGED vars
  BY <1>0, <1>7 DEF MainLeavesLoop, MainStep, MainInputEnded, MainStopsOutput,
     MainJoins, MainDrains, AddMessage, vars, dbVars
<1> QED
  BY <1>0, <1>2, <1>3, <1>4, <1>5, <1>6, <1>7 DEF Next

(* So do the program counters, the flag and what is recorded of queries.   *)
LEMMA ControlStep ==
  ASSUME Inv, [Next]_vars
  PROVE  /\ opc' \in OutputPC
         /\ stop_' \in BOOLEAN
         /\ tpc' \in [Workers -> TaskPC]
         /\ mpc' \in MainPC
         /\ accepted' \subseteq Msgs
         /\ faults' \in 0 .. MaxFaults
<1>0. /\ opc \in OutputPC
      /\ stop_ \in BOOLEAN
      /\ tpc \in [Workers -> TaskPC]
      /\ mpc \in MainPC
      /\ accepted \subseteq Msgs
      /\ faults \in 0 .. MaxFaults
      /\ MaxFaults \in Nat
  BY OutputAssumption DEF Inv, TypeOK
<1>f. ASSUME Fault \/ UNCHANGED faults PROVE faults' \in 0 .. MaxFaults
  BY <1>0, <1>f DEF Fault
<1>1. CASE OutputStep
  <2>1. opc' \in OutputPC
    BY <1>0, <1>1 DEF OutputStep, OutWait, OutConnect, OutLoop, OutWhile,
       OutReads, OutThrottle, OutPop, OutPushCount, OutPushEnqueue,
       OutDisconnect, OutGoto, OutputPC
  <2>2. UNCHANGED <<stop_, tpc, mpc, accepted>>
    BY <1>1 DEF OutputStep, OutWait, OutConnect, OutLoop, OutWhile, OutReads,
       OutThrottle, OutPop, OutPushCount, OutPushEnqueue, OutDisconnect, queueVars
  <2>3. Fault \/ UNCHANGED faults
    BY <1>1 DEF OutputStep, OutWait, OutConnect, OutLoop, OutWhile, OutReads,
       OutThrottle, OutPop, OutPushCount, OutPushEnqueue, OutDisconnect
  <2> QED
    BY <1>0, <1>f, <2>1, <2>2, <2>3
<1>2. ASSUME NEW w \in Workers, TaskStep(w)
      PROVE  /\ UNCHANGED <<opc, stop_, mpc, accepted>>
             /\ tpc' \in [Workers -> TaskPC]
             /\ faults' \in 0 .. MaxFaults
  <2>1. UNCHANGED <<opc, stop_, mpc, accepted>>
    BY <1>2 DEF TaskStep, TaskStart, TaskGetConnection, TaskNoConnection,
       TaskPushNull, TaskQuery, TaskPushDeadlock, TaskReturnConnection, queueVars
  <2>2. Fault \/ UNCHANGED faults
    BY <1>2 DEF TaskStep, TaskStart, TaskGetConnection, TaskNoConnection,
       TaskPushNull, TaskQuery, TaskPushDeadlock, TaskReturnConnection
  <2>3. tpc' \in [Workers -> TaskPC]
    BY <1>0, <1>2 DEF TaskStep, TaskStart, TaskGetConnection, TaskNoConnection,
       TaskPushNull, TaskQuery, TaskPushDeadlock, TaskReturnConnection,
       TaskEnds, TaskGoto, TaskPC
  <2> QED
    BY <1>f, <2>1, <2>2, <2>3
<1>3. CASE MainLeavesLoop \/ MainStep
  BY <1>0, <1>3 DEF MainLeavesLoop, MainStep, MainInputEnded, MainStopsOutput,
     MainJoins, MainDrains, MainGoto, MainPC, queueVars
<1>4. CASE \/ \E w \in Workers : Work(w)
           \/ \E m \in Msgs : AddMessage(m)
           \/ \E s \in Servers : Clock(s)
           \/ UNCHANGED vars
  BY <1>0, <1>4 DEF Work, AddMessage, Clock, vars, queueVars
<1> QED
  BY <1>0, <1>1, <1>2, <1>3, <1>4 DEF Next

(* What is recorded is one of the ends a query can come to.                *)
LEMMA OutcomeStep ==
  ASSUME Inv, [Next]_vars
  PROVE  outcome' \in [Msgs -> Outcomes \cup {"none"}]
<1>0. outcome \in [Msgs -> Outcomes \cup {"none"}] /\ messages \in Seq(Entry)
  BY DEF Inv, TypeOK
<1>a. ASSUME NEW m, NEW o \in Outcomes, Settle(m, o)
      PROVE  outcome' \in [Msgs -> Outcomes \cup {"none"}]
  BY <1>0, <1>a DEF Settle
<1>1. CASE OutPop
  BY <1>0, <1>1, <1>a DEF OutPop, Outcomes
<1>2. CASE MainDrains
  BY <1>0, <1>2, <1>a DEF MainDrains, Outcomes
<1>3. ASSUME NEW w \in Workers, TaskStep(w)
      PROVE  outcome' \in [Msgs -> Outcomes \cup {"none"}]
  <2>1. \/ UNCHANGED outcome
        \/ \E o \in {"executed", "rejected", "dropped"} : Settle(job[w].query, o)
    BY <1>3 DEF TaskStep, TaskStart, TaskGetConnection, TaskNoConnection,
       TaskPushNull, TaskQuery, TaskPushDeadlock, TaskReturnConnection
  <2> QED
    BY <1>0, <1>a, <2>1 DEF Outcomes
<1>4. CASE ~OutPop /\ ~MainDrains /\ ~(\E w \in Workers : TaskStep(w))
  BY <1>0, <1>4 DEF Next, OutputStep, OutWait, OutConnect, OutLoop, OutWhile,
     OutReads, OutThrottle, OutPushCount, OutPushEnqueue, OutDisconnect, Work,
     MainLeavesLoop, MainStep, MainInputEnded, MainStopsOutput, MainJoins,
     AddMessage, Clock, vars
<1> QED
  BY <1>1, <1>2, <1>3, <1>4
-----------------------------------------------------------------------------
(* The first state satisfies the invariant.                                *)
LEMMA InitInv == Init => Inv
<1> SUFFICES ASSUME Init PROVE Inv
  OBVIOUS
<1>1. PoolInv(Entry) /\ tasks_total = 0 /\ Counted = 0
  BY PoolInitInv DEF Init
<1>2. DatabaseTypeOK
  BY DatabaseAssumption DEF Init, DatabaseInit, DatabaseTypeOK
<1>3. messages \in Seq(Entry)
  BY EmptySeq DEF Init
<1>4. TypeOK
  <2>1. tpc \in [Workers -> TaskPC] /\ outcome \in [Msgs -> Outcomes \cup {"none"}]
    BY DEF Init, TaskPC
  <2>2. faults \in 0 .. MaxFaults
    BY OutputAssumption DEF Init
  <2>3. opc \in OutputPC /\ mpc \in MainPC /\ stop_ \in BOOLEAN
    BY DEF Init, OutputPC, MainPC
  <2>4. accepted \subseteq Msgs /\ message \in Entry \cup {NoTask}
    BY DEF Init
  <2> QED
    BY <1>1, <1>2, <1>3, <2>1, <2>2, <2>3, <2>4 DEF TypeOK, PoolInv
<1>5. Holders = {} /\ Cardinality(Holders) = 0
  <2>1. Holders = {}
    BY DEF Init, Holders
  <2> QED
    BY <2>1, FS_EmptySet
<1>6. ConnectionsBalanced
  BY <1>5, DatabaseAssumption
     DEF Init, DatabaseInit, ConnectionsBalanced, GetMaxDatabaseConnections,
         HasConnectionPool
<1>7. TotalAccounts
  BY <1>1 DEF Init, TotalAccounts, Pushing
<1> QED
  BY <1>1, <1>4, <1>6, <1>7
     DEF Init, DatabaseInit, Inv, PoolInv, HandHolds, MainOrder, PopSafe,
         TaskPlaces, PoolNeeded

(* Every step keeps the invariant.                                         *)
LEMMA NextInv == Inv /\ [Next]_vars => Inv'
<1> SUFFICES ASSUME Inv, [Next]_vars PROVE Inv'
  OBVIOUS
<1>1. PoolInv(Entry)' /\ TotalAccounts'
  BY PoolStep
<1>2. DatabaseTypeOK'
  BY DatabaseStep, ConnectionStep DEF DatabaseTypeOK
<1>3. TypeOK'
  BY <1>1, <1>2, MessagesStep, HandStep, ControlStep, OutcomeStep
     DEF TypeOK, PoolInv
<1> QED
  BY <1>1, <1>3, HandStep, OrderStep, TaskPlacesStep, ConnectionStep
     DEF Inv, PoolInv

(* The invariant holds in every state, whatever the numbers of queries,    *)
(* servers and connections, and however often the database fails.          *)
THEOREM Invariance == Spec => []Inv
<1>1. Init => Inv
  BY InitInv
<1>2. Inv /\ [Next]_vars => Inv'
  BY NextInv
<1> QED
  BY <1>1, <1>2, PTL DEF Spec

(* Every variable keeps its type; in particular neither the pool's counter *)
(* nor the count of connections in use goes below zero.                    *)
THEOREM TypeCorrect == Spec => []TypeOK
<1>1. Inv => TypeOK
  BY DEF Inv
<1> QED
  BY <1>1, Invariance, PTL

(* LockedQueue::pop() is never called on an empty queue by the output      *)
(* thread (OutputHandler.cpp:132).                                         *)
THEOREM PopIsSafe == Spec => []PopNeverEmpty
<1>1. Inv => PopNeverEmpty
  BY DEF Inv, PopSafe, PopNeverEmpty, MessagesEmpty
<1> QED
  BY <1>1, Invariance, PTL

(* The connection pool outlives the tasks that use it                      *)
(* (OutputHandler.cpp:171).                                                *)
THEOREM TasksSeeAPool == Spec => []TaskSeesPool
<1>1. Inv => TaskSeesPool
  BY RunningTask DEF TaskSeesPool, HasConnectionPool
<1> QED
  BY <1>1, Invariance, PTL

(* Over every path through OutputHandler::task the connections that are    *)
(* taken are returned, and there are never more than the pool may have.    *)
THEOREM Balance == Spec => []ConnectionsBalanced
<1>1. Inv => ConnectionsBalanced
  BY DEF Inv
<1> QED
  BY <1>1, Invariance, PTL

(* The connection pool and its server stay until the shutdown waits for    *)
(* the output thread; connect() never replaces a pool.                     *)
THEOREM PoolIsPinned == Spec => PoolPinsServer
<1> DEFINE Pinned == HasConnectionPool =>
             /\ dbserverindex' = dbserverindex
             /\ conpool' = conpool \/ (conpool' = "null" /\ mpc = "join")
<1>1. Inv /\ [Next]_vars => [Pinned]_vars
  <2> SUFFICES ASSUME Inv, [Next]_vars, conpool # "null"
               PROVE  /\ dbserverindex' = dbserverindex
                      /\ conpool' = conpool \/ (conpool' = "null" /\ mpc = "join")
    BY DEF HasConnectionPool
  <2>1. CASE OutConnect
    BY <2>1 DEF OutConnect, OutGoto, Inv, PoolNeeded
  <2>2. CASE OutDisconnect
    <3>1. mpc = "join"
      BY <2>2 DEF OutDisconnect, OutGoto, Inv, MainOrder
    <3> QED
      BY <2>2, <3>1 DEF OutDisconnect, Disconnect
  <2>3. CASE OutputStep /\ ~OutConnect /\ ~OutDisconnect
    BY <2>3 DEF OutputStep, OutWait, OutLoop, OutWhile, OutReads, OutThrottle,
       OutPop, OutPushCount, OutPushEnqueue, dbVars
  <2>4. CASE \E w \in Workers : TaskStep(w) \/ Work(w)
    BY <2>4 DEF TaskStep, TaskStart, TaskGetConnection, TaskNoConnection,
       TaskPushNull, TaskQuery, TaskPushDeadlock, TaskReturnConnection,
       GetConnection, ReturnConnection, Work, dbVars
  <2>5. CASE \/ MainLeavesLoop \/ MainStep
             \/ \E m \in Msgs : AddMessage(m)
             \/ \E s \in Servers : Clock(s)
             \/ UNCHANGED vars
    BY <2>5 DEF MainLeavesLoop, MainStep, MainInputEnded, MainStopsOutput,
       MainJoins, MainDrains, AddMessage, Clock, ErrorAges, vars, dbVars
  <2> QED
    BY <2>1, <2>2, <2>3, <2>4, <2>5 DEF Next
<1>2. Spec => [][Next]_vars
  BY PTL DEF Spec
<1> QED
  BY <1>1, <1>2, Invariance, PTL DEF PoolPinsServer
-----------------------------------------------------------------------------
(* That the limit on attempts never takes effect needs to know of every    *)
(* message, wherever it is, that it was never counted as tried.            *)
Fresh == [query : Msgs, attempts : {0}]

Untried ==
  /\ messages \in Seq(Fresh)
  /\ tasks \in Seq(Fresh)
  /\ job \in [Workers -> Fresh \cup {NoTask}]
  /\ message \in Fresh \cup {NoTask}
  /\ RetryLimitInert

(* A message on its way to the pool, in it or back.                        *)
LEMMA UntriedPlaces ==
  ASSUME Inv, Untried, [Next]_vars
  PROVE  /\ messages' \in Seq(Fresh)
         /\ tasks' \in Seq(Fresh)
         /\ job' \in [Workers -> Fresh \cup {NoTask}]
         /\ message' \in Fresh \cup {NoTask}
<1> USE DEF Untried
<1>0. NoTask \notin Entry /\ Fresh \subseteq Entry
  BY OutputAssumption DEF Entry, Fresh
<1>1. CASE OutPop
  <2>1. messages # <<>>
    BY <1>1 DEF OutPop, Inv, PopSafe
  <2>2. Head(messages) \in Fresh /\ Tail(messages) \in Seq(Fresh)
    BY <2>1, HeadTailProperties
  <2> QED
    BY <1>1, <2>2 DEF OutPop, FrontMessage, PopMessage, poolVars
<1>2. CASE OutPushEnqueue
  <2>1. message \in Fresh
    BY <1>0, <1>2 DEF OutPushEnqueue, OutGoto, Inv, HandHolds
  <2>2. Append(tasks, message) \in Seq(Fresh)
    BY <2>1, AppendProperties
  <2> QED
    BY <1>2, <2>2 DEF OutPushEnqueue, PushEnqueue, queueVars
<1>3. CASE OutputStep /\ ~OutPop /\ ~OutPushEnqueue
  <2>1. UNCHANGED <<messages, tasks, job, message>>
    BY <1>3 DEF OutputStep, OutWait, OutConnect, OutLoop, OutWhile, OutReads,
       OutThrottle, OutPushCount, OutDisconnect, ReadTotal, ReadQueued,
       PushCount, poolVars, queueVars
  <2> QED
    BY <2>1
<1>4. ASSUME NEW e \in Fresh, PushMessage(e) PROVE messages' \in Seq(Fresh)
  BY <1>4, AppendProperties DEF PushMessage
<1>5. ASSUME NEW w \in Workers, TaskStep(w)
      PROVE  messages' \in Seq(Fresh) /\ UNCHANGED <<tasks, job, message>>
  <2>1. UNCHANGED <<tasks, job, message>>
    BY <1>5 DEF TaskStep, TaskStart, TaskGetConnection, TaskNoConnection,
       TaskPushNull, TaskQuery, TaskPushDeadlock, TaskReturnConnection,
       TaskEnds, TaskReturn, poolVars
  <2>2. CASE TaskPushNull(w) \/ TaskPushDeadlock(w)
    <3>1. wpc[w] = "exec" /\ PushMessage(job[w])
      BY <2>2 DEF TaskPushNull, TaskPushDeadlock, TaskEnds, TaskGoto
    <3>2. job[w] \in Fresh
      BY <1>0, <3>1, JobEntry
    <3> QED
      BY <1>4, <2>1, <3>1, <3>2
  <2>3. CASE ~(TaskPushNull(w) \/ TaskPushDeadlock(w))
    <3>1. UNCHANGED messages
      BY <1>5, <2>3 DEF TaskStep, TaskStart, TaskGetConnection,
         TaskNoConnection, TaskQuery, TaskReturnConnection, queueVars
    <3> QED
      BY <2>1, <3>1
  <2> QED
    BY <2>2, <2>3
<1>6. ASSUME NEW w \in Workers, Work(w)
      PROVE  /\ UNCHANGED <<messages, message>>
             /\ tasks' \in Seq(Fresh)
             /\ job' \in [Workers -> Fresh \cup {NoTask}]
  <2>1. UNCHANGED <<messages, message>>
    BY <1>6 DEF Work, queueVars
  <2>2. CASE PopTask(w)
    <3>1. Head(tasks) \in Fresh /\ Tail(tasks) \in Seq(Fresh)
      BY <2>2, HeadTailProperties DEF PopTask
    <3> QED
      BY <2>1, <2>2, <3>1 DEF PopTask
  <2>3. CASE TaskCount(w)
    BY <2>1, <2>3 DEF TaskCount
  <2>4. CASE ~PopTask(w) /\ ~TaskCount(w)
    BY <1>6, <2>1, <2>4 DEF Work, WorkerStep, WorkerLoop, WorkerCheck, PopNothing
  <2> QED
    BY <2>2, <2>3, <2>4
<1>7. CASE MainDrains
  <2>1. CASE messages = <<>>
    BY <1>7, <2>1 DEF MainDrains, MessagesEmpty, poolVars
  <2>2. CASE messages # <<>>
    <3>1. Tail(messages) \in Seq(Fresh)
      BY <2>2, HeadTailProperties
    <3> QED
      BY <1>7, <2>2, <3>1 DEF MainDrains, MessagesEmpty, PopMessage, poolVars
  <2> QED
    BY <2>1, <2>2
<1>8. ASSUME NEW m \in Msgs, AddMessage(m)
      PROVE  messages' \in Seq(Fresh) /\ UNCHANGED <<tasks, job, message>>
  <2>1. NewEntry(m) \in Fresh
    BY DEF NewEntry, Fresh
  <2> QED
    BY <1>4, <1>8, <2>1 DEF AddMessage, poolVars
<1>9. CASE \/ MainLeavesLoop \/ MainInputEnded \/ MainStopsOutput \/ MainJoins
           \/ \E s \in Servers : Clock(s)
           \/ UNCHANGED vars
  <2>1. UNCHANGED <<messages, tasks, job, message>>
    BY <1>9 DEF MainLeavesLoop, MainInputEnded, MainStopsOutput, MainJoins,
       Clock, vars, poolVars, queueVars
  <2> QED
    BY <2>1
<1> QED
  BY <1>1, <1>2, <1>3, <1>5, <1>6, <1>7, <1>8, <1>9 DEF Next, MainStep

(* So no step skips one.                                                   *)
LEMMA SkipStep ==
  ASSUME Inv, Untried, [Next]_vars
  PROVE  RetryLimitInert'
<1>0. outcome \in [Msgs -> Outcomes \cup {"none"}]
  BY DEF Inv, TypeOK
<1>a. ASSUME NEW m, NEW o, o # "skipped", Settle(m, o)
      PROVE  RetryLimitInert'
  BY <1>0, <1>a DEF Untried, RetryLimitInert, Settle
<1>b. ASSUME UNCHANGED outcome PROVE RetryLimitInert'
  BY <1>b DEF Untried, RetryLimitInert
<1>1. CASE OutPop
  <2>1. messages # <<>>
    BY <1>1 DEF OutPop, Inv, PopSafe
  <2>2. FrontMessage.attempts = 0
    <3>1. Head(messages) \in Fresh
      BY <2>1, HeadTailProperties DEF Untried
    <3> QED
      BY <3>1 DEF Fresh, FrontMessage
  <2>3. CASE WorkRetryCount > 0
    <3>1. MayTry(FrontMessage)
      BY <2>2, <2>3 DEF MayTry
    <3> QED
      BY <1>1, <1>b, <3>1 DEF OutPop
  <2>4. CASE ~(WorkRetryCount > 0)
    BY <2>4 DEF RetryLimitInert
  <2> QED
    BY <2>3, <2>4
<1>2. CASE MainDrains
  BY <1>2, <1>a, <1>b DEF MainDrains
<1>3. ASSUME NEW w \in Workers, TaskStep(w) PROVE RetryLimitInert'
  <2>1. \/ UNCHANGED outcome
        \/ \E o \in {"executed", "rejected", "dropped"} : Settle(job[w].query, o)
    BY <1>3 DEF TaskStep, TaskStart, TaskGetConnection, TaskNoConnection,
       TaskPushNull, TaskQuery, TaskPushDeadlock, TaskReturnConnection
  <2> QED
    BY <1>a, <1>b, <2>1
<1>4. CASE ~OutPop /\ ~MainDrains /\ ~(\E w \in Workers : TaskStep(w))
  <2>1. UNCHANGED outcome
    BY <1>4 DEF Next, OutputStep, OutWait, OutConnect, OutLoop, OutWhile,
       OutReads, OutThrottle, OutPushCount, OutPushEnqueue, OutDisconnect, Work,
       MainLeavesLoop, MainStep, MainInputEnded, MainStopsOutput, MainJoins,
       AddMessage, Clock, vars
  <2> QED
    BY <1>b, <2>1
<1> QED
  BY <1>1, <1>2, <1>3, <1>4

(* Nothing is ever skipped for its number of attempts                      *)
(* (OutputHandler.cpp:134), whatever limit is configured above zero.       *)
THEOREM LimitIsInert == Spec => []RetryLimitInert
<1>1. Init => Untried
  BY EmptySeq DEF Init, PoolInit, Untried, RetryLimitInert
<1>2. Inv /\ Untried /\ [Next]_vars => Untried'
  BY UntriedPlaces, SkipStep DEF Untried
<1>3. Untried => RetryLimitInert
  BY DEF Untried
<1> QED
  BY <1>1, <1>2, <1>3, Invariance, PTL DEF Spec

-----------------------------------------------------------------------------
(* OutputHandler implements Delivery: a query that was acknowledged is in  *)
(* one place until it comes to one end, every query has come to its end    *)
(* when main() returns, and every step is one of Delivery or invisible     *)
(* there.                                                                  *)

(* The places of a message, with predicates for the counts of Places.      *)
In(q, m) == \E i \in DOMAIN q : q[i].query = m
Distinct(q) == \A i, j \in DOMAIN q : q[i].query = q[j].query => i = j

Holding(w) == wpc[w] = "exec" /\ tpc[w] # "return_con"
Held(m) == \E w \in Workers : Holds(w, m)

WorkersDistinct ==
  \A v, w \in Workers :
    Holding(v) /\ Holding(w) /\ job[v].query = job[w].query => v = w

Pending(m) == m \in accepted /\ outcome[m] = "none"

InOnePlace(m) ==
  /\ In(messages, m) => ~InHand(m) /\ ~In(tasks, m) /\ ~Held(m)
  /\ InHand(m) => ~In(tasks, m) /\ ~Held(m)
  /\ In(tasks, m) => ~Held(m)
  /\ Pending(m) <=> In(messages, m) \/ InHand(m) \/ In(tasks, m) \/ Held(m)
  /\ outcome[m] # "none" => m \in accepted

Separate ==
  /\ Distinct(messages)
  /\ Distinct(tasks)
  /\ WorkersDistinct
  /\ \A m \in Msgs : InOnePlace(m)

(* Nothing is queued once main() has looked.                               *)
Drained == mpc = "exit" => messages = <<>>

-----------------------------------------------------------------------------
(* What push() and pop() of either queue do to the places.                 *)
LEMMA PushIn ==
  ASSUME NEW q \in Seq(Entry), NEW e \in Entry
  PROVE  /\ \A m \in Msgs : In(Append(q, e), m) <=> In(q, m) \/ m = e.query
         /\ Distinct(q) /\ ~In(q, e.query) => Distinct(Append(q, e))
<1> DEFINE r == Append(q, e)
<1>1. /\ Len(q) \in Nat
      /\ DOMAIN q = 1 .. Len(q)
      /\ DOMAIN r = 1 .. Len(q) + 1
      /\ \A i \in DOMAIN q : r[i] = q[i]
      /\ r[Len(q) + 1] = e
  BY AppendProperties, LenProperties
<1> HIDE DEF r
<1>2. \A m \in Msgs : In(r, m) <=> In(q, m) \/ m = e.query
  BY <1>1 DEF In
<1>3. ASSUME Distinct(q), ~In(q, e.query) PROVE Distinct(r)
  BY <1>1, <1>3 DEF In, Distinct
<1> QED
  BY <1>2, <1>3 DEF r

LEMMA PopIn ==
  ASSUME NEW q \in Seq(Entry), q # <<>>, Distinct(q)
  PROVE  /\ Head(q) \in Entry /\ Head(q).query \in Msgs
         /\ In(q, Head(q).query)
         /\ \A m \in Msgs : In(Tail(q), m) <=> In(q, m) /\ m # Head(q).query
         /\ Distinct(Tail(q))
<1> DEFINE r == Tail(q)
           h == Head(q)
<1>1. /\ Len(q) \in Nat \ {0} /\ h = q[1] /\ h \in Entry
      /\ DOMAIN q = 1 .. Len(q)
      /\ DOMAIN r = 1 .. Len(q) - 1
      /\ \A i \in DOMAIN r : r[i] = q[i + 1]
  BY HeadTailProperties, LenProperties, EmptySeq
<1> HIDE DEF r, h
<1>2. In(q, h.query)
  BY <1>1 DEF In
<1>3. \A i \in DOMAIN q : q[i].query = h.query => i = 1
  BY <1>1 DEF Distinct
<1>4. ASSUME NEW m \in Msgs, In(r, m) PROVE In(q, m) /\ m # h.query
  <2>1. PICK i \in DOMAIN r : r[i].query = m
    BY <1>4 DEF In
  <2>2. i + 1 \in DOMAIN q /\ q[i + 1].query = m /\ i + 1 # 1
    BY <1>1, <2>1
  <2> QED
    BY <1>3, <2>2 DEF In
<1>5. ASSUME NEW m \in Msgs, In(q, m), m # h.query PROVE In(r, m)
  <2>1. PICK i \in DOMAIN q : q[i].query = m
    BY <1>5 DEF In
  <2>2. i # 1 /\ i - 1 \in DOMAIN r /\ r[i - 1] = q[i]
    BY <1>1, <1>5, <2>1
  <2> QED
    BY <2>1, <2>2 DEF In
<1>6. Distinct(r)
  BY <1>1 DEF Distinct
<1>7. h.query \in Msgs
  BY <1>1 DEF Entry
<1> QED
  BY <1>1, <1>2, <1>4, <1>5, <1>6, <1>7 DEF r, h

-----------------------------------------------------------------------------
LEMMA InitSeparate == Init => Separate /\ Drained
<1> SUFFICES ASSUME Init PROVE Separate /\ Drained
  OBVIOUS
<1>1. DOMAIN tasks = {} /\ DOMAIN messages = {} /\ \A w \in Workers : wpc[w] # "exec"
  BY DEF Init, PoolInit
<1> QED
  BY <1>1 DEF Init, Separate, Drained, Distinct, WorkersDistinct, InOnePlace, In,
              InHand, Held, Holds, Holding, Pending

(* A step that moves no message. *)
LEMMA UnmovedSeparate ==
  ASSUME Separate, UNCHANGED <<messages, tasks, accepted, outcome>>,
         \A m \in Msgs : InHand(m)' <=> InHand(m),
         \A w \in Workers : Holding(w)' <=> Holding(w),
         \A w \in Workers : Holding(w) => job'[w] = job[w]
  PROVE  Separate'
<1>1. \A m \in Msgs : Held(m)' <=> Held(m)
  BY DEF Held, Holds, Holding
<1>2. \A m \in Msgs : /\ In(messages, m)' <=> In(messages, m)
                      /\ In(tasks, m)' <=> In(tasks, m)
  BY DEF In
<1>3. Distinct(messages)' /\ Distinct(tasks)' /\ WorkersDistinct'
  BY DEF Separate, Distinct, WorkersDistinct
<1>4. ASSUME NEW m \in Msgs PROVE InOnePlace(m)'
  BY <1>1, <1>2, <1>4 DEF Separate, InOnePlace, Pending
<1> QED
  BY <1>3, <1>4 DEF Separate

(* A worker's hold on its message ends, and nothing begins.                *)
LEMMA HoldEnds ==
  ASSUME Inv, Separate, NEW w \in Workers, Holding(w), ~Holding(w)',
         UNCHANGED job,
         \A v \in Workers \ {w} : Holding(v)' <=> Holding(v)
  PROVE  /\ job[w] \in Entry /\ job[w].query \in Msgs
         /\ Held(job[w].query)
         /\ \A m \in Msgs : Held(m)' <=> Held(m) /\ m # job[w].query
         /\ WorkersDistinct'
<1>1. job[w] \in Entry /\ job[w].query \in Msgs
  BY JobEntry DEF Holding
<1>2. Held(job[w].query)
  BY DEF Held, Holds, Holding
<1>3. \A v \in Workers : Holding(v)' => Holding(v) /\ v # w
  OBVIOUS
<1>4. WorkersDistinct'
  BY <1>3 DEF Separate, WorkersDistinct
<1>5. \A m \in Msgs : Held(m)' <=> Held(m) /\ m # job[w].query
  BY DEF Held, Holds, Holding, Separate, WorkersDistinct
<1> QED
  BY <1>1, <1>2, <1>4, <1>5

-----------------------------------------------------------------------------
(* One lemma for each way a message is moved.                              *)

(* A client handler queues it.                                             *)
LEMMA AddSeparate ==
  ASSUME Inv, Separate, NEW m \in Msgs, AddMessage(m)
  PROVE  Separate'
<1>1. /\ messages \in Seq(Entry) /\ NewEntry(m) \in Entry /\ NewEntry(m).query = m
      /\ messages' = Append(messages, NewEntry(m))
      /\ m \notin accepted /\ accepted' = accepted \cup {m}
      /\ UNCHANGED <<tasks, wpc, job, tpc, opc, message, outcome>>
  BY DEF Inv, TypeOK, AddMessage, PushMessage, NewEntry, Entry, poolVars
<1>2. InOnePlace(m) /\ ~In(messages, m) /\ outcome[m] = "none"
  BY <1>1 DEF Separate, InOnePlace, Pending
<1>3. /\ \A k \in Msgs : In(messages, k)' <=> In(messages, k) \/ k = m
      /\ Distinct(messages)'
  BY <1>1, <1>2, PushIn DEF Separate, In, Distinct
<1>4. \A k \in Msgs : /\ In(tasks, k)' <=> In(tasks, k)
                      /\ Held(k)' <=> Held(k)
                      /\ InHand(k)' <=> InHand(k)
                      /\ Pending(k)' <=> Pending(k) \/ k = m
  BY <1>1, <1>2 DEF In, Held, Holds, InHand, Pending
<1>5. Distinct(tasks)' /\ WorkersDistinct'
  BY <1>1 DEF Separate, Distinct, WorkersDistinct, Holding
<1>6. ASSUME NEW k \in Msgs PROVE InOnePlace(k)'
  <2>1. InOnePlace(k) /\ ~Pending(m)
    BY <1>1, <1>6 DEF Separate, Pending
  <2> QED
    BY <1>1, <1>2, <1>3, <1>4, <2>1 DEF InOnePlace
<1> QED
  BY <1>3, <1>5, <1>6 DEF Separate

(* The output thread takes it out of the queue.                            *)
LEMMA OutPopSeparate ==
  ASSUME Inv, Separate, OutPop
  PROVE  Separate'
<1> DEFINE h == Head(messages)
<1>1. /\ messages \in Seq(Entry) /\ messages # <<>> /\ opc = "pop"
      /\ messages' = Tail(messages)
      /\ message' = h
      /\ outcome \in [Msgs -> Outcomes \cup {"none"}]
      /\ \/ opc' = "push_count" /\ outcome' = outcome
         \/ opc' = "while" /\ outcome' = [outcome EXCEPT ![h.query] = "skipped"]
      /\ UNCHANGED <<tasks, wpc, job, tpc, accepted>>
  BY DEF Inv, TypeOK, PopSafe, OutPop, FrontMessage, PopMessage, Settle, poolVars
<1>2. /\ h.query \in Msgs
      /\ In(messages, h.query)
      /\ \A m \in Msgs : In(messages, m)' <=> In(messages, m) /\ m # h.query
      /\ Distinct(messages)'
  BY <1>1, PopIn DEF Separate, In, Distinct
<1> HIDE DEF h
<1>3. \A m \in Msgs : /\ In(tasks, m)' <=> In(tasks, m)
                      /\ Held(m)' <=> Held(m)
                      /\ ~InHand(m)
  BY <1>1 DEF In, Held, Holds, InHand
<1>4. Distinct(tasks)' /\ WorkersDistinct'
  BY <1>1 DEF Separate, Distinct, WorkersDistinct, Holding
<1>5. Pending(h.query)
  BY <1>2 DEF Separate, InOnePlace
<1>6. ASSUME NEW m \in Msgs PROVE InOnePlace(m)'
  <2>1. InOnePlace(m)
    BY <1>6 DEF Separate
  <2>2. CASE opc' = "push_count" /\ outcome' = outcome
    <3>1. InHand(m)' <=> m = h.query
      BY <1>1, <2>2 DEF InHand
    <3>2. Pending(m)' <=> Pending(m)
      BY <1>1, <2>2 DEF Pending
    <3> QED
      BY <1>1, <1>2, <1>3, <1>5, <2>1, <2>2, <3>1, <3>2 DEF InOnePlace
  <2>3. CASE opc' = "while" /\ outcome' = [outcome EXCEPT ![h.query] = "skipped"]
    <3>1. ~InHand(m)'
      BY <2>3 DEF InHand
    <3>2. Pending(m)' <=> Pending(m) /\ m # h.query
      BY <1>1, <1>2, <2>3 DEF Pending
    <3>3. outcome'[m] # "none" => m \in accepted
      BY <1>1, <1>2, <1>5, <2>1, <2>3 DEF Pending, InOnePlace
    <3> QED
      BY <1>1, <1>2, <1>3, <2>1, <3>1, <3>2, <3>3 DEF InOnePlace
  <2> QED
    BY <1>1, <2>2, <2>3
<1> QED
  BY <1>2, <1>4, <1>6 DEF Separate

(* It pushes it to the pool.                                               *)
LEMMA OutEnqueueSeparate ==
  ASSUME Inv, Separate, OutPushEnqueue
  PROVE  Separate'
<1>1. /\ tasks \in Seq(Entry) /\ message \in Entry /\ opc = "push_enqueue"
      /\ tasks' = Append(tasks, message) /\ opc' = "while"
      /\ UNCHANGED <<messages, wpc, job, tpc, message, accepted, outcome>>
  BY DEF Inv, TypeOK, PoolTypeOK, HandHolds, OutPushEnqueue, OutGoto,
         PushEnqueue, queueVars
<1>2. message.query \in Msgs /\ InHand(message.query)
  BY <1>1 DEF Entry, InHand
<1>3. ~In(tasks, message.query)
  BY <1>2 DEF Separate, InOnePlace
<1>4. /\ \A m \in Msgs : In(tasks, m)' <=> In(tasks, m) \/ m = message.query
      /\ Distinct(tasks)'
  BY <1>1, <1>3, PushIn DEF Separate, In, Distinct
<1>5. \A m \in Msgs : /\ In(messages, m)' <=> In(messages, m)
                      /\ Held(m)' <=> Held(m)
                      /\ InHand(m) <=> m = message.query
                      /\ ~InHand(m)'
                      /\ Pending(m)' <=> Pending(m)
  BY <1>1 DEF In, Held, Holds, InHand, Pending
<1>6. Distinct(messages)' /\ WorkersDistinct'
  BY <1>1 DEF Separate, Distinct, WorkersDistinct, Holding
<1>7. ASSUME NEW m \in Msgs PROVE InOnePlace(m)'
  <2>1. InOnePlace(m)
    BY <1>7 DEF Separate
  <2> QED
    BY <1>1, <1>4, <1>5, <2>1 DEF InOnePlace
<1> QED
  BY <1>4, <1>6, <1>7 DEF Separate

(* A worker takes it from the pool.                                        *)
LEMMA PopTaskSeparate ==
  ASSUME Inv, Separate, NEW w \in Workers, Work(w), PopTask(w)
  PROVE  Separate'
<1> DEFINE h == Head(tasks)
<1>1. /\ tasks \in Seq(Entry) /\ tasks # <<>>
      /\ tasks' = Tail(tasks)
      /\ wpc[w] = "pop" /\ wpc' = [wpc EXCEPT ![w] = "exec"]
      /\ job' = [job EXCEPT ![w] = h]
      /\ DOMAIN wpc = Workers /\ DOMAIN job = Workers
      /\ UNCHANGED <<messages, tpc, opc, message, accepted, outcome>>
  BY DEF Inv, TypeOK, PoolTypeOK, PopTask, Work, queueVars
<1>2. tpc[w] = "start"
  BY <1>1 DEF Inv, TaskPlaces
<1>3. /\ h.query \in Msgs
      /\ In(tasks, h.query)
      /\ \A m \in Msgs : In(tasks, m)' <=> In(tasks, m) /\ m # h.query
      /\ Distinct(tasks)'
  BY <1>1, PopIn DEF Separate, In, Distinct
<1> HIDE DEF h
<1>4. \A m \in Msgs : Held(m)' <=> Held(m) \/ m = h.query
  BY <1>1, <1>2 DEF Held, Holds
<1>5. \A m \in Msgs : /\ In(messages, m)' <=> In(messages, m)
                      /\ InHand(m)' <=> InHand(m)
                      /\ Pending(m)' <=> Pending(m)
  BY <1>1 DEF In, InHand, Pending
<1>6. ~Held(h.query)
  BY <1>3 DEF Separate, InOnePlace
<1>7. Distinct(messages)' /\ WorkersDistinct'
  BY <1>1, <1>6 DEF Separate, Distinct, WorkersDistinct, Holding, Held, Holds
<1>8. ASSUME NEW m \in Msgs PROVE InOnePlace(m)'
  <2>1. InOnePlace(m)
    BY <1>8 DEF Separate
  <2> QED
    BY <1>1, <1>3, <1>4, <1>5, <2>1 DEF InOnePlace
<1> QED
  BY <1>3, <1>7, <1>8 DEF Separate

(* The task settles it, or queues it again.                                *)
LEMMA SettleSeparate ==
  ASSUME Inv, Separate, NEW w \in Workers, Holding(w), ~Holding(w)',
         \A v \in Workers \ {w} : Holding(v)' <=> Holding(v),
         NEW o \in Outcomes, Settle(job[w].query, o),
         UNCHANGED <<messages, tasks, job, opc, message, accepted>>
  PROVE  Separate'
<1> DEFINE q == job[w].query
<1>1. /\ q \in Msgs /\ Held(q)
      /\ \A m \in Msgs : Held(m)' <=> Held(m) /\ m # q
      /\ WorkersDistinct'
  BY HoldEnds
<1>2. /\ outcome \in [Msgs -> Outcomes \cup {"none"}]
      /\ outcome' = [outcome EXCEPT ![q] = o]
      /\ o # "none"
  BY DEF Inv, TypeOK, Settle, Outcomes
<1> HIDE DEF q
<1>3. \A m \in Msgs : /\ In(messages, m)' <=> In(messages, m)
                      /\ In(tasks, m)' <=> In(tasks, m)
                      /\ InHand(m)' <=> InHand(m)
                      /\ Pending(m)' <=> Pending(m) /\ m # q
  BY <1>1, <1>2 DEF In, InHand, Pending
<1>4. Distinct(messages)' /\ Distinct(tasks)'
  BY DEF Separate, Distinct
<1>5. Pending(q)
  BY <1>1 DEF Separate, InOnePlace
<1>6. ASSUME NEW m \in Msgs PROVE InOnePlace(m)'
  <2>1. InOnePlace(m) /\ (outcome'[m] # "none" => m \in accepted)
    BY <1>1, <1>2, <1>5, <1>6 DEF Separate, InOnePlace, Pending
  <2> QED
    BY <1>1, <1>3, <2>1 DEF InOnePlace
<1> QED
  BY <1>1, <1>4, <1>6 DEF Separate

LEMMA PushAgainSeparate ==
  ASSUME Inv, Separate, NEW w \in Workers, Holding(w), ~Holding(w)',
         \A v \in Workers \ {w} : Holding(v)' <=> Holding(v),
         PushMessage(job[w]),
         UNCHANGED <<tasks, job, opc, message, accepted, outcome>>
  PROVE  Separate'
<1> DEFINE q == job[w].query
<1>1. /\ job[w] \in Entry /\ q \in Msgs /\ Held(q)
      /\ \A m \in Msgs : Held(m)' <=> Held(m) /\ m # q
      /\ WorkersDistinct'
  BY HoldEnds
<1>2. messages \in Seq(Entry) /\ messages' = Append(messages, job[w])
  BY DEF Inv, TypeOK, PushMessage
<1>3. ~In(messages, q)
  BY <1>1 DEF Separate, InOnePlace
<1>4. /\ \A m \in Msgs : In(messages, m)' <=> In(messages, m) \/ m = q
      /\ Distinct(messages)'
  BY <1>1, <1>2, <1>3, PushIn DEF Separate, In, Distinct
<1> HIDE DEF q
<1>5. \A m \in Msgs : /\ In(tasks, m)' <=> In(tasks, m)
                      /\ InHand(m)' <=> InHand(m)
                      /\ Pending(m)' <=> Pending(m)
  BY DEF In, InHand, Pending
<1>6. Distinct(tasks)'
  BY DEF Separate, Distinct
<1>7. ASSUME NEW m \in Msgs PROVE InOnePlace(m)'
  <2>1. InOnePlace(m)
    BY <1>7 DEF Separate
  <2> QED
    BY <1>1, <1>4, <1>5, <2>1 DEF InOnePlace
<1> QED
  BY <1>1, <1>4, <1>6, <1>7 DEF Separate

(* main() logs it.                                                         *)
LEMMA DrainSeparate ==
  ASSUME Inv, Separate, MainDrains
  PROVE  Separate'
<1>1. /\ messages \in Seq(Entry)
      /\ outcome \in [Msgs -> Outcomes \cup {"none"}]
      /\ UNCHANGED <<tasks, wpc, job, tpc, opc, message, accepted>>
  BY DEF Inv, TypeOK, MainDrains, poolVars
<1>2. CASE messages = <<>>
  BY <1>1, <1>2, UnmovedSeparate DEF MainDrains, MessagesEmpty, InHand, Holding
<1>3. CASE messages # <<>>
  <2> DEFINE h == Head(messages)
  <2>1. /\ messages' = Tail(messages)
        /\ outcome' = [outcome EXCEPT ![h.query] = "logged"]
    BY <1>3 DEF MainDrains, MessagesEmpty, PopMessage, FrontMessage, Settle
  <2>2. /\ h.query \in Msgs
        /\ In(messages, h.query)
        /\ \A m \in Msgs : In(messages, m)' <=> In(messages, m) /\ m # h.query
        /\ Distinct(messages)'
    BY <1>1, <1>3, <2>1, PopIn DEF Separate, In, Distinct
  <2> HIDE DEF h
  <2>3. \A m \in Msgs : /\ In(tasks, m)' <=> In(tasks, m)
                        /\ Held(m)' <=> Held(m)
                        /\ InHand(m)' <=> InHand(m)
                        /\ Pending(m)' <=> Pending(m) /\ m # h.query
    BY <1>1, <2>1, <2>2 DEF In, Held, Holds, InHand, Pending
  <2>4. Distinct(tasks)' /\ WorkersDistinct'
    BY <1>1 DEF Separate, Distinct, WorkersDistinct, Holding
  <2>5. Pending(h.query)
    BY <2>2 DEF Separate, InOnePlace
  <2>6. ASSUME NEW m \in Msgs PROVE InOnePlace(m)'
    <3>1. InOnePlace(m) /\ (outcome'[m] # "none" => m \in accepted)
      BY <1>1, <2>1, <2>2, <2>5, <2>6 DEF Separate, InOnePlace, Pending
    <3> QED
      BY <1>1, <2>2, <2>3, <3>1 DEF InOnePlace
  <2> QED
    BY <2>2, <2>4, <2>6 DEF Separate
<1> QED
  BY <1>2, <1>3

-----------------------------------------------------------------------------
(* A task is queued again, settled, or goes on.                            *)
LEMMA TaskSeparate ==
  ASSUME Inv, Separate, NEW w \in Workers, TaskStep(w)
  PROVE  Separate'
<1>0. /\ DOMAIN wpc = Workers /\ DOMAIN tpc = Workers
      /\ UNCHANGED <<tasks, job, opc, message, accepted>>
  BY DEF Inv, TypeOK, PoolTypeOK, TaskStep, TaskStart, TaskGetConnection,
         TaskNoConnection, TaskPushNull, TaskQuery, TaskPushDeadlock,
         TaskReturnConnection, TaskEnds, TaskReturn, poolVars, queueVars
<1>1. ASSUME Holding(w), ~Holding(w)', NEW o \in Outcomes,
             \A v \in Workers \ {w} : Holding(v)' <=> Holding(v),
             Settle(job[w].query, o), UNCHANGED messages
      PROVE  Separate'
  BY <1>0, <1>1, SettleSeparate
<1>2. ASSUME NEW from \in TaskPC, from # "return_con", TaskEnds(w, from)
      PROVE  /\ Holding(w) /\ ~Holding(w)'
             /\ \A v \in Workers \ {w} : Holding(v)' <=> Holding(v)
  BY <1>0, <1>2 DEF TaskEnds, TaskGoto, TaskReturn, Holding
<1>3. ASSUME NEW from \in TaskPC, from # "return_con",
             TaskGoto(w, from, "return_con"), UNCHANGED wpc
      PROVE  /\ Holding(w) /\ ~Holding(w)'
             /\ \A v \in Workers \ {w} : Holding(v)' <=> Holding(v)
  BY <1>0, <1>3 DEF TaskGoto, Holding
<1>4. ASSUME NEW from \in TaskPC, NEW to \in TaskPC, from # "return_con",
             to # "return_con", TaskGoto(w, from, to), UNCHANGED <<wpc, messages, outcome>>
      PROVE  Separate'
  <2>1. \A v \in Workers : Holding(v)' <=> Holding(v)
    BY <1>0, <1>4 DEF TaskGoto, Holding
  <2> QED
    BY <1>0, <1>4, <2>1, UnmovedSeparate DEF InHand
<1>5. CASE TaskStart(w)
  <2>1. CASE TaskEnds(w, "start") /\ Settle(job[w].query, "dropped")
    BY <1>1, <1>2, <1>5, <2>1 DEF TaskStart, queueVars, TaskPC, Outcomes
  <2>2. CASE TaskGoto(w, "start", "get_con") /\ UNCHANGED <<poolVars, outcome>>
    BY <1>4, <1>5, <2>2 DEF TaskStart, queueVars, poolVars, TaskPC
  <2> QED
    BY <1>5, <2>1, <2>2 DEF TaskStart
<1>6. CASE TaskGetConnection(w)
  BY <1>4, <1>6 DEF TaskGetConnection, queueVars, poolVars, TaskPC
<1>7. CASE TaskNoConnection(w)
  <2>1. CASE TaskEnds(w, "get_con") /\ Settle(job[w].query, "dropped")
    BY <1>1, <1>2, <1>7, <2>1 DEF TaskNoConnection, queueVars, TaskPC, Outcomes
  <2>2. CASE TaskGoto(w, "get_con", "push_null") /\ UNCHANGED <<poolVars, outcome>>
    BY <1>4, <1>7, <2>2 DEF TaskNoConnection, queueVars, poolVars, TaskPC
  <2> QED
    BY <1>7, <2>1, <2>2 DEF TaskNoConnection
<1>8. CASE TaskPushNull(w)
  BY <1>0, <1>2, <1>8, PushAgainSeparate DEF TaskPushNull, TaskPC
<1>9. CASE TaskQuery(w)
  <2>1. /\ UNCHANGED <<poolVars, messages>>
        /\ \/ /\ TaskGoto(w, "query", "return_con")
              /\ \E o \in Outcomes : Settle(job[w].query, o)
           \/ TaskGoto(w, "query", "push_deadlock") /\ UNCHANGED outcome
    BY <1>9 DEF TaskQuery, queueVars, Outcomes
  <2>2. CASE \E o \in Outcomes : Settle(job[w].query, o) /\ TaskGoto(w, "query", "return_con")
    BY <1>1, <1>3, <2>1, <2>2 DEF poolVars, TaskPC
  <2>3. CASE TaskGoto(w, "query", "push_deadlock") /\ UNCHANGED outcome
    BY <1>4, <2>1, <2>3 DEF poolVars, TaskPC
  <2> QED
    BY <2>1, <2>2, <2>3
<1>10. CASE TaskPushDeadlock(w)
  BY <1>0, <1>3, <1>10, PushAgainSeparate DEF TaskPushDeadlock, poolVars, TaskPC
<1>11. CASE TaskReturnConnection(w)
  <2>1. \A v \in Workers : Holding(v)' <=> Holding(v)
    BY <1>0, <1>11 DEF TaskReturnConnection, TaskEnds, TaskGoto, TaskReturn, Holding
  <2> QED
    BY <1>0, <1>11, <2>1, UnmovedSeparate DEF TaskReturnConnection, queueVars, InHand
<1> QED
  BY <1>5, <1>6, <1>7, <1>8, <1>9, <1>10, <1>11 DEF TaskStep

LEMMA NextSeparate ==
  ASSUME Inv, Separate, [Next]_vars
  PROVE  Separate'
<1>0. DOMAIN wpc = Workers /\ DOMAIN job = Workers
  BY DEF Inv, TypeOK, PoolTypeOK
<1>1. ASSUME UNCHANGED <<messages, tasks, wpc, job, tpc, accepted, outcome, message>>,
             opc' = opc \/ {opc, opc'} \cap {"push_count", "push_enqueue"} = {}
                        \/ {opc, opc'} \subseteq {"push_count", "push_enqueue"}
      PROVE  Separate'
  BY <1>1, UnmovedSeparate DEF InHand, Holding
<1>2. CASE OutPop
  BY <1>2, OutPopSeparate
<1>3. CASE OutPushEnqueue
  BY <1>3, OutEnqueueSeparate
<1>4. CASE OutPushCount
  <2>1. /\ opc = "push_count" /\ opc' = "push_enqueue"
        /\ UNCHANGED <<messages, tasks, wpc, job, tpc, accepted, outcome, message>>
    BY <1>4 DEF OutPushCount, OutGoto, PushCount, queueVars
  <2> QED
    BY <1>1, <2>1
<1>5. CASE OutWait \/ OutConnect \/ OutLoop \/ OutWhile \/ OutReads \/ OutThrottle
           \/ OutDisconnect
  <2>1. /\ UNCHANGED <<messages, tasks, wpc, job, tpc, accepted, outcome, message>>
        /\ opc' = opc \/ {opc, opc'} \cap {"push_count", "push_enqueue"} = {}
    BY <1>5 DEF OutWait, OutConnect, OutLoop, OutWhile, OutReads, OutThrottle,
                OutDisconnect, OutGoto, ReadTotal, ReadQueued, HasRead, poolVars,
                queueVars, Inv, TypeOK
  <2> QED
    BY <1>1, <2>1
<1>6. ASSUME NEW w \in Workers, TaskStep(w) PROVE Separate'
  BY <1>6, TaskSeparate
<1>7. ASSUME NEW w \in Workers, Work(w) PROVE Separate'
  <2>1. CASE PopTask(w)
    BY <1>7, <2>1, PopTaskSeparate
  <2>2. CASE WorkerLoop(w) \/ WorkerCheck(w) \/ PopNothing(w) \/ TaskCount(w)
    <3>1. /\ UNCHANGED <<messages, tasks, tpc, accepted, outcome, opc, message>>
          /\ \A v \in Workers : wpc'[v] = "exec" <=> wpc[v] = "exec"
          /\ \A v \in Workers : wpc[v] = "exec" => job'[v] = job[v]
      BY <1>0, <1>7, <2>2 DEF Work, WorkerLoop, WorkerCheck, PopNothing,
                              TaskCount, queueVars
    <3> QED
      BY <3>1, UnmovedSeparate DEF InHand, Holding
  <2> QED
    BY <1>7, <2>1, <2>2 DEF Work, WorkerStep
<1>8. ASSUME NEW m \in Msgs, AddMessage(m) PROVE Separate'
  BY <1>8, AddSeparate
<1>9. CASE MainDrains
  BY <1>9, DrainSeparate
<1>10. CASE \/ MainLeavesLoop \/ MainInputEnded \/ MainStopsOutput \/ MainJoins
            \/ \E s \in Servers : Clock(s)
            \/ UNCHANGED vars
  <2>1. UNCHANGED <<messages, tasks, wpc, job, tpc, accepted, outcome, message, opc>>
    BY <1>10 DEF MainLeavesLoop, MainInputEnded, MainStopsOutput, MainJoins,
                 Clock, vars, poolVars, queueVars
  <2> QED
    BY <1>1, <2>1
<1> QED
  BY <1>2, <1>3, <1>4, <1>5, <1>6, <1>7, <1>8, <1>9, <1>10
  DEF Next, OutputStep, MainStep

(* While main() drains, no task is left that could queue a message.        *)
LEMMA NoTaskAfterJoin ==
  ASSUME Inv, mpc \in {"drain", "exit"}
  PROVE  /\ opc = "done" /\ tasks_total = 0 /\ tasks = <<>> /\ Busy = {}
         /\ \A w \in Workers : wpc[w] # "exec"
<1>1. opc = "done" /\ tasks_total = 0
  BY DEF Inv, MainOrder, PoolNeeded
<1>2. /\ Counted \in Nat /\ Pushing \in {0, 1}
      /\ Len(tasks) \in Nat /\ Cardinality(Busy) \in Nat
  BY InvPool, BusyFinite, LenProperties DEF Inv, TypeOK, PoolTypeOK, Busy
<1>3. Len(tasks) = 0 /\ Cardinality(Busy) = 0
  BY <1>1, <1>2 DEF Inv, TotalAccounts, Counted
<1>4. tasks = <<>>
  BY <1>3, EmptySeq DEF Inv, TypeOK, PoolTypeOK
<1>5. Busy = {}
  BY <1>3, NoneBusy DEF Busy
<1>6. \A w \in Workers : wpc[w] # "exec"
  BY <1>1, RunningTask
<1> QED
  BY <1>1, <1>4, <1>5, <1>6

LEMMA NextDrained ==
  ASSUME Inv, Drained, [Next]_vars
  PROVE  Drained'
<1>1. CASE mpc # "exit" /\ mpc' = "exit"
  BY <1>1 DEF Next, OutputStep, OutWait, OutConnect, OutLoop, OutWhile, OutReads,
     OutThrottle, OutPop, OutPushCount, OutPushEnqueue, OutDisconnect, TaskStep,
     TaskStart, TaskGetConnection, TaskNoConnection, TaskPushNull, TaskQuery,
     TaskPushDeadlock, TaskReturnConnection, Work, MainLeavesLoop, MainStep,
     MainInputEnded, MainStopsOutput, MainJoins, MainDrains, MainGoto, AddMessage,
     Clock, vars, MessagesEmpty, Drained
<1>2. CASE mpc = "exit"
  <2>1. messages = <<>> /\ opc = "done" /\ \A w \in Workers : wpc[w] # "exec"
    BY <1>2, NoTaskAfterJoin DEF Drained
  <2>2. \A w \in Workers : ~TaskStep(w)
    BY <2>1 DEF TaskStep, TaskStart, TaskGetConnection, TaskNoConnection,
       TaskPushNull, TaskQuery, TaskPushDeadlock, TaskReturnConnection, TaskEnds,
       TaskGoto
  <2>3. ~OutputStep
    BY <2>1 DEF OutputStep, OutWait, OutConnect, OutLoop, OutWhile, OutReads,
     OutThrottle, OutPop, OutPushCount, OutPushEnqueue, OutDisconnect, OutGoto
  <2>4. UNCHANGED messages
    BY <1>2, <2>2, <2>3 DEF Next, Work, MainLeavesLoop, MainStep, MainInputEnded,
       MainStopsOutput, MainJoins, MainDrains, MainGoto, AddMessage, Clock, vars,
       queueVars
  <2> QED
    BY <2>1, <2>4 DEF Drained
<1>3. CASE mpc' # "exit"
  BY <1>3 DEF Drained
<1> QED
  BY <1>1, <1>2, <1>3

(* The places hold in every state. *)
LEMMA SeparateHolds == Spec => [](Inv /\ Separate /\ Drained)
<1>1. Init => Inv /\ Separate /\ Drained
  BY InitInv, InitSeparate
<1>2. Inv /\ Separate /\ Drained /\ [Next]_vars => Inv' /\ Separate' /\ Drained'
  BY NextInv, NextSeparate, NextDrained
<1> QED
  BY <1>1, <1>2, PTL DEF Spec

-----------------------------------------------------------------------------
(* A set whose elements are all equal counts 0 or 1. *)
LEMMA CountOfOne ==
  ASSUME NEW S, \A x, y \in S : x = y
  PROVE  Cardinality(S) = IF S = {} THEN 0 ELSE 1
<1>1. CASE S = {}
  BY <1>1, FS_EmptySet
<1>2. CASE S # {}
  <2>1. PICK x \in S : TRUE
    BY <1>2
  <2>2. S = {x}
    BY <2>1
  <2> QED
    BY <1>2, <2>2, FS_Singleton
<1> QED
  BY <1>1, <1>2

LEMMA PlacesCount ==
  ASSUME Separate, NEW m \in Msgs
  PROVE  Places(m) = IF Pending(m) THEN 1 ELSE 0
<1> DEFINE M == {i \in DOMAIN messages : messages[i].query = m}
           Q == {i \in DOMAIN tasks : tasks[i].query = m}
           H == {w \in Workers : Holds(w, m)}
<1>1. Cardinality(M) = IF In(messages, m) THEN 1 ELSE 0
  <2>1. \A i, j \in M : i = j
    BY DEF Separate, Distinct
  <2>2. M = {} <=> ~In(messages, m)
    BY DEF In
  <2> QED
    BY <2>1, <2>2, CountOfOne
<1>2. Cardinality(Q) = IF In(tasks, m) THEN 1 ELSE 0
  <2>1. \A i, j \in Q : i = j
    BY DEF Separate, Distinct
  <2>2. Q = {} <=> ~In(tasks, m)
    BY DEF In
  <2> QED
    BY <2>1, <2>2, CountOfOne
<1>3. Cardinality(H) = IF Held(m) THEN 1 ELSE 0
  <2>1. \A v, w \in H : v = w
    BY DEF Separate, WorkersDistinct, Holding, Holds
  <2>2. H = {} <=> ~Held(m)
    BY DEF Held
  <2> QED
    BY <2>1, <2>2, CountOfOne
<1>4. InOnePlace(m)
  BY DEF Separate
<1>5. Places(m) = Cardinality(M) + (IF InHand(m) THEN 1 ELSE 0)
                  + Cardinality(Q) + Cardinality(H)
  BY DEF Places
<1> HIDE DEF M, Q, H
<1> QED
  BY <1>1, <1>2, <1>3, <1>4, <1>5 DEF InOnePlace

(* An acknowledged query that has come to no end is in exactly one place.  *)
(* The client handlers, the output thread and the workers hand it over     *)
(* without losing or doubling it, through all retries.                     *)
THEOREM OnePlaceHolds == Spec => []OnePlace
<1>1. Separate => OnePlace
  BY PlacesCount DEF OnePlace, Pending
<1> QED
  BY <1>1, SeparateHolds, PTL

(* When main() returns every acknowledged query has come to an end, and    *)
(* queues and workers are empty.                                           *)
LEMMA ExitIsSettled == Inv /\ Separate /\ Drained => ExitSettled
<1> SUFFICES ASSUME Inv, Separate, Drained, mpc = "exit"
             PROVE  /\ \A m \in accepted : outcome[m] # "none"
                    /\ MessagesEmpty /\ tasks = <<>> /\ Busy = {}
  BY DEF ExitSettled
<1>1. /\ opc = "done" /\ tasks = <<>> /\ Busy = {}
      /\ \A w \in Workers : wpc[w] # "exec"
  BY NoTaskAfterJoin
<1>2. messages = <<>>
  BY DEF Drained
<1>3. DOMAIN messages = {} /\ DOMAIN tasks = {}
  BY <1>1, <1>2
<1>4. \A m \in Msgs : ~Pending(m)
  BY <1>1, <1>3 DEF Separate, InOnePlace, In, InHand, Held, Holds
<1>5. accepted \subseteq Msgs
  BY DEF Inv, TypeOK
<1> QED
  BY <1>1, <1>2, <1>4, <1>5 DEF Pending, MessagesEmpty

THEOREM ExitLeavesNothing == Spec => []ExitSettled
<1> QED
  BY ExitIsSettled, SeparateHolds, PTL

-----------------------------------------------------------------------------
(* The refinement.  Where the places are exact, the state of a message in  *)
(* Delivery can be read off accepted and outcome.                          *)
Told ==
  [m \in Msgs |-> IF outcome[m] # "none" THEN outcome[m]
                  ELSE IF m \in accepted THEN "pending" ELSE "new"]

Exact == DeliveryState = Told

LEMMA ToldState == Separate => DeliveryState = Told
<1>1. ASSUME Separate, NEW m \in Msgs, outcome[m] = "none"
      PROVE  Places(m) > 0 <=> m \in accepted
  BY <1>1, PlacesCount DEF Pending
<1> QED
  BY <1>1 DEF DeliveryState, Told

LEMMA InitDelivery == Init => D!Init
<1> SUFFICES ASSUME Init PROVE D!Init
  OBVIOUS
<1>1. DeliveryState = Told
  BY InitSeparate, ToldState
<1>2. Told = [m \in Msgs |-> "new"] /\ DeliveryPhase = "open"
  BY DEF Init, Told, DeliveryPhase
<1> QED
  BY <1>1, <1>2 DEF D!Init

(* What a change of accepted or outcome is in Delivery.                    *)
LEMMA ResolveStep ==
  ASSUME Inv, Separate, DeliveryState = Told, DeliveryState' = Told',
         UNCHANGED <<mpc, accepted>>,
         NEW m \in Msgs, Pending(m),
         NEW o \in Outcomes, Settle(m, o),
         \/ mpc \notin {"drain", "exit"} /\ o # "logged"
         \/ mpc = "drain" /\ o = "logged"
  PROVE  D!Next
<1>1. /\ outcome \in [Msgs -> Outcomes \cup {"none"}]
      /\ outcome' = [outcome EXCEPT ![m] = o]
      /\ o # "none" /\ outcome[m] = "none" /\ m \in accepted
  BY DEF Inv, TypeOK, Settle, Pending, Outcomes
<1>2. Told[m] = "pending" /\ Told' = [Told EXCEPT ![m] = o]
  BY <1>1 DEF Told
<1>3. DeliveryPhase' = DeliveryPhase
  BY DEF DeliveryPhase
<1>4. CASE mpc \notin {"drain", "exit"} /\ o # "logged"
  <2>1. DeliveryPhase \in {"open", "closed"}
    BY <1>4 DEF DeliveryPhase, Inv, TypeOK, MainPC
  <2>2. o \in {"executed", "rejected", "dropped", "skipped"}
    BY <1>4 DEF Outcomes
  <2>3. D!Resolve(m)
    BY <1>2, <1>3, <2>1, <2>2 DEF D!Resolve
  <2> QED
    BY <2>3 DEF D!Next
<1>5. CASE mpc = "drain" /\ o = "logged"
  <2>1. DeliveryPhase = "logging"
    BY <1>5 DEF DeliveryPhase
  <2>2. D!Log(m)
    BY <1>2, <1>3, <1>5, <2>1 DEF D!Log
  <2> QED
    BY <2>2 DEF D!Next
<1> QED
  BY <1>4, <1>5

(* Every step is one of Delivery or changes nothing there.                 *)
LEMMA StepDelivery ==
  ASSUME Inv, Separate, Drained, DeliveryState = Told, DeliveryState' = Told',
         Drained', Inv', Separate', [Next]_vars
  PROVE  [D!Next]_(D!vars)
<1>1. ASSUME UNCHANGED <<mpc, accepted, outcome>> PROVE UNCHANGED D!vars
  BY <1>1 DEF D!vars, Told, DeliveryPhase
<1>2. CASE OutPop
  <2>1. messages # <<>> /\ opc = "pop" /\ messages \in Seq(Entry)
    BY <1>2 DEF OutPop, Inv, PopSafe, TypeOK
  <2>2. FrontMessage.query \in Msgs /\ Pending(FrontMessage.query)
    BY <2>1, PopIn DEF FrontMessage, Separate, InOnePlace
  <2>3. mpc \notin {"drain", "exit"}
    BY <2>1 DEF Inv, MainOrder
  <2>4. UNCHANGED <<mpc, accepted>>
    BY <1>2 DEF OutPop
  <2>5. UNCHANGED outcome \/ Settle(FrontMessage.query, "skipped")
    BY <1>2 DEF OutPop
  <2> QED
    BY <1>1, <2>2, <2>3, <2>4, <2>5, ResolveStep DEF Outcomes
<1>3. ASSUME NEW w \in Workers, TaskStep(w) PROVE [D!Next]_(D!vars)
  <2>1. UNCHANGED <<mpc, accepted>>
    BY <1>3 DEF TaskStep, TaskStart, TaskGetConnection, TaskNoConnection,
       TaskPushNull, TaskQuery, TaskPushDeadlock, TaskReturnConnection, queueVars
  <2>2. wpc[w] = "exec"
    BY <1>3 DEF TaskStep, TaskStart, TaskGetConnection, TaskNoConnection,
       TaskPushNull, TaskQuery, TaskPushDeadlock, TaskReturnConnection,
       TaskEnds, TaskGoto
  <2>3. mpc \notin {"drain", "exit"}
    BY <2>2, NoTaskAfterJoin
  <2>4. \/ UNCHANGED outcome
        \/ /\ Holding(w)
           /\ \E o \in {"executed", "rejected", "dropped"} : Settle(job[w].query, o)
    BY <1>3 DEF TaskStep, TaskStart, TaskGetConnection, TaskNoConnection,
       TaskPushNull, TaskQuery, TaskPushDeadlock, TaskReturnConnection, TaskEnds,
       TaskGoto, Holding
  <2>5. job[w].query \in Msgs
    BY <2>2, JobEntry
  <2>6. Holding(w) => Pending(job[w].query)
    BY <2>5 DEF Holding, Held, Holds, Separate, InOnePlace
  <2> QED
    BY <1>1, <2>1, <2>3, <2>4, <2>5, <2>6, ResolveStep DEF Outcomes
<1>4. CASE MainDrains
  <2>1. mpc = "drain" /\ messages \in Seq(Entry) /\ UNCHANGED accepted
    BY <1>4 DEF MainDrains, MainGoto, Inv, TypeOK
  <2>2. CASE messages # <<>>
    <3>1. FrontMessage.query \in Msgs /\ Pending(FrontMessage.query)
      BY <2>1, <2>2, PopIn DEF FrontMessage, Separate, InOnePlace
    <3>2. UNCHANGED mpc /\ Settle(FrontMessage.query, "logged")
      BY <1>4, <2>1, <2>2 DEF MainDrains, MainGoto, MessagesEmpty
    <3> QED
      BY <2>1, <3>1, <3>2, ResolveStep DEF Outcomes
  <2>3. CASE messages = <<>>
    <3>1. mpc' = "exit" /\ UNCHANGED outcome
      BY <1>4, <2>3 DEF MainDrains, MainGoto, MessagesEmpty
    <3>2. DeliveryPhase = "logging" /\ DeliveryPhase' = "exit"
      BY <2>1, <3>1 DEF DeliveryPhase
    <3>3. ExitSettled'
      BY ExitIsSettled, PTL
    <3>4. \A m \in Msgs : Told[m] # "pending"
      <4>1. \A m \in accepted : outcome[m] # "none"
        BY <2>1, <3>1, <3>3 DEF ExitSettled
      <4>2. \A m \in Msgs : outcome[m] # "pending"
        BY DEF Inv, TypeOK, Outcomes
      <4> QED
        BY <4>1, <4>2 DEF Told
    <3>5. D!Exit
      BY <2>1, <3>1, <3>2, <3>4 DEF D!Exit, Told
    <3> QED
      BY <3>5 DEF D!Next
  <2> QED
    BY <2>2, <2>3
<1>5. ASSUME NEW m \in Msgs, AddMessage(m) PROVE D!Next
  <2>1. /\ m \notin accepted /\ accepted' = accepted \cup {m}
        /\ mpc \in {"run", "deinit_input"}
        /\ UNCHANGED <<mpc, outcome>>
    BY <1>5 DEF AddMessage
  <2>2. outcome[m] = "none"
    BY <2>1 DEF Separate, InOnePlace
  <2>3. Told[m] = "new" /\ Told' = [Told EXCEPT ![m] = "pending"]
    BY <2>1, <2>2 DEF Told
  <2>4. DeliveryPhase = "open" /\ DeliveryPhase' = DeliveryPhase
    BY <2>1 DEF DeliveryPhase
  <2>5. D!Accept(m)
    BY <2>3, <2>4 DEF D!Accept
  <2> QED
    BY <2>5 DEF D!Next
<1>6. CASE MainLeavesLoop \/ MainInputEnded \/ MainStopsOutput \/ MainJoins
  <2>1. UNCHANGED <<accepted, outcome>> /\ Told' = Told
    BY <1>6 DEF MainLeavesLoop, MainInputEnded, MainStopsOutput, MainJoins,
                queueVars, Told
  <2>2. CASE MainLeavesLoop
    BY <1>1, <2>1, <2>2 DEF MainLeavesLoop, MainGoto, DeliveryPhase, D!vars
  <2>3. CASE MainInputEnded
    <3>1. D!Close
      BY <2>1, <2>3 DEF MainInputEnded, MainGoto, DeliveryPhase, D!Close
    <3> QED
      BY <3>1 DEF D!Next
  <2>4. CASE MainStopsOutput
    BY <1>1, <2>1, <2>4 DEF MainStopsOutput, MainGoto, DeliveryPhase, D!vars
  <2>5. CASE MainJoins
    <3>1. D!StartLog
      BY <2>1, <2>5 DEF MainJoins, MainGoto, DeliveryPhase, D!StartLog
    <3> QED
      BY <3>1 DEF D!Next
  <2> QED
    BY <1>6, <2>2, <2>3, <2>4, <2>5
<1>7. CASE OutputStep /\ ~OutPop
  <2>1. UNCHANGED <<mpc, accepted, outcome>>
    BY <1>7 DEF OutputStep, OutWait, OutConnect, OutLoop, OutWhile, OutReads,
     OutThrottle, OutPushCount, OutPushEnqueue, OutDisconnect, queueVars
  <2> QED
    BY <1>1, <2>1
<1>8. CASE \/ \E w \in Workers : Work(w)
           \/ \E s \in Servers : Clock(s)
           \/ UNCHANGED vars
  <2>1. UNCHANGED <<mpc, accepted, outcome>>
    BY <1>8 DEF Work, Clock, vars, queueVars
  <2> QED
    BY <1>1, <2>1
<1> QED
  BY <1>2, <1>3, <1>4, <1>5, <1>6, <1>7, <1>8 DEF Next, MainStep

(* OutputHandler implements Delivery: no query is lost, none comes to two  *)
(* ends, and what main() logs as not queued was not executed.              *)
THEOREM DeliveryImplemented == Spec => ImplementsDelivery
<1>1. Init => D!Init
  BY InitDelivery
<1>2. ASSUME Inv, Separate, Drained, Exact, Inv', Separate', Drained', Exact',
             [Next]_vars
      PROVE  [D!Next]_(D!vars)
  BY <1>2, StepDelivery DEF Exact
<1>3. Separate => Exact
  BY ToldState DEF Exact
<1> QED
  BY <1>1, <1>2, <1>3, SeparateHolds, PTL DEF Spec, ImplementsDelivery, D!Spec
==============================================================================
