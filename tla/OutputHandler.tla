---------------------------- MODULE OutputHandler ----------------------------
(***************************************************************************)
(* The way of a query through the daemon once a client handler has queued  *)
(* it: OutputHandler::thread_main moves it from the message queue to the   *)
(* database thread pool, OutputHandler::task runs it on a connection, and  *)
(* main() shuts the whole down and logs what is left.  It composes         *)
(* LockedQueue, ThreadPool and LibzdbHandler; the client handlers are      *)
(* reduced to the one call they make here, addMessage, and the database to *)
(* how its calls may end, MaxFaults times badly.                           *)
(***************************************************************************)
EXTENDS ThreadPool, LockedQueue, LibzdbHandler

CONSTANTS
  Msgs,                \* the queries clients may send
  Output,              \* the output thread, as a caller of get_tasks_running()
  ObeyWorkRetryCount,  \* config.obey_work_retry_count
  WorkRetryCount,      \* config.work_retry_count
  NoConnection,        \* how libzdb reports that it has no connection
  MaxFaults            \* bound: how often a database call fails in a run

(* MysqlGearQueueEntry; its other members are never read.                  *)
Entry == [query : Msgs, attempts : Nat]

ASSUME OutputAssumption ==
  /\ NoTask \notin Entry
  /\ IsFiniteSet(Msgs)
  /\ Readers = {Output}
  /\ Cardinality(Workers) = MaxConnections + 1
  /\ ObeyWorkRetryCount \in BOOLEAN
  /\ WorkRetryCount \in Int
  /\ NoConnection \subseteq {"null", "throws"} /\ NoConnection # {}
  /\ MaxFaults \in Nat

VARIABLES
  opc,       \* where the output thread is
  message,   \* its local variable, kept from one pop to the next
  stop_,     \* OutputHandler::stop_
  tpc,       \* where the task of each worker is
  mpc,       \* where main() is
  accepted,  \* history: the messages a client handler has queued
  outcome,   \* history: what became of each message
  faults     \* the failures left to the database

queueVars == <<messages, accepted>>
vars == <<poolVars, dbVars, queueVars, opc, message, stop_, tpc, mpc,
          outcome, faults>>

(* What addMessage makes of a query.                                       *)
NewEntry(m) == [query |-> m, attempts |-> 0]

OutputPC == {"setup_wait", "setup_connect", "loop", "while", "running", "pop",
             "push_count", "push_enqueue", "deinit_wait", "disconnect", "done"}
TaskPC == {"start", "get_con", "query", "push_null", "push_deadlock",
           "return_con"}
MainPC == {"run", "deinit_input", "stop_output", "join", "drain", "exit"}
Outcomes == {"executed", "rejected", "dropped", "skipped", "logged"}

TypeOK ==
  /\ PoolTypeOK(Entry)
  /\ DatabaseTypeOK
  /\ messages \in Seq(Entry)
  /\ opc \in OutputPC
  /\ message \in Entry \cup {NoTask}
  /\ stop_ \in BOOLEAN
  /\ tpc \in [Workers -> TaskPC]
  /\ mpc \in MainPC
  /\ accepted \subseteq Msgs
  /\ outcome \in [Msgs -> Outcomes \cup {"none"}]
  /\ faults \in 0 .. MaxFaults

(* main() has created the pool and started the output thread.              *)
Init ==
  /\ PoolInit(Workers)
  /\ DatabaseInit
  /\ messages = <<>>
  /\ opc = "setup_wait"
  /\ message = NoTask
  /\ stop_ = FALSE
  /\ tpc = [w \in Workers |-> "start"]
  /\ mpc = "run"
  /\ accepted = {}
  /\ outcome = [m \in Msgs |-> "none"]
  /\ faults = MaxFaults

Settle(m, o) == outcome' = [outcome EXCEPT ![m] = o]
Fault == faults > 0 /\ faults' = faults - 1

-----------------------------------------------------------------------------
(* GearStreamClientHandler::addMessage.  The handlers run until            *)
(* inputHandler.deinitialize() has joined the server thread.               *)

AddMessage(m) ==
  /\ mpc \in {"run", "deinit_input"}
  /\ m \notin accepted
  /\ PushMessage(NewEntry(m))
  /\ accepted' = accepted \cup {m}
  /\ UNCHANGED <<poolVars, dbVars, opc, message, stop_, tpc, mpc, outcome,
                 faults>>

-----------------------------------------------------------------------------
(* OutputHandler::thread_main *)

OutGoto(from, to) == opc = from /\ opc' = to

(* Mutant: the tasks are not waited for. *)
OutWaitSkips ==
  /\ \/ OutGoto("setup_wait", "setup_connect")
     \/ OutGoto("deinit_wait", "disconnect")
  /\ UNCHANGED <<poolVars, dbVars, queueVars, message, stop_, tpc, mpc,
                 outcome, faults>>

(* wait_for_tasks() of setupPool() and of deinitialize(); nothing pauses   *)
(* this pool.                                                              *)
OutWait ==
  /\ \/ OutGoto("setup_wait", "setup_connect")
     \/ OutGoto("deinit_wait", "disconnect")
  /\ tasks_total = 0
  /\ UNCHANGED <<poolVars, dbVars, queueVars, message, stop_, tpc, mpc,
                 outcome, faults>>

OutConnect ==
  /\ OutGoto("setup_connect", "loop")
  /\ \/ ConnectKeeps /\ UNCHANGED faults
     \/ ConnectReplaces("started") /\ UNCHANGED faults
     \/ \E failure \in {"null", "unstarted"} :
          ConnectReplaces(failure) /\ Fault
  /\ UNCHANGED <<poolVars, queueVars, message, stop_, tpc, mpc, outcome>>

(* Mutant: the pool is set up again although there is one. *)
OutLoopReconnects ==
  /\ \/ stop_ /\ OutGoto("loop", "deinit_wait")
     \/ ~stop_ /\ OutGoto("loop", "setup_wait")
     \/ ~stop_ /\ HasConnectionPool /\ ~MessagesEmpty /\ OutGoto("loop", "while")
  /\ UNCHANGED <<poolVars, dbVars, queueVars, message, stop_, tpc, mpc,
                 outcome, faults>>

(* One turn of the outer loop, after the 20 microseconds.                  *)
OutLoop ==
  /\ \/ stop_ /\ OutGoto("loop", "deinit_wait")
     \/ ~stop_ /\ ~HasConnectionPool /\ OutGoto("loop", "setup_wait")
     \/ ~stop_ /\ HasConnectionPool /\ ~MessagesEmpty /\ OutGoto("loop", "while")
  /\ UNCHANGED <<poolVars, dbVars, queueVars, message, stop_, tpc, mpc,
                 outcome, faults>>

(* Mutant: do {...} while (!messages->empty()). *)
OutWhileUnchecked ==
  /\ OutGoto("while", "running") \/ (MessagesEmpty /\ OutGoto("while", "loop"))
  /\ UNCHANGED <<poolVars, dbVars, queueVars, message, stop_, tpc, mpc,
                 outcome, faults>>

(* The inner loop does not look at stop_.                                  *)
OutWhile ==
  /\ IF MessagesEmpty THEN OutGoto("while", "loop")
                      ELSE OutGoto("while", "running")
  /\ UNCHANGED <<poolVars, dbVars, queueVars, message, stop_, tpc, mpc,
                 outcome, faults>>

OutReads ==
  /\ opc = "running"
  /\ ReadTotal(Output) \/ ReadQueued(Output)
  /\ UNCHANGED <<dbVars, queueVars, opc, message, stop_, tpc, mpc, outcome,
                 faults>>

(* Mutant: one connection is held back. *)
OutThrottleStrict ==
  /\ HasRead(Output)
  /\ IF ReportedRunning(Output) < GetMaxDatabaseConnections - 1
       THEN OutGoto("running", "pop")
       ELSE OutGoto("running", "while")
  /\ reads' = [reads EXCEPT ![Output] = NotReading]
  /\ UNCHANGED <<tasks, tasks_total, paused, running, wpc, job>>
  /\ UNCHANGED <<dbVars, queueVars, message, stop_, tpc, mpc, outcome, faults>>

OutThrottle ==
  /\ HasRead(Output)
  /\ IF ReportedRunning(Output) < GetMaxDatabaseConnections
       THEN OutGoto("running", "pop")
       ELSE OutGoto("running", "while")
  /\ reads' = [reads EXCEPT ![Output] = NotReading]
  /\ UNCHANGED <<tasks, tasks_total, paused, running, wpc, job>>
  /\ UNCHANGED <<dbVars, queueVars, message, stop_, tpc, mpc, outcome, faults>>

MayTry(e) == ~ObeyWorkRetryCount \/ e.attempts < WorkRetryCount

OutPop ==
  /\ opc = "pop"
  /\ message' = FrontMessage
  /\ PopMessage
  /\ IF MayTry(FrontMessage)
       THEN opc' = "push_count" /\ UNCHANGED outcome
       ELSE opc' = "while" /\ Settle(FrontMessage.query, "skipped")
  /\ UNCHANGED <<poolVars, dbVars, accepted, stop_, tpc, mpc, faults>>

OutPushCount ==
  /\ OutGoto("push_count", "push_enqueue")
  /\ PushCount
  /\ UNCHANGED <<dbVars, queueVars, message, stop_, tpc, mpc, outcome, faults>>

OutPushEnqueue ==
  /\ OutGoto("push_enqueue", "while")
  /\ PushEnqueue(message)
  /\ UNCHANGED <<dbVars, queueVars, message, stop_, tpc, mpc, outcome, faults>>

OutDisconnect ==
  /\ OutGoto("disconnect", "done")
  /\ Disconnect
  /\ UNCHANGED <<poolVars, queueVars, message, stop_, tpc, mpc, outcome,
                 faults>>

OutputStep ==
  \/ OutWait \/ OutConnect \/ OutLoop \/ OutWhile \/ OutReads \/ OutThrottle
  \/ OutPop \/ OutPushCount \/ OutPushEnqueue \/ OutDisconnect

-----------------------------------------------------------------------------
(* OutputHandler::task, run by worker w with the entry job[w]              *)

TaskGoto(w, from, to) ==
  /\ wpc[w] = "exec"
  /\ tpc[w] = from
  /\ tpc' = [tpc EXCEPT ![w] = to]

(* The task's return, from whatever point.                                 *)
TaskEnds(w, from) == TaskGoto(w, from, "start") /\ TaskReturn(w)

(* hasConnectionPool(): without a pool the message is logged as            *)
(* "rescheduling" and not pushed.                                          *)
TaskStart(w) ==
  /\ \/ /\ HasConnectionPool
        /\ TaskGoto(w, "start", "get_con")
        /\ UNCHANGED <<poolVars, outcome>>
     \/ /\ ~HasConnectionPool
        /\ TaskEnds(w, "start")
        /\ Settle(job[w].query, "dropped")
  /\ UNCHANGED <<dbVars, queueVars, opc, message, stop_, mpc, faults>>

TaskGetConnection(w) ==
  /\ TaskGoto(w, "get_con", "query")
  /\ GetConnection
  /\ UNCHANGED <<poolVars, queueVars, opc, message, stop_, mpc, outcome,
                 faults>>

(* No connection: the pool is used up, or libzdb could not make one.  It   *)
(* reports a null connection, which the task answers by queueing the       *)
(* message again, or it throws, which LibzdbHandler::getConnection turns   *)
(* into the exception whose handler does nothing.                          *)
TaskNoConnection(w) ==
  /\ \/ active >= MaxConnections /\ UNCHANGED faults
     \/ active < MaxConnections /\ Fault
  /\ \/ /\ "null" \in NoConnection
        /\ TaskGoto(w, "get_con", "push_null")
        /\ UNCHANGED <<poolVars, outcome>>
     \/ /\ "throws" \in NoConnection
        /\ TaskEnds(w, "get_con")
        /\ Settle(job[w].query, "dropped")
  /\ UNCHANGED <<dbVars, queueVars, opc, message, stop_, mpc>>

TaskPushNull(w) ==
  /\ TaskEnds(w, "push_null")
  /\ PushMessage(job[w])
  /\ UNCHANGED <<dbVars, accepted, opc, message, stop_, mpc, outcome, faults>>

(* executeQuery: it returns, fails by a deadlock, or fails otherwise (the  *)
(* task counts the attempt in its own copy, and forgets the message).      *)
TaskQuery(w) ==
  /\ \/ /\ TaskGoto(w, "query", "return_con")
        /\ Settle(job[w].query, "executed")
        /\ UNCHANGED faults
     \/ /\ TaskGoto(w, "query", "push_deadlock")
        /\ Fault
        /\ UNCHANGED outcome
     \/ /\ TaskGoto(w, "query", "return_con")
        /\ Fault
        /\ Settle(job[w].query, "rejected")
  /\ UNCHANGED <<poolVars, dbVars, queueVars, opc, message, stop_, mpc>>

(* Mutants: the message is not pushed; it is pushed as tried. *)
TaskPushDeadlockLost(w) ==
  /\ TaskGoto(w, "push_deadlock", "return_con")
  /\ UNCHANGED <<poolVars, dbVars, queueVars, opc, message, stop_, mpc,
                 outcome, faults>>

TaskPushDeadlockCounted(w) ==
  /\ TaskGoto(w, "push_deadlock", "return_con")
  /\ PushMessage([job[w] EXCEPT !.attempts = @ + 1])
  /\ UNCHANGED <<poolVars, dbVars, accepted, opc, message, stop_, mpc, outcome,
                 faults>>

(* The message is back in the queue before its connection is returned.     *)
TaskPushDeadlock(w) ==
  /\ TaskGoto(w, "push_deadlock", "return_con")
  /\ PushMessage(job[w])
  /\ UNCHANGED <<poolVars, dbVars, accepted, opc, message, stop_, mpc, outcome,
                 faults>>

(* Mutant: the connection is not returned. *)
TaskKeepsConnection(w) ==
  /\ TaskEnds(w, "return_con")
  /\ UNCHANGED <<dbVars, queueVars, opc, message, stop_, mpc, outcome, faults>>

TaskReturnConnection(w) ==
  /\ TaskEnds(w, "return_con")
  /\ ReturnConnection
  /\ UNCHANGED <<queueVars, opc, message, stop_, mpc, outcome, faults>>

TaskStep(w) ==
  \/ TaskStart(w) \/ TaskGetConnection(w) \/ TaskNoConnection(w)
  \/ TaskPushNull(w) \/ TaskQuery(w) \/ TaskPushDeadlock(w)
  \/ TaskReturnConnection(w)

Work(w) ==
  /\ WorkerStep(w)
  /\ UNCHANGED <<dbVars, queueVars, opc, message, stop_, tpc, mpc, outcome,
                 faults>>

-----------------------------------------------------------------------------
(* main() after start-up *)

MainGoto(from, to) == mpc = from /\ mpc' = to

(* A signal has cleared APP_RUNNING and the timed wait sees it.            *)
MainLeavesLoop ==
  /\ MainGoto("run", "deinit_input")
  /\ UNCHANGED <<poolVars, dbVars, queueVars, opc, message, stop_, tpc,
                 outcome, faults>>

(* inputHandler.deinitialize() returns: no client handler is left.         *)
MainInputEnded ==
  /\ MainGoto("deinit_input", "stop_output")
  /\ UNCHANGED <<poolVars, dbVars, queueVars, opc, message, stop_, tpc,
                 outcome, faults>>

(* Mutant: stop() is not called. *)
MainForgetsStop ==
  /\ MainGoto("stop_output", "join")
  /\ UNCHANGED <<poolVars, dbVars, queueVars, opc, message, stop_, tpc, outcome,
                 faults>>

MainStopsOutput ==
  /\ MainGoto("stop_output", "join")
  /\ stop_' = TRUE
  /\ UNCHANGED <<poolVars, dbVars, queueVars, opc, message, tpc, outcome,
                 faults>>

(* Mutant: the output thread is not joined. *)
MainDoesNotJoin ==
  /\ MainGoto("join", "drain")
  /\ UNCHANGED <<poolVars, dbVars, queueVars, opc, message, stop_, tpc,
                 outcome, faults>>

MainJoins ==
  /\ opc = "done"
  /\ MainGoto("join", "drain")
  /\ UNCHANGED <<poolVars, dbVars, queueVars, opc, message, stop_, tpc,
                 outcome, faults>>

(* Mutant: what is left is not looked at. *)
MainExitsAtOnce ==
  /\ MainGoto("drain", "exit")
  /\ UNCHANGED <<poolVars, dbVars, queueVars, opc, message, stop_, tpc,
                 outcome, faults>>

(* "could not queue sql:" and what is left.                                *)
MainDrains ==
  /\ \/ /\ ~MessagesEmpty
        /\ MainGoto("drain", "drain")
        /\ Settle(FrontMessage.query, "logged")
        /\ PopMessage
     \/ /\ MessagesEmpty
        /\ MainGoto("drain", "exit")
        /\ UNCHANGED <<messages, outcome>>
  /\ UNCHANGED <<poolVars, dbVars, accepted, opc, message, stop_, tpc, faults>>

MainStep ==
  MainInputEnded \/ MainStopsOutput \/ MainJoins \/ MainDrains

-----------------------------------------------------------------------------
Clock(s) ==
  /\ ErrorAges(s)
  /\ UNCHANGED <<poolVars, queueVars, opc, message, stop_, tpc, mpc, outcome,
                 faults>>

Next ==
  \/ OutputStep
  \/ \E w \in Workers : TaskStep(w) \/ Work(w)
  \/ MainLeavesLoop \/ MainStep
  \/ \E m \in Msgs : AddMessage(m)
  \/ \E s \in Servers : Clock(s)

(* Threads get the processor, database calls return, and time passes; no   *)
(* client has to send and no signal has to come.                           *)
Fairness ==
  /\ WF_vars(OutputStep)
  /\ \A w \in Workers : WF_vars(TaskStep(w) \/ Work(w))
  /\ WF_vars(MainStep)
  /\ \A s \in Servers : WF_vars(Clock(s))

Spec == Init /\ [][Next]_vars /\ Fairness

-----------------------------------------------------------------------------
(* The places an unsettled message can be in: the queue, the hand of the   *)
(* output thread, the queue of the pool, a worker.                         *)
InHand(m) == opc \in {"push_count", "push_enqueue"} /\ message.query = m

Holds(w, m) ==
  /\ wpc[w] = "exec"
  /\ tpc[w] # "return_con"
  /\ job[w].query = m

Places(m) ==
  Cardinality({i \in DOMAIN messages : messages[i].query = m})
  + (IF InHand(m) THEN 1 ELSE 0)
  + Cardinality({i \in DOMAIN tasks : tasks[i].query = m})
  + Cardinality({w \in Workers : Holds(w, m)})

(* A message that was acknowledged and has come to no end is in exactly    *)
(* one place: no hand-over between the client handlers, the output thread  *)
(* and the workers loses it or leaves a second copy behind.                *)
OnePlace ==
  \A m \in Msgs :
    Places(m) = IF m \in accepted /\ outcome[m] = "none" THEN 1 ELSE 0

(* LockedQueue::pop() is never called on an empty queue, where it is       *)
(* undefined: nobody else pops between the test and the call.              *)
PopNeverEmpty == opc = "pop" => ~MessagesEmpty

(* While a task runs there is a connection pool: the pool is only replaced *)
(* and deleted after wait_for_tasks().                                     *)
TaskSeesPool == \A w \in Workers : wpc[w] = "exec" => HasConnectionPool

(* The connections in use are those of the tasks between getConnection()   *)
(* and returnConnection(), never more than the pool may have; none is left *)
(* out when the pool is deleted.                                           *)
Holders ==
  {w \in Workers : tpc[w] \in {"query", "push_deadlock", "return_con"}}

ConnectionsBalanced ==
  /\ active = Cardinality(Holders)
  /\ active <= GetMaxDatabaseConnections

(* The limit on attempts never takes effect: what is queued again was      *)
(* never counted as tried, so no message is skipped for it.                *)
RetryLimitInert ==
  WorkRetryCount > 0 => \A m \in Msgs : outcome[m] # "skipped"

(* Once there is a pool, started or not, the daemon stays with it and its  *)
(* server until main() waits for the output thread: nothing on the way of  *)
(* a query leads to another connect().  The status requests of the client  *)
(* handlers rest on it: they call the pool without a lock, and by then     *)
(* they have ended.                                                        *)
PoolPinsServer ==
  [][HasConnectionPool =>
       /\ dbserverindex' = dbserverindex
       /\ conpool' = conpool \/ (conpool' = "null" /\ mpc = "join")]_vars

(* When main() returns every acknowledged message has come to an end and   *)
(* no worker holds a task any more.                                        *)
ExitSettled ==
  mpc = "exit" =>
    /\ \A m \in accepted : outcome[m] # "none"
    /\ MessagesEmpty /\ tasks = <<>> /\ Busy = {}

(* OutputHandler implements Delivery.  A message counts as pending where   *)
(* it can be found, so one that is lost would be "new" again.              *)
DeliveryState ==
  [m \in Msgs |-> IF outcome[m] # "none" THEN outcome[m]
                  ELSE IF Places(m) > 0 THEN "pending" ELSE "new"]

DeliveryPhase ==
  CASE mpc \in {"run", "deinit_input"}  -> "open"
    [] mpc \in {"stop_output", "join"}  -> "closed"
    [] mpc = "drain"                    -> "logging"
    [] mpc = "exit"                     -> "exit"

D == INSTANCE Delivery WITH
       Messages <- Msgs, state <- DeliveryState, phase <- DeliveryPhase

(* No message is lost, none comes to two ends, and what is logged as not   *)
(* queued was not executed.                                                *)
ImplementsDelivery == D!Spec

(* Every acknowledged message comes to an end.                             *)
AcceptedIsSettled ==
  \A m \in Msgs : m \in accepted ~> outcome[m] # "none"

(* Once main() has left its loop the program ends: the output thread does  *)
(* notice stop_, although its inner loop never looks at it.                *)
StopLeadsToExit == mpc = "deinit_input" ~> mpc = "exit"

(* "could not get connection from pool, rescheduling" (OutputHandler.cpp:  *)
(* 59): a message that finds no connection is tried again.                 *)
NoSilentDrop == \A m \in Msgs : outcome[m] # "dropped"
=============================================================================
