--------------------------- MODULE ThreadPoolOwner ---------------------------
(***************************************************************************)
(* A thread_pool with the thread that owns it: the owner pushes tasks,     *)
(* waits for them, pauses, resets and destroys the pool, one call after    *)
(* the other, while the workers run and other threads read its statistics  *)
(* (GearStreamClientHandler answers N_STATUS with them).  This is how the  *)
(* program uses both of its pools: OutputHandler::thread_main is the only  *)
(* owner of the database pool, GearServer::thread_main of the client pool. *)
(***************************************************************************)
EXTENDS ThreadPool, ParallelLoop

CONSTANTS
  Tasks,   \* the tasks the owner may push, each once
  Indices, \* the loop indices it passes to parallelize_loop
  Owner    \* the owner, as a caller of get_tasks_running()

ASSUME OwnerAssumption ==
  /\ IsFiniteSet(Tasks) /\ NoTask \notin Tasks
  /\ Indices \subseteq Int
  /\ Owner \in Readers
  /\ Wrap > Cardinality(Tasks)

VARIABLES
  opc,        \* where the owner is
  hand,       \* the task of the push_task call in progress
  ret,        \* where push_task() and wait_for_tasks() return to
  wasPaused,  \* reset()'s local
  loop,       \* parallelize_loop()'s locals: how the loop is split,
  blocks,     \* the tasks of the blocks pushed so far,
  blocks_running,
  promise,    \* the shared state of each task's future; "none" without submit()
  pushed,     \* history: the tasks pushed so far
  finished    \* history: how often each task has run to its end

loopVars == <<loop, blocks, blocks_running>>
ownerVars == <<opc, hand, ret, wasPaused, loopVars>>
taskVars == <<promise, pushed, finished>>
vars == <<poolVars, ownerVars, taskVars>>

OwnerPC == {"idle", "push", "wait", "wait_running", "loop", "reset",
            "reset_join", "destroy", "destroy_join", "destroyed"}

PromiseState == {"none", "pending", "value", "exception", "broken"}

LoopType == [first : Int, last : Int, size : Nat, num : Nat]

TypeOK ==
  /\ PoolTypeOK(Tasks)
  /\ opc \in OwnerPC
  /\ hand \in Tasks \cup {NoTask}
  /\ ret \in {"idle", "loop", "reset", "destroy"}
  /\ wasPaused \in BOOLEAN
  /\ loop \in LoopType
  /\ blocks \in Seq(Tasks)
  /\ blocks_running \in Int
  /\ promise \in [Tasks -> PromiseState]
  /\ pushed \subseteq Tasks
  /\ finished \in [Tasks -> Nat]

(* The threads a pool may be made of. *)
ThreadSets == (SUBSET Workers) \ {{}}

Init ==
  /\ \E threads \in ThreadSets : PoolInit(threads)
  /\ opc = "idle"
  /\ hand = NoTask
  /\ ret = "idle"
  /\ wasPaused = FALSE
  /\ loop = NoLoop
  /\ blocks = <<>>
  /\ blocks_running = 0
  /\ promise = [t \in Tasks |-> "none"]
  /\ pushed = {}
  /\ finished = [t \in Tasks |-> 0]

-----------------------------------------------------------------------------
(* push_task(), alone or inside submit(), which makes a promise, and       *)
(* parallelize_loop(); its arguments are bound into the task.              *)

(* Any task not yet pushed: they do not differ.                            *)
NewTask == CHOOSE t \in Tasks : t \notin pushed

BeginPush ==
  /\ pushed # Tasks
  /\ PushCount
  /\ opc' = "push"
  /\ hand' = NewTask
  /\ pushed' = pushed \cup {NewTask}

Push ==
  /\ opc = "idle"
  /\ BeginPush
  /\ ret' = "idle"
  /\ UNCHANGED <<wasPaused, loopVars, promise, finished>>

Submit ==
  /\ opc = "idle"
  /\ BeginPush
  /\ ret' = "idle"
  /\ promise' = [promise EXCEPT ![NewTask] = "pending"]
  /\ UNCHANGED <<wasPaused, loopVars, finished>>

Enqueue ==
  /\ opc = "push"
  /\ PushEnqueue(hand)
  /\ opc' = ret
  /\ hand' = NoTask
  /\ UNCHANGED <<ret, wasPaused, loopVars, taskVars>>

-----------------------------------------------------------------------------
(* parallelize_loop(): 0 stands for as many tasks as there are threads. A  *)
(* call is only made here if there are tasks enough for its blocks.        *)

CallLoop(first_index, last_index, num_tasks) ==
  LET n == IF num_tasks = 0 THEN Cardinality(Threads) ELSE num_tasks
  IN  /\ opc = "idle"
      /\ opc' = "loop"
      /\ loop' = Split(first_index, last_index, n)
      /\ loop'.num <= Cardinality(Tasks \ pushed)
      /\ UNCHANGED <<poolVars, hand, ret, wasPaused, blocks, blocks_running,
                     taskVars>>

LoopPush ==
  /\ opc = "loop"
  /\ Len(blocks) < loop.num
  /\ BeginPush
  /\ ret' = "loop"
  /\ blocks' = Append(blocks, NewTask)
  /\ blocks_running' = blocks_running + 1
  /\ UNCHANGED <<wasPaused, loop, promise, finished>>

LoopReturns ==
  /\ opc = "loop"
  /\ Len(blocks) = loop.num
  /\ blocks_running = 0
  /\ opc' = "idle"
  /\ loop' = NoLoop
  /\ blocks' = <<>>
  /\ UNCHANGED <<poolVars, hand, ret, wasPaused, blocks_running, taskVars>>

-----------------------------------------------------------------------------
(* The public flag `paused`. *)
SetPaused(b) ==
  /\ opc = "idle"
  /\ paused' = b
  /\ UNCHANGED <<tasks, tasks_total, running, wpc, job, reads>>
  /\ UNCHANGED <<ownerVars, taskVars>>

-----------------------------------------------------------------------------
(* wait_for_tasks() *)

CallWait ==
  /\ opc = "idle"
  /\ opc' = "wait"
  /\ ret' = "idle"
  /\ UNCHANGED <<poolVars, hand, wasPaused, loopVars, taskVars>>

(* Mutant: it waits for an empty queue only. *)
WaitQueueEmpty ==
  /\ opc = "wait"
  /\ ~paused
  /\ tasks = <<>>
  /\ opc' = ret
  /\ UNCHANGED <<poolVars, hand, ret, wasPaused, loopVars, taskVars>>

WaitAll ==
  /\ opc = "wait"
  /\ ~paused
  /\ tasks_total = 0
  /\ opc' = ret
  /\ UNCHANGED <<poolVars, hand, ret, wasPaused, loopVars, taskVars>>

WaitPaused ==
  /\ opc = "wait"
  /\ paused
  /\ opc' = "wait_running"
  /\ UNCHANGED <<poolVars, hand, ret, wasPaused, loopVars, taskVars>>

OwnerReads ==
  /\ opc = "wait_running"
  /\ ReadTotal(Owner) \/ ReadQueued(Owner)
  /\ UNCHANGED <<ownerVars, taskVars>>

WaitRunning ==
  /\ opc = "wait_running"
  /\ HasRead(Owner)
  /\ opc' = IF ReportedRunning(Owner) = 0 THEN ret ELSE "wait"
  /\ reads' = [reads EXCEPT ![Owner] = NotReading]
  /\ UNCHANGED <<tasks, tasks_total, paused, running, wpc, job>>
  /\ UNCHANGED <<hand, ret, wasPaused, loopVars, taskVars>>

-----------------------------------------------------------------------------
(* reset(n): no thread is left between the join and the new threads, so    *)
(* the assignments after the join are one step.                            *)

CallReset ==
  /\ opc = "idle"
  /\ wasPaused' = paused
  /\ paused' = TRUE
  /\ opc' = "wait"
  /\ ret' = "reset"
  /\ UNCHANGED <<tasks, tasks_total, running, wpc, job, reads>>
  /\ UNCHANGED <<hand, loopVars, taskVars>>

ResetStop ==
  /\ opc = "reset"
  /\ running' = FALSE
  /\ opc' = "reset_join"
  /\ UNCHANGED <<tasks, tasks_total, paused, wpc, job, reads>>
  /\ UNCHANGED <<hand, ret, wasPaused, loopVars, taskVars>>

(* Mutants: the old threads are not joined; running stays false. *)
ResetDetaches(threads) ==
  /\ opc = "reset_join"
  /\ paused' = wasPaused
  /\ running' = TRUE
  /\ wpc' = [w \in Workers |-> IF w \in threads THEN "loop" ELSE "none"]
  /\ opc' = "idle"
  /\ UNCHANGED <<tasks, tasks_total, job, reads>>
  /\ UNCHANGED <<hand, ret, wasPaused, loopVars, taskVars>>

ResetStaysStopped(threads) ==
  /\ opc = "reset_join"
  /\ CanJoin
  /\ paused' = wasPaused
  /\ wpc' = [w \in Workers |-> IF w \in threads THEN "loop" ELSE "none"]
  /\ opc' = "idle"
  /\ UNCHANGED <<tasks, tasks_total, running, job, reads>>
  /\ UNCHANGED <<hand, ret, wasPaused, loopVars, taskVars>>

ResetCreate(threads) ==
  /\ opc = "reset_join"
  /\ CanJoin
  /\ paused' = wasPaused
  /\ running' = TRUE
  /\ wpc' = [w \in Workers |-> IF w \in threads THEN "loop" ELSE "none"]
  /\ opc' = "idle"
  /\ UNCHANGED <<tasks, tasks_total, job, reads>>
  /\ UNCHANGED <<hand, ret, wasPaused, loopVars, taskVars>>

-----------------------------------------------------------------------------
(* ~thread_pool() *)

CallDestroy ==
  /\ opc = "idle"
  /\ opc' = "wait"
  /\ ret' = "destroy"
  /\ UNCHANGED <<poolVars, hand, wasPaused, loopVars, taskVars>>

DestroyStop ==
  /\ opc = "destroy"
  /\ running' = FALSE
  /\ opc' = "destroy_join"
  /\ UNCHANGED <<tasks, tasks_total, paused, wpc, job, reads>>
  /\ UNCHANGED <<hand, ret, wasPaused, loopVars, taskVars>>

(* Mutant: the threads are detached. *)
DestroyDetaches ==
  /\ opc = "destroy_join"
  /\ opc' = "destroyed"
  /\ UNCHANGED <<poolVars, hand, ret, wasPaused, loopVars, taskVars>>

(* The threads are joined; then the queue is destroyed, and the promise of *)
(* a task that is still in it is broken.                                   *)
DestroyJoin ==
  /\ opc = "destroy_join"
  /\ CanJoin
  /\ wpc' = [w \in Workers |-> "none"]
  /\ opc' = "destroyed"
  /\ promise' = [t \in Tasks |->
                   IF promise[t] = "pending" /\ \E i \in DOMAIN tasks : tasks[i] = t
                     THEN "broken" ELSE promise[t]]
  /\ UNCHANGED <<tasks, tasks_total, paused, running, job, reads>>
  /\ UNCHANGED <<hand, ret, wasPaused, loopVars, pushed, finished>>

-----------------------------------------------------------------------------
(* The workers, and a thread that reads the statistics. *)

Work(w) ==
  /\ WorkerStep(w)
  /\ UNCHANGED <<ownerVars, taskVars>>

(* Mutant: an exception is caught and forgotten. *)
SettleValueOnly(t, outcome) ==
  promise' = IF promise[t] = "pending" /\ outcome = "value"
               THEN [promise EXCEPT ![t] = outcome] ELSE promise

(* What submit() wraps around a task. *)
Settle(t, outcome) ==
  promise' = IF promise[t] = "pending"
               THEN [promise EXCEPT ![t] = outcome] ELSE promise

(* The body of the task: a call that returns or, if it was submitted,      *)
(* throws; or a block of a loop.                                           *)
FinishTask(w) ==
  /\ TaskReturn(w)
  /\ finished' = [finished EXCEPT ![job[w]] = @ + 1]
  /\ \E outcome \in {"value", "exception"} : Settle(job[w], outcome)
  /\ blocks_running' = IF \E i \in DOMAIN blocks : blocks[i] = job[w]
                         THEN blocks_running - 1 ELSE blocks_running
  /\ UNCHANGED <<opc, hand, ret, wasPaused, loop, blocks, pushed>>

(* Another thread calls get_tasks_running(), and gets StatusReport.        *)
StatusReads(r) ==
  /\ opc # "destroyed"
  /\ reads[r] = NotReading
  /\ ReadTotal(r) \/ ReadQueued(r)
  /\ UNCHANGED <<ownerVars, taskVars>>

StatusReport(r) ==
  IF reads[r].totalFirst
    THEN (reads[r].total - Len(tasks)) % Wrap
    ELSE (tasks_total - reads[r].queued) % Wrap

StatusReturns(r) ==
  /\ reads[r] # NotReading
  /\ reads' = [reads EXCEPT ![r] = NotReading]
  /\ UNCHANGED <<tasks, tasks_total, paused, running, wpc, job>>
  /\ UNCHANGED <<ownerVars, taskVars>>

(* What the owner does inside a call, once it has made it. *)
OwnerStep ==
  \/ Enqueue
  \/ LoopPush \/ LoopReturns
  \/ WaitAll \/ WaitPaused \/ OwnerReads \/ WaitRunning
  \/ ResetStop \/ \E threads \in ThreadSets : ResetCreate(threads)
  \/ DestroyStop \/ DestroyJoin

OwnerCall ==
  \/ Push \/ Submit
  \/ \E a, b \in Indices, n \in 0 .. Cardinality(Tasks) : CallLoop(a, b, n)
  \/ \E b \in BOOLEAN : SetPaused(b)
  \/ CallWait \/ CallReset \/ CallDestroy

Next ==
  \/ OwnerStep \/ OwnerCall
  \/ \E w \in Workers : Work(w) \/ FinishTask(w)
  \/ \E r \in Readers \ {Owner} : StatusReads(r) \/ StatusReturns(r)

(* Threads get the processor and tasks return; no call has to be made.     *)
Fairness ==
  /\ WF_vars(OwnerStep)
  /\ \A w \in Workers : WF_vars(Work(w)) /\ WF_vars(FinishTask(w))

Spec == Init /\ [][Next]_vars /\ Fairness

-----------------------------------------------------------------------------
(* The push_task in progress: counted, not yet queued. *)
Pushing == IF opc = "push" THEN 1 ELSE 0

(* tasks_total is exactly the tasks that are about to be queued, queued or *)
(* held by a worker that has not counted them down.                        *)
TotalAccounts == tasks_total = Pushing + Len(tasks) + Cardinality(Busy)

(* Every pushed task is in one place and in one only: in the push_task     *)
(* call, in the queue, with one worker, or finished once (pop_task moves   *)
(* it out of the queue under the mutex).                                   *)
Places(t) ==
  (IF opc = "push" /\ hand = t THEN 1 ELSE 0)
  + Cardinality({i \in DOMAIN tasks : tasks[i] = t})
  + Cardinality({w \in Workers : job[w] = t /\ wpc[w] = "exec"})
  + finished[t]

ExactlyOnce == \A t \in Tasks : Places(t) = IF t \in pushed THEN 1 ELSE 0

(* When wait_for_tasks() of a pool that is not paused returns, nothing is  *)
(* queued and no worker still executes a task, so what the tasks referred  *)
(* to may be freed.                                                        *)
WaitForTasksDrains ==
  [][opc = "wait" /\ opc' = ret /\ ~paused
       => tasks = <<>> /\ \A w \in Workers : wpc[w] # "exec"]_vars

(* A get_tasks_running() of the owner that loads tasks_total first does    *)
(* not report less than what the workers hold when it completes: the owner *)
(* is the only pusher, so both values only fall between the two loads.     *)
(* The throttle of OutputHandler rests on this number.                     *)
RunningNeverUnderstated ==
  [][~HasRead(Owner) /\ HasRead(Owner)' /\ reads'[Owner].totalFirst
       => ReportedRunning(Owner)' >= Cardinality(Busy)]_vars

(* No thread survives the destructor, and unless the pool was paused no    *)
(* task that was pushed is left without having run.                        *)
DestroyedIsQuiet ==
  opc = "destroyed" =>
    /\ Threads = {} /\ Busy = {}
    /\ ~paused => \A t \in pushed : finished[t] = 1

(* A reset changes the threads and loses no queued task: no thread is left *)
(* of the old ones when the new ones start.                                *)
ResetKeepsTasks ==
  [][opc = "reset_join" /\ opc' = "idle"
       => tasks' = tasks /\ Busy = {} /\ tasks_total = Len(tasks)]_vars

(* When parallelize_loop() returns, every index of the loop has been run,  *)
(* and by one block only: what the blocks refer to is on its stack.        *)
LoopBodiesDone ==
  [][opc = "loop" /\ opc' = "idle"
       => \A i \in loop.first .. loop.last :
            Cardinality({k \in DOMAIN blocks :
              finished[blocks[k]] = 1 /\ i \in Block(loop, k - 1)}) = 1]_vars

(* A future tells of the end of its task exactly when the task has ended,  *)
(* and none is left waiting for a pool that is gone.                       *)
FuturesTell ==
  \A t \in Tasks : promise[t] # "none" =>
    /\ promise[t] \in {"value", "exception"} <=> finished[t] = 1
    /\ opc = "destroyed" => promise[t] # "pending"

(* Every call returns, waits and joins included, except for a loop that    *)
(* was started while the pool is paused.                                   *)
CallsReturn ==
  opc # "idle" /\ ~(loop.num > 0 /\ paused) ~> opc \in {"idle", "destroyed"}

(* A task that was pushed is executed, if the pool is in the end not       *)
(* paused any more.                                                        *)
PushedIsExecuted ==
  <>[](~paused) => \A t \in Tasks : t \in pushed ~> finished[t] = 1

(* "Get the number of tasks currently being executed by the threads"       *)
(* (thread_pool.hpp:82): a number above the number of threads is not one,  *)
(* whichever operand is loaded first; here tasks_total is.                 *)
ReportedRunningIsPossible ==
  \A r \in Readers \ {Owner} : reads[r].totalFirst
    => StatusReport(r) <= Cardinality(Workers)
=============================================================================
