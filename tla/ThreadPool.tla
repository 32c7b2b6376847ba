----------------------------- MODULE ThreadPool -----------------------------
(***************************************************************************)
(* thread_pool (src/utils/threadpool/thread_pool.hpp): a FIFO of tasks     *)
(* behind a mutex, the atomic counter tasks_total, the atomic flags paused *)
(* and running, and one worker loop per thread.  The module declares the   *)
(* pool's state and one operator per atomic step; the specifications that  *)
(* own a pool (ThreadPoolOwner, OutputHandler) compose these steps with    *)
(* the calls they make.  The wrapper ThreadpoolHandler only forwards.      *)
(***************************************************************************)
EXTENDS Integers, Sequences, FiniteSets

CONSTANTS
  Workers,   \* the threads a pool can have
  Readers,   \* the threads that call get_tasks_running()
  NoTask,    \* the empty std::function of an idle worker
  Wrap       \* 2^64, the modulus of ui32 (uint_fast32_t) arithmetic

ASSUME PoolAssumption ==
  /\ IsFiniteSet(Workers) /\ Workers # {}
  /\ Wrap \in Nat \ {0}

VARIABLES
  tasks,        \* the queue
  tasks_total,  \* tasks queued or executing, as the pool counts them
  paused,
  running,
  wpc,          \* where each worker is; "none" for a thread that is not there
  job,          \* the task each worker holds
  reads         \* the values a get_tasks_running() call has loaded so far

poolVars == <<tasks, tasks_total, paused, running, wpc, job, reads>>

Unread == -1
NotReading == [total |-> Unread, queued |-> Unread, totalFirst |-> FALSE]
WorkerPC == {"none", "loop", "check", "pop", "exec", "count", "exited"}

PoolTypeOK(Task) ==
  /\ tasks \in Seq(Task)
  /\ tasks_total \in Nat
  /\ paused \in BOOLEAN
  /\ running \in BOOLEAN
  /\ wpc \in [Workers -> WorkerPC]
  /\ job \in [Workers -> Task \cup {NoTask}]
  /\ reads \in [Readers -> [total : Int, queued : Int, totalFirst : BOOLEAN]]

(* The constructor: thread_count threads, all in the worker loop. *)
PoolInit(threads) ==
  /\ tasks = <<>>
  /\ tasks_total = 0
  /\ paused = FALSE
  /\ running = TRUE
  /\ wpc = [w \in Workers |-> IF w \in threads THEN "loop" ELSE "none"]
  /\ job = [w \in Workers |-> NoTask]
  /\ reads = [r \in Readers |-> NotReading]

-----------------------------------------------------------------------------
(* push_task: the counter first, then the queue. *)

(* Mutant: the task is not counted. *)
PushNotCounted == UNCHANGED poolVars

PushCount ==
  /\ tasks_total' = tasks_total + 1
  /\ UNCHANGED <<tasks, paused, running, wpc, job, reads>>

PushEnqueue(t) ==
  /\ tasks' = Append(tasks, t)
  /\ UNCHANGED <<tasks_total, paused, running, wpc, job, reads>>

-----------------------------------------------------------------------------
(* worker(): while (running) { if (!paused && pop_task(task)) {...} }       *)

WorkerLoop(w) ==
  /\ wpc[w] = "loop"
  /\ wpc' = [wpc EXCEPT ![w] = IF running THEN "check" ELSE "exited"]
  /\ UNCHANGED <<tasks, tasks_total, paused, running, job, reads>>

WorkerCheck(w) ==
  /\ wpc[w] = "check"
  /\ wpc' = [wpc EXCEPT ![w] = IF paused THEN "loop" ELSE "pop"]
  /\ UNCHANGED <<tasks, tasks_total, paused, running, job, reads>>

(* Mutants: front() without pop(); the task counts as done when popped. *)
PopTaskPeeks(w) ==
  /\ wpc[w] = "pop"
  /\ tasks # <<>>
  /\ job' = [job EXCEPT ![w] = Head(tasks)]
  /\ wpc' = [wpc EXCEPT ![w] = "exec"]
  /\ UNCHANGED <<tasks, tasks_total, paused, running, reads>>

PopTaskCounts(w) ==
  /\ wpc[w] = "pop"
  /\ tasks # <<>>
  /\ job' = [job EXCEPT ![w] = Head(tasks)]
  /\ tasks' = Tail(tasks)
  /\ tasks_total' = tasks_total - 1
  /\ wpc' = [wpc EXCEPT ![w] = "exec"]
  /\ UNCHANGED <<paused, running, reads>>

PopTask(w) ==
  /\ wpc[w] = "pop"
  /\ tasks # <<>>
  /\ job' = [job EXCEPT ![w] = Head(tasks)]
  /\ tasks' = Tail(tasks)
  /\ wpc' = [wpc EXCEPT ![w] = "exec"]
  /\ UNCHANGED <<tasks_total, paused, running, reads>>

PopNothing(w) ==
  /\ wpc[w] = "pop"
  /\ tasks = <<>>
  /\ wpc' = [wpc EXCEPT ![w] = "loop"]
  /\ UNCHANGED <<tasks, tasks_total, paused, running, job, reads>>

(* task() returns; the owner of the pool says what the task did. *)
TaskReturn(w) ==
  /\ wpc[w] = "exec"
  /\ wpc' = [wpc EXCEPT ![w] = "count"]
  /\ UNCHANGED <<tasks, tasks_total, paused, running, job, reads>>

(* Mutant: the counter is not taken back. *)
TaskCountForgotten(w) ==
  /\ wpc[w] = "count"
  /\ job' = [job EXCEPT ![w] = NoTask]
  /\ wpc' = [wpc EXCEPT ![w] = "loop"]
  /\ UNCHANGED <<tasks, tasks_total, paused, running, reads>>

TaskCount(w) ==
  /\ wpc[w] = "count"
  /\ tasks_total' = tasks_total - 1
  /\ job' = [job EXCEPT ![w] = NoTask]
  /\ wpc' = [wpc EXCEPT ![w] = "loop"]
  /\ UNCHANGED <<tasks, paused, running, reads>>

(* The steps of a worker that do not depend on what its tasks do. *)
WorkerStep(w) ==
  \/ WorkerLoop(w)
  \/ WorkerCheck(w)
  \/ PopTask(w)
  \/ PopNothing(w)
  \/ TaskCount(w)

-----------------------------------------------------------------------------
(* get_tasks_running(): `tasks_total - (ui32)get_tasks_queued()`.  The two *)
(* operands are loaded one after the other, in an order C++ leaves open.   *)

ReadTotal(r) ==
  /\ reads[r].total = Unread
  /\ reads' = [reads EXCEPT ![r] = [total      |-> tasks_total,
                                    queued     |-> reads[r].queued,
                                    totalFirst |-> reads[r].queued = Unread]]
  /\ UNCHANGED <<tasks, tasks_total, paused, running, wpc, job>>

ReadQueued(r) ==
  /\ reads[r].queued = Unread
  /\ reads' = [reads EXCEPT ![r] = [total      |-> reads[r].total,
                                    queued     |-> Len(tasks),
                                    totalFirst |-> reads[r].totalFirst]]
  /\ UNCHANGED <<tasks, tasks_total, paused, running, wpc, job>>

HasRead(r) == reads[r].total # Unread /\ reads[r].queued # Unread

ReportedRunning(r) == (reads[r].total - reads[r].queued) % Wrap

-----------------------------------------------------------------------------
(* The threads that hold a task, and those that exist. *)
Busy == {w \in Workers : job[w] # NoTask}
Threads == {w \in Workers : wpc[w] # "none"}

(* destroy_threads() returns once every thread has been joined. *)
CanJoin == \A w \in Threads : wpc[w] = "exited"
=============================================================================
