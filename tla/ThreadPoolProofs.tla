--------------------------- MODULE ThreadPoolProofs ---------------------------
(***************************************************************************)
(* Lemmas about the steps of ThreadPool, for the proofs about the          *)
(* specifications that compose them.  The argument behind all of them is   *)
(* one of accounting: tasks_total is at least the number of tasks that are *)
(* queued or with a worker, and a step of a worker changes both alike.     *)
(***************************************************************************)
EXTENDS ThreadPool, FiniteSetTheorems, SequenceTheorems, TLAPS

(* A worker holds a task exactly while it executes it or has it to count.  *)
JobPC == \A w \in Workers : job[w] # NoTask <=> wpc[w] \in {"exec", "count"}

Counted == Len(tasks) + Cardinality(Busy)

PoolInv(Task) ==
  /\ PoolTypeOK(Task)
  /\ JobPC
  /\ tasks_total >= Counted

-----------------------------------------------------------------------------
(* The busy workers under any assignment of tasks are finitely many.       *)
LEMMA BusyFinite ==
  ASSUME NEW f
  PROVE  LET B == {w \in Workers : f[w] # NoTask}
         IN  IsFiniteSet(B) /\ Cardinality(B) \in Nat
<1> DEFINE B == {w \in Workers : f[w] # NoTask}
<1>1. B \in SUBSET Workers
  OBVIOUS
<1>2. IsFiniteSet(B)
  BY <1>1, PoolAssumption, FS_Subset
<1>3. Cardinality(B) \in Nat
  BY <1>2, FS_CardinalityType
<1> QED
  BY <1>2, <1>3

(* The number of busy workers is 0 only if no worker holds a task.         *)
LEMMA NoneBusy ==
  ASSUME Cardinality(Busy) = 0
  PROVE  \A w \in Workers : job[w] = NoTask
<1>1. IsFiniteSet(Busy)
  BY BusyFinite DEF Busy
<1>2. Busy = {}
  BY <1>1, FS_EmptySet
<1> QED
  BY <1>2 DEF Busy

(* A worker that takes a task is one more busy worker.                     *)
LEMMA BusyGrows ==
  ASSUME NEW w \in Workers, NEW t, t # NoTask,
         DOMAIN job = Workers, job[w] = NoTask,
         job' = [job EXCEPT ![w] = t]
  PROVE  Cardinality(Busy') = Cardinality(Busy) + 1
<1>1. Busy' = Busy \cup {w}
  BY DEF Busy
<1>2. w \notin Busy
  BY DEF Busy
<1>3. IsFiniteSet(Busy)
  BY BusyFinite DEF Busy
<1> QED
  BY <1>1, <1>2, <1>3, FS_AddElement

(* A worker that is done with its task is one less.                        *)
LEMMA BusyShrinks ==
  ASSUME NEW w \in Workers, DOMAIN job = Workers, job[w] # NoTask,
         job' = [job EXCEPT ![w] = NoTask]
  PROVE  Cardinality(Busy') = Cardinality(Busy) - 1
<1>1. Busy' = Busy \ {w}
  BY DEF Busy
<1>2. w \in Busy
  BY DEF Busy
<1>3. IsFiniteSet(Busy)
  BY BusyFinite DEF Busy
<1> QED
  BY <1>1, <1>2, <1>3, FS_RemoveElement

-----------------------------------------------------------------------------
(* worker() keeps the invariant, and the number of tasks that are counted  *)
(* but not there yet.                                                      *)
LEMMA WorkerStepInv ==
  ASSUME NEW Task, NoTask \notin Task, PoolInv(Task),
         NEW w \in Workers, WorkerStep(w)
  PROVE  PoolInv(Task)' /\ tasks_total' - Counted' = tasks_total - Counted
<1> USE DEF PoolInv, PoolTypeOK
<1>0. /\ Len(tasks) \in Nat
      /\ Cardinality(Busy) \in Nat
      /\ Cardinality(Busy') \in Nat
  BY BusyFinite, LenProperties DEF Busy
<1>1. CASE WorkerLoop(w)
  <2>1. JobPC'
    BY <1>1 DEF WorkerLoop, JobPC
  <2>2. PoolTypeOK(Task)'
    BY <1>1 DEF WorkerLoop, WorkerPC
  <2>3. Counted' = Counted /\ tasks_total' = tasks_total
    BY <1>1 DEF WorkerLoop, Counted, Busy
  <2> QED
    BY <1>0, <2>1, <2>2, <2>3 DEF Counted
<1>2. CASE WorkerCheck(w)
  <2>1. JobPC'
    BY <1>2 DEF WorkerCheck, JobPC
  <2>2. PoolTypeOK(Task)'
    BY <1>2 DEF WorkerCheck, WorkerPC
  <2>3. Counted' = Counted /\ tasks_total' = tasks_total
    BY <1>2 DEF WorkerCheck, Counted, Busy
  <2> QED
    BY <1>0, <2>1, <2>2, <2>3 DEF Counted
<1>3. CASE PopTask(w)
  <2>1. /\ Head(tasks) \in Task
        /\ Tail(tasks) \in Seq(Task)
        /\ Len(Tail(tasks)) = Len(tasks) - 1
    BY <1>3, HeadTailProperties DEF PopTask
  <2>2. JobPC'
    BY <1>3, <2>1 DEF PopTask, JobPC
  <2>3. PoolTypeOK(Task)'
    BY <1>3, <2>1 DEF PopTask, WorkerPC
  <2>4. job[w] = NoTask
    BY <1>3 DEF PopTask, JobPC
  <2>5. Cardinality(Busy') = Cardinality(Busy) + 1
    <3>1. job' = [job EXCEPT ![w] = Head(tasks)]
      BY <1>3 DEF PopTask
    <3>2. Head(tasks) # NoTask
      BY <2>1
    <3> QED
      BY <2>4, <3>1, <3>2, BusyGrows
  <2>6. Counted' = Counted /\ tasks_total' = tasks_total
    BY <1>0, <1>3, <2>1, <2>5 DEF PopTask, Counted
  <2> QED
    BY <1>0, <2>2, <2>3, <2>6 DEF Counted
<1>4. CASE PopNothing(w)
  <2>1. JobPC'
    BY <1>4 DEF PopNothing, JobPC
  <2>2. PoolTypeOK(Task)'
    BY <1>4 DEF PopNothing, WorkerPC
  <2>3. Counted' = Counted /\ tasks_total' = tasks_total
    BY <1>4 DEF PopNothing, Counted, Busy
  <2> QED
    BY <1>0, <2>1, <2>2, <2>3 DEF Counted
<1>5. CASE TaskCount(w)
  <2>1. job[w] # NoTask
    BY <1>5 DEF TaskCount, JobPC
  <2>2. JobPC'
    BY <1>5 DEF TaskCount, JobPC
  <2>3. Cardinality(Busy') = Cardinality(Busy) - 1
    <3>1. job' = [job EXCEPT ![w] = NoTask]
      BY <1>5 DEF TaskCount
    <3> QED
      BY <2>1, <3>1, BusyShrinks
  <2>4. Counted' = Counted - 1 /\ tasks_total' = tasks_total - 1
    BY <1>0, <1>5, <2>3 DEF TaskCount, Counted
  <2>5. tasks_total' \in Nat
    BY <1>0, <2>3, <2>4 DEF Counted
  <2>6. PoolTypeOK(Task)'
    BY <1>5, <2>5 DEF TaskCount, WorkerPC
  <2> QED
    BY <1>0, <2>2, <2>4, <2>6 DEF Counted
<1> QED
  BY <1>1, <1>2, <1>3, <1>4, <1>5 DEF WorkerStep

(* So does the return of a task.                                           *)
LEMMA TaskReturnInv ==
  ASSUME NEW Task, PoolInv(Task), NEW w \in Workers, TaskReturn(w)
  PROVE  /\ PoolInv(Task)'
         /\ tasks_total' = tasks_total
         /\ Counted' = Counted
<1> USE DEF PoolInv, PoolTypeOK, TaskReturn
<1>1. JobPC'
  BY DEF JobPC
<1>2. PoolTypeOK(Task)'
  BY DEF WorkerPC
<1>3. Counted' = Counted /\ tasks_total' = tasks_total
  BY DEF Counted, Busy
<1> QED
  BY <1>1, <1>2, <1>3

(* push_task: the counter runs ahead of the queue by one.                  *)
LEMMA PushCountInv ==
  ASSUME NEW Task, PoolInv(Task), PushCount
  PROVE  /\ PoolInv(Task)'
         /\ tasks_total' = tasks_total + 1
         /\ Counted' = Counted
<1> USE DEF PoolInv, PoolTypeOK, PushCount
<1>1. Counted' = Counted /\ tasks_total' = tasks_total + 1
  BY DEF Counted, Busy
<1>2. Len(tasks) \in Nat /\ Cardinality(Busy) \in Nat
  BY BusyFinite, LenProperties DEF Busy
<1>3. tasks_total' >= Counted'
  BY <1>1, <1>2 DEF Counted
<1> QED
  BY <1>1, <1>3 DEF JobPC

(* The second half of push_task: the queue follows the counter.            *)
LEMMA PushEnqueueInv ==
  ASSUME NEW Task, PoolInv(Task), NEW t \in Task, PushEnqueue(t),
         tasks_total >= Counted + 1
  PROVE  /\ PoolInv(Task)'
         /\ tasks_total' = tasks_total
         /\ Counted' = Counted + 1
<1> USE DEF PoolInv, PoolTypeOK, PushEnqueue
<1>1. tasks' \in Seq(Task) /\ Len(tasks') = Len(tasks) + 1
  BY AppendProperties
<1>2. Len(tasks) \in Nat /\ Cardinality(Busy) \in Nat
  BY BusyFinite, LenProperties DEF Busy
<1>3. Counted' = Counted + 1 /\ tasks_total' = tasks_total
  BY <1>1, <1>2 DEF Counted, Busy
<1> QED
  BY <1>1, <1>3 DEF JobPC

(* Reading the statistics changes nothing but what was read.               *)
LEMMA ReadInv ==
  ASSUME NEW Task, PoolInv(Task), NEW r \in Readers,
         ReadTotal(r) \/ ReadQueued(r)
  PROVE  /\ PoolInv(Task)'
         /\ tasks_total' = tasks_total
         /\ Counted' = Counted
<1> USE DEF PoolInv, PoolTypeOK
<1>1. Len(tasks) \in Nat
  BY LenProperties
<1>2. CASE ReadTotal(r)
  <2>1. reads' \in [Readers -> [total : Int, queued : Int, totalFirst : BOOLEAN]]
    BY <1>2 DEF ReadTotal
  <2> QED
    BY <1>2, <2>1 DEF ReadTotal, JobPC, Counted, Busy
<1>3. CASE ReadQueued(r)
  <2>1. reads' \in [Readers -> [total : Int, queued : Int, totalFirst : BOOLEAN]]
    BY <1>1, <1>3 DEF ReadQueued
  <2> QED
    BY <1>3, <2>1 DEF ReadQueued, JobPC, Counted, Busy
<1> QED
  BY <1>2, <1>3

(* A new pool satisfies the invariant, with nothing counted.               *)
LEMMA PoolInitInv ==
  ASSUME NEW Task, NEW threads, PoolInit(threads)
  PROVE  PoolInv(Task) /\ tasks_total = 0 /\ Counted = 0
<1> USE DEF PoolInit
<1>1. PoolTypeOK(Task)
  <2>1. wpc \in [Workers -> WorkerPC]
    BY DEF WorkerPC
  <2>2. NotReading \in [total : Int, queued : Int, totalFirst : BOOLEAN]
    BY DEF NotReading, Unread
  <2>3. tasks \in Seq(Task)
    BY EmptySeq
  <2> QED
    BY <2>1, <2>2, <2>3 DEF PoolTypeOK
<1>2. JobPC
  BY DEF JobPC
<1>3. Busy = {}
  BY DEF Busy
<1>4. Counted = 0
  BY <1>3, FS_EmptySet DEF Counted
<1> QED
  BY <1>1, <1>2, <1>4 DEF PoolInv
=============================================================================
