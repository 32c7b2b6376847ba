------------------------ MODULE ThreadPoolOwnerProofs ------------------------
(***************************************************************************)
(* Proofs about ThreadPoolOwner for any number of threads, tasks and       *)
(* readers: the types, the exactness of tasks_total, that wait_for_tasks() *)
(* of a pool that is not paused returns only when nothing is queued or     *)
(* executing, that reset() keeps the tasks, that each task is in one place *)
(* and ends once, that the destructor leaves nothing behind, that futures  *)
(* tell the truth, that a parallel loop returns when it has run, and that  *)
(* get_tasks_running() of the owner does not report too little.            *)
(***************************************************************************)
EXTENDS ThreadPoolOwner, ThreadPoolProofs

(* The blocks of parallelize_loop partition its indices, for all integers. *)
(* What the provers need to be told about products is stated first.        *)

(* Products of natural numbers and of an integer with one. *)
LEMMA Products ==
  /\ \A a, b \in Nat : a * b \in Nat
  /\ \A a \in Int, b \in Nat : a * b \in Int /\ (a + 1) * b = a * b + b
  /\ \A a, b \in Int, c \in Nat : a <= b => a * c <= b * c
<1>1. \A a, b \in Nat : a * b \in Nat
  OBVIOUS
<1>2. \A a \in Int, b \in Nat : a * b \in Int /\ (a + 1) * b = a * b + b
  OBVIOUS
<1>3. \A a, b \in Int, c \in Nat : a <= b => a * c <= b * c
  OBVIOUS
<1> QED
  BY <1>1, <1>2, <1>3

(* Division with remainder. *)
LEMMA Division ==
  ASSUME NEW a \in Nat, NEW n \in Nat \ {0}
  PROVE  /\ a \div n \in Nat
         /\ (a \div n) * n <= a
         /\ a < (a \div n) * n + n
OBVIOUS

(* What Split makes of its arguments.                                      *)
LEMMA SplitType ==
  ASSUME NEW a \in Int, NEW b \in Int, NEW n \in Nat \ {0},
         NEW L, L = Split(a, b, n)
  PROVE  /\ L \in [first : Int, last : Int, size : Nat, num : Nat]
         /\ L.first <= L.last
         /\ L.size > 0 /\ L.num > 0
         /\ L.num * L.size <= L.last - L.first + 1
<1> DEFINE lo == IF b < a THEN b ELSE a
           hi == IF b < a THEN a ELSE b
           total == hi - lo + 1
           bs == total \div n
<1>1. lo \in Int /\ hi \in Int /\ lo <= hi /\ total \in Nat /\ total > 0
  OBVIOUS
<1>2. bs \in Nat /\ bs * n <= total
  <2> HIDE DEF total
  <2> QED
    BY <1>1, Division
<1>3. /\ L.first = lo /\ L.last = hi
      /\ L.size = IF bs = 0 THEN 1 ELSE bs
      /\ L.num = IF bs = 0 THEN total ELSE n
      /\ L = [first |-> L.first, last |-> L.last, size |-> L.size, num |-> L.num]
  BY DEF Split
<1> HIDE DEF lo, hi, total, bs
<1>4. L.size \in Nat /\ L.size > 0 /\ L.num \in Nat /\ L.num > 0
  BY <1>1, <1>2, <1>3
<1>5. L \in [first : Int, last : Int, size : Nat, num : Nat]
  BY <1>1, <1>3, <1>4
<1>6. L.num * L.size <= total
  BY <1>1, <1>2, <1>3
<1> QED
  BY <1>1, <1>3, <1>4, <1>5, <1>6 DEF total

(* Every index of the loop is in exactly one of the blocks, the swapped    *)
(* bounds, the short loops and the remainder of the division included:     *)
(* parallelize_loop runs no body twice and leaves none out.                *)
THEOREM BlocksPartition ==
  ASSUME NEW a \in Int, NEW b \in Int, NEW n \in Nat \ {0},
         NEW L, L = Split(a, b, n)
  PROVE  \A i \in L.first .. L.last : \E t \in 0 .. L.num - 1 :
           \A s \in 0 .. L.num - 1 : i \in Block(L, s) <=> s = t
<1> SUFFICES ASSUME NEW i \in L.first .. L.last
             PROVE  \E t \in 0 .. L.num - 1 :
                      \A s \in 0 .. L.num - 1 : i \in Block(L, s) <=> s = t
  OBVIOUS
<1>1. /\ L.first \in Int /\ L.last \in Int
      /\ L.size \in Nat \ {0} /\ L.num \in Nat \ {0}
  <2>1. /\ L \in [first : Int, last : Int, size : Nat, num : Nat]
        /\ L.size > 0 /\ L.num > 0
    BY SplitType
  <2> QED
    BY <2>1
<1> DEFINE d == i - L.first
           q == d \div L.size
           t == IF q < L.num THEN q ELSE L.num - 1
<1>2. i \in Int /\ d \in Nat
  BY <1>1
<1>3. q \in Nat /\ q * L.size <= d /\ d < (q + 1) * L.size
  <2>1. q \in Nat /\ q * L.size <= d /\ d < q * L.size + L.size
    <3> HIDE DEF d
    <3> QED
      BY <1>1, <1>2, Division
  <2>2. (q + 1) * L.size = q * L.size + L.size
    <3> HIDE DEF q
    <3> QED
      BY <1>1, <2>1, Products
  <2> QED
    BY <2>1, <2>2
<1> HIDE DEF q
<1>4. t \in 0 .. L.num - 1 /\ t <= q
  BY <1>1, <1>3
<1>5. ASSUME NEW s \in 0 .. L.num - 1
      PROVE  i \in Block(L, s) <=> s = t
  <2>1. s \in Nat /\ s * L.size \in Int /\ (s + 1) * L.size \in Int
    BY <1>1, Products
  <2>2. i \in Block(L, s)
          <=> (s * L.size <= d /\ (s = L.num - 1 \/ d < (s + 1) * L.size))
    BY <1>1, <1>2, <2>1 DEF Block, BlockStart, BlockEnd
  <2>3. CASE s < t
    <3>1. (s + 1) * L.size <= q * L.size
      BY <1>1, <1>3, <1>4, <2>1, <2>3, Products
    <3>2. q * L.size \in Int
      BY <1>1, <1>3, Products
    <3>3. (s + 1) * L.size <= d
      BY <1>2, <1>3, <2>1, <3>1, <3>2
    <3>4. s # L.num - 1 /\ s # t
      BY <1>1, <1>4, <2>1, <2>3
    <3> QED
      BY <1>2, <2>1, <2>2, <3>3, <3>4
  <2>4. CASE t < s
    <3>1. t = q /\ q + 1 <= s
      BY <1>1, <1>3, <2>1, <2>4
    <3>2. (q + 1) * L.size <= s * L.size
      BY <1>1, <1>3, <2>1, <3>1, Products
    <3>3. (q + 1) * L.size \in Int
      BY <1>1, <1>3, Products
    <3>4. d < s * L.size
      BY <1>2, <1>3, <2>1, <3>2, <3>3
    <3>5. s # t /\ ~(s * L.size <= d)
      BY <1>1, <1>2, <1>4, <2>1, <2>4, <3>4
    <3> QED
      BY <2>2, <3>5
  <2>5. CASE s = t
    <3>1. s * L.size <= q * L.size /\ q * L.size \in Int
      BY <1>1, <1>3, <1>4, <2>1, <2>5, Products
    <3>2. s * L.size <= d
      BY <1>2, <1>3, <2>1, <3>1
    <3>3. s = L.num - 1 \/ d < (s + 1) * L.size
      BY <1>3, <2>5
    <3> QED
      BY <2>2, <2>5, <3>2, <3>3
  <2>6. s < t \/ t < s \/ s = t
    BY <1>1, <1>4, <2>1
  <2> QED
    BY <2>3, <2>4, <2>5, <2>6
<1> QED
  BY <1>4, <1>5

-----------------------------------------------------------------------------

(* The inductive invariant.  TypeOK alone is not inductive: that           *)
(* tasks_total-- stays a natural number needs TotalAccounts, and that a    *)
(* reset leaves no task with a thread that is gone needs JobPC.            *)
Inv ==
  /\ TypeOK
  /\ JobPC
  /\ TotalAccounts
  /\ opc = "push" => hand \in Tasks
  /\ opc # "destroyed" => Threads # {}

(* The two terms of TotalAccounts are numbers. *)
LEMMA CountsNat ==
  ASSUME Inv
  PROVE  Len(tasks) \in Nat /\ Cardinality(Busy) \in Nat
BY BusyFinite, LenProperties DEF Inv, TypeOK, PoolTypeOK, Busy

(* Inv gives the invariant of the pool, which the lemmas are about.        *)
LEMMA InvPool ==
  ASSUME Inv
  PROVE  /\ PoolInv(Tasks)
         /\ tasks_total = Pushing + Counted
         /\ Counted \in Nat
<1>1. Len(tasks) \in Nat /\ Cardinality(Busy) \in Nat
  BY CountsNat
<1>2. Pushing \in {0, 1}
  BY DEF Pushing
<1>3. tasks_total = Pushing + Counted /\ Counted \in Nat
  BY <1>1, <1>2 DEF Inv, TotalAccounts, Counted
<1> QED
  BY <1>2, <1>3 DEF Inv, TypeOK, PoolInv

(* The first state satisfies the invariant.                                *)
LEMMA InitInv == Init => Inv
<1> SUFFICES ASSUME Init PROVE Inv
  OBVIOUS
<1>1. PICK threads \in ThreadSets : PoolInit(threads)
  BY DEF Init
<1>2. PoolInv(Tasks) /\ tasks_total = 0 /\ Counted = 0
  BY <1>1, PoolInitInv
<1>3. TypeOK
  <2>1. NoLoop \in LoopType
    BY DEF NoLoop, LoopType
  <2>2. <<>> \in Seq(Tasks)
    BY EmptySeq
  <2>3. promise \in [Tasks -> PromiseState] /\ finished \in [Tasks -> Nat]
    BY DEF Init, PromiseState
  <2>4. loop \in LoopType /\ blocks \in Seq(Tasks) /\ blocks_running \in Int
    BY <2>1, <2>2 DEF Init
  <2>5. /\ opc \in OwnerPC
        /\ hand \in Tasks \cup {NoTask}
        /\ ret \in {"idle", "loop", "reset", "destroy"}
        /\ wasPaused \in BOOLEAN
        /\ pushed \subseteq Tasks
    BY DEF Init, OwnerPC
  <2> QED
    BY <1>2, <2>3, <2>4, <2>5 DEF TypeOK, PoolInv
<1>4. Len(tasks) = 0 /\ Cardinality(Busy) \in Nat
  BY <1>1, BusyFinite, EmptySeq DEF PoolInit, Busy
<1>5. TotalAccounts
  BY <1>2, <1>4 DEF Init, TotalAccounts, Pushing, Counted
<1>6. Threads # {}
  BY <1>1 DEF PoolInit, Threads, ThreadSets
<1> QED
  BY <1>2, <1>3, <1>5, <1>6 DEF Init, Inv, PoolInv

(* A step that leaves the pool's tasks and threads alone, and does not     *)
(* enter or leave push_task, keeps what Inv says of the counter.           *)
LEMMA QuietStep ==
  ASSUME Inv, TypeOK', opc # "push", opc' # "push", opc # "destroyed",
         UNCHANGED <<tasks, tasks_total, wpc, job>>
  PROVE  Inv'
BY DEF Inv, JobPC, TotalAccounts, Pushing, Busy, Threads

(* An existing pool has at least one thread.                               *)
LEMMA ThreadCount ==
  ASSUME Inv, opc # "destroyed"
  PROVE  Cardinality(Threads) \in Nat \ {0}
<1>1. IsFiniteSet(Threads)
  BY PoolAssumption, FS_Subset DEF Threads
<1> QED
  BY <1>1, FS_CardinalityType, FS_EmptySet DEF Inv

(* A task that is pushed is a new one.                                     *)
LEMMA NewTaskIsNew ==
  ASSUME pushed \subseteq Tasks, pushed # Tasks
  PROVE  NewTask \in Tasks /\ NewTask \notin pushed
BY DEF NewTask

-----------------------------------------------------------------------------
(* Every step keeps the invariant. *)
LEMMA NextInv == Inv /\ [Next]_vars => Inv'
<1> SUFFICES ASSUME Inv, [Next]_vars PROVE Inv'
  OBVIOUS
<1> USE OwnerAssumption DEF Inv
<1>0. /\ PoolInv(Tasks)
      /\ tasks_total = Pushing + Counted
      /\ Counted \in Nat
      /\ Len(tasks) \in Nat
      /\ Cardinality(Busy) \in Nat
      /\ Cardinality(Busy') \in Nat
      /\ Pushing \in {0, 1}
  BY InvPool, CountsNat, BusyFinite DEF Busy, Pushing
<1>a. ASSUME PoolInv(Tasks)', TypeOK',
             tasks_total' = Pushing' + Counted',
             opc' = "push" => hand' \in Tasks,
             opc' # "destroyed" => opc # "destroyed", Threads' = Threads
      PROVE  Inv'
  <2>1. tasks' \in Seq(Tasks)
    BY <1>a DEF PoolInv, PoolTypeOK
  <2>2. Len(tasks') \in Nat /\ Pushing' \in {0, 1}
    BY <2>1, LenProperties DEF Pushing
  <2>3. TotalAccounts'
    BY <1>0, <1>a, <2>2 DEF TotalAccounts, Counted
  <2> QED
    BY <1>a, <2>3 DEF PoolInv, Threads
<1>1. CASE Push \/ Submit \/ LoopPush
  <2>1. BeginPush /\ pushed # Tasks /\ opc \in {"idle", "loop"}
    BY <1>1 DEF Push, Submit, LoopPush, BeginPush
  <2>2. NewTask \in Tasks
    BY <2>1, NewTaskIsNew DEF TypeOK
  <2>3. PoolInv(Tasks)' /\ tasks_total' = tasks_total + 1 /\ Counted' = Counted
    BY <1>0, <2>1, PushCountInv DEF BeginPush
  <2>4. promise' \in [Tasks -> PromiseState]
    BY <1>1, <2>2 DEF Push, Submit, LoopPush, TypeOK, PromiseState
  <2>5. blocks' \in Seq(Tasks)
    <3>1. Append(blocks, NewTask) \in Seq(Tasks)
      BY <2>2, AppendProperties DEF TypeOK
    <3> QED
      BY <1>1, <3>1 DEF Push, Submit, LoopPush, TypeOK, loopVars
  <2>6. blocks_running' \in Int
    BY <1>1 DEF Push, Submit, LoopPush, TypeOK, loopVars
  <2>7. TypeOK'
    BY <1>1, <2>1, <2>2, <2>3, <2>4, <2>5, <2>6
    DEF Push, Submit, LoopPush, BeginPush, TypeOK, PoolInv, OwnerPC, loopVars
  <2>8. tasks_total' = Pushing' + Counted'
    BY <1>0, <2>1, <2>3 DEF BeginPush, Pushing
  <2>9. hand' \in Tasks /\ Threads' = Threads /\ opc # "destroyed"
    BY <2>1, <2>2 DEF BeginPush, PushCount, Threads
  <2> QED
    BY <1>a, <2>3, <2>7, <2>8, <2>9
<1>2. CASE Enqueue
  <2>1. hand \in Tasks /\ tasks_total >= Counted + 1
    BY <1>0, <1>2 DEF Enqueue, Pushing
  <2>2. /\ PoolInv(Tasks)'
        /\ tasks_total' = tasks_total
        /\ Counted' = Counted + 1
    BY <1>0, <1>2, <2>1, PushEnqueueInv DEF Enqueue
  <2>3. TypeOK' /\ opc' # "push"
    BY <1>2, <2>2 DEF Enqueue, TypeOK, PoolInv, OwnerPC, loopVars, taskVars
  <2>4. tasks_total' = Pushing' + Counted'
    BY <1>0, <1>2, <2>2, <2>3 DEF Enqueue, Pushing
  <2> QED
    BY <1>2, <1>a, <2>2, <2>3, <2>4 DEF Enqueue, PushEnqueue, Threads
<1>16. ASSUME NEW i \in Indices, NEW j \in Indices,
              NEW n \in 0 .. Cardinality(Tasks), CallLoop(i, j, n)
       PROVE  Inv'
  <2> DEFINE m == IF n = 0 THEN Cardinality(Threads) ELSE n
  <2>1. m \in Nat \ {0}
    BY <1>16, ThreadCount, FS_CardinalityType DEF CallLoop
  <2>2. loop' = Split(i, j, m) /\ i \in Int /\ j \in Int
    BY <1>16 DEF CallLoop
  <2>3. loop' \in LoopType
    BY <2>1, <2>2, SplitType DEF LoopType
  <2>4. TypeOK'
    BY <1>16, <2>3 DEF CallLoop, TypeOK, PoolTypeOK, OwnerPC, poolVars, taskVars
  <2> QED
    BY <1>16, <2>4, QuietStep DEF CallLoop, poolVars
<1>17. CASE LoopReturns
  <2>1. NoLoop \in LoopType /\ <<>> \in Seq(Tasks)
    BY EmptySeq DEF NoLoop, LoopType
  <2>2. TypeOK'
    BY <1>17, <2>1 DEF LoopReturns, TypeOK, PoolTypeOK, OwnerPC, poolVars, taskVars
  <2> QED
    BY <1>17, <2>2, QuietStep DEF LoopReturns, poolVars
<1>3. ASSUME NEW b \in BOOLEAN, SetPaused(b) PROVE Inv'
  <2>1. TypeOK'
    BY <1>3 DEF SetPaused, TypeOK, PoolTypeOK, ownerVars, loopVars, taskVars
  <2> QED
    BY <1>3, <2>1, QuietStep DEF SetPaused, ownerVars
<1>4. CASE CallWait \/ CallReset \/ CallDestroy
  <2>1. TypeOK'
    BY <1>4 DEF CallWait, CallReset, CallDestroy, TypeOK, PoolTypeOK, OwnerPC,
                poolVars, loopVars, taskVars
  <2> QED
    BY <1>4, <2>1, QuietStep DEF CallWait, CallReset, CallDestroy, poolVars
<1>5. CASE WaitAll \/ WaitPaused
  <2>1. TypeOK'
    BY <1>5 DEF WaitAll, WaitPaused, TypeOK, PoolTypeOK, OwnerPC, poolVars,
                loopVars, taskVars
  <2>2. opc # "push" /\ opc' # "push"
    BY <1>5 DEF WaitAll, WaitPaused, TypeOK
  <2> QED
    BY <1>5, <2>1, <2>2, QuietStep DEF WaitAll, WaitPaused, poolVars
<1>6. CASE OwnerReads
  <2>1. /\ PoolInv(Tasks)'
        /\ tasks_total' = tasks_total
        /\ Counted' = Counted
    BY <1>0, <1>6, ReadInv DEF OwnerReads
  <2>2. TypeOK'
    BY <1>6, <2>1 DEF OwnerReads, TypeOK, PoolInv, ownerVars, loopVars, taskVars
  <2> QED
    BY <1>0, <1>6, <1>a, <2>1, <2>2
    DEF OwnerReads, ReadTotal, ReadQueued, ownerVars, Pushing, Threads
<1>7. CASE WaitRunning
  <2>1. NotReading \in [total : Int, queued : Int, totalFirst : BOOLEAN]
    BY DEF NotReading, Unread
  <2>2. opc' \in {"idle", "loop", "reset", "destroy", "wait"}
    BY <1>7 DEF WaitRunning, TypeOK
  <2>3. TypeOK'
    BY <1>7, <2>1, <2>2 DEF WaitRunning, TypeOK, PoolTypeOK, OwnerPC, loopVars,
                            taskVars
  <2> QED
    BY <1>7, <2>2, <2>3, QuietStep DEF WaitRunning
<1>8. CASE ResetStop \/ DestroyStop
  <2>1. TypeOK'
    BY <1>8 DEF ResetStop, DestroyStop, TypeOK, PoolTypeOK, OwnerPC, loopVars,
                taskVars
  <2> QED
    BY <1>8, <2>1, QuietStep DEF ResetStop, DestroyStop
<1>9. ASSUME NEW threads \in ThreadSets, ResetCreate(threads)
      PROVE  Inv'
  <2>1. \A w \in Workers : job[w] = NoTask
    BY <1>9 DEF ResetCreate, CanJoin, Threads, JobPC
  <2>2. wpc' \in [Workers -> {"loop", "none"}]
    BY <1>9 DEF ResetCreate
  <2>3. TypeOK'
    BY <1>9, <2>2 DEF ResetCreate, TypeOK, PoolTypeOK, OwnerPC, WorkerPC, loopVars,
                      taskVars
  <2>4. JobPC'
    BY <1>9, <2>1, <2>2 DEF ResetCreate, JobPC
  <2>5. TotalAccounts'
    BY <1>9 DEF ResetCreate, TotalAccounts, Pushing, Busy
  <2>6. Threads' # {}
    BY <1>9 DEF ResetCreate, Threads, ThreadSets
  <2> QED
    BY <1>9, <2>3, <2>4, <2>5, <2>6 DEF ResetCreate
<1>10. CASE DestroyJoin
  <2>1. \A w \in Workers : job[w] = NoTask
    BY <1>10 DEF DestroyJoin, CanJoin, Threads, JobPC
  <2>2. wpc' \in [Workers -> {"none"}]
    BY <1>10 DEF DestroyJoin
  <2>3. TypeOK'
    <3>1. promise' \in [Tasks -> PromiseState]
      BY <1>10 DEF DestroyJoin, TypeOK, PromiseState
    <3> QED
      BY <1>10, <2>2, <3>1
      DEF DestroyJoin, TypeOK, PoolTypeOK, OwnerPC, WorkerPC, loopVars
  <2>4. JobPC'
    BY <1>10, <2>1, <2>2 DEF DestroyJoin, JobPC
  <2>5. TotalAccounts'
    BY <1>10 DEF DestroyJoin, TotalAccounts, Pushing, Busy
  <2> QED
    BY <1>10, <2>3, <2>4, <2>5 DEF DestroyJoin
<1>11. ASSUME NEW w \in Workers, Work(w) PROVE Inv'
  <2>1. PoolInv(Tasks)' /\ tasks_total' - Counted' = tasks_total - Counted
    BY <1>0, <1>11, WorkerStepInv DEF Work
  <2>2. TypeOK'
    BY <1>11, <2>1 DEF Work, TypeOK, PoolInv, ownerVars, loopVars, taskVars
  <2>3. tasks' \in Seq(Tasks) /\ tasks_total' \in Nat
    BY <2>1 DEF PoolInv, PoolTypeOK
  <2>4. Counted' \in Int
    BY <1>0, <2>3, LenProperties DEF Counted
  <2>5. Pushing' = Pushing
    BY <1>11 DEF Work, ownerVars, Pushing
  <2>6. tasks_total' = Pushing' + Counted'
    <3>1. tasks_total - Counted = Pushing
      BY <1>0
    <3>2. tasks_total' - Counted' = Pushing'
      BY <2>1, <2>5, <3>1
    <3>3. \A a \in Int, b \in Int, c \in Int : a - b = c => a = c + b
      OBVIOUS
    <3>4. tasks_total' \in Int /\ Counted' \in Int /\ Pushing' \in Int
      BY <1>0, <2>3, <2>4, <2>5
    <3> QED
      BY <3>2, <3>3, <3>4
  <2>7. Threads' = Threads
    BY <1>11 DEF Work, WorkerStep, WorkerLoop, WorkerCheck, PopTask, PopNothing,
                 TaskCount, Threads, TypeOK, PoolTypeOK
  <2> QED
    BY <1>11, <1>a, <2>1, <2>2, <2>6, <2>7 DEF Work, ownerVars
<1>12. ASSUME NEW w \in Workers, FinishTask(w) PROVE Inv'
  <2>1. /\ PoolInv(Tasks)'
        /\ tasks_total' = tasks_total
        /\ Counted' = Counted
    BY <1>0, <1>12, TaskReturnInv DEF FinishTask
  <2>2. job[w] \in Tasks
    BY <1>12 DEF FinishTask, TaskReturn, JobPC, TypeOK, PoolTypeOK
  <2>3. finished' \in [Tasks -> Nat]
    BY <1>12, <2>2 DEF FinishTask, TypeOK
  <2>4. promise' \in [Tasks -> PromiseState] /\ blocks_running' \in Int
    BY <1>12, <2>2 DEF FinishTask, Settle, TypeOK, PromiseState
  <2>5. TypeOK'
    BY <1>12, <2>1, <2>3, <2>4 DEF FinishTask, TypeOK, PoolInv
  <2>6. Threads' = Threads
    BY <1>12 DEF FinishTask, TaskReturn, Threads, TypeOK, PoolTypeOK
  <2> QED
    BY <1>0, <1>12, <1>a, <2>1, <2>5, <2>6 DEF FinishTask, Pushing
<1>13. ASSUME NEW r \in Readers \ {Owner}, StatusReads(r) PROVE Inv'
  <2>1. /\ PoolInv(Tasks)'
        /\ tasks_total' = tasks_total
        /\ Counted' = Counted
    BY <1>0, <1>13, ReadInv DEF StatusReads
  <2>2. TypeOK'
    BY <1>13, <2>1 DEF StatusReads, TypeOK, PoolInv, ownerVars, loopVars, taskVars
  <2> QED
    BY <1>0, <1>13, <1>a, <2>1, <2>2
    DEF StatusReads, ReadTotal, ReadQueued, ownerVars, Pushing, Threads
<1>14. ASSUME NEW r \in Readers \ {Owner}, StatusReturns(r) PROVE Inv'
  <2>1. NotReading \in [total : Int, queued : Int, totalFirst : BOOLEAN]
    BY DEF NotReading, Unread
  <2>2. TypeOK'
    BY <1>14, <2>1 DEF StatusReturns, TypeOK, PoolTypeOK, ownerVars, loopVars, taskVars
  <2> QED
    BY <1>14, <2>2 DEF StatusReturns, ownerVars, JobPC, TotalAccounts, Pushing,
                       Busy, Threads
<1>15. CASE UNCHANGED vars
  BY <1>15 DEF vars, poolVars, ownerVars, loopVars, taskVars, TypeOK,
               PoolTypeOK, JobPC, TotalAccounts, Pushing, Busy, Threads
<1> QED
  BY <1>1, <1>2, <1>3, <1>4, <1>5, <1>6, <1>7, <1>8, <1>9, <1>10, <1>11, <1>12,
     <1>13, <1>14, <1>15, <1>16, <1>17 DEF Next, OwnerStep, OwnerCall

(* The strengthened invariant holds in every state of a pool and its       *)
(* owner, whatever the numbers of threads, tasks and readers.              *)
THEOREM Invariance == Spec => []Inv
<1>1. Init => Inv
  BY InitInv
<1>2. Inv /\ [Next]_vars => Inv'
  BY NextInv
<1> QED
  BY <1>1, <1>2, PTL DEF Spec

-----------------------------------------------------------------------------
(* Every variable keeps its type; in particular tasks_total-- never takes  *)
(* the unsigned counter below zero (thread_pool.hpp:383).                  *)
THEOREM TypeCorrect == Spec => []TypeOK
<1>1. Inv => TypeOK
  BY DEF Inv
<1> QED
  BY <1>1, Invariance, PTL

(* push_task counts first and queues afterwards, a worker counts down when *)
(* the task is done: tasks_total is exactly what lies between.             *)
THEOREM TotalAccountsHolds == Spec => []TotalAccounts
<1>1. Inv => TotalAccounts
  BY DEF Inv
<1> QED
  BY <1>1, Invariance, PTL

(* A counter at zero means an empty queue and idle workers. *)
LEMMA ZeroIsQuiet ==
  ASSUME Inv, tasks_total = 0
  PROVE  tasks = <<>> /\ \A w \in Workers : wpc[w] # "exec"
<1>1. Len(tasks) \in Nat /\ Cardinality(Busy) \in Nat /\ Pushing \in {0, 1}
  BY CountsNat DEF Pushing
<1>2. Len(tasks) = 0 /\ Cardinality(Busy) = 0
  BY <1>1 DEF Inv, TotalAccounts
<1>3. tasks = <<>>
  BY <1>2, EmptySeq DEF Inv, TypeOK, PoolTypeOK
<1>4. \A w \in Workers : job[w] = NoTask
  BY <1>2, NoneBusy
<1> QED
  BY <1>3, <1>4 DEF Inv, JobPC

(* With a counter at zero no worker holds a task. *)
LEMMA ZeroHoldsNothing ==
  ASSUME Inv, tasks_total = 0
  PROVE  \A w \in Workers : job[w] = NoTask
<1>1. Len(tasks) \in Nat /\ Cardinality(Busy) \in Nat /\ Pushing \in {0, 1}
  BY CountsNat DEF Pushing
<1> QED
  BY <1>1, NoneBusy DEF Inv, TotalAccounts

(* Every step is covered: only WaitAll leaves "wait" while the pool is not *)
(* paused.                                                                 *)
LEMMA LeavesWaitAtZero ==
  ASSUME Inv, [Next]_vars, opc = "wait", opc' = ret, ~paused
  PROVE  tasks_total = 0
<1>1. ret # "wait" /\ opc' # opc
  BY DEF Inv, TypeOK
<1>2. WaitAll
  BY <1>1 DEF Next, OwnerStep, OwnerCall, BeginPush, Push, Submit, CallLoop,
              LoopPush, LoopReturns, Enqueue, SetPaused, CallWait,
              CallReset, CallDestroy, WaitPaused, OwnerReads, WaitRunning,
              ResetStop, ResetCreate, DestroyStop, DestroyJoin, Work,
              FinishTask, StatusReads, StatusReturns, vars, ownerVars
<1> QED
  BY <1>2 DEF WaitAll

(* wait_for_tasks() of a pool that is not paused returns only when nothing *)
(* is queued and nothing executes: what the destructor, reset() and        *)
(* OutputHandler's disconnect after it rest on.                            *)
THEOREM WaitDrains == Spec => WaitForTasksDrains
<1>1. Inv /\ [Next]_vars
        => [opc = "wait" /\ opc' = ret /\ ~paused
              => tasks = <<>> /\ \A w \in Workers : wpc[w] # "exec"]_vars
  BY LeavesWaitAtZero, ZeroIsQuiet
<1> QED
  BY <1>1, Invariance, PTL DEF Spec, WaitForTasksDrains

(* When every thread has been joined, no task is held: the join waits for  *)
(* the loop to end, and the loop does not end inside a task.               *)
LEMMA JoinedIsIdle ==
  ASSUME Inv, CanJoin
  PROVE  Busy = {} /\ Cardinality(Busy) = 0
<1>1. \A w \in Workers : job[w] = NoTask
  BY DEF CanJoin, Threads, Inv, JobPC
<1>2. Busy = {}
  BY <1>1 DEF Busy
<1> QED
  BY <1>2, FS_EmptySet

(* A reset ends with ResetCreate. *)
LEMMA ResetEnds ==
  ASSUME Inv, [Next]_vars, opc = "reset_join", opc' = "idle"
  PROVE  CanJoin /\ tasks' = tasks
<1>1. \E threads \in ThreadSets : ResetCreate(threads)
  BY DEF Next, OwnerStep, OwnerCall, BeginPush, Push, Submit, CallLoop,
         LoopPush, LoopReturns, Enqueue, SetPaused, CallWait,
         CallReset, CallDestroy, WaitAll, WaitPaused, OwnerReads, WaitRunning,
         ResetStop, DestroyStop, DestroyJoin, Work, FinishTask, StatusReads,
         StatusReturns, vars, ownerVars
<1> QED
  BY <1>1 DEF ResetCreate

(* reset() joins the old threads before it creates the new ones: no task   *)
(* is lost or left running over the change, and the counter then says      *)
(* exactly what is queued.                                                 *)
THEOREM ResetKeeps == Spec => ResetKeepsTasks
<1>1. ASSUME Inv, [Next]_vars, opc = "reset_join", opc' = "idle"
      PROVE  tasks' = tasks /\ Busy = {} /\ tasks_total = Len(tasks)
  <2>1. tasks' = tasks /\ Busy = {} /\ Cardinality(Busy) = 0
    BY <1>1, ResetEnds, JoinedIsIdle
  <2>2. Pushing = 0 /\ Len(tasks) \in Nat
    BY <1>1, CountsNat DEF Pushing
  <2>3. tasks_total = Len(tasks)
    BY <1>1, <2>1, <2>2 DEF Inv, TotalAccounts
  <2> QED
    BY <2>1, <2>3
<1>2. Inv /\ [Next]_vars
        => [opc = "reset_join" /\ opc' = "idle"
              => tasks' = tasks /\ Busy = {} /\ tasks_total = Len(tasks)]_vars
  BY <1>1
<1> QED
  BY <1>2, Invariance, PTL DEF Spec, ResetKeepsTasks

-----------------------------------------------------------------------------
(* Where a task is.  Separate says that it is in one place, with sets      *)
(* instead of the counts of ExactlyOnce.                                   *)

InHand(t) == opc = "push" /\ hand = t
Queued(t) == \E i \in DOMAIN tasks : tasks[i] = t
Held(t) == \E w \in Workers : job[w] = t /\ wpc[w] = "exec"

QueueDistinct == \A i, j \in DOMAIN tasks : tasks[i] = tasks[j] => i = j

WorkersDistinct ==
  \A v, w \in Workers :
    wpc[v] = "exec" /\ wpc[w] = "exec" /\ job[v] = job[w] => v = w

OnePlace(t) ==
  /\ finished[t] \in {0, 1}
  /\ InHand(t) => ~Queued(t) /\ ~Held(t) /\ finished[t] = 0
  /\ Queued(t) => ~Held(t) /\ finished[t] = 0
  /\ Held(t) => finished[t] = 0
  /\ t \in pushed <=> InHand(t) \/ Queued(t) \/ Held(t) \/ finished[t] = 1

Separate ==
  QueueDistinct /\ WorkersDistinct /\ \A t \in Tasks : OnePlace(t)

LEMMA InitSeparate == Init => Separate
<1> SUFFICES ASSUME Init PROVE Separate
  OBVIOUS
<1>1. PICK threads \in ThreadSets : PoolInit(threads)
  BY DEF Init
<1>2. DOMAIN tasks = {} /\ \A w \in Workers : wpc[w] # "exec"
  BY <1>1 DEF PoolInit
<1> QED
  BY <1>2 DEF Init, Separate, QueueDistinct, WorkersDistinct, OnePlace, InHand,
              Queued, Held

(* A step that moves no task. *)
LEMMA UnmovedSeparate ==
  ASSUME Separate, UNCHANGED <<tasks, pushed, finished>>,
         \A t \in Tasks : InHand(t)' <=> InHand(t),
         \A w \in Workers : wpc'[w] = "exec" <=> wpc[w] = "exec",
         \A w \in Workers : wpc[w] = "exec" => job'[w] = job[w]
  PROVE  Separate'
<1>1. \A t \in Tasks : (Queued(t)' <=> Queued(t)) /\ (Held(t)' <=> Held(t))
  BY DEF Queued, Held
<1>2. QueueDistinct' /\ WorkersDistinct'
  BY DEF Separate, QueueDistinct, WorkersDistinct
<1>3. \A t \in Tasks : OnePlace(t)'
  BY <1>1 DEF Separate, OnePlace
<1> QED
  BY <1>2, <1>3 DEF Separate

(* push_task takes a new task in hand. *)
LEMMA BeginPushSeparate ==
  ASSUME Inv, Separate, BeginPush, opc # "push", UNCHANGED finished
  PROVE  Separate'
<1>1. NewTask \in Tasks /\ NewTask \notin pushed
  BY NewTaskIsNew DEF BeginPush, Inv, TypeOK
<1>2. UNCHANGED <<tasks, wpc, job>>
  BY DEF BeginPush, PushCount
<1>3. \A t \in Tasks : /\ Queued(t)' <=> Queued(t)
                       /\ Held(t)' <=> Held(t)
                       /\ InHand(t)' <=> t = NewTask
                       /\ ~InHand(t)
  BY <1>1, <1>2 DEF Queued, Held, InHand, BeginPush
<1>4. QueueDistinct' /\ WorkersDistinct'
  BY <1>2 DEF Separate, QueueDistinct, WorkersDistinct
<1>5. ASSUME NEW t \in Tasks PROVE OnePlace(t)'
  <2>1. OnePlace(t) /\ (t \in pushed' <=> t \in pushed \/ t = NewTask)
    BY <1>5 DEF Separate, BeginPush
  <2> QED
    BY <1>1, <1>3, <2>1 DEF OnePlace
<1> QED
  BY <1>4, <1>5 DEF Separate

(* The second half of push_task moves it into the queue. *)
LEMMA EnqueueSeparate ==
  ASSUME Inv, Inv', Separate, Enqueue
  PROVE  Separate'
<1>1. /\ tasks \in Seq(Tasks) /\ hand \in Tasks /\ opc = "push"
      /\ tasks' = Append(tasks, hand) /\ opc' # "push"
      /\ UNCHANGED <<wpc, job, pushed, finished>>
  BY DEF Inv, TypeOK, PoolTypeOK, Enqueue, PushEnqueue, taskVars
<1>2. /\ Len(tasks) \in Nat
      /\ DOMAIN tasks = 1 .. Len(tasks)
      /\ DOMAIN tasks' = 1 .. Len(tasks) + 1
      /\ \A i \in DOMAIN tasks : tasks'[i] = tasks[i]
      /\ tasks'[Len(tasks) + 1] = hand
  BY <1>1, AppendProperties, LenProperties
<1>3. \A t \in Tasks : Queued(t)' <=> Queued(t) \/ t = hand
  BY <1>2 DEF Queued
<1>4. \A t \in Tasks : /\ Held(t)' <=> Held(t)
                       /\ ~InHand(t)'
                       /\ InHand(t) <=> t = hand
  BY <1>1 DEF Held, InHand
<1>5. OnePlace(hand) /\ ~Queued(hand)
  BY <1>1, <1>4 DEF Separate, OnePlace
<1>6. QueueDistinct'
  BY <1>2, <1>5 DEF Separate, QueueDistinct, Queued
<1>7. WorkersDistinct'
  BY <1>1 DEF Separate, WorkersDistinct
<1>8. ASSUME NEW t \in Tasks PROVE OnePlace(t)'
  <2>1. OnePlace(t) /\ finished'[t] = finished[t] /\ (t \in pushed' <=> t \in pushed)
    BY <1>1, <1>8 DEF Separate
  <2> QED
    BY <1>3, <1>4, <1>5, <2>1 DEF OnePlace
<1> QED
  BY <1>6, <1>7, <1>8 DEF Separate

(* pop_task moves the first task of the queue to the worker. *)
LEMMA PopSeparate ==
  ASSUME Inv, Inv', Separate, NEW w \in Workers, PopTask(w),
         UNCHANGED <<ownerVars, taskVars>>
  PROVE  Separate'
<1> DEFINE h == Head(tasks)
<1>1. /\ tasks \in Seq(Tasks) /\ tasks # <<>>
      /\ tasks' = Tail(tasks)
      /\ wpc[w] = "pop" /\ wpc' = [wpc EXCEPT ![w] = "exec"]
      /\ job' = [job EXCEPT ![w] = h]
      /\ DOMAIN wpc = Workers /\ DOMAIN job = Workers
      /\ UNCHANGED <<opc, hand, pushed, finished>>
  BY DEF Inv, TypeOK, PoolTypeOK, PopTask, ownerVars, taskVars
<1>2. /\ Len(tasks) \in Nat \ {0} /\ h = tasks[1] /\ h \in Tasks
      /\ DOMAIN tasks = 1 .. Len(tasks)
      /\ DOMAIN tasks' = 1 .. Len(tasks) - 1
      /\ \A i \in DOMAIN tasks' : tasks'[i] = tasks[i + 1]
  BY <1>1, HeadTailProperties, LenProperties, EmptySeq
<1> HIDE DEF h
<1>3. Queued(h)
  BY <1>2 DEF Queued
<1>4. \A t \in Tasks : Queued(t)' <=> Queued(t) /\ t # h
  <2>1. \A i \in DOMAIN tasks : tasks[i] = h => i = 1
    BY <1>2 DEF Separate, QueueDistinct
  <2>2. ASSUME NEW t \in Tasks, Queued(t)' PROVE Queued(t) /\ t # h
    <3>1. PICK i \in DOMAIN tasks' : tasks'[i] = t
      BY <2>2 DEF Queued
    <3>2. i + 1 \in DOMAIN tasks /\ tasks[i + 1] = t /\ i + 1 # 1
      BY <1>2, <3>1
    <3> QED
      BY <2>1, <3>2 DEF Queued
  <2>3. ASSUME NEW t \in Tasks, Queued(t), t # h PROVE Queued(t)'
    <3>1. PICK i \in DOMAIN tasks : tasks[i] = t
      BY <2>3 DEF Queued
    <3>2. i # 1 /\ i - 1 \in DOMAIN tasks' /\ tasks'[i - 1] = tasks[i]
      BY <1>2, <2>3, <3>1
    <3> QED
      BY <3>1, <3>2 DEF Queued
  <2> QED
    BY <2>2, <2>3
<1>5. \A t \in Tasks : Held(t)' <=> Held(t) \/ t = h
  BY <1>1 DEF Held
<1>6. \A t \in Tasks : InHand(t)' <=> InHand(t)
  BY <1>1 DEF InHand
<1>7. QueueDistinct'
  BY <1>2 DEF Separate, QueueDistinct
<1>8. ~Held(h)
  BY <1>2, <1>3 DEF Separate, OnePlace
<1>9. WorkersDistinct'
  BY <1>1, <1>8 DEF Separate, WorkersDistinct, Held
<1>10. ASSUME NEW t \in Tasks PROVE OnePlace(t)'
  <2>1. OnePlace(t) /\ finished'[t] = finished[t] /\ (t \in pushed' <=> t \in pushed)
    BY <1>1, <1>10 DEF Separate
  <2> QED
    BY <1>3, <1>4, <1>5, <1>6, <2>1 DEF OnePlace
<1> QED
  BY <1>7, <1>9, <1>10 DEF Separate

(* A task that ends has ended once. *)
LEMMA FinishSeparate ==
  ASSUME Inv, Inv', Separate, NEW w \in Workers, FinishTask(w)
  PROVE  Separate'
<1>1. /\ job[w] \in Tasks /\ wpc[w] = "exec"
      /\ wpc' = [wpc EXCEPT ![w] = "count"] /\ DOMAIN wpc = Workers
      /\ UNCHANGED <<tasks, job, opc, hand, pushed>>
      /\ finished \in [Tasks -> Nat]
      /\ finished' = [finished EXCEPT ![job[w]] = @ + 1]
  BY DEF Inv, TypeOK, PoolTypeOK, JobPC, FinishTask, TaskReturn
<1>2. Held(job[w])
  BY <1>1 DEF Held
<1>3. finished[job[w]] = 0
  BY <1>1, <1>2 DEF Separate, OnePlace
<1>4. \A t \in Tasks : finished'[t] = IF t = job[w] THEN 1 ELSE finished[t]
  BY <1>1, <1>3
<1>5. \A t \in Tasks : Held(t)' <=> Held(t) /\ t # job[w]
  BY <1>1 DEF Held, Separate, WorkersDistinct
<1>6. \A t \in Tasks : (Queued(t)' <=> Queued(t)) /\ (InHand(t)' <=> InHand(t))
  BY <1>1 DEF Queued, InHand
<1>7. QueueDistinct' /\ WorkersDistinct'
  BY <1>1 DEF Separate, QueueDistinct, WorkersDistinct
<1>8. ASSUME NEW t \in Tasks PROVE OnePlace(t)'
  <2>1. OnePlace(t) /\ (t \in pushed' <=> t \in pushed)
    BY <1>1, <1>8 DEF Separate
  <2> QED
    BY <1>2, <1>4, <1>5, <1>6, <2>1 DEF OnePlace
<1> QED
  BY <1>7, <1>8 DEF Separate

LEMMA NextSeparate == Inv /\ Inv' /\ Separate /\ [Next]_vars => Separate'
<1> SUFFICES ASSUME Inv, Inv', Separate, [Next]_vars PROVE Separate'
  OBVIOUS
<1>0. DOMAIN wpc = Workers /\ DOMAIN job = Workers
  BY DEF Inv, TypeOK, PoolTypeOK
<1>1. CASE Push \/ Submit \/ LoopPush
  <2>1. BeginPush /\ opc # "push" /\ UNCHANGED finished
    BY <1>1 DEF Push, Submit, LoopPush
  <2> QED
    BY <2>1, BeginPushSeparate
<1>2. CASE Enqueue
  BY <1>2, EnqueueSeparate
<1>3. ASSUME NEW w \in Workers, FinishTask(w) PROVE Separate'
  BY <1>3, FinishSeparate
<1>4. ASSUME NEW w \in Workers, Work(w) PROVE Separate'
  <2>1. CASE PopTask(w)
    BY <1>4, <2>1, PopSeparate DEF Work
  <2>2. CASE WorkerLoop(w) \/ WorkerCheck(w) \/ PopNothing(w) \/ TaskCount(w)
    <3>1. /\ UNCHANGED <<tasks, opc, hand, pushed, finished>>
          /\ \A v \in Workers : wpc'[v] = "exec" <=> wpc[v] = "exec"
          /\ \A v \in Workers : wpc[v] = "exec" => job'[v] = job[v]
      BY <1>0, <1>4, <2>2 DEF Work, WorkerLoop, WorkerCheck, PopNothing,
                              TaskCount, ownerVars, taskVars
    <3> QED
      BY <3>1, UnmovedSeparate DEF InHand
  <2> QED
    BY <1>4, <2>1, <2>2 DEF Work, WorkerStep
<1>5. ASSUME UNCHANGED <<tasks, wpc, job, pushed, finished>>,
             opc = "push" => opc' = "push" /\ hand' = hand,
             opc' = "push" => opc = "push"
      PROVE  Separate'
  BY <1>5, UnmovedSeparate DEF InHand
<1>6. ASSUME NEW threads \in ThreadSets, ResetCreate(threads)
      PROVE  Separate'
  <2>1. /\ UNCHANGED <<tasks, job, pushed, finished>>
        /\ opc # "push" /\ opc' # "push"
        /\ \A w \in Workers : wpc[w] # "exec" /\ wpc'[w] # "exec"
    BY <1>6 DEF ResetCreate, CanJoin, Threads, taskVars
  <2> QED
    BY <2>1, UnmovedSeparate DEF InHand
<1>7. CASE DestroyJoin
  <2>1. /\ UNCHANGED <<tasks, job, pushed, finished>>
        /\ opc # "push" /\ opc' # "push"
        /\ \A w \in Workers : wpc[w] # "exec" /\ wpc'[w] # "exec"
    BY <1>7 DEF DestroyJoin, CanJoin, Threads
  <2> QED
    BY <2>1, UnmovedSeparate DEF InHand
<1>8. CASE (\E i, j \in Indices, n \in 0 .. Cardinality(Tasks) : CallLoop(i, j, n))
           \/ LoopReturns
  BY <1>5, <1>8 DEF CallLoop, LoopReturns, poolVars, taskVars
<1>9. CASE (\E b \in BOOLEAN : SetPaused(b)) \/ CallWait \/ CallReset
           \/ CallDestroy \/ ResetStop \/ DestroyStop
  BY <1>5, <1>9 DEF SetPaused, CallWait, CallReset, CallDestroy, ResetStop,
                    DestroyStop, poolVars, ownerVars, taskVars
<1>10. CASE WaitAll \/ WaitPaused \/ WaitRunning
  BY <1>5, <1>10 DEF WaitAll, WaitPaused, WaitRunning, poolVars, taskVars, Inv,
                     TypeOK
<1>11. CASE OwnerReads \/ \E r \in Readers \ {Owner} : StatusReads(r) \/ StatusReturns(r)
  BY <1>5, <1>11 DEF OwnerReads, StatusReads, StatusReturns, ReadTotal,
                     ReadQueued, ownerVars, taskVars
<1>12. CASE UNCHANGED vars
  BY <1>5, <1>12 DEF vars, poolVars, ownerVars, taskVars
<1> QED
  BY <1>1, <1>2, <1>3, <1>4, <1>6, <1>7, <1>8, <1>9, <1>10, <1>11, <1>12
  DEF Next, OwnerStep, OwnerCall

(* The places hold in every state. *)
LEMMA SeparateHolds == Spec => [](Inv /\ Separate)
<1>1. Init => Inv /\ Separate
  BY InitInv, InitSeparate
<1>2. Inv /\ Separate /\ [Next]_vars => Inv' /\ Separate'
  BY NextInv, NextSeparate
<1> QED
  BY <1>1, <1>2, PTL DEF Spec

(* A set whose elements are all equal counts 0 or 1. *)
LEMMA CountOfOne ==
  ASSUME NEW S, \A x, y \in S : x = y
  PROVE  Cardinality(S) = IF S = {} THEN 0 ELSE 1
<1>1. CASE S = {}
  BY <1>1, FS_EmptySet
<1>2. CASE S # {}
  <2>1. PICK x \in S : TRUE
    BY <1>2
  <2>2. S = {x}
    BY <2>1
  <2> QED
    BY <1>2, <2>2, FS_Singleton
<1> QED
  BY <1>1, <1>2

(* Every task that was pushed is in one place and in one only: no call of  *)
(* the owner and no interleaving of the workers loses a task or runs one   *)
(* twice.                                                                  *)
THEOREM ExactlyOnceHolds == Spec => []ExactlyOnce
<1>1. ASSUME Inv, Separate, NEW t \in Tasks
      PROVE  Places(t) = IF t \in pushed THEN 1 ELSE 0
  <2> DEFINE Q == {i \in DOMAIN tasks : tasks[i] = t}
             H == {w \in Workers : job[w] = t /\ wpc[w] = "exec"}
  <2>1. Cardinality(Q) = IF Queued(t) THEN 1 ELSE 0
    <3>1. \A i, j \in Q : i = j
      BY <1>1 DEF Separate, QueueDistinct
    <3>2. Q = {} <=> ~Queued(t)
      BY DEF Queued
    <3> QED
      BY <3>1, <3>2, CountOfOne
  <2>2. Cardinality(H) = IF Held(t) THEN 1 ELSE 0
    <3>1. \A v, w \in H : v = w
      BY <1>1 DEF Separate, WorkersDistinct
    <3>2. H = {} <=> ~Held(t)
      BY DEF Held
    <3> QED
      BY <3>1, <3>2, CountOfOne
  <2>3. OnePlace(t)
    BY <1>1 DEF Separate
  <2> HIDE DEF Q, H
  <2>4. Places(t) = (IF InHand(t) THEN 1 ELSE 0) + Cardinality(Q)
                    + Cardinality(H) + finished[t]
    BY DEF Places, InHand, Q, H
  <2> QED
    BY <2>1, <2>2, <2>3, <2>4 DEF OnePlace
<1>2. Inv /\ Separate => ExactlyOnce
  BY <1>1 DEF ExactlyOnce
<1> QED
  BY <1>2, SeparateHolds, PTL

-----------------------------------------------------------------------------
(* What the owner knows when a call ends: where each call returns to, that *)
(* the destructor of a pool that is not paused found it drained, and that  *)
(* no thread is left afterwards.                                           *)

EndInv ==
  /\ opc = "push" => ret \in {"idle", "loop"}
  /\ opc \in {"wait", "wait_running"} => ret \in {"idle", "reset", "destroy"}
  /\ opc = "wait_running" => paused
  /\ opc \in {"destroy", "destroy_join", "destroyed"} /\ ~paused
       => tasks = <<>> /\ \A w \in Workers : job[w] = NoTask
  /\ opc = "destroyed" => \A w \in Workers : wpc[w] = "none"

LEMMA InitEnd == Init => EndInv
BY DEF Init, EndInv

LEMMA NextEnd == Inv /\ EndInv /\ [Next]_vars => EndInv'
<1> SUFFICES ASSUME Inv, EndInv, [Next]_vars PROVE EndInv'
  OBVIOUS
<1>0. DOMAIN wpc = Workers /\ DOMAIN job = Workers
  BY DEF Inv, TypeOK, PoolTypeOK
<1>1. CASE Push \/ Submit \/ LoopPush
  BY <1>1 DEF Push, Submit, LoopPush, BeginPush, EndInv
<1>2. CASE Enqueue
  BY <1>2 DEF Enqueue, EndInv
<1>3. CASE WaitAll
  <2>1. tasks_total = 0 /\ ~paused /\ opc' = ret /\ ret \in {"idle", "reset", "destroy"}
    BY <1>3 DEF WaitAll, EndInv
  <2>2. tasks = <<>> /\ \A w \in Workers : job[w] = NoTask
    BY <2>1, ZeroIsQuiet, ZeroHoldsNothing
  <2> QED
    BY <1>3, <2>1, <2>2 DEF WaitAll, EndInv, poolVars
<1>4. CASE WaitPaused \/ WaitRunning
  BY <1>4 DEF WaitPaused, WaitRunning, EndInv, poolVars
<1>5. CASE (\E i, j \in Indices, n \in 0 .. Cardinality(Tasks) : CallLoop(i, j, n))
           \/ LoopReturns
  BY <1>5 DEF CallLoop, LoopReturns, EndInv
<1>6. CASE (\E b \in BOOLEAN : SetPaused(b)) \/ CallWait \/ CallReset \/ CallDestroy
  BY <1>6 DEF SetPaused, CallWait, CallReset, CallDestroy, EndInv, ownerVars, poolVars
<1>7. CASE ResetStop \/ \E threads \in ThreadSets : ResetCreate(threads)
  BY <1>7 DEF ResetStop, ResetCreate, EndInv
<1>8. CASE DestroyStop
  BY <1>8 DEF DestroyStop, EndInv
<1>9. CASE DestroyJoin
  BY <1>9 DEF DestroyJoin, EndInv
<1>10. ASSUME NEW w \in Workers, Work(w) PROVE EndInv'
  BY <1>0, <1>10 DEF Work, WorkerStep, WorkerLoop, WorkerCheck, PopTask,
                     PopNothing, TaskCount, EndInv, ownerVars
<1>11. ASSUME NEW w \in Workers, FinishTask(w) PROVE EndInv'
  BY <1>0, <1>11 DEF FinishTask, TaskReturn, EndInv
<1>12. CASE OwnerReads
            \/ \E r \in Readers \ {Owner} : StatusReads(r) \/ StatusReturns(r)
  BY <1>12 DEF OwnerReads, StatusReads, StatusReturns, ReadTotal, ReadQueued,
               EndInv, ownerVars
<1>13. CASE UNCHANGED vars
  BY <1>13 DEF vars, poolVars, ownerVars, EndInv
<1> QED
  BY <1>1, <1>2, <1>3, <1>4, <1>5, <1>6, <1>7, <1>8, <1>9, <1>10, <1>11, <1>12,
     <1>13 DEF Next, OwnerStep, OwnerCall

(* No thread survives the destructor, and a pool that was not paused has   *)
(* then run every task that was pushed.                                    *)
THEOREM DestructorIsQuiet == Spec => []DestroyedIsQuiet
<1>1. ASSUME Inv, Separate, EndInv, opc = "destroyed"
      PROVE  /\ Threads = {} /\ Busy = {}
             /\ ~paused => \A t \in pushed : finished[t] = 1
  <2>1. \A w \in Workers : wpc[w] = "none" /\ job[w] = NoTask
    BY <1>1 DEF EndInv, Inv, JobPC
  <2>2. Threads = {} /\ Busy = {}
    BY <2>1 DEF Threads, Busy
  <2>3. ASSUME ~paused, NEW t \in pushed PROVE finished[t] = 1
    <3>1. t \in Tasks
      BY <1>1 DEF Inv, TypeOK
    <3>2. ~Queued(t) /\ ~Held(t) /\ ~InHand(t)
      BY <1>1, <2>1, <2>3 DEF EndInv, Queued, Held, InHand
    <3> QED
      BY <1>1, <3>1, <3>2 DEF Separate, OnePlace
  <2> QED
    BY <2>2, <2>3
<1>2. Inv /\ Separate /\ EndInv => DestroyedIsQuiet
  BY <1>1 DEF DestroyedIsQuiet
<1>3. Inv /\ EndInv /\ [Next]_vars => EndInv'
  BY NextEnd
<1>4. Init => EndInv
  BY InitEnd
<1> QED
  BY <1>2, <1>3, <1>4, SeparateHolds, PTL DEF Spec

-----------------------------------------------------------------------------
(* The futures. *)

PromiseInv ==
  \A t \in Tasks :
    /\ promise[t] \in {"value", "exception"} => finished[t] = 1
    /\ promise[t] = "pending" => finished[t] = 0 /\ t \in pushed /\ opc # "destroyed"
    /\ promise[t] = "broken" => finished[t] = 0 /\ opc = "destroyed"

LEMMA NextPromise ==
  Inv /\ Separate /\ EndInv /\ PromiseInv /\ [Next]_vars => PromiseInv'
<1> SUFFICES ASSUME Inv, Separate, EndInv, PromiseInv, [Next]_vars
             PROVE  PromiseInv'
  OBVIOUS
<1>0. /\ promise \in [Tasks -> PromiseState]
      /\ finished \in [Tasks -> Nat]
  BY DEF Inv, TypeOK
<1>1. CASE Push \/ LoopPush
  BY <1>1 DEF Push, LoopPush, BeginPush, PromiseInv
<1>2. CASE Submit
  <2>1. NewTask \in Tasks /\ NewTask \notin pushed
    BY <1>2, NewTaskIsNew DEF Submit, BeginPush, Inv, TypeOK
  <2>2. finished[NewTask] = 0
    BY <2>1 DEF Separate, OnePlace
  <2> QED
    BY <1>0, <1>2, <2>1, <2>2 DEF Submit, BeginPush, PromiseInv
<1>3. ASSUME NEW w \in Workers, FinishTask(w) PROVE PromiseInv'
  <2>1. job[w] \in Tasks /\ wpc[w] = "exec"
    BY <1>3 DEF Inv, TypeOK, PoolTypeOK, JobPC, FinishTask, TaskReturn
  <2>2. finished[job[w]] = 0 /\ opc # "destroyed"
    BY <2>1 DEF Separate, OnePlace, Held, EndInv
  <2>3. \A t \in Tasks : finished'[t] = IF t = job[w] THEN 1 ELSE finished[t]
    BY <1>0, <1>3, <2>1, <2>2 DEF FinishTask
  <2>4. promise[job[w]] \notin {"value", "exception", "broken"}
    BY <2>1, <2>2 DEF PromiseInv
  <2>5. \A t \in Tasks : /\ t # job[w] => promise'[t] = promise[t]
                         /\ promise'[job[w]] \in {"none", "value", "exception"}
    BY <1>0, <1>3, <2>1, <2>4 DEF FinishTask, Settle, PromiseState
  <2> QED
    BY <1>3, <2>1, <2>2, <2>3, <2>5 DEF FinishTask, PromiseInv
<1>4. CASE DestroyJoin
  <2>1. ASSUME NEW t \in Tasks, promise[t] = "pending" PROVE Queued(t)
    <3>1. OnePlace(t) /\ finished[t] = 0 /\ t \in pushed
      BY <2>1 DEF Separate, PromiseInv
    <3>2. ~InHand(t) /\ ~Held(t)
      BY <1>4 DEF DestroyJoin, CanJoin, Threads, InHand, Held
    <3> QED
      BY <3>1, <3>2 DEF OnePlace
  <2>2. \A t \in Tasks :
          promise'[t] = IF promise[t] = "pending" THEN "broken" ELSE promise[t]
    BY <1>4, <2>1 DEF DestroyJoin, Queued
  <2>3. UNCHANGED finished /\ opc' = "destroyed" /\ opc # "destroyed"
    BY <1>4 DEF DestroyJoin
  <2> QED
    BY <2>2, <2>3 DEF PromiseInv
<1>5. ASSUME UNCHANGED taskVars, opc' = "destroyed" <=> opc = "destroyed"
      PROVE  PromiseInv'
  BY <1>5 DEF taskVars, PromiseInv
<1>6. CASE Enqueue \/ LoopReturns \/ WaitPaused \/ ResetStop \/ DestroyStop
           \/ (\E threads \in ThreadSets : ResetCreate(threads))
           \/ (\E i, j \in Indices, n \in 0 .. Cardinality(Tasks) : CallLoop(i, j, n))
  BY <1>5, <1>6 DEF Enqueue, LoopReturns, WaitPaused, ResetStop, DestroyStop,
                    ResetCreate, CallLoop, EndInv
<1>7. CASE WaitAll \/ WaitRunning
  BY <1>5, <1>7 DEF WaitAll, WaitRunning, EndInv
<1>8. CASE (\E b \in BOOLEAN : SetPaused(b)) \/ CallWait \/ CallReset \/ CallDestroy
  BY <1>5, <1>8 DEF SetPaused, CallWait, CallReset, CallDestroy, ownerVars
<1>9. CASE OwnerReads \/ (\E w \in Workers : Work(w))
           \/ \E r \in Readers \ {Owner} : StatusReads(r) \/ StatusReturns(r)
  BY <1>5, <1>9 DEF OwnerReads, Work, StatusReads, StatusReturns, ownerVars
<1>10. CASE UNCHANGED vars
  BY <1>5, <1>10 DEF vars, ownerVars
<1> QED
  BY <1>1, <1>2, <1>3, <1>4, <1>6, <1>7, <1>8, <1>9, <1>10
  DEF Next, OwnerStep, OwnerCall

(* A future tells of the end of its task exactly when it has ended, by its *)
(* value or its exception, and those of tasks a paused pool never ran are  *)
(* broken when the pool goes: nobody waits for ever on a dead pool.        *)
THEOREM FuturesHold == Spec => []FuturesTell
<1>1. Init => EndInv /\ PromiseInv
  BY InitEnd DEF Init, PromiseInv
<1>2. Inv /\ Separate /\ EndInv /\ PromiseInv /\ [Next]_vars => EndInv' /\ PromiseInv'
  BY NextEnd, NextPromise
<1>3. Inv /\ PromiseInv => FuturesTell
  BY DEF FuturesTell, PromiseInv, Inv, TypeOK, PromiseState
<1> QED
  BY <1>1, <1>2, <1>3, SeparateHolds, PTL DEF Spec

-----------------------------------------------------------------------------
(* parallelize_loop *)

Unfinished == {i \in DOMAIN blocks : finished[blocks[i]] = 0}

InLoop == opc = "loop" \/ (opc = "push" /\ ret = "loop")

LoopInv ==
  /\ \A i \in DOMAIN blocks : blocks[i] \in pushed
  /\ \A i, j \in DOMAIN blocks : blocks[i] = blocks[j] => i = j
  /\ IsFiniteSet(Unfinished)
  /\ blocks_running = Cardinality(Unfinished)
  /\ InLoop => \E i, j \in Int, n \in Nat \ {0} : loop = Split(i, j, n)

LEMMA NextLoop ==
  Inv /\ Separate /\ EndInv /\ LoopInv /\ [Next]_vars => LoopInv'
<1> SUFFICES ASSUME Inv, Separate, EndInv, LoopInv, [Next]_vars PROVE LoopInv'
  OBVIOUS
<1>0. /\ blocks \in Seq(Tasks) /\ pushed \subseteq Tasks
      /\ finished \in [Tasks -> Nat]
      /\ DOMAIN blocks = 1 .. Len(blocks) /\ Len(blocks) \in Nat
      /\ \A i \in DOMAIN blocks : blocks[i] \in Tasks
  BY LenProperties DEF Inv, TypeOK
<1>1. CASE LoopPush
  <2>1. /\ NewTask \in Tasks /\ NewTask \notin pushed
        /\ blocks' = Append(blocks, NewTask)
        /\ blocks_running' = blocks_running + 1
        /\ pushed' = pushed \cup {NewTask}
        /\ UNCHANGED <<finished, loop>> /\ opc = "loop"
    BY <1>1, NewTaskIsNew DEF LoopPush, BeginPush, Inv, TypeOK
  <2>2. /\ DOMAIN blocks' = 1 .. Len(blocks) + 1
        /\ \A i \in DOMAIN blocks : blocks'[i] = blocks[i]
        /\ blocks'[Len(blocks) + 1] = NewTask
    BY <1>0, <2>1, AppendProperties, LenProperties
  <2>3. finished[NewTask] = 0
    BY <2>1 DEF Separate, OnePlace
  <2>4. Unfinished' = Unfinished \cup {Len(blocks) + 1}
    BY <1>0, <2>1, <2>2, <2>3 DEF Unfinished
  <2>5. Len(blocks) + 1 \notin Unfinished
    BY <1>0 DEF Unfinished
  <2>6. IsFiniteSet(Unfinished') /\ Cardinality(Unfinished') = Cardinality(Unfinished) + 1
    BY <2>4, <2>5, FS_AddElement DEF LoopInv
  <2> QED
    BY <1>0, <2>1, <2>2, <2>6 DEF LoopInv, InLoop
<1>2. CASE LoopReturns
  <2>1. blocks' = <<>> /\ blocks_running' = 0 /\ opc' = "idle"
    BY <1>2 DEF LoopReturns
  <2>2. Unfinished' = {}
    BY <2>1 DEF Unfinished
  <2> QED
    BY <2>1, <2>2, FS_EmptySet DEF LoopInv, InLoop
<1>3. ASSUME NEW w \in Workers, FinishTask(w) PROVE LoopInv'
  <2>1. /\ job[w] \in Tasks /\ wpc[w] = "exec"
        /\ UNCHANGED <<blocks, loop, pushed, opc, ret>>
    BY <1>3 DEF Inv, TypeOK, PoolTypeOK, JobPC, FinishTask, TaskReturn
  <2>2. finished[job[w]] = 0
    BY <2>1 DEF Separate, OnePlace, Held
  <2>3. \A t \in Tasks : finished'[t] = IF t = job[w] THEN 1 ELSE finished[t]
    BY <1>0, <1>3, <2>1, <2>2 DEF FinishTask
  <2>4. CASE \E i \in DOMAIN blocks : blocks[i] = job[w]
    <3>1. PICK k \in DOMAIN blocks : blocks[k] = job[w]
      BY <2>4
    <3>2. k \in Unfinished
      BY <2>2, <3>1 DEF Unfinished
    <3>3. Unfinished' = Unfinished \ {k}
      BY <1>0, <2>1, <2>3, <3>1 DEF Unfinished, LoopInv
    <3>4. IsFiniteSet(Unfinished') /\ Cardinality(Unfinished') = Cardinality(Unfinished) - 1
      BY <3>2, <3>3, FS_RemoveElement DEF LoopInv
    <3>5. blocks_running' = blocks_running - 1
      BY <1>3, <2>4 DEF FinishTask
    <3> QED
      BY <2>1, <3>4, <3>5 DEF LoopInv, InLoop
  <2>5. CASE ~\E i \in DOMAIN blocks : blocks[i] = job[w]
    <3>1. Unfinished' = Unfinished
      BY <1>0, <2>1, <2>3, <2>5 DEF Unfinished
    <3>2. blocks_running' = blocks_running
      BY <1>3, <2>5 DEF FinishTask
    <3> QED
      BY <2>1, <3>1, <3>2 DEF LoopInv, InLoop
  <2> QED
    BY <2>4, <2>5
<1>4. ASSUME UNCHANGED <<blocks, blocks_running, finished>>,
             pushed \subseteq pushed',
             InLoop' => \E i, j \in Int, n \in Nat \ {0} : loop' = Split(i, j, n)
      PROVE  LoopInv'
  <2>1. Unfinished' = Unfinished
    BY <1>4 DEF Unfinished
  <2> QED
    BY <1>4, <2>1 DEF LoopInv
<1>5. ASSUME NEW i \in Indices, NEW j \in Indices,
             NEW n \in 0 .. Cardinality(Tasks), CallLoop(i, j, n)
      PROVE  LoopInv'
  <2> DEFINE m == IF n = 0 THEN Cardinality(Threads) ELSE n
  <2>1. m \in Nat \ {0}
    BY <1>5, ThreadCount, FS_CardinalityType DEF CallLoop
  <2>2. loop' = Split(i, j, m) /\ i \in Int /\ j \in Int
    BY <1>5, OwnerAssumption DEF CallLoop
  <2>3. \E a, b \in Int, c \in Nat \ {0} : loop' = Split(a, b, c)
    BY <2>1, <2>2
  <2> QED
    BY <1>4, <1>5, <2>3 DEF CallLoop, taskVars
<1>6. ASSUME UNCHANGED <<loopVars, finished>>, pushed \subseteq pushed', InLoop' => InLoop
      PROVE  LoopInv'
  BY <1>4, <1>6 DEF loopVars, LoopInv
<1>7. CASE Push \/ Submit \/ Enqueue
  BY <1>6, <1>7 DEF Push, Submit, BeginPush, Enqueue, InLoop, taskVars
<1>8. CASE WaitAll \/ WaitPaused \/ WaitRunning \/ ResetStop \/ DestroyStop
           \/ DestroyJoin \/ \E threads \in ThreadSets : ResetCreate(threads)
  BY <1>6, <1>8 DEF WaitAll, WaitPaused, WaitRunning, ResetStop, DestroyStop,
                    DestroyJoin, ResetCreate, EndInv, InLoop, taskVars
<1>9. CASE (\E b \in BOOLEAN : SetPaused(b)) \/ CallWait \/ CallReset \/ CallDestroy
  BY <1>6, <1>9 DEF SetPaused, CallWait, CallReset, CallDestroy, ownerVars,
                    taskVars, InLoop
<1>10. CASE OwnerReads \/ (\E w \in Workers : Work(w))
            \/ \E r \in Readers \ {Owner} : StatusReads(r) \/ StatusReturns(r)
  BY <1>6, <1>10 DEF OwnerReads, Work, StatusReads, StatusReturns, ownerVars,
                     taskVars, InLoop
<1>11. CASE UNCHANGED vars
  BY <1>6, <1>11 DEF vars, ownerVars, taskVars, InLoop
<1> QED
  BY <1>1, <1>2, <1>3, <1>5, <1>7, <1>8, <1>9, <1>10, <1>11
  DEF Next, OwnerStep, OwnerCall

(* When all blocks of a split loop have ended, each index was run in one.  *)
LEMMA AllBodiesRun ==
  ASSUME Inv, Separate, LoopInv, opc = "loop", Len(blocks) = loop.num,
         blocks_running = 0, NEW i \in loop.first .. loop.last
  PROVE  Cardinality({k \in DOMAIN blocks :
           finished[blocks[k]] = 1 /\ i \in Block(loop, k - 1)}) = 1
<1> DEFINE S == {k \in DOMAIN blocks :
                   finished[blocks[k]] = 1 /\ i \in Block(loop, k - 1)}
<1>1. PICK a \in Int, b \in Int, n \in Nat \ {0} : loop = Split(a, b, n)
  BY DEF LoopInv, InLoop
<1> DEFINE Partition(L) ==
             \A j \in L.first .. L.last : \E t \in 0 .. L.num - 1 :
               \A s \in 0 .. L.num - 1 : j \in Block(L, s) <=> s = t
<1>0. Partition(loop)
  <2>1. \A L : L = Split(a, b, n) => Partition(L)
    BY ONLY BlocksPartition
  <2> HIDE DEF Partition
  <2> QED
    BY <1>1, <2>1
<1>2. PICK t \in 0 .. loop.num - 1 :
        \A s \in 0 .. loop.num - 1 : i \in Block(loop, s) <=> s = t
  BY <1>0
<1>3. DOMAIN blocks = 1 .. loop.num /\ loop.num \in Nat
  BY LenProperties DEF Inv, TypeOK, LoopType
<1>4. Unfinished = {}
  BY FS_EmptySet DEF LoopInv
<1>5. \A k \in DOMAIN blocks : finished[blocks[k]] = 1
  BY <1>4 DEF Unfinished, LoopInv, Separate, OnePlace, Inv, TypeOK
<1>6. \A k \in DOMAIN blocks : i \in Block(loop, k - 1) <=> k = t + 1
  BY <1>2, <1>3
<1>7. S = {t + 1}
  BY <1>2, <1>3, <1>5, <1>6
<1> QED
  BY <1>7, FS_Singleton

(* parallelize_loop returns only when every index of its loop was run, and *)
(* by one block: the blocks partition the loop, and the count of running   *)
(* ones on its stack reaches zero when the last has ended.                 *)
THEOREM LoopsAreDone == Spec => LoopBodiesDone
<1>1. Init => EndInv /\ LoopInv
  <2>1. ASSUME Init PROVE LoopInv
    <3>1. Unfinished = {} /\ DOMAIN blocks = {} /\ ~InLoop
      BY <2>1 DEF Init, Unfinished, InLoop
    <3> QED
      BY <2>1, <3>1, FS_EmptySet DEF Init, LoopInv
  <2> QED
    BY <2>1, InitEnd
<1>2. Inv /\ Separate /\ EndInv /\ LoopInv /\ [Next]_vars => EndInv' /\ LoopInv'
  BY NextEnd, NextLoop
<1>3. ASSUME Inv, Separate, EndInv, LoopInv, [Next]_vars, opc = "loop", opc' = "idle"
      PROVE  \A i \in loop.first .. loop.last :
               Cardinality({k \in DOMAIN blocks :
                 finished[blocks[k]] = 1 /\ i \in Block(loop, k - 1)}) = 1
  <2>1. LoopReturns
    BY <1>3 DEF Next, OwnerStep, OwnerCall, BeginPush, Push, Submit, CallLoop,
                LoopPush, Enqueue, SetPaused, CallWait, CallReset, CallDestroy,
                WaitAll, WaitPaused, OwnerReads, WaitRunning, ResetStop,
                ResetCreate, DestroyStop, DestroyJoin, Work, FinishTask,
                StatusReads, StatusReturns, vars, ownerVars
  <2> QED
    BY <1>3, <2>1, AllBodiesRun DEF LoopReturns
<1>4. Inv /\ Separate /\ EndInv /\ LoopInv /\ [Next]_vars
        => [opc = "loop" /\ opc' = "idle"
              => \A i \in loop.first .. loop.last :
                   Cardinality({k \in DOMAIN blocks :
                     finished[blocks[k]] = 1 /\ i \in Block(loop, k - 1)}) = 1]_vars
  BY <1>3
<1> QED
  BY <1>1, <1>2, <1>4, SeparateHolds, PTL DEF Spec, LoopBodiesDone
-----------------------------------------------------------------------------
(* What get_tasks_running() has of the counter while the owner waits in    *)
(* it: tasks_total never exceeds the tasks pushed, and a value of it that  *)
(* the owner has loaded only becomes too large, since nobody else pushes.  *)

LoadInv ==
  /\ tasks_total <= Cardinality(pushed)
  /\ reads[Owner].total # Unread =>
       /\ opc = "wait_running"
       /\ tasks_total <= reads[Owner].total
       /\ reads[Owner].total <= Cardinality(Tasks)

(* The sets of tasks are finite, so that their sizes are numbers.          *)
LEMMA PushedFinite ==
  ASSUME Inv
  PROVE  /\ IsFiniteSet(pushed) /\ IsFiniteSet(Tasks)
         /\ Cardinality(pushed) \in Nat /\ Cardinality(Tasks) \in Nat
         /\ Cardinality(pushed) <= Cardinality(Tasks)
BY OwnerAssumption, FS_Subset, FS_CardinalityType DEF Inv, TypeOK

(* The first state: nothing pushed, nothing loaded.                        *)
LEMMA InitLoad == Init => LoadInv
BY OwnerAssumption, FS_EmptySet DEF Init, PoolInit, LoadInv, NotReading, Unread

(* Only push_task raises the counter, and the owner is then not waiting.   *)
LEMMA NextLoad == Inv /\ LoadInv /\ [Next]_vars => LoadInv'
<1> SUFFICES ASSUME Inv, LoadInv, [Next]_vars PROVE LoadInv'
  OBVIOUS
<1>0. /\ tasks_total \in Nat /\ DOMAIN reads = Readers /\ Owner \in Readers
      /\ reads[Owner].total \in Int
      /\ Cardinality(pushed) \in Nat /\ Cardinality(Tasks) \in Nat
      /\ Cardinality(pushed) <= Cardinality(Tasks)
  BY OwnerAssumption, PushedFinite DEF Inv, TypeOK, PoolTypeOK
<1>1. CASE Push \/ Submit \/ LoopPush
  <2>1. BeginPush /\ opc \in {"idle", "loop"}
    BY <1>1 DEF Push, Submit, LoopPush
  <2>2. Cardinality(pushed') = Cardinality(pushed) + 1
    <3>1. NewTask \notin pushed
      BY <2>1, NewTaskIsNew DEF BeginPush, Inv, TypeOK
    <3> QED
      BY <2>1, <3>1, PushedFinite, FS_AddElement DEF BeginPush
  <2> QED
    BY <1>0, <2>1, <2>2 DEF BeginPush, PushCount, LoadInv
<1>2. CASE Enqueue
  BY <1>2 DEF Enqueue, PushEnqueue, LoadInv, taskVars
<1>3. CASE \/ WaitAll \/ WaitPaused \/ LoopReturns
           \/ CallWait \/ CallReset \/ CallDestroy
           \/ ResetStop \/ (\E threads \in ThreadSets : ResetCreate(threads))
           \/ DestroyStop \/ DestroyJoin
           \/ (\E b \in BOOLEAN : SetPaused(b))
           \/ (\E i, j \in Indices, n \in 0 .. Cardinality(Tasks) : CallLoop(i, j, n))
  BY <1>3 DEF WaitAll, WaitPaused, LoopReturns, CallWait, CallReset, CallDestroy,
              ResetStop, ResetCreate, DestroyStop, DestroyJoin, SetPaused,
              CallLoop, LoadInv, poolVars, ownerVars, taskVars
<1>4. CASE OwnerReads
  <2>1. CASE ReadTotal(Owner)
    <3>1. reads'[Owner].total = tasks_total /\ tasks_total' = tasks_total
      BY <1>0, <2>1 DEF ReadTotal
    <3> QED
      BY <1>0, <1>4, <3>1 DEF OwnerReads, LoadInv, ownerVars, taskVars
  <2>2. CASE ReadQueued(Owner)
    <3>1. /\ reads'[Owner].total = reads[Owner].total
          /\ tasks_total' = tasks_total
      BY <1>0, <2>2 DEF ReadQueued
    <3> QED
      BY <1>4, <3>1 DEF OwnerReads, LoadInv, ownerVars, taskVars
  <2> QED
    BY <1>4, <2>1, <2>2 DEF OwnerReads
<1>5. CASE WaitRunning
  BY <1>0, <1>5 DEF WaitRunning, LoadInv, NotReading, taskVars
<1>6. ASSUME NEW w \in Workers, Work(w) PROVE LoadInv'
  <2>1. tasks_total' <= tasks_total /\ tasks_total' \in Int
    BY <1>0, <1>6 DEF Work, WorkerStep, WorkerLoop, WorkerCheck, PopTask,
                      PopNothing, TaskCount
  <2>2. reads' = reads /\ opc' = opc /\ pushed' = pushed
    BY <1>6 DEF Work, WorkerStep, WorkerLoop, WorkerCheck, PopTask, PopNothing,
                TaskCount, ownerVars, taskVars
  <2> QED
    BY <1>0, <2>1, <2>2 DEF LoadInv
<1>7. ASSUME NEW w \in Workers, FinishTask(w) PROVE LoadInv'
  BY <1>7 DEF FinishTask, TaskReturn, LoadInv
<1>8. ASSUME NEW r \in Readers \ {Owner}, StatusReads(r) \/ StatusReturns(r)
      PROVE  LoadInv'
  <2>1. reads'[Owner] = reads[Owner]
    BY <1>0, <1>8 DEF StatusReads, StatusReturns, ReadTotal, ReadQueued
  <2> QED
    BY <1>8, <2>1 DEF StatusReads, StatusReturns, ReadTotal, ReadQueued, LoadInv,
                      ownerVars, taskVars
<1>9. CASE UNCHANGED vars
  BY <1>9 DEF vars, poolVars, ownerVars, taskVars, LoadInv
<1> QED
  BY <1>1, <1>2, <1>3, <1>4, <1>5, <1>6, <1>7, <1>8, <1>9
  DEF Next, OwnerStep, OwnerCall

(* The call that loads tasks_total first reports at least what the workers *)
(* hold, the unsigned subtraction included.                                *)
LEMMA ReportsEnough ==
  ASSUME Inv, LoadInv, [Next]_vars, ~HasRead(Owner), HasRead(Owner)',
         reads'[Owner].totalFirst
  PROVE  ReportedRunning(Owner)' >= Cardinality(Busy)
<1>0. /\ tasks_total \in Nat /\ Len(tasks) \in Nat /\ Cardinality(Busy) \in Nat
      /\ DOMAIN reads = Readers /\ Owner \in Readers
      /\ reads[Owner].total \in Int
      /\ Cardinality(Tasks) \in Nat /\ Wrap \in Nat /\ Wrap > Cardinality(Tasks)
  BY OwnerAssumption, PoolAssumption, PushedFinite, CountsNat
  DEF Inv, TypeOK, PoolTypeOK
<1>1. OwnerReads
  <2>1. reads'[Owner] # reads[Owner]
    BY DEF HasRead
  <2>2. reads'[Owner] # NotReading
    BY DEF HasRead, NotReading
  <2>3. ASSUME NEW r \in Readers \ {Owner}, StatusReads(r) \/ StatusReturns(r)
        PROVE  reads'[Owner] = reads[Owner]
    BY <1>0, <2>3 DEF StatusReads, StatusReturns, ReadTotal, ReadQueued
  <2>4. ASSUME WaitRunning PROVE reads'[Owner] = NotReading
    BY <1>0, <2>4 DEF WaitRunning
  <2>5. ASSUME NEW w \in Workers, Work(w) \/ FinishTask(w) PROVE reads' = reads
    BY <2>5 DEF Work, WorkerStep, WorkerLoop, WorkerCheck, PopTask, PopNothing,
                TaskCount, FinishTask, TaskReturn
  <2>6. ASSUME OwnerCall PROVE reads' = reads
    BY <2>6 DEF OwnerCall, Push, Submit, CallLoop, SetPaused, CallWait, CallReset,
                CallDestroy, BeginPush, PushCount, poolVars
  <2>7. ASSUME OwnerStep, ~OwnerReads, ~WaitRunning PROVE reads' = reads
    BY <2>7 DEF OwnerStep, Enqueue, PushEnqueue, LoopPush, BeginPush, PushCount,
                LoopReturns, WaitAll, WaitPaused, ResetStop, ResetCreate,
                DestroyStop, DestroyJoin, poolVars
  <2> QED
    BY <2>1, <2>2, <2>3, <2>4, <2>5, <2>6, <2>7 DEF Next, vars, poolVars
<1>2. ReadQueued(Owner)
  <2>1. ASSUME ReadTotal(Owner) PROVE FALSE
    BY <1>0, <2>1 DEF ReadTotal, HasRead
  <2> QED
    BY <1>1, <2>1 DEF OwnerReads
<1>3. /\ reads'[Owner].total = reads[Owner].total
      /\ reads'[Owner].queued = Len(tasks)
      /\ reads[Owner].total # Unread
  BY <1>0, <1>2 DEF ReadQueued, HasRead
<1>4. tasks_total = Len(tasks) + Cardinality(Busy)
  BY <1>0, <1>1 DEF OwnerReads, Inv, TotalAccounts, Pushing
<1> DEFINE d == reads[Owner].total - Len(tasks)
<1>5. d \in Nat /\ d < Wrap /\ d >= Cardinality(Busy)
  BY <1>0, <1>3, <1>4 DEF LoadInv
<1>6. ReportedRunning(Owner)' = d % Wrap
  BY <1>3 DEF ReportedRunning
<1> HIDE DEF d
<1>7. d % Wrap = d
  BY <1>0, <1>5
<1> QED
  BY <1>5, <1>6, <1>7

(* get_tasks_running() of the owner is never below what the workers hold   *)
(* if it loads the counter first: the difference of the two loads, taken   *)
(* modulo 2^64, does not wrap.                                             *)
THEOREM ReportNeverTooSmall == Spec => RunningNeverUnderstated
<1>1. Inv /\ LoadInv /\ [Next]_vars
        => [~HasRead(Owner) /\ HasRead(Owner)' /\ reads'[Owner].totalFirst
              => ReportedRunning(Owner)' >= Cardinality(Busy)]_vars
  BY ReportsEnough
<1> QED
  BY <1>1, InitInv, NextInv, InitLoad, NextLoad, PTL
  DEF Spec, RunningNeverUnderstated
=============================================================================
