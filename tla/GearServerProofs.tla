--------------------------- MODULE GearServerProofs ---------------------------
(***************************************************************************)
(* Proofs about GearServer for any number of threads, clients, handlers    *)
(* that do not end and failing system calls: the types, that an accepted   *)
(* connection has one handler, and that the join leaves nothing behind.    *)
(* The steps of the client pool are those of ThreadPoolProofs.             *)
(***************************************************************************)
EXTENDS GearServer, ThreadPoolProofs

Pushing == IF spc = "push_enqueue" THEN 1 ELSE 0

(* The destructor found its pool drained, and nothing is pushed after it:  *)
(* the server thread is the only one that pushes.                          *)
Idle == tasks = <<>> /\ \A w \in Workers : job[w] = NoTask

Ended ==
  /\ spc \in {"destroy_stop", "destroy_join", "done"} => Idle
  /\ spc = "done" => \A w \in Workers : wpc[w] = "none"
  /\ mpc = "joined" => spc = "done"

(* TypeOK is not inductive: the counter needs its balance, and pushing a   *)
(* socket needs that there is one.                                         *)
Inv ==
  /\ TypeOK
  /\ JobPC
  /\ tasks_total = Pushing + Counted
  /\ socket # NoTask <=> spc \in {"push_count", "push_enqueue"}
  /\ Ended

(* What the counter says is a number, and the pool's invariant holds.      *)
LEMMA InvPool ==
  ASSUME Inv
  PROVE  /\ PoolInv(Clients)
         /\ Len(tasks) \in Nat /\ Cardinality(Busy) \in Nat
         /\ Counted \in Nat /\ Pushing \in {0, 1}
<1>1. Len(tasks) \in Nat /\ Cardinality(Busy) \in Nat
  BY BusyFinite, LenProperties DEF Inv, TypeOK, PoolTypeOK, Busy
<1>2. Pushing \in {0, 1} /\ Counted \in Nat
  BY <1>1 DEF Pushing, Counted
<1> QED
  BY <1>1, <1>2 DEF Inv, TypeOK, PoolInv

LEMMA InitInv == Init => Inv
<1> SUFFICES ASSUME Init PROVE Inv
  OBVIOUS
<1>1. PoolInv(Clients) /\ tasks_total = 0 /\ Counted = 0
  BY PoolInitInv DEF Init
<1>2. NetTypeOK
  BY EmptySeq DEF Init, NetInit, NetTypeOK
<1>3. faults \in 0 .. MaxFaults
  BY GearServerAssumption DEF Init
<1>4. TypeOK
  BY <1>1, <1>2, <1>3 DEF Init, TypeOK, PoolInv, ServerPC
<1> QED
  BY <1>1, <1>4 DEF Init, Inv, PoolInv, Pushing, Ended

(* A step of the server thread or of main() that does not touch the pool   *)
(* and pushes nothing.                                                     *)
LEMMA QuietInv ==
  ASSUME Inv, TypeOK', UNCHANGED poolVars,
         spc # "push_enqueue", spc' # "push_enqueue",
         socket' # NoTask <=> spc' \in {"push_count", "push_enqueue"},
         Ended'
  PROVE  Inv'
BY DEF Inv, poolVars, JobPC, Pushing, Counted, Busy

LEMMA FaultType ==
  ASSUME Inv, UNCHANGED faults \/ Fault
  PROVE  faults' \in 0 .. MaxFaults
BY GearServerAssumption DEF Inv, TypeOK, Fault

(* A counter at zero means an empty queue and idle workers. *)
LEMMA ZeroIsIdle ==
  ASSUME Inv, tasks_total = 0
  PROVE  Idle
<1>1. Len(tasks) = 0 /\ Cardinality(Busy) = 0
  BY InvPool DEF Inv, Counted
<1>2. tasks = <<>>
  BY <1>1, EmptySeq DEF Inv, TypeOK, PoolTypeOK
<1> QED
  BY <1>1, <1>2, NoneBusy DEF Idle

-----------------------------------------------------------------------------
(* The steps of the server thread *)
LEMMA ServerInv ==
  ASSUME Inv, ServerStep
  PROVE  Inv'
<1> USE GearServerAssumption DEF Inv
<1>0. /\ PoolInv(Clients)
      /\ Counted \in Nat /\ Pushing \in {0, 1}
  BY InvPool
<1>1. CASE ServerWait \/ ServerCheck
  <2>1. TypeOK'
    BY <1>1 DEF ServerWait, ServerCheck, Goto, TypeOK, PoolTypeOK, NetTypeOK,
                ServerPC, poolVars, netVars
  <2>2. Ended'
    BY <1>1 DEF ServerWait, ServerCheck, Goto, Ended, TypeOK, poolVars
  <2> QED
    BY <1>1, <2>1, <2>2, QuietInv DEF ServerWait, ServerCheck, Goto
<1>2. CASE ServerAccepts
  <2>1. /\ Head(backlog) \in Clients
        /\ backlog' \in Seq(Clients)
    BY <1>2, HeadTailProperties DEF ServerAccepts, AcceptReturns, TypeOK, NetTypeOK
  <2>2. TypeOK'
    BY <1>2, <2>1 DEF ServerAccepts, AcceptReturns, Goto, TypeOK, PoolTypeOK,
                      NetTypeOK, ServerPC, poolVars
  <2>3. Ended'
    BY <1>2 DEF ServerAccepts, Goto, Ended, TypeOK
  <2> QED
    BY <1>2, <2>1, <2>2, <2>3, QuietInv DEF ServerAccepts, Goto
<1>3. CASE ServerAcceptsNothing \/ ServerAcceptFails
  <2>0. faults' \in 0 .. MaxFaults
    BY <1>3, FaultType DEF ServerAcceptsNothing, ServerAcceptFails
  <2>1. TypeOK'
    BY <1>3, <2>0 DEF ServerAcceptsNothing, ServerAcceptFails, Goto, TypeOK,
                      PoolTypeOK, NetTypeOK, ServerPC, poolVars, netVars
  <2>2. Ended'
    BY <1>3 DEF ServerAcceptsNothing, ServerAcceptFails, Goto, Ended, TypeOK
  <2> QED
    BY <1>3, <2>1, <2>2, QuietInv DEF ServerAcceptsNothing, ServerAcceptFails, Goto
<1>4. CASE ServerReinit
  <2>1. NetTypeOK'
    BY <1>4, EmptySeq DEF ServerReinit, Setup, TypeOK, NetTypeOK
  <2>0. faults' \in 0 .. MaxFaults
    BY <1>4, FaultType DEF ServerReinit
  <2>2. TypeOK'
    BY <1>4, <2>0, <2>1 DEF ServerReinit, Goto, TypeOK, PoolTypeOK, ServerPC, poolVars
  <2>3. Ended'
    BY <1>4 DEF ServerReinit, Goto, Ended, TypeOK
  <2> QED
    BY <1>4, <2>2, <2>3, QuietInv DEF ServerReinit, Goto
<1>5. CASE ServerPushCount
  <2>1. PoolInv(Clients)' /\ tasks_total' = tasks_total + 1 /\ Counted' = Counted
    BY <1>0, <1>5, PushCountInv DEF ServerPushCount
  <2>2. TypeOK'
    BY <1>5, <2>1 DEF ServerPushCount, Goto, TypeOK, PoolInv, NetTypeOK,
                      ServerPC, netVars
  <2>3. tasks_total' = Pushing' + Counted'
    BY <1>0, <1>5, <2>1, <2>2 DEF ServerPushCount, Goto, Pushing, TypeOK
  <2>4. Ended'
    BY <1>5, <2>2 DEF ServerPushCount, Goto, Ended, TypeOK
  <2> QED
    BY <1>5, <2>1, <2>2, <2>3, <2>4 DEF ServerPushCount, Goto, PoolInv, TypeOK
<1>6. CASE ServerPushEnqueue
  <2>1. socket \in Clients /\ Pushing = 1
    BY <1>6 DEF ServerPushEnqueue, Goto, TypeOK, Pushing
  <2>2. /\ PoolInv(Clients)'
        /\ tasks_total' = tasks_total
        /\ Counted' = Counted + 1
    BY <1>0, <1>6, <2>1, PushEnqueueInv DEF ServerPushEnqueue
  <2>3. TypeOK'
    BY <1>6, <2>2 DEF ServerPushEnqueue, Goto, TypeOK, PoolInv, NetTypeOK,
                      ServerPC, netVars
  <2>4. tasks_total' = Pushing' + Counted'
    BY <1>0, <1>6, <2>1, <2>2, <2>3 DEF ServerPushEnqueue, Goto, Pushing, TypeOK
  <2>5. Ended'
    BY <1>6, <2>3 DEF ServerPushEnqueue, Goto, Ended, TypeOK
  <2> QED
    BY <1>6, <2>2, <2>3, <2>4, <2>5 DEF ServerPushEnqueue, Goto, PoolInv, TypeOK
<1>7. CASE ServerDestroyWait
  <2>1. TypeOK'
    BY <1>7 DEF ServerDestroyWait, Goto, TypeOK, PoolTypeOK, NetTypeOK, ServerPC,
                poolVars, netVars
  <2>2. Idle
    BY <1>7, ZeroIsIdle DEF ServerDestroyWait
  <2>3. Ended'
    BY <1>7, <2>2 DEF ServerDestroyWait, Goto, Ended, Idle, TypeOK, poolVars
  <2> QED
    BY <1>7, <2>1, <2>3, QuietInv DEF ServerDestroyWait, Goto
<1>8. CASE ServerDestroyStop
  <2>1. TypeOK'
    BY <1>8 DEF ServerDestroyStop, Goto, TypeOK, PoolTypeOK, NetTypeOK, ServerPC,
                netVars
  <2>2. Ended' /\ spc = "destroy_stop" /\ spc' = "destroy_join"
    BY <1>8 DEF ServerDestroyStop, Goto, Ended, Idle, TypeOK
  <2> QED
    BY <1>8, <2>1, <2>2 DEF ServerDestroyStop, JobPC, Pushing, Counted, Busy
<1>9. CASE ServerDestroyJoin
  <2>1. wpc' \in [Workers -> {"none"}]
    BY <1>9 DEF ServerDestroyJoin
  <2>2. TypeOK'
    BY <1>9, <2>1 DEF ServerDestroyJoin, Goto, TypeOK, PoolTypeOK, NetTypeOK,
                      ServerPC, WorkerPC, netVars
  <2>3. Ended' /\ JobPC' /\ spc = "destroy_join" /\ spc' = "done"
    BY <1>9, <2>1 DEF ServerDestroyJoin, Goto, Ended, Idle, JobPC, TypeOK
  <2> QED
    BY <1>9, <2>2, <2>3 DEF ServerDestroyJoin, Pushing, Counted, Busy
<1> QED
  BY <1>1, <1>2, <1>3, <1>4, <1>5, <1>6, <1>7, <1>8, <1>9 DEF ServerStep

(* The steps of the pool's threads *)
LEMMA WorkInv ==
  ASSUME Inv, NEW w \in Workers, Work(w) \/ HandlerEnds(w)
  PROVE  Inv'
<1> USE GearServerAssumption DEF Inv
<1>0. /\ PoolInv(Clients)
      /\ Counted \in Nat /\ Pushing \in {0, 1}
      /\ DOMAIN wpc = Workers /\ DOMAIN job = Workers
  BY InvPool DEF TypeOK, PoolTypeOK
<1>1. CASE Work(w)
  <2>1. PoolInv(Clients)' /\ tasks_total' - Counted' = tasks_total - Counted
    BY <1>0, <1>1, WorkerStepInv DEF Work
  <2>2. tasks' \in Seq(Clients) /\ tasks_total' \in Nat
    BY <2>1 DEF PoolInv, PoolTypeOK
  <2>3. Counted' \in Int
    <3>1. Len(tasks') \in Nat /\ Cardinality(Busy') \in Nat
      BY <2>2, BusyFinite, LenProperties DEF Busy
    <3> QED
      BY <3>1 DEF Counted
  <2>4. Pushing' = Pushing
    BY <1>1 DEF Work, ctlVars, Pushing
  <2>5. tasks_total' = Pushing' + Counted'
    <3>0. tasks_total - Counted = Pushing
      BY <1>0
    <3>1. tasks_total' - Counted' = Pushing'
      BY <2>1, <2>4, <3>0
    <3>2. \A a \in Int, b \in Int, c \in Int : a - b = c => a = c + b
      OBVIOUS
    <3>3. tasks_total' \in Int /\ Counted' \in Int /\ Pushing' \in Int
      BY <1>0, <2>2, <2>3, <2>4
    <3> QED
      BY <3>1, <3>2, <3>3
  <2>6. TypeOK'
    BY <1>1, <2>1 DEF Work, TypeOK, PoolInv, NetTypeOK, netVars, ctlVars
  <2>7. Ended'
    <3>1. ASSUME Idle PROVE Idle'
      BY <1>0, <1>1, <3>1 DEF Idle, Work, WorkerStep, WorkerLoop, WorkerCheck,
                              PopTask, PopNothing, TaskCount, JobPC
    <3>2. ASSUME \A v \in Workers : wpc[v] = "none" PROVE FALSE
      BY <1>1, <3>2 DEF Work, WorkerStep, WorkerLoop, WorkerCheck, PopTask,
                        PopNothing, TaskCount
    <3> QED
      BY <1>1, <3>1, <3>2 DEF Ended, Work, ctlVars
  <2> QED
    BY <1>1, <2>1, <2>5, <2>6, <2>7 DEF Work, ctlVars, PoolInv
<1>2. CASE HandlerEnds(w)
  <2>1. /\ PoolInv(Clients)'
        /\ tasks_total' = tasks_total
        /\ Counted' = Counted
    BY <1>0, <1>2, TaskReturnInv DEF HandlerEnds
  <2>2. conn' \in [Clients -> {"new", "waiting", "reset", "accepted", "closed"}]
    BY <1>2 DEF HandlerEnds, TypeOK, NetTypeOK
  <2>3. TypeOK'
    BY <1>2, <2>1, <2>2 DEF HandlerEnds, TypeOK, PoolInv, NetTypeOK, ctlVars
  <2>4. job[w] # NoTask
    BY <1>2 DEF HandlerEnds, TaskReturn, JobPC
  <2>5. Ended'
    BY <1>2, <2>4 DEF HandlerEnds, TaskReturn, Ended, Idle, ctlVars
  <2> QED
    BY <1>2, <2>1, <2>3, <2>5 DEF HandlerEnds, ctlVars, PoolInv, Pushing
<1> QED
  BY <1>1, <1>2

LEMMA NextInv == Inv /\ [Next]_vars => Inv'
<1> SUFFICES ASSUME Inv, [Next]_vars PROVE Inv'
  OBVIOUS
<1> USE DEF Inv
<1>1. CASE ServerStep
  BY <1>1, ServerInv
<1>2. ASSUME NEW w \in Workers, Work(w) \/ HandlerEnds(w) PROVE Inv'
  BY <1>2, WorkInv
<1>3. CASE MainStops \/ MainInterrupts \/ MainJoins
  <2>1. TypeOK'
    BY <1>3 DEF MainStops, MainInterrupts, MainJoins, TypeOK, PoolTypeOK,
                NetTypeOK, poolVars, netVars
  <2>2. Ended'
    BY <1>3 DEF MainStops, MainInterrupts, MainJoins, Ended, Idle, poolVars
  <2> QED
    BY <1>3, <2>1, <2>2 DEF MainStops, MainInterrupts, MainJoins, poolVars,
                            JobPC, Pushing, Counted, Busy
<1>4. ASSUME NEW c \in Clients, ClientConnects(c) PROVE Inv'
  <2>1. backlog' \in Seq(Clients)
    BY <1>4, AppendProperties DEF ClientConnects, Connect, TypeOK, NetTypeOK
  <2>2. TypeOK'
    BY <1>4, <2>1 DEF ClientConnects, Connect, TypeOK, PoolTypeOK, NetTypeOK,
                      poolVars, ctlVars
  <2> QED
    BY <1>4, <2>2 DEF ClientConnects, poolVars, ctlVars, Ended, Idle, JobPC,
                      Pushing, Counted, Busy
<1>5. CASE UNCHANGED vars
  BY <1>5 DEF vars, poolVars, netVars, ctlVars, TypeOK, PoolTypeOK, NetTypeOK,
              Ended, Idle, JobPC, Pushing, Counted, Busy
<1> QED
  BY <1>1, <1>2, <1>3, <1>4, <1>5 DEF Next

(* The strengthened invariant: types, the pool's counter, where the socket *)
(* is held and what the destructor leaves.                                 *)
THEOREM Invariance == Spec => []Inv
<1> QED
  BY InitInv, NextInv, PTL DEF Spec

(* Every variable keeps its type, whatever fails and whoever stops.        *)
THEOREM TypeCorrect == Spec => []TypeOK
<1>1. Inv => TypeOK
  BY DEF Inv
<1> QED
  BY <1>1, Invariance, PTL

-----------------------------------------------------------------------------
(* Where an accepted connection is, with sets instead of the counts of     *)
(* OneHandler.  That accept() returns a new connection needs that the      *)
(* backlog holds each connection once and only those that wait.            *)

InHand(c) == socket = c
Queued(c) == \E i \in DOMAIN tasks : tasks[i] = c
Held(c) == \E w \in Workers : job[w] = c /\ wpc[w] = "exec"

QueueDistinct == \A i, j \in DOMAIN tasks : tasks[i] = tasks[j] => i = j

WorkersDistinct ==
  \A v, w \in Workers :
    wpc[v] = "exec" /\ wpc[w] = "exec" /\ job[v] = job[w] => v = w

OnePlace(c) ==
  /\ InHand(c) => ~Queued(c) /\ ~Held(c)
  /\ Queued(c) => ~Held(c)
  /\ conn[c] = "accepted" <=> InHand(c) \/ Queued(c) \/ Held(c)

Separate ==
  QueueDistinct /\ WorkersDistinct /\ \A c \in Clients : OnePlace(c)

Waiting ==
  /\ \A i, j \in DOMAIN backlog : backlog[i] = backlog[j] => i = j
  /\ \A i \in DOMAIN backlog : conn[backlog[i]] = "waiting"

LEMMA InitSeparate == Init => Separate /\ Waiting
<1> SUFFICES ASSUME Init PROVE Separate /\ Waiting
  OBVIOUS
<1>1. DOMAIN tasks = {} /\ DOMAIN backlog = {} /\ \A w \in Workers : wpc[w] # "exec"
  BY DEF Init, PoolInit, NetInit
<1>2. socket = NoTask /\ \A c \in Clients : conn[c] = "new" /\ c # NoTask
  BY GearServerAssumption DEF Init, NetInit
<1> QED
  BY <1>1, <1>2 DEF Separate, QueueDistinct, WorkersDistinct, OnePlace, InHand,
                    Queued, Held, Waiting

(* A step that moves no connection. *)
LEMMA UnmovedSeparate ==
  ASSUME Separate, UNCHANGED <<tasks, socket>>,
         \A c \in Clients : conn'[c] = "accepted" <=> conn[c] = "accepted",
         \A w \in Workers : wpc'[w] = "exec" <=> wpc[w] = "exec",
         \A w \in Workers : wpc[w] = "exec" => job'[w] = job[w]
  PROVE  Separate'
<1>1. \A c \in Clients : /\ Queued(c)' <=> Queued(c)
                         /\ Held(c)' <=> Held(c)
                         /\ InHand(c)' <=> InHand(c)
  BY DEF Queued, Held, InHand
<1>2. QueueDistinct' /\ WorkersDistinct'
  BY DEF Separate, QueueDistinct, WorkersDistinct
<1>3. \A c \in Clients : OnePlace(c)'
  BY <1>1 DEF Separate, OnePlace
<1> QED
  BY <1>2, <1>3 DEF Separate

(* accept() moves a connection from the backlog to the server thread. *)
LEMMA AcceptSeparate ==
  ASSUME Inv, Separate, Waiting, ServerAccepts
  PROVE  Separate' /\ Waiting'
<1> DEFINE h == Head(backlog)
<1>1. /\ backlog \in Seq(Clients) /\ backlog # <<>> /\ backlog' = Tail(backlog)
      /\ conn' = [conn EXCEPT ![h] = "accepted"] /\ DOMAIN conn = Clients
      /\ socket = NoTask /\ socket' = h
      /\ UNCHANGED <<tasks, wpc, job>>
  BY DEF Inv, TypeOK, NetTypeOK, ServerAccepts, AcceptReturns, Goto, poolVars
<1>2. /\ Len(backlog) \in Nat \ {0} /\ h = backlog[1] /\ h \in Clients
      /\ DOMAIN backlog = 1 .. Len(backlog)
      /\ DOMAIN backlog' = 1 .. Len(backlog) - 1
      /\ \A i \in DOMAIN backlog' : backlog'[i] = backlog[i + 1]
  BY <1>1, HeadTailProperties, LenProperties, EmptySeq
<1>3. \A i \in DOMAIN backlog : backlog[i] \in Clients
  BY <1>1, <1>2
<1> HIDE DEF h
<1>4. conn[h] = "waiting"
  BY <1>2 DEF Waiting
<1>5. OnePlace(h) /\ ~Queued(h) /\ ~Held(h)
  BY <1>2, <1>4 DEF Separate, OnePlace
<1>6. \A c \in Clients : /\ Queued(c)' <=> Queued(c)
                         /\ Held(c)' <=> Held(c)
                         /\ InHand(c)' <=> c = h
                         /\ ~InHand(c)
                         /\ conn'[c] = IF c = h THEN "accepted" ELSE conn[c]
  BY <1>1, <1>2, GearServerAssumption DEF Queued, Held, InHand
<1>7. QueueDistinct' /\ WorkersDistinct'
  BY <1>1 DEF Separate, QueueDistinct, WorkersDistinct
<1>8. ASSUME NEW c \in Clients PROVE OnePlace(c)'
  <2>1. OnePlace(c)
    BY <1>8 DEF Separate
  <2> QED
    BY <1>5, <1>6, <2>1 DEF OnePlace
<1>9. Waiting'
  <2>1. ASSUME NEW i \in DOMAIN backlog' PROVE conn'[backlog'[i]] = "waiting"
    <3>1. i + 1 \in DOMAIN backlog /\ i + 1 # 1 /\ backlog'[i] = backlog[i + 1]
      BY <1>2, <2>1
    <3>2. backlog[i + 1] # h /\ conn[backlog[i + 1]] = "waiting"
      BY <1>2, <3>1 DEF Waiting
    <3> QED
      BY <1>1, <1>3, <3>1, <3>2
  <2>2. \A i, j \in DOMAIN backlog' : backlog'[i] = backlog'[j] => i = j
    BY <1>2 DEF Waiting
  <2> QED
    BY <2>1, <2>2 DEF Waiting
<1> QED
  BY <1>7, <1>8, <1>9 DEF Separate

(* push_task moves it to the queue. *)
LEMMA EnqueueSeparate ==
  ASSUME Inv, Separate, ServerPushEnqueue
  PROVE  Separate'
<1>1. /\ tasks \in Seq(Clients) /\ socket \in Clients
      /\ tasks' = Append(tasks, socket) /\ socket' = NoTask
      /\ UNCHANGED <<wpc, job, conn>>
  BY DEF Inv, TypeOK, PoolTypeOK, ServerPushEnqueue, PushEnqueue, Goto, netVars
<1>2. /\ Len(tasks) \in Nat
      /\ DOMAIN tasks = 1 .. Len(tasks)
      /\ DOMAIN tasks' = 1 .. Len(tasks) + 1
      /\ \A i \in DOMAIN tasks : tasks'[i] = tasks[i]
      /\ tasks'[Len(tasks) + 1] = socket
  BY <1>1, AppendProperties, LenProperties
<1>3. \A c \in Clients : Queued(c)' <=> Queued(c) \/ c = socket
  BY <1>2 DEF Queued
<1>4. \A c \in Clients : /\ Held(c)' <=> Held(c)
                         /\ ~InHand(c)'
                         /\ InHand(c) <=> c = socket
  BY <1>1, GearServerAssumption DEF Held, InHand
<1>5. ~Queued(socket) /\ ~Held(socket)
  BY <1>1, <1>4 DEF Separate, OnePlace
<1>6. QueueDistinct'
  BY <1>2, <1>5 DEF Separate, QueueDistinct, Queued
<1>7. WorkersDistinct'
  BY <1>1 DEF Separate, WorkersDistinct
<1>8. ASSUME NEW c \in Clients PROVE OnePlace(c)'
  <2>1. OnePlace(c) /\ conn'[c] = conn[c]
    BY <1>1, <1>8 DEF Separate
  <2> QED
    BY <1>3, <1>4, <1>5, <2>1 DEF OnePlace
<1> QED
  BY <1>6, <1>7, <1>8 DEF Separate

(* pop_task moves it to a worker. *)
LEMMA PopSeparate ==
  ASSUME Inv, Separate, NEW w \in Workers, PopTask(w),
         UNCHANGED <<netVars, ctlVars>>
  PROVE  Separate'
<1> DEFINE h == Head(tasks)
<1>1. /\ tasks \in Seq(Clients) /\ tasks # <<>>
      /\ tasks' = Tail(tasks)
      /\ wpc[w] = "pop" /\ wpc' = [wpc EXCEPT ![w] = "exec"]
      /\ job' = [job EXCEPT ![w] = h]
      /\ DOMAIN wpc = Workers /\ DOMAIN job = Workers
      /\ UNCHANGED <<conn, socket>>
  BY DEF Inv, TypeOK, PoolTypeOK, PopTask, netVars, ctlVars
<1>2. /\ Len(tasks) \in Nat \ {0} /\ h = tasks[1] /\ h \in Clients
      /\ DOMAIN tasks = 1 .. Len(tasks)
      /\ DOMAIN tasks' = 1 .. Len(tasks) - 1
      /\ \A i \in DOMAIN tasks' : tasks'[i] = tasks[i + 1]
  BY <1>1, HeadTailProperties, LenProperties, EmptySeq
<1> HIDE DEF h
<1>3. Queued(h)
  BY <1>2 DEF Queued
<1>4. \A c \in Clients : Queued(c)' <=> Queued(c) /\ c # h
  <2>1. \A i \in DOMAIN tasks : tasks[i] = h => i = 1
    BY <1>2 DEF Separate, QueueDistinct
  <2>2. ASSUME NEW c \in Clients, Queued(c)' PROVE Queued(c) /\ c # h
    <3>1. PICK i \in DOMAIN tasks' : tasks'[i] = c
      BY <2>2 DEF Queued
    <3>2. i + 1 \in DOMAIN tasks /\ tasks[i + 1] = c /\ i + 1 # 1
      BY <1>2, <3>1
    <3> QED
      BY <2>1, <3>2 DEF Queued
  <2>3. ASSUME NEW c \in Clients, Queued(c), c # h PROVE Queued(c)'
    <3>1. PICK i \in DOMAIN tasks : tasks[i] = c
      BY <2>3 DEF Queued
    <3>2. i # 1 /\ i - 1 \in DOMAIN tasks' /\ tasks'[i - 1] = tasks[i]
      BY <1>2, <2>3, <3>1
    <3> QED
      BY <3>1, <3>2 DEF Queued
  <2> QED
    BY <2>2, <2>3
<1>5. \A c \in Clients : Held(c)' <=> Held(c) \/ c = h
  BY <1>1 DEF Held
<1>6. \A c \in Clients : InHand(c)' <=> InHand(c)
  BY <1>1 DEF InHand
<1>7. QueueDistinct'
  BY <1>2 DEF Separate, QueueDistinct
<1>8. ~Held(h)
  BY <1>2, <1>3 DEF Separate, OnePlace
<1>9. WorkersDistinct'
  BY <1>1, <1>8 DEF Separate, WorkersDistinct, Held
<1>10. ASSUME NEW c \in Clients PROVE OnePlace(c)'
  <2>1. OnePlace(c) /\ conn'[c] = conn[c]
    BY <1>1, <1>10 DEF Separate
  <2> QED
    BY <1>3, <1>4, <1>5, <1>6, <2>1 DEF OnePlace
<1> QED
  BY <1>7, <1>9, <1>10 DEF Separate

(* A handler closes the connection it holds, and no other one. *)
LEMMA HandlerSeparate ==
  ASSUME Inv, Separate, NEW w \in Workers, HandlerEnds(w)
  PROVE  Separate'
<1>1. /\ job[w] \in Clients /\ wpc[w] = "exec"
      /\ wpc' = [wpc EXCEPT ![w] = "count"] /\ DOMAIN wpc = Workers
      /\ conn' = [conn EXCEPT ![job[w]] = "closed"] /\ DOMAIN conn = Clients
      /\ UNCHANGED <<tasks, job, socket>>
  BY DEF Inv, TypeOK, PoolTypeOK, NetTypeOK, JobPC, HandlerEnds, TaskReturn, ctlVars
<1>2. Held(job[w])
  BY <1>1 DEF Held
<1>3. ~Queued(job[w]) /\ ~InHand(job[w])
  BY <1>1, <1>2 DEF Separate, OnePlace
<1>4. \A c \in Clients : /\ Held(c)' <=> Held(c) /\ c # job[w]
                         /\ conn'[c] = IF c = job[w] THEN "closed" ELSE conn[c]
  BY <1>1 DEF Held, Separate, WorkersDistinct
<1>5. \A c \in Clients : (Queued(c)' <=> Queued(c)) /\ (InHand(c)' <=> InHand(c))
  BY <1>1 DEF Queued, InHand
<1>6. QueueDistinct' /\ WorkersDistinct'
  BY <1>1 DEF Separate, QueueDistinct, WorkersDistinct
<1>7. ASSUME NEW c \in Clients PROVE OnePlace(c)'
  <2>1. OnePlace(c)
    BY <1>7 DEF Separate
  <2> QED
    BY <1>3, <1>4, <1>5, <2>1 DEF OnePlace
<1> QED
  BY <1>6, <1>7 DEF Separate

(* A client that connects waits behind the others, for the first time. *)
LEMMA ConnectSeparate ==
  ASSUME Inv, Separate, Waiting, NEW d \in Clients, ClientConnects(d)
  PROVE  Separate' /\ Waiting'
<1>1. /\ backlog \in Seq(Clients) /\ backlog' = Append(backlog, d)
      /\ conn[d] = "new" /\ conn' = [conn EXCEPT ![d] = "waiting"]
      /\ DOMAIN conn = Clients
      /\ UNCHANGED <<tasks, wpc, job, socket>>
  BY DEF Inv, TypeOK, NetTypeOK, ClientConnects, Connect, poolVars, ctlVars
<1>2. /\ Len(backlog) \in Nat
      /\ DOMAIN backlog = 1 .. Len(backlog)
      /\ DOMAIN backlog' = 1 .. Len(backlog) + 1
      /\ \A i \in DOMAIN backlog : backlog'[i] = backlog[i] /\ backlog[i] \in Clients
      /\ backlog'[Len(backlog) + 1] = d
  BY <1>1, AppendProperties, LenProperties
<1>3. \A i \in DOMAIN backlog : backlog[i] # d
  BY <1>1 DEF Waiting
<1>4. Waiting'
  BY <1>1, <1>2, <1>3 DEF Waiting
<1>5. Separate'
  BY <1>1, UnmovedSeparate
<1> QED
  BY <1>4, <1>5

LEMMA NextSeparate ==
  Inv /\ Separate /\ Waiting /\ [Next]_vars => Separate' /\ Waiting'
<1> SUFFICES ASSUME Inv, Separate, Waiting, [Next]_vars
             PROVE  Separate' /\ Waiting'
  OBVIOUS
<1>0. DOMAIN wpc = Workers /\ DOMAIN job = Workers
  BY DEF Inv, TypeOK, PoolTypeOK
<1>1. ASSUME UNCHANGED <<tasks, socket, backlog, conn>>,
             \A w \in Workers : wpc'[w] = "exec" <=> wpc[w] = "exec",
             \A w \in Workers : wpc[w] = "exec" => job'[w] = job[w]
      PROVE  Separate' /\ Waiting'
  BY <1>1, UnmovedSeparate DEF Waiting
<1>2. CASE ServerWait \/ ServerCheck \/ ServerAcceptsNothing \/ ServerAcceptFails
           \/ ServerPushCount \/ ServerDestroyWait \/ ServerDestroyStop
  BY <1>1, <1>2 DEF ServerWait, ServerCheck, ServerAcceptsNothing,
     ServerAcceptFails, ServerPushCount, PushCount, ServerDestroyWait,
     ServerDestroyStop, poolVars, netVars
<1>3. CASE ServerAccepts
  BY <1>3, AcceptSeparate
<1>4. CASE ServerReinit
  <2>1. /\ UNCHANGED <<tasks, socket, wpc, job>>
        /\ backlog' = <<>>
        /\ conn' = [c \in Clients |-> IF conn[c] = "waiting" THEN "reset" ELSE conn[c]]
    BY <1>4 DEF ServerReinit, Setup, poolVars
  <2>2. Waiting'
    BY <2>1 DEF Waiting
  <2>3. \A c \in Clients : conn'[c] = "accepted" <=> conn[c] = "accepted"
    BY <2>1
  <2> QED
    BY <2>1, <2>2, <2>3, UnmovedSeparate
<1>5. CASE ServerPushEnqueue
  BY <1>5, EnqueueSeparate DEF ServerPushEnqueue, netVars, Waiting
<1>6. CASE ServerDestroyJoin
  <2>1. /\ UNCHANGED <<tasks, job, socket, backlog, conn>>
        /\ \A w \in Workers : wpc[w] # "exec" /\ wpc'[w] # "exec"
    BY <1>6 DEF ServerDestroyJoin, CanJoin, Threads, netVars
  <2> QED
    BY <1>1, <2>1
<1>7. ASSUME NEW w \in Workers, Work(w) PROVE Separate' /\ Waiting'
  <2>1. CASE PopTask(w)
    BY <1>7, <2>1, PopSeparate DEF Work, Waiting, netVars
  <2>2. CASE WorkerLoop(w) \/ WorkerCheck(w) \/ PopNothing(w) \/ TaskCount(w)
    BY <1>0, <1>1, <1>7, <2>2 DEF Work, WorkerLoop, WorkerCheck, PopNothing,
                                  TaskCount, netVars, ctlVars
  <2> QED
    BY <1>7, <2>1, <2>2 DEF Work, WorkerStep
<1>8. ASSUME NEW w \in Workers, HandlerEnds(w) PROVE Separate' /\ Waiting'
  <2>1. job[w] \in Clients /\ conn[job[w]] = "accepted"
    BY <1>8 DEF HandlerEnds, TaskReturn, JobPC, Inv, TypeOK, PoolTypeOK,
                Separate, OnePlace, Held
  <2>2. Waiting'
    BY <1>8, <2>1 DEF HandlerEnds, Waiting, Inv, TypeOK, NetTypeOK
  <2> QED
    BY <1>8, <2>2, HandlerSeparate
<1>9. CASE MainStops \/ MainInterrupts \/ MainJoins
  BY <1>1, <1>9 DEF MainStops, MainInterrupts, MainJoins, poolVars, netVars
<1>10. ASSUME NEW c \in Clients, ClientConnects(c) PROVE Separate' /\ Waiting'
  BY <1>10, ConnectSeparate
<1>11. CASE UNCHANGED vars
  BY <1>1, <1>11 DEF vars, poolVars, netVars, ctlVars
<1> QED
  BY <1>2, <1>3, <1>4, <1>5, <1>6, <1>7, <1>8, <1>9, <1>10, <1>11
  DEF Next, ServerStep

LEMMA SeparateHolds == Spec => [](Inv /\ Separate)
<1>1. Init => Inv /\ Separate /\ Waiting
  BY InitInv, InitSeparate
<1>2. (Inv /\ Separate /\ Waiting) /\ [Next]_vars => (Inv /\ Separate /\ Waiting)'
  BY NextInv, NextSeparate
<1> QED
  BY <1>1, <1>2, PTL DEF Spec

(* A set whose elements are all equal counts 0 or 1. *)
LEMMA CountOfOne ==
  ASSUME NEW S, \A x, y \in S : x = y
  PROVE  Cardinality(S) = IF S = {} THEN 0 ELSE 1
<1>1. CASE S = {}
  BY <1>1, FS_EmptySet
<1>2. CASE S # {}
  <2>1. PICK x \in S : TRUE
    BY <1>2
  <2>2. S = {x}
    BY <2>1
  <2> QED
    BY <1>2, <2>2, FS_Singleton
<1> QED
  BY <1>1, <1>2

(* An accepted connection is with the server thread, in the queue or with  *)
(* one handler until that handler closes it: the descriptor is neither     *)
(* leaked nor shared, through any failures of accept() and any stop.       *)
THEOREM OneHandlerHolds == Spec => []OneHandler
<1>1. ASSUME Inv, Separate, NEW c \in Clients
      PROVE  Places(c) = IF conn[c] = "accepted" THEN 1 ELSE 0
  <2> DEFINE Q == {i \in DOMAIN tasks : tasks[i] = c}
             H == {w \in Workers : job[w] = c /\ wpc[w] = "exec"}
  <2>1. Cardinality(Q) = IF Queued(c) THEN 1 ELSE 0
    <3>1. \A i, j \in Q : i = j
      BY <1>1 DEF Separate, QueueDistinct
    <3>2. Q = {} <=> ~Queued(c)
      BY DEF Queued
    <3> QED
      BY <3>1, <3>2, CountOfOne
  <2>2. Cardinality(H) = IF Held(c) THEN 1 ELSE 0
    <3>1. \A v, w \in H : v = w
      BY <1>1 DEF Separate, WorkersDistinct
    <3>2. H = {} <=> ~Held(c)
      BY DEF Held
    <3> QED
      BY <3>1, <3>2, CountOfOne
  <2>3. OnePlace(c)
    BY <1>1 DEF Separate
  <2> HIDE DEF Q, H
  <2>4. Places(c) = (IF InHand(c) THEN 1 ELSE 0) + Cardinality(Q) + Cardinality(H)
    BY DEF Places, InHand, Q, H
  <2> QED
    BY <2>1, <2>2, <2>3, <2>4 DEF OnePlace
<1>2. Inv /\ Separate => OneHandler
  BY <1>1 DEF OneHandler
<1> QED
  BY <1>2, SeparateHolds, PTL

(* When deinitialize() has joined the server thread, no accepted           *)
(* connection is open and no handler runs: the pool they pointed to is     *)
(* gone, and main() has the queue of queries to itself.                    *)
THEOREM JoinLeavesNothing == Spec => []JoinedIsQuiet
<1>1. ASSUME Inv, Separate, mpc = "joined"
      PROVE  /\ \A c \in Clients : conn[c] # "accepted"
             /\ Busy = {} /\ Threads = {} /\ tasks = <<>>
  <2>1. /\ socket = NoTask /\ Idle
        /\ \A w \in Workers : wpc[w] = "none"
    BY <1>1 DEF Inv, Ended
  <2>2. ASSUME NEW c \in Clients PROVE conn[c] # "accepted"
    <3>1. ~InHand(c) /\ ~Queued(c) /\ ~Held(c)
      BY <2>1, GearServerAssumption DEF InHand, Queued, Held, Idle
    <3> QED
      BY <1>1, <3>1 DEF Separate, OnePlace
  <2> QED
    BY <2>1, <2>2 DEF Idle, Busy, Threads
<1>2. Inv /\ Separate => JoinedIsQuiet
  BY <1>1 DEF JoinedIsQuiet
<1> QED
  BY <1>2, SeparateHolds, PTL
=============================================================================
