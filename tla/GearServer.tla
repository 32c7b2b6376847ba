------------------------------ MODULE GearServer ------------------------------
(***************************************************************************)
(* GearServer: the thread that accepts connections and gives each to its   *)
(* client thread pool, a local variable of thread_main that every handler  *)
(* keeps a pointer to; and main(), which stops and joins it through        *)
(* InputHandler::deinitialize.  A handler (GearStreamClientHandler) is     *)
(* reduced to the connection it holds: it closes it and returns, or, for   *)
(* the clients in Stuck, never does (the finding about a client that       *)
(* closes inside a header).                                                *)
(***************************************************************************)
EXTENDS ThreadPool, TcpServer

CONSTANTS
  Stuck,      \* the clients whose handlers do not end
  MaxFaults   \* bound: how often a system call fails in a run

ASSUME GearServerAssumption ==
  /\ IsFiniteSet(Clients) /\ NoTask \notin Clients
  /\ Stuck \subseteq Clients
  /\ Readers = {}
  /\ MaxFaults \in Nat

VARIABLES
  spc,     \* where the server thread is
  socket,  \* its local variable
  stop_,   \* GearServer::stop_
  timer,   \* timed_waiter::stop_
  mpc,     \* where main() is
  faults   \* the failures left to the system calls

ctlVars == <<spc, socket, stop_, timer, mpc, faults>>
vars == <<poolVars, netVars, ctlVars>>

ServerPC == {"wait", "check", "accept", "push_count", "push_enqueue", "reinit",
             "destroy_wait", "destroy_stop", "destroy_join", "done"}

TypeOK ==
  /\ PoolTypeOK(Clients)
  /\ NetTypeOK
  /\ spc \in ServerPC
  /\ socket \in Clients \cup {NoTask}
  /\ stop_ \in BOOLEAN
  /\ timer \in BOOLEAN
  /\ mpc \in {"run", "interrupt", "join", "joined"}
  /\ faults \in 0 .. MaxFaults

(* InputHandler::initialize has run: initialize() may have failed.         *)
Init ==
  /\ PoolInit(Workers)
  /\ NetInit
  /\ spc = "wait"
  /\ socket = NoTask
  /\ stop_ = FALSE
  /\ timer = FALSE
  /\ mpc = "run"
  /\ faults = MaxFaults

Fault == faults > 0 /\ faults' = faults - 1
Goto(from, to) == spc = from /\ spc' = to

-----------------------------------------------------------------------------
(* thread_main *)

(* timed_waiter::wait_for(300us): after the time, or at the interrupt, it  *)
(* returns whether it was not interrupted.                                 *)
ServerWait ==
  /\ IF timer THEN Goto("wait", "destroy_wait") ELSE Goto("wait", "check")
  /\ UNCHANGED <<poolVars, netVars, socket, stop_, timer, mpc, faults>>

ServerCheck ==
  /\ IF stop_ THEN Goto("check", "destroy_wait") ELSE Goto("check", "accept")
  /\ UNCHANGED <<poolVars, netVars, socket, stop_, timer, mpc, faults>>

(* socket > 0 *)
ServerAccepts ==
  /\ Goto("accept", "push_count")
  /\ AcceptReturns
  /\ socket' = Head(backlog)
  /\ UNCHANGED <<poolVars, stop_, timer, mpc, faults>>

(* socket = 0: the poll timed out, or accept() itself failed, with the     *)
(* connection still in the backlog.                                        *)
ServerAcceptsNothing ==
  /\ Goto("accept", "wait")
  /\ listening
  /\ (backlog = <<>> /\ UNCHANGED faults) \/ (backlog # <<>> /\ Fault)
  /\ UNCHANGED <<poolVars, netVars, socket, stop_, timer, mpc>>

(* Mutant: an error ends the loop. *)
ServerAcceptGivesUp ==
  /\ Goto("accept", "destroy_wait")
  /\ (~listening /\ UNCHANGED faults) \/ (listening /\ Fault)
  /\ UNCHANGED <<poolVars, netVars, socket, stop_, timer, mpc>>

(* socket < 0: there is no listening socket, the poll failed (a signal     *)
(* interrupts it, too) or the socket has an error.                         *)
ServerAcceptFails ==
  /\ Goto("accept", "reinit")
  /\ (~listening /\ UNCHANGED faults) \/ (listening /\ Fault)
  /\ UNCHANGED <<poolVars, netVars, socket, stop_, timer, mpc>>

ServerReinit ==
  /\ Goto("reinit", "wait")
  /\ (Setup(TRUE) /\ UNCHANGED faults) \/ (Setup(FALSE) /\ Fault)
  /\ UNCHANGED <<poolVars, socket, stop_, timer, mpc>>

ServerPushCount ==
  /\ Goto("push_count", "push_enqueue")
  /\ PushCount
  /\ UNCHANGED <<netVars, socket, stop_, timer, mpc, faults>>

(* Mutant: the handler gets a copy made before accept() returned. *)
ServerPushTwice ==
  /\ Goto("push_enqueue", "wait")
  /\ tasks' = tasks \o <<socket, socket>>
  /\ socket' = NoTask
  /\ UNCHANGED <<tasks_total, paused, running, wpc, job, reads>>
  /\ UNCHANGED <<netVars, stop_, timer, mpc, faults>>

ServerPushEnqueue ==
  /\ Goto("push_enqueue", "wait")
  /\ PushEnqueue(socket)
  /\ socket' = NoTask
  /\ UNCHANGED <<netVars, stop_, timer, mpc, faults>>

(* The end of thread_main destroys client_threadpool.                      *)
ServerDestroyWait ==
  /\ Goto("destroy_wait", "destroy_stop")
  /\ tasks_total = 0
  /\ UNCHANGED <<poolVars, netVars, socket, stop_, timer, mpc, faults>>

ServerDestroyStop ==
  /\ Goto("destroy_stop", "destroy_join")
  /\ running' = FALSE
  /\ UNCHANGED <<tasks, tasks_total, paused, wpc, job, reads>>
  /\ UNCHANGED <<netVars, socket, stop_, timer, mpc, faults>>

ServerDestroyJoin ==
  /\ Goto("destroy_join", "done")
  /\ CanJoin
  /\ wpc' = [w \in Workers |-> "none"]
  /\ UNCHANGED <<tasks, tasks_total, paused, running, job, reads>>
  /\ UNCHANGED <<netVars, socket, stop_, timer, mpc, faults>>

ServerStep ==
  \/ ServerWait \/ ServerCheck
  \/ ServerAccepts \/ ServerAcceptsNothing \/ ServerAcceptFails
  \/ ServerReinit
  \/ ServerPushCount \/ ServerPushEnqueue
  \/ ServerDestroyWait \/ ServerDestroyStop \/ ServerDestroyJoin

-----------------------------------------------------------------------------
(* The client pool's threads, and the end of a handler: close(), return.   *)

Work(w) ==
  /\ WorkerStep(w)
  /\ UNCHANGED <<netVars, ctlVars>>

(* Mutant: the socket is not closed. *)
HandlerLeaks(w) ==
  /\ TaskReturn(w)
  /\ job[w] \notin Stuck
  /\ UNCHANGED <<netVars, ctlVars>>

HandlerEnds(w) ==
  /\ TaskReturn(w)
  /\ job[w] \notin Stuck
  /\ conn' = [conn EXCEPT ![job[w]] = "closed"]
  /\ UNCHANGED <<listening, backlog, ctlVars>>

-----------------------------------------------------------------------------
(* InputHandler::deinitialize: stop() and join().                          *)

MainStops ==
  /\ mpc = "run"
  /\ stop_' = TRUE
  /\ mpc' = "interrupt"
  /\ UNCHANGED <<poolVars, netVars, spc, socket, timer, faults>>

MainInterrupts ==
  /\ mpc = "interrupt"
  /\ timer' = TRUE
  /\ mpc' = "join"
  /\ UNCHANGED <<poolVars, netVars, spc, socket, stop_, faults>>

(* Mutant: deinitialize does not join. *)
MainDetaches ==
  /\ mpc = "join"
  /\ mpc' = "joined"
  /\ UNCHANGED <<poolVars, netVars, spc, socket, stop_, timer, faults>>

MainJoins ==
  /\ mpc = "join"
  /\ spc = "done"
  /\ mpc' = "joined"
  /\ UNCHANGED <<poolVars, netVars, spc, socket, stop_, timer, faults>>

ClientConnects(c) ==
  /\ Connect(c)
  /\ UNCHANGED <<poolVars, ctlVars>>

Next ==
  \/ ServerStep
  \/ \E w \in Workers : Work(w) \/ HandlerEnds(w)
  \/ MainStops \/ MainInterrupts \/ MainJoins
  \/ \E c \in Clients : ClientConnects(c)

(* Threads get the processor and handlers of clients outside Stuck end; no *)
(* client has to connect and nobody has to stop the daemon.                *)
Fairness ==
  /\ WF_vars(ServerStep)
  /\ \A w \in Workers : WF_vars(Work(w)) /\ WF_vars(HandlerEnds(w))
  /\ WF_vars(MainInterrupts) /\ WF_vars(MainJoins)

Spec == Init /\ [][Next]_vars /\ Fairness

-----------------------------------------------------------------------------
(* The places an accepted connection can be in.                            *)
Places(c) ==
  (IF socket = c THEN 1 ELSE 0)
  + Cardinality({i \in DOMAIN tasks : tasks[i] = c})
  + Cardinality({w \in Workers : job[w] = c /\ wpc[w] = "exec"})

(* An accepted connection that is not closed is with one thread or in the  *)
(* queue of the pool: its descriptor is neither leaked nor given to two    *)
(* handlers, of which one would close it under the other.                  *)
OneHandler ==
  \A c \in Clients : Places(c) = IF conn[c] = "accepted" THEN 1 ELSE 0

(* When deinitialize returns, no connection that was accepted is open and  *)
(* no handler runs: handlers point to the pool, a local variable of the    *)
(* thread that was joined, and put queries into the queue main() is about  *)
(* to empty.                                                               *)
JoinedIsQuiet ==
  mpc = "joined" =>
    /\ \A c \in Clients : conn[c] # "accepted"
    /\ Busy = {} /\ Threads = {} /\ tasks = <<>>

(* deinitialize returns, unless a handler that does not end was started.   *)
StopEnds ==
  [](\A c \in Stuck : conn[c] # "accepted") => (stop_ ~> mpc = "joined")

(* A handler that does not end costs one thread: the connections accepted  *)
(* behind it are served as long as a thread is left.                       *)
OthersAreServed ==
  \A c \in Clients \ Stuck : conn[c] = "accepted" ~> conn[c] = "closed"

(* The server recovers from any error of its socket: it listens again, and *)
(* no connection waits for ever.                                           *)
ServerRecovers ==
  /\ ~listening ~> listening \/ stop_
  /\ \A c \in Clients : conn[c] = "waiting" ~> conn[c] # "waiting" \/ stop_
=============================================================================
