------------------------------ MODULE Delivery ------------------------------
(***************************************************************************)
(* What the daemon owes every query it has acknowledged, without threads,  *)
(* queues or connections: the query is pending until one thing happens to  *)
(* it.  While the service runs that is its execution, or a failure the     *)
(* code gives up on; once the output side has ended, what is still pending *)
(* is written to the log as not queued, and only then the program exits.   *)
(* So no query is lost, none is run twice to its end, and one that the log *)
(* calls not queued has not been run and will not be.                      *)
(***************************************************************************)
CONSTANT Messages

VARIABLES
  state,  \* what has become of each message
  phase   \* how far the shutdown is

vars == <<state, phase>>

Init ==
  /\ state = [m \in Messages |-> "new"]
  /\ phase = "open"

Accept(m) ==
  /\ phase = "open"
  /\ state[m] = "new"
  /\ state' = [state EXCEPT ![m] = "pending"]
  /\ UNCHANGED phase

Resolve(m) ==
  /\ phase \in {"open", "closed"}
  /\ state[m] = "pending"
  /\ \E o \in {"executed", "rejected", "dropped", "skipped"} :
       state' = [state EXCEPT ![m] = o]
  /\ UNCHANGED phase

Log(m) ==
  /\ phase = "logging"
  /\ state[m] = "pending"
  /\ state' = [state EXCEPT ![m] = "logged"]
  /\ UNCHANGED phase

(* The clients are gone; the output side has ended; the program exits.     *)
Close == phase = "open" /\ phase' = "closed" /\ UNCHANGED state
StartLog == phase = "closed" /\ phase' = "logging" /\ UNCHANGED state
Exit ==
  /\ phase = "logging"
  /\ \A m \in Messages : state[m] # "pending"
  /\ phase' = "exit"
  /\ UNCHANGED state

Next ==
  \/ \E m \in Messages : Accept(m) \/ Resolve(m) \/ Log(m)
  \/ Close \/ StartLog \/ Exit

Spec == Init /\ [][Next]_vars
=============================================================================
