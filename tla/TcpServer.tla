------------------------------ MODULE TcpServer ------------------------------
(***************************************************************************)
(* tcp::Server: the listening socket of the gear server, with what the     *)
(* kernel keeps behind it.  serverSocket and pfds are set and cleared      *)
(* together, so one flag stands for both.  Every system call may fail.     *)
(***************************************************************************)
EXTENDS Naturals, Sequences

CONSTANTS
  Clients,   \* the connections clients may make
  Backlog    \* config.gear_server_backlog

ASSUME ServerAssumption == Backlog \in Nat \ {0}

VARIABLES
  listening,  \* serverSocket > 0 and pfds # nullptr
  backlog,    \* connections the kernel has made and nobody has accepted
  conn        \* what has become of each connection

netVars == <<listening, backlog, conn>>

NetTypeOK ==
  /\ listening \in BOOLEAN
  /\ backlog \in Seq(Clients)
  /\ conn \in [Clients -> {"new", "waiting", "reset", "accepted", "closed"}]

NetInit ==
  /\ listening \in BOOLEAN
  /\ backlog = <<>>
  /\ conn = [c \in Clients |-> "new"]

(* connect() of a client succeeds while there is room in the backlog.      *)
Connect(c) ==
  /\ listening
  /\ conn[c] = "new"
  /\ Len(backlog) < Backlog
  /\ backlog' = Append(backlog, c)
  /\ conn' = [conn EXCEPT ![c] = "waiting"]
  /\ UNCHANGED listening

(* setup(): shutdown() first, which closes the listening socket and with   *)
(* it every connection still in the backlog, then socket, bind and listen, *)
(* any of which may fail and leaves no socket behind.                      *)
Setup(succeeds) ==
  /\ listening' = succeeds
  /\ backlog' = <<>>
  /\ conn' = [c \in Clients |-> IF conn[c] = "waiting" THEN "reset" ELSE conn[c]]

(* accept() returns a connection.                                          *)
AcceptReturns ==
  /\ listening
  /\ backlog # <<>>
  /\ conn' = [conn EXCEPT ![Head(backlog)] = "accepted"]
  /\ backlog' = Tail(backlog)
  /\ UNCHANGED listening
=============================================================================
