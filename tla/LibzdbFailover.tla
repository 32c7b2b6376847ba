---------------------------- MODULE LibzdbFailover ----------------------------
(***************************************************************************)
(* LibzdbHandler under every use its interface allows, with connect() in   *)
(* the steps between which something else can happen: a SIGHUP, whose      *)
(* handler empties config.mysql_server (main.cpp:26, Daemon) in any thread *)
(* and at any moment, or 30 seconds.  The owner connects and disconnects   *)
(* whenever no task uses a connection.  OutputHandler itself only connects *)
(* when there is no pool; here the rest of connect() runs as well.         *)
(***************************************************************************)
EXTENDS LibzdbHandler

CONSTANT Users   \* the tasks that may hold a connection

ASSUME UsersAssumption == IsFiniteSet(Users)

VARIABLES
  pc,          \* where connect() is
  configured,  \* the indices config.mysql_server has
  holders,     \* the tasks that hold a connection
  server,      \* history: the server of the last pool; NumServers is none
  refused,     \* history: the servers whose pool could not be created or
               \*   started less than 30 s ago
  silent       \* history: those whose pool did not answer

history == <<server, refused, silent>>
vars == <<dbVars, pc, configured, holders, history>>

TypeOK ==
  /\ DatabaseTypeOK
  /\ pc \in {"idle", "ping", "choose", "test", "use", "start", "log", "catch"}
  /\ configured \subseteq Servers
  /\ holders \subseteq Users
  /\ server \in 0 .. NumServers
  /\ refused \subseteq Servers
  /\ silent \subseteq Servers

Init ==
  /\ DatabaseInit
  /\ pc = "idle"
  /\ configured = Servers
  /\ holders = {}
  /\ server = NumServers
  /\ refused = {}
  /\ silent = {}

Goto(from, to) == pc = from /\ pc' = to

-----------------------------------------------------------------------------
(* connect() *)

CallConnect ==
  /\ Goto("idle", "ping")
  /\ holders = {}
  /\ UNCHANGED <<dbVars, configured, holders, history>>

PingAnswers ==
  /\ Goto("ping", "idle")
  /\ ConnectKeeps
  /\ UNCHANGED <<configured, holders, history>>

(* Mutant: it is not asked whether there is a pool. *)
PingFailsUnasked ==
  /\ Goto("ping", "choose")
  /\ recent' = SetConnectionFaulty(dbserverindex, recent) \cap configured
  /\ silent' = IF HasConnectionPool THEN silent \cup {server} ELSE silent
  /\ conpool' = "null"
  /\ active' = 0
  /\ UNCHANGED <<dbserverindex, configured, holders, server, refused>>

(* The pool's server did not answer; setConnectionFaulty, which tests the  *)
(* index against the list, remembers that of the first only.               *)
PingFails ==
  /\ Goto("ping", "choose")
  /\ recent' = IF HasConnectionPool
                 THEN SetConnectionFaulty(dbserverindex, recent) \cap configured
                 ELSE recent
  /\ silent' = IF HasConnectionPool THEN silent \cup {server} ELSE silent
  /\ conpool' = "null"
  /\ active' = 0
  /\ UNCHANGED <<dbserverindex, configured, holders, server, refused>>

(* setViableConnectionConfigIndex() *)
Choose ==
  LET viable == configured \ recent
  IN  /\ IF viable = {}
           THEN Goto("choose", "idle") /\ UNCHANGED dbserverindex
           ELSE Goto("choose", "test") /\ dbserverindex' = Min(viable)
      /\ UNCHANGED <<conpool, recent, active, configured, holders, history>>

(* if (dbserverindex < this->config->mysql_server.size())                  *)
TestIndex ==
  /\ IF dbserverindex \in configured THEN Goto("test", "use") ELSE Goto("test", "idle")
  /\ UNCHANGED <<dbVars, configured, holders, history>>

(* new zdb::ConnectionPool(config->mysql_server[dbserverindex]...)         *)
CreatePool ==
  /\ \/ Goto("use", "start") /\ conpool' = "unstarted" /\ UNCHANGED refused
     \/ /\ Goto("use", "catch")
        /\ refused' = refused \cup {dbserverindex}
        /\ UNCHANGED conpool
  /\ server' = dbserverindex
  /\ UNCHANGED <<dbserverindex, recent, active, configured, holders, silent>>

(* conpool->start(); the pool stays when it throws.                        *)
StartPool ==
  /\ \/ Goto("start", "log") /\ conpool' = "started" /\ UNCHANGED refused
     \/ /\ Goto("start", "catch")
        /\ refused' = refused \cup {server}
        /\ UNCHANGED conpool
  /\ UNCHANGED <<dbserverindex, recent, active, configured, holders, server, silent>>

(* syslog(..., config->mysql_server[dbserverindex].connection_string)      *)
LogServer ==
  /\ Goto("log", "idle")
  /\ UNCHANGED <<dbVars, configured, holders, history>>

CatchError ==
  /\ Goto("catch", "idle")
  /\ recent' = recent \cup ({dbserverindex} \cap configured)
  /\ UNCHANGED <<conpool, dbserverindex, active, configured, holders, history>>

-----------------------------------------------------------------------------
CallDisconnect ==
  /\ pc = "idle" /\ holders = {}
  /\ HasConnectionPool
  /\ Disconnect
  /\ UNCHANGED <<pc, configured, holders, history>>

(* 30 seconds after the last failure of server s; they are counted from    *)
(* the moment the error is marked.                                         *)
Age(s) ==
  /\ pc = "catch" => s # dbserverindex
  /\ s \in recent \cup refused \cup silent
  /\ recent' = recent \ {s}
  /\ refused' = refused \ {s}
  /\ silent' = silent \ {s}
  /\ UNCHANGED <<conpool, dbserverindex, active, pc, configured, holders, server>>

Get(u) ==
  /\ pc = "idle"
  /\ u \notin holders
  /\ GetConnection
  /\ holders' = holders \cup {u}
  /\ UNCHANGED <<pc, configured, history>>

Return(u) ==
  /\ u \in holders
  /\ ReturnConnection
  /\ holders' = holders \ {u}
  /\ UNCHANGED <<pc, configured, history>>

(* load_config() with the file name "" of the signal handler: the servers  *)
(* are gone, with what was remembered of them.                             *)
SigHup ==
  /\ configured # {}
  /\ configured' = {}
  /\ recent' = {}
  /\ UNCHANGED <<conpool, dbserverindex, active, pc, holders, history>>

Connect ==
  \/ PingAnswers \/ PingFails \/ Choose \/ TestIndex
  \/ CreatePool \/ StartPool \/ LogServer \/ CatchError

Next ==
  \/ CallConnect \/ Connect \/ CallDisconnect \/ SigHup
  \/ \E s \in Servers : Age(s)
  \/ \E u \in Users : Get(u) \/ Return(u)

Spec == Init /\ [][Next]_vars

-----------------------------------------------------------------------------
(* connect() avoids no server without a reason: whatever was marked has    *)
(* failed, and less than 30 seconds ago.  connect() marks the server of    *)
(* dbserverindex, which has no initial value, moves while there is no pool *)
(* and can be outdated by a SIGHUP in any step, for a failure of the pool. *)
OnlyFailedAreAvoided == recent \subseteq refused \cup silent

(* connect() does not return to a server whose pool could not be created   *)
(* or started within the last 30 seconds, nor to the first server when it  *)
(* has stopped answering: it takes another one or none.  (Of any other     *)
(* server that has stopped answering it may make the next pool again: for  *)
(* those `0 >= index` in setConnectionFaulty is false.)                    *)
FailedServerIsLeft ==
  [][pc = "choose" /\ pc' = "test"
       => dbserverindex' \notin refused \cup (silent \cap {0})]_vars
=============================================================================
