---------------------------- MODULE LibzdbHandler ----------------------------
(***************************************************************************)
(* LibzdbHandler: one libzdb connection pool for one of the configured     *)
(* servers, and the choice of that server.  Time is abstracted to what the *)
(* code asks of it: whether a server's last_error is set and at most 30    *)
(* seconds old.  The pool itself (libzdb) is external: it hands out at     *)
(* most MaxConnections connections, and any call on it may fail.           *)
(***************************************************************************)
EXTENDS Integers, FiniteSets, FiniteSetsExt

CONSTANTS
  NumServers,      \* config.mysql_server.size()
  MaxConnections   \* config.mysql_maxconnections

ASSUME DatabaseAssumption ==
  /\ NumServers \in Nat
  /\ MaxConnections \in Nat \ {0}

VARIABLES
  conpool,        \* the pointer: "null", or a pool "started" or "unstarted"
  dbserverindex,  \* the server the pool is for
  recent,         \* the servers with an error of the last 30 seconds
  active          \* the connections handed out by the pool

dbVars == <<conpool, dbserverindex, recent, active>>

Servers == 0 .. NumServers - 1

DatabaseTypeOK ==
  /\ conpool \in {"null", "unstarted", "started"}
  /\ dbserverindex \in 0 .. NumServers
  /\ recent \subseteq Servers
  /\ active \in Nat

(* dbserverindex has no initialiser; NumServers stands for every value     *)
(* that is no server's.                                                    *)
DatabaseInit ==
  /\ conpool = "null"
  /\ dbserverindex \in 0 .. NumServers
  /\ recent = {}
  /\ active = 0

HasConnectionPool == conpool # "null"
GetMaxDatabaseConnections == IF HasConnectionPool THEN MaxConnections ELSE 0

(* The clock: 30 seconds have passed since the last error of server s.     *)
ErrorAges(s) ==
  /\ s \in recent
  /\ recent' = recent \ {s}
  /\ UNCHANGED <<conpool, dbserverindex, active>>

-----------------------------------------------------------------------------
(* Mutant: `0 > index` is never true of a size_t. *)
SetConnectionFaultyNever(i, errors) ==
  IF 0 > i /\ i < NumServers THEN errors \cup {i} ELSE errors

(* setConnectionFaulty(i): `0 >= index && index < size` holds for 0 only.  *)
SetConnectionFaulty(i, errors) ==
  IF 0 >= i /\ i < NumServers THEN errors \cup {i} ELSE errors

(* connect(): a pool that answers the ping is kept ... *)
ConnectKeeps ==
  /\ HasConnectionPool
  /\ active < MaxConnections
  /\ UNCHANGED dbVars

(* ... any other is marked and deleted, and the first server without a     *)
(* recent error gets a new pool.  outcome says how that went: the          *)
(* constructor threw ("null"), start() threw and left the pool behind      *)
(* ("unstarted"), or it started.                                           *)
ConnectReplaces(outcome) ==
  LET errors == IF HasConnectionPool
                  THEN SetConnectionFaulty(dbserverindex, recent)
                  ELSE recent
      viable == Servers \ errors
  IN  /\ active' = 0
      /\ IF viable = {}
           THEN /\ conpool' = "null"
                /\ recent' = errors
                /\ UNCHANGED dbserverindex
           ELSE /\ dbserverindex' = Min(viable)
                /\ conpool' = outcome
                /\ recent' = IF outcome = "started"
                               THEN errors
                               ELSE errors \cup {Min(viable)}

Disconnect ==
  /\ conpool' = "null"
  /\ active' = 0
  /\ UNCHANGED <<dbserverindex, recent>>

-----------------------------------------------------------------------------
(* getConnection(), when the pool has a connection to give; the caller     *)
(* says what happens when it has none.                                     *)
GetConnection ==
  /\ HasConnectionPool
  /\ active < MaxConnections
  /\ active' = active + 1
  /\ UNCHANGED <<conpool, dbserverindex, recent>>

ReturnConnection ==
  /\ active' = IF HasConnectionPool THEN active - 1 ELSE active
  /\ UNCHANGED <<conpool, dbserverindex, recent>>
=============================================================================
