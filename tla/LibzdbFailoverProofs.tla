------------------------- MODULE LibzdbFailoverProofs -------------------------
(***************************************************************************)
(* Proofs about LibzdbFailover for any numbers of servers, connections and *)
(* tasks: the types, that the connections in use are those of the tasks,   *)
(* that connect() marks the server whose pool failed and no other, and     *)
(* that it leaves a server that is marked.                                 *)
(***************************************************************************)
EXTENDS LibzdbFailover, FiniteSetTheorems, WellFoundedInduction, TLAPS

(* TypeOK is not inductive alone: that returning a connection keeps the    *)
(* number of active ones natural needs the balance, which needs that       *)
(* nobody holds a connection while the pool is replaced.                   *)
Balanced ==
  /\ active = Cardinality(holders)
  /\ holders # {} => pc = "idle" /\ conpool # "null"

(* A pool is the one of dbserverindex, although that index has any value   *)
(* at first and is set before there is a pool for it.                      *)
PoolOfIndex ==
  /\ conpool # "null" => server = dbserverindex /\ server \in Servers
  /\ pc \in {"choose", "test", "use"} => conpool = "null"
  /\ pc \in {"start", "log"} => conpool # "null"
  /\ pc \in {"test", "use", "start", "log", "catch"} => dbserverindex \in Servers
  /\ pc = "catch" => dbserverindex \in refused

(* Every failure that connect() looks at is remembered or about to be.     *)
FailuresRemembered ==
  (refused \cup (silent \cap {0})) \cap configured
     \subseteq recent \cup (IF pc = "catch" THEN {dbserverindex} ELSE {})

Inv == TypeOK /\ Balanced /\ PoolOfIndex /\ FailuresRemembered /\ OnlyFailedAreAvoided

(* The server that connect() chooses is one of those it chooses from.      *)
LEMMA MinOfServers ==
  ASSUME NEW S \in SUBSET Servers, S # {}
  PROVE  Min(S) \in S
<1>1. S \subseteq Nat
  BY DatabaseAssumption DEF Servers
<1>2. PICK x \in S : \A y \in S : ~ (<<y, x>> \in OpToRel(<, Nat))
  BY <1>1, NatLessThanWellFounded, WFMin
<1>3. \A y \in S : ~ (y < x)
  BY <1>1, <1>2 DEF OpToRel
<1>4. \A y \in S : x <= y
  BY <1>1, <1>3
<1> QED
  BY <1>4 DEF Min

LEMMA InitInv == Init => Inv
<1> SUFFICES ASSUME Init PROVE Inv
  OBVIOUS
<1>1. NumServers \in Nat
  BY DatabaseAssumption
<1>2. TypeOK
  BY <1>1 DEF Init, DatabaseInit, TypeOK, DatabaseTypeOK
<1>3. Balanced
  BY FS_EmptySet DEF Init, DatabaseInit, Balanced
<1> QED
  BY <1>2, <1>3
  DEF Init, DatabaseInit, Inv, PoolOfIndex, FailuresRemembered, OnlyFailedAreAvoided

(* connect() *)
LEMMA ConnectInv ==
  ASSUME Inv, CallConnect \/ Connect
  PROVE  Inv'
<1> USE DatabaseAssumption
    DEF Inv, TypeOK, DatabaseTypeOK, Goto, dbVars, history
<1>0. Servers \subseteq 0 .. NumServers /\ NumServers \in Nat
  BY DEF Servers
<1>a. ASSUME UNCHANGED <<active, holders>>, holders = {} PROVE Balanced'
  BY <1>a DEF Balanced
<1>b. ASSUME pc # "idle" PROVE holders = {} /\ active = 0
  BY <1>b, FS_EmptySet DEF Balanced
<1>1. CASE CallConnect
  BY <1>1, <1>a DEF CallConnect, PoolOfIndex, FailuresRemembered, OnlyFailedAreAvoided
<1>2. CASE PingAnswers
  BY <1>2, <1>a, <1>b
  DEF PingAnswers, ConnectKeeps, PoolOfIndex, FailuresRemembered, OnlyFailedAreAvoided
<1>3. CASE PingFails
  <2> DEFINE marked == SetConnectionFaulty(dbserverindex, recent)
  <2>1. /\ marked \subseteq recent \cup {dbserverindex} /\ recent \subseteq marked
        /\ {dbserverindex} \cap {0} \cap configured \subseteq marked
    BY <1>0 DEF SetConnectionFaulty, Servers
  <2> HIDE DEF marked
  <2>2. /\ pc = "ping" /\ pc' = "choose" /\ conpool' = "null"
        /\ UNCHANGED <<dbserverindex, configured, server, refused, holders>>
    BY <1>3 DEF PingFails
  <2>3. \/ /\ server = dbserverindex /\ server \in Servers
           /\ recent' = marked \cap configured /\ silent' = silent \cup {server}
        \/ UNCHANGED <<recent, silent>>
    BY <1>3 DEF PingFails, HasConnectionPool, PoolOfIndex, marked
  <2>4. TypeOK'
    BY <1>0, <1>3, <2>1, <2>2, <2>3 DEF PingFails
  <2>5. Balanced'
    BY <1>3, <1>b, FS_EmptySet DEF PingFails, Balanced
  <2>6. FailuresRemembered' /\ OnlyFailedAreAvoided'
    BY <2>1, <2>2, <2>3 DEF FailuresRemembered, OnlyFailedAreAvoided
  <2> QED
    BY <2>2, <2>4, <2>5, <2>6 DEF PoolOfIndex
<1>4. CASE Choose
  <2> DEFINE viable == configured \ recent
  <2>1. viable # {} => Min(viable) \in viable
    BY MinOfServers
  <2>2. dbserverindex' \in 0 .. NumServers
    BY <1>0, <1>4, <2>1 DEF Choose
  <2>3. PoolOfIndex'
    BY <1>4, <2>1 DEF Choose, PoolOfIndex
  <2> QED
    BY <1>4, <1>a, <1>b, <2>2, <2>3
    DEF Choose, FailuresRemembered, OnlyFailedAreAvoided
<1>5. CASE TestIndex
  BY <1>5, <1>a, <1>b
  DEF TestIndex, PoolOfIndex, FailuresRemembered, OnlyFailedAreAvoided
<1>6. CASE CreatePool \/ StartPool
  <2>1. dbserverindex \in Servers /\ (StartPool => server = dbserverindex)
    BY <1>6 DEF CreatePool, StartPool, PoolOfIndex
  <2>2. PoolOfIndex' /\ FailuresRemembered' /\ OnlyFailedAreAvoided'
    BY <1>6, <2>1
    DEF CreatePool, StartPool, PoolOfIndex, FailuresRemembered, OnlyFailedAreAvoided
  <2> QED
    BY <1>0, <1>6, <1>a, <1>b, <2>1, <2>2 DEF CreatePool, StartPool
<1>7. CASE LogServer
  BY <1>7, <1>a, <1>b
  DEF LogServer, PoolOfIndex, FailuresRemembered, OnlyFailedAreAvoided
<1>8. CASE CatchError
  BY <1>8, <1>a, <1>b
  DEF CatchError, PoolOfIndex, FailuresRemembered, OnlyFailedAreAvoided
<1> QED
  BY <1>1, <1>2, <1>3, <1>4, <1>5, <1>6, <1>7, <1>8 DEF Connect

(* Every other step. *)
LEMMA NextInv == Inv /\ [Next]_vars => Inv'
<1> SUFFICES ASSUME Inv, [Next]_vars PROVE Inv'
  OBVIOUS
<1> USE DatabaseAssumption DEF Inv, TypeOK, DatabaseTypeOK, history
<1>1. CASE CallConnect \/ Connect
  BY <1>1, ConnectInv
<1>2. CASE CallDisconnect
  BY <1>2, FS_EmptySet DEF CallDisconnect, Disconnect, Balanced, PoolOfIndex,
     FailuresRemembered, OnlyFailedAreAvoided
<1>3. CASE SigHup
  BY <1>3 DEF SigHup, Balanced, PoolOfIndex, FailuresRemembered, OnlyFailedAreAvoided
<1>4. ASSUME NEW s \in Servers, Age(s) PROVE Inv'
  BY <1>4 DEF Age, Balanced, PoolOfIndex, FailuresRemembered, OnlyFailedAreAvoided
<1>5. IsFiniteSet(holders) /\ Cardinality(holders) \in Nat
  BY UsersAssumption, FS_Subset, FS_CardinalityType
<1>6. ASSUME NEW u \in Users, Get(u) PROVE Inv'
  <2>1. Cardinality(holders') = Cardinality(holders) + 1
    BY <1>5, <1>6, FS_AddElement DEF Get
  <2>2. Balanced'
    BY <1>6, <2>1 DEF Get, GetConnection, HasConnectionPool, Balanced
  <2> QED
    BY <1>5, <1>6, <2>1, <2>2
    DEF Get, GetConnection, PoolOfIndex, FailuresRemembered, OnlyFailedAreAvoided
<1>7. ASSUME NEW u \in Users, Return(u) PROVE Inv'
  <2>1. Cardinality(holders') = Cardinality(holders) - 1
    BY <1>5, <1>7, FS_RemoveElement DEF Return
  <2>2. active' = active - 1 /\ UNCHANGED <<conpool, pc>>
    BY <1>7 DEF Return, ReturnConnection, HasConnectionPool, Balanced
  <2>3. active' = Cardinality(holders')
    BY <1>5, <2>1, <2>2 DEF Balanced
  <2>4. IsFiniteSet(holders') /\ holders' \subseteq Users
    BY <1>7, UsersAssumption, FS_Subset DEF Return
  <2>5. Balanced' /\ active' \in Nat
    BY <1>7, <2>2, <2>3, <2>4, FS_CardinalityType DEF Return, Balanced
  <2> QED
    BY <1>7, <2>4, <2>5
    DEF Return, ReturnConnection, PoolOfIndex, FailuresRemembered, OnlyFailedAreAvoided
<1>8. CASE UNCHANGED vars
  BY <1>8
  DEF vars, dbVars, Balanced, PoolOfIndex, FailuresRemembered, OnlyFailedAreAvoided
<1> QED
  BY <1>1, <1>2, <1>3, <1>4, <1>6, <1>7, <1>8 DEF Next

(* The strengthened invariant: types, balance of connections, whose pool   *)
(* there is, and the memory of failures, in both directions.               *)
THEOREM Invariance == Spec => []Inv
<1> QED
  BY InitInv, NextInv, PTL DEF Spec

(* No server is avoided that has not failed in the last 30 seconds,        *)
(* whatever dbserverindex holds before it is set and whenever a SIGHUP     *)
(* comes.                                                                  *)
THEOREM BlameIsRight == Spec => []OnlyFailedAreAvoided
<1>1. Inv => OnlyFailedAreAvoided
  BY DEF Inv
<1> QED
  BY <1>1, Invariance, PTL

(* connect() never chooses a server whose pool could not be created or     *)
(* started less than 30 seconds ago, nor the first one within 30 seconds   *)
(* of an unanswered ping.                                                  *)
THEOREM FailuresAvoided == Spec => FailedServerIsLeft
<1> DEFINE Avoided == refused \cup (silent \cap {0})
<1>1. ASSUME Inv, [Next]_vars, pc = "choose", pc' = "test"
      PROVE  dbserverindex' \notin Avoided
  <2>1. Choose
    BY <1>1 DEF Next, Connect, CallConnect, PingAnswers, PingFails, TestIndex,
                CreatePool, StartPool, LogServer, CatchError, CallDisconnect,
                SigHup, Age, Get, Return, Goto, vars
  <2>2. dbserverindex' \in configured \ recent
    BY <1>1, <2>1, MinOfServers DEF Choose, Goto, Inv, TypeOK
  <2> QED
    BY <1>1, <2>2 DEF Inv, FailuresRemembered
<1>2. Inv /\ [Next]_vars
        => [pc = "choose" /\ pc' = "test" => dbserverindex' \notin Avoided]_vars
  BY <1>1
<1> QED
  BY <1>2, Invariance, PTL DEF Spec, FailedServerIsLeft
=============================================================================
