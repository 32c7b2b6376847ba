----------------------------- MODULE GearClient -----------------------------
(***************************************************************************)
(* The clients of a GearStreamClientHandler.  A foreign one sends one of   *)
(* the streams in StreamSet, or the start of it, and reads and closes as   *)
(* it likes.  The other is the PHP client (FafGear\Client on               *)
(* BasicStreamClient): connect(), then calls of submitSingleQuery() and    *)
(* getStatus(), then disconnect() or the end of the script.  Its reads     *)
(* block until there is something, and give up after two seconds.          *)
(***************************************************************************)
EXTENDS GearStreamClientHandler

CONSTANTS
  StreamSet,  \* what foreign clients may send
  Clients,    \* a subset of {"foreign", "submits", "asks"}; only "asks" calls getStatus
  MaxCalls    \* bound: the calls of a PHP script

ASSUME ClientAssumption ==
  /\ StreamSet \subseteq Seq(Byte)
  /\ Clients \subseteq {"foreign", "submits", "asks"}
  /\ MaxCalls \in Byte

VARIABLES
  client,   \* which kind it is
  cpc,      \* where the PHP client is
  want,     \* the length getStatus() reads
  calls,    \* the calls made; a query's text is its number
  success,  \* history: the queries for which submitSingleQuery() returned true
  closedAt  \* history: how many answers had been sent when the client closed

clientVars == <<client, cpc, want, calls, success, closedAt>>
vars == <<connVars, handlerVars, clientVars>>

TypeOK ==
  /\ ConnTypeOK
  /\ HandlerTypeOK
  /\ client \in Clients
  /\ cpc \in {"foreign", "new", "idle", "ack", "length", "text", "ended"}
  /\ want \in 0 .. 255
  /\ calls \in 0 .. MaxCalls
  /\ success \subseteq 1 .. MaxCalls
  /\ closedAt \in Nat

Init ==
  /\ HandlerInit
  /\ client \in Clients
  /\ \/ client = "foreign" /\ cpc = "foreign" /\ \E s \in StreamSet : Opened(s)
     \/ client # "foreign" /\ cpc = "new" /\ Opened(<<>>)
  /\ want = 0
  /\ calls = 0
  /\ success = {}
  /\ closedAt = 0

CGoto(from, to) == cpc = from /\ cpc' = to

-----------------------------------------------------------------------------
(* Client.php.  send(): all the bytes or, at the timeout, a part of them,  *)
(* which is a failure.                                                     *)

(* connect() sends the version and does not read the answer to it; a       *)
(* client whose version was not sent has no connection to use.             *)
PhpConnect ==
  /\ \/ CGoto("new", "idle") /\ PeerSends(<<1>>)
     \/ CGoto("new", "ended") /\ PeerSends(<<>>)
  /\ UNCHANGED <<handlerVars, client, want, calls, success, closedAt>>

PhpCall(message, next) ==
  /\ calls < MaxCalls
  /\ calls' = calls + 1
  /\ \/ CGoto("idle", next) /\ PeerSends(message)
     \/ /\ CGoto("idle", "idle")
        /\ \E k \in 0 .. Len(message) - 1 : PeerSends(SubSeq(message, 1, k))
  /\ UNCHANGED <<handlerVars, client, want, success, closedAt>>

PhpSubmit == PhpCall(<<N_MYSQLDATA, 1, 0, 0, 0, calls + 1>>, "ack")
PhpStatus == client = "asks" /\ PhpCall(<<N_STATUS, 0, 0, 0, 0>>, "length")

PhpReadAck ==
  /\ CGoto("ack", "idle")
  /\ inbox # <<>>
  /\ PeerReads(1)
  /\ success' = IF Head(inbox) = Char1 THEN success \cup {calls} ELSE success
  /\ UNCHANGED <<handlerVars, client, want, calls, closedAt>>

(* unpack("c"): a length above 127 would be negative, and read() would     *)
(* refuse it; so would it a length of zero.                                *)
PhpReadLength ==
  /\ inbox # <<>>
  /\ PeerReads(1)
  /\ want' = Head(inbox)
  /\ IF want' \in 1 .. 127 THEN CGoto("length", "text") ELSE CGoto("length", "idle")
  /\ UNCHANGED <<handlerVars, client, calls, success, closedAt>>

(* read() returns what is there, up to the length.                         *)
PhpReadText ==
  /\ CGoto("text", "idle")
  /\ inbox # <<>>
  /\ PeerReads(Min2(want, Len(inbox)))
  /\ UNCHANGED <<handlerVars, client, want, calls, success, closedAt>>

(* Two seconds without an answer, or the end of the connection.            *)
PhpReadFails ==
  /\ inbox = <<>>
  /\ \E from \in {"ack", "length", "text"} : CGoto(from, "idle")
  /\ UNCHANGED <<connVars, handlerVars, client, want, calls, success, closedAt>>

(* disconnect(), or the end of the script wherever it is.                  *)
PhpCloses ==
  /\ client # "foreign"
  /\ PeerCloses(Len(stream))
  /\ cpc' = "ended"
  /\ closedAt' = Len(answers)
  /\ UNCHANGED <<handlerVars, client, want, calls, success>>

-----------------------------------------------------------------------------
ForeignReads ==
  /\ client = "foreign"
  /\ inbox # <<>>
  /\ PeerReads(Len(inbox))
  /\ UNCHANGED <<handlerVars, clientVars>>

ForeignCloses ==
  /\ client = "foreign"
  /\ \E n \in rpos .. Len(stream) : PeerCloses(n)
  /\ closedAt' = Len(answers)
  /\ UNCHANGED <<handlerVars, client, cpc, want, calls, success>>

ClientStep ==
  \/ PhpConnect \/ PhpSubmit \/ PhpStatus
  \/ PhpReadAck \/ PhpReadLength \/ PhpReadText \/ PhpReadFails
  \/ PhpCloses \/ ForeignReads \/ ForeignCloses

Network == ResetArrives /\ UNCHANGED <<handlerVars, clientVars>>

Next ==
  \/ (RecvReturns \/ HandlerStep) /\ UNCHANGED clientVars
  \/ ~sigpipe /\ (ClientStep \/ Network)

(* The handler's thread runs, and recv() returns, at the latest by its     *)
(* timeout.  Clients do what they like.                                    *)
Fairness ==
  /\ WF_vars(RecvReturns /\ UNCHANGED clientVars)
  /\ WF_vars(HandlerStep /\ UNCHANGED clientVars)

Spec == Init /\ [][Next]_vars /\ Fairness

-----------------------------------------------------------------------------
(* The daemon is ended by a SIGPIPE only if its client closed with answers *)
(* unread or left requests behind.  The first send provokes the reset.  If *)
(* it is there when SO_ERROR is asked for, the second is told of it and    *)
(* the third hits it; if it comes between that test and send(), the second *)
(* does.  A client that reads its answers and has no more than one request *)
(* outstanding can always close without harm.                              *)
OnlyLeftoversKill ==
  [][sigpipe' /\ ~sigpipe =>
       \/ peer = "aborted"
       \/ Len(answers') >= closedAt + (IF rst = "here" THEN 3 ELSE 2)]_vars

(* Until a status request is answered, submitSingleQuery() returns true at *)
(* most once more often than a query was queued: the answer to the version *)
(* is taken for the first acknowledgement, so every call is told of the    *)
(* one before, but no call succeeds on nothing.  (A status answer can hold *)
(* '1's, and comes unasked when the bytes of a query that was sent in part *)
(* are read as a request.)                                                 *)
SuccessLagsByOne ==
  (\A i \in DOMAIN answers : answers[i] # "status")
    => Cardinality(success) <= 1 + Len(messages)

(* `if('1' == $checkResult['data']) { $success = true; }` (Client.php:     *)
(* 101): a query that was reported as submitted has been queued.           *)
SubmittedIsQueued ==
  \A q \in success : \E i \in DOMAIN messages : messages[i] = <<q>>
=============================================================================
