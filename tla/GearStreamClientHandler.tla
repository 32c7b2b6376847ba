----------------------- MODULE GearStreamClientHandler -----------------------
(***************************************************************************)
(* GearStreamClientHandler::main: the handler of one client connection.    *)
(* It reads the stream in chunks of any size, keeps in `data` what it      *)
(* could not use yet, parses messages out of it, queues the queries and    *)
(* answers.  sendData's result is ignored by every caller, so `answers`    *)
(* holds what the handler tried to send.  GearClient adds the clients.     *)
(***************************************************************************)
EXTENDS GearProtocol, LockedQueue, TcpConnection

CONSTANTS
  StatusTexts,  \* the texts a status answer may have
  BUFSIZE,      \* recv() returns at most BUFSIZE - 1 bytes
  DATABUFSIZE   \* the size of the parse buffer

ASSUME HandlerAssumption ==
  /\ StatusTexts \subseteq Seq(0 .. 127)
  /\ BUFSIZE \in Nat /\ BUFSIZE > 1
  /\ DATABUFSIZE \in Nat /\ DATABUFSIZE >= BUFSIZE + MaxHeaderSize - 1

VARIABLES
  pc,
  data,     \* the valid bytes of the parse buffer: numbytes of them
  pos,      \* the next one to parse
  has_message_proto_, has_message_type_, has_message_header_,
  message_type_,
  payload_data, payload_data_size,
  answered,
  answers,  \* history: what was sent
  torn      \* history: a byte of a header was dropped

flags == <<has_message_proto_, has_message_type_, has_message_header_,
           message_type_>>
payload == <<payload_data, payload_data_size>>
handlerVars == <<messages, pc, data, pos, flags, payload, answered, answers, torn>>

HandlerTypeOK ==
  /\ messages \in Seq(Seq(Byte))
  /\ pc \in {"recv", "parse", "switch", "ack", "finish", "done"}
  /\ data \in Seq(Byte)
  /\ pos \in 0 .. Len(data)
  /\ has_message_proto_ \in BOOLEAN
  /\ has_message_type_ \in BOOLEAN
  /\ has_message_header_ \in BOOLEAN
  /\ message_type_ \in Byte
  /\ payload_data \in Seq(Byte)
  /\ payload_data_size \in Nat
  /\ answered \in BOOLEAN
  /\ answers \in Seq({"0", "1", "status"})
  /\ torn \in BOOLEAN

HandlerInit ==
  /\ messages = <<>>
  /\ pc = "recv"
  /\ data = <<>>
  /\ pos = 0
  /\ has_message_proto_ = FALSE
  /\ has_message_type_ = FALSE
  /\ has_message_header_ = FALSE
  /\ message_type_ = 15
  /\ payload_data = <<>>
  /\ payload_data_size = 0
  /\ answered = FALSE
  /\ answers = <<>>
  /\ torn = FALSE

Goto(from, to) == pc = from /\ pc' = to

-----------------------------------------------------------------------------
(* Mutant: SO_ERROR is not asked for. *)
SendUnchecked(bytes) == RawSend(bytes)

(* sendData: an error that is pending is reported once, and cleared.  Of   *)
(* what can happen between getsockopt() and send() only a reset makes a    *)
(* difference: what the peer does there it might have done before.         *)
SendData(bytes) ==
  \/ ~so_error /\ (RawSend(bytes) \/ SendMeetsReset)
  \/ so_error /\ so_error' = FALSE
     /\ UNCHANGED <<stream, rpos, inbox, peer, rst, sigpipe>>

Char0 == 48
Char1 == 49

(* The length of a status text is sent as one char.                        *)
Answer(a) ==
  /\ answers' = Append(answers, a)
  /\ CASE a = "0" -> SendData(<<Char0>>)
       [] a = "1" -> SendData(<<Char1>>)
       [] a = "status" -> \E text \in StatusTexts : SendData(<<Len(text) % 256>> \o text)

-----------------------------------------------------------------------------
(* recv(), and `numbytes += leftoversize`: the leftover is what data holds *)
(* between two chunks.                                                     *)

(* Mutant: the chunk is copied to the start of the buffer. *)
RecvForgetsLeftover(n) ==
  /\ Goto("recv", "parse")
  /\ RecvBytes(n)
  /\ data' = SubSeq(stream, rpos + 1, rpos + n)
  /\ UNCHANGED <<messages, pos, flags, payload, answered, answers, torn>>

Recv(n) ==
  /\ Goto("recv", "parse")
  /\ RecvBytes(n)
  /\ data' = data \o SubSeq(stream, rpos + 1, rpos + n)
  /\ UNCHANGED <<messages, pos, flags, payload, answered, answers, torn>>

(* Mutant: -1 is taken for 0. *)
RecvFailsKeeps ==
  /\ IF data # <<>> THEN Goto("recv", "parse") ELSE Goto("recv", "finish")
  /\ RecvError
  /\ UNCHANGED <<messages, data, pos, flags, payload, answered, answers, torn>>

(* recv() returns -1, which takes one byte off the leftover; the handler   *)
(* only gives up if none remains.                                          *)
RecvFails ==
  /\ RecvError
  /\ IF Len(data) > 1
       THEN /\ Goto("recv", "parse")
            /\ data' = SubSeq(data, 1, Len(data) - 1)
            /\ torn' = TRUE
       ELSE Goto("recv", "finish") /\ UNCHANGED <<data, torn>>
  /\ UNCHANGED <<messages, pos, flags, payload, answered, answers>>

(* recv() returns 0 and numbytes is the leftover.                          *)
RecvEnds ==
  /\ RecvZero
  /\ IF data # <<>> THEN Goto("recv", "parse") ELSE Goto("recv", "finish")
  /\ UNCHANGED <<messages, data, pos, flags, payload, answered, answers, torn>>

-----------------------------------------------------------------------------
(* while (pos < numbytes && !stop_) *)

More == pc = "parse" /\ pos < Len(data)

(* Mutant: pos is not reset. *)
KeepLeftoverAndPos ==
  /\ Goto("parse", "recv")
  /\ data' = SubSeq(data, pos + 1, Len(data))
  /\ UNCHANGED <<connVars, messages, pos, flags, payload, answered, answers, torn>>

(* What follows the loop: the bytes from pos on become the leftover.       *)
KeepLeftover ==
  /\ Goto("parse", "recv")
  /\ data' = SubSeq(data, pos + 1, Len(data))
  /\ pos' = 0
  /\ UNCHANGED <<connVars, messages, flags, payload, answered, answers, torn>>

ChunkDone == pos = Len(data) /\ KeepLeftover

ParseProto ==
  /\ More
  /\ ~has_message_proto_
  /\ pos' = pos + 1
  /\ IF ProtoOK(data[pos + 1])
       THEN /\ has_message_proto_' = TRUE
            /\ Answer("1")
            /\ UNCHANGED <<pc, answered>>
       ELSE /\ pc' = "finish"
            /\ Answer("0")
            /\ answered' = TRUE
            /\ UNCHANGED has_message_proto_
  /\ UNCHANGED <<messages, data, has_message_type_, has_message_header_,
                 message_type_, payload, torn>>

(* An unknown type is logged, and the byte after it is taken for a type.   *)
ParseType ==
  /\ More
  /\ has_message_proto_ /\ ~has_message_type_
  /\ message_type_' = data[pos + 1]
  /\ has_message_type_' = (message_type_' < N_NUMMSG)
  /\ pos' = pos + 1
  /\ UNCHANGED <<connVars, messages, pc, data, has_message_proto_,
                 has_message_header_, payload, answered, answers, torn>>

(* Mutant: < instead of <=. *)
HeaderPassed == pos + HeaderSize(message_type_) < Len(data)

HeaderComplete == pos + HeaderSize(message_type_) <= Len(data)

ParseHeader ==
  /\ More
  /\ has_message_type_ /\ ~has_message_header_
  /\ HeaderComplete
  /\ pc' = "switch"
  /\ has_message_header_' = TRUE
  /\ pos' = pos + HeaderSize(message_type_)
  /\ payload_data_size' = PayloadSize(SubSeq(data, pos + 1, pos'))
  /\ UNCHANGED <<connVars, messages, data, has_message_proto_, has_message_type_,
                 message_type_, payload_data, answered, answers, torn>>

(* Not enough data to parse the header: break.                             *)
HeaderMissing ==
  /\ More
  /\ has_message_type_ /\ ~has_message_header_
  /\ ~HeaderComplete
  /\ KeepLeftover

HeaderKnown ==
  /\ More
  /\ has_message_header_
  /\ pc' = "switch"
  /\ UNCHANGED <<connVars, messages, data, pos, flags, payload, answered,
                 answers, torn>>

-----------------------------------------------------------------------------
(* switch (message_type_) *)

MessageDone ==
  /\ has_message_type_' = FALSE
  /\ has_message_header_' = FALSE
  /\ payload_data' = <<>>
  /\ payload_data_size' = 0
  /\ UNCHANGED <<has_message_proto_, message_type_>>

(* N_CONNECT and N_CONTROL: nothing is done and nothing is reset.          *)
SwitchUnhandled ==
  /\ Goto("switch", "parse")
  /\ message_type_ \notin {N_STATUS, N_MYSQLDATA}
  /\ UNCHANGED <<connVars, messages, data, pos, flags, payload, answered,
                 answers, torn>>

SwitchStatus ==
  /\ Goto("switch", "parse")
  /\ message_type_ = N_STATUS
  /\ Answer("status")
  /\ answered' = TRUE
  /\ MessageDone
  /\ UNCHANGED <<messages, data, pos, torn>>

(* Mutant: what is there is acknowledged. *)
SwitchDataAcksEarly ==
  LET n == Min2(payload_data_size - Len(payload_data), Len(data) - pos)
  IN  /\ Goto("switch", "ack")
      /\ message_type_ = N_MYSQLDATA
      /\ pos' = pos + n
      /\ payload_data' = payload_data \o SubSeq(data, pos + 1, pos + n)
      /\ IF Len(payload_data') = payload_data_size
           THEN PushMessage(payload_data') ELSE UNCHANGED messages
      /\ UNCHANGED <<connVars, data, flags, payload_data_size, answered, answers,
                     torn>>

(* The payload bytes this chunk has; all of them are there when the sizes  *)
(* agree, and the query goes to the queue.                                 *)
SwitchData ==
  LET n == Min2(payload_data_size - Len(payload_data), Len(data) - pos)
  IN  /\ message_type_ = N_MYSQLDATA
      /\ pos' = pos + n
      /\ payload_data' = payload_data \o SubSeq(data, pos + 1, pos + n)
      /\ IF Len(payload_data') = payload_data_size
           THEN Goto("switch", "ack") /\ PushMessage(payload_data')
           ELSE Goto("switch", "parse") /\ UNCHANGED messages
      /\ UNCHANGED <<connVars, data, flags, payload_data_size, answered, answers,
                     torn>>

(* The acknowledgement, after addMessage has returned.                     *)
Acknowledge ==
  /\ Goto("ack", "parse")
  /\ Answer("1")
  /\ answered' = TRUE
  /\ MessageDone
  /\ UNCHANGED <<messages, data, pos, torn>>

(* After the loop: the last resort answer, and close().                    *)
Finish ==
  /\ Goto("finish", "done")
  /\ IF answered THEN UNCHANGED <<connVars, answers>> ELSE Answer("0")
  /\ UNCHANGED <<messages, data, pos, flags, payload, answered, torn>>

-----------------------------------------------------------------------------
RecvReturns ==
  /\ ~sigpipe
  /\ \/ \E n \in 1 .. Min2(BUFSIZE - 1, Unreceived) : Recv(n)
     \/ RecvFails
     \/ RecvEnds

HandlerStep ==
  /\ ~sigpipe
  /\ \/ ChunkDone \/ ParseProto \/ ParseType
     \/ ParseHeader \/ HeaderMissing \/ HeaderKnown
     \/ SwitchUnhandled \/ SwitchStatus \/ SwitchData \/ Acknowledge \/ Finish

-----------------------------------------------------------------------------
(* What a chunk leaves over is always less than the largest header, so the *)
(* next chunk fits behind it into the parse buffer.                        *)
LeftoverBounded ==
  pc = "recv" => /\ Len(data) < MaxHeaderSize
                 /\ Len(data) + BUFSIZE <= DATABUFSIZE

(* However recv() cuts the stream into chunks, what has been queued and    *)
(* answered is what the reference decoder makes of the bytes received, as  *)
(* long as no timeout has taken a byte out of a header.                    *)
ChunkingIrrelevant ==
  pc = "recv" /\ ~torn =>
    messages = Decode(Received).queries /\ answers = Decode(Received).answers

(* Every query is acknowledged once and after it was queued: the "1"s sent *)
(* are the one for the version and one per queued query.                   *)
Count(a) == Cardinality({i \in DOMAIN answers : answers[i] = a})

AckFollowsQueue ==
  Count("1") = (IF has_message_proto_ THEN 1 ELSE 0) + Len(messages)
               - (IF pc = "ack" THEN 1 ELSE 0)

(* A message of a type without handler is current.                         *)
Unhandled ==
  has_message_header_ /\ message_type_ \notin {N_STATUS, N_MYSQLDATA}

(* A client that stays connected and silent is left after some timeouts,   *)
(* whatever part of a message it has sent, unless that message has no      *)
(* handler.                                                                *)
SilentClientIsLeft == [](peer = "open" /\ ~Unhandled) => <>(pc = "done")

(* "client cleanup, however should solve itself over time as client        *)
(* connection becomes invalid?" (GearServer.cpp:64): the handler of a      *)
(* client that has gone ends.                                              *)
ClosedConnectionEnds == peer # "open" ~> pc = "done" \/ sigpipe
=============================================================================
