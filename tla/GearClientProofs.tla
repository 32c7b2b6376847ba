---------------------------- MODULE GearClientProofs ----------------------------
(***************************************************************************)
(* Proofs about GearClient and the handler it composes, for every stream,  *)
(* every cut of it into chunks, every status text and any number of calls: *)
(* the types, that the parse buffer never overflows, that the answers and  *)
(* the queue agree, what a client may believe, what a send() to a client   *)
(* that has gone takes, and that the handler reads from the stream what a  *)
(* decoder of the whole stream does.                                       *)
(***************************************************************************)
EXTENDS GearClient, Induction, SequenceTheorems, FiniteSetTheorems, TLAPS

(* The parts of the inductive invariant.  Between two chunks nothing is    *)
(* parsed, and the payload read so far never exceeds what its header       *)
(* announces, which makes the rest a number.                               *)
Bookkeeping ==
  /\ pc = "recv" => pos = 0
  /\ pc = "switch" => has_message_header_
  /\ Len(payload_data) <= payload_data_size
  /\ ~has_message_header_ => payload_data = <<>>

CallMade == cpc = "ack" => calls > 0

Char == 0 .. 255
BytesOnly == stream \in Seq(Byte) /\ inbox \in Seq(Char)

Inv ==
  /\ TypeOK
  /\ BytesOnly
  /\ Bookkeeping
  /\ LeftoverBounded
  /\ CallMade

-----------------------------------------------------------------------------
(* Sequences.                                                              *)
LEMMA Part ==
  ASSUME NEW S, NEW s \in Seq(S), NEW m \in Nat, NEW n \in Nat,
         m > 0, n <= Len(s)
  PROVE  /\ SubSeq(s, m, n) \in Seq(S)
         /\ Len(SubSeq(s, m, n)) = IF m <= n THEN n - m + 1 ELSE 0
BY SubSeqProperties, LenProperties

LEMMA Joined ==
  ASSUME NEW S, NEW s \in Seq(S), NEW t \in Seq(S)
  PROVE  s \o t \in Seq(S) /\ Len(s \o t) = Len(s) + Len(t)
BY ConcatProperties

LEMMA Minimum ==
  ASSUME NEW a \in Nat, NEW b \in Nat
  PROVE  Min2(a, b) \in Nat /\ Min2(a, b) <= a /\ Min2(a, b) <= b
BY DEF Min2

LEMMA SeqsOfBytes ==
  /\ Seq(Byte) \subseteq Seq(Char)
  /\ Seq(Char) \subseteq Seq(Nat)
<1>1. Byte \subseteq Char /\ Char \subseteq Nat
  BY DEF Byte, Char
<1> QED
  BY <1>1, SeqMonotonic

-----------------------------------------------------------------------------
(* The connection.                                                         *)
LEMMA SendConn ==
  ASSUME ConnTypeOK, BytesOnly, NEW b \in Seq(Char), SendData(b)
  PROVE  ConnTypeOK' /\ BytesOnly'
<1>1. inbox \o b \in Seq(Char) /\ Seq(Char) \subseteq Seq(Nat)
  BY Joined, SeqsOfBytes DEF BytesOnly
<1>2. CASE RawSend(b)
  BY <1>1, <1>2 DEF RawSend, ConnTypeOK, BytesOnly
<1>3. CASE so_error' = FALSE /\ UNCHANGED <<stream, rpos, inbox, peer, rst, sigpipe>>
  BY <1>3 DEF ConnTypeOK, BytesOnly
<1>4. CASE SendMeetsReset
  BY <1>4 DEF SendMeetsReset, ConnTypeOK, BytesOnly
<1> QED
  BY <1>2, <1>3, <1>4 DEF SendData

LEMMA AnswerConn ==
  ASSUME Inv, NEW a \in {"0", "1", "status"}, Answer(a)
  PROVE  /\ ConnTypeOK' /\ BytesOnly'
         /\ answers' = Append(answers, a)
         /\ answers' \in Seq({"0", "1", "status"})
<1>1. answers' = Append(answers, a) /\ answers' \in Seq({"0", "1", "status"})
  BY AppendProperties DEF Answer, Inv, TypeOK, HandlerTypeOK
<1>2. ASSUME NEW b \in Seq(Char), SendData(b) PROVE ConnTypeOK' /\ BytesOnly'
  BY <1>2, SendConn DEF Inv, TypeOK
<1>3. <<Char0>> \in Seq(Char) /\ <<Char1>> \in Seq(Char)
  BY DEF Char0, Char1, Char
<1>4. ASSUME NEW text \in StatusTexts PROVE <<Len(text) % 256>> \o text \in Seq(Char)
  <2>1. text \in Seq(0 .. 127) /\ Len(text) \in Nat
    BY HandlerAssumption, LenProperties
  <2>2. text \in Seq(Char)
    BY <2>1, SeqsOfBytes DEF Byte
  <2>3. Len(text) % 256 \in Char
    <3>1. \A n \in Nat : n % 256 \in 0 .. 255
      OBVIOUS
    <3> QED
      BY <2>1, <3>1 DEF Char
  <2>4. \A c \in Char : <<c>> \in Seq(Char)
    OBVIOUS
  <2> QED
    BY <2>2, <2>3, <2>4, Joined
<1> QED
  BY <1>1, <1>2, <1>3, <1>4 DEF Answer

LEMMA RecvConn ==
  ASSUME ConnTypeOK, BytesOnly, NEW n \in Nat, n <= Unreceived, RecvBytes(n)
  PROVE  ConnTypeOK' /\ BytesOnly'
<1>1. Len(stream) \in Nat /\ rpos \in Nat
  BY LenProperties DEF ConnTypeOK
<1> QED
  BY <1>1 DEF ConnTypeOK, BytesOnly, RecvBytes, Unreceived

LEMMA QuietConn ==
  ASSUME ConnTypeOK, BytesOnly,
         RecvError \/ RecvZero \/ ResetArrives \/ UNCHANGED connVars
  PROVE  ConnTypeOK' /\ BytesOnly'
BY DEF ConnTypeOK, BytesOnly, RecvError, RecvZero, ResetArrives, connVars

LEMMA PeerSendsConn ==
  ASSUME ConnTypeOK, BytesOnly, NEW b \in Seq(Byte), PeerSends(b)
  PROVE  ConnTypeOK' /\ BytesOnly'
<1>1. /\ stream \o b \in Seq(Byte)
      /\ Len(stream \o b) = Len(stream) + Len(b)
      /\ Len(stream) \in Nat /\ Len(b) \in Nat
  BY Joined, LenProperties DEF BytesOnly
<1>2. Seq(Byte) \subseteq Seq(Nat)
  BY SeqsOfBytes
<1> QED
  BY <1>1, <1>2 DEF PeerSends, ConnTypeOK, BytesOnly

LEMMA PeerReadsConn ==
  ASSUME ConnTypeOK, BytesOnly, NEW n \in Nat, n <= Len(inbox), PeerReads(n)
  PROVE  ConnTypeOK' /\ BytesOnly'
<1>1. Len(inbox) \in Nat
  BY LenProperties DEF BytesOnly
<1>2. SubSeq(inbox, n + 1, Len(inbox)) \in Seq(Char)
  BY <1>1, Part DEF BytesOnly
<1>3. Seq(Char) \subseteq Seq(Nat)
  BY SeqsOfBytes
<1> QED
  BY <1>2, <1>3 DEF PeerReads, ConnTypeOK, BytesOnly

LEMMA PeerClosesConn ==
  ASSUME ConnTypeOK, BytesOnly, NEW n \in rpos .. Len(stream), PeerCloses(n)
  PROVE  ConnTypeOK' /\ BytesOnly'
<1>1. Len(stream) \in Nat /\ rpos \in Nat
  BY LenProperties DEF ConnTypeOK
<1>2. SubSeq(stream, 1, n) \in Seq(Byte) /\ Len(SubSeq(stream, 1, n)) = n
  BY <1>1, Part DEF BytesOnly
<1>3. Seq(Byte) \subseteq Seq(Nat) /\ <<>> \in Seq(Char) /\ <<>> \in Seq(Nat)
  BY SeqsOfBytes
<1> QED
  BY <1>1, <1>2, <1>3 DEF PeerCloses, ConnTypeOK, BytesOnly

-----------------------------------------------------------------------------
(* The handler: recv() and the bytes it leaves in the buffer.              *)
HandlerInv == HandlerTypeOK /\ Bookkeeping /\ LeftoverBounded

LEMMA RecvHandler ==
  ASSUME Inv, RecvReturns
  PROVE  ConnTypeOK' /\ BytesOnly' /\ HandlerInv'
<1> USE DEF Inv, TypeOK, HandlerTypeOK
<1>0. /\ Len(stream) \in Nat /\ Len(data) \in Nat /\ rpos \in 0 .. Len(stream)
      /\ Unreceived \in Nat /\ BUFSIZE \in Nat /\ BUFSIZE - 1 \in Nat
  BY HandlerAssumption, LenProperties DEF ConnTypeOK, Unreceived
<1>a. ASSUME pc' = "parse" \/ pc' = "finish", data' \in Seq(Byte), Len(data) \in Nat,
             pos \in 0 .. Len(data'),
             UNCHANGED <<messages, pos, flags, payload, answered, answers>>,
             torn' \in BOOLEAN
      PROVE  HandlerInv'
  BY <1>a DEF HandlerInv, Bookkeeping, LeftoverBounded, flags, payload
<1>b. pc = "recv"
  BY DEF RecvReturns, Recv, RecvFails, RecvEnds, Goto
<1>1. ASSUME NEW n \in 1 .. Min2(BUFSIZE - 1, Unreceived), Recv(n)
      PROVE  ConnTypeOK' /\ BytesOnly' /\ HandlerInv'
  <2>1. n \in Nat /\ n > 0 /\ n <= Unreceived
    <3>1. /\ Min2(BUFSIZE - 1, Unreceived) \in Nat
          /\ Min2(BUFSIZE - 1, Unreceived) <= Unreceived
      BY <1>0, Minimum
    <3> QED
      BY <1>0, <3>1
  <2>2. ConnTypeOK' /\ BytesOnly'
    BY <1>1, <2>1, RecvConn DEF Recv
  <2>3. SubSeq(stream, rpos + 1, rpos + n) \in Seq(Byte)
    <3>1. /\ rpos + 1 \in Nat /\ rpos + 1 > 0
          /\ rpos + n \in Nat /\ rpos + n <= Len(stream)
      BY <1>0, <2>1 DEF Unreceived
    <3>2. stream \in Seq(Byte)
      BY DEF BytesOnly
    <3> QED
      BY <3>1, <3>2, Part
  <2>4. data' \in Seq(Byte) /\ Len(data') >= Len(data)
    <3>1. data' = data \o SubSeq(stream, rpos + 1, rpos + n)
      BY <1>1 DEF Recv
    <3>2. Len(SubSeq(stream, rpos + 1, rpos + n)) \in Nat
      BY <2>3, LenProperties
    <3> QED
      BY <1>0, <2>3, <3>1, <3>2, Joined
  <2>5. Len(data') \in Nat
    BY <2>4, LenProperties
  <2>6. pos \in 0 .. Len(data')
    BY <1>0, <2>4, <2>5
  <2> QED
    BY <1>a, <1>0, <1>1, <2>2, <2>4, <2>6 DEF Recv, Goto
<1>2. CASE RecvFails
  <2>1. ConnTypeOK' /\ BytesOnly'
    BY <1>2, QuietConn DEF RecvFails
  <2>2. CASE Len(data) > 1
    <3>1. /\ SubSeq(data, 1, Len(data) - 1) \in Seq(Byte)
          /\ Len(SubSeq(data, 1, Len(data) - 1)) = Len(data) - 1
      BY <1>0, <2>2, Part
    <3>2. pos = 0
      BY <1>b DEF Bookkeeping
    <3>3. pos \in 0 .. Len(data')
      BY <1>0, <1>2, <2>2, <3>1, <3>2 DEF RecvFails
    <3> QED
      BY <1>a, <1>0, <1>2, <2>1, <2>2, <3>1, <3>3 DEF RecvFails, Goto
  <2>3. CASE ~(Len(data) > 1)
    BY <1>a, <1>0, <1>2, <2>1, <2>3 DEF RecvFails, Goto
  <2> QED
    BY <2>2, <2>3
<1>3. CASE RecvEnds
  <2>1. ConnTypeOK' /\ BytesOnly'
    BY <1>3, QuietConn DEF RecvEnds
  <2> QED
    BY <1>a, <1>0, <1>3, <2>1 DEF RecvEnds, Goto
<1> QED
  BY <1>1, <1>2, <1>3 DEF RecvReturns

(* A step that leaves buffer and payload alone, away from recv().          *)
LEMMA CalmHandler ==
  ASSUME Inv, UNCHANGED <<messages, data, flags, payload, torn>>,
         pos' = pos, pc' \in {"parse", "finish", "done"},
         answered' \in BOOLEAN, answers' \in Seq({"0", "1", "status"})
  PROVE  HandlerInv'
BY DEF Inv, TypeOK, HandlerInv, HandlerTypeOK, Bookkeeping, LeftoverBounded, flags,
       payload

(* What is left over stays below the largest header.                       *)
LEMMA LeftoverHandler ==
  ASSUME Inv, KeepLeftover,
         pos = Len(data) \/ pos + HeaderSize(message_type_) > Len(data)
  PROVE  ConnTypeOK' /\ BytesOnly' /\ HandlerInv'
<1>1. Len(data) \in Nat /\ data \in Seq(Byte) /\ pos \in 0 .. Len(data)
  BY LenProperties DEF Inv, TypeOK, HandlerTypeOK
<1>2. /\ data' \in Seq(Byte)
      /\ Len(data') = Len(data) - pos
  <2>1. /\ pos + 1 \in Nat /\ pos + 1 > 0
        /\ data' = SubSeq(data, pos + 1, Len(data))
    BY <1>1 DEF KeepLeftover
  <2> QED
    BY <1>1, <2>1, Part
<1>3. HeaderSize(message_type_) \in Nat /\ HeaderSize(message_type_) <= MaxHeaderSize
  BY DEF HeaderSize, MaxHeaderSize
<1>4. Len(data') < MaxHeaderSize
  BY <1>1, <1>2, <1>3 DEF MaxHeaderSize
<1>5. Len(data') \in Nat /\ Len(data') + BUFSIZE <= DATABUFSIZE
  BY <1>2, <1>4, HandlerAssumption, LenProperties DEF MaxHeaderSize
<1>6. ConnTypeOK' /\ BytesOnly'
  BY QuietConn DEF KeepLeftover, Inv, TypeOK
<1>7. HandlerTypeOK'
  BY <1>2, <1>5 DEF KeepLeftover, Goto, Inv, TypeOK, HandlerTypeOK, flags, payload
<1>8. Bookkeeping' /\ LeftoverBounded'
  BY <1>4, <1>5 DEF KeepLeftover, Goto, Inv, Bookkeeping, LeftoverBounded, flags, payload
<1> QED
  BY <1>6, <1>7, <1>8 DEF HandlerInv

(* The header announces a number.                                          *)
LEMMA PayloadSizeNat ==
  ASSUME NEW h \in Seq(Byte), Len(h) >= 4
  PROVE  PayloadSize(h) \in Nat
<1>1. Len(h) \in Nat
  BY LenProperties
<1>2. \A i \in 1 .. 4 : h[i] \in Nat
  <2>1. \A i \in 1 .. Len(h) : h[i] \in Byte
    BY ElementOfSeq
  <2>2. \A i \in 1 .. 4 : i \in 1 .. Len(h)
    BY <1>1
  <2>3. \A b \in Byte : b \in Nat
    BY DEF Byte
  <2> QED
    BY <2>1, <2>2, <2>3
<1> QED
  BY <1>2 DEF PayloadSize

LEMMA HeaderHandler ==
  ASSUME Inv, ParseHeader
  PROVE  ConnTypeOK' /\ BytesOnly' /\ HandlerInv'
<1>1. /\ Len(data) \in Nat /\ data \in Seq(Byte) /\ pos \in 0 .. Len(data)
      /\ HeaderSize(message_type_) \in Nat /\ HeaderSize(message_type_) >= 4
      /\ pos' = pos + HeaderSize(message_type_) /\ pos' <= Len(data)
  BY LenProperties DEF Inv, TypeOK, HandlerTypeOK, ParseHeader, HeaderComplete,
                       HeaderSize
<1>2. /\ SubSeq(data, pos + 1, pos') \in Seq(Byte)
      /\ Len(SubSeq(data, pos + 1, pos')) >= 4
  <2>1. pos + 1 \in Nat /\ pos' \in Nat /\ pos + 1 > 0 /\ pos + 1 <= pos'
    BY <1>1
  <2>2. /\ SubSeq(data, pos + 1, pos') \in Seq(Byte)
        /\ Len(SubSeq(data, pos + 1, pos')) = pos' - (pos + 1) + 1
    BY <1>1, <2>1, Part
  <2> QED
    BY <1>1, <2>1, <2>2
<1>3. payload_data_size' \in Nat
  BY <1>2, PayloadSizeNat DEF ParseHeader
<1>4. ConnTypeOK' /\ BytesOnly'
  BY QuietConn DEF ParseHeader, Inv, TypeOK
<1>5. HandlerTypeOK'
  BY <1>1, <1>3 DEF ParseHeader, Inv, TypeOK, HandlerTypeOK
<1>6. payload_data' = <<>> /\ Len(payload_data') = 0
  BY DEF ParseHeader, Inv, Bookkeeping
<1>7. Bookkeeping' /\ LeftoverBounded'
  BY <1>3, <1>6 DEF ParseHeader, Bookkeeping, LeftoverBounded
<1> QED
  BY <1>4, <1>5, <1>7 DEF HandlerInv

LEMMA DataHandler ==
  ASSUME Inv, SwitchData
  PROVE  ConnTypeOK' /\ BytesOnly' /\ HandlerInv'
<1> DEFINE n == Min2(payload_data_size - Len(payload_data), Len(data) - pos)
<1>1. /\ Len(data) \in Nat /\ data \in Seq(Byte) /\ pos \in 0 .. Len(data)
      /\ Len(payload_data) \in Nat /\ payload_data \in Seq(Byte)
      /\ payload_data_size \in Nat /\ Len(payload_data) <= payload_data_size
  BY LenProperties DEF Inv, TypeOK, HandlerTypeOK, Bookkeeping
<1>2. n \in Nat /\ n <= payload_data_size - Len(payload_data) /\ n <= Len(data) - pos
  <2>1. payload_data_size - Len(payload_data) \in Nat /\ Len(data) - pos \in Nat
    BY <1>1
  <2> QED
    BY <2>1, Minimum
<1>3. /\ pc = "switch" /\ pos' = pos + n
      /\ payload_data' = payload_data \o SubSeq(data, pos + 1, pos + n)
      /\ UNCHANGED <<connVars, data, flags, payload_data_size, answered, answers, torn>>
  BY DEF SwitchData, Goto
<1>4. \/ pc' = "ack" /\ messages' = Append(messages, payload_data')
      \/ pc' = "parse" /\ UNCHANGED messages
  BY DEF SwitchData, Goto, PushMessage
<1> HIDE DEF n
<1>5. /\ SubSeq(data, pos + 1, pos + n) \in Seq(Byte)
      /\ Len(SubSeq(data, pos + 1, pos + n)) = n
  <2>1. pos + 1 \in Nat /\ pos + 1 > 0 /\ pos + n \in Nat /\ pos + n <= Len(data)
    BY <1>1, <1>2
  <2>2. /\ SubSeq(data, pos + 1, pos + n) \in Seq(Byte)
        /\ Len(SubSeq(data, pos + 1, pos + n)) =
             IF pos + 1 <= pos + n THEN (pos + n) - (pos + 1) + 1 ELSE 0
    BY <1>1, <2>1, Part
  <2> QED
    BY <1>1, <1>2, <2>2
<1>6. payload_data' \in Seq(Byte) /\ Len(payload_data') = Len(payload_data) + n
  BY <1>1, <1>3, <1>5, Joined
<1>7. ConnTypeOK' /\ BytesOnly'
  BY <1>3, QuietConn DEF Inv, TypeOK
<1>8. messages' \in Seq(Seq(Byte))
  <2> DEFINE Query == Seq(Byte)
  <2>1. messages \in Seq(Query) /\ payload_data' \in Query
    BY <1>6 DEF Inv, TypeOK, HandlerTypeOK
  <2> HIDE DEF Query
  <2>2. messages' \in Seq(Query)
    BY <1>4, <2>1, AppendProperties
  <2> QED
    BY <2>2 DEF Query
<1>9. pos' \in 0 .. Len(data) /\ Len(payload_data') <= payload_data_size
  BY <1>1, <1>2, <1>3, <1>6
<1>10. HandlerTypeOK'
  BY <1>3, <1>4, <1>6, <1>8, <1>9 DEF Inv, TypeOK, HandlerTypeOK, flags
<1>11. Bookkeeping' /\ LeftoverBounded'
  BY <1>3, <1>4, <1>9 DEF Inv, Bookkeeping, LeftoverBounded, flags
<1> QED
  BY <1>7, <1>10, <1>11 DEF HandlerInv

(* A message that is answered and done with.                               *)
LEMMA DoneHandler ==
  ASSUME Inv, SwitchStatus \/ Acknowledge
  PROVE  ConnTypeOK' /\ BytesOnly' /\ HandlerInv'
<1>1. /\ \E a \in {"0", "1", "status"} : Answer(a)
      /\ MessageDone /\ answered' = TRUE /\ pc' = "parse"
      /\ UNCHANGED <<messages, data, pos, torn>>
  BY DEF SwitchStatus, Acknowledge, Goto
<1>2. /\ ConnTypeOK' /\ BytesOnly'
      /\ answers' \in Seq({"0", "1", "status"})
  BY <1>1, AnswerConn
<1>3. payload_data' = <<>> /\ Len(payload_data') = 0 /\ <<>> \in Seq(Byte)
  BY <1>1 DEF MessageDone
<1>4. HandlerTypeOK'
  BY <1>1, <1>2, <1>3 DEF MessageDone, Inv, TypeOK, HandlerTypeOK
<1>5. Bookkeeping' /\ LeftoverBounded'
  BY <1>1, <1>3 DEF MessageDone, Bookkeeping, LeftoverBounded
<1> QED
  BY <1>2, <1>4, <1>5 DEF HandlerInv

LEMMA StepHandler ==
  ASSUME Inv, HandlerStep
  PROVE  ConnTypeOK' /\ BytesOnly' /\ HandlerInv'
<1>0. /\ Len(data) \in Nat /\ data \in Seq(Byte) /\ pos \in 0 .. Len(data)
  BY LenProperties DEF Inv, TypeOK, HandlerTypeOK
<1>1. CASE ChunkDone \/ HeaderMissing
  <2>1. KeepLeftover /\ (pos = Len(data) \/ pos + HeaderSize(message_type_) > Len(data))
    BY <1>0, <1>1 DEF ChunkDone, HeaderMissing, HeaderComplete, HeaderSize
  <2> QED
    BY <2>1, LeftoverHandler
<1>2. CASE ParseProto
  <2>1. /\ \E a \in {"0", "1", "status"} : Answer(a)
        /\ pc = "parse" /\ pos' \in 0 .. Len(data)
        /\ pc' \in {"parse", "finish"} /\ answered' \in BOOLEAN
        /\ has_message_proto_' \in BOOLEAN
        /\ UNCHANGED <<messages, data, has_message_type_, has_message_header_,
                       message_type_, payload, torn>>
    <3>1. pc = "parse" /\ pos' \in 0 .. Len(data)
      BY <1>0, <1>2 DEF ParseProto, More
    <3>2. CASE ProtoOK(data[pos + 1])
      BY <1>2, <3>1, <3>2 DEF ParseProto, Inv, TypeOK, HandlerTypeOK
    <3>3. CASE ~ProtoOK(data[pos + 1])
      BY <1>2, <3>1, <3>3 DEF ParseProto, Inv, TypeOK, HandlerTypeOK
    <3> QED
      BY <3>2, <3>3
  <2>2. /\ ConnTypeOK' /\ BytesOnly'
        /\ answers' \in Seq({"0", "1", "status"})
    BY <2>1, AnswerConn
  <2>3. HandlerTypeOK'
    BY <2>1, <2>2 DEF Inv, TypeOK, HandlerTypeOK, payload
  <2>4. Bookkeeping' /\ LeftoverBounded'
    BY <2>1 DEF Inv, Bookkeeping, LeftoverBounded, payload
  <2> QED
    BY <2>2, <2>3, <2>4 DEF HandlerInv
<1>3. CASE ParseType
  <2>1. ConnTypeOK' /\ BytesOnly'
    BY <1>3, QuietConn DEF ParseType, Inv, TypeOK
  <2>2. message_type_' \in Byte /\ pos' \in 0 .. Len(data) /\ has_message_type_' \in BOOLEAN
    <3>1. pos + 1 \in 1 .. Len(data)
      BY <1>0, <1>3 DEF ParseType, More
    <3>2. data[pos + 1] \in Byte
      BY <1>0, <3>1, ElementOfSeq
    <3> QED
      BY <1>0, <1>3, <3>1, <3>2 DEF ParseType
  <2>3. HandlerTypeOK'
    BY <1>3, <2>2 DEF ParseType, Inv, TypeOK, HandlerTypeOK, payload
  <2>4. Bookkeeping' /\ LeftoverBounded'
    BY <1>3 DEF ParseType, More, Inv, Bookkeeping, LeftoverBounded, payload
  <2> QED
    BY <2>1, <2>3, <2>4 DEF HandlerInv
<1>4. CASE ParseHeader
  BY <1>4, HeaderHandler
<1>5. CASE HeaderKnown
  <2>1. ConnTypeOK' /\ BytesOnly'
    BY <1>5, QuietConn DEF HeaderKnown, Inv, TypeOK
  <2>2. HandlerInv'
    BY <1>5 DEF HeaderKnown, Inv, TypeOK, HandlerInv, HandlerTypeOK, Bookkeeping,
                LeftoverBounded, flags, payload
  <2> QED
    BY <2>1, <2>2
<1>6. CASE SwitchUnhandled
  <2>1. ConnTypeOK' /\ BytesOnly'
    BY <1>6, QuietConn DEF SwitchUnhandled, Inv, TypeOK
  <2>2. HandlerInv'
    BY <1>6, CalmHandler DEF SwitchUnhandled, Goto, Inv, TypeOK, HandlerTypeOK
  <2> QED
    BY <2>1, <2>2
<1>7. CASE SwitchStatus \/ Acknowledge
  BY <1>7, DoneHandler
<1>8. CASE SwitchData
  BY <1>8, DataHandler
<1>9. CASE Finish
  <2>1. /\ UNCHANGED <<connVars, answers>> \/ Answer("0")
        /\ UNCHANGED <<messages, data, pos, flags, payload, answered, torn>>
        /\ pc' = "done"
    BY <1>9 DEF Finish, Goto
  <2>2. /\ ConnTypeOK' /\ BytesOnly'
        /\ answers' \in Seq({"0", "1", "status"})
    BY <2>1, QuietConn, AnswerConn DEF Inv, TypeOK, HandlerTypeOK
  <2>3. HandlerInv'
    BY <2>1, <2>2, CalmHandler DEF Inv, TypeOK, HandlerTypeOK
  <2> QED
    BY <2>2, <2>3
<1> QED
  BY <1>1, <1>2, <1>3, <1>4, <1>5, <1>6, <1>7, <1>8, <1>9 DEF HandlerStep

LEMMA IdleHandler ==
  ASSUME Inv, UNCHANGED handlerVars
  PROVE  HandlerInv'
BY DEF Inv, TypeOK, HandlerInv, HandlerTypeOK, Bookkeeping, LeftoverBounded, handlerVars,
       flags, payload

-----------------------------------------------------------------------------
(* The clients.                                                            *)
ClientTypeOK ==
  /\ client \in Clients
  /\ cpc \in {"foreign", "new", "idle", "ack", "length", "text", "ended"}
  /\ want \in 0 .. 255
  /\ calls \in 0 .. MaxCalls
  /\ success \subseteq 1 .. MaxCalls
  /\ closedAt \in Nat

LEMMA CallConn ==
  ASSUME Inv, NEW m \in Seq(Byte), NEW next \in {"ack", "length"}, PhpCall(m, next)
  PROVE  ConnTypeOK' /\ BytesOnly' /\ ClientTypeOK' /\ CallMade'
<1>1. Len(m) \in Nat /\ MaxCalls \in Nat
  BY ClientAssumption, LenProperties DEF Byte
<1>2. ASSUME NEW b \in Seq(Byte), PeerSends(b) PROVE ConnTypeOK' /\ BytesOnly'
  BY <1>2, PeerSendsConn DEF Inv, TypeOK
<1>3. ASSUME NEW k \in 0 .. Len(m) - 1 PROVE SubSeq(m, 1, k) \in Seq(Byte)
  BY <1>1, Part
<1>4. ConnTypeOK' /\ BytesOnly'
  BY <1>2, <1>3 DEF PhpCall
<1>5. ClientTypeOK'
  BY <1>1 DEF PhpCall, CGoto, ClientTypeOK, Inv, TypeOK
<1>6. CallMade'
  BY <1>1 DEF PhpCall, CallMade, Inv, TypeOK
<1> QED
  BY <1>4, <1>5, <1>6

LEMMA ReadConn ==
  ASSUME Inv, inbox # <<>>, NEW n \in 1 .. Len(inbox), PeerReads(n)
  PROVE  ConnTypeOK' /\ BytesOnly' /\ Head(inbox) \in Char
<1>1. Len(inbox) \in Nat /\ inbox \in Seq(Char)
  BY LenProperties DEF Inv, BytesOnly
<1>2. n \in Nat /\ n <= Len(inbox)
  BY <1>1
<1>3. ConnTypeOK' /\ BytesOnly'
  BY <1>2, PeerReadsConn DEF Inv, TypeOK
<1> QED
  BY <1>1, <1>3, HeadTailProperties

LEMMA ClientInv ==
  ASSUME Inv, ClientStep
  PROVE  ConnTypeOK' /\ BytesOnly' /\ HandlerInv' /\ ClientTypeOK' /\ CallMade'
<1>0. /\ HandlerTypeOK /\ ConnTypeOK /\ BytesOnly /\ ClientTypeOK /\ CallMade
      /\ Len(inbox) \in Nat /\ Len(answers) \in Nat /\ Len(stream) \in Nat
      /\ MaxCalls \in Byte
  BY ClientAssumption, LenProperties
     DEF Inv, TypeOK, ClientTypeOK, HandlerTypeOK, ConnTypeOK
<1>1. inbox # <<>> => 1 \in 1 .. Len(inbox) /\ Len(inbox) \in 1 .. Len(inbox)
  BY <1>0, EmptySeq DEF BytesOnly
<1>2. CASE PhpConnect
  <2>1. <<1>> \in Seq(Byte) /\ <<>> \in Seq(Byte)
    BY DEF Byte
  <2>2. ConnTypeOK' /\ BytesOnly'
    BY <1>0, <1>2, <2>1, PeerSendsConn DEF PhpConnect
  <2>3. ClientTypeOK' /\ CallMade'
    BY <1>0, <1>2 DEF PhpConnect, CGoto, ClientTypeOK, CallMade
  <2> QED
    BY <1>2, <2>2, <2>3, IdleHandler DEF PhpConnect
<1>3. CASE PhpSubmit
  <2> DEFINE m == <<N_MYSQLDATA, 1, 0, 0, 0, calls + 1>>
  <2>1. calls + 1 \in Byte
    BY <1>0, <1>3 DEF PhpSubmit, PhpCall, ClientTypeOK, Byte
  <2>2. m \in Seq(Byte)
    BY <2>1 DEF Byte, N_MYSQLDATA
  <2>3. PhpCall(m, "ack")
    BY <1>3 DEF PhpSubmit
  <2> HIDE DEF m
  <2>4. UNCHANGED handlerVars
    BY <2>3 DEF PhpCall
  <2> QED
    BY <2>2, <2>3, <2>4, CallConn, IdleHandler
<1>4. CASE PhpStatus
  <2> DEFINE m == <<N_STATUS, 0, 0, 0, 0>>
  <2>2. m \in Seq(Byte)
    BY DEF Byte, N_STATUS
  <2>3. PhpCall(m, "length")
    BY <1>4 DEF PhpStatus
  <2> HIDE DEF m
  <2>4. UNCHANGED handlerVars
    BY <2>3 DEF PhpCall
  <2> QED
    BY <2>2, <2>3, <2>4, CallConn, IdleHandler
<1>5. CASE PhpReadAck
  <2>1. ConnTypeOK' /\ BytesOnly'
    BY <1>1, <1>5, ReadConn DEF PhpReadAck
  <2>2. calls \in 1 .. MaxCalls
    BY <1>0, <1>5 DEF PhpReadAck, CGoto, ClientTypeOK, CallMade, Byte
  <2>3. success' \subseteq 1 .. MaxCalls
    BY <1>0, <1>5, <2>2 DEF PhpReadAck, ClientTypeOK
  <2>4. ClientTypeOK' /\ CallMade'
    BY <1>0, <1>5, <2>3 DEF PhpReadAck, CGoto, ClientTypeOK, CallMade
  <2> QED
    BY <1>5, <2>1, <2>4, IdleHandler DEF PhpReadAck
<1>6. CASE PhpReadLength
  <2>1. ConnTypeOK' /\ BytesOnly' /\ Head(inbox) \in Char
    BY <1>1, <1>6, ReadConn DEF PhpReadLength
  <2>2. ClientTypeOK' /\ CallMade'
    BY <1>0, <1>6, <2>1 DEF PhpReadLength, CGoto, ClientTypeOK, CallMade, Char
  <2> QED
    BY <1>6, <2>1, <2>2, IdleHandler DEF PhpReadLength
<1>7. CASE PhpReadText
  <2>1. Min2(want, Len(inbox)) \in Nat /\ Min2(want, Len(inbox)) <= Len(inbox)
    <3>1. want \in Nat
      BY <1>0 DEF ClientTypeOK
    <3> QED
      BY <1>0, <3>1, Minimum
  <2>2. ConnTypeOK' /\ BytesOnly'
    BY <1>0, <1>7, <2>1, PeerReadsConn DEF PhpReadText
  <2>3. ClientTypeOK' /\ CallMade'
    BY <1>0, <1>7 DEF PhpReadText, CGoto, ClientTypeOK, CallMade
  <2> QED
    BY <1>7, <2>2, <2>3, IdleHandler DEF PhpReadText
<1>8. CASE PhpReadFails
  <2>1. ConnTypeOK' /\ BytesOnly'
    BY <1>0, <1>8, QuietConn DEF PhpReadFails
  <2>2. ClientTypeOK' /\ CallMade'
    BY <1>0, <1>8 DEF PhpReadFails, CGoto, ClientTypeOK, CallMade
  <2> QED
    BY <1>8, <2>1, <2>2, IdleHandler DEF PhpReadFails
<1>9. CASE PhpCloses
  <2>1. Len(stream) \in rpos .. Len(stream)
    BY <1>0 DEF ConnTypeOK
  <2>2. ConnTypeOK' /\ BytesOnly'
    BY <1>0, <1>9, <2>1, PeerClosesConn DEF PhpCloses
  <2>3. ClientTypeOK' /\ CallMade'
    BY <1>0, <1>9 DEF PhpCloses, ClientTypeOK, CallMade
  <2> QED
    BY <1>9, <2>2, <2>3, IdleHandler DEF PhpCloses
<1>10. CASE ForeignReads
  <2>1. ConnTypeOK' /\ BytesOnly'
    BY <1>1, <1>10, ReadConn DEF ForeignReads
  <2>2. ClientTypeOK' /\ CallMade'
    BY <1>0, <1>10 DEF ForeignReads, clientVars, ClientTypeOK, CallMade
  <2> QED
    BY <1>10, <2>1, <2>2, IdleHandler DEF ForeignReads
<1>11. CASE ForeignCloses
  <2>1. ConnTypeOK' /\ BytesOnly'
    BY <1>0, <1>11, PeerClosesConn DEF ForeignCloses
  <2>2. ClientTypeOK' /\ CallMade'
    BY <1>0, <1>11 DEF ForeignCloses, ClientTypeOK, CallMade
  <2> QED
    BY <1>11, <2>1, <2>2, IdleHandler DEF ForeignCloses
<1> QED
  BY <1>2, <1>3, <1>4, <1>5, <1>6, <1>7, <1>8, <1>9, <1>10, <1>11 DEF ClientStep

LEMMA InitInv == Init => Inv
<1> SUFFICES ASSUME Init PROVE Inv
  OBVIOUS
<1>1. \A S : <<>> \in Seq(S)
  BY EmptySeq
<1>2. ConnTypeOK /\ BytesOnly
  <2>1. \E s \in Seq(Byte) : Opened(s)
    BY <1>1, ClientAssumption DEF Init
  <2>2. stream \in Seq(Byte) /\ inbox = <<>> /\ rpos = 0
    BY <2>1 DEF Opened
  <2>3. stream \in Seq(Nat) /\ Len(stream) \in Nat
    BY <2>2, SeqsOfBytes, LenProperties
  <2>4. rpos \in 0 .. Len(stream)
    BY <2>2, <2>3
  <2> QED
    BY <1>1, <2>1, <2>2, <2>3, <2>4 DEF Opened, ConnTypeOK, BytesOnly
<1>3. HandlerTypeOK
  <2>1. messages = <<>> /\ data = <<>> /\ payload_data = <<>> /\ answers = <<>>
    BY DEF Init, HandlerInit
  <2>2. messages \in Seq(Seq(Byte))
    BY <1>1, <2>1
  <2>3. data \in Seq(Byte) /\ payload_data \in Seq(Byte) /\ answers \in Seq({"0", "1", "status"})
    BY <1>1, <2>1
  <2>4. Len(data) = 0
    BY <2>1
  <2>5. /\ pc = "recv" /\ pos = 0 /\ message_type_ \in Byte /\ payload_data_size = 0
        /\ has_message_proto_ = FALSE /\ has_message_type_ = FALSE
        /\ has_message_header_ = FALSE /\ answered = FALSE /\ torn = FALSE
    BY DEF Init, HandlerInit, Byte
  <2>6. /\ pc \in {"recv", "parse", "switch", "ack", "finish", "done"}
        /\ pos \in 0 .. Len(data) /\ payload_data_size \in Nat
    BY <2>4, <2>5
  <2>7. /\ has_message_proto_ \in BOOLEAN /\ has_message_type_ \in BOOLEAN
        /\ has_message_header_ \in BOOLEAN /\ answered \in BOOLEAN /\ torn \in BOOLEAN
    BY <2>5, Zenon
  <2> QED
    BY <2>2, <2>3, <2>5, <2>6, <2>7 DEF HandlerTypeOK
<1>4. Bookkeeping
  BY DEF Init, HandlerInit, Bookkeeping
<1>5. LeftoverBounded
  BY HandlerAssumption DEF Init, HandlerInit, LeftoverBounded, MaxHeaderSize
<1>6. ClientTypeOK /\ CallMade
  BY ClientAssumption DEF Init, ClientTypeOK, CallMade, Byte
<1> QED
  BY <1>2, <1>3, <1>4, <1>5, <1>6 DEF Inv, TypeOK, ClientTypeOK

LEMMA NextInv == Inv /\ [Next]_vars => Inv'
<1> SUFFICES ASSUME Inv, [Next]_vars
             PROVE  ConnTypeOK' /\ BytesOnly' /\ HandlerInv' /\ ClientTypeOK' /\ CallMade'
  BY DEF Inv, TypeOK, HandlerInv, ClientTypeOK
<1>1. UNCHANGED clientVars => ClientTypeOK' /\ CallMade'
  BY DEF Inv, TypeOK, clientVars, ClientTypeOK, CallMade
<1>2. CASE (RecvReturns \/ HandlerStep) /\ UNCHANGED clientVars
  BY <1>1, <1>2, RecvHandler, StepHandler
<1>3. CASE ClientStep
  BY <1>3, ClientInv
<1>4. CASE Network
  <2>1. ConnTypeOK' /\ BytesOnly'
    BY <1>4, QuietConn DEF Network, Inv, TypeOK
  <2> QED
    BY <1>1, <1>4, <2>1, IdleHandler DEF Network
<1>5. CASE UNCHANGED vars
  <2>1. UNCHANGED connVars /\ UNCHANGED handlerVars /\ UNCHANGED clientVars
    BY <1>5 DEF vars
  <2>2. ConnTypeOK' /\ BytesOnly'
    BY <2>1, QuietConn DEF Inv, TypeOK
  <2> QED
    BY <1>1, <2>1, <2>2, IdleHandler
<1> QED
  BY <1>2, <1>3, <1>4, <1>5 DEF Next

(* The inductive invariant holds in every state of every behaviour.        *)
THEOREM Invariance == Spec => []Inv
BY InitInv, NextInv, PTL DEF Spec

(* The types of TypeOK, for every value of the constants.                  *)
THEOREM TypeCorrect == Spec => []TypeOK
<1>1. Inv => TypeOK
  BY DEF Inv
<1> QED
  BY Invariance, <1>1, PTL

(* However recv() cuts the stream, the bytes left over fit into the parse  *)
(* buffer in front of the next chunk.                                      *)
THEOREM BufferHolds == Spec => []LeftoverBounded
<1>1. Inv => LeftoverBounded
  BY DEF Inv
<1> QED
  BY Invariance, <1>1, PTL

-----------------------------------------------------------------------------
(* How often a value occurs in a sequence; Count of the model is one use.  *)
At(s, c) == {i \in DOMAIN s : s[i] = c}
Times(s, c) == Cardinality(At(s, c))

LEMMA AtFinite ==
  ASSUME NEW S, NEW s \in Seq(S), NEW c
  PROVE  IsFiniteSet(At(s, c)) /\ Times(s, c) \in Nat
<1>1. Len(s) \in Nat /\ DOMAIN s = 1 .. Len(s)
  BY LenProperties
<1>2. IsFiniteSet(1 .. Len(s))
  BY <1>1, FS_Interval
<1>3. At(s, c) \in SUBSET (1 .. Len(s))
  BY <1>1 DEF At
<1>4. IsFiniteSet(At(s, c))
  BY <1>2, <1>3, FS_Subset
<1> QED
  BY <1>4, FS_CardinalityType DEF Times

LEMMA TimesAppend ==
  ASSUME NEW S, NEW s \in Seq(S), NEW e \in S, NEW c
  PROVE  Times(Append(s, e), c) = Times(s, c) + (IF e = c THEN 1 ELSE 0)
<1> DEFINE n == Len(s) + 1
<1>1. /\ Len(s) \in Nat /\ DOMAIN s = 1 .. Len(s)
      /\ Append(s, e) \in Seq(S) /\ Len(Append(s, e)) = n
      /\ \A i \in 1 .. Len(s) : Append(s, e)[i] = s[i]
      /\ Append(s, e)[n] = e
  BY LenProperties, AppendProperties
<1>2. DOMAIN Append(s, e) = (DOMAIN s) \cup {n} /\ n \notin DOMAIN s
  <2>1. DOMAIN Append(s, e) = 1 .. n
    BY <1>1, LenProperties
  <2> QED
    BY <1>1, <2>1
<1>3. n \notin At(s, c)
  BY <1>2 DEF At
<1>4. IsFiniteSet(At(s, c)) /\ Cardinality(At(s, c)) \in Nat
  BY AtFinite DEF Times
<1> HIDE DEF n
<1>5. CASE e = c
  <2>1. At(Append(s, e), c) = At(s, c) \cup {n}
    BY <1>1, <1>2, <1>5 DEF At
  <2> QED
    BY <1>3, <1>4, <1>5, <2>1, FS_AddElement DEF Times
<1>6. CASE e # c
  <2>1. At(Append(s, e), c) = At(s, c)
    BY <1>1, <1>2, <1>6 DEF At
  <2> QED
    BY <1>4, <1>6, <2>1 DEF Times
<1> QED
  BY <1>5, <1>6

(* What is read from the front is gone.                                    *)
LEMMA TimesRest ==
  ASSUME NEW S, NEW s \in Seq(S), NEW n \in Nat, n <= Len(s), NEW c
  PROVE  /\ Times(SubSeq(s, n + 1, Len(s)), c) <= Times(s, c)
         /\ n > 0 /\ s[1] = c => Times(SubSeq(s, n + 1, Len(s)), c) + 1 <= Times(s, c)
<1> DEFINE r == SubSeq(s, n + 1, Len(s))
           f == [i \in At(r, c) |-> i + n]
           T == IF n > 0 /\ s[1] = c THEN At(s, c) \ {1} ELSE At(s, c)
<1>1. Len(s) \in Nat /\ DOMAIN s = 1 .. Len(s)
  BY LenProperties
<1>2. /\ r \in Seq(S)
      /\ Len(r) = Len(s) - n
      /\ \A i \in 1 .. Len(r) : r[i] = s[n + i]
  <2>1. Len(r) = IF n + 1 <= Len(s) THEN Len(s) - (n + 1) + 1 ELSE 0
    BY <1>1, Part
  <2>3. r \in Seq(S)
    BY <1>1, Part
  <2>4. \A i \in 1 .. Len(s) - n : r[i] = s[n + i]
    BY <1>1
  <2> HIDE DEF r
  <2>2. \A k, l \in Nat : k <= l => (IF k + 1 <= l THEN l - (k + 1) + 1 ELSE 0) = l - k
    OBVIOUS
  <2>5. Len(r) = Len(s) - n
    BY <1>1, <2>1, <2>2
  <2> QED
    BY <2>3, <2>4, <2>5
<1>3. DOMAIN r = 1 .. Len(r)
  BY <1>2, LenProperties
<1> HIDE DEF r
<1>4. \A i \in At(r, c) : i \in Nat /\ i > 0 /\ i + n \in At(s, c)
  BY <1>1, <1>2, <1>3 DEF At
<1>5. f \in Injection(At(r, c), T)
  <2>1. \A i \in At(r, c) : i + n \in T
    BY <1>4
  <2>2. \A i, j \in At(r, c) : i + n = j + n => i = j
    BY <1>4
  <2> QED
    BY <2>1, <2>2 DEF Injection, IsInjective
<1>6. IsFiniteSet(At(s, c)) /\ Times(s, c) \in Nat /\ Times(r, c) \in Nat
  BY <1>2, AtFinite
<1>7. /\ IsFiniteSet(T)
      /\ Cardinality(T) = IF n > 0 /\ s[1] = c THEN Times(s, c) - 1 ELSE Times(s, c)
  <2>1. CASE n > 0 /\ s[1] = c
    <3>1. 1 \in At(s, c)
      BY <1>1, <2>1 DEF At
    <3> QED
      BY <1>6, <2>1, <3>1, FS_RemoveElement DEF Times
  <2>2. CASE ~(n > 0 /\ s[1] = c)
    BY <1>6, <2>2 DEF Times
  <2> QED
    BY <2>1, <2>2
<1> HIDE DEF f, T
<1>8. Times(r, c) <= Cardinality(T)
  BY <1>5, <1>7, FS_Injection DEF Times
<1> QED
  BY <1>6, <1>7, <1>8 DEF r

LEMMA TimesJoined ==
  ASSUME NEW S, NEW s \in Seq(S), NEW e \in S, NEW c
  PROVE  Times(s \o <<e>>, c) = Times(s, c) + (IF e = c THEN 1 ELSE 0)
<1>1. s \o <<e>> = Append(s, e)
  BY AppendIsConcat
<1>2. Times(Append(s, e), c) = Times(s, c) + (IF e = c THEN 1 ELSE 0)
  BY TimesAppend
<1> QED
  BY <1>1, <1>2


LEMMA AnswerCount ==
  ASSUME Inv, NEW a \in {"0", "1", "status"}, answers' = Append(answers, a)
  PROVE  /\ Times(answers', "1") = Times(answers, "1") + (IF a = "1" THEN 1 ELSE 0)
         /\ Len(answers') = Len(answers) + 1
         /\ Len(answers) \in Nat /\ Times(answers, "1") \in Nat
<1>1. answers \in Seq({"0", "1", "status"})
  BY DEF Inv, TypeOK, HandlerTypeOK
<1>2. Times(Append(answers, a), "1") = Times(answers, "1") + (IF a = "1" THEN 1 ELSE 0)
  BY <1>1, TimesAppend
<1>3. Len(Append(answers, a)) = Len(answers) + 1 /\ Len(answers) \in Nat
  BY <1>1, AppendProperties, LenProperties
<1> QED
  BY <1>1, <1>2, <1>3, AtFinite

(* Every step of the handler answers nothing or one thing.                 *)
LEMMA HandlerAnswers ==
  ASSUME RecvReturns \/ HandlerStep
  PROVE  \/ UNCHANGED answers
         \/ \E a \in {"0", "1", "status"} : Answer(a)
BY DEF RecvReturns, Recv, RecvFails, RecvEnds, HandlerStep, ChunkDone, HeaderMissing,
       KeepLeftover, ParseProto, ParseType, ParseHeader, HeaderKnown, SwitchUnhandled,
       SwitchStatus, SwitchData, Acknowledge, Finish

-----------------------------------------------------------------------------
(* AckFollowsQueue is inductive.                                           *)
Acks == Times(answers, "1") = (IF has_message_proto_ THEN 1 ELSE 0) + Len(messages)
                              - (IF pc = "ack" THEN 1 ELSE 0)

LEMMA AcksIsAckFollowsQueue == Acks <=> AckFollowsQueue
BY DEF Acks, AckFollowsQueue, Count, Times, At

LEMMA AcksStep ==
  ASSUME Inv, Acks, HandlerStep
  PROVE  Acks'
<1>0. /\ Len(messages) \in Nat /\ Times(answers, "1") \in Nat
      /\ has_message_proto_ \in BOOLEAN
  <2>1. messages \in Seq(Seq(Byte)) /\ answers \in Seq({"0", "1", "status"})
    BY DEF Inv, TypeOK, HandlerTypeOK
  <2> QED
    BY <2>1, LenProperties, AtFinite DEF Inv, TypeOK, HandlerTypeOK
<1>1. CASE /\ UNCHANGED <<answers, messages, has_message_proto_>>
           /\ pc # "ack" /\ pc' # "ack"
  BY <1>1 DEF Acks
<1>2. CASE ParseProto
  <2>1. CASE ProtoOK(data[pos + 1])
    <3>1. answers' = Append(answers, "1") /\ UNCHANGED <<messages, pc>>
      BY <1>2, <2>1 DEF ParseProto, Answer
    <3>2. pc # "ack" /\ has_message_proto_ = FALSE /\ has_message_proto_' = TRUE
      BY <1>0, <1>2, <2>1 DEF ParseProto, More
    <3> QED
      BY <1>0, <3>1, <3>2, AnswerCount DEF Acks
  <2>2. CASE ~ProtoOK(data[pos + 1])
    <3>1. /\ answers' = Append(answers, "0") /\ UNCHANGED <<messages, has_message_proto_>>
          /\ pc # "ack" /\ pc' # "ack"
      BY <1>2, <2>2 DEF ParseProto, More, Answer
    <3> QED
      BY <1>0, <3>1, AnswerCount DEF Acks
  <2> QED
    BY <2>1, <2>2
<1>3. CASE SwitchStatus
  <2>1. /\ answers' = Append(answers, "status") /\ UNCHANGED <<messages, has_message_proto_>>
        /\ pc # "ack" /\ pc' # "ack"
    BY <1>3 DEF SwitchStatus, MessageDone, Goto, Answer
  <2> QED
    BY <1>0, <2>1, AnswerCount DEF Acks
<1>4. CASE SwitchData
  <2>1. UNCHANGED <<answers, has_message_proto_>> /\ pc = "switch"
    BY <1>4 DEF SwitchData, Goto, flags
  <2>2. CASE pc' = "ack" /\ messages' = Append(messages, payload_data')
    <3> DEFINE Query == Seq(Byte)
    <3>1. payload_data' \in Query /\ messages \in Seq(Query)
      BY <1>4, DataHandler DEF HandlerInv, HandlerTypeOK, Inv, TypeOK
    <3> HIDE DEF Query
    <3>2. Len(messages') = Len(messages) + 1
      BY <2>2, <3>1, AppendProperties
    <3> QED
      BY <1>0, <2>1, <2>2, <3>2 DEF Acks
  <2>3. CASE pc' = "parse" /\ UNCHANGED messages
    BY <1>0, <2>1, <2>3 DEF Acks
  <2> QED
    BY <1>4, <2>2, <2>3 DEF SwitchData, Goto, PushMessage
<1>5. CASE Acknowledge
  <2>1. /\ answers' = Append(answers, "1") /\ UNCHANGED <<messages, has_message_proto_>>
        /\ pc = "ack" /\ pc' # "ack"
    BY <1>5 DEF Acknowledge, MessageDone, Goto, Answer
  <2> QED
    BY <1>0, <2>1, AnswerCount DEF Acks
<1>6. CASE Finish
  <2>1. /\ answers' = answers \/ answers' = Append(answers, "0")
        /\ UNCHANGED <<messages, has_message_proto_>>
        /\ pc # "ack" /\ pc' # "ack"
    BY <1>6 DEF Finish, Goto, Answer, flags
  <2> QED
    BY <1>0, <1>1, <2>1, AnswerCount DEF Acks
<1>7. CASE \/ ChunkDone \/ HeaderMissing \/ ParseType \/ ParseHeader \/ HeaderKnown
           \/ SwitchUnhandled
  BY <1>1, <1>7 DEF ChunkDone, HeaderMissing, KeepLeftover, ParseType, ParseHeader,
                    HeaderKnown, SwitchUnhandled, More, Goto, flags
<1> QED
  BY <1>2, <1>3, <1>4, <1>5, <1>6, <1>7 DEF HandlerStep

LEMMA AcksNext == Inv /\ Acks /\ [Next]_vars => Acks'
<1> SUFFICES ASSUME Inv, Acks, [Next]_vars PROVE Acks'
  OBVIOUS
<1>1. CASE UNCHANGED <<answers, messages, has_message_proto_, pc>>
  BY <1>1 DEF Acks
<1>2. CASE RecvReturns
  <2>1. UNCHANGED <<answers, messages, has_message_proto_>> /\ pc # "ack" /\ pc' # "ack"
    BY <1>2 DEF RecvReturns, Recv, RecvFails, RecvEnds, Goto, flags
  <2> QED
    BY <2>1 DEF Acks
<1>3. CASE ClientStep
  BY <1>1, <1>3 DEF ClientStep, PhpConnect, PhpSubmit, PhpStatus, PhpCall, PhpReadAck,
       PhpReadLength, PhpReadText, PhpReadFails, PhpCloses, ForeignReads, ForeignCloses,
       handlerVars, flags
<1>4. CASE Network \/ UNCHANGED vars
  BY <1>1, <1>4 DEF Network, vars, handlerVars, flags
<1> QED
  BY <1>2, <1>3, <1>4, AcksStep DEF Next

LEMMA AcksInit == Init => Acks
<1> SUFFICES ASSUME Init PROVE Acks
  OBVIOUS
<1>1. /\ answers = <<>> /\ messages = <<>> /\ has_message_proto_ = FALSE /\ pc = "recv"
  BY DEF Init, HandlerInit
<1>2. At(answers, "1") = {}
  BY <1>1 DEF At
<1>3. Times(answers, "1") = 0 /\ Len(messages) = 0
  BY <1>1, <1>2, FS_EmptySet DEF Times
<1> QED
  BY <1>1, <1>3 DEF Acks

(* Every query is acknowledged once, and after it was queued.              *)
THEOREM EveryQueryAcknowledgedOnce == Spec => []AckFollowsQueue
<1>1. Spec => []Acks
  BY Invariance, AcksInit, AcksNext, PTL DEF Spec
<1> QED
  BY <1>1, AcksIsAckFollowsQueue, PTL

-----------------------------------------------------------------------------
(* OnlyLeftoversKill: how many answers have been sent since the client     *)
(* closed, by how far the reset they provoke has come.                     *)
SinceClose == IF rst = "none" THEN 0 ELSE IF rst = "coming" \/ so_error THEN 1 ELSE 2

Resets ==
  /\ peer = "open" => rst = "none" /\ ~sigpipe
  /\ so_error => rst = "here"
  /\ peer = "closed" /\ ~sigpipe => Len(answers) >= closedAt + SinceClose

LEMMA ResetsAnswer ==
  ASSUME Inv, Resets, NEW a \in {"0", "1", "status"}, Answer(a), UNCHANGED clientVars
  PROVE  Resets'
<1>1. /\ Len(answers') = Len(answers) + 1 /\ Len(answers) \in Nat /\ closedAt \in Nat
      /\ closedAt' = closedAt
  BY AnswerCount DEF Answer, clientVars, Inv, TypeOK
<1>2. \E b : SendData(b)
  BY DEF Answer
<1>a. SendMeetsReset => (peer = "closed" => sigpipe')
  BY Zenon DEF SendMeetsReset
<1>3. /\ peer' = peer
      /\ \/ so_error /\ ~so_error' /\ UNCHANGED <<rst, sigpipe>>
         \/ /\ ~so_error /\ ~so_error'
            /\ \/ rst = "here" /\ UNCHANGED rst /\ sigpipe'
               \/ rst = "coming" /\ rst' = "here" /\ (peer = "closed" => sigpipe')
               \/ rst # "here" /\ peer = "open" /\ UNCHANGED <<rst, sigpipe>>
               \/ rst # "here" /\ peer # "open" /\ rst' = "coming" /\ UNCHANGED sigpipe
  BY <1>2, <1>a DEF SendData, RawSend, SendMeetsReset, Inv, TypeOK, ConnTypeOK
<1>4. rst \in {"none", "coming", "here"} /\ peer \in {"open", "closed", "aborted"}
  BY DEF Inv, TypeOK, ConnTypeOK
<1> QED
  BY <1>1, <1>3, <1>4 DEF Resets, SinceClose

LEMMA ResetsNext == Inv /\ Resets /\ [Next]_vars => Resets'
<1> SUFFICES ASSUME Inv, Resets, [Next]_vars PROVE Resets'
  OBVIOUS
<1>0. Len(answers) \in Nat /\ closedAt \in Nat
  BY LenProperties DEF Inv, TypeOK, HandlerTypeOK
<1>1. CASE UNCHANGED <<answers, peer, rst, so_error, sigpipe, closedAt>>
  BY <1>1 DEF Resets, SinceClose
<1>2. CASE RecvReturns /\ UNCHANGED clientVars
  <2>1. /\ UNCHANGED <<answers, peer, rst, sigpipe, closedAt>>
        /\ so_error' = so_error \/ (~so_error' /\ peer = "aborted")
    BY <1>2 DEF RecvReturns, Recv, RecvFails, RecvEnds, RecvBytes, RecvError, RecvZero,
                clientVars, connVars, Inv, TypeOK, ConnTypeOK
  <2> QED
    BY <2>1 DEF Resets, SinceClose
<1>3. CASE HandlerStep /\ UNCHANGED clientVars
  <2>1. \/ UNCHANGED <<connVars, answers>>
        \/ \E a \in {"0", "1", "status"} : Answer(a)
    BY <1>3 DEF HandlerStep, ChunkDone, HeaderMissing, KeepLeftover, ParseProto, ParseType,
         ParseHeader, HeaderKnown, SwitchUnhandled, SwitchStatus, SwitchData, Acknowledge,
         Finish
  <2> QED
    BY <1>1, <1>3, <2>1, ResetsAnswer DEF connVars, clientVars
<1>4. CASE ClientStep
  <2>1. CASE PhpCloses \/ ForeignCloses
    <3>1. /\ peer = "open" /\ peer' \in {"closed", "aborted"}
          /\ peer' = "closed" => rst' = "none"
          /\ closedAt' = Len(answers) /\ UNCHANGED <<answers, so_error, sigpipe>>
      BY <2>1 DEF PhpCloses, ForeignCloses, PeerCloses, handlerVars
    <3>2. rst = "none" /\ ~sigpipe /\ ~so_error
      BY <3>1 DEF Resets
    <3> QED
      BY <1>0, <3>1, <3>2 DEF Resets, SinceClose
  <2>2. CASE ~(PhpCloses \/ ForeignCloses)
    <3>1. UNCHANGED <<answers, peer, rst, so_error, sigpipe, closedAt>>
      BY <1>4, <2>2 DEF ClientStep, PhpConnect, PhpSubmit, PhpStatus, PhpCall, PhpReadAck,
         PhpReadLength, PhpReadText, PhpReadFails, ForeignReads, PeerSends, PeerReads,
         connVars, handlerVars, clientVars
    <3> QED
      BY <1>1, <3>1
  <2> QED
    BY <2>1, <2>2
<1>5. CASE Network
  <2>1. /\ rst = "coming" /\ rst' = "here" /\ so_error' = TRUE
        /\ UNCHANGED <<answers, peer, sigpipe, closedAt>>
    BY <1>5 DEF Network, ResetArrives, handlerVars, clientVars
  <2> QED
    BY <2>1 DEF Resets, SinceClose
<1>6. CASE UNCHANGED vars
  BY <1>1, <1>6 DEF vars, connVars, handlerVars, clientVars
<1> QED
  BY <1>2, <1>3, <1>4, <1>5, <1>6 DEF Next

LEMMA ResetsInit == Init => Resets
BY DEF Init, Opened, Resets

(* The daemon is ended by a SIGPIPE only if a client closed with answers   *)
(* unread, or left requests for three more answers behind, or for two and  *)
(* the reset came between the test of SO_ERROR and send().                 *)
THEOREM SigpipeNeedsLeftovers == Spec => OnlyLeftoversKill
<1> DEFINE Left == \/ peer = "aborted"
                   \/ Len(answers') >= closedAt + (IF rst = "here" THEN 3 ELSE 2)
<1>1. ASSUME Inv, Resets, NEW a \in {"0", "1", "status"}, Answer(a),
             sigpipe', ~sigpipe
      PROVE  Left
  <2>1. Len(answers') = Len(answers) + 1 /\ Len(answers) \in Nat /\ closedAt \in Nat
    BY <1>1, AnswerCount DEF Answer, Inv, TypeOK
  <2>2. rst \in {"coming", "here"} /\ ~so_error
    BY <1>1 DEF Answer, SendData, RawSend, SendMeetsReset
  <2>3. peer = "aborted" \/ Len(answers) >= closedAt + SinceClose
    BY <1>1, <2>2 DEF Resets, Inv, TypeOK, ConnTypeOK
  <2> QED
    BY <2>1, <2>2, <2>3 DEF SinceClose
<1>2. ASSUME Inv, Resets, [Next]_vars, sigpipe', ~sigpipe
      PROVE  Left
  <2>1. HandlerStep
    BY <1>2 DEF Next, RecvReturns, Recv, RecvFails, RecvEnds, RecvBytes, RecvError,
       RecvZero, ClientStep, PhpConnect, PhpSubmit, PhpStatus, PhpCall, PhpReadAck,
       PhpReadLength, PhpReadText, PhpReadFails, PhpCloses, ForeignReads, ForeignCloses,
       PeerSends, PeerReads, PeerCloses, Network, ResetArrives, vars, connVars
  <2>2. \E a \in {"0", "1", "status"} : Answer(a)
    BY <1>2, <2>1 DEF HandlerStep, ChunkDone, HeaderMissing, KeepLeftover, ParseProto,
       ParseType, ParseHeader, HeaderKnown, SwitchUnhandled, SwitchStatus, SwitchData,
       Acknowledge, Finish, connVars
  <2> QED
    BY <1>1, <1>2, <2>2
<1>3. Inv /\ Resets /\ [Next]_vars => [sigpipe' /\ ~sigpipe => Left]_vars
  BY <1>2
<1>4. Spec => [](Inv /\ Resets)
  BY InitInv, NextInv, ResetsInit, ResetsNext, PTL DEF Spec
<1> QED
  BY <1>3, <1>4, PTL DEF Spec, OnlyLeftoversKill

-----------------------------------------------------------------------------
(* SuccessLagsByOne: every '1' the client has or may still read was sent   *)
(* as an answer "1", as long as no status text has been sent.              *)
NoStatus == \A i \in DOMAIN answers : answers[i] # "status"

Lag == NoStatus => Cardinality(success) + Times(inbox, Char1) <= Times(answers, "1")

LEMMA SuccessFinite ==
  ASSUME Inv
  PROVE  IsFiniteSet(success) /\ Cardinality(success) \in Nat
<1>1. MaxCalls \in Int /\ success \in SUBSET (1 .. MaxCalls)
  BY ClientAssumption DEF Byte, Inv, TypeOK
<1>2. IsFiniteSet(1 .. MaxCalls)
  BY <1>1, FS_Interval
<1> QED
  BY <1>1, <1>2, FS_Subset, FS_CardinalityType

LEMMA LagNumbers ==
  ASSUME Inv
  PROVE  /\ Cardinality(success) \in Nat
         /\ Times(inbox, Char1) \in Nat
         /\ Times(answers, "1") \in Nat
<1>1. inbox \in Seq(Char) /\ answers \in Seq({"0", "1", "status"})
  BY DEF Inv, BytesOnly, TypeOK, HandlerTypeOK
<1> QED
  BY <1>1, AtFinite, SuccessFinite

LEMMA LagMeans == Inv /\ Acks /\ Lag => SuccessLagsByOne
<1> SUFFICES ASSUME Inv, Acks, Lag, NoStatus
             PROVE  Cardinality(success) <= 1 + Len(messages)
  BY DEF SuccessLagsByOne, NoStatus
<1>1. messages \in Seq(Seq(Byte))
  BY DEF Inv, TypeOK, HandlerTypeOK
<1>2. Len(messages) \in Nat
  BY <1>1, LenProperties
<1>3. Times(answers, "1") <= 1 + Len(messages)
  <2>1. \A t, m \in Nat, k, l \in {0, 1} : t = k + m - l => t <= 1 + m
    OBVIOUS
  <2>2. \E k, l \in {0, 1} : Times(answers, "1") = k + Len(messages) - l
    BY <1>2 DEF Acks
  <2>3. Times(answers, "1") \in Nat
    BY LagNumbers
  <2> QED
    BY <1>2, <2>1, <2>2, <2>3
<1> QED
  BY <1>2, <1>3, LagNumbers DEF Lag

LEMMA LagAnswer ==
  ASSUME Inv, Lag, NEW a \in {"0", "1", "status"}, Answer(a), UNCHANGED success
  PROVE  Lag'
<1> SUFFICES ASSUME NoStatus' PROVE (Cardinality(success) + Times(inbox, Char1) <= Times(answers, "1"))'
  BY DEF Lag
<1>0. answers' = Append(answers, a) /\ answers \in Seq({"0", "1", "status"})
      /\ inbox \in Seq(Char)
  BY DEF Answer, Inv, BytesOnly, TypeOK, HandlerTypeOK
<1>1. NoStatus /\ a # "status"
  <2>1. /\ Len(answers) \in Nat /\ DOMAIN answers = 1 .. Len(answers)
        /\ answers' \in Seq({"0", "1", "status"})
        /\ DOMAIN answers' = 1 .. Len(answers')
        /\ Len(answers') = Len(answers) + 1
        /\ \A i \in 1 .. Len(answers) : answers'[i] = answers[i]
        /\ answers'[Len(answers) + 1] = a
    BY <1>0, AppendProperties, LenProperties
  <2>2. \A i \in 1 .. Len(answers) + 1 : answers'[i] # "status"
    BY <2>1 DEF NoStatus
  <2> QED
    BY <2>1, <2>2 DEF NoStatus
<1>2. Times(answers', "1") = Times(answers, "1") + (IF a = "1" THEN 1 ELSE 0)
  BY <1>0, AnswerCount
<1>3. Times(inbox', Char1) <= Times(inbox, Char1) + (IF a = "1" THEN 1 ELSE 0)
  <2>1. \/ SendData(<<Char0>>) /\ a = "0"
        \/ SendData(<<Char1>>) /\ a = "1"
    BY <1>1 DEF Answer
  <2>2. ASSUME NEW c \in Char, SendData(<<c>>)
        PROVE  inbox' = inbox \/ inbox' = inbox \o <<c>>
    BY <2>2 DEF SendData, RawSend, SendMeetsReset
  <2>3. Char0 \in Char /\ Char1 \in Char /\ Char0 # Char1
    BY DEF Char0, Char1, Char
  <2>4. \A c \in Char : Times(inbox \o <<c>>, Char1)
                          = Times(inbox, Char1) + (IF c = Char1 THEN 1 ELSE 0)
    BY <1>0, TimesJoined
  <2>5. Times(inbox, Char1) \in Nat
    BY LagNumbers
  <2>6. CASE SendData(<<Char0>>) /\ a = "0"
    <3>1. inbox' = inbox \/ inbox' = inbox \o <<Char0>>
      BY <2>2, <2>3, <2>6
    <3>2. Times(inbox \o <<Char0>>, Char1) = Times(inbox, Char1)
      BY <2>3, <2>4, <2>5
    <3>3. \/ Times(inbox', Char1) = Times(inbox, Char1)
          \/ Times(inbox', Char1) = Times(inbox \o <<Char0>>, Char1)
      BY <3>1
    <3>4. a = "0"
      BY <2>6
    <3> QED
      BY <2>5, <3>2, <3>3, <3>4
  <2>7. CASE SendData(<<Char1>>) /\ a = "1"
    <3>1. inbox' = inbox \/ inbox' = inbox \o <<Char1>>
      BY <2>2, <2>3, <2>7
    <3>2. Times(inbox \o <<Char1>>, Char1) = Times(inbox, Char1) + 1
      BY <2>3, <2>4, <2>5
    <3>3. \/ Times(inbox', Char1) = Times(inbox, Char1)
          \/ Times(inbox', Char1) = Times(inbox \o <<Char1>>, Char1)
      BY <3>1
    <3>4. a = "1"
      BY <2>7
    <3> QED
      BY <2>5, <3>2, <3>3, <3>4
  <2> QED
    BY <2>1, <2>6, <2>7
<1>4. Times(inbox', Char1) \in Nat
  <2>1. inbox' \in Seq(Char)
    BY AnswerConn DEF BytesOnly
  <2> QED
    BY <2>1, AtFinite
<1> QED
  BY <1>1, <1>2, <1>3, <1>4, LagNumbers DEF Lag

(* Reading takes '1's away; at most one of them becomes a success.         *)
LEMMA LagRead ==
  ASSUME Inv, Lag, NEW n \in Nat, n <= Len(inbox), PeerReads(n), UNCHANGED answers,
         \/ success' = success
         \/ n > 0 /\ inbox[1] = Char1 /\ success' = success \cup {calls}
  PROVE  Lag'
<1>1. inbox' = SubSeq(inbox, n + 1, Len(inbox)) /\ inbox \in Seq(Char)
  BY DEF PeerReads, Inv, BytesOnly
<1>2. /\ Times(inbox', Char1) <= Times(inbox, Char1)
      /\ n > 0 /\ inbox[1] = Char1 => Times(inbox', Char1) + 1 <= Times(inbox, Char1)
  BY <1>1, TimesRest
<1>3. Times(inbox', Char1) \in Nat
  <2>1. inbox' \in Seq(Char)
    BY PeerReadsConn DEF BytesOnly, Inv, TypeOK
  <2> QED
    BY <2>1, AtFinite
<1>4. Cardinality(success \cup {calls}) <= Cardinality(success) + 1
      /\ Cardinality(success \cup {calls}) \in Nat
  <2>1. IsFiniteSet(success) /\ Cardinality(success) \in Nat
    BY SuccessFinite
  <2>2. Cardinality(success \cup {calls}) =
          IF calls \in success THEN Cardinality(success) ELSE Cardinality(success) + 1
    BY <2>1, FS_AddElement
  <2> QED
    BY <2>1, <2>2
<1>5. NoStatus' = NoStatus
  BY DEF NoStatus
<1>6. Cardinality(success') + Times(inbox', Char1) <= Cardinality(success) + Times(inbox, Char1)
  <2>1. CASE success' = success
    BY <1>2, <1>3, <2>1, LagNumbers
  <2>2. CASE n > 0 /\ inbox[1] = Char1 /\ success' = success \cup {calls}
    BY <1>2, <1>3, <1>4, <2>2, LagNumbers
  <2> QED
    BY <2>1, <2>2
<1>7. Cardinality(success') \in Nat
  BY <1>4, LagNumbers
<1> QED
  BY <1>3, <1>5, <1>6, <1>7, LagNumbers DEF Lag

LEMMA LagNext == Inv /\ Lag /\ [Next]_vars => Lag'
<1> SUFFICES ASSUME Inv, Lag, [Next]_vars PROVE Lag'
  OBVIOUS
<1>0. Len(inbox) \in Nat /\ inbox \in Seq(Char) /\ want \in Nat
  BY LenProperties DEF Inv, BytesOnly, TypeOK
<1>1. CASE UNCHANGED <<answers, inbox, success>>
  BY <1>1 DEF Lag, NoStatus
<1>2. CASE (RecvReturns \/ HandlerStep) /\ UNCHANGED clientVars
  <2>1. \/ UNCHANGED <<answers, inbox>>
        \/ \E a \in {"0", "1", "status"} : Answer(a)
    BY <1>2 DEF RecvReturns, Recv, RecvFails, RecvEnds, RecvBytes, RecvError, RecvZero,
         HandlerStep, ChunkDone, HeaderMissing, KeepLeftover, ParseProto, ParseType,
         ParseHeader, HeaderKnown, SwitchUnhandled, SwitchStatus, SwitchData, Acknowledge,
         Finish, connVars
  <2> QED
    BY <1>1, <1>2, <2>1, LagAnswer DEF clientVars
<1>3. CASE PhpReadAck
  <2>1. inbox # <<>> /\ PeerReads(1) /\ UNCHANGED answers
    BY <1>3 DEF PhpReadAck, handlerVars
  <2>2. 1 <= Len(inbox) /\ Head(inbox) = inbox[1]
    BY <1>0, <2>1, EmptySeq, HeadTailProperties
  <2>3. \/ success' = success
        \/ inbox[1] = Char1 /\ success' = success \cup {calls}
    BY <1>3, <2>2 DEF PhpReadAck
  <2> QED
    BY <2>1, <2>2, <2>3, LagRead
<1>4. CASE PhpReadLength \/ PhpReadText \/ ForeignReads
  <2>1. 1 <= Len(inbox)
    BY <1>0, <1>4, EmptySeq DEF PhpReadLength, PhpReadText, ForeignReads
  <2>2. UNCHANGED <<answers, success>>
    BY <1>4 DEF PhpReadLength, PhpReadText, ForeignReads, handlerVars, clientVars
  <2>3. /\ Min2(want, Len(inbox)) \in Nat /\ Min2(want, Len(inbox)) <= Len(inbox)
    BY <1>0, Minimum
  <2>4. PeerReads(1) \/ PeerReads(Min2(want, Len(inbox))) \/ PeerReads(Len(inbox))
    BY <1>4 DEF PhpReadLength, PhpReadText, ForeignReads
  <2>5. \E n \in Nat : n <= Len(inbox) /\ PeerReads(n)
    BY <1>0, <2>1, <2>3, <2>4
  <2> QED
    BY <2>2, <2>5, LagRead
<1>5. CASE PhpCloses \/ ForeignCloses
  <2>1. inbox' = <<>> /\ UNCHANGED <<answers, success>>
    BY <1>5 DEF PhpCloses, ForeignCloses, PeerCloses, handlerVars
  <2>2. Times(inbox', Char1) = 0
    <3>1. At(inbox', Char1) = {}
      BY <2>1 DEF At
    <3> QED
      BY <3>1, FS_EmptySet DEF Times
  <2> QED
    BY <2>1, <2>2, LagNumbers DEF Lag, NoStatus
<1>6. CASE PhpConnect \/ PhpSubmit \/ PhpStatus \/ PhpReadFails
  BY <1>1, <1>6 DEF PhpConnect, PhpSubmit, PhpStatus, PhpCall, PhpReadFails, PeerSends,
       handlerVars, connVars
<1>7. CASE Network \/ UNCHANGED vars
  BY <1>1, <1>7 DEF Network, ResetArrives, vars, connVars, handlerVars, clientVars
<1> QED
  BY <1>2, <1>3, <1>4, <1>5, <1>6, <1>7 DEF Next, ClientStep

LEMMA LagInit == Init => Lag
<1> SUFFICES ASSUME Init PROVE Lag
  OBVIOUS
<1>1. answers = <<>> /\ inbox = <<>> /\ success = {}
  BY DEF Init, HandlerInit, Opened
<1>2. At(inbox, Char1) = {} /\ At(answers, "1") = {}
  BY <1>1 DEF At
<1>3. Cardinality(success) = 0 /\ Times(inbox, Char1) = 0 /\ Times(answers, "1") = 0
  BY <1>1, <1>2, FS_EmptySet DEF Times
<1> QED
  BY <1>3 DEF Lag

(* Until a status request is answered, the client believes at most one     *)
(* more query to be submitted than has been queued.                        *)
THEOREM SuccessBounded == Spec => []SuccessLagsByOne
<1>1. Spec => [](Inv /\ Acks /\ Lag)
  BY InitInv, NextInv, AcksInit, AcksNext, LagInit, LagNext, PTL DEF Spec
<1> QED
  BY <1>1, LagMeans, PTL

-----------------------------------------------------------------------------
(* What a stream means.  From is a recursive function: it satisfies its    *)
(* equation since some function does, which is built from the last byte    *)
(* backwards.                                                              *)
Answers == {"0", "1", "status"}
Query == Seq(Byte)
Result == [queries : Seq(Query), answers : Seq(Answers)]

(* The first byte behind the header of the message that starts at i.       *)
Body(s, i) == i + 1 + HeaderSize(s[i])

LEMMA BodyType ==
  ASSUME NEW s \in Seq(Byte), NEW i \in 1 .. Len(s)
  PROVE  /\ s[i] \in Byte /\ Len(s) \in Nat
         /\ Body(s, i) \in Nat /\ Body(s, i) >= i + 5
         /\ Body(s, i) - 1 <= Len(s)
              => /\ SubSeq(s, i + 1, Body(s, i) - 1) \in Seq(Byte)
                 /\ PayloadSize(SubSeq(s, i + 1, Body(s, i) - 1)) \in Nat
<1>1. s[i] \in Byte /\ Len(s) \in Nat
  BY ElementOfSeq, LenProperties
<1>2. Body(s, i) \in Nat /\ Body(s, i) >= i + 5
  BY <1>1 DEF Body, HeaderSize
<1> DEFINE b == Body(s, i)
<1> HIDE DEF b
<1>3. ASSUME b - 1 <= Len(s), b \in Nat, b >= i + 5
      PROVE  /\ SubSeq(s, i + 1, b - 1) \in Seq(Byte)
             /\ PayloadSize(SubSeq(s, i + 1, b - 1)) \in Nat
  <2>1. i + 1 \in Nat /\ i + 1 > 0 /\ b - 1 \in Nat /\ i + 1 <= b - 1
    BY <1>1, <1>3
  <2>2. /\ SubSeq(s, i + 1, b - 1) \in Seq(Byte)
        /\ Len(SubSeq(s, i + 1, b - 1)) = (b - 1) - (i + 1) + 1
    BY <1>3, <2>1, Part
  <2>3. Len(SubSeq(s, i + 1, b - 1)) >= 4
    BY <1>3, <2>2
  <2> QED
    BY <2>2, <2>3, PayloadSizeNat
<1> QED
  BY <1>1, <1>2, <1>3 DEF b

(* The meaning at i rests on what `later` says of the bytes behind i only. *)
LEMMA MeaningIsLocal ==
  ASSUME NEW s \in Seq(Byte), NEW i \in 1 .. Len(s) + 1, NEW g, NEW h,
         \A j \in i + 1 .. Len(s) + 1 : g[j] = h[j]
  PROVE  Meaning(s, i, g) = Meaning(s, i, h)
<1>0. Len(s) \in Nat
  BY LenProperties
<1>1. CASE i > Len(s)
  BY <1>1 DEF Meaning
<1>2. CASE ~(i > Len(s))
  <2>0. i \in 1 .. Len(s)
    BY <1>0, <1>2
  <2> DEFINE b == Body(s, i)
             n == b + PayloadSize(SubSeq(s, i + 1, b - 1))
  <2>1. /\ b \in Nat /\ b >= i + 5
        /\ b - 1 <= Len(s) => n \in Nat /\ n >= b
    BY <2>0, BodyType
  <2>2. g[i + 1] = h[i + 1]
    BY <1>0, <2>0
  <2>3. b - 1 <= Len(s) => g[b] = h[b]
    BY <1>0, <2>0, <2>1
  <2>4. b - 1 <= Len(s) /\ n - 1 <= Len(s) => g[n] = h[n]
    BY <1>0, <2>0, <2>1
  <2>5. \A f : Meaning(s, i, f) =
          IF s[i] >= N_NUMMSG THEN f[i + 1]
          ELSE IF b - 1 > Len(s) \/ s[i] \in {N_CONNECT, N_CONTROL} THEN Nothing
          ELSE IF s[i] = N_STATUS
                 THEN [f[b] EXCEPT !.answers = <<"status">> \o @]
          ELSE IF n - 1 > Len(s) THEN Nothing
          ELSE [queries |-> <<SubSeq(s, b, n - 1)>> \o f[n].queries,
                answers |-> <<"1">> \o f[n].answers]
    BY <1>2 DEF Meaning, Body
  <2> HIDE DEF b, n
  <2>6. CASE s[i] >= N_NUMMSG
    BY <2>2, <2>5, <2>6
  <2>7. CASE ~(s[i] >= N_NUMMSG) /\ (b - 1 > Len(s) \/ s[i] \in {N_CONNECT, N_CONTROL})
    BY <2>5, <2>7
  <2>8. CASE /\ ~(s[i] >= N_NUMMSG)
             /\ ~(b - 1 > Len(s) \/ s[i] \in {N_CONNECT, N_CONTROL})
             /\ s[i] = N_STATUS
    <3>1. g[b] = h[b]
      BY <1>0, <2>1, <2>3, <2>8
    <3> QED
      BY <2>5, <2>8, <3>1, Zenon
  <2>9. CASE /\ ~(s[i] >= N_NUMMSG)
             /\ ~(b - 1 > Len(s) \/ s[i] \in {N_CONNECT, N_CONTROL})
             /\ s[i] # N_STATUS
    <3>1. n - 1 > Len(s) \/ g[n] = h[n]
      BY <1>0, <2>1, <2>4, <2>9
    <3> QED
      BY <2>5, <2>9, <3>1
  <2> QED
    BY <2>6, <2>7, <2>8, <2>9
<1> QED
  BY <1>1, <1>2

LEMMA FromEquation ==
  ASSUME NEW s \in Seq(Byte)
  PROVE  \A i \in 1 .. Len(s) + 1 : From(s)[i] = Meaning(s, i, From(s))
<1> DEFINE L == Len(s)
           f == From(s)
           Told(g, m) == /\ g = [i \in L + 2 - m .. L + 1 |-> g[i]]
                         /\ \A i \in L + 2 - m .. L + 1 : g[i] = Meaning(s, i, g)
           Tellable == {m \in Nat : \E g : Told(g, m)}
<1>0. L \in Nat
  BY LenProperties
<1>1. 0 \in Tellable
  <2>1. L + 2 - 0 .. L + 1 = {}
    BY <1>0
  <2>2. Told([i \in {} |-> Nothing], 0)
    BY <2>1
  <2> QED
    BY <2>2
<1>2. ASSUME NEW m \in 0 .. (L + 1) - 1, m \in Tellable PROVE m + 1 \in Tellable
  <2>1. PICK g : Told(g, m)
    BY <1>2
  <2> DEFINE k == L + 1 - m
             value == Meaning(s, k, g)
             h == [i \in k .. L + 1 |-> IF i = k THEN value ELSE g[i]]
  <2>2. k \in 1 .. L + 1 /\ L + 2 - (m + 1) = k /\ L + 2 - m = k + 1
    BY <1>0, <1>2
  <2> HIDE DEF value, k
  <2>3. /\ h = [i \in k .. L + 1 |-> h[i]]
        /\ h[k] = value
        /\ \A i \in k + 1 .. L + 1 : h[i] = g[i]
    BY <1>0, <2>2
  <2> HIDE DEF h
  <2>4. ASSUME NEW i \in k .. L + 1 PROVE h[i] = Meaning(s, i, h)
    <3>0. i \in 1 .. L + 1 /\ \A j \in i + 1 .. L + 1 : j \in k + 1 .. L + 1
      <4> HIDE DEF L
      <4> QED
        BY <1>0, <2>2
    <3>1. \A j \in i + 1 .. L + 1 : g[j] = h[j]
      BY <2>3, <3>0
    <3>2. Meaning(s, i, g) = Meaning(s, i, h)
      BY <3>0, <3>1, MeaningIsLocal
    <3>3. CASE i = k
      BY <2>3, <3>2, <3>3 DEF value
    <3>4. CASE i \in k + 1 .. L + 1
      BY <2>1, <2>2, <2>3, <3>2, <3>4
    <3> QED
      BY <2>2, <3>3, <3>4
  <2>5. Told(h, m + 1)
    BY <2>2, <2>3, <2>4
  <2> QED
    <3> HIDE DEF Told
    <3> QED
      BY <2>5
<1>3. PICK g : Told(g, L + 1)
  <2> HIDE DEF Tellable
  <2>1. 0 .. L + 1 \subseteq Tellable
    BY <1>0, <1>1, <1>2, Climb
  <2>2. L + 1 \in Tellable
    BY <1>0, <2>1
  <2> QED
    BY <2>2 DEF Tellable
<1>4. L + 2 - (L + 1) = 1
  BY <1>0
<1>5. g = [i \in 1 .. L + 1 |-> Meaning(s, i, g)]
  <2>1. g = [i \in 1 .. L + 1 |-> g[i]]
    BY <1>3, <1>4
  <2>2. \A i \in 1 .. L + 1 : g[i] = Meaning(s, i, g)
    BY <1>3, <1>4
  <2> QED
    BY <2>1, <2>2
<1>6. f = CHOOSE from : from = [i \in 1 .. L + 1 |-> Meaning(s, i, from)]
  BY Zenon DEF From
<1> HIDE DEF f
<1>7. f = [i \in 1 .. L + 1 |-> Meaning(s, i, f)]
  BY <1>5, <1>6, Zenon
<1>8. \A i \in 1 .. L + 1 : f[i] = Meaning(s, i, f)
  BY <1>7
<1> QED
  BY <1>8 DEF f

(* Sequences of queries and of answers are put together as any others.     *)
LEMMA QueryPut ==
  ASSUME NEW q \in Query, NEW qs \in Seq(Query)
  PROVE  <<q>> \o qs \in Seq(Query)
<1> HIDE DEF Query
<1>1. <<q>> \in Seq(Query)
  OBVIOUS
<1> QED
  BY <1>1, Joined

LEMMA AnswerPut ==
  ASSUME NEW a \in Answers, NEW as \in Seq(Answers)
  PROVE  <<a>> \o as \in Seq(Answers)
<1> HIDE DEF Answers
<1>1. <<a>> \in Seq(Answers)
  OBVIOUS
<1> QED
  BY <1>1, Joined

LEMMA NothingType == Nothing \in Result
<1>1. <<>> \in Seq(Query) /\ <<>> \in Seq(Answers)
  <2> HIDE DEF Query, Answers
  <2> QED
    OBVIOUS
<1> QED
  BY <1>1 DEF Nothing, Result

LEMMA MeaningType ==
  ASSUME NEW s \in Seq(Byte), NEW i \in 1 .. Len(s) + 1, NEW f,
         \A j \in i + 1 .. Len(s) + 1 : f[j] \in Result
  PROVE  Meaning(s, i, f) \in Result
<1>0. Len(s) \in Nat
  BY LenProperties
<1>1. CASE i > Len(s)
  BY <1>1, NothingType DEF Meaning
<1>2. CASE ~(i > Len(s))
  <2>0. i \in 1 .. Len(s)
    BY <1>0, <1>2
  <2> DEFINE b == Body(s, i)
             n == b + PayloadSize(SubSeq(s, i + 1, b - 1))
  <2>1. /\ b \in Nat /\ b >= i + 5
        /\ b - 1 <= Len(s) => n \in Nat /\ n >= b
    BY <2>0, BodyType
  <2>2. Meaning(s, i, f) =
          IF s[i] >= N_NUMMSG THEN f[i + 1]
          ELSE IF b - 1 > Len(s) \/ s[i] \in {N_CONNECT, N_CONTROL} THEN Nothing
          ELSE IF s[i] = N_STATUS
                 THEN [f[b] EXCEPT !.answers = <<"status">> \o @]
          ELSE IF n - 1 > Len(s) THEN Nothing
          ELSE [queries |-> <<SubSeq(s, b, n - 1)>> \o f[n].queries,
                answers |-> <<"1">> \o f[n].answers]
    BY <1>2 DEF Meaning, Body
  <2> HIDE DEF b, n
  <2>3. f[i + 1] \in Result
    BY <1>0, <2>0
  <2>4. ASSUME b - 1 <= Len(s)
        PROVE  [f[b] EXCEPT !.answers = <<"status">> \o @] \in Result
    <3>1. f[b] \in Result
      BY <1>0, <2>0, <2>1, <2>4
    <3>2. <<"status">> \o f[b].answers \in Seq(Answers)
      BY <3>1, AnswerPut DEF Result, Answers
    <3> QED
      BY <3>1, <3>2 DEF Result
  <2>5. ASSUME b - 1 <= Len(s), n - 1 <= Len(s)
        PROVE  [queries |-> <<SubSeq(s, b, n - 1)>> \o f[n].queries,
                answers |-> <<"1">> \o f[n].answers] \in Result
    <3>1. f[n] \in Result
      BY <1>0, <2>0, <2>1, <2>5
    <3>2. <<"1">> \o f[n].answers \in Seq(Answers)
      BY <3>1, AnswerPut DEF Result, Answers
    <3>3. SubSeq(s, b, n - 1) \in Query
      <4>1. b > 0 /\ n - 1 \in Nat /\ b \in Nat
        BY <2>0, <2>1, <2>5
      <4> QED
        BY <2>5, <4>1, Part DEF Query
    <3>4. <<SubSeq(s, b, n - 1)>> \o f[n].queries \in Seq(Query)
      BY <3>1, <3>3, QueryPut DEF Result
    <3> QED
      BY <3>2, <3>4 DEF Result
  <2>6. b - 1 <= Len(s) \/ b - 1 > Len(s)
    BY <1>0, <2>1
  <2>7. b - 1 <= Len(s) => n - 1 <= Len(s) \/ n - 1 > Len(s)
    BY <1>0, <2>1
  <2> QED
    BY <2>2, <2>3, <2>4, <2>5, <2>6, <2>7, NothingType
<1> QED
  BY <1>1, <1>2

LEMMA FromType ==
  ASSUME NEW s \in Seq(Byte)
  PROVE  \A i \in 1 .. Len(s) + 1 : From(s)[i] \in Result
<1> DEFINE L == Len(s)
           f == From(s)
           Typed == {m \in Nat : \A i \in L + 2 - m .. L + 1 : f[i] \in Result}
<1>0. L \in Nat
  BY LenProperties
<1>1. \A i \in 1 .. L + 1 : f[i] = Meaning(s, i, f)
  BY FromEquation
<1> HIDE DEF f
<1>2. 0 \in Typed
  BY <1>0
<1>3. ASSUME NEW m \in 0 .. (L + 1) - 1, m \in Typed PROVE m + 1 \in Typed
  <2> DEFINE k == L + 1 - m
  <2>1. k \in 1 .. L + 1 /\ L + 2 - m = k + 1 /\ L + 2 - (m + 1) = k
    BY <1>0
  <2>2. \A i \in k + 1 .. L + 1 : f[i] \in Result
    BY <1>3, <2>1
  <2> HIDE DEF k
  <2>3. f[k] \in Result
    BY <1>1, <2>1, <2>2, MeaningType
  <2>4. \A i \in k .. L + 1 : f[i] \in Result
    BY <1>0, <2>1, <2>2, <2>3
  <2> QED
    BY <2>1, <2>4
<1>4. L + 1 \in Typed
  <2> HIDE DEF Typed
  <2>1. 0 .. L + 1 \subseteq Typed
    BY <1>0, <1>2, <1>3, Climb
  <2> QED
    BY <1>0, <2>1
<1>5. L + 2 - (L + 1) = 1
  BY <1>0
<1> QED
  BY <1>4, <1>5 DEF f

(* The equation once more, case by case as the handler takes them.         *)
LEMMA FromEnd ==
  ASSUME NEW s \in Seq(Byte)
  PROVE  From(s)[Len(s) + 1] = Nothing
<1>1. Len(s) \in Nat /\ Len(s) + 1 \in 1 .. Len(s) + 1 /\ Len(s) + 1 > Len(s)
  BY LenProperties
<1> QED
  BY <1>1, FromEquation DEF Meaning

LEMMA FromUnknown ==
  ASSUME NEW s \in Seq(Byte), NEW i \in 1 .. Len(s), s[i] >= N_NUMMSG
  PROVE  From(s)[i] = From(s)[i + 1]
<1>1. i \in 1 .. Len(s) + 1 /\ ~(i > Len(s))
  BY LenProperties
<1> QED
  BY <1>1, FromEquation DEF Meaning

LEMMA FromHeaderCut ==
  ASSUME NEW s \in Seq(Byte), NEW i \in 1 .. Len(s), ~(s[i] >= N_NUMMSG),
         Body(s, i) - 1 > Len(s)
  PROVE  From(s)[i] = Nothing
<1>1. i \in 1 .. Len(s) + 1 /\ ~(i > Len(s))
  BY LenProperties
<1> QED
  BY <1>1, FromEquation DEF Meaning, Body

LEMMA FromUnhandled ==
  ASSUME NEW s \in Seq(Byte), NEW i \in 1 .. Len(s), s[i] \in {N_CONNECT, N_CONTROL}
  PROVE  From(s)[i] = Nothing
<1>1. i \in 1 .. Len(s) + 1 /\ ~(i > Len(s))
  BY LenProperties
<1>2. From(s)[i] = Meaning(s, i, From(s))
  BY <1>1, FromEquation
<1>3. ~(s[i] >= N_NUMMSG)
  BY DEF N_CONNECT, N_CONTROL, N_NUMMSG
<1>4. Meaning(s, i, From(s)) = Nothing
  BY <1>1, <1>3, Zenon DEF Meaning
<1> QED
  BY <1>2, <1>4

LEMMA FromStatus ==
  ASSUME NEW s \in Seq(Byte), NEW i \in 1 .. Len(s), s[i] = N_STATUS,
         ~(Body(s, i) - 1 > Len(s))
  PROVE  From(s)[i] = [From(s)[Body(s, i)] EXCEPT !.answers = <<"status">> \o @]
<1>1. i \in 1 .. Len(s) + 1 /\ ~(i > Len(s))
  BY LenProperties
<1>2. From(s)[i] = Meaning(s, i, From(s))
  BY <1>1, FromEquation
<1>3. s[i] \notin {N_CONNECT, N_CONTROL} /\ ~(s[i] >= N_NUMMSG)
  BY DEF N_CONNECT, N_CONTROL, N_STATUS, N_NUMMSG
<1>4. Meaning(s, i, From(s))
        = [From(s)[Body(s, i)] EXCEPT !.answers = <<"status">> \o @]
  BY <1>1, <1>3, Zenon DEF Meaning, Body
<1> QED
  BY <1>2, <1>4

(* What a query with its payload from b to next - 1 means.                 *)
QueryMeaning(s, b, next) ==
  IF next - 1 > Len(s) THEN Nothing
  ELSE [queries |-> <<SubSeq(s, b, next - 1)>> \o From(s)[next].queries,
        answers |-> <<"1">> \o From(s)[next].answers]

LEMMA FromQuery ==
  ASSUME NEW s \in Seq(Byte), NEW i \in 1 .. Len(s), s[i] = N_MYSQLDATA,
         ~(Body(s, i) - 1 > Len(s))
  PROVE  From(s)[i]
           = QueryMeaning(s, Body(s, i),
               Body(s, i) + PayloadSize(SubSeq(s, i + 1, Body(s, i) - 1)))
<1>1. i \in 1 .. Len(s) + 1 /\ ~(i > Len(s))
  BY LenProperties
<1>2. From(s)[i] = Meaning(s, i, From(s))
  BY <1>1, FromEquation
<1>3. /\ s[i] \notin {N_CONNECT, N_CONTROL} /\ ~(s[i] >= N_NUMMSG)
      /\ s[i] # N_STATUS
  BY DEF N_CONNECT, N_CONTROL, N_STATUS, N_NUMMSG, N_MYSQLDATA
<1> QED
  BY <1>1, <1>2, <1>3, Zenon DEF Meaning, Body, QueryMeaning

LEMMA DecodeVersion ==
  ASSUME NEW s \in Seq(Byte), Len(s) >= 1, ProtoOK(s[1])
  PROVE  Decode(s) = [queries |-> From(s)[2].queries,
                      answers |-> <<"1">> \o From(s)[2].answers]
<1>1. s # <<>> /\ 2 \in 1 .. Len(s) + 1
  BY EmptySeq, LenProperties
<1>2. From(s)[2] \in Result
  BY <1>1, FromType
<1>3. Decode(s) = [From(s)[2] EXCEPT !.answers = <<"1">> \o @]
  BY <1>1 DEF Decode
<1> QED
  BY <1>2, <1>3 DEF Result

LEMMA DecodeType ==
  ASSUME NEW s \in Seq(Byte)
  PROVE  Decode(s) \in Result
<1>1. CASE s = <<>> \/ ~ProtoOK(s[1])
  <2>1. [queries |-> <<>>, answers |-> <<"0">>] \in Result
    <3>1. <<"0">> \in Seq(Answers)
      BY DEF Answers
    <3>2. <<>> \in Seq(Query)
      BY NothingType DEF Nothing, Result
    <3> QED
      BY <3>1, <3>2 DEF Result
  <2> QED
    BY <1>1, <2>1, NothingType DEF Decode
<1>2. CASE s # <<>> /\ ProtoOK(s[1])
  <2>1. Len(s) >= 1 /\ Len(s) \in Nat /\ 2 \in 1 .. Len(s) + 1
    BY <1>2, EmptySeq, LenProperties
  <2>2. From(s)[2] \in Result
    BY <2>1, FromType
  <2>3. <<"1">> \o From(s)[2].answers \in Seq(Answers)
    BY <2>2, AnswerPut DEF Result, Answers
  <2>4. Decode(s) = [queries |-> From(s)[2].queries,
                     answers |-> <<"1">> \o From(s)[2].answers]
    BY <1>2, <2>1, DecodeVersion
  <2> QED
    BY <2>2, <2>3, <2>4 DEF Result
<1> QED
  BY <1>1, <1>2

-----------------------------------------------------------------------------
(* ChunkingIrrelevant.  Parsed is how much of the stream has been parsed,  *)
(* and a stream that extends it may continue in any way.  What was queued  *)
(* and answered is the start of what each such stream means, and Rest is   *)
(* what is missing: it follows from where in a message the handler is.     *)
Parsed == rpos - Len(data) + pos

Extends(s) ==
  s \in Seq(Byte) /\ Len(s) >= Parsed /\ \A k \in 1 .. Parsed : s[k] = stream[k]

PayloadStart == Parsed + 1 - Len(payload_data)

Rest(s) ==
  IF pc = "ack" THEN [queries |-> From(s)[Parsed + 1].queries,
                      answers |-> <<"1">> \o From(s)[Parsed + 1].answers]
  ELSE IF ~has_message_proto_ THEN Decode(s)
  ELSE IF ~has_message_type_ THEN From(s)[Parsed + 1]
  ELSE IF ~has_message_header_ THEN From(s)[Parsed]
  ELSE IF message_type_ = N_STATUS
    THEN [From(s)[Parsed + 1] EXCEPT !.answers = <<"status">> \o @]
  ELSE IF message_type_ = N_MYSQLDATA
    THEN QueryMeaning(s, PayloadStart, PayloadStart + payload_data_size)
  ELSE Nothing

SoFar(r) == [queries |-> messages \o r.queries, answers |-> answers \o r.answers]

Buffered ==
  /\ Len(data) <= rpos
  /\ \A k \in 1 .. Len(data) : data[k] = stream[rpos - Len(data) + k]

InPayload == has_message_header_ /\ message_type_ = N_MYSQLDATA /\ pc # "ack"

(* Where the handler is, and what it holds of the stream.                  *)
Place ==
  /\ Buffered
  /\ ~has_message_proto_ => Parsed = 0 /\ messages = <<>> /\ answers = <<>>
  /\ has_message_proto_ => Parsed >= 1
  /\ has_message_type_ => has_message_proto_ /\ message_type_ < N_NUMMSG
  /\ has_message_header_ => has_message_type_
  /\ has_message_type_ /\ ~has_message_header_ => stream[Parsed] = message_type_
  /\ has_message_header_ /\ message_type_ = N_STATUS => pc = "switch"
  /\ pc = "ack" => has_message_header_ /\ message_type_ = N_MYSQLDATA
  /\ InPayload => /\ Len(payload_data) < Parsed
                  /\ \A k \in 1 .. Len(payload_data) :
                       payload_data[k] = stream[Parsed - Len(payload_data) + k]
                  /\ pc # "switch" => Len(payload_data) < payload_data_size
  /\ pc = "recv" /\ data # <<>> =>
       /\ has_message_type_ /\ ~has_message_header_
       /\ Len(data) < HeaderSize(message_type_)

Live == ~torn /\ pc \in {"recv", "parse", "switch", "ack"}

Faithful == \A s : Extends(s) => Decode(s) = SoFar(Rest(s))

Tracks == Live => Place /\ Faithful

-----------------------------------------------------------------------------
(* An element that moves from the start of the rest to the end.            *)
LEMMA AnswersMove ==
  ASSUME NEW s \in Seq(Answers), NEW a \in Answers, NEW t \in Seq(Answers)
  PROVE  s \o (<<a>> \o t) = Append(s, a) \o t
<1> HIDE DEF Answers
<1>1. <<a>> \in Seq(Answers)
  OBVIOUS
<1>2. Append(s, a) = s \o <<a>>
  BY AppendIsConcat
<1> QED
  BY <1>1, <1>2, ConcatAssociative

LEMMA QueriesMove ==
  ASSUME NEW s \in Seq(Query), NEW q \in Query, NEW t \in Seq(Query)
  PROVE  s \o (<<q>> \o t) = Append(s, q) \o t
<1> HIDE DEF Query
<1>1. <<q>> \in Seq(Query)
  OBVIOUS
<1>2. Append(s, q) = s \o <<q>>
  BY AppendIsConcat
<1> QED
  BY <1>1, <1>2, ConcatAssociative

LEMMA Numbers ==
  ASSUME Inv, Place
  PROVE  /\ Len(data) \in Nat /\ pos \in 0 .. Len(data) /\ rpos \in Nat
         /\ Len(stream) \in Nat /\ Len(payload_data) \in Nat
         /\ payload_data_size \in Nat
         /\ Parsed \in Nat /\ Parsed + (Len(data) - pos) = rpos /\ rpos <= Len(stream)
         /\ \A k \in 1 .. Len(data) - pos : data[pos + k] = stream[Parsed + k]
<1>1. /\ Len(data) \in Nat /\ pos \in 0 .. Len(data) /\ rpos \in 0 .. Len(stream)
      /\ Len(stream) \in Nat /\ Len(payload_data) \in Nat
      /\ payload_data_size \in Nat /\ Len(data) <= rpos
  BY LenProperties DEF Inv, TypeOK, HandlerTypeOK, ConnTypeOK, Place, Buffered
<1>2. ASSUME NEW k \in 1 .. Len(data) - pos PROVE data[pos + k] = stream[Parsed + k]
  <2>1. pos + k \in 1 .. Len(data) /\ rpos - Len(data) + (pos + k) = Parsed + k
    BY <1>1 DEF Parsed
  <2>2. data[pos + k] = stream[rpos - Len(data) + (pos + k)]
    BY <2>1 DEF Place, Buffered
  <2> QED
    BY <2>1, <2>2
<1> QED
  BY <1>1, <1>2 DEF Parsed

(* What extends the stream after a step extended it before.                *)
LEMMA Advance ==
  ASSUME Inv, Place, Faithful, NEW n \in Nat, Parsed' = Parsed + n,
         \A k \in 1 .. Parsed + n : stream'[k] = stream[k],
         NEW s, Extends(s)'
  PROVE  /\ s \in Seq(Byte) /\ Len(s) \in Nat /\ Len(s) >= Parsed + n
         /\ \A k \in 1 .. Parsed + n : s[k] = stream[k]
         /\ Decode(s) = SoFar(Rest(s))
<1>1. Parsed \in Nat
  BY Numbers
<1>2. /\ s \in Seq(Byte) /\ Len(s) >= Parsed + n
      /\ \A k \in 1 .. Parsed + n : s[k] = stream[k]
  BY DEF Extends
<1>3. Len(s) \in Nat
  BY <1>2, LenProperties
<1>4. Len(s) >= Parsed /\ \A k \in 1 .. Parsed : s[k] = stream[k]
  BY <1>1, <1>2, <1>3
<1>5. Extends(s)
  BY <1>2, <1>4 DEF Extends
<1> QED
  BY <1>2, <1>3, <1>5 DEF Faithful

(* recv().                                                                 *)
LEMMA TracksRecv ==
  ASSUME Inv, Tracks, RecvReturns
  PROVE  Tracks'
<1> SUFFICES ASSUME Live' PROVE Place' /\ Faithful'
  BY DEF Tracks
<1>1. pc = "recv" /\ ~torn /\ ~RecvFails /\ pc' = "parse"
      /\ UNCHANGED <<messages, pos, flags, payload, answers, stream>>
  BY DEF Live, RecvReturns, Recv, RecvFails, RecvEnds, Goto, RecvBytes, RecvError, RecvZero,
         connVars
<1>2. Place /\ Faithful
  BY <1>1 DEF Tracks, Live
<1>3. pos = 0
  BY <1>1 DEF Inv, Bookkeeping
<1>4. Parsed' = Parsed /\ Buffered'
  <2>1. CASE RecvEnds
    BY <1>1, <1>2, <2>1 DEF RecvEnds, RecvZero, connVars, Parsed, Place, Buffered
  <2>2. ASSUME NEW n \in 1 .. Min2(BUFSIZE - 1, Unreceived), Recv(n)
        PROVE  Parsed' = Parsed /\ Buffered'
    <3>1. /\ rpos' = rpos + n
          /\ data' = data \o SubSeq(stream, rpos + 1, rpos + n)
      BY <2>2 DEF Recv, RecvBytes
    <3>2. n \in Nat /\ n > 0 /\ rpos + n <= Len(stream)
      <4>1. rpos \in Nat /\ Len(stream) \in Nat /\ rpos <= Len(stream)
        BY <1>2, Numbers
      <4>2. BUFSIZE - 1 \in Nat
        BY HandlerAssumption
      <4>3. Unreceived \in Nat /\ rpos + Unreceived = Len(stream)
        BY <4>1 DEF Unreceived
      <4>4. /\ Min2(BUFSIZE - 1, Unreceived) \in Nat
            /\ Min2(BUFSIZE - 1, Unreceived) <= Unreceived
        BY <4>2, <4>3, Minimum
      <4> QED
        BY <4>1, <4>3, <4>4
    <3> DEFINE new == SubSeq(stream, rpos + 1, rpos + n)
    <3>3. /\ new \in Seq(Byte) /\ Len(new) = n
          /\ \A k \in 1 .. n : new[k] = stream[rpos + k]
      <4>1. stream \in Seq(Byte) /\ rpos \in Nat /\ Len(stream) \in Nat
        BY <1>2, Numbers DEF Inv, BytesOnly
      <4>2. rpos + 1 \in 1 .. Len(stream) + 1 /\ rpos + n \in rpos + 1 - 1 .. Len(stream)
        BY <3>2, <4>1
      <4>3. /\ new \in Seq(Byte)
            /\ Len(new) = (rpos + n) - (rpos + 1) + 1
            /\ \A i \in 1 .. (rpos + n) - (rpos + 1) + 1 : new[i] = stream[(rpos + 1) + i - 1]
        BY <3>2, <4>1, <4>2, SubSeqProperties
      <4>4. (rpos + n) - (rpos + 1) + 1 = n /\ \A i \in 1 .. n : (rpos + 1) + i - 1 = rpos + i
        BY <3>2, <4>1
      <4> QED
        BY <4>3, <4>4
    <3> HIDE DEF new
    <3>4. data \in Seq(Byte) /\ data' = data \o new
      BY <3>1 DEF new, Inv, TypeOK, HandlerTypeOK
    <3>5. /\ Len(data') = Len(data) + n
          /\ \A k \in 1 .. Len(data) + n :
               data'[k] = IF k <= Len(data) THEN data[k] ELSE new[k - Len(data)]
      BY <3>3, <3>4, ConcatProperties
    <3>6. /\ Len(data) \in Nat /\ rpos \in Nat /\ Len(data) <= rpos
          /\ \A k \in 1 .. Len(data) : data[k] = stream[rpos - Len(data) + k]
      BY <1>2, Numbers DEF Place, Buffered
    <3>7. Parsed' = Parsed
      BY <1>3, <1>1, <3>1, <3>2, <3>5, <3>6 DEF Parsed
    <3>8. ASSUME NEW k \in 1 .. Len(data) + n
          PROVE  data'[k] = stream[rpos' - Len(data') + k]
      <4>1. rpos' - Len(data') + k = rpos - Len(data) + k
        BY <3>1, <3>2, <3>5, <3>6
      <4>2. CASE k <= Len(data)
        BY <3>5, <3>6, <4>1, <4>2
      <4>3. CASE ~(k <= Len(data))
        <5>1. k - Len(data) \in 1 .. n /\ rpos + (k - Len(data)) = rpos - Len(data) + k
          BY <3>2, <3>6, <4>3
        <5> QED
          BY <3>3, <3>5, <4>1, <4>3, <5>1
      <4> QED
        BY <4>2, <4>3
    <3>9. Len(data') <= rpos' /\ 1 .. Len(data') = 1 .. Len(data) + n
      BY <3>1, <3>2, <3>5, <3>6
    <3>10. stream' = stream
      BY <1>1
    <3> QED
      BY <3>7, <3>8, <3>9, <3>10 DEF Buffered
  <2> QED
    BY <1>1, <2>1, <2>2 DEF RecvReturns
<1>5. Place'
  BY <1>1, <1>2, <1>4 DEF Place, InPayload, flags, payload
<1>6. ASSUME NEW s, Extends(s)' PROVE Decode(s) = SoFar(Rest(s))'
  <2>1. Decode(s) = SoFar(Rest(s))
    <3>1. 0 \in Nat /\ Parsed' = Parsed + 0
      BY <1>2, <1>4, Numbers
    <3> QED
      BY <1>1, <1>2, <1>6, <3>1, Advance
  <2> QED
    BY <1>1, <1>4, <2>1 DEF SoFar, Rest, PayloadStart, flags, payload
<1> QED
  BY <1>5, <1>6 DEF Faithful

(* The loop leaves nothing behind but a header that is cut.                *)
LEMMA TracksLeftover ==
  ASSUME Inv, Tracks, ChunkDone \/ HeaderMissing
  PROVE  Tracks'
<1> SUFFICES ASSUME Live' PROVE Place' /\ Faithful'
  BY DEF Tracks
<1>1. /\ pc = "parse" /\ pc' = "recv" /\ ~torn
      /\ data' = SubSeq(data, pos + 1, Len(data)) /\ pos' = 0
      /\ UNCHANGED <<connVars, messages, flags, payload, answers>>
  BY DEF Live, ChunkDone, HeaderMissing, KeepLeftover, Goto
<1>2. Place /\ Faithful
  BY <1>1 DEF Tracks, Live
<1>3. /\ Len(data) \in Nat /\ pos \in 0 .. Len(data) /\ rpos \in Nat
      /\ Parsed \in Nat /\ Parsed + (Len(data) - pos) = rpos
      /\ \A k \in 1 .. Len(data) - pos : data[pos + k] = stream[Parsed + k]
  BY <1>2, Numbers
<1>4. /\ Len(data') = Len(data) - pos
      /\ \A k \in 1 .. Len(data) - pos : data'[k] = data[pos + k]
  <2>1. data \in Seq(Byte)
    BY DEF Inv, TypeOK, HandlerTypeOK
  <2>2. pos + 1 \in 1 .. Len(data) + 1 /\ Len(data) \in pos + 1 - 1 .. Len(data)
    BY <1>3
  <2>3. /\ Len(data') = Len(data) - (pos + 1) + 1
        /\ \A i \in 1 .. Len(data) - (pos + 1) + 1 : data'[i] = data[(pos + 1) + i - 1]
    BY <1>1, <2>1, <2>2, SubSeqProperties
  <2>4. /\ Len(data) - (pos + 1) + 1 = Len(data) - pos
        /\ \A i \in 1 .. Len(data) - pos : (pos + 1) + i - 1 = pos + i
    BY <1>3
  <2> QED
    BY <2>3, <2>4
<1>5. Parsed' = Parsed
  <2>1. rpos' = rpos /\ pos' = 0
    BY <1>1 DEF connVars
  <2>2. rpos - (Len(data) - pos) + 0 = rpos - Len(data) + pos
    BY <1>3
  <2> QED
    BY <1>4, <2>1, <2>2 DEF Parsed
<1>6. Buffered'
  <2>1. Len(data') <= rpos' /\ rpos' - Len(data') = Parsed
    BY <1>1, <1>3, <1>4 DEF connVars
  <2>2. \A k \in 1 .. Len(data') : data'[k] = stream[Parsed + k]
    BY <1>3, <1>4
  <2>3. stream' = stream
    BY <1>1 DEF connVars
  <2> QED
    BY <2>1, <2>2, <2>3 DEF Buffered
<1>7. data' # <<>> => /\ has_message_type_ /\ ~has_message_header_
                      /\ Len(data') < HeaderSize(message_type_)
  <2>1. data' # <<>> => Len(data') # 0
    BY <1>1, <1>3, Part, EmptySeq DEF Inv, TypeOK, HandlerTypeOK
  <2>2. CASE ChunkDone
    BY <1>3, <1>4, <2>1, <2>2 DEF ChunkDone
  <2>3. CASE HeaderMissing
    <3>1. HeaderSize(message_type_) \in Nat
      BY DEF HeaderSize
    <3> QED
      BY <1>3, <1>4, <2>3, <3>1 DEF HeaderMissing, HeaderComplete
  <2> QED
    BY <2>2, <2>3
<1>8. Place'
  BY <1>1, <1>2, <1>5, <1>6, <1>7 DEF Place, InPayload, flags, payload, connVars
<1>9. ASSUME NEW s, Extends(s)' PROVE Decode(s) = SoFar(Rest(s))'
  <2>1. Decode(s) = SoFar(Rest(s))
    <3>1. 0 \in Nat /\ Parsed' = Parsed + 0 /\ stream' = stream
      BY <1>1, <1>3, <1>5 DEF connVars
    <3> QED
      BY <1>2, <1>9, <3>1, Advance
  <2> QED
    BY <1>1, <1>5, <2>1 DEF SoFar, Rest, PayloadStart, flags, payload
<1> QED
  BY <1>8, <1>9 DEF Faithful

(* What one more byte of the stream is.                                    *)
LEMMA NextByte ==
  ASSUME Inv, Place, More
  PROVE  data[pos + 1] = stream[Parsed + 1] /\ data[pos + 1] \in Byte
<1>1. /\ Len(data) \in Nat /\ pos \in 0 .. Len(data)
      /\ \A k \in 1 .. Len(data) - pos : data[pos + k] = stream[Parsed + k]
  BY Numbers
<1>2. 1 \in 1 .. Len(data) - pos /\ pos + 1 \in 1 .. Len(data)
  BY <1>1 DEF More
<1>3. data \in Seq(Byte)
  BY DEF Inv, TypeOK, HandlerTypeOK
<1> QED
  BY <1>1, <1>2, <1>3, ElementOfSeq

(* Bytes of the buffer that are parsed: the buffer stays what it was.      *)
LEMMA ParsedMore ==
  ASSUME Inv, Place, NEW n \in Nat, pos' = pos + n, UNCHANGED <<data, rpos, stream>>
  PROVE  Parsed' = Parsed + n /\ Buffered'
<1>1. Len(data) \in Nat /\ pos \in Nat /\ rpos \in Nat
  BY Numbers
<1>2. Parsed' = Parsed + n
  BY <1>1 DEF Parsed
<1> QED
  BY <1>2 DEF Buffered, Place

LEMMA TracksProto ==
  ASSUME Inv, Tracks, ParseProto
  PROVE  Tracks'
<1> SUFFICES ASSUME Live' PROVE Place' /\ Faithful'
  BY DEF Tracks
<1>1. /\ pc = "parse" /\ ~torn /\ More /\ ~has_message_proto_ /\ pos' = pos + 1
      /\ UNCHANGED <<messages, data, has_message_type_, has_message_header_,
                     message_type_, payload>>
  BY DEF Live, ParseProto, More
<1>2. Place /\ Faithful
  BY <1>1 DEF Tracks, Live
<1>3. /\ ProtoOK(data[pos + 1]) /\ has_message_proto_' /\ Answer("1") /\ pc' = pc
  BY DEF ParseProto, Live
<1>4. UNCHANGED <<stream, rpos>>
  BY <1>3 DEF Answer, SendData, RawSend, SendMeetsReset
<1>5. /\ Parsed = 0 /\ messages = <<>> /\ answers = <<>>
      /\ ~has_message_type_ /\ ~has_message_header_
  BY <1>1, <1>2 DEF Place
<1>6. Parsed' = 1 /\ Buffered'
  BY <1>1, <1>2, <1>4, <1>5, ParsedMore
<1>7. Place'
  BY <1>1, <1>3, <1>5, <1>6 DEF Place, InPayload
<1>8. ASSUME NEW s, Extends(s)' PROVE Decode(s) = SoFar(Rest(s))'
  <2>1. /\ s \in Seq(Byte) /\ Len(s) \in Nat /\ Len(s) >= 1 /\ s[1] = stream[1]
    <3>1. 1 \in Nat /\ Parsed' = Parsed + 1 /\ 0 + 1 = 1
      BY <1>5, <1>6
    <3> QED
      BY <1>2, <1>4, <1>5, <1>8, <3>1, Advance
  <2>2. ProtoOK(s[1])
    BY <1>1, <1>2, <1>3, <1>5, <2>1, NextByte
  <2>3. From(s)[2] \in Result
    BY <2>1, FromType
  <2>4. Decode(s) = [queries |-> From(s)[2].queries,
                     answers |-> <<"1">> \o From(s)[2].answers]
    BY <2>1, <2>2, DecodeVersion
  <2>5. Rest(s)' = From(s)[2]
    <3>1. Parsed' + 1 = 2
      BY <1>6
    <3> QED
      BY <1>1, <1>3, <1>5, <3>1 DEF Rest
  <2>6. messages' = <<>> /\ answers' = <<"1">>
    BY <1>1, <1>3, <1>5 DEF Answer
  <2>7. <<>> \o From(s)[2].queries = From(s)[2].queries
    BY <2>3, ConcatEmptySeq DEF Result
  <2> QED
    BY <2>4, <2>5, <2>6, <2>7 DEF SoFar
<1> QED
  BY <1>7, <1>8 DEF Faithful

LEMMA TracksType ==
  ASSUME Inv, Tracks, ParseType
  PROVE  Tracks'
<1> SUFFICES ASSUME Live' PROVE Place' /\ Faithful'
  BY DEF Tracks
<1>1. /\ pc = "parse" /\ pc' = pc /\ ~torn /\ More /\ pos' = pos + 1
      /\ has_message_proto_ /\ ~has_message_type_
      /\ message_type_' = data[pos + 1]
      /\ has_message_type_' = (message_type_' < N_NUMMSG)
      /\ UNCHANGED <<stream, rpos, messages, data, has_message_proto_,
                     has_message_header_, payload, answers>>
  BY DEF Live, ParseType, More, connVars
<1>2. Place /\ Faithful
  BY <1>1 DEF Tracks, Live
<1>3. Parsed \in Nat /\ Parsed >= 1 /\ ~has_message_header_
  BY <1>1, <1>2, Numbers DEF Place
<1>4. Parsed' = Parsed + 1 /\ Buffered'
  BY <1>1, <1>2, ParsedMore
<1>5. message_type_' = stream[Parsed + 1] /\ message_type_' \in Byte
  BY <1>1, <1>2, NextByte
<1>6. Place'
  <2>1. stream'[Parsed'] = message_type_'
    BY <1>1, <1>4, <1>5
  <2>2. Parsed' >= 1
    BY <1>3, <1>4
  <2> QED
    BY <1>1, <1>3, <1>4, <2>1, <2>2 DEF Place, InPayload
<1>7. ASSUME NEW s, Extends(s)' PROVE Decode(s) = SoFar(Rest(s))'
  <2>1. /\ s \in Seq(Byte) /\ Len(s) \in Nat /\ Len(s) >= Parsed + 1
        /\ \A k \in 1 .. Parsed + 1 : s[k] = stream[k]
        /\ Decode(s) = SoFar(Rest(s))
    BY <1>1, <1>2, <1>4, <1>7, Advance
  <2>2. s[Parsed + 1] = message_type_' /\ Parsed + 1 \in 1 .. Len(s)
    BY <1>3, <1>5, <2>1
  <2>3. Rest(s) = From(s)[Parsed + 1]
    BY <1>1 DEF Rest
  <2>4. Rest(s)' = From(s)[Parsed + 1]
    <3>1. CASE has_message_type_'
      BY <1>1, <1>3, <1>4, <3>1 DEF Rest
    <3>2. CASE ~has_message_type_'
      <4>1. s[Parsed + 1] >= N_NUMMSG
        <5>1. ~(message_type_' < N_NUMMSG)
          BY <1>1, <3>2
        <5> QED
          BY <1>5, <2>2, <5>1 DEF Byte, N_NUMMSG
      <4>2. From(s)[Parsed + 1] = From(s)[Parsed + 1 + 1]
        BY <2>1, <2>2, <4>1, FromUnknown
      <4> QED
        BY <1>1, <1>4, <3>2, <4>2 DEF Rest
    <3> QED
      BY <3>1, <3>2
  <2> QED
    BY <1>1, <2>1, <2>3, <2>4 DEF SoFar
<1> QED
  BY <1>6, <1>7 DEF Faithful

(* The bytes from the parse buffer are those of the stream.                *)
LEMMA SameBytes ==
  ASSUME Inv, Place, NEW n \in Nat, n <= Len(data) - pos
  PROVE  /\ SubSeq(data, pos + 1, pos + n) \in Seq(Byte)
         /\ Len(SubSeq(data, pos + 1, pos + n)) = n
         /\ \A k \in 1 .. n : SubSeq(data, pos + 1, pos + n)[k] = stream[Parsed + k]
<1>1. /\ Len(data) \in Nat /\ pos \in 0 .. Len(data)
      /\ \A k \in 1 .. Len(data) - pos : data[pos + k] = stream[Parsed + k]
  BY Numbers
<1>2. data \in Seq(Byte)
  BY DEF Inv, TypeOK, HandlerTypeOK
<1> DEFINE part == SubSeq(data, pos + 1, pos + n)
<1>3. pos + 1 \in 1 .. Len(data) + 1 /\ pos + n \in pos + 1 - 1 .. Len(data)
  BY <1>1
<1>4. /\ part \in Seq(Byte)
      /\ Len(part) = IF pos + 1 <= pos + n THEN (pos + n) - (pos + 1) + 1 ELSE 0
      /\ \A i \in 1 .. (pos + n) - (pos + 1) + 1 : part[i] = data[(pos + 1) + i - 1]
  <2> DEFINE a == pos + 1
             b == pos + n
  <2> HIDE DEF a, b
  <2>1. a \in 1 .. Len(data) + 1 /\ b \in a - 1 .. Len(data)
    BY <1>1, <1>3 DEF a, b
  <2>2. /\ SubSeq(data, a, b) \in Seq(Byte)
        /\ Len(SubSeq(data, a, b)) = IF a <= b THEN b - a + 1 ELSE 0
        /\ \A i \in 1 .. b - a + 1 : SubSeq(data, a, b)[i] = data[a + i - 1]
    BY <1>2, <2>1, SubSeqProperties
  <2> QED
    BY <2>2 DEF a, b
<1> HIDE DEF part
<1>5. /\ (pos + n) - (pos + 1) + 1 = n
      /\ \A i \in 1 .. n : (pos + 1) + i - 1 = pos + i /\ i \in 1 .. Len(data) - pos
  BY <1>1
<1>6. part \in Seq(Byte) /\ Len(part) = n /\ \A k \in 1 .. n : part[k] = stream[Parsed + k]
  BY <1>1, <1>4, <1>5
<1> QED
  BY <1>6 DEF part

(* A part of a stream is told by its length and its bytes.                 *)
LEMMA PartOf ==
  ASSUME NEW s \in Seq(Byte), NEW m \in Nat, NEW n \in Nat, m + n <= Len(s),
         NEW p \in Seq(Byte), Len(p) = n, \A k \in 1 .. n : p[k] = s[m + k]
  PROVE  p = SubSeq(s, m + 1, m + n)
<1> DEFINE q == SubSeq(s, m + 1, m + n)
<1>1. Len(s) \in Nat
  BY LenProperties
<1>2. m + 1 \in 1 .. Len(s) + 1 /\ m + n \in m + 1 - 1 .. Len(s)
  BY <1>1
<1>3. /\ q \in Seq(Byte)
      /\ Len(q) = (m + n) - (m + 1) + 1
      /\ \A i \in 1 .. (m + n) - (m + 1) + 1 : q[i] = s[(m + 1) + i - 1]
  BY <1>2, SubSeqProperties
<1> HIDE DEF q
<1>4. /\ (m + n) - (m + 1) + 1 = n
      /\ \A i \in 1 .. n : (m + 1) + i - 1 = m + i
  OBVIOUS
<1>5. Len(q) = n /\ \A i \in 1 .. n : q[i] = s[m + i]
  BY <1>3, <1>4
<1>6. p = q
  BY <1>3, <1>5, SeqEqual
<1> QED
  BY <1>6 DEF q

LEMMA TracksHeader ==
  ASSUME Inv, Tracks, ParseHeader
  PROVE  Tracks'
<1> SUFFICES ASSUME Live' PROVE Place' /\ Faithful'
  BY DEF Tracks
<1> DEFINE size == HeaderSize(message_type_)
<1>1. /\ pc = "parse" /\ pc' = "switch" /\ ~torn
      /\ has_message_type_ /\ ~has_message_header_ /\ has_message_header_' = TRUE
      /\ pos' = pos + size /\ pos + size <= Len(data)
      /\ payload_data_size' = PayloadSize(SubSeq(data, pos + 1, pos'))
      /\ UNCHANGED <<stream, rpos, messages, data, has_message_proto_, has_message_type_,
                     message_type_, payload_data, answers>>
  BY DEF Live, ParseHeader, More, HeaderComplete, connVars
<1>2. Place /\ Faithful
  BY <1>1 DEF Tracks, Live
<1>3. /\ Parsed \in Nat /\ Parsed >= 1 /\ has_message_proto_
      /\ message_type_ < N_NUMMSG /\ stream[Parsed] = message_type_
      /\ message_type_ \in Byte
      /\ Len(data) \in Nat /\ pos \in 0 .. Len(data)
      /\ size \in Nat
      /\ payload_data = <<>> /\ Len(payload_data) = 0
  <2>1. Parsed \in Nat /\ Len(data) \in Nat /\ pos \in 0 .. Len(data)
    BY <1>2, Numbers
  <2>2. /\ Parsed >= 1 /\ has_message_proto_
        /\ message_type_ < N_NUMMSG /\ stream[Parsed] = message_type_
    BY <1>1, <1>2 DEF Place
  <2>3. message_type_ \in Byte /\ size \in Nat
    BY DEF Inv, TypeOK, HandlerTypeOK, HeaderSize
  <2>4. payload_data = <<>> /\ Len(payload_data) = 0
    BY <1>1 DEF Inv, Bookkeeping
  <2> QED
    BY <2>1, <2>2, <2>3, <2>4
<1> HIDE DEF size
<1>4. Parsed' = Parsed + size /\ Buffered'
  BY <1>1, <1>2, <1>3, ParsedMore
<1>5. Place'
  <2>1. Parsed' >= 1
    BY <1>3, <1>4
  <2>2. /\ Len(payload_data') < Parsed'
        /\ \A k \in 1 .. Len(payload_data') :
             payload_data'[k] = stream'[Parsed' - Len(payload_data') + k]
    <3>1. payload_data' = <<>> /\ Len(payload_data') = 0
      BY <1>1, <1>3
    <3>2. Parsed' \in Nat
      BY <1>3, <1>4
    <3> QED
      BY <2>1, <3>1, <3>2
  <2> QED
    BY <1>1, <1>3, <1>4, <2>1, <2>2 DEF Place, InPayload
<1>6. ASSUME NEW s, Extends(s)' PROVE Decode(s) = SoFar(Rest(s))'
  <2>1. /\ s \in Seq(Byte) /\ Len(s) \in Nat /\ Len(s) >= Parsed + size
        /\ \A k \in 1 .. Parsed + size : s[k] = stream[k]
        /\ Decode(s) = SoFar(Rest(s))
    BY <1>1, <1>2, <1>3, <1>4, <1>6, Advance
  <2>2. s[Parsed] = message_type_ /\ Parsed \in 1 .. Len(s)
    BY <1>3, <2>1
  <2>3. Rest(s) = From(s)[Parsed]
    BY <1>1, <1>3 DEF Rest
  <2>4. Body(s, Parsed) = Parsed' + 1 /\ ~(Body(s, Parsed) - 1 > Len(s))
        /\ Parsed' \in Nat
    BY <1>3, <1>4, <2>1, <2>2 DEF Body, size
  <2>5. Rest(s)' = From(s)[Parsed]
    <3>1. CASE message_type_ = N_STATUS
      <4>1. From(s)[Parsed] = [From(s)[Parsed' + 1] EXCEPT !.answers = <<"status">> \o @]
        <5> HIDE DEF size
        <5>1. s[Parsed] = N_STATUS
          BY <2>2, <3>1
        <5>2. From(s)[Parsed] = [From(s)[Body(s, Parsed)] EXCEPT !.answers = <<"status">> \o @]
          BY <2>1, <2>2, <2>4, <5>1, FromStatus
        <5> QED
          BY <2>4, <5>2, Zenon
      <4> QED
        BY <1>1, <1>3, <3>1, <4>1 DEF Rest
    <3>2. CASE message_type_ = N_MYSQLDATA
      <4>1. SubSeq(s, Parsed + 1, Body(s, Parsed) - 1) = SubSeq(data, pos + 1, pos')
        <5> DEFINE head == SubSeq(data, pos + 1, pos + size)
        <5>1. /\ head \in Seq(Byte) /\ Len(head) = size
              /\ \A k \in 1 .. size : head[k] = stream[Parsed + k]
          <6>1. size <= Len(data) - pos
            BY <1>1, <1>3
          <6> QED
            BY <1>2, <1>3, <6>1, SameBytes
        <5> HIDE DEF head
        <5>2. \A k \in 1 .. size : head[k] = s[Parsed + k]
          BY <1>3, <2>1, <5>1
        <5>3. head = SubSeq(s, Parsed + 1, Parsed + size)
          BY <1>3, <2>1, <5>1, <5>2, PartOf
        <5>4. Body(s, Parsed) - 1 = Parsed + size
          BY <1>3, <1>4, <2>4
        <5> QED
          BY <1>1, <5>3, <5>4 DEF head
      <4>2. From(s)[Parsed] = QueryMeaning(s, Parsed' + 1, Parsed' + 1 + payload_data_size')
        BY <1>1, <2>1, <2>2, <2>4, <3>2, <4>1, FromQuery
      <4>3. PayloadStart' = Parsed' + 1
        BY <1>1, <1>3, <2>4 DEF PayloadStart
      <4> QED
        BY <1>1, <1>3, <3>2, <4>2, <4>3 DEF Rest, N_STATUS, N_MYSQLDATA
    <3>3. CASE message_type_ \in {N_CONNECT, N_CONTROL}
      <4>1. From(s)[Parsed] = Nothing
        BY <2>1, <2>2, <3>3, FromUnhandled
      <4> QED
        BY <1>1, <1>3, <3>3, <4>1 DEF Rest, N_STATUS, N_MYSQLDATA, N_CONNECT, N_CONTROL
    <3> QED
      BY <1>3, <3>1, <3>2, <3>3
         DEF Byte, N_STATUS, N_MYSQLDATA, N_CONNECT, N_CONTROL, N_NUMMSG
  <2> QED
    BY <1>1, <2>1, <2>3, <2>5 DEF SoFar
<1> QED
  BY <1>5, <1>6 DEF Faithful

(* Steps from the loop to the switch and back that only move on.           *)
LEMMA TracksMoves ==
  ASSUME Inv, Tracks, HeaderKnown \/ SwitchUnhandled
  PROVE  Tracks'
<1> SUFFICES ASSUME Live' PROVE Place' /\ Faithful'
  BY DEF Tracks
<1>1. /\ \/ pc = "parse" /\ pc' = "switch" /\ has_message_header_
         \/ pc = "switch" /\ pc' = "parse" /\ message_type_ \notin {N_STATUS, N_MYSQLDATA}
      /\ ~torn
      /\ UNCHANGED <<connVars, messages, data, pos, flags, payload, answers>>
  BY DEF Live, HeaderKnown, SwitchUnhandled, More, Goto
<1>2. Place /\ Faithful
  BY <1>1 DEF Tracks, Live
<1>3. Parsed' = Parsed /\ UNCHANGED <<stream, rpos>>
  BY <1>1 DEF Parsed, connVars
<1>4. Place'
  BY <1>1, <1>2, <1>3 DEF Place, InPayload, Buffered, flags, payload
<1>5. ASSUME NEW s, Extends(s)' PROVE Decode(s) = SoFar(Rest(s))'
  <2>1. Decode(s) = SoFar(Rest(s))
    <3>1. 0 \in Nat /\ Parsed' = Parsed + 0
      BY <1>2, <1>3, Numbers
    <3> QED
      BY <1>2, <1>3, <1>5, <3>1, Advance
  <2> QED
    BY <1>1, <1>3, <2>1 DEF SoFar, Rest, PayloadStart, flags, payload
<1> QED
  BY <1>4, <1>5 DEF Faithful

(* An answer is what Rest promised next.                                   *)
LEMMA TracksAnswered ==
  ASSUME Inv, Tracks, SwitchStatus \/ Acknowledge
  PROVE  Tracks'
<1> SUFFICES ASSUME Live' PROVE Place' /\ Faithful'
  BY DEF Tracks
<1>1. /\ pc \in {"switch", "ack"} /\ pc' = "parse" /\ ~torn /\ MessageDone
      /\ UNCHANGED <<messages, data, pos>>
  BY DEF Live, SwitchStatus, Acknowledge, Goto
<1> DEFINE answer == IF pc = "ack" THEN "1" ELSE "status"
<1>2. Answer(answer) /\ (pc = "switch" => message_type_ = N_STATUS)
  BY DEF SwitchStatus, Acknowledge, Goto
<1>3. answers' = Append(answers, answer) /\ UNCHANGED <<stream, rpos>>
  BY <1>2 DEF Answer, SendData, RawSend, SendMeetsReset
<1>4. Place /\ Faithful
  BY <1>1 DEF Tracks, Live
<1>5. /\ has_message_header_ /\ has_message_type_ /\ has_message_proto_
      /\ has_message_proto_' /\ ~has_message_type_' /\ ~has_message_header_'
      /\ Parsed >= 1 /\ Parsed \in Nat
  <2>1. Parsed \in Nat
    BY <1>4, Numbers
  <2>2. has_message_header_
    BY <1>1, <1>4 DEF Inv, Bookkeeping, Place
  <2> QED
    BY <1>1, <1>4, <2>1, <2>2 DEF Place, MessageDone
<1>6. Parsed' = Parsed /\ Buffered'
  BY <1>1, <1>3, <1>4 DEF Parsed, Place, Buffered
<1>7. Place'
  BY <1>1, <1>5, <1>6 DEF Place, InPayload
<1>8. ASSUME NEW s, Extends(s)' PROVE Decode(s) = SoFar(Rest(s))'
  <2>1. /\ s \in Seq(Byte) /\ Len(s) \in Nat /\ Len(s) >= Parsed
        /\ Decode(s) = SoFar(Rest(s))
    <3>1. 0 \in Nat /\ Parsed' = Parsed + 0 /\ Parsed + 0 = Parsed
      BY <1>5, <1>6
    <3> QED
      BY <1>3, <1>4, <1>8, <3>1, Advance
  <2> DEFINE next == From(s)[Parsed + 1]
  <2>2. next \in Result
    <3>1. Parsed + 1 \in 1 .. Len(s) + 1
      BY <1>5, <2>1
    <3> QED
      BY <2>1, <3>1, FromType
  <2>3. Rest(s)' = next
    BY <1>1, <1>5, <1>6 DEF Rest
  <2> HIDE DEF next
  <2>4. Rest(s) = [queries |-> next.queries, answers |-> <<answer>> \o next.answers]
    <3>1. CASE pc = "ack"
      BY <3>1 DEF Rest, next
    <3>2. CASE pc = "switch"
      <4>1. Rest(s) = [next EXCEPT !.answers = <<"status">> \o @]
        BY <1>2, <1>5, <3>2 DEF Rest, next
      <4> QED
        BY <2>2, <3>2, <4>1 DEF Result
    <3> QED
      BY <1>1, <3>1, <3>2
  <2>5. answers \o (<<answer>> \o next.answers) = Append(answers, answer) \o next.answers
    <3>1. /\ answers \in Seq(Answers) /\ answer \in Answers /\ next.answers \in Seq(Answers)
      BY <2>2 DEF Result, Answers, Inv, TypeOK, HandlerTypeOK
    <3> HIDE DEF answer
    <3> QED
      BY <3>1, AnswersMove
  <2>6. SoFar(Rest(s)) = [queries |-> messages \o next.queries,
                          answers |-> answers \o (<<answer>> \o next.answers)]
    BY <2>4 DEF SoFar
  <2>7. SoFar(Rest(s))' = [queries |-> messages \o next.queries,
                           answers |-> Append(answers, answer) \o next.answers]
    BY <1>1, <1>3, <2>3 DEF SoFar
  <2> QED
    BY <2>1, <2>5, <2>6, <2>7
<1> QED
  BY <1>7, <1>8 DEF Faithful

(* The bytes of a payload, and the query once they are all there.          *)
LEMMA TracksData ==
  ASSUME Inv, Tracks, SwitchData
  PROVE  Tracks'
<1> SUFFICES ASSUME Live' PROVE Place' /\ Faithful'
  BY DEF Tracks
<1> DEFINE n == Min2(payload_data_size - Len(payload_data), Len(data) - pos)
           new == SubSeq(data, pos + 1, pos + n)
<1>1. /\ pc = "switch" /\ ~torn /\ message_type_ = N_MYSQLDATA
      /\ pos' = pos + n /\ payload_data' = payload_data \o new
      /\ \/ /\ Len(payload_data') = payload_data_size /\ pc' = "ack"
            /\ messages' = Append(messages, payload_data')
         \/ /\ Len(payload_data') # payload_data_size /\ pc' = "parse"
            /\ messages' = messages
      /\ UNCHANGED <<stream, rpos, data, flags, payload_data_size, answers>>
  BY DEF Live, SwitchData, Goto, PushMessage, connVars
<1>2. Place /\ Faithful
  BY <1>1 DEF Tracks, Live
<1>3. /\ Len(data) \in Nat /\ pos \in 0 .. Len(data) /\ Parsed \in Nat
      /\ Len(payload_data) \in Nat /\ payload_data_size \in Nat
      /\ Len(payload_data) <= payload_data_size
      /\ payload_data \in Seq(Byte)
  BY <1>2, Numbers DEF Inv, TypeOK, HandlerTypeOK, Bookkeeping
<1>4. n \in Nat /\ n <= payload_data_size - Len(payload_data) /\ n <= Len(data) - pos
  <2>1. payload_data_size - Len(payload_data) \in Nat /\ Len(data) - pos \in Nat
    BY <1>3
  <2> QED
    BY <2>1, Minimum
<1> HIDE DEF n
<1>5. /\ new \in Seq(Byte) /\ Len(new) = n
      /\ \A k \in 1 .. n : new[k] = stream[Parsed + k]
  BY <1>2, <1>4, SameBytes
<1> HIDE DEF new
<1>6. /\ payload_data' \in Seq(Byte)
      /\ Len(payload_data') = Len(payload_data) + n
      /\ \A k \in 1 .. Len(payload_data) + n :
           payload_data'[k] = IF k <= Len(payload_data) THEN payload_data[k]
                              ELSE new[k - Len(payload_data)]
  BY <1>1, <1>3, <1>5, ConcatProperties
<1>7. Parsed' = Parsed + n /\ Buffered'
  BY <1>1, <1>2, <1>4, ParsedMore
<1>8. /\ has_message_header_ /\ has_message_type_ /\ has_message_proto_ /\ Parsed >= 1
      /\ Len(payload_data) < Parsed
      /\ \A k \in 1 .. Len(payload_data) :
           payload_data[k] = stream[Parsed - Len(payload_data) + k]
  BY <1>1, <1>2 DEF Inv, Bookkeeping, Place, InPayload
<1>9. \A k \in 1 .. Len(payload_data) + n :
        payload_data'[k] = stream[Parsed - Len(payload_data) + k]
  <2> SUFFICES ASSUME NEW k \in 1 .. Len(payload_data) + n
               PROVE  payload_data'[k] = stream[Parsed - Len(payload_data) + k]
    OBVIOUS
  <2>1. CASE k <= Len(payload_data)
    <3>1. k \in 1 .. Len(payload_data)
      BY <1>3, <1>4, <2>1
    <3>2. payload_data'[k] = payload_data[k]
      BY <1>6, <2>1
    <3> QED
      BY <1>8, <3>1, <3>2
  <2>2. CASE ~(k <= Len(payload_data))
    <3>1. /\ k - Len(payload_data) \in 1 .. n
          /\ Parsed + (k - Len(payload_data)) = Parsed - Len(payload_data) + k
      BY <1>3, <1>4, <2>2
    <3> QED
      BY <1>5, <1>6, <2>2, <3>1
  <2> QED
    BY <2>1, <2>2
<1>10. Parsed' - Len(payload_data') = Parsed - Len(payload_data)
  BY <1>3, <1>4, <1>6, <1>7
<1>11. Place'
  <2>1. Parsed' >= 1 /\ Len(payload_data') < Parsed'
    BY <1>3, <1>4, <1>6, <1>7, <1>8
  <2>2. \A k \in 1 .. Len(payload_data') :
          payload_data'[k] = stream'[Parsed' - Len(payload_data') + k]
    BY <1>1, <1>6, <1>9, <1>10
  <2>3. pc' = "parse" => Len(payload_data') < payload_data_size'
    <3>1. /\ Len(payload_data') \in Nat /\ Len(payload_data') <= payload_data_size
          /\ payload_data_size' = payload_data_size
      BY <1>1, <1>3, <1>4, <1>6
    <3>2. pc' = "parse" => Len(payload_data') # payload_data_size
      BY <1>1
    <3> QED
      BY <1>3, <3>1, <3>2
  <2>4. /\ has_message_header_' /\ has_message_type_' /\ has_message_proto_'
        /\ message_type_' = N_MYSQLDATA /\ message_type_' < N_NUMMSG
        /\ message_type_' # N_STATUS
    BY <1>1, <1>8 DEF flags, N_MYSQLDATA, N_NUMMSG, N_STATUS
  <2> QED
    BY <1>1, <1>7, <2>1, <2>2, <2>3, <2>4 DEF Place, InPayload
<1>12. ASSUME NEW s, Extends(s)' PROVE Decode(s) = SoFar(Rest(s))'
  <2>1. /\ s \in Seq(Byte) /\ Len(s) \in Nat /\ Len(s) >= Parsed + n
        /\ \A k \in 1 .. Parsed + n : s[k] = stream[k]
        /\ Decode(s) = SoFar(Rest(s))
    <3>1. \A k \in 1 .. Parsed + n : stream'[k] = stream[k]
      BY <1>1
    <3> QED
      BY <1>2, <1>4, <1>7, <1>12, <3>1, Advance
  <2>2. Rest(s) = QueryMeaning(s, PayloadStart, PayloadStart + payload_data_size)
    BY <1>1, <1>8 DEF Rest, N_MYSQLDATA, N_STATUS
  <2>3. PayloadStart' = PayloadStart
    BY <1>3, <1>4, <1>6, <1>7 DEF PayloadStart
  <2>4. CASE pc' = "parse"
    <3>1. Rest(s)' = Rest(s)
      BY <1>1, <1>8, <2>2, <2>3, <2>4 DEF Rest, flags, N_MYSQLDATA, N_STATUS
    <3> QED
      BY <1>1, <2>1, <2>4, <3>1 DEF SoFar
  <2>5. CASE pc' = "ack"
    <3> DEFINE e == Parsed + n + 1
               next == From(s)[e]
    <3>1. /\ PayloadStart + payload_data_size = e
          /\ e - 1 = Parsed + n /\ e \in 1 .. Len(s) + 1
          /\ ~(e - 1 > Len(s))
      <4>1. Len(payload_data) + n = payload_data_size
        BY <1>1, <1>6, <2>5
      <4>2. PayloadStart + payload_data_size = e
        BY <1>3, <1>4, <4>1 DEF PayloadStart
      <4>3. e - 1 = Parsed + n /\ e \in 1 .. Len(s) + 1 /\ ~(e - 1 > Len(s))
        BY <1>3, <1>4, <2>1
      <4> QED
        BY <4>2, <4>3
    <3>2. Rest(s)' = [queries |-> next.queries, answers |-> <<"1">> \o next.answers]
      BY <1>7, <2>5 DEF Rest
    <3> HIDE DEF e
    <3>3. SubSeq(s, PayloadStart, e - 1) = payload_data'
      <4> DEFINE m == Parsed - Len(payload_data)
      <4>1. /\ m \in Nat /\ m + (Len(payload_data) + n) = Parsed + n
            /\ Len(payload_data) + n \in Nat
            /\ m + 1 = PayloadStart /\ e - 1 = m + (Len(payload_data) + n)
        BY <1>3, <1>4, <1>7, <1>8, <3>1 DEF PayloadStart
      <4>2. \A k \in 1 .. Len(payload_data) + n : payload_data'[k] = s[m + k]
        <5> SUFFICES ASSUME NEW k \in 1 .. Len(payload_data) + n
                     PROVE  payload_data'[k] = s[m + k]
          OBVIOUS
        <5>1. m + k \in 1 .. Parsed + n
          BY <1>3, <1>4, <1>8
        <5> QED
          BY <1>9, <2>1, <5>1
      <4> HIDE DEF m
      <4>3. payload_data' = SubSeq(s, m + 1, m + (Len(payload_data) + n))
        BY <1>6, <2>1, <4>1, <4>2, PartOf
      <4> QED
        BY <4>1, <4>3
    <3>4. Rest(s) = [queries |-> <<payload_data'>> \o next.queries,
                     answers |-> <<"1">> \o next.answers]
      <4>1. Rest(s) = QueryMeaning(s, PayloadStart, e)
        BY <2>2, <3>1
      <4>2. QueryMeaning(s, PayloadStart, e)
              = [queries |-> <<SubSeq(s, PayloadStart, e - 1)>> \o next.queries,
                 answers |-> <<"1">> \o next.answers]
        BY <3>1 DEF QueryMeaning
      <4> QED
        BY <3>3, <4>1, <4>2
    <3>5. next \in Result
      BY <2>1, <3>1, FromType
    <3> HIDE DEF next
    <3>6. messages \o (<<payload_data'>> \o next.queries)
            = Append(messages, payload_data') \o next.queries
      <4>1. messages \in Seq(Query) /\ payload_data' \in Query /\ next.queries \in Seq(Query)
        BY <1>6, <3>5 DEF Result, Query, Inv, TypeOK, HandlerTypeOK
      <4> QED
        BY <4>1, QueriesMove
    <3>7. messages' = Append(messages, payload_data') /\ answers' = answers
      BY <1>1, <2>5
    <3>8. SoFar(Rest(s)) = [queries |-> messages \o (<<payload_data'>> \o next.queries),
                            answers |-> answers \o (<<"1">> \o next.answers)]
      BY <3>4 DEF SoFar
    <3>9. SoFar(Rest(s))' = [queries |-> Append(messages, payload_data') \o next.queries,
                             answers |-> answers \o (<<"1">> \o next.answers)]
      BY <3>2, <3>7 DEF SoFar
    <3> QED
      BY <2>1, <3>6, <3>8, <3>9
  <2> QED
    BY <1>1, <2>4, <2>5
<1> QED
  BY <1>11, <1>12 DEF Faithful

(* What the peer and the network do leaves the bytes received alone.       *)
LEMMA TracksOthers ==
  ASSUME Inv, Tracks, UNCHANGED <<handlerVars, rpos>>,
         \A k \in 1 .. rpos : stream'[k] = stream[k]
  PROVE  Tracks'
<1> SUFFICES ASSUME Live' PROVE Place' /\ Faithful'
  BY DEF Tracks
<1>1. UNCHANGED <<messages, pc, data, pos, flags, payload, answers, torn, rpos>>
  BY DEF handlerVars
<1>2. Place /\ Faithful
  BY <1>1 DEF Tracks, Live
<1>3. /\ Parsed' = Parsed /\ Parsed \in Nat /\ rpos \in Nat /\ Parsed <= rpos
      /\ Len(data) \in Nat /\ Len(data) <= rpos
  <2>1. /\ Parsed \in Nat /\ Parsed + (Len(data) - pos) = rpos /\ rpos \in Nat
        /\ Len(data) \in Nat /\ pos \in 0 .. Len(data)
    BY <1>2, Numbers
  <2>2. Parsed' = Parsed
    BY <1>1 DEF Parsed
  <2> QED
    BY <1>2, <2>1, <2>2 DEF Place, Buffered
<1>4. \A k \in 1 .. Parsed : stream'[k] = stream[k]
  BY <1>3
<1>5. Buffered'
  <2>1. \A k \in 1 .. Len(data) : rpos - Len(data) + k \in 1 .. rpos
    BY <1>3
  <2> QED
    BY <1>1, <1>2, <2>1 DEF Place, Buffered
<1>6. has_message_type_ /\ ~has_message_header_ => stream'[Parsed] = message_type_
  BY <1>2, <1>3, <1>4 DEF Place
<1>7. InPayload => /\ Len(payload_data) < Parsed
                   /\ \A k \in 1 .. Len(payload_data) :
                        payload_data[k] = stream'[Parsed - Len(payload_data) + k]
  <2> SUFFICES ASSUME InPayload
               PROVE  /\ Len(payload_data) < Parsed
                      /\ \A k \in 1 .. Len(payload_data) :
                           payload_data[k] = stream'[Parsed - Len(payload_data) + k]
    OBVIOUS
  <2>1. /\ Len(payload_data) < Parsed /\ Len(payload_data) \in Nat
        /\ \A k \in 1 .. Len(payload_data) :
             payload_data[k] = stream[Parsed - Len(payload_data) + k]
    BY <1>2, Numbers DEF Place
  <2>2. \A k \in 1 .. Len(payload_data) : Parsed - Len(payload_data) + k \in 1 .. Parsed
    BY <1>3, <2>1
  <2> QED
    BY <1>4, <2>1, <2>2
<1>8. Place'
  BY <1>1, <1>2, <1>3, <1>5, <1>6, <1>7 DEF Place, InPayload, flags, payload
<1>9. ASSUME NEW s, Extends(s)' PROVE Decode(s) = SoFar(Rest(s))'
  <2>1. Decode(s) = SoFar(Rest(s))
    <3>1. 0 \in Nat /\ Parsed' = Parsed + 0 /\ Parsed + 0 = Parsed
      BY <1>3
    <3> QED
      BY <1>2, <1>4, <1>9, <3>1, Advance
  <2> QED
    BY <1>1, <1>3, <2>1 DEF SoFar, Rest, PayloadStart, flags, payload
<1> QED
  BY <1>8, <1>9 DEF Faithful

(* The PHP client sends bytes.                                             *)
LEMMA SentBytes ==
  ASSUME Inv, PhpConnect \/ PhpSubmit \/ PhpStatus
  PROVE  \E b \in Seq(Byte) : PeerSends(b)
<1>1. ASSUME NEW m \in Seq(Byte), NEW next, PhpCall(m, next)
      PROVE  \E b \in Seq(Byte) : PeerSends(b)
  <2>1. Len(m) \in Nat
    BY LenProperties
  <2>2. \A k \in 0 .. Len(m) - 1 : SubSeq(m, 1, k) \in Seq(Byte)
    BY <2>1, Part
  <2> QED
    BY <1>1, <2>2 DEF PhpCall
<1>2. CASE PhpConnect
  <2>1. <<1>> \in Seq(Byte) /\ <<>> \in Seq(Byte)
    BY DEF Byte
  <2> QED
    BY <1>2, <2>1 DEF PhpConnect
<1>3. CASE PhpSubmit
  <2>1. calls + 1 \in Byte
    BY <1>3, ClientAssumption DEF PhpSubmit, PhpCall, Byte, Inv, TypeOK
  <2>2. <<N_MYSQLDATA, 1, 0, 0, 0, calls + 1>> \in Seq(Byte)
    BY <2>1 DEF Byte, N_MYSQLDATA
  <2> QED
    BY <1>1, <1>3, <2>2 DEF PhpSubmit
<1>4. CASE PhpStatus
  <2>1. <<N_STATUS, 0, 0, 0, 0>> \in Seq(Byte)
    BY DEF Byte, N_STATUS
  <2> QED
    BY <1>1, <1>4, <2>1 DEF PhpStatus
<1> QED
  BY <1>2, <1>3, <1>4

(* The bytes received, whatever the peer adds or takes back.               *)
LEMMA ReceivedKept ==
  ASSUME Inv, ClientStep \/ Network
  PROVE  /\ UNCHANGED <<handlerVars, rpos>>
         /\ \A k \in 1 .. rpos : stream'[k] = stream[k]
<1>1. stream \in Seq(Byte) /\ rpos \in 0 .. Len(stream) /\ Len(stream) \in Nat
  BY LenProperties DEF Inv, BytesOnly, TypeOK, ConnTypeOK
<1>2. ASSUME NEW b \in Seq(Byte), PeerSends(b)
      PROVE  rpos' = rpos /\ \A k \in 1 .. rpos : stream'[k] = stream[k]
  <2>1. stream' = stream \o b /\ rpos' = rpos
    BY <1>2 DEF PeerSends
  <2>2. \A k \in 1 .. Len(stream) : (stream \o b)[k] = stream[k]
    <3>1. Len(b) \in Nat
      BY LenProperties
    <3> QED
      BY <1>1, <3>1, ConcatProperties
  <2> QED
    BY <1>1, <2>1, <2>2
<1>3. ASSUME NEW n \in rpos .. Len(stream), PeerCloses(n)
      PROVE  rpos' = rpos /\ \A k \in 1 .. rpos : stream'[k] = stream[k]
  <2>1. stream' = SubSeq(stream, 1, n) /\ rpos' = rpos
    BY <1>3 DEF PeerCloses
  <2>2. \A i \in 1 .. n - 1 + 1 : SubSeq(stream, 1, n)[i] = stream[1 + i - 1]
    <3>1. 1 \in 1 .. Len(stream) + 1 /\ n \in 1 - 1 .. Len(stream)
      BY <1>1
    <3> QED
      BY <1>1, <3>1, SubSeqProperties
  <2>3. \A k \in 1 .. rpos : k \in 1 .. n - 1 + 1 /\ 1 + k - 1 = k
    BY <1>1
  <2> QED
    BY <2>1, <2>2, <2>3
<1>4. CASE PhpConnect \/ PhpSubmit \/ PhpStatus
  <2>1. \E b \in Seq(Byte) : PeerSends(b)
    BY <1>4, SentBytes
  <2>2. UNCHANGED handlerVars
    BY <1>4 DEF PhpConnect, PhpSubmit, PhpStatus, PhpCall
  <2> QED
    BY <1>2, <2>1, <2>2
<1>5. CASE PhpCloses \/ ForeignCloses
  <2>1. Len(stream) \in rpos .. Len(stream)
    BY <1>1
  <2>2. \E n \in rpos .. Len(stream) : PeerCloses(n)
    BY <1>5, <2>1 DEF PhpCloses, ForeignCloses
  <2>3. UNCHANGED handlerVars
    BY <1>5 DEF PhpCloses, ForeignCloses
  <2> QED
    BY <1>3, <2>2, <2>3
<1>6. CASE PhpReadAck \/ PhpReadLength \/ PhpReadText \/ PhpReadFails \/ ForeignReads \/ Network
  BY <1>6 DEF PhpReadAck, PhpReadLength, PhpReadText, PhpReadFails, ForeignReads, Network,
       PeerReads, ResetArrives, connVars
<1> QED
  BY <1>4, <1>5, <1>6 DEF ClientStep

LEMMA TracksNext == Inv /\ Tracks /\ [Next]_vars => Tracks'
<1> SUFFICES ASSUME Inv, Tracks, [Next]_vars PROVE Tracks'
  OBVIOUS
<1>1. CASE RecvReturns
  BY <1>1, TracksRecv
<1>2. CASE HandlerStep
  <2>1. CASE Finish
    BY <2>1 DEF Finish, Goto, Tracks, Live
  <2> QED
    BY <1>2, <2>1, TracksLeftover, TracksProto, TracksType, TracksHeader, TracksMoves,
       TracksAnswered, TracksData DEF HandlerStep
<1>3. CASE ClientStep \/ Network
  BY <1>3, ReceivedKept, TracksOthers
<1>4. CASE UNCHANGED vars
  BY <1>4, TracksOthers DEF vars, connVars
<1> QED
  BY <1>1, <1>2, <1>3, <1>4 DEF Next

LEMMA TracksInit == Init => Tracks
<1> SUFFICES ASSUME Init PROVE Place /\ Faithful
  BY DEF Tracks
<1>1. /\ messages = <<>> /\ answers = <<>> /\ data = <<>> /\ pos = 0 /\ rpos = 0
      /\ pc = "recv" /\ ~has_message_proto_ /\ ~has_message_type_ /\ ~has_message_header_
  BY DEF Init, HandlerInit, Opened
<1>2. Len(data) = 0 /\ Parsed = 0
  <2>1. Len(data) = 0
    BY <1>1
  <2>2. rpos = 0 /\ pos = 0
    BY <1>1
  <2>3. 0 - 0 + 0 = 0
    OBVIOUS
  <2> QED
    BY <2>1, <2>2, <2>3 DEF Parsed
<1>3. Place
  BY <1>1, <1>2 DEF Place, Buffered, InPayload
<1>4. ASSUME NEW s, Extends(s) PROVE Decode(s) = SoFar(Rest(s))
  <2>1. Decode(s) \in Result
    BY <1>4, DecodeType DEF Extends
  <2>2. /\ <<>> \o Decode(s).queries = Decode(s).queries
        /\ <<>> \o Decode(s).answers = Decode(s).answers
    BY <2>1, ConcatEmptySeq DEF Result
  <2>3. Decode(s) = [queries |-> Decode(s).queries, answers |-> Decode(s).answers]
    BY <2>1 DEF Result
  <2>4. Rest(s) = Decode(s)
    BY <1>1 DEF Rest
  <2> QED
    BY <1>1, <2>2, <2>3, <2>4 DEF SoFar
<1> QED
  BY <1>3, <1>4 DEF Faithful

(* Between two chunks nothing is missing of what the bytes received mean.  *)
LEMMA TracksMeans == Inv /\ Tracks => ChunkingIrrelevant
<1> SUFFICES ASSUME Inv, Tracks, pc = "recv", ~torn
             PROVE  messages = Decode(Received).queries /\ answers = Decode(Received).answers
  BY DEF ChunkingIrrelevant
<1>1. Place /\ Faithful
  BY DEF Tracks, Live
<1>2. pos = 0 /\ Parsed \in Nat /\ rpos \in Nat /\ Len(data) \in Nat
      /\ Parsed + Len(data) = rpos /\ rpos <= Len(stream) /\ Len(stream) \in Nat
  <2>1. pos = 0
    BY DEF Inv, Bookkeeping
  <2> QED
    BY <1>1, <2>1, Numbers
<1> DEFINE s == Received
<1>3. /\ s \in Seq(Byte) /\ Len(s) = rpos
      /\ \A k \in 1 .. rpos : s[k] = stream[k]
  <2>1. stream \in Seq(Byte)
    BY DEF Inv, BytesOnly
  <2>2. 1 \in 1 .. Len(stream) + 1 /\ rpos \in 1 - 1 .. Len(stream)
    BY <1>2
  <2>3. /\ s \in Seq(Byte) /\ Len(s) = IF 1 <= rpos THEN rpos - 1 + 1 ELSE 0
        /\ \A i \in 1 .. rpos - 1 + 1 : s[i] = stream[1 + i - 1]
    BY <2>1, <2>2, SubSeqProperties DEF Received
  <2>4. rpos - 1 + 1 = rpos /\ \A k \in 1 .. rpos : 1 + k - 1 = k
    BY <1>2
  <2> QED
    BY <1>2, <2>3, <2>4
<1> HIDE DEF s
<1>4. Extends(s)
  BY <1>2, <1>3 DEF Extends
<1>5. Decode(s) = SoFar(Rest(s))
  BY <1>1, <1>4 DEF Faithful
<1>6. Rest(s) = Nothing
  <2>1. CASE ~has_message_proto_
    <3>1. Parsed = 0 /\ data = <<>> /\ Len(data) = 0
      BY <1>1, <2>1 DEF Place
    <3>2. s = <<>>
      BY <1>2, <1>3, <3>1, EmptySeq
    <3> QED
      BY <2>1, <3>2 DEF Rest, Decode
  <2>2. CASE has_message_proto_ /\ ~has_message_type_
    <3>1. data = <<>> /\ Len(data) = 0
      BY <1>1, <2>2 DEF Place
    <3>2. Parsed + 1 = Len(s) + 1
      BY <1>2, <1>3, <3>1
    <3> QED
      BY <1>3, <2>2, <3>2, FromEnd DEF Rest
  <2>3. CASE has_message_proto_ /\ has_message_type_ /\ ~has_message_header_
    <3>1. /\ Parsed >= 1 /\ stream[Parsed] = message_type_ /\ message_type_ < N_NUMMSG
          /\ Len(data) < HeaderSize(message_type_)
      <4>1. HeaderSize(message_type_) > 0
        BY DEF HeaderSize
      <4> QED
        BY <1>1, <2>3, <4>1 DEF Place
    <3>2. Parsed \in 1 .. Len(s) /\ s[Parsed] = message_type_
      BY <1>2, <1>3, <3>1
    <3>3. Body(s, Parsed) - 1 > Len(s) /\ ~(s[Parsed] >= N_NUMMSG)
      <4>1. message_type_ \in Byte /\ HeaderSize(message_type_) \in Nat
        BY DEF Inv, TypeOK, HandlerTypeOK, HeaderSize
      <4>2. Body(s, Parsed) - 1 = Parsed + HeaderSize(message_type_)
        BY <1>2, <3>2, <4>1 DEF Body
      <4> QED
        BY <1>2, <1>3, <3>1, <3>2, <4>1, <4>2 DEF Byte, N_NUMMSG
    <3>4. From(s)[Parsed] = Nothing
      BY <1>3, <3>2, <3>3, FromHeaderCut
    <3> QED
      BY <2>3, <3>4 DEF Rest
  <2>4. CASE has_message_header_ /\ message_type_ = N_MYSQLDATA
    <3>1. /\ has_message_type_ /\ has_message_proto_ /\ data = <<>> /\ Len(data) = 0
          /\ Len(payload_data) < payload_data_size
      BY <1>1, <2>4 DEF Place, InPayload
    <3> DEFINE e == PayloadStart + payload_data_size
    <3>2. Rest(s) = QueryMeaning(s, PayloadStart, e)
      BY <2>4, <3>1 DEF Rest, N_MYSQLDATA, N_STATUS
    <3>3. e - 1 > Len(s)
      <4>1. Len(payload_data) \in Nat /\ payload_data_size \in Nat
        BY <1>1, Numbers
      <4> QED
        BY <1>2, <1>3, <3>1, <4>1 DEF PayloadStart
    <3> HIDE DEF e
    <3> QED
      BY <3>2, <3>3 DEF QueryMeaning
  <2>5. CASE has_message_header_ /\ message_type_ # N_MYSQLDATA
    <3>1. has_message_type_ /\ has_message_proto_ /\ message_type_ # N_STATUS
      BY <1>1, <2>5 DEF Place
    <3> QED
      BY <2>5, <3>1 DEF Rest
  <2>6. has_message_header_ => has_message_type_ /\ has_message_proto_
    BY <1>1 DEF Place
  <2> QED
    BY <2>1, <2>2, <2>3, <2>4, <2>5
<1>7. Decode(s) = [queries |-> messages, answers |-> answers]
  <2>1. messages \o <<>> = messages /\ answers \o <<>> = answers
    <3>1. messages \in Seq(Seq(Byte)) /\ answers \in Seq({"0", "1", "status"})
      BY DEF Inv, TypeOK, HandlerTypeOK
    <3> QED
      BY <3>1, ConcatEmptySeq
  <2> QED
    BY <1>5, <1>6, <2>1 DEF SoFar, Nothing
<1> QED
  BY <1>7 DEF s

(* However recv() cuts a stream into chunks, and whatever stream it is:    *)
(* what was queued and answered is what the reference decoder makes of the *)
(* bytes received, as long as no timeout has taken one out of a header.    *)
THEOREM ChunkingDoesNotMatter == Spec => []ChunkingIrrelevant
<1>1. Spec => [](Inv /\ Tracks)
  BY InitInv, NextInv, TracksInit, TracksNext, PTL DEF Spec
<1> QED
  BY <1>1, TracksMeans, PTL

-----------------------------------------------------------------------------
(* Since Tracks holds for every way a stream may go on, it says more than  *)
(* ChunkingIrrelevant: of the middle of a message, and of the end.         *)
BeginsWith(s, t) == Len(t) <= Len(s) /\ \A i \in 1 .. Len(t) : s[i] = t[i]

(* Whatever the handler is at, the queries it has queued are the first of  *)
(* those that the client has sent, in their order and with their bytes.    *)
QueuedWasSent == ~torn => BeginsWith(Decode(stream).queries, messages)

Agrees(s) == s \in Seq(Byte) /\ Len(s) >= rpos /\ \A k \in 1 .. rpos : s[k] = stream[k]

Justified == ~torn => \A s : Agrees(s) => BeginsWith(Decode(s).queries, messages)

AfterLoop == pc \in {"finish", "done"} => Justified

LEMMA QueryMeaningType ==
  ASSUME NEW s \in Seq(Byte), NEW b \in Nat, NEW next \in Nat, b > 0, next >= b
  PROVE  QueryMeaning(s, b, next) \in Result
<1>1. Len(s) \in Nat
  BY LenProperties
<1>2. CASE next - 1 > Len(s)
  BY <1>2, NothingType DEF QueryMeaning
<1>3. CASE ~(next - 1 > Len(s))
  <2>1. /\ next \in 1 .. Len(s) + 1 /\ next - 1 \in Nat /\ next - 1 <= Len(s)
    BY <1>1, <1>3
  <2>2. From(s)[next] \in Result
    BY <2>1, FromType
  <2>3. SubSeq(s, b, next - 1) \in Query
    BY <2>1, Part DEF Query
  <2>4. <<SubSeq(s, b, next - 1)>> \o From(s)[next].queries \in Seq(Query)
    BY <2>2, <2>3, QueryPut DEF Result
  <2>5. <<"1">> \o From(s)[next].answers \in Seq(Answers)
    BY <2>2, AnswerPut DEF Result, Answers
  <2> QED
    BY <1>3, <2>4, <2>5 DEF QueryMeaning, Result
<1> QED
  BY <1>2, <1>3

LEMMA RestType ==
  ASSUME Inv, Place, NEW s, Extends(s)
  PROVE  Rest(s) \in Result
<1>1. /\ s \in Seq(Byte) /\ Len(s) \in Nat /\ Parsed \in Nat /\ Parsed <= Len(s)
  BY Numbers, LenProperties DEF Extends
<1>2. From(s)[Parsed + 1] \in Result
  <2>1. Parsed + 1 \in 1 .. Len(s) + 1
    BY <1>1
  <2> QED
    BY <1>1, <2>1, FromType
<1>3. \A a \in Answers : /\ [queries |-> From(s)[Parsed + 1].queries,
                             answers |-> <<a>> \o From(s)[Parsed + 1].answers] \in Result
                         /\ [From(s)[Parsed + 1] EXCEPT !.answers = <<a>> \o @] \in Result
  <2> TAKE a \in Answers
  <2>1. <<a>> \o From(s)[Parsed + 1].answers \in Seq(Answers)
    BY <1>2, AnswerPut DEF Result
  <2> QED
    BY <1>2, <2>1 DEF Result
<1>4. has_message_proto_ => From(s)[Parsed] \in Result
  <2>1. has_message_proto_ => Parsed \in 1 .. Len(s) + 1
    BY <1>1 DEF Place
  <2> QED
    BY <1>1, <2>1, FromType
<1>5. InPayload => QueryMeaning(s, PayloadStart, PayloadStart + payload_data_size) \in Result
  <2> SUFFICES ASSUME InPayload
               PROVE  QueryMeaning(s, PayloadStart, PayloadStart + payload_data_size) \in Result
    OBVIOUS
  <2>1. Len(payload_data) < Parsed /\ Len(payload_data) \in Nat /\ payload_data_size \in Nat
    BY Numbers DEF Place
  <2>2. PayloadStart \in Nat /\ PayloadStart > 0
    BY <1>1, <2>1 DEF PayloadStart
  <2>3. /\ PayloadStart + payload_data_size \in Nat
        /\ PayloadStart + payload_data_size >= PayloadStart
    BY <2>1, <2>2
  <2> QED
    BY <1>1, <2>2, <2>3, QueryMeaningType
<1>6. Decode(s) \in Result /\ "1" \in Answers /\ "status" \in Answers
  BY <1>1, DecodeType DEF Answers
<1>7. CASE pc = "ack"
  BY <1>3, <1>6, <1>7 DEF Rest
<1>8. CASE pc # "ack" /\ ~has_message_proto_
  BY <1>6, <1>8 DEF Rest
<1>9. CASE pc # "ack" /\ has_message_proto_ /\ ~has_message_header_
  BY <1>2, <1>4, <1>9 DEF Rest
<1>10. CASE pc # "ack" /\ has_message_proto_ /\ has_message_header_
  <2>1. has_message_type_
    BY <1>10 DEF Place
  <2>2. CASE message_type_ = N_STATUS
    BY <1>3, <1>6, <1>10, <2>1, <2>2 DEF Rest
  <2>3. CASE message_type_ # N_STATUS
    BY <1>5, <1>10, <2>1, <2>3, NothingType DEF Rest, InPayload
  <2> QED
    BY <2>2, <2>3
<1> QED
  BY <1>7, <1>8, <1>9, <1>10

LEMMA AlwaysJustified == Inv /\ Tracks /\ AfterLoop => Justified
<1> SUFFICES ASSUME Inv, Tracks, AfterLoop, ~torn, NEW s, Agrees(s)
             PROVE  BeginsWith(Decode(s).queries, messages)
  BY DEF Justified
<1>1. CASE pc \in {"finish", "done"}
  BY <1>1 DEF AfterLoop, Justified
<1>2. CASE pc \in {"recv", "parse", "switch", "ack"}
  <2>1. Place /\ Faithful
    BY <1>2 DEF Tracks, Live
  <2>2. Extends(s)
    <3>1. Parsed \in Nat /\ Parsed <= rpos /\ rpos \in Nat
      <4>1. /\ Parsed \in Nat /\ Parsed + (Len(data) - pos) = rpos
            /\ pos \in 0 .. Len(data) /\ Len(data) \in Nat
        BY <2>1, Numbers
      <4> QED
        BY <4>1
    <3>2. s \in Seq(Byte) /\ Len(s) \in Nat /\ Len(s) >= rpos
          /\ \A k \in 1 .. rpos : s[k] = stream[k]
      BY LenProperties DEF Agrees
    <3> QED
      BY <3>1, <3>2 DEF Extends
  <2>3. Decode(s) = SoFar(Rest(s)) /\ Rest(s) \in Result
    BY <2>1, <2>2, RestType DEF Faithful
  <2>4. messages \in Seq(Query) /\ Rest(s).queries \in Seq(Query)
    BY <2>3 DEF Inv, TypeOK, HandlerTypeOK, Result, Query
  <2>5. Decode(s).queries = messages \o Rest(s).queries
    BY <2>3 DEF SoFar
  <2> HIDE DEF Query
  <2>6. BeginsWith(messages \o Rest(s).queries, messages)
    <3> DEFINE r == Rest(s).queries
    <3> HIDE DEF r
    <3>1. messages \in Seq(Query) /\ r \in Seq(Query)
      BY <2>4 DEF r
    <3>2. /\ Len(messages) \in Nat /\ Len(r) \in Nat
          /\ Len(messages \o r) = Len(messages) + Len(r)
          /\ \A i \in 1 .. Len(messages) + Len(r) :
               (messages \o r)[i] = IF i <= Len(messages) THEN messages[i]
                                    ELSE r[i - Len(messages)]
      BY <3>1, ConcatProperties, LenProperties
    <3>3. BeginsWith(messages \o r, messages)
      BY <3>2 DEF BeginsWith
    <3> QED
      BY <3>3 DEF r
  <2> QED
    BY <2>5, <2>6
<1> QED
  BY <1>1, <1>2 DEF Inv, TypeOK, HandlerTypeOK

LEMMA AfterLoopNext == Inv /\ Tracks /\ AfterLoop /\ [Next]_vars => AfterLoop'
<1> SUFFICES ASSUME Inv, Tracks, AfterLoop, [Next]_vars, pc' \in {"finish", "done"}, ~torn'
             PROVE  \A s : Agrees(s)' => BeginsWith(Decode(s).queries, messages')
  BY DEF AfterLoop, Justified
<1>1. /\ UNCHANGED <<messages, torn, rpos>>
      /\ \A k \in 1 .. rpos : stream'[k] = stream[k]
  <2>1. CASE RecvReturns
    BY <2>1 DEF RecvReturns, Recv, RecvFails, RecvEnds, Goto, RecvError, RecvZero, connVars
  <2>2. CASE HandlerStep
    <3>1. ASSUME NEW a \in Answers, Answer(a) PROVE UNCHANGED <<stream, rpos>>
      BY <3>1 DEF Answers, Answer, SendData, RawSend, SendMeetsReset
    <3>2. CASE ParseProto \/ Finish
      BY <3>1, <3>2 DEF Answers, ParseProto, Finish, connVars
    <3>3. ~(ParseProto \/ Finish) => pc' \notin {"finish", "done"}
      BY <2>2 DEF HandlerStep, ChunkDone, HeaderMissing, KeepLeftover, ParseType, ParseHeader,
           HeaderKnown, SwitchUnhandled, SwitchStatus, SwitchData, Acknowledge, Goto, More
    <3> QED
      BY <3>2, <3>3
  <2>3. CASE ClientStep \/ Network
    BY <2>3, ReceivedKept DEF handlerVars
  <2>4. CASE UNCHANGED vars
    BY <2>4 DEF vars, handlerVars, connVars
  <2> QED
    BY <2>1, <2>2, <2>3, <2>4 DEF Next
<1>2. Justified /\ ~torn
  BY <1>1, AlwaysJustified
<1>3. ASSUME NEW s, Agrees(s)' PROVE Agrees(s)
  BY <1>1, <1>3 DEF Agrees
<1> QED
  BY <1>1, <1>2, <1>3 DEF Justified

(* No query is invented, changed, repeated or moved before another: at     *)
(* every moment, also in the middle of a message and after the client or   *)
(* the handler has gone.                                                   *)
THEOREM NothingIsInvented == Spec => []QueuedWasSent
<1>1. Init => AfterLoop
  BY DEF Init, HandlerInit, AfterLoop
<1>2. Spec => [](Inv /\ Tracks /\ AfterLoop)
  BY <1>1, InitInv, NextInv, TracksInit, TracksNext, AfterLoopNext, PTL DEF Spec
<1>3. Inv /\ Tracks /\ AfterLoop => QueuedWasSent
  <2> SUFFICES ASSUME Inv, Tracks, AfterLoop PROVE QueuedWasSent
    OBVIOUS
  <2>1. Agrees(stream)
    BY LenProperties DEF Agrees, Inv, BytesOnly, TypeOK, ConnTypeOK
  <2> QED
    BY <2>1, AlwaysJustified DEF Justified, QueuedWasSent
<1> QED
  BY <1>2, <1>3, PTL
===============================================================================
