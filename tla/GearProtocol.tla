---------------------------- MODULE GearProtocol ----------------------------
(***************************************************************************)
(* The client protocol: one byte with the protocol version, then messages  *)
(* of a type byte, a header whose length the type fixes, and for a query   *)
(* the payload the header announces.  Decode is the reference: what a      *)
(* whole byte stream means, told without buffers, chunks or flags.         *)
(***************************************************************************)
EXTENDS Integers, Sequences, FiniteSets

CONSTANT PROTO_VERSION

ASSUME ProtoAssumption == PROTO_VERSION \in Nat \ {0}

N_CONNECT == 0
N_STATUS == 1
N_CONTROL == 2
N_MYSQLDATA == 3
N_NUMMSG == 4

HeaderSize(type) == IF type = N_CONNECT THEN 10 ELSE 4
MaxHeaderSize == 10

Min2(a, b) == IF a < b THEN a ELSE b

(* A signed char above 127 would be a negative index in the code.          *)
Byte == 0 .. 127

ProtoOK(byte) == 1 <= byte /\ byte <= PROTO_VERSION

(* The first four bytes of a header, little end first.                     *)
PayloadSize(header) ==
  header[1] + 256 * header[2] + 65536 * header[3] + 16777216 * header[4]

(* What the messages of s from its i-th byte on queue and what they are    *)
(* answered, if `later` says it of the bytes behind i.  Whatever follows a *)
(* message whose type has no handler is never looked at again.             *)
Nothing == [queries |-> <<>>, answers |-> <<>>]

Meaning(s, i, later) ==
  IF i > Len(s) THEN Nothing
  ELSE IF s[i] >= N_NUMMSG THEN later[i + 1]
  ELSE LET body == i + 1 + HeaderSize(s[i])
       IN  IF body - 1 > Len(s) \/ s[i] \in {N_CONNECT, N_CONTROL}
             THEN Nothing
           ELSE IF s[i] = N_STATUS
             THEN [later[body] EXCEPT !.answers = <<"status">> \o @]
           ELSE LET next == body + PayloadSize(SubSeq(s, i + 1, body - 1))
                IN  IF next - 1 > Len(s)
                      THEN Nothing
                      ELSE [queries |-> <<SubSeq(s, body, next - 1)>>
                                          \o later[next].queries,
                            answers |-> <<"1">> \o later[next].answers]

From(s) == LET from[i \in 1 .. Len(s) + 1] == Meaning(s, i, from) IN from

(* The first byte is the version, and without one nothing else counts.     *)
Decode(s) ==
  IF s = <<>> THEN Nothing
  ELSE IF ~ProtoOK(s[1]) THEN [queries |-> <<>>, answers |-> <<"0">>]
  ELSE [From(s)[2] EXCEPT !.answers = <<"1">> \o @]
=============================================================================
