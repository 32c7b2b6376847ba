---------------------------- MODULE TcpConnection ----------------------------
(***************************************************************************)
(* One TCP connection as the server's side sees it through recv(), send()  *)
(* and getsockopt(SO_ERROR), with what the kernels do in between.  A peer  *)
(* that closes with unread bytes resets the connection instead of ending   *)
(* it; data sent to a closed peer comes back as a reset; a reset leaves an *)
(* error that the next call which reports it clears; and after that a      *)
(* send() raises SIGPIPE, which the daemon does not ignore.                *)
(***************************************************************************)
EXTENDS Integers, Sequences

VARIABLES
  stream,    \* what the peer has sent
  rpos,      \* how many bytes of it recv() has returned
  inbox,     \* what the peer has been sent and has not read
  peer,      \* "open", or how it closed: "closed", "aborted"
  rst,       \* a reset: "none", "coming", "here"
  so_error,  \* the error of a reset that nobody has been told yet
  sigpipe    \* the process has ended by SIGPIPE

connVars == <<stream, rpos, inbox, peer, rst, so_error, sigpipe>>

ConnTypeOK ==
  /\ stream \in Seq(Nat)
  /\ rpos \in 0 .. Len(stream)
  /\ inbox \in Seq(Nat)
  /\ peer \in {"open", "closed", "aborted"}
  /\ rst \in {"none", "coming", "here"}
  /\ so_error \in BOOLEAN
  /\ sigpipe \in BOOLEAN

Opened(sent) ==
  /\ stream = sent
  /\ rpos = 0
  /\ inbox = <<>>
  /\ peer = "open"
  /\ rst = "none"
  /\ so_error = FALSE
  /\ sigpipe = FALSE

Received == SubSeq(stream, 1, rpos)
Unreceived == Len(stream) - rpos

-----------------------------------------------------------------------------
(* recv() *)

RecvBytes(n) ==
  /\ rpos' = rpos + n
  /\ UNCHANGED <<stream, inbox, peer, rst, so_error, sigpipe>>

(* -1: the timeout, or the error of a reset.                               *)
RecvError ==
  /\ \/ /\ ~so_error /\ rst # "here"
        /\ peer = "closed" => Unreceived > 0
     \/ so_error /\ peer = "aborted" /\ Unreceived = 0
  /\ so_error' = FALSE
  /\ UNCHANGED <<stream, rpos, inbox, peer, rst, sigpipe>>

(* 0: the peer's end, or a reset that has been reported.                   *)
RecvZero ==
  /\ Unreceived = 0
  /\ peer = "closed" \/ (rst = "here" /\ ~so_error)
  /\ UNCHANGED connVars

-----------------------------------------------------------------------------
(* send() of bytes, once no error is pending. *)
RawSend(bytes) ==
  /\ IF rst = "here"
       THEN sigpipe' = TRUE /\ UNCHANGED <<inbox, rst>>
     ELSE IF peer = "open"
       THEN inbox' = inbox \o bytes /\ UNCHANGED <<rst, sigpipe>>
     ELSE rst' = "coming" /\ UNCHANGED <<inbox, sigpipe>>
  /\ UNCHANGED <<stream, rpos, peer, so_error>>

(* send(), when a reset arrives after SO_ERROR was asked for and before    *)
(* the call: it returns the error, which for a peer that had ended its     *)
(* side is EPIPE, with its signal, and otherwise ECONNRESET.               *)
SendMeetsReset ==
  /\ rst = "coming"
  /\ rst' = "here"
  /\ sigpipe' = (peer = "closed")
  /\ UNCHANGED <<stream, rpos, inbox, peer, so_error>>

ResetArrives ==
  /\ rst = "coming"
  /\ rst' = "here"
  /\ so_error' = TRUE
  /\ UNCHANGED <<stream, rpos, inbox, peer, sigpipe>>

-----------------------------------------------------------------------------
(* The peer *)

PeerSends(bytes) ==
  /\ peer = "open"
  /\ stream' = stream \o bytes
  /\ UNCHANGED <<rpos, inbox, peer, rst, so_error, sigpipe>>

PeerReads(n) ==
  /\ peer = "open"
  /\ inbox' = SubSeq(inbox, n + 1, Len(inbox))
  /\ UNCHANGED <<stream, rpos, peer, rst, so_error, sigpipe>>

(* close(), having sent no more than the first n bytes of stream.          *)
PeerCloses(n) ==
  /\ peer = "open"
  /\ stream' = SubSeq(stream, 1, n)
  /\ peer' = IF inbox = <<>> THEN "closed" ELSE "aborted"
  /\ rst' = IF inbox = <<>> THEN "none" ELSE "coming"
  /\ inbox' = <<>>
  /\ UNCHANGED <<rpos, so_error, sigpipe>>
=============================================================================
