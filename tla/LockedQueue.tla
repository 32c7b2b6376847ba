----------------------------- MODULE LockedQueue -----------------------------
(***************************************************************************)
(* utils::LockedQueue<MysqlGearQueueEntry>: the queue of accepted queries. *)
(* Every method holds the mutex for all of its body, so each is one step.  *)
(***************************************************************************)
EXTENDS Sequences

VARIABLE messages

PushMessage(m) == messages' = Append(messages, m)

(* pop() swaps front() out and has no test: on an empty queue it is        *)
(* undefined, so its callers have to know that the queue is not empty.     *)
PopMessage == messages' = Tail(messages)
FrontMessage == Head(messages)

MessagesEmpty == messages = <<>>
=============================================================================
