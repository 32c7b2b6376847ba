-------------------------- MODULE MCThreadPoolOwner --------------------------
(* ThreadPoolOwner for TLC: two threads, the tasks the cfg names, and one  *)
(* more reader of the statistics.                                          *)
EXTENDS ThreadPoolOwner

CONSTANTS w1, w2, t1, t2, t3, owner, status
=============================================================================
