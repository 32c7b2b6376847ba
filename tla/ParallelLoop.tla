---------------------------- MODULE ParallelLoop ----------------------------
(***************************************************************************)
(* How parallelize_loop(first_index, last_index, loop, num_tasks) of       *)
(* thread_pool cuts the indices of a loop into blocks.                     *)
(***************************************************************************)
EXTENDS Integers

(* The indices in the order the code puts them, the size and the number of *)
(* the blocks, for a number of tasks that is not 0.                        *)
Split(first_index, last_index, num_tasks) ==
  LET lo == IF last_index < first_index THEN last_index ELSE first_index
      hi == IF last_index < first_index THEN first_index ELSE last_index
      total_size == hi - lo + 1
      block_size == total_size \div num_tasks
  IN  [first |-> lo,
       last  |-> hi,
       size  |-> IF block_size = 0 THEN 1 ELSE block_size,
       num   |-> IF block_size = 0 THEN total_size ELSE num_tasks]

BlockStart(L, t) == t * L.size + L.first

(* Mutant: what the division leaves over belongs to no block. *)
BlockEndShort(L, t) == (t + 1) * L.size + L.first - 1

BlockEnd(L, t) ==
  IF t = L.num - 1 THEN L.last ELSE (t + 1) * L.size + L.first - 1

(* The indices of block t, counted from 0. *)
Block(L, t) == BlockStart(L, t) .. BlockEnd(L, t)

NoLoop == [first |-> 0, last |-> -1, size |-> 1, num |-> 0]
=============================================================================
