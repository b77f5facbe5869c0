--------------------------- MODULE BlockAllocator ---------------------------
(***************************************************************************)
(* The physical KV-block pool of mini_vllm/cache/allocator.py: a free list *)
(* and one reference count per block.  The module has the operations of    *)
(* the class; BlockManager is their only caller and composes them.         *)
(***************************************************************************)
EXTENDS Integers, FiniteSets, Sequences

CONSTANT NumBlocks   \* Config.num_gpu_blocks

ASSUME NumBlocksAssumption == NumBlocks \in Nat \ {0}

Blocks == 0 .. NumBlocks - 1

VARIABLES
  free,   \* BlockAllocator._free: is the block in the free list?
  ref     \* BlockAllocator._ref_counts

AllocatorInit ==
  /\ free = [b \in Blocks |-> TRUE]
  /\ ref = [b \in Blocks |-> 0]

FreeBlocks == {b \in Blocks : free[b]}

(* How often each block occurs in a list of block ids. *)
Occurrences(pids) ==
  [b \in Blocks |-> Cardinality({i \in DOMAIN pids : pids[i] = b})]

-----------------------------------------------------------------------------

(* allocate(n) takes the n free blocks of lowest index, the first reference *)
(* to each; pids is that set.  It is not enabled when too few are free: the *)
(* method then returns None and changes nothing.                            *)
Allocate(pids) ==
  /\ pids \subseteq FreeBlocks
  /\ \A b \in pids, c \in FreeBlocks \ pids : b < c
  /\ free' = [b \in Blocks |-> free[b] /\ b \notin pids]
  /\ ref' = [b \in Blocks |-> IF b \in pids THEN 1 ELSE ref[b]]

(* Mutant of IncrementRefs: a block that occurs twice is counted once. *)
IncrementOnce(pids) ==
  /\ ref' = [b \in Blocks |-> IF Occurrences(pids)[b] > 0 THEN ref[b] + 1 ELSE ref[b]]
  /\ UNCHANGED free

(* increment_ref() on every block of a list.  Its assertion, that the block *)
(* is in use, is not a guard: BlockManager's invariants imply it.           *)
IncrementRefs(pids) ==
  /\ ref' = [b \in Blocks |-> ref[b] + Occurrences(pids)[b]]
  /\ UNCHANGED free

(* Mutant of Free: a block goes back while others refer to it. *)
FreeAtOnce(pids) ==
  LET n == Occurrences(pids)
  IN  /\ ref' = [b \in Blocks |-> IF n[b] < ref[b] THEN ref[b] - n[b] ELSE 0]
      /\ free' = [b \in Blocks |-> free[b] \/ n[b] > 0]

(* free(pids) drops one reference per occurrence of a block, skips a block *)
(* whose count is already 0, and returns it to the free list at 0.         *)
Free(pids) ==
  LET n == Occurrences(pids)
  IN  /\ ref' = [b \in Blocks |-> IF n[b] < ref[b] THEN ref[b] - n[b] ELSE 0]
      /\ free' = [b \in Blocks |->
                    free[b] \/ (ref[b] > 0 /\ n[b] >= ref[b])]

-----------------------------------------------------------------------------

AllocatorTypeOK ==
  /\ free \in [Blocks -> BOOLEAN]
  /\ ref \in [Blocks -> Nat]

(* check_invariants() of the class: a block is free iff its count is 0. *)
FreeIffUnreferenced ==
  \A b \in Blocks : free[b] <=> ref[b] = 0

=============================================================================
