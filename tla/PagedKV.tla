------------------------------- MODULE PagedKV -------------------------------
(***************************************************************************)
(* The engine with the physical KV pool under it: cache/pool.py,           *)
(* cache_write.py, cache_read.py and QwenModelRunner.execute_model().      *)
(*                                                                         *)
(* In every layer the keys and values of all tokens of the step are first  *)
(* written through the slot mapping, then each token attends, through its  *)
(* sequence's block table, to every position up to its own.  The layers do *)
(* the same, so one stands for all.  A slot holds what the last token      *)
(* written to it was computed from: the tokens up to that position.        *)
(* Sampling is greedy, so generated tokens are determined by the prompt    *)
(* and their number is enough to name them.                                *)
(*                                                                         *)
(* Allocating or releasing a block leaves its slots as they are: the       *)
(* executor's callbacks do nothing and the pool is never cleared.          *)
(***************************************************************************)
EXTENDS InputBuilder

CONSTANT Nothing   \* an uninitialised slot: torch.empty()

VARIABLE kv   \* the contents of slot `offset' of block `block'

pagedVars == <<engineVars, kv>>

Offsets == 0 .. BlockSize - 1

(* The tokens that determine the K/V at a position of r. *)
Context(r, pos) ==
  [prompt |-> SubSeq(prompt[r], 1, Smaller(pos + 1, Len(prompt[r]))),
   generated |-> IF pos < Len(prompt[r]) THEN 0 ELSE pos + 1 - Len(prompt[r])]

Holds(slot) == kv[slot.block][slot.offset]

-----------------------------------------------------------------------------
(* The forward pass. *)

(* The tokens of the step: the positions that step() made room for. *)
StepTokens ==
  UNION {{[seq |-> r, pos |-> p] : p \in Due(r)} : r \in schedPrefill \cup schedDecode}

WritersOf(b, o) ==
  {t \in StepTokens : Slot(t.seq, t.pos) = [block |-> b, offset |-> o]}

(* Position in the batch: prefills come first, each kind by admission. *)
PackedAfter(t, u) ==
  \/ t.seq \in schedDecode /\ u.seq \in schedPrefill
  \/ /\ t.seq \in schedDecode <=> u.seq \in schedDecode
     /\ \/ rank[t.seq] > rank[u.seq]
        \/ t.seq = u.seq /\ t.pos > u.pos

(* Mutant of KVAfterWrite: the last token of a chunk is not written. *)
KVAfterWriteShort ==
  [b \in Blocks |-> [o \in Offsets |->
     LET writers == {t \in WritersOf(b, o) :
                       \E u \in StepTokens : u.seq = t.seq /\ u.pos > t.pos}
     IN  IF writers = {} THEN kv[b][o]
         ELSE LET last == CHOOSE t \in writers :
                            \A u \in writers \ {t} : PackedAfter(t, u)
              IN  Context(last.seq, last.pos)]]

(* write_to_paged_cache(): token by token, so the last writer of a slot    *)
(* wins.                                                                   *)
KVAfterWrite ==
  [b \in Blocks |-> [o \in Offsets |->
     LET writers == WritersOf(b, o)
     IN  IF writers = {} THEN kv[b][o]
         ELSE LET last == CHOOSE t \in writers :
                            \A u \in writers \ {t} : PackedAfter(t, u)
              IN  Context(last.seq, last.pos)]]

-----------------------------------------------------------------------------

PagedInit == EngineInit /\ kv = [b \in Blocks |-> [o \in Offsets |-> Nothing]]

PagedNext ==
  \/ Execute /\ kv' = KVAfterWrite
  \/ (Prepare \/ Calls) /\ UNCHANGED kv

PagedSpec == PagedInit /\ [][PagedNext]_pagedVars

-----------------------------------------------------------------------------
(* Properties. *)

(* Every position a running request has computed still holds what that     *)
(* request's own tokens determine, for as long as it runs: across chunks,  *)
(* decodes, other requests' admissions, cancellations, time-outs, steps    *)
(* that raised OOM, and blocks that change hands.                          *)
KVIntact ==
  \A r \in running : \A pos \in 0 .. KVLen(r) - 1 :
    HasSlot(r, pos) /\ Holds(Slot(r, pos)) = Context(r, pos)

-----------------------------------------------------------------------------
(* What the documentation says of prefix caching. *)

(* PrefixCache.md, Q9: a stale entry, whose block has been released, is    *)
(* handled by looking at the reference count.  Between steps, a block that *)
(* a lookup accepts holds, where it has been written, the tokens it is     *)
(* filed under.                                                            *)
HitsHoldTheirTokens ==
  pc = "idle" => \A h \in Hashes : Hit(h) =>
    \A i \in 1 .. Len(h) :
      LET held == kv[cache[h]][i - 1]
      IN  held # Nothing => held.generated = 0 /\ held.prompt[Len(held.prompt)] = h[i]

=============================================================================
