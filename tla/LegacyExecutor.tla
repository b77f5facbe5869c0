--------------------------- MODULE LegacyExecutor ---------------------------
(***************************************************************************)
(* QwenExecutor (executor/qwen_executor.py): prefill(), decode() and       *)
(* cleanup_sequence() on a transformers model.  The model keeps its own    *)
(* past_key_values for each sequence; the block manager only does the      *)
(* accounting, and ensure_block() is called after the forward pass.        *)
(*                                                                         *)
(* Nothing in the engine calls prefill() and decode() any more, so the     *)
(* caller is external: it registers a sequence, prefills it chunk by       *)
(* chunk, decodes it and may end it between any two calls.  A call that    *)
(* raised may be made again.                                               *)
(***************************************************************************)
EXTENDS BlockManager

CONSTANTS
  ChunkSize,   \* Config.max_prefill_chunk_size
  MaxGen,      \* bound: the tokens generated for a sequence
  MaxPast,     \* bound: the length of past_key_values
  Absent       \* a block that is no key of _kv_cache

ASSUME LegacyAssumption ==
  /\ ChunkSize \in Nat \ {0} /\ MaxGen \in Nat \ {0} /\ MaxPast \in Nat
  /\ Absent \notin Seq(Nat)
  /\ 0 \notin Seqs

VARIABLES
  phase,     \* "new", "prefill", "running", "ended"
  prompt,    \* prompt_token_ids
  cursor,    \* prefill_cursor
  gen,       \* num_generated_tokens
  past,      \* _seq_kv: the positions whose tokens were fed to the model
  lists,     \* _kv_cache: the positions recorded for each block
  calling,   \* the sequence a call is working on; 0 between calls
  pending,   \* the positions the loop over ensure_block() has still to visit
  skipped,   \* history: the prompt tokens before the first chunk, which a
             \* prefix hit lets the executor leave out
  raised     \* history: the sequences of which a call raised

sequence == <<phase, prompt, cursor, gen>>
legacyVars == <<bmVars, sequence, past, lists, calling, pending, skipped, raised>>

LegacyInit ==
  /\ BMInit
  /\ phase = [s \in Seqs |-> "new"]
  /\ prompt = [s \in Seqs |-> <<>>]
  /\ cursor = [s \in Seqs |-> 0] /\ gen = [s \in Seqs |-> 0]
  /\ past = [s \in Seqs |-> <<>>]
  /\ lists = [b \in Blocks |-> Absent]
  /\ calling = 0 /\ pending = {}
  /\ skipped = [s \in Seqs |-> 0] /\ raised = {}

(* A cursor at the end of the prompt, as a full match leaves it, goes back *)
(* by one chunk.                                                           *)
ChunkEnd(s) == Smaller(Len(prompt[s]), cursor[s] + ChunkSize)

ChunkStart(s) ==
  IF cursor[s] < Len(prompt[s]) THEN cursor[s]
  ELSE Len(prompt[s]) - Smaller(ChunkSize, Len(prompt[s]))

(* The caller registers a sequence as the scheduler does. *)
Start(s, p) ==
  /\ calling = 0 /\ phase[s] = "new"
  /\ AllocateForSeq(s, p)
  /\ \E k \in 0 .. Len(p) :
       /\ Matches(p, k)
       /\ cursor' = [cursor EXCEPT ![s] = CachedTokens(p, k)]
  /\ prompt' = [prompt EXCEPT ![s] = p]
  /\ phase' = [phase EXCEPT ![s] = "prefill"]
  /\ skipped' = [skipped EXCEPT ![s] = ChunkStart(s)']
  /\ UNCHANGED <<gen, past, lists, calling, pending, raised>>

-----------------------------------------------------------------------------
(* prefill() and decode(). *)

(* Mutant of DecodePos: the position of the token it is about to sample. *)
DecodePosAhead(s) == Len(prompt[s]) + gen[s]

DecodePos(s) == Len(prompt[s]) + gen[s] - 1

(* Mutant of MaskLength: only the new tokens. *)
MaskOfChunk(s) == ChunkEnd(s) - ChunkStart(s)

(* _build_attention_mask(): prefill_cursor + new_tokens ones, if the model *)
(* has anything of the sequence.                                           *)
MaskLength(s) == cursor[s] + ChunkEnd(s) - ChunkStart(s)

Calls(s, first, last) ==
  /\ calling = 0 /\ calling' = s
  /\ Len(past[s]) + last - first < MaxPast
  /\ past' = [past EXCEPT ![s] = @ \o [i \in 1 .. last - first + 1 |-> first + i - 1]]
  /\ pending' = first .. last
  /\ UNCHANGED <<bmVars, sequence, lists, skipped, raised>>

(* The forward pass: the model appends what it is fed to its own cache. *)
PrefillForward(s) ==
  phase[s] = "prefill" /\ Calls(s, ChunkStart(s), ChunkEnd(s) - 1)

DecodeForward(s) ==
  phase[s] = "running" /\ gen[s] < MaxGen /\ Calls(s, DecodePos(s), DecodePos(s))

(* Mutant of Recorded: release_block() is never called. *)
RecordedKept(b, old) == IF free[b] /\ ~ free'[b] THEN <<>> ELSE old

(* prepare_block() and release_block(), called by the allocator. *)
Recorded(b, old) ==
  IF free[b] /\ ~ free'[b] THEN <<>>
  ELSE IF ~ free[b] /\ free'[b] THEN Absent
  ELSE old

(* Then, for each position of the pass, its block, and its entry there. *)
Track(s) ==
  /\ calling = s
  /\ \E pos \in pending :
       /\ \A q \in pending : pos <= q
       /\ \/ EnsureShared(s, pos, Len(prompt[s]))
          \/ EnsureFresh(s, pos, Len(prompt[s]))
          \/ ~ Missing(s, pos) /\ UNCHANGED bmVars
       /\ lists' = [b \in Blocks |->
                      IF b = tables'[s][pos \div BlockSize + 1]
                      THEN Append(Recorded(b, lists[b]), pos)
                      ELSE Recorded(b, lists[b])]
       /\ pending' = pending \ {pos}
  /\ UNCHANGED <<sequence, past, calling, skipped, raised>>

(* OOM leaves the call half-way: the model has the tokens, the cursor has *)
(* not moved.                                                              *)
CallRaises(s) ==
  /\ calling = s
  /\ \E pos \in pending :
       (\A q \in pending : pos <= q) /\ OutOfBlocks(s, pos, Len(prompt[s]))
  /\ calling' = 0 /\ pending' = {}
  /\ raised' = raised \cup {s}
  /\ UNCHANGED <<bmVars, sequence, past, lists, skipped>>

CallReturns(s) ==
  /\ calling = s /\ pending = {} /\ calling' = 0
  /\ IF phase[s] = "prefill"
     THEN /\ cursor' = [cursor EXCEPT ![s] = ChunkEnd(s)]
          /\ IF ChunkEnd(s) >= Len(prompt[s])
             THEN gen' = [gen EXCEPT ![s] = 1] /\ phase' = [phase EXCEPT ![s] = "running"]
             ELSE UNCHANGED <<gen, phase>>
     ELSE gen' = [gen EXCEPT ![s] = @ + 1] /\ UNCHANGED <<cursor, phase>>
  /\ UNCHANGED <<bmVars, prompt, past, lists, pending, skipped, raised>>

(* cleanup_sequence() and the block manager's free(). *)
End(s) ==
  /\ calling = 0 /\ phase[s] \in {"prefill", "running"}
  /\ FreeSeq(s)
  /\ lists' = [b \in Blocks |-> Recorded(b, lists[b])]
  /\ past' = [past EXCEPT ![s] = <<>>]
  /\ phase' = [phase EXCEPT ![s] = "ended"]
  /\ UNCHANGED <<prompt, cursor, gen, calling, pending, skipped, raised>>

LegacyNext ==
  \E s \in Seqs :
    \/ \E p \in Prompts : Start(s, p)
    \/ PrefillForward(s) \/ DecodeForward(s)
    \/ Track(s) \/ CallRaises(s) \/ CallReturns(s)
    \/ End(s)

LegacySpec == LegacyInit /\ [][LegacyNext]_legacyVars

-----------------------------------------------------------------------------
(* Properties. *)

(* The position that the next call feeds first; 0 before and after the calls. *)
Reached(s) ==
  IF phase[s] = "prefill" THEN ChunkStart(s)
  ELSE IF phase[s] = "running" THEN DecodePos(s) ELSE 0

(* decode() feeds one token and "all of the history": between two calls    *)
(* past_key_values holds every position from the first that was fed to the *)
(* last, once, in order, whoever shares the blocks; but what a prefix hit  *)
(* skipped is not in it, and the model derives a token's position from its *)
(* place there.  A call that raised has fed its tokens already and feeds   *)
(* them again: only those sequences are set aside.                         *)
PastIsHistory ==
  calling = 0 =>
    \A s \in Seqs \ raised :
      past[s] = [i \in 1 .. Reached(s) - skipped[s] |-> skipped[s] + i - 1]

(* The executor has a list for exactly the blocks in use, also when calls  *)
(* raise half-way and blocks are shared: no setdefault() hides a missing   *)
(* callback.                                                               *)
ListsMirrorAllocator == \A b \in Blocks : lists[b] = Absent <=> free[b]

(* The mask of a later chunk must cover both existing and new tokens: it   *)
(* has their number of places and as many more as a prefix hit skipped, so *)
(* it fits the model's cache exactly if there was no hit, however many     *)
(* chunks later.  A sequence of which a call raised is set aside; decode() *)
(* passes no mask.                                                         *)
MaskCoversPast ==
  [][\A s \in Seqs \ raised :
       PrefillForward(s) /\ past[s] # <<>> =>
         MaskLength(s) = Len(past'[s]) + skipped[s]]_legacyVars

=============================================================================
