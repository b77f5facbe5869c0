---------------------------- MODULE InputBuilder ----------------------------
(***************************************************************************)
(* ModelInputBuilder.build() (engine/input_builder.py): the ModelInput of  *)
(* one forward pass, computed from the sequences the scheduler chose and   *)
(* from the block tables, and what the consumers make of it: the model     *)
(* runner's renumbering of the decode group (qwen_runner.py), the paged    *)
(* executor's list of sampled sequences (paged_executor.py) and            *)
(* EngineCore._apply_model_output().                                       *)
(*                                                                         *)
(* Everything here is a function of the engine's state when the blocks of  *)
(* the step are in place, so it is written as operators.  Tensors are      *)
(* sequences; indices into them count from 0 as in the code.               *)
(***************************************************************************)
EXTENDS EngineCore

Lists == INSTANCE SequencesExt

-----------------------------------------------------------------------------
(* Lists. *)

(* The members of a set as a list, by increasing key. *)
InOrder(S, key) ==
  CHOOSE list \in [1 .. Cardinality(S) -> S] :
    \A i, j \in DOMAIN list : i < j => key[list[i]] < key[list[j]]

(* The entries of a list at some of its indices: a comprehension's `if'. *)
Select(list, I) ==
  LET kept == InOrder(I, [i \in I |-> i])
  IN  [k \in 1 .. Cardinality(I) |-> list[kept[k]]]

(* The running sum of lengths: where the i-th part of a packed list begins, *)
(* counted from 0.                                                          *)
StartOf(lengths, i) ==
  LET offset[n \in 1 .. i] ==
        IF n = 1 THEN 0 ELSE offset[n - 1] + lengths[n - 1]
  IN  offset[i]

-----------------------------------------------------------------------------
(* The sequences of the step. *)

(* The state in which step() calls build(). *)
Building ==
  /\ Executing
  /\ \A r \in schedPrefill \cup schedDecode : Uncovered(r) = {}

(* only_prefill_seqs and decode_seqs, in the order of the schedule. *)
ByAdmission(S) == InOrder(S, rank)

PrefillSeqs == ByAdmission(schedPrefill)
DecodeSeqs == ByAdmission(schedDecode)
BatchSeqs == PrefillSeqs \o DecodeSeqs

-----------------------------------------------------------------------------
(* _PrefillMeta and _DecodeMeta. *)

CachedLenBefore(r) ==
  IF r \in schedPrefill THEN cursor[r] ELSE Len(prompt[r]) + gen[r] - 1

QueryLen(r) ==
  IF r \in schedPrefill
  THEN Smaller(MaxPrefillChunkSize, Len(prompt[r]) - cursor[r])
  ELSE 1

KVLenAfter(r) == CachedLenBefore(r) + QueryLen(r)

(* A decode always samples, a prefill when the chunk ends its prompt. *)
Samples(r) == r \in schedPrefill => KVLenAfter(r) >= Len(prompt[r])

(* Mutant of Slot: every token of a step goes to the last block. *)
SlotInLastBlock(r, pos) ==
  [block |-> tables[r][Len(tables[r])], offset |-> pos % BlockSize]

(* _compute_slot(): a pair, of which the code's slot is                    *)
(* block * block_size + offset; it raises if the table is too short.        *)
HasSlot(r, pos) == pos \div BlockSize < Len(tables[r])

Slot(r, pos) ==
  [block |-> tables[r][pos \div BlockSize + 1], offset |-> pos % BlockSize]

(* The packed tokens: input_ids, positions and slot_mapping of one list. *)
RowOf(r) ==
  [i \in 1 .. QueryLen(r) |-> [seq |-> r, pos |-> CachedLenBefore(r) + i - 1]]

Batch == Lists!FlattenSeq([i \in 1 .. Len(BatchSeqs) |-> RowOf(BatchSeqs[i])])

(* token_offset when the i-th sequence of the batch is packed. *)
TokenOffset(i) == StartOf([n \in DOMAIN BatchSeqs |-> QueryLen(BatchSeqs[n])], i)

(* The places in the batch of the sequences that sample. *)
Sampling == {i \in DOMAIN BatchSeqs : Samples(BatchSeqs[i])}

(* Mutant of SampleTokenIndices: the first token of a chunk, not its last. *)
SampleChunkStart ==
  Select([i \in DOMAIN BatchSeqs |-> TokenOffset(i)], Sampling)

(* sample_token_indices: the last token of every sequence that samples. *)
SampleTokenIndices ==
  Select([i \in DOMAIN BatchSeqs |-> TokenOffset(i) + QueryLen(BatchSeqs[i]) - 1], Sampling)

-----------------------------------------------------------------------------
(* The padded block tables and the attention groups. *)

MaxBlocks ==
  LET lengths == {Len(tables[r]) : r \in schedPrefill \cup schedDecode}
  IN  CHOOSE n \in lengths \cup {1} : \A m \in lengths \cup {1} : m <= n

Padding == -1

BlockTableTensor(seqs) ==
  [i \in 1 .. Len(seqs) |->
     [j \in 1 .. MaxBlocks |->
        IF j <= Len(tables[seqs[i]]) THEN tables[seqs[i]][j] ELSE Padding]]

(* A group: which rows of its block tables it reads, how far in each. *)
Group(seqs, firstIndex) ==
  [seqIndices |-> [i \in 1 .. Len(seqs) |-> firstIndex + i - 1],
   queryLen |-> [i \in 1 .. Len(seqs) |-> QueryLen(seqs[i])],
   kvLenAfter |-> [i \in 1 .. Len(seqs) |-> KVLenAfter(seqs[i])]]

(* seq_indices of the decode group go on counting after the prefills ... *)
PrefillGroup == Group(PrefillSeqs, 0)
BuiltDecodeGroup == Group(DecodeSeqs, Len(PrefillSeqs))

(* ... and _build_decode_meta() counts them from 0 again, because the     *)
(* decode block tables have no rows for the prefills.                      *)
DecodeGroup ==
  [BuiltDecodeGroup EXCEPT !.seqIndices = [i \in DOMAIN @ |-> i - 1]]

-----------------------------------------------------------------------------
(* The output. *)

(* execute_model() returns the logits at the sample indices, or all of    *)
(* them when there is no sample; argmax gives one token to each.           *)
LogitRows ==
  IF SampleTokenIndices # <<>> THEN SampleTokenIndices
  ELSE [i \in 1 .. Len(Batch) |-> i - 1]

(* PagedExecutor.execute(): the sequences with a sample_output_index. *)
SampledSequences == Select(BatchSeqs, Sampling)

(* The pairs that zip() makes of the two lists for _apply_model_output(): *)
(* which sequence gets the token computed at which row of the batch.       *)
AppliedTokens ==
  {[seq |-> SampledSequences[k], row |-> LogitRows[k] + 1] :
     k \in 1 .. Smaller(Len(SampledSequences), Len(LogitRows))}

-----------------------------------------------------------------------------
(* Properties. *)

(* Every sequence that completes its prompt or decodes, and no other, gets *)
(* one token, computed at the row of its own last position: sample indices *)
(* and sequence_info, built in two loops, stay in step.                    *)
TokensGoToTheirSequences ==
  Building =>
    /\ {a.seq : a \in AppliedTokens} =
         schedDecode \cup {r \in schedPrefill : PrefillEnd(r) = Len(prompt[r])}
    /\ \A a \in AppliedTokens :
         Batch[a.row] = [seq |-> a.seq, pos |-> KVLenAfter(a.seq) - 1]
    /\ \A a, b \in AppliedTokens : a.seq = b.seq => a = b

=============================================================================
