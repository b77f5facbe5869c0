--------------------------- MODULE PagedAttention ---------------------------
(***************************************************************************)
(* The two attention backends on the paged KV cache: AttentionBackendRef   *)
(* (paged_attention_ref.py) and AttentionBackendGPU with its Triton        *)
(* kernels (paged_attention_gpu.py), as QwenModelRunner.execute_model()    *)
(* calls them after a layer has written its keys and values.               *)
(*                                                                         *)
(* What a backend computes for a row of the batch is determined by the     *)
(* keys it attends to and their order; the numerics are left out.  A       *)
(* result is, for every row of the batch, the sequence of contents read.   *)
(***************************************************************************)
EXTENDS PagedKV

-----------------------------------------------------------------------------
(* What both backends are given. *)

NumPrefillTokens == StartOf(PrefillGroup.queryLen, Len(PrefillSeqs) + 1)

PrefillTables == BlockTableTensor(PrefillSeqs)
DecodeTables == BlockTableTensor(DecodeSeqs)

CachedLen(group, i) == group.kvLenAfter[i] - group.queryLen[i]

(* token_offset of the i-th prefill, summed up from the group's metadata. *)
QueryOffset(i) == StartOf(PrefillGroup.queryLen, i)

(* The prefill whose slice of the query holds a row. *)
PrefillOfRow(row) ==
  CHOOSE i \in 1 .. Len(PrefillGroup.queryLen) :
    QueryOffset(i) < row /\ row <= QueryOffset(i) + PrefillGroup.queryLen[i]

After(slot) == KVAfterWrite[slot.block][slot.offset]

(* Mutant of CausalMask: positions count from the start of the chunk. *)
MaskWithoutOffset(keys, cached, j) ==
  [p \in 1 .. Smaller(Len(keys), j) |-> keys[p]]

(* The keys that key_pos <= query_pos leaves to the j-th query of a chunk *)
(* that starts at position `cached'.                                       *)
CausalMask(keys, cached, j) ==
  [p \in 1 .. Smaller(Len(keys), cached + j) |-> keys[p]]

-----------------------------------------------------------------------------
(* The reference backend gathers everything from the cache. *)

(* gather_paged_kv(), block after block. *)
GatherPagedKV(blockIds, numTokens) ==
  [p \in 1 .. numTokens |->
     After([block |-> blockIds[(p - 1) \div BlockSize + 1],
            offset |-> (p - 1) % BlockSize])]

BlockIds(row) == Select(row, {j \in DOMAIN row : row[j] # Padding})

RefPrefill(row) ==
  LET i == PrefillOfRow(row)
      blockIds == BlockIds(PrefillTables[PrefillGroup.seqIndices[i] + 1])
  IN  CausalMask(GatherPagedKV(blockIds, PrefillGroup.kvLenAfter[i]),
                 CachedLen(PrefillGroup, i), row - QueryOffset(i))

RefDecode(i) ==
  GatherPagedKV(BlockIds(DecodeTables[DecodeGroup.seqIndices[i] + 1]),
                CachedLen(DecodeGroup, i) + 1)

RefAttention ==
  [row \in DOMAIN Batch |->
     IF row <= NumPrefillTokens THEN RefPrefill(row)
     ELSE RefDecode(row - NumPrefillTokens)]

-----------------------------------------------------------------------------
(* The GPU backend.  triton_cache_write() stores the tokens of a step in   *)
(* parallel and so refuses a slot mapping with duplicates.                 *)
CacheWriteAccepted ==
  \A i, j \in DOMAIN Batch :
    Slot(Batch[i].seq, Batch[i].pos) = Slot(Batch[j].seq, Batch[j].pos) => i = j

(* Prefill: the prefix comes from the cache, the chunk from k and v. *)
GatherPrefixKV(tableRow, cached) ==
  [p \in 1 .. cached |->
     After([block |-> tableRow[(p - 1) \div BlockSize + 1],
            offset |-> (p - 1) % BlockSize])]

ChunkKV(first, len) ==
  [j \in 1 .. len |-> Context(Batch[first + j].seq, Batch[first + j].pos)]

GPUPrefill(row) ==
  LET i == PrefillOfRow(row)
      cached == CachedLen(PrefillGroup, i)
      prefix == GatherPrefixKV(PrefillTables[PrefillGroup.seqIndices[i] + 1], cached)
      chunk == ChunkKV(QueryOffset(i), PrefillGroup.queryLen[i])
  IN  CausalMask(prefix \o chunk, cached, row - QueryOffset(i))

(* Mutant of TokensInBlock: the last block is read as if it were full. *)
WholeBlock(seqLen, blockIdx) == BlockSize

(* _paged_decode_kernel: how many positions of a block are read. *)
TokensInBlock(seqLen, blockIdx) ==
  IF blockIdx < seqLen \div BlockSize THEN BlockSize ELSE seqLen % BlockSize

(* The program of one sequence walks the blocks of its own table row; a   *)
(* padding entry contributes nothing.                                      *)
GPUDecode(i) ==
  LET seqLen == DecodeGroup.kvLenAfter[i]
      partial == IF seqLen % BlockSize > 0 THEN 1 ELSE 0
      read(blockIdx) ==
        LET bid == DecodeTables[i][blockIdx + 1]
        IN  IF bid = Padding THEN <<>>
            ELSE [pos \in 1 .. TokensInBlock(seqLen, blockIdx) |->
                    After([block |-> bid, offset |-> pos - 1])]
  IN  Lists!FlattenSeq([k \in 1 .. seqLen \div BlockSize + partial |-> read(k - 1)])

GPUAttention ==
  [row \in DOMAIN Batch |->
     IF row <= NumPrefillTokens THEN GPUPrefill(row)
     ELSE GPUDecode(row - NumPrefillTokens)]

-----------------------------------------------------------------------------
(* Properties. *)

(* Causal attention over a sequence without any cache. *)
CausalAttention ==
  [row \in DOMAIN Batch |->
     [p \in 1 .. Batch[row].pos + 1 |-> Context(Batch[row].seq, p - 1)]]

(* The reference backend, through tables, groups, masks and the cache,     *)
(* gives every row of the batch causal attention over its own sequence.    *)
RefIsCausal == Building => RefAttention = CausalAttention

(* The GPU backend, which reads the chunk from elsewhere and walks the     *)
(* blocks differently, computes the same whenever its cache write is       *)
(* accepted.                                                               *)
GPUIsCausal == Building /\ CacheWriteAccepted => GPUAttention = CausalAttention

(* Without prefix caching triton_cache_write() never meets a duplicate     *)
(* slot.                                                                   *)
SlotsDistinct == Building /\ ~ EnablePrefixCaching => CacheWriteAccepted

=============================================================================
