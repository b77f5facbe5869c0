---------------------------- MODULE BlockManager ----------------------------
(***************************************************************************)
(* mini_vllm/cache/manager.py with the two structures it owns: the block   *)
(* tables (block_table.py) and the prefix cache (prefix_cache.py).  Every  *)
(* operation is an action on free, ref (BlockAllocator), tables, hashes    *)
(* and cache; the engine modules call the same actions.                    *)
(*                                                                         *)
(* A token is abstract, a prompt is a sequence of tokens, and the hash of  *)
(* a block is the tuple of the block's own tokens: hash() of that tuple,   *)
(* collisions left out.  It says nothing of the tokens before the block.   *)
(***************************************************************************)
EXTENDS BlockAllocator

CONSTANTS
  Seqs,                  \* the sequence ids
  Tokens,                \* the tokens prompts are made of
  Prompts,               \* the prompts a sequence may have
  BlockSize,             \* Config.block_size
  EnablePrefixCaching,   \* Config.enable_prefix_caching
  NoBlock                \* None as the result of a lookup

ASSUME BlockManagerAssumption ==
  /\ BlockSize \in Nat \ {0}
  /\ EnablePrefixCaching \in BOOLEAN
  /\ NoBlock \notin Blocks
  /\ Prompts \subseteq Seq(Tokens)

VARIABLES
  tables,   \* _tables[s]._entries: physical block of each logical block
  hashes,   \* _block_hashes[s]; empty when the key is absent
  cache     \* PrefixCache._cache: block hash -> physical block

bmVars == <<free, ref, tables, hashes, cache>>

-----------------------------------------------------------------------------

Smaller(a, b) == IF a < b THEN a ELSE b

(* The number of blocks that hold n tokens; the last may be partial. *)
BlocksFor(n) == (n + BlockSize - 1) \div BlockSize

BlockHash(p, i) ==
  SubSeq(p, (i - 1) * BlockSize + 1, Smaller(i * BlockSize, Len(p)))

BlockHashes(p) == [i \in 1 .. BlocksFor(Len(p)) |-> BlockHash(p, i)]

Hashes == UNION {{BlockHash(p, i) : i \in 1 .. BlocksFor(Len(p))} : p \in Prompts}

(* A lookup that the callers accept: the entry's block is referenced by   *)
(* somebody.  Nothing checks that it still holds what was registered.      *)
Hit(h) == cache[h] # NoBlock /\ ref[cache[h]] > 0

(* probe_prefix_cache() finds the first k blocks of the prompt p cached. *)
Matches(p, k) ==
  IF EnablePrefixCaching
  THEN /\ k \in 0 .. Len(BlockHashes(p))
       /\ \A i \in 1 .. k : Hit(BlockHashes(p)[i])
       /\ k < Len(BlockHashes(p)) => ~ Hit(BlockHashes(p)[k + 1])
  ELSE k = 0

(* cached_token_count of the probe result. *)
CachedTokens(p, k) == Smaller(k * BlockSize, Len(p))

-----------------------------------------------------------------------------

BMInit ==
  /\ AllocatorInit
  /\ tables = [s \in Seqs |-> <<>>]
  /\ hashes = [s \in Seqs |-> <<>>]
  /\ cache = [h \in Hashes |-> NoBlock]

(* allocate_for_seq(): a new table, filled with the matching blocks. *)
AllocateForSeq(s, p) ==
  \E k \in 0 .. Len(BlockHashes(p)) :
    LET shared == [i \in 1 .. k |-> cache[BlockHashes(p)[i]]]
    IN  /\ Matches(p, k)
        /\ IncrementRefs(shared)
        /\ tables' = [tables EXCEPT ![s] = shared]
        /\ hashes' = IF EnablePrefixCaching
                     THEN [hashes EXCEPT ![s] = BlockHashes(p)]
                     ELSE hashes
        /\ UNCHANGED cache

(* ensure_block(s, pos): the logical block of the position is missing. *)
Missing(s, pos) == pos \div BlockSize >= Len(tables[s])

(* The position is in the prompt and its block's hash is known: only then *)
(* does ensure_block() consult and update the prefix cache.               *)
Cacheable(s, pos, promptLen) ==
  pos < promptLen /\ pos \div BlockSize < Len(hashes[s])

HashAt(s, pos) == hashes[s][pos \div BlockSize + 1]

CacheHitAt(s, pos, promptLen) ==
  Cacheable(s, pos, promptLen) /\ Hit(HashAt(s, pos))

(* One iteration of ensure_block()'s loop, with its three outcomes.  The  *)
(* loop runs while the block is missing, always with the hash of the      *)
(* position asked for.  promptLen = 0 is ensure_block_by_ids(), which     *)
(* never consults the cache.                                              *)
EnsureShared(s, pos, promptLen) ==
  /\ Missing(s, pos)
  /\ CacheHitAt(s, pos, promptLen)
  /\ LET b == cache[HashAt(s, pos)]
     IN  /\ IncrementRefs(<<b>>)
         /\ tables' = [tables EXCEPT ![s] = Append(@, b)]
  /\ UNCHANGED <<hashes, cache>>

EnsureFresh(s, pos, promptLen) ==
  /\ Missing(s, pos)
  /\ ~ CacheHitAt(s, pos, promptLen)
  /\ \E b \in FreeBlocks :
       /\ Allocate({b})
       /\ tables' = [tables EXCEPT ![s] = Append(@, b)]
       /\ cache' = IF Cacheable(s, pos, promptLen)
                   THEN [cache EXCEPT ![HashAt(s, pos)] = b]
                   ELSE cache
  /\ UNCHANGED hashes

(* ... or it raises RuntimeError("OOM") and leaves the state as it is. *)
OutOfBlocks(s, pos, promptLen) ==
  /\ Missing(s, pos)
  /\ ~ CacheHitAt(s, pos, promptLen)
  /\ FreeBlocks = {}

(* free(): every reference the table holds is dropped, the table and the *)
(* hashes of the sequence are forgotten; the cache keeps its entries.    *)
FreeSeq(s) ==
  /\ Free(tables[s])
  /\ tables' = [tables EXCEPT ![s] = <<>>]
  /\ hashes' = [hashes EXCEPT ![s] = <<>>]
  /\ UNCHANGED cache

-----------------------------------------------------------------------------
(***************************************************************************)
(* The manager on its own, under any order of calls its callers could      *)
(* make: a sequence is registered once before it is freed, and a block is  *)
(* asked for at any position up to MaxPosition.                            *)
(***************************************************************************)
CONSTANT MaxPosition   \* bound: the highest token position asked for

ASSUME MaxPositionAssumption == MaxPosition \in Nat

BMNext ==
  \E s \in Seqs :
    \/ \E p \in Prompts :
         tables[s] = <<>> /\ hashes[s] = <<>> /\ AllocateForSeq(s, p)
    \/ \E pos, promptLen \in 0 .. MaxPosition : EnsureShared(s, pos, promptLen)
    \/ \E pos, promptLen \in 0 .. MaxPosition : EnsureFresh(s, pos, promptLen)
    \/ FreeSeq(s)

BMSpec == BMInit /\ [][BMNext]_bmVars

-----------------------------------------------------------------------------

BMTypeOK ==
  /\ AllocatorTypeOK
  /\ tables \in [Seqs -> Seq(Blocks)]
  /\ hashes \in [Seqs -> Seq(Hashes)]
  /\ cache \in [Hashes -> Blocks \cup {NoBlock}]

(* The entries of a table t of s, and of all tables, that point to block b. *)
Entries(s, t, b) == {<<s, i>> : i \in {j \in DOMAIN t : t[j] = b}}

References(b) == UNION {Entries(s, tables[s], b) : s \in Seqs}

(* A block's reference count is exactly the number of table entries that   *)
(* point to it, and it is in the free list exactly when there are none: no *)
(* block is handed out while a sequence still maps it, and none is lost.   *)
RefCountsExact ==
  \A b \in Blocks :
    /\ ref[b] = Cardinality(References(b))
    /\ free[b] <=> References(b) = {}

(* Without prefix caching a block belongs to one place of one table. *)
BlocksExclusive ==
  \A s, t \in Seqs : \A i \in DOMAIN tables[s], j \in DOMAIN tables[t] :
    tables[s][i] = tables[t][j] => s = t /\ i = j

(***************************************************************************)
(* What the manager promises, without counts: see BlockOwnership.          *)
(***************************************************************************)
Ownership ==
  INSTANCE BlockOwnership WITH holders <- [b \in Blocks |-> References(b)],
                               known <- cache, Keys <- Hashes

ImplementsOwnership == Ownership!Spec

=============================================================================
