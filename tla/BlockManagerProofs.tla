------------------------- MODULE BlockManagerProofs -------------------------
(***************************************************************************)
(* For any number of blocks and sequences, any prompts and any order of    *)
(* calls, the reference counts of the manager are exact, it implements     *)
(* BlockOwnership, and without prefix caching blocks are exclusive.        *)
(***************************************************************************)
EXTENDS BlockManager, FiniteSetTheorems, SequenceTheorems, WellFoundedInduction, TLAPS

(* A set of natural numbers has a least one: what an induction rests on here. *)
LEMMA NatMin ==
  ASSUME NEW T, T \subseteq Nat, T # {}
  PROVE  \E m \in T : \A k \in T : m <= k
<1>1. PICK m \in T : \A k \in T : ~ (<<k, m>> \in OpToRel(<, Nat))
  BY WFMin, NatLessThanWellFounded
<1>2. \A k \in T : ~ (k < m)
  BY <1>1 DEF OpToRel
<1> QED
  BY <1>2

LEMMA AppendType ==
  ASSUME NEW t \in Seq(Blocks), NEW b \in Blocks
  PROVE  /\ Append(t, b) \in Seq(Blocks)
         /\ DOMAIN Append(t, b) = 1 .. Len(t) + 1
         /\ \A i \in 1 .. Len(t) : Append(t, b)[i] = t[i]
         /\ Append(t, b)[Len(t) + 1] = b
  OBVIOUS

(* The occurrences of a block in a list are a finite set, so their count *)
(* is a natural number.                                                   *)
LEMMA OccurrencesType ==
  ASSUME NEW t \in Seq(Blocks), NEW b \in Blocks
  PROVE  /\ IsFiniteSet({i \in DOMAIN t : t[i] = b})
         /\ Occurrences(t)[b] \in Nat
<1>1. IsFiniteSet(DOMAIN t)
  BY FS_Interval, 1 \in Int, Len(t) \in Int, DOMAIN t = 1 .. Len(t)
<1>2. {i \in DOMAIN t : t[i] = b} \in SUBSET DOMAIN t
  OBVIOUS
<1>3. IsFiniteSet({i \in DOMAIN t : t[i] = b})
  BY <1>1, <1>2, FS_Subset
<1> QED
  BY <1>3, FS_CardinalityType DEF Occurrences

LEMMA OccurrencesEmpty ==
  ASSUME NEW b \in Blocks
  PROVE  Occurrences(<<>>)[b] = 0
<1>1. {i \in DOMAIN <<>> : <<>>[i] = b} = {}
  OBVIOUS
<1> QED
  BY <1>1, FS_EmptySet DEF Occurrences

(* Appending a block to a list adds one occurrence of it and of no other. *)
LEMMA OccurrencesAppend ==
  ASSUME NEW t \in Seq(Blocks), NEW b \in Blocks, NEW c \in Blocks
  PROVE  Occurrences(Append(t, c))[b] =
           Occurrences(t)[b] + (IF b = c THEN 1 ELSE 0)
<1> DEFINE Old == {i \in DOMAIN t : t[i] = b}
           New == {i \in DOMAIN Append(t, c) : Append(t, c)[i] = b}
           n == Len(t) + 1
<1>1. /\ IsFiniteSet(Old)
      /\ Occurrences(t)[b] = Cardinality(Old)
      /\ Occurrences(t)[b] \in Nat
  BY OccurrencesType DEF Occurrences
<1>2. Occurrences(Append(t, c))[b] = Cardinality(New)
  BY DEF Occurrences
<1>3. n \notin Old /\ DOMAIN t = 1 .. Len(t) /\ Len(t) \in Nat
  OBVIOUS
<1>4. CASE b = c
  <2>1. New = Old \cup {n}
    BY <1>3, <1>4, AppendType
  <2>2. Cardinality(Old \cup {n}) = Cardinality(Old) + 1
    BY <1>1, <1>3, FS_AddElement
  <2> HIDE DEF Old, New, n
  <2> QED
    BY <1>1, <1>2, <1>4, <2>1, <2>2
<1>5. CASE b # c
  <2>1. New = Old
    BY <1>3, <1>5, AppendType
  <2> QED
    <3> HIDE DEF Old, New
    <3> QED
      BY <1>1, <1>2, <1>5, <2>1
<1> QED
  BY <1>4, <1>5

(* The entries of one table on a block are as many as its occurrences. *)
LEMMA EntriesCount ==
  ASSUME NEW s \in Seqs, NEW t \in Seq(Blocks), NEW b \in Blocks
  PROVE  /\ IsFiniteSet(Entries(s, t, b))
         /\ Cardinality(Entries(s, t, b)) = Occurrences(t)[b]
<1> DEFINE I == {i \in DOMAIN t : t[i] = b}
<1>1. Entries(s, t, b) = {s} \X I
  BY DEF Entries
<1>2. IsFiniteSet(I) /\ Occurrences(t)[b] = Cardinality(I) /\ Cardinality(I) \in Nat
  BY OccurrencesType DEF Occurrences
<1>3. IsFiniteSet({s}) /\ Cardinality({s}) = 1
  BY FS_Singleton
<1> HIDE DEF I
<1> QED
  BY <1>1, <1>2, <1>3, FS_Product

(***************************************************************************)
(* RefCountsExact needs two facts more to be inductive: the references are *)
(* finite sets, so that counting them means something, and the free list   *)
(* agrees with the counts, which is what the guards of the code look at.   *)
(***************************************************************************)
ReferencesFinite == \A b \in Blocks : IsFiniteSet(References(b))

BMInv ==
  /\ BMTypeOK
  /\ ReferencesFinite
  /\ RefCountsExact
  /\ FreeIffUnreferenced

(* Replacing the table of one sequence replaces its entries' share of the *)
(* references to every block, and of nothing else.                        *)
LEMMA ReplaceTable ==
  ASSUME BMTypeOK, ReferencesFinite,
         NEW s \in Seqs, NEW t \in Seq(Blocks), NEW b \in Blocks,
         tables' = [tables EXCEPT ![s] = t]
  PROVE  /\ IsFiniteSet(References(b)')
         /\ Occurrences(tables[s])[b] <= Cardinality(References(b))
         /\ Cardinality(References(b)') =
              Cardinality(References(b)) - Occurrences(tables[s])[b] + Occurrences(t)[b]
         /\ Cardinality(References(b)) \in Nat
         /\ Cardinality(References(b)') \in Nat
<1> DEFINE Old == Entries(s, tables[s], b)
           New == Entries(s, t, b)
           Kept == References(b) \ Old
<1>1. tables[s] \in Seq(Blocks)
  BY DEF BMTypeOK
<1>2. /\ IsFiniteSet(Old) /\ Cardinality(Old) = Occurrences(tables[s])[b]
      /\ IsFiniteSet(New) /\ Cardinality(New) = Occurrences(t)[b]
  BY <1>1, EntriesCount
<1>3. References(b)' = Kept \cup New
  <2>1. \A r \in Seqs : tables'[r] = IF r = s THEN t ELSE tables[r]
    BY DEF BMTypeOK
  <2>2. References(b)' = UNION {Entries(r, tables'[r], b) : r \in Seqs}
    BY DEF References, Entries
  <2>3. \A r \in Seqs : \A u, v : r # s => Entries(r, u, b) \cap Entries(s, v, b) = {}
    BY DEF Entries
  <2> QED
    BY <2>1, <2>2, <2>3 DEF References
<1>4. Old \subseteq References(b) /\ Kept \cap New = {}
  BY DEF References, Entries
<1>5. IsFiniteSet(References(b))
  BY DEF ReferencesFinite
<1>6. /\ IsFiniteSet(Kept)
      /\ Cardinality(Kept) = Cardinality(References(b)) - Cardinality(Old)
      /\ Cardinality(Old) <= Cardinality(References(b))
  <2>1. References(b) \cap Old = Old /\ Old \in SUBSET References(b)
    BY <1>4
  <2>2. Cardinality(Old) <= Cardinality(References(b))
    BY <1>5, <2>1, FS_Subset
  <2>3. /\ IsFiniteSet(Kept)
        /\ Cardinality(Kept) =
             Cardinality(References(b)) - Cardinality(References(b) \cap Old)
    BY <1>5, FS_Difference
  <2> HIDE DEF Old, Kept
  <2> QED
    BY <2>1, <2>2, <2>3
<1>7. /\ IsFiniteSet(References(b)')
      /\ Cardinality(References(b)') = Cardinality(Kept) + Cardinality(New)
  <2>1. Cardinality(Kept \cap New) = 0
    BY <1>4, FS_EmptySet
  <2>2. Cardinality(Kept) \in Nat /\ Cardinality(New) \in Nat
    BY <1>2, <1>6, FS_CardinalityType
  <2>3. /\ IsFiniteSet(Kept \cup New)
        /\ Cardinality(Kept \cup New) =
             Cardinality(Kept) + Cardinality(New) - Cardinality(Kept \cap New)
    BY <1>2, <1>6, FS_Union
  <2> HIDE DEF Kept, New
  <2> QED
    BY <1>3, <2>1, <2>2, <2>3
<1>8. /\ Cardinality(References(b)) \in Nat
      /\ Cardinality(References(b)') \in Nat
  BY <1>5, <1>7, FS_CardinalityType
<1> QED
  BY <1>2, <1>6, <1>7, <1>8

(* The three ways a step changes counts and tables together all keep the *)
(* counts exact: what matters is that each count moves by the difference  *)
(* of the block's occurrences in the old and the new table.               *)
LEMMA CountsFollowTable ==
  ASSUME BMInv, NEW s \in Seqs, NEW t \in Seq(Blocks),
         tables' = [tables EXCEPT ![s] = t],
         ref' \in [Blocks -> Nat], FreeIffUnreferenced',
         \A b \in Blocks :
           ref'[b] = ref[b] - Occurrences(tables[s])[b] + Occurrences(t)[b]
  PROVE  ReferencesFinite' /\ RefCountsExact'
<1> SUFFICES ASSUME NEW b \in Blocks
             PROVE  /\ IsFiniteSet(References(b)')
                    /\ ref'[b] = Cardinality(References(b)')
                    /\ free'[b] <=> References(b)' = {}
  BY DEF ReferencesFinite, RefCountsExact
<1>1. IsFiniteSet(References(b)')
  BY ReplaceTable DEF BMInv
<1>2. ref'[b] = Cardinality(References(b)')
  <2>1. ref[b] = Cardinality(References(b))
    BY DEF BMInv, RefCountsExact
  <2>2. Cardinality(References(b)') =
          Cardinality(References(b)) - Occurrences(tables[s])[b] + Occurrences(t)[b]
    BY ReplaceTable DEF BMInv
  <2> QED
    BY <2>1, <2>2
<1>3. free'[b] <=> References(b)' = {}
  <2>1. free'[b] <=> ref'[b] = 0
    BY DEF FreeIffUnreferenced
  <2>2. Cardinality(References(b)') = 0 <=> References(b)' = {}
    BY <1>1, FS_EmptySet
  <2> QED
    BY <1>2, <2>1, <2>2
<1> QED
  BY <1>1, <1>2, <1>3

(* The hashes of a prompt form a sequence of known hashes. *)
LEMMA BlockHashesType ==
  ASSUME NEW p \in Prompts
  PROVE  /\ BlockHashes(p) \in Seq(Hashes)
         /\ \A i \in 1 .. Len(BlockHashes(p)) : BlockHashes(p)[i] \in Hashes
<1> DEFINE n == BlocksFor(Len(p))
<1>1. Len(p) \in Nat
  BY BlockManagerAssumption
<1>2. n \in Nat
  BY <1>1, BlockManagerAssumption DEF BlocksFor
<1>3. \A i \in 1 .. n : BlockHash(p, i) \in Hashes
  BY DEF Hashes
<1> HIDE DEF n
<1>4. BlockHashes(p) = [i \in 1 .. n |-> BlockHash(p, i)]
  BY DEF BlockHashes, n
<1> QED
  BY <1>2, <1>3, <1>4

LEMMA InitEstablishesBMInv == BMInit => BMInv
<1> SUFFICES ASSUME BMInit PROVE BMInv
  OBVIOUS
<1>1. BMTypeOK
  BY DEF BMInit, AllocatorInit, BMTypeOK, AllocatorTypeOK
<1>2. \A b \in Blocks : References(b) = {}
  BY DEF BMInit, References, Entries
<1>3. ReferencesFinite /\ RefCountsExact /\ FreeIffUnreferenced
  BY <1>2, FS_EmptySet
     DEF BMInit, AllocatorInit, ReferencesFinite, RefCountsExact, FreeIffUnreferenced
<1> QED
  BY <1>1, <1>3 DEF BMInv

(* allocate_for_seq() on a sequence that has no table yet. *)
LEMMA AllocateForSeqKeepsBMInv ==
  ASSUME BMInv, NEW s \in Seqs, NEW p \in Prompts,
         tables[s] = <<>>, AllocateForSeq(s, p)
  PROVE  BMInv'
<1> PICK k \in 0 .. Len(BlockHashes(p)) :
      /\ Matches(p, k)
      /\ IncrementRefs([i \in 1 .. k |-> cache[BlockHashes(p)[i]]])
      /\ tables' = [tables EXCEPT ![s] = [i \in 1 .. k |-> cache[BlockHashes(p)[i]]]]
      /\ hashes' = IF EnablePrefixCaching
                   THEN [hashes EXCEPT ![s] = BlockHashes(p)]
                   ELSE hashes
      /\ UNCHANGED cache
  BY DEF AllocateForSeq
<1> DEFINE t == [i \in 1 .. k |-> cache[BlockHashes(p)[i]]]
<1>1. \A i \in 1 .. k : cache[BlockHashes(p)[i]] \in {b \in Blocks : ref[b] > 0}
  <2>1. \A i \in 1 .. k : Hit(BlockHashes(p)[i])
    BY DEF Matches
  <2>2. \A i \in 1 .. k : BlockHashes(p)[i] \in Hashes
    BY BlockHashesType
  <2> QED
    BY <2>1, <2>2 DEF Hit, BMInv, BMTypeOK
<1>2. t \in Seq(Blocks)
  BY <1>1, BlockHashesType
<1>3. ref' \in [Blocks -> Nat] /\ free' \in [Blocks -> BOOLEAN]
  <2>1. ref \in [Blocks -> Nat] /\ free \in [Blocks -> BOOLEAN]
    BY DEF BMInv, BMTypeOK, AllocatorTypeOK
  <2>2. /\ ref' = [b \in Blocks |-> ref[b] + Occurrences(t)[b]]
        /\ free' = free
    BY DEF IncrementRefs
  <2> HIDE DEF t
  <2>3. \A b \in Blocks : Occurrences(t)[b] \in Nat
    BY <1>2, OccurrencesType
  <2> QED
    BY <2>1, <2>2, <2>3
<1>4. \A b \in Blocks : Occurrences(t)[b] > 0 => ref[b] > 0
  <2> SUFFICES ASSUME NEW b \in Blocks, ~ (ref[b] > 0)
               PROVE  ~ (Occurrences(t)[b] > 0)
    OBVIOUS
  <2>1. {i \in DOMAIN t : t[i] = b} = {}
    BY <1>1
  <2> HIDE DEF t
  <2>2. Occurrences(t)[b] = Cardinality({i \in DOMAIN t : t[i] = b})
    BY DEF Occurrences
  <2>3. Occurrences(t)[b] = 0
    BY <2>1, <2>2, FS_EmptySet
  <2> QED
    BY <2>3
<1>5. BMTypeOK'
  BY <1>2, <1>3, BlockHashesType DEF BMInv, BMTypeOK, AllocatorTypeOK
<1>6. FreeIffUnreferenced'
  <2> SUFFICES ASSUME NEW b \in Blocks PROVE free'[b] <=> ref'[b] = 0
    BY DEF FreeIffUnreferenced
  <2>1. ref'[b] = ref[b] + Occurrences(t)[b] /\ free'[b] = free[b]
    BY DEF IncrementRefs
  <2>2. free[b] <=> ref[b] = 0
    BY DEF BMInv, FreeIffUnreferenced
  <2>3. ref[b] \in Nat /\ Occurrences(t)[b] \in Nat
    BY <1>2, OccurrencesType DEF BMInv, BMTypeOK, AllocatorTypeOK
  <2> HIDE DEF t
  <2> QED
    BY <1>4, <2>1, <2>2, <2>3
<1>7. \A b \in Blocks :
        ref'[b] = ref[b] - Occurrences(tables[s])[b] + Occurrences(t)[b]
  <2>1. \A b \in Blocks : ref[b] \in Nat /\ Occurrences(t)[b] \in Nat
    BY <1>2, OccurrencesType DEF BMInv, BMTypeOK, AllocatorTypeOK
  <2>2. \A b \in Blocks : ref'[b] = ref[b] + Occurrences(t)[b]
    BY DEF IncrementRefs
  <2> HIDE DEF t
  <2> QED
    BY <2>1, <2>2, OccurrencesEmpty
<1>8. ReferencesFinite' /\ RefCountsExact'
  <2> HIDE DEF t
  <2>1. tables' = [tables EXCEPT ![s] = t]
    BY DEF t
  <2> QED
    BY <1>2, <1>3, <1>6, <1>7, <2>1, CountsFollowTable
<1> QED
  BY <1>5, <1>6, <1>8 DEF BMInv

(* Adding one referenced or fresh block to the end of a table. *)
LEMMA EnsureSharedKeepsBMInv ==
  ASSUME BMInv, NEW s \in Seqs, NEW pos \in Nat, NEW n \in Nat,
         EnsureShared(s, pos, n)
  PROVE  BMInv'
<1> DEFINE c == cache[HashAt(s, pos)]
           t == Append(tables[s], c)
<1>1. HashAt(s, pos) \in Hashes
  <2>1. hashes[s] \in Seq(Hashes)
    BY DEF BMInv, BMTypeOK
  <2>2. pos \div BlockSize < Len(hashes[s])
    BY DEF EnsureShared, CacheHitAt, Cacheable
  <2>3. pos \div BlockSize \in Nat
    BY BlockManagerAssumption
  <2>4. pos \div BlockSize + 1 \in 1 .. Len(hashes[s])
    BY <2>1, <2>2, <2>3
  <2> QED
    BY <2>1, <2>4 DEF HashAt
<1>2. c \in Blocks /\ ref[c] > 0
  BY <1>1 DEF EnsureShared, CacheHitAt, Hit, BMInv, BMTypeOK
<1>3. /\ IncrementRefs(<<c>>)
      /\ tables' = [tables EXCEPT ![s] = t]
      /\ hashes' = hashes /\ cache' = cache
  BY DEF EnsureShared
<1>4. tables[s] \in Seq(Blocks) /\ t \in Seq(Blocks)
  BY <1>2, AppendType DEF BMInv, BMTypeOK
<1>5. \A b \in Blocks : /\ ref[b] \in Nat
                         /\ Occurrences(tables[s])[b] \in Nat
  BY <1>4, OccurrencesType DEF BMInv, BMTypeOK, AllocatorTypeOK
<1>6. \A b \in Blocks :
        Occurrences(t)[b] = Occurrences(tables[s])[b] + (IF b = c THEN 1 ELSE 0)
  BY <1>2, <1>4, OccurrencesAppend
<1> HIDE DEF c, t
<1>7. \A b \in Blocks : Occurrences(<<c>>)[b] = (IF b = c THEN 1 ELSE 0)
  <2> DEFINE e == <<>>
  <2>1. e \in Seq(Blocks) /\ \A b \in Blocks : Occurrences(e)[b] = 0
    BY OccurrencesEmpty
  <2>2. Append(e, c) = <<c>>
    OBVIOUS
  <2> HIDE DEF e
  <2>3. \A b \in Blocks : Occurrences(Append(e, c))[b] =
                            Occurrences(e)[b] + (IF b = c THEN 1 ELSE 0)
    BY <1>2, <2>1, OccurrencesAppend
  <2> QED
    BY <2>1, <2>2, <2>3
<1>8. /\ ref' = [b \in Blocks |-> ref[b] + (IF b = c THEN 1 ELSE 0)]
      /\ free' = free
  BY <1>3, <1>7 DEF IncrementRefs
<1>9. ref' \in [Blocks -> Nat]
  BY <1>5, <1>8
<1>10. FreeIffUnreferenced'
  BY <1>2, <1>5, <1>8 DEF BMInv, FreeIffUnreferenced
<1>11. \A b \in Blocks :
         ref'[b] = ref[b] - Occurrences(tables[s])[b] + Occurrences(t)[b]
  BY <1>5, <1>6, <1>8
<1>12. BMTypeOK'
  BY <1>3, <1>4, <1>8, <1>9 DEF BMInv, BMTypeOK, AllocatorTypeOK
<1> QED
  BY <1>3, <1>4, <1>9, <1>10, <1>11, <1>12, CountsFollowTable DEF BMInv

LEMMA EnsureFreshKeepsBMInv ==
  ASSUME BMInv, NEW s \in Seqs, NEW pos \in Nat, NEW n \in Nat,
         EnsureFresh(s, pos, n)
  PROVE  BMInv'
<1> PICK c \in FreeBlocks :
      /\ Allocate({c})
      /\ tables' = [tables EXCEPT ![s] = Append(@, c)]
      /\ cache' = IF Cacheable(s, pos, n)
                  THEN [cache EXCEPT ![HashAt(s, pos)] = c]
                  ELSE cache
      /\ UNCHANGED hashes
  BY DEF EnsureFresh
<1> DEFINE t == Append(tables[s], c)
<1>1. c \in Blocks /\ free[c] /\ ref[c] = 0
  BY DEF FreeBlocks, BMInv, FreeIffUnreferenced
<1>2. tables' = [tables EXCEPT ![s] = t]
  OBVIOUS
<1>3. tables[s] \in Seq(Blocks) /\ t \in Seq(Blocks)
  BY <1>1, AppendType DEF BMInv, BMTypeOK
<1>4. \A b \in Blocks : /\ ref[b] \in Nat
                         /\ Occurrences(tables[s])[b] \in Nat
  BY <1>3, OccurrencesType DEF BMInv, BMTypeOK, AllocatorTypeOK
<1>5. \A b \in Blocks :
        Occurrences(t)[b] = Occurrences(tables[s])[b] + (IF b = c THEN 1 ELSE 0)
  BY <1>1, <1>3, OccurrencesAppend
<1> HIDE DEF t
<1>6. /\ ref' = [b \in Blocks |-> IF b = c THEN 1 ELSE ref[b]]
      /\ free' = [b \in Blocks |-> free[b] /\ b # c]
  BY DEF Allocate
<1>7. ref' \in [Blocks -> Nat] /\ free' \in [Blocks -> BOOLEAN]
  BY <1>4, <1>6
<1>8. FreeIffUnreferenced'
  <2> SUFFICES ASSUME NEW b \in Blocks PROVE free'[b] <=> ref'[b] = 0
    BY DEF FreeIffUnreferenced
  <2>1. free'[b] <=> free[b] /\ b # c
    BY <1>6
  <2>2. ref'[b] = 0 <=> ref[b] = 0 /\ b # c
    BY <1>6
  <2> QED
    BY <2>1, <2>2 DEF BMInv, FreeIffUnreferenced
<1>9. \A b \in Blocks :
        ref'[b] = ref[b] - Occurrences(tables[s])[b] + Occurrences(t)[b]
  BY <1>1, <1>4, <1>5, <1>6
<1>10. cache' \in [Hashes -> Blocks \cup {NoBlock}]
  BY <1>1 DEF BMInv, BMTypeOK
<1>11. BMTypeOK'
  BY <1>2, <1>3, <1>7, <1>10 DEF BMInv, BMTypeOK, AllocatorTypeOK
<1> QED
  BY <1>2, <1>3, <1>7, <1>8, <1>9, <1>11, CountsFollowTable DEF BMInv

(* free(): no count falls below zero, because a block's references include *)
(* all the entries of the table that is dropped.                           *)
LEMMA FreeSeqKeepsBMInv ==
  ASSUME BMInv, NEW s \in Seqs, FreeSeq(s)
  PROVE  BMInv'
<1>1. tables[s] \in Seq(Blocks) /\ <<>> \in Seq(Blocks)
  BY DEF BMInv, BMTypeOK
<1>2. /\ Free(tables[s])
      /\ tables' = [tables EXCEPT ![s] = <<>>]
      /\ hashes' = [hashes EXCEPT ![s] = <<>>]
      /\ cache' = cache
  BY DEF FreeSeq
<1>3. \A b \in Blocks : /\ ref[b] \in Nat
                         /\ Occurrences(tables[s])[b] \in Nat
                         /\ Occurrences(tables[s])[b] <= ref[b]
  BY <1>1, <1>2, OccurrencesType, ReplaceTable
     DEF BMInv, BMTypeOK, AllocatorTypeOK, RefCountsExact
<1> DEFINE n == Occurrences(tables[s])
<1> HIDE DEF n
<1>4. /\ ref' = [b \in Blocks |-> IF n[b] < ref[b] THEN ref[b] - n[b] ELSE 0]
      /\ free' = [b \in Blocks |-> free[b] \/ (ref[b] > 0 /\ n[b] >= ref[b])]
  BY <1>2 DEF Free, n
<1>5. \A b \in Blocks : ref[b] \in Nat /\ n[b] \in Nat /\ n[b] <= ref[b]
  BY <1>3 DEF n
<1>6. ref' \in [Blocks -> Nat] /\ free' \in [Blocks -> BOOLEAN]
  BY <1>4, <1>5 DEF BMInv, BMTypeOK, AllocatorTypeOK
<1>7. FreeIffUnreferenced'
  <2> SUFFICES ASSUME NEW b \in Blocks PROVE free'[b] <=> ref'[b] = 0
    BY DEF FreeIffUnreferenced
  <2>1. free'[b] <=> free[b] \/ (ref[b] > 0 /\ n[b] >= ref[b])
    BY <1>4
  <2>2. ref'[b] = 0 <=> n[b] >= ref[b]
    BY <1>4, <1>5
  <2>3. free[b] <=> ref[b] = 0
    BY DEF BMInv, FreeIffUnreferenced
  <2>4. ref[b] = 0 => n[b] >= ref[b]
    BY <1>5
  <2>5. ref[b] > 0 \/ ref[b] = 0
    BY <1>5
  <2> QED
    BY <2>1, <2>2, <2>3, <2>4, <2>5
<1>8. \A b \in Blocks : ref'[b] = ref[b] - n[b] + Occurrences(<<>>)[b]
  BY <1>4, <1>5, OccurrencesEmpty
<1>9. BMTypeOK'
  BY <1>1, <1>2, <1>6 DEF BMInv, BMTypeOK, AllocatorTypeOK
<1>10. ReferencesFinite' /\ RefCountsExact'
  <2>1. \A b \in Blocks :
          ref'[b] = ref[b] - Occurrences(tables[s])[b] + Occurrences(<<>>)[b]
    BY <1>8 DEF n
  <2> QED
    BY <1>1, <1>2, <1>6, <1>7, <2>1, CountsFollowTable
<1> QED
  BY <1>7, <1>9, <1>10 DEF BMInv

LEMMA NextKeepsBMInv == BMInv /\ [BMNext]_bmVars => BMInv'
<1> SUFFICES ASSUME BMInv, [BMNext]_bmVars PROVE BMInv'
  OBVIOUS
<1>1. CASE UNCHANGED bmVars
  <2>1. /\ free' = free /\ ref' = ref /\ tables' = tables
        /\ hashes' = hashes /\ cache' = cache
    BY <1>1 DEF bmVars
  <2>2. BMTypeOK'
    BY <2>1 DEF BMInv, BMTypeOK, AllocatorTypeOK
  <2>3. \A b \in Blocks : References(b)' = References(b)
    BY <2>1 DEF References, Entries
  <2>4. ReferencesFinite' /\ RefCountsExact'
    BY <2>1, <2>3 DEF BMInv, ReferencesFinite, RefCountsExact
  <2>5. FreeIffUnreferenced'
    BY <2>1 DEF BMInv, FreeIffUnreferenced
  <2> QED
    BY <2>2, <2>4, <2>5 DEF BMInv
<1>2. CASE BMNext
  <2> PICK s \in Seqs :
        \/ \E p \in Prompts :
             tables[s] = <<>> /\ hashes[s] = <<>> /\ AllocateForSeq(s, p)
        \/ \E pos, n \in 0 .. MaxPosition : EnsureShared(s, pos, n)
        \/ \E pos, n \in 0 .. MaxPosition : EnsureFresh(s, pos, n)
        \/ FreeSeq(s)
    BY <1>2 DEF BMNext
  <2>1. \A i \in 0 .. MaxPosition : i \in Nat
    OBVIOUS
  <2> QED
    BY <2>1, AllocateForSeqKeepsBMInv, EnsureSharedKeepsBMInv,
       EnsureFreshKeepsBMInv, FreeSeqKeepsBMInv
<1> QED
  BY <1>1, <1>2

(* The state of the manager is always of its type. *)
THEOREM BMTypeCorrect == BMSpec => []BMTypeOK
<1>1. BMInv => BMTypeOK
  BY DEF BMInv
<1> QED
  BY <1>1, InitEstablishesBMInv, NextKeepsBMInv, PTL DEF BMSpec

(* A block's count is the number of table entries on it, and it is free *)
(* exactly when there are none, whatever the callers do.                 *)
THEOREM BMRefCountsExact == BMSpec => []RefCountsExact
<1>1. BMInv => RefCountsExact
  BY DEF BMInv
<1> QED
  BY <1>1, InitEstablishesBMInv, NextKeepsBMInv, PTL DEF BMSpec

-----------------------------------------------------------------------------
(***************************************************************************)
(* BlockManager implements BlockOwnership, for any number of blocks and    *)
(* sequences and any prompts: counting references and keeping a free list  *)
(* is a way to grant, share and give up blocks.                            *)
(***************************************************************************)

(* What a reference is: the place of the block in a table. *)
LEMMA IsReference ==
  ASSUME NEW b, NEW h
  PROVE  h \in References(b) <=>
           \E s \in Seqs : \E i \in DOMAIN tables[s] : h = <<s, i>> /\ tables[s][i] = b
  BY DEF References, Entries

LEMMA IsReferenceNext ==
  ASSUME NEW b, NEW h
  PROVE  h \in References(b)' <=>
           \E s \in Seqs : \E i \in DOMAIN tables'[s] : h = <<s, i>> /\ tables'[s][i] = b
  BY DEF References, Entries

LEMMA EntriesOfSeq ==
  ASSUME BMTypeOK, NEW s \in Seqs, NEW i
  PROVE  <<s, i>> \in Ownership!EntriesOf(s) <=> i \in DOMAIN tables[s]
<1>1. tables[s] \in Seq(Blocks)
  BY DEF BMTypeOK
<1>2. <<s, i>> \in Ownership!EntriesOf(s) <=> \E b \in Blocks : <<s, i>> \in References(b)
  BY DEF Ownership!EntriesOf
<1>3. \A b : <<s, i>> \in References(b) <=> i \in DOMAIN tables[s] /\ tables[s][i] = b
  BY IsReference
<1>4. i \in DOMAIN tables[s] => tables[s][i] \in Blocks
  BY <1>1
<1> QED
  BY <1>2, <1>3, <1>4

(* A place in a table holds one block. *)
LEMMA ReferencesDisjoint ==
  ASSUME NEW b, NEW c, b # c
  PROVE  References(b)' \cap References(c)' = {}
<1> SUFFICES ASSUME NEW h, h \in References(b)', h \in References(c)' PROVE FALSE
  OBVIOUS
<1>1. PICK s \in Seqs : \E i \in DOMAIN tables'[s] : h = <<s, i>> /\ tables'[s][i] = b
  BY IsReferenceNext
<1>2. PICK r \in Seqs : \E i \in DOMAIN tables'[r] : h = <<r, i>> /\ tables'[r][i] = c
  BY IsReferenceNext
<1> QED
  BY <1>1, <1>2

(* A block is held when its count is positive, and not when it is free. *)
LEMMA HeldIffCounted ==
  ASSUME BMInv, NEW b \in Blocks
  PROVE  /\ ref[b] > 0 => References(b) # {}
         /\ free[b] => References(b) = {}
<1>1. (free[b] <=> References(b) = {}) /\ (free[b] <=> ref[b] = 0)
  BY DEF BMInv, RefCountsExact, FreeIffUnreferenced
<1> QED
  BY <1>1

(* Tables grow by places on blocks that are held and known: sharing. *)
LEMMA GrowingIsSharing ==
  ASSUME BMInv, NEW s \in Seqs, NEW t \in Seq(Blocks),
         tables' = [tables EXCEPT ![s] = t],
         \A i \in DOMAIN tables[s] : i \in DOMAIN t /\ t[i] = tables[s][i],
         \A i \in DOMAIN t \ DOMAIN tables[s] :
           ref[t[i]] > 0 /\ \E h \in Hashes : cache[h] = t[i],
         cache' = cache
  PROVE  Ownership!Share(s)
<1>1. \A r \in Seqs : tables'[r] = IF r = s THEN t ELSE tables[r]
  BY DEF BMInv, BMTypeOK
<1>2. ASSUME NEW b \in Blocks
      PROVE  References(b) \subseteq References(b)'
  <2> SUFFICES ASSUME NEW h \in References(b) PROVE h \in References(b)'
    OBVIOUS
  <2>1. PICK r \in Seqs : \E i \in DOMAIN tables[r] : h = <<r, i>> /\ tables[r][i] = b
    BY IsReference
  <2> PICK i \in DOMAIN tables[r] : h = <<r, i>> /\ tables[r][i] = b
    BY <2>1
  <2>2. i \in DOMAIN tables'[r] /\ tables'[r][i] = b
    BY <1>1
  <2> QED
    BY <2>2, IsReferenceNext
<1>3. ASSUME NEW b \in Blocks, NEW h \in References(b)' \ References(b)
      PROVE  /\ h[1] = s /\ h \notin Ownership!EntriesOf(s)
             /\ References(b) # {}
             /\ \E k \in Hashes : cache[k] = b
  <2>0. PICK r \in Seqs : \E i \in DOMAIN tables'[r] : h = <<r, i>> /\ tables'[r][i] = b
    BY IsReferenceNext
  <2>1. PICK i \in DOMAIN tables'[r] : h = <<r, i>> /\ tables'[r][i] = b
    BY <2>0
  <2>2. r = s
    BY <1>1, <1>3, <2>1, IsReference
  <2>3. i \in DOMAIN t /\ t[i] = b
    BY <1>1, <2>1, <2>2
  <2>4. i \notin DOMAIN tables[s]
    BY <1>3, <2>1, <2>2, <2>3, IsReference
  <2>5. ref[b] > 0 /\ \E k \in Hashes : cache[k] = b
    BY <2>3, <2>4
  <2>6. h \notin Ownership!EntriesOf(s)
    BY <2>1, <2>2, <2>4, EntriesOfSeq DEF BMInv
  <2> QED
    BY <2>1, <2>2, <2>5, <2>6, HeldIffCounted
<1>4. \A b, c \in Blocks : b # c => References(b)' \cap References(c)' = {}
  BY ReferencesDisjoint
<1> QED
  BY <1>2, <1>3, <1>4 DEF Ownership!Share

(* allocate_for_seq() shares what the probe accepted. *)
LEMMA AllocateForSeqShares ==
  ASSUME BMInv, NEW s \in Seqs, NEW p \in Prompts, tables[s] = <<>>, AllocateForSeq(s, p)
  PROVE  Ownership!Share(s)
<1> PICK k \in 0 .. Len(BlockHashes(p)) :
      /\ Matches(p, k)
      /\ tables' = [tables EXCEPT ![s] = [i \in 1 .. k |-> cache[BlockHashes(p)[i]]]]
      /\ cache' = cache
  BY DEF AllocateForSeq
<1> DEFINE t == [i \in 1 .. k |-> cache[BlockHashes(p)[i]]]
<1>1. ASSUME NEW i \in 1 .. k
      PROVE  /\ BlockHashes(p)[i] \in Hashes /\ Hit(BlockHashes(p)[i])
  <2>1. i \in 1 .. Len(BlockHashes(p))
    BY BlockHashesType
  <2> QED
    BY <2>1, BlockHashesType DEF Matches
<1>2. ASSUME NEW i \in 1 .. k
      PROVE  t[i] \in Blocks /\ ref[t[i]] > 0 /\ \E h \in Hashes : cache[h] = t[i]
  BY <1>1 DEF Hit, BMInv, BMTypeOK
<1>3. t \in Seq(Blocks) /\ DOMAIN t = 1 .. k
  BY <1>2, BlockHashesType
<1>4. tables' = [tables EXCEPT ![s] = t]
  OBVIOUS
<1> HIDE DEF t
<1>5. DOMAIN tables[s] = {}
  OBVIOUS
<1> QED
  BY <1>2, <1>3, <1>4, <1>5, GrowingIsSharing

(* ensure_block() shares the block its cache names ... *)
LEMMA EnsureSharedShares ==
  ASSUME BMInv, NEW s \in Seqs, NEW pos \in Nat, NEW n \in Nat, EnsureShared(s, pos, n)
  PROVE  Ownership!Share(s)
<1> DEFINE c == cache[HashAt(s, pos)]
           t == Append(tables[s], c)
<1>1. HashAt(s, pos) \in Hashes
  <2>1. hashes[s] \in Seq(Hashes) /\ pos \div BlockSize < Len(hashes[s])
    BY DEF BMInv, BMTypeOK, EnsureShared, CacheHitAt, Cacheable
  <2>2. pos \div BlockSize \in Nat
    BY BlockManagerAssumption
  <2>3. pos \div BlockSize + 1 \in 1 .. Len(hashes[s])
    BY <2>1, <2>2
  <2> QED
    BY <2>1, <2>3 DEF HashAt
<1>2. c \in Blocks /\ ref[c] > 0
  BY <1>1 DEF EnsureShared, CacheHitAt, Hit, BMInv, BMTypeOK
<1>3. tables' = [tables EXCEPT ![s] = t] /\ cache' = cache
  BY DEF EnsureShared
<1>4. tables[s] \in Seq(Blocks)
  BY DEF BMInv, BMTypeOK
<1>5. \E h \in Hashes : cache[h] = c
  BY <1>1
<1> HIDE DEF c
<1>6. /\ t \in Seq(Blocks) /\ DOMAIN t = 1 .. Len(tables[s]) + 1
      /\ \A i \in 1 .. Len(tables[s]) : t[i] = tables[s][i]
      /\ t[Len(tables[s]) + 1] = c
  BY <1>2, <1>4, AppendType
<1>7. DOMAIN tables[s] = 1 .. Len(tables[s]) /\ Len(tables[s]) \in Nat
  BY <1>4
<1> HIDE DEF t
<1>8. \A i \in DOMAIN tables[s] : i \in DOMAIN t /\ t[i] = tables[s][i]
  BY <1>6, <1>7
<1>9. \A i \in DOMAIN t \ DOMAIN tables[s] : t[i] = c
  BY <1>6, <1>7
<1> QED
  BY <1>2, <1>3, <1>5, <1>6, <1>8, <1>9, GrowingIsSharing

(* ... or is granted one that nobody holds. *)
LEMMA EnsureFreshGrants ==
  ASSUME BMInv, NEW s \in Seqs, NEW pos \in Nat, NEW n \in Nat, EnsureFresh(s, pos, n)
  PROVE  \E b \in Blocks : Ownership!Grant(s, b)
<1> PICK c \in FreeBlocks :
      /\ tables' = [tables EXCEPT ![s] = Append(@, c)]
      /\ cache' = IF Cacheable(s, pos, n)
                  THEN [cache EXCEPT ![HashAt(s, pos)] = c]
                  ELSE cache
  BY DEF EnsureFresh
<1> DEFINE t == Append(tables[s], c)
           last == Len(tables[s]) + 1
           h == <<s, last>>
<1>1. c \in Blocks /\ References(c) = {}
  BY HeldIffCounted DEF FreeBlocks
<1>2. /\ tables[s] \in Seq(Blocks) /\ DOMAIN tables[s] = 1 .. Len(tables[s])
      /\ Len(tables[s]) \in Nat
  BY DEF BMInv, BMTypeOK
<1>3. /\ DOMAIN t = 1 .. last
      /\ \A i \in DOMAIN tables[s] : t[i] = tables[s][i]
      /\ t[last] = c
  BY <1>1, <1>2, AppendType
<1> HIDE DEF t
<1>4. \A r \in Seqs : tables'[r] = IF r = s THEN t ELSE tables[r]
  BY DEF BMInv, BMTypeOK, t
<1>5. last \notin DOMAIN tables[s] /\ DOMAIN t = DOMAIN tables[s] \cup {last}
  BY <1>2, <1>3
<1> HIDE DEF last
<1>6. ASSUME NEW b \in Blocks, NEW g
      PROVE  g \in References(b)' <=> g \in References(b) \/ (b = c /\ g = h)
  <2>1. ASSUME g \in References(b)'
        PROVE  g \in References(b) \/ (b = c /\ g = h)
    <3>1. PICK r \in Seqs : \E i \in DOMAIN tables'[r] : g = <<r, i>> /\ tables'[r][i] = b
      BY <2>1, IsReferenceNext
    <3>2. PICK i \in DOMAIN tables'[r] : g = <<r, i>> /\ tables'[r][i] = b
      BY <3>1
    <3>3. CASE i \in DOMAIN tables[r]
      <4>1. tables[r][i] = b
        BY <1>3, <1>4, <3>2, <3>3
      <4> QED
        BY <3>2, <3>3, <4>1, IsReference
    <3>4. CASE i \notin DOMAIN tables[r]
      <4>1. r = s
        BY <1>4, <3>2, <3>4
      <4>2. i \in DOMAIN t /\ t[i] = b
        BY <1>4, <3>2, <4>1
      <4>3. i = last
        BY <1>5, <3>4, <4>1, <4>2
      <4> QED
        BY <1>3, <3>2, <4>1, <4>2, <4>3
    <3> QED
      BY <3>3, <3>4
  <2>2. ASSUME g \in References(b)
        PROVE  g \in References(b)'
    <3>1. PICK r \in Seqs : \E i \in DOMAIN tables[r] : g = <<r, i>> /\ tables[r][i] = b
      BY <2>2, IsReference
    <3>2. PICK i \in DOMAIN tables[r] : g = <<r, i>> /\ tables[r][i] = b
      BY <3>1
    <3>3. i \in DOMAIN tables'[r] /\ tables'[r][i] = b
      BY <1>3, <1>4, <1>5, <3>2
    <3> QED
      BY <3>2, <3>3, IsReferenceNext
  <2>3. ASSUME b = c, g = h
        PROVE  g \in References(b)'
    <3>1. last \in DOMAIN tables'[s] /\ tables'[s][last] = c
      BY <1>3, <1>4, <1>5
    <3> QED
      BY <2>3, <3>1, IsReferenceNext
  <2> QED
    BY <2>1, <2>2, <2>3
<1>7. h \in References(c)' /\ h[1] = s
  BY <1>1, <1>6
<1>8. h \notin Ownership!EntriesOf(s)
  BY <1>5, EntriesOfSeq DEF BMInv
<1> HIDE DEF h
<1>9. References(c)' = {h} /\ \A b \in Blocks : b # c => References(b)' = References(b)
  BY <1>1, <1>6
<1>10. [b \in Blocks |-> References(b)]' =
         [[b \in Blocks |-> References(b)] EXCEPT ![c] = {h}]
  BY <1>1, <1>9
<1>11. cache' = cache \/ \E k \in Hashes : cache' = [cache EXCEPT ![k] = c]
  <2>1. CASE Cacheable(s, pos, n)
    <3>1. hashes[s] \in Seq(Hashes) /\ pos \div BlockSize < Len(hashes[s])
      BY <2>1 DEF BMInv, BMTypeOK, Cacheable
    <3>2. pos \div BlockSize \in Nat
      BY BlockManagerAssumption
    <3>3. pos \div BlockSize + 1 \in 1 .. Len(hashes[s])
      BY <3>1, <3>2
    <3>4. HashAt(s, pos) \in Hashes
      BY <3>1, <3>3 DEF HashAt
    <3> QED
      BY <2>1, <3>4
  <2>2. CASE ~ Cacheable(s, pos, n)
    BY <2>2
  <2> QED
    BY <2>1, <2>2
<1>12. Ownership!Grant(s, c)
  BY <1>1, <1>7, <1>8, <1>10, <1>11 DEF Ownership!Grant
<1> QED
  BY <1>1, <1>12

(* free() gives up all that the sequence holds, and nothing else. *)
LEMMA FreeSeqLeaves ==
  ASSUME BMInv, NEW s \in Seqs, FreeSeq(s)
  PROVE  Ownership!Leave(s)
<1>1. tables' = [tables EXCEPT ![s] = <<>>] /\ cache' = cache
  BY DEF FreeSeq
<1>2. \A r \in Seqs : tables'[r] = IF r = s THEN <<>> ELSE tables[r]
  BY <1>1 DEF BMInv, BMTypeOK
<1>3. ASSUME NEW b \in Blocks, NEW g
      PROVE  g \in References(b)' <=> g \in References(b) /\ g[1] # s
  <2>1. ASSUME g \in References(b)'
        PROVE  g \in References(b) /\ g[1] # s
    <3>1. PICK r \in Seqs : \E i \in DOMAIN tables'[r] : g = <<r, i>> /\ tables'[r][i] = b
      BY <2>1, IsReferenceNext
    <3>2. r # s
      BY <1>2, <3>1
    <3>3. \E i \in DOMAIN tables[r] : g = <<r, i>> /\ tables[r][i] = b
      BY <1>2, <3>1, <3>2
    <3> QED
      BY <3>2, <3>3, IsReference
  <2>2. ASSUME g \in References(b), g[1] # s
        PROVE  g \in References(b)'
    <3>1. PICK r \in Seqs : \E i \in DOMAIN tables[r] : g = <<r, i>> /\ tables[r][i] = b
      BY <2>2, IsReference
    <3>2. r # s
      BY <2>2, <3>1
    <3> QED
      BY <1>2, <3>1, <3>2, IsReferenceNext
  <2> QED
    BY <2>1, <2>2
<1>4. \A b \in Blocks : References(b)' = {g \in References(b) : g[1] # s}
  BY <1>3
<1> QED
  BY <1>1, <1>4 DEF Ownership!Leave

LEMMA ManagerStepsAreOwnershipSteps ==
  ASSUME BMInv, [BMNext]_bmVars
  PROVE  [Ownership!Next]_<<[b \in Blocks |-> References(b)], cache>>
<1>1. CASE UNCHANGED bmVars
  <2>1. tables' = tables /\ cache' = cache
    BY <1>1 DEF bmVars
  <2>2. [b \in Blocks |-> References(b)]' = [b \in Blocks |-> References(b)]
    BY <2>1 DEF References, Entries
  <2> QED
    BY <2>1, <2>2
<1>2. CASE BMNext
  <2> PICK s \in Seqs :
        \/ \E p \in Prompts :
             tables[s] = <<>> /\ hashes[s] = <<>> /\ AllocateForSeq(s, p)
        \/ \E pos, n \in 0 .. MaxPosition : EnsureShared(s, pos, n)
        \/ \E pos, n \in 0 .. MaxPosition : EnsureFresh(s, pos, n)
        \/ FreeSeq(s)
    BY <1>2 DEF BMNext
  <2>1. \A i \in 0 .. MaxPosition : i \in Nat
    OBVIOUS
  <2>2. Ownership!Share(s) \/ Ownership!Leave(s) \/ \E b \in Blocks : Ownership!Grant(s, b)
    BY <2>1, AllocateForSeqShares, EnsureSharedShares, EnsureFreshGrants, FreeSeqLeaves
  <2>3. Ownership!Next
    BY <2>2 DEF Ownership!Next
  <2> QED
    BY <2>3
<1> QED
  BY <1>1, <1>2

(* The manager implements what it promises its callers: a block is granted *)
(* only when nobody holds it, shared only while somebody does, and given   *)
(* up with all the blocks of its sequence.                                 *)
THEOREM BMImplementsOwnership == BMSpec => ImplementsOwnership
<1>1. BMInit => Ownership!Init
  <2> SUFFICES ASSUME BMInit PROVE Ownership!Init
    OBVIOUS
  <2>1. \A b \in Blocks : References(b) = {}
    BY DEF BMInit, References, Entries
  <2> QED
    BY <2>1 DEF BMInit, Ownership!Init
<1>2. BMInv /\ [BMNext]_bmVars =>
        [Ownership!Next]_<<[b \in Blocks |-> References(b)], cache>>
  BY ManagerStepsAreOwnershipSteps
<1>3. BMInit => BMInv
  BY InitEstablishesBMInv
<1> QED
  BY <1>1, <1>2, <1>3, NextKeepsBMInv, PTL
     DEF BMSpec, ImplementsOwnership, Ownership!Spec

-----------------------------------------------------------------------------
(* Without prefix caching no hash is kept, so no lookup is ever made. *)
ExclusiveInv ==
  ~ EnablePrefixCaching => BlocksExclusive /\ \A s \in Seqs : hashes[s] = <<>>

(* Tables that lose places, or gain one on a block that nobody holds, stay *)
(* exclusive.                                                              *)
LEMMA FreshIsExclusive ==
  ASSUME BMInv, BlocksExclusive, NEW s \in Seqs, NEW c \in Blocks, free[c],
         tables' = [tables EXCEPT ![s] = Append(@, c)]
  PROVE  BlocksExclusive'
<1> DEFINE last == Len(tables[s]) + 1
<1>1. \A r \in Seqs : \A i \in DOMAIN tables[r] : tables[r][i] # c
  <2>1. References(c) = {}
    BY HeldIffCounted
  <2> QED
    BY <2>1, IsReference
<1>2. /\ tables[s] \in Seq(Blocks) /\ DOMAIN tables[s] = 1 .. Len(tables[s])
      /\ Len(tables[s]) \in Nat
  BY DEF BMInv, BMTypeOK
<1>3. \A r \in Seqs : tables'[r] = IF r = s THEN Append(tables[s], c) ELSE tables[r]
  BY DEF BMInv, BMTypeOK
<1>4. /\ DOMAIN Append(tables[s], c) = 1 .. last
      /\ \A i \in 1 .. Len(tables[s]) : Append(tables[s], c)[i] = tables[s][i]
      /\ Append(tables[s], c)[last] = c
  BY <1>2, AppendType
<1>5. \A r \in Seqs : \A i \in DOMAIN tables'[r] :
        \/ i \in DOMAIN tables[r] /\ tables'[r][i] = tables[r][i]
        \/ r = s /\ i = last /\ tables'[r][i] = c
  BY <1>2, <1>3, <1>4
<1> HIDE DEF last
<1> SUFFICES ASSUME NEW r \in Seqs, NEW q \in Seqs,
                    NEW i \in DOMAIN tables'[r], NEW j \in DOMAIN tables'[q],
                    tables'[r][i] = tables'[q][j]
             PROVE  r = q /\ i = j
  BY DEF BlocksExclusive
<1> QED
  BY <1>1, <1>5 DEF BlocksExclusive

LEMMA NextKeepsExclusiveInv ==
  ASSUME BMInv, ExclusiveInv, [BMNext]_bmVars
  PROVE  ExclusiveInv'
<1> SUFFICES ASSUME ~ EnablePrefixCaching
             PROVE  BlocksExclusive' /\ \A s \in Seqs : hashes'[s] = <<>>
  BY DEF ExclusiveInv
<1>1. BlocksExclusive /\ \A s \in Seqs : hashes[s] = <<>>
  BY DEF ExclusiveInv
<1>2. CASE UNCHANGED bmVars
  BY <1>1, <1>2 DEF bmVars, BlocksExclusive
<1>3. ASSUME NEW s \in Seqs, NEW p \in Prompts, AllocateForSeq(s, p), tables[s] = <<>>
      PROVE  BlocksExclusive' /\ \A r \in Seqs : hashes'[r] = <<>>
  <2>1. PICK k \in 0 .. Len(BlockHashes(p)) :
          /\ Matches(p, k)
          /\ tables' = [tables EXCEPT ![s] = [i \in 1 .. k |-> cache[BlockHashes(p)[i]]]]
    BY <1>3 DEF AllocateForSeq
  <2>2. k = 0
    BY <2>1 DEF Matches
  <2>3. tables' = [tables EXCEPT ![s] = <<>>]
    BY <2>1, <2>2
  <2>4. \A r \in Seqs : tables'[r] = tables[r]
    BY <1>3, <2>3 DEF BMInv, BMTypeOK
  <2>5. hashes' = hashes
    BY <1>3 DEF AllocateForSeq
  <2> QED
    BY <1>1, <2>4, <2>5 DEF BlocksExclusive
<1>4. ASSUME NEW s \in Seqs, NEW pos \in Nat, NEW n \in Nat
      PROVE  ~ CacheHitAt(s, pos, n)
  <2>1. pos \div BlockSize \in Nat
    BY BlockManagerAssumption
  <2> QED
    BY <1>1, <2>1 DEF CacheHitAt, Cacheable
<1>5. ASSUME NEW s \in Seqs, NEW pos \in Nat, NEW n \in Nat, EnsureFresh(s, pos, n)
      PROVE  BlocksExclusive' /\ \A r \in Seqs : hashes'[r] = <<>>
  <2>1. PICK c \in FreeBlocks : tables' = [tables EXCEPT ![s] = Append(@, c)]
    BY <1>5 DEF EnsureFresh
  <2>2. c \in Blocks /\ free[c] /\ hashes' = hashes
    BY <1>5 DEF EnsureFresh, FreeBlocks
  <2> QED
    BY <1>1, <2>1, <2>2, FreshIsExclusive
<1>6. ASSUME NEW s \in Seqs, FreeSeq(s)
      PROVE  BlocksExclusive' /\ \A r \in Seqs : hashes'[r] = <<>>
  <2>1. /\ \A r \in Seqs : tables'[r] = IF r = s THEN <<>> ELSE tables[r]
        /\ \A r \in Seqs : hashes'[r] = <<>>
    BY <1>1, <1>6 DEF FreeSeq, BMInv, BMTypeOK
  <2> QED
    BY <1>1, <2>1 DEF BlocksExclusive
<1>7. \A i \in 0 .. MaxPosition : i \in Nat
  OBVIOUS
<1> QED
  BY <1>2, <1>3, <1>4, <1>5, <1>6, <1>7 DEF BMNext, EnsureShared

(* Without prefix caching no two places of the tables hold the same block. *)
THEOREM BMBlocksExclusive == BMSpec => [](EnablePrefixCaching \/ BlocksExclusive)
<1>1. BMInit => BMInv /\ ExclusiveInv
  BY InitEstablishesBMInv DEF BMInit, ExclusiveInv, BlocksExclusive
<1>2. BMInv /\ ExclusiveInv /\ [BMNext]_bmVars => BMInv' /\ ExclusiveInv'
  BY NextKeepsBMInv, NextKeepsExclusiveInv
<1>3. ExclusiveInv => EnablePrefixCaching \/ BlocksExclusive
  BY DEF ExclusiveInv
<1> QED
  BY <1>1, <1>2, <1>3, PTL DEF BMSpec

-----------------------------------------------------------------------------
(* Positions and blocks. *)

LEMMA BlockSizePositive == BlockSize \in Nat /\ BlockSize >= 1
  BY BlockManagerAssumption

LEMMA TimesMonotone ==
  ASSUME NEW m \in Nat, NEW n \in Nat, m <= n
  PROVE  /\ m * BlockSize \in Nat /\ n * BlockSize \in Nat
         /\ m * BlockSize <= n * BlockSize
         /\ (m + 1) * BlockSize = m * BlockSize + BlockSize
  BY BlockSizePositive

(* The block of a position is one of the first m iff the position is one *)
(* of their m * BlockSize positions.                                      *)
LEMMA BlockOfPosition ==
  ASSUME NEW pos \in Nat, NEW m \in Nat
  PROVE  /\ pos \div BlockSize \in Nat
         /\ pos \div BlockSize < m <=> pos < m * BlockSize
<1> DEFINE q == pos \div BlockSize
           x == pos % BlockSize
<1>1. /\ q \in Nat /\ x \in Nat /\ x < BlockSize
      /\ pos = BlockSize * q + x
  BY BlockSizePositive
<1>2. BlockSize * q = q * BlockSize /\ q * BlockSize \in Nat
  BY <1>1, BlockSizePositive
<1> HIDE DEF q, x
<1>3. CASE q < m
  <2>1. q + 1 <= m /\ q + 1 \in Nat
    BY <1>1, <1>3
  <2>2. q * BlockSize + BlockSize <= m * BlockSize /\ m * BlockSize \in Nat
    BY <1>1, <2>1, TimesMonotone
  <2>3. pos < m * BlockSize
    BY <1>1, <1>2, <2>2, BlockSizePositive
  <2> QED
    BY <1>1, <1>3, <2>3 DEF q
<1>4. CASE ~ (q < m)
  <2>1. m <= q
    BY <1>1, <1>4
  <2>2. m * BlockSize <= q * BlockSize /\ m * BlockSize \in Nat
    BY <1>1, <2>1, TimesMonotone
  <2>3. ~ (pos < m * BlockSize)
    BY <1>1, <1>2, <2>2
  <2> QED
    BY <1>1, <1>4, <2>3 DEF q
<1> QED
  BY <1>3, <1>4

LEMMA BlocksForType ==
  ASSUME NEW n \in Nat
  PROVE  BlocksFor(n) \in Nat
<1>1. n + BlockSize - 1 \in Nat
  BY BlockSizePositive
<1> QED
  BY <1>1, BlockOfPosition DEF BlocksFor

(* n tokens need the blocks of all their positions ... *)
LEMMA BlocksForCovers ==
  ASSUME NEW n \in Nat, NEW pos \in Nat, pos < n
  PROVE  pos \div BlockSize + 1 <= BlocksFor(n)
<1> DEFINE q == pos \div BlockSize
           m == BlocksFor(n)
<1>1. q \in Nat /\ m \in Nat /\ n + BlockSize - 1 \in Nat
  BY BlockOfPosition, BlocksForType, BlockSizePositive
<1>2. q * BlockSize <= pos /\ q * BlockSize \in Nat
  <2>1. ~ (q < q)
    BY <1>1
  <2>2. ~ (pos < q * BlockSize)
    BY <1>1, <2>1, BlockOfPosition
  <2>3. q * BlockSize \in Nat
    BY <1>1, BlockSizePositive
  <2> HIDE DEF q
  <2> QED
    BY <1>1, <2>2, <2>3
<1>3. m = (n + BlockSize - 1) \div BlockSize
  BY DEF BlocksFor
<1> HIDE DEF q, m
<1>4. (q + 1) * BlockSize = q * BlockSize + BlockSize
  BY <1>1, TimesMonotone
<1>5. ~ (n + BlockSize - 1 < (q + 1) * BlockSize)
  BY <1>1, <1>2, <1>4, BlockSizePositive
<1>6. ~ (m < q + 1)
  BY <1>1, <1>3, <1>5, BlockOfPosition
<1> QED
  BY <1>1, <1>6 DEF q, m

(* ... and fewer tokens need no more blocks. *)
LEMMA BlocksForMonotone ==
  ASSUME NEW n \in Nat, NEW l \in Nat, l <= n
  PROVE  BlocksFor(l) <= BlocksFor(n)
<1> DEFINE m == BlocksFor(n)
           k == BlocksFor(l)
<1>1. /\ m \in Nat /\ k \in Nat
      /\ n + BlockSize - 1 \in Nat /\ l + BlockSize - 1 \in Nat
  BY BlocksForType, BlockSizePositive
<1>2. m = (n + BlockSize - 1) \div BlockSize /\ k = (l + BlockSize - 1) \div BlockSize
  BY DEF BlocksFor
<1> HIDE DEF m, k
<1>3. m < m + 1 /\ m + 1 \in Nat /\ (m + 1) * BlockSize \in Nat
  BY <1>1, BlockSizePositive
<1>4. n + BlockSize - 1 < (m + 1) * BlockSize
  BY <1>1, <1>2, <1>3, BlockOfPosition
<1>5. l + BlockSize - 1 < (m + 1) * BlockSize
  BY <1>1, <1>3, <1>4, BlockSizePositive
<1>6. k < m + 1
  BY <1>1, <1>2, <1>3, <1>5, BlockOfPosition
<1> QED
  BY <1>1, <1>6 DEF m, k

(* There is one hash for each block of the prompt. *)
LEMMA BlockHashesLen ==
  ASSUME NEW p \in Prompts
  PROVE  Len(BlockHashes(p)) = BlocksFor(Len(p)) /\ BlocksFor(Len(p)) \in Nat
<1> DEFINE n == BlocksFor(Len(p))
<1>1. n \in Nat
  BY BlocksForType, BlockManagerAssumption
<1>2. BlockHashes(p) = [i \in 1 .. n |-> BlockHash(p, i)]
  BY DEF BlockHashes
<1> HIDE DEF n
<1>3. Len(BlockHashes(p)) = n
  BY <1>1, <1>2
<1> QED
  BY <1>1, <1>3 DEF n

(* A match of k blocks is the only one. *)
LEMMA MatchUnique ==
  ASSUME NEW p \in Prompts, NEW k \in Nat, NEW l \in Nat, Matches(p, k), Matches(p, l)
  PROVE  k = l
<1>1. CASE ~ EnablePrefixCaching
  BY <1>1 DEF Matches
<1>2. CASE EnablePrefixCaching
  <2>1. ASSUME NEW i \in Nat, NEW j \in Nat, Matches(p, i), Matches(p, j)
        PROVE  ~ (i < j)
    <3> SUFFICES ASSUME i < j PROVE FALSE
      OBVIOUS
    <3>1. /\ j <= Len(BlockHashes(p)) /\ Len(BlockHashes(p)) \in Nat
      BY <1>2, <2>1, BlockHashesType DEF Matches
    <3>2. ~ Hit(BlockHashes(p)[i + 1])
      BY <1>2, <2>1, <3>1 DEF Matches
    <3>3. Hit(BlockHashes(p)[i + 1])
      BY <1>2, <2>1 DEF Matches
    <3> QED
      BY <3>2, <3>3
  <2>2. ~ (k < l) /\ ~ (l < k)
    BY <2>1
  <2> QED
    BY <2>2
<1> QED
  BY <1>1, <1>2

=============================================================================
