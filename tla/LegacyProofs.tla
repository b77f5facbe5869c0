---------------------------- MODULE LegacyProofs ----------------------------
(***************************************************************************)
(* QwenExecutor for any number of sequences and blocks and any prompts:    *)
(* its lists follow the allocator; of a sequence that had no call raise,   *)
(* past_key_values is the history but for what a prefix hit skipped, and   *)
(* the mask of a chunk is longer than it by just that.                     *)
(***************************************************************************)
EXTENDS LegacyExecutor, BlockManagerProofs

(* What a call that returns will have computed. *)
Target(s) == IF phase[s] = "prefill" THEN ChunkEnd(s) ELSE DecodePos(s) + 1

Alive(s) == phase[s] \in {"prefill", "running"}

(* The position after the last computed one, by the cursors. *)
Computed(s) ==
  IF phase[s] = "prefill" THEN cursor[s]
  ELSE IF phase[s] = "running" THEN DecodePos(s) ELSE 0

LegacyTypeOK ==
  /\ phase \in [Seqs -> {"new", "prefill", "running", "ended"}]
  /\ prompt \in [Seqs -> Prompts \cup {<<>>}]
  /\ cursor \in [Seqs -> Nat] /\ gen \in [Seqs -> Nat]
  /\ past \in [Seqs -> Seq(Nat)]
  /\ lists \in [Blocks -> Seq(Nat) \cup {Absent}]
  /\ calling \in Seqs \cup {0}
  /\ skipped \in [Seqs -> Nat]
  /\ raised \in SUBSET Seqs

(* A sequence that is not in progress holds nothing; the table of one that *)
(* is covers what it has computed.                                         *)
CoverInv ==
  \A s \in Seqs :
    IF Alive(s)
    THEN /\ prompt[s] \in Prompts
         /\ phase[s] = "prefill" => cursor[s] <= Len(prompt[s])
         /\ phase[s] = "running" => gen[s] > 0
         /\ Computed(s) <= Len(tables[s]) * BlockSize
    ELSE tables[s] = <<>> /\ (phase[s] = "new" => past[s] = <<>>)

(* A call has the positions before it to visit in a row, and its table has *)
(* the blocks of those it has visited.                                     *)
CallInv ==
  calling # 0 =>
    /\ Alive(calling)
    /\ \E low \in 0 .. Target(calling) :
         /\ pending = low .. Target(calling) - 1
         /\ low <= Len(tables[calling]) * BlockSize

(* The positions from one to before another. *)
From(first, next) == [i \in 1 .. next - first |-> first + i - 1]

(* What was fed to the model of a sequence of which no call raised, also in *)
(* the middle of a call.  Only before its first chunk can the cursor be at  *)
(* the end of the prompt.                                                   *)
HistoryInv ==
  \A s \in Seqs \ raised :
    /\ past[s] = From(skipped[s], IF calling = s THEN Target(s) ELSE Reached(s))
    /\ Alive(s) => skipped[s] <= Reached(s)
    /\ phase[s] = "prefill" =>
         ChunkStart(s) = cursor[s] \/ calling = s \/ past[s] = <<>>

LegacyInv ==
  /\ BMInv
  /\ LegacyTypeOK
  /\ ListsMirrorAllocator
  /\ CoverInv
  /\ CallInv
  /\ HistoryInv

-----------------------------------------------------------------------------

LEMMA ChunkTypes ==
  ASSUME BMInv, LegacyTypeOK, CoverInv, NEW s \in Seqs, Alive(s)
  PROVE  /\ Len(prompt[s]) \in Nat /\ cursor[s] \in Nat /\ gen[s] \in Nat
         /\ ChunkStart(s) \in Nat /\ ChunkEnd(s) \in Nat
         /\ ChunkEnd(s) <= Len(prompt[s]) /\ ChunkStart(s) <= ChunkEnd(s)
         /\ phase[s] = "prefill" => ChunkStart(s) <= cursor[s]
         /\ phase[s] = "running" => DecodePos(s) \in Nat
         /\ Target(s) \in Nat /\ Computed(s) \in Nat
         /\ tables[s] \in Seq(Blocks) /\ Len(tables[s]) \in Nat
         /\ Len(tables[s]) * BlockSize \in Nat
         /\ Computed(s) <= Len(tables[s]) * BlockSize
<1>1. /\ phase[s] \in {"prefill", "running"} /\ prompt[s] \in Prompts
      /\ phase[s] = "prefill" => cursor[s] <= Len(prompt[s])
      /\ phase[s] = "running" => gen[s] > 0
      /\ Computed(s) <= Len(tables[s]) * BlockSize
  BY DEF CoverInv, Alive
<1>2. Len(prompt[s]) \in Nat /\ cursor[s] \in Nat /\ gen[s] \in Nat
  BY <1>1, BlockManagerAssumption DEF LegacyTypeOK
<1>3. /\ tables[s] \in Seq(Blocks) /\ Len(tables[s]) \in Nat
      /\ Len(tables[s]) * BlockSize \in Nat
  <2>1. tables[s] \in Seq(Blocks) /\ Len(tables[s]) \in Nat
    BY DEF BMInv, BMTypeOK
  <2> QED
    BY <2>1, TimesMonotone
<1>4. ChunkSize \in Nat \ {0}
  BY LegacyAssumption
<1>5. /\ phase[s] = "prefill" => ChunkStart(s) <= cursor[s]
      /\ ChunkStart(s) \in Nat /\ ChunkEnd(s) \in Nat
      /\ ChunkEnd(s) <= Len(prompt[s]) /\ ChunkStart(s) <= ChunkEnd(s)
  <2> DEFINE n == Len(prompt[s])
             m == cursor[s]
  <2>1. /\ n \in Nat /\ m \in Nat
        /\ phase[s] = "prefill" => m <= n
    BY <1>1, <1>2
  <2>2. /\ ChunkEnd(s) = IF n < m + ChunkSize THEN n ELSE m + ChunkSize
        /\ ChunkStart(s) = IF m < n THEN m
                           ELSE n - (IF ChunkSize < n THEN ChunkSize ELSE n)
    BY DEF ChunkStart, ChunkEnd, Smaller
  <2> HIDE DEF n, m
  <2>3. /\ phase[s] = "prefill" => ChunkStart(s) <= m
        /\ ChunkStart(s) \in Nat /\ ChunkEnd(s) \in Nat
        /\ ChunkEnd(s) <= n /\ ChunkStart(s) <= ChunkEnd(s)
    BY <1>4, <2>1, <2>2
  <2> QED
    BY <2>3 DEF n, m
<1>6. phase[s] = "running" => DecodePos(s) \in Nat
  BY <1>1, <1>2 DEF DecodePos
<1>7. Target(s) \in Nat /\ Computed(s) \in Nat
  BY <1>1, <1>2, <1>5, <1>6 DEF Target, Computed
<1> QED
  BY <1>1, <1>2, <1>3, <1>5, <1>6, <1>7

LEMMA InitEstablishesLegacyInv == LegacyInit => LegacyInv
<1> SUFFICES ASSUME LegacyInit PROVE LegacyInv
  OBVIOUS
<1> USE DEF LegacyInit
<1>1. BMInv
  BY InitEstablishesBMInv
<1>2. LegacyTypeOK
  BY DEF LegacyTypeOK
<1>3. ListsMirrorAllocator
  BY DEF ListsMirrorAllocator, BMInit, AllocatorInit
<1>4. CoverInv /\ CallInv
  BY DEF CoverInv, CallInv, Alive, BMInit
<1>5. HistoryInv
  <2>1. \A s \in Seqs : <<>> = From(skipped[s], Reached(s))
    BY DEF From, Reached
  <2> QED
    BY <2>1, LegacyAssumption DEF HistoryInv, Alive
<1> QED
  BY <1>1, <1>2, <1>3, <1>4, <1>5 DEF LegacyInv

(* A step that leaves a sequence, its table and the call about it alone *)
(* keeps what the invariant says of it.                                  *)
Same(t) ==
  /\ phase'[t] = phase[t] /\ prompt'[t] = prompt[t] /\ cursor'[t] = cursor[t]
  /\ gen'[t] = gen[t] /\ past'[t] = past[t] /\ skipped'[t] = skipped[t]

CoverOf(s) ==
  IF Alive(s)
  THEN /\ prompt[s] \in Prompts
       /\ phase[s] = "prefill" => cursor[s] <= Len(prompt[s])
       /\ phase[s] = "running" => gen[s] > 0
       /\ Computed(s) <= Len(tables[s]) * BlockSize
  ELSE tables[s] = <<>> /\ (phase[s] = "new" => past[s] = <<>>)

HistoryOf(s) ==
  s \in raised \/
    /\ past[s] = From(skipped[s], IF calling = s THEN Target(s) ELSE Reached(s))
    /\ Alive(s) => skipped[s] <= Reached(s)
    /\ phase[s] = "prefill" =>
         ChunkStart(s) = cursor[s] \/ calling = s \/ past[s] = <<>>

LEMMA CoverKept ==
  ASSUME CoverInv, NEW t \in Seqs, Same(t), tables'[t] = tables[t]
  PROVE  CoverOf(t)'
  BY DEF CoverInv, CoverOf, Same, Alive, Computed, DecodePos

LEMMA HistoryKept ==
  ASSUME HistoryInv, NEW t \in Seqs, Same(t), raised \subseteq raised',
         calling' = t <=> calling = t
  PROVE  HistoryOf(t)'
<1>1. /\ ChunkStart(t)' = ChunkStart(t) /\ ChunkEnd(t)' = ChunkEnd(t)
      /\ DecodePos(t)' = DecodePos(t) /\ Alive(t)' = Alive(t)
  BY DEF Same, ChunkStart, ChunkEnd, DecodePos, Alive
<1>2. Reached(t)' = Reached(t) /\ Target(t)' = Target(t)
  BY <1>1 DEF Same, Reached, Target
<1>3. \A m : From(skipped[t], m)' = From(skipped[t], m)
  BY DEF Same, From
<1>4. t \notin raised' => t \notin raised /\ t \in Seqs \ raised
  OBVIOUS
<1> QED
  BY <1>1, <1>2, <1>3, <1>4 DEF Same, HistoryInv, HistoryOf

LEMMA ByCases ==
  ASSUME \A t \in Seqs : CoverOf(t)' /\ HistoryOf(t)'
  PROVE  CoverInv' /\ HistoryInv'
  BY DEF CoverInv, CoverOf, HistoryInv, HistoryOf

(* The caller registers a sequence. *)
LEMMA StartKeeps ==
  ASSUME LegacyInv, NEW s \in Seqs, NEW p \in Prompts, Start(s, p)
  PROVE  LegacyInv'
<1>1. PICK k \in 0 .. Len(p) :
        Matches(p, k) /\ cursor' = [cursor EXCEPT ![s] = CachedTokens(p, k)]
  BY DEF Start
<1>2. PICK l \in 0 .. Len(BlockHashes(p)) :
        /\ Matches(p, l)
        /\ IncrementRefs([i \in 1 .. l |-> cache[BlockHashes(p)[i]]])
        /\ tables' = [tables EXCEPT ![s] = [i \in 1 .. l |-> cache[BlockHashes(p)[i]]]]
  BY DEF Start, AllocateForSeq
<1>3. /\ calling = 0 /\ phase[s] = "new" /\ AllocateForSeq(s, p)
      /\ prompt' = [prompt EXCEPT ![s] = p]
      /\ phase' = [phase EXCEPT ![s] = "prefill"]
      /\ skipped' = [skipped EXCEPT ![s] = ChunkStart(s)']
      /\ UNCHANGED <<gen, past, lists, calling, pending, raised>>
  BY DEF Start
<1>4. /\ LegacyTypeOK /\ BMInv /\ CoverInv /\ HistoryInv /\ ListsMirrorAllocator
      /\ tables \in [Seqs -> Seq(Blocks)]
  BY DEF LegacyInv, BMInv, BMTypeOK
<1>5. tables[s] = <<>> /\ past[s] = <<>>
  BY <1>3, <1>4 DEF CoverInv, Alive
<1>6. BMInv'
  BY <1>3, <1>4, <1>5, AllocateForSeqKeepsBMInv
<1>7. /\ Len(p) \in Nat /\ Len(BlockHashes(p)) \in Nat /\ k \in Nat /\ l \in Nat
      /\ k * BlockSize \in Nat
  <2>1. Len(p) \in Nat
    BY BlockManagerAssumption
  <2>2. Len(BlockHashes(p)) \in Nat
    BY BlockHashesType
  <2> QED
    BY <2>1, <2>2, TimesMonotone
<1>8. k = l
  BY <1>1, <1>2, <1>7, MatchUnique
<1>9. /\ CachedTokens(p, k) \in Nat /\ CachedTokens(p, k) <= Len(p)
      /\ CachedTokens(p, k) <= k * BlockSize
      /\ k = 0 => CachedTokens(p, k) = 0
  BY <1>7, BlockSizePositive DEF CachedTokens, Smaller
<1>10. LegacyTypeOK' /\ ChunkStart(s)' \in Nat
  <2>1. cursor'[s] = CachedTokens(p, k) /\ prompt'[s] = p
    BY <1>1, <1>3, <1>4 DEF LegacyTypeOK
  <2>2. ChunkStart(s)' \in Nat
    BY <1>7, <1>9, <2>1, LegacyAssumption DEF ChunkStart, Smaller
  <2>3. skipped' \in [Seqs -> Nat]
    BY <1>3, <1>4, <2>2 DEF LegacyTypeOK
  <2> QED
    BY <1>1, <1>3, <1>4, <1>9, <2>2, <2>3 DEF LegacyTypeOK
<1>11. ListsMirrorAllocator'
  BY <1>2, <1>3, <1>4 DEF ListsMirrorAllocator, IncrementRefs
<1>12. CallInv'
  BY <1>3 DEF CallInv
<1>13. /\ phase'[s] = "prefill" /\ prompt'[s] = p /\ past'[s] = <<>>
       /\ cursor'[s] = CachedTokens(p, k) /\ Len(tables'[s]) = l
  BY <1>1, <1>2, <1>3, <1>4, <1>5, <1>7 DEF LegacyTypeOK
<1>14. CoverOf(s)'
  BY <1>8, <1>9, <1>13 DEF CoverOf, Alive, Computed
<1>15. HistoryOf(s)'
  <2>1. skipped'[s] = ChunkStart(s)' /\ Reached(s)' = ChunkStart(s)'
    BY <1>3, <1>4, <1>13 DEF LegacyTypeOK, Reached
  <2>2. From(skipped[s], Reached(s))' = <<>>
    BY <1>10, <2>1 DEF From
  <2>3. calling' # s
    BY <1>3, LegacyAssumption
  <2>4. (skipped[s] <= Reached(s))'
    BY <1>10, <2>1
  <2> QED
    BY <1>13, <2>2, <2>3, <2>4 DEF HistoryOf
<1>16. ASSUME NEW t \in Seqs, t # s PROVE Same(t) /\ tables'[t] = tables[t]
  BY <1>1, <1>2, <1>3, <1>4, <1>16 DEF Same, LegacyTypeOK
<1>17. CoverInv' /\ HistoryInv'
  <2>1. raised \subseteq raised' /\ calling' = calling
    BY <1>3
  <2>2. \A t \in Seqs : t # s => CoverOf(t)' /\ HistoryOf(t)'
    BY <1>4, <1>16, <2>1, CoverKept, HistoryKept
  <2> QED
    BY <1>14, <1>15, <2>2, ByCases
<1> QED
  BY <1>6, <1>10, <1>11, <1>12, <1>17 DEF LegacyInv

LEMMA FromIs ==
  ASSUME NEW m \in Nat, NEW n \in Nat, m <= n
  PROVE  /\ From(m, n) \in Seq(Nat) /\ Len(From(m, n)) = n - m
         /\ \A i \in 1 .. n - m : From(m, n)[i] = m + i - 1
<1>1. n - m \in Nat /\ \A i \in 1 .. n - m : m + i - 1 \in Nat
  OBVIOUS
<1> QED
  BY <1>1 DEF From

LEMMA Joined ==
  ASSUME NEW a \in Nat, NEW b \in Nat, NEW c \in Nat, a <= b, b <= c,
         NEW h \in Seq(Nat), NEW g \in Seq(Nat), NEW f \in Seq(Nat),
         Len(h) = b - a, \A i \in 1 .. b - a : h[i] = a + i - 1,
         Len(g) = c - b, \A i \in 1 .. c - b : g[i] = b + i - 1,
         Len(f) = c - a, \A i \in 1 .. c - a : f[i] = a + i - 1
  PROVE  h \o g = f
<1>1. h \o g \in Seq(Nat) /\ Len(h \o g) = c - a
  <2>1. h \o g \in Seq(Nat) /\ Len(h \o g) = Len(h) + Len(g)
    BY ConcatProperties
  <2> QED
    BY <2>1
<1>2. ASSUME NEW i \in 1 .. c - a PROVE (h \o g)[i] = f[i]
  <2>1. i \in 1 .. Len(h) + Len(g) /\ f[i] = a + i - 1
    OBVIOUS
  <2>2. (h \o g)[i] = IF i <= Len(h) THEN h[i] ELSE g[i - Len(h)]
    BY <2>1, ConcatProperties
  <2>3. CASE i <= b - a
    <3>1. i \in 1 .. b - a /\ i <= Len(h)
      BY <2>3
    <3>2. h[i] = a + i - 1
      BY <3>1
    <3> QED
      BY <2>1, <2>2, <3>1, <3>2
  <2>4. CASE ~ (i <= b - a)
    <3>1. PICK j \in 1 .. c - b : i = (b - a) + j
      <4>1. i - (b - a) \in 1 .. c - b /\ i = (b - a) + (i - (b - a))
        BY <2>4
      <4> QED
        BY <4>1
    <3>2. g[j] = b + j - 1
      OBVIOUS
    <3>3. i - Len(h) = j /\ b + j - 1 = a + i - 1
      BY <3>1
    <3> QED
      BY <2>1, <2>2, <2>4, <3>2, <3>3
  <2> QED
    BY <2>3, <2>4
<1>3. Len(h \o g) = Len(f)
  BY <1>1
<1>4. \A i \in 1 .. Len(h \o g) : (h \o g)[i] = f[i]
  BY <1>1, <1>2
<1> QED
  BY <1>1, <1>3, <1>4, SeqEqual

LEMMA RangeOfPositions ==
  ASSUME NEW a \in Nat, NEW b \in Nat, NEW c \in Nat, a <= b, b <= c
  PROVE  From(a, b) \o From(b, c) = From(a, c)
<1>1. a <= c
  OBVIOUS
<1>2. PICK h \in Seq(Nat) :
        h = From(a, b) /\ Len(h) = b - a /\ \A i \in 1 .. b - a : h[i] = a + i - 1
  BY FromIs
<1>3. PICK g \in Seq(Nat) :
        g = From(b, c) /\ Len(g) = c - b /\ \A i \in 1 .. c - b : g[i] = b + i - 1
  BY FromIs
<1>4. PICK f \in Seq(Nat) :
        f = From(a, c) /\ Len(f) = c - a /\ \A i \in 1 .. c - a : f[i] = a + i - 1
  BY <1>1, FromIs
<1>5. h \o g = f
  <2>1. Len(h) = b - a /\ \A i \in 1 .. b - a : h[i] = a + i - 1
    BY <1>2
  <2>2. Len(g) = c - b /\ \A i \in 1 .. c - b : g[i] = b + i - 1
    BY <1>3
  <2>3. Len(f) = c - a /\ \A i \in 1 .. c - a : f[i] = a + i - 1
    BY <1>4
  <2> QED
    BY <2>1, <2>2, <2>3, Joined, ZenonT(40)
<1> QED
  BY <1>2, <1>3, <1>4, <1>5

(* The forward pass of a call. *)
LEMMA CallsKeeps ==
  ASSUME LegacyInv, NEW s \in Seqs, NEW first \in Nat, NEW last \in Int,
         Alive(s), Calls(s, first, last), last + 1 = Target(s), first <= last + 1,
         first <= Computed(s), first = Reached(s)
  PROVE  LegacyInv'
<1>1. /\ calling = 0 /\ calling' = s /\ s # 0
      /\ past' = [past EXCEPT ![s] = @ \o [i \in 1 .. last - first + 1 |-> first + i - 1]]
      /\ pending' = first .. last
      /\ UNCHANGED <<bmVars, phase, prompt, cursor, gen, lists, skipped, raised>>
  BY LegacyAssumption DEF Calls, sequence
<1>2. /\ LegacyTypeOK /\ BMInv /\ CoverInv /\ HistoryInv /\ ListsMirrorAllocator
  BY DEF LegacyInv
<1>3. BMInv'
  BY <1>1, <1>2, NextKeepsBMInv
<1>4. tables' = tables /\ free' = free
  BY <1>1 DEF bmVars
<1> DEFINE g == [i \in 1 .. last - first + 1 |-> first + i - 1]
<1>5. g \in Seq(Nat)
  <2>1. last + 1 \in Nat /\ (last + 1) - first = last - first + 1
    OBVIOUS
  <2>2. g = From(first, last + 1)
    BY <2>1 DEF From
  <2>3. From(first, last + 1) \in Seq(Nat)
    BY <2>1, FromIs
  <2> QED
    BY <2>2, <2>3
<1>6. past[s] \in Seq(Nat) /\ past[s] \o g \in Seq(Nat) /\ past'[s] = past[s] \o g
  <2>1. past[s] \in Seq(Nat) /\ past'[s] = past[s] \o g
    BY <1>1, <1>2 DEF LegacyTypeOK
  <2> HIDE DEF g
  <2> QED
    BY <1>5, <2>1
<1>7. LegacyTypeOK'
  <2>1. past' \in [Seqs -> Seq(Nat)]
    <3> HIDE DEF g
    <3>1. past' = [past EXCEPT ![s] = past[s] \o g]
      BY <1>1 DEF g
    <3> QED
      BY <1>2, <1>6, <3>1 DEF LegacyTypeOK
  <2> QED
    BY <1>1, <1>2, <2>1 DEF LegacyTypeOK
<1>8. ListsMirrorAllocator'
  BY <1>1, <1>2, <1>4 DEF ListsMirrorAllocator
<1>9. Target(s)' = Target(s) /\ Alive(s)' /\ Computed(s) <= Len(tables[s]) * BlockSize
  <2>1. Computed(s) <= Len(tables[s]) * BlockSize
    BY <1>2 DEF CoverInv
  <2>2. Target(s)' = Target(s) /\ Alive(s)'
    BY <1>1 DEF Target, ChunkEnd, DecodePos, Alive
  <2> QED
    BY <2>1, <2>2
<1>10. CallInv'
  <2>1. /\ Computed(s) \in Nat /\ Target(s) \in Nat /\ Len(tables[s]) * BlockSize \in Nat
    BY <1>2, ChunkTypes
  <2>2. first <= Len(tables[s]) * BlockSize /\ first \in 0 .. Target(s)
    BY <1>9, <2>1
  <2>3. pending' = first .. Target(s) - 1
    BY <1>1
  <2> QED
    BY <1>1, <1>4, <1>9, <2>2, <2>3 DEF CallInv
<1>11. CoverInv'
  <2> SUFFICES ASSUME NEW t \in Seqs PROVE CoverOf(t)'
    BY DEF CoverInv, CoverOf
  <2>1. CASE t = s
    BY <1>1, <1>2, <1>4, <2>1 DEF CoverInv, CoverOf, Alive, Computed, DecodePos
  <2>2. CASE t # s
    <3>1. Same(t) /\ tables'[t] = tables[t]
      BY <1>1, <1>2, <1>4, <2>2 DEF Same, LegacyTypeOK
    <3> QED
      BY <1>2, <3>1, CoverKept
  <2> QED
    BY <2>1, <2>2
<1>12. HistoryInv'
  <2> SUFFICES ASSUME NEW t \in Seqs PROVE HistoryOf(t)'
    BY DEF HistoryInv, HistoryOf
  <2>1. CASE t # s
    <3>1. Same(t) /\ (calling' = t <=> calling = t)
      <4>1. Same(t)
        BY <1>1, <1>2, <2>1 DEF Same, LegacyTypeOK
      <4>2. calling' # t /\ calling # t
        BY <1>1, <2>1, LegacyAssumption
      <4> QED
        BY <4>1, <4>2
    <3> QED
      BY <1>1, <1>2, <3>1, HistoryKept
  <2>2. CASE t = s /\ s \notin raised
    <3>1. /\ past[s] = From(skipped[s], first) /\ skipped[s] <= first /\ skipped[s] \in Nat
      <4>1. calling # s
        BY <1>1
      <4> QED
        BY <1>2, <2>2, <4>1 DEF HistoryInv, LegacyTypeOK
    <3>2. past'[s] = From(skipped[s], Target(s))
      <4>1. g = From(first, last + 1)
        <5>1. last + 1 - first = last - first + 1
          OBVIOUS
        <5> QED
          BY <5>1 DEF From
      <4> HIDE DEF g
      <4>2. last + 1 \in Nat
        OBVIOUS
      <4>3. From(skipped[s], first) \o From(first, last + 1) = From(skipped[s], last + 1)
        BY <3>1, <4>2, RangeOfPositions
      <4> QED
        BY <1>6, <3>1, <4>1, <4>3
    <3>3. Reached(s)' = Reached(s) /\ skipped' = skipped
      BY <1>1 DEF Reached, ChunkStart, DecodePos
    <3>4. past'[s] = From(skipped[s], Target(s))'
      BY <1>9, <3>2, <3>3 DEF From
    <3> QED
      BY <1>1, <2>2, <3>1, <3>3, <3>4 DEF HistoryOf
  <2>3. CASE t = s /\ s \in raised
    BY <1>1, <2>3 DEF HistoryOf
  <2> QED
    BY <2>1, <2>2, <2>3
<1> QED
  BY <1>3, <1>7, <1>8, <1>10, <1>11, <1>12 DEF LegacyInv

LEMMA PrefillForwardKeeps ==
  ASSUME LegacyInv, NEW s \in Seqs, PrefillForward(s)
  PROVE  LegacyInv'
<1>1. /\ phase[s] = "prefill" /\ Alive(s) /\ calling = 0
      /\ Calls(s, ChunkStart(s), ChunkEnd(s) - 1)
  BY DEF PrefillForward, Alive, Calls
<1>2. BMInv /\ LegacyTypeOK /\ CoverInv /\ HistoryInv
  BY DEF LegacyInv
<1>3. /\ ChunkStart(s) \in Nat /\ ChunkEnd(s) \in Nat /\ ChunkStart(s) <= ChunkEnd(s)
      /\ ChunkStart(s) <= cursor[s]
  BY <1>1, <1>2, ChunkTypes
<1>4. Target(s) = ChunkEnd(s) /\ Computed(s) = cursor[s]
  BY <1>1 DEF Target, Computed
<1>5. Reached(s) = ChunkStart(s)
  BY <1>1 DEF Reached
<1> DEFINE last == ChunkEnd(s) - 1
<1>6. last \in Int /\ last + 1 = ChunkEnd(s)
  BY <1>3
<1> HIDE DEF last
<1>7. Calls(s, ChunkStart(s), last)
  BY <1>1 DEF last
<1> QED
  BY <1>1, <1>3, <1>4, <1>5, <1>6, <1>7, CallsKeeps

LEMMA DecodeForwardKeeps ==
  ASSUME LegacyInv, NEW s \in Seqs, DecodeForward(s)
  PROVE  LegacyInv'
<1>1. /\ phase[s] = "running" /\ Alive(s)
      /\ Calls(s, DecodePos(s), DecodePos(s))
  BY DEF DecodeForward, Alive
<1>2. BMInv /\ LegacyTypeOK /\ CoverInv
  BY DEF LegacyInv
<1>3. DecodePos(s) \in Nat
  BY <1>1, <1>2, ChunkTypes
<1>4. /\ Target(s) = DecodePos(s) + 1 /\ Computed(s) = DecodePos(s)
      /\ Reached(s) = DecodePos(s)
  BY <1>1 DEF Target, Computed, Reached
<1>5. DecodePos(s) \in Int /\ DecodePos(s) <= DecodePos(s) + 1 /\ DecodePos(s) <= DecodePos(s)
  BY <1>3
<1> QED
  BY <1>1, <1>3, <1>4, <1>5, CallsKeeps

-----------------------------------------------------------------------------
(* The callbacks follow the allocator, whatever it does. *)
LEMMA RecordedMirrors ==
  ASSUME BMInv, BMInv', LegacyTypeOK, ListsMirrorAllocator, NEW b \in Blocks
  PROVE  /\ Recorded(b, lists[b]) \in Seq(Nat) \cup {Absent}
         /\ Recorded(b, lists[b]) = Absent <=> free'[b]
<1>1. <<>> \in Seq(Nat) /\ Absent # <<>>
  <2>1. <<>> \in Seq(Nat)
    OBVIOUS
  <2> QED
    BY <2>1, LegacyAssumption
<1>2. free[b] \in BOOLEAN /\ free'[b] \in BOOLEAN
  BY DEF BMInv, BMTypeOK, AllocatorTypeOK
<1>3. lists[b] \in Seq(Nat) \cup {Absent} /\ (lists[b] = Absent <=> free[b])
  BY DEF LegacyTypeOK, ListsMirrorAllocator
<1> QED
  BY <1>1, <1>2, <1>3 DEF Recorded

(* The block of a position that the table covers is in use. *)
LEMMA CoveredBlock ==
  ASSUME BMInv', NEW s \in Seqs, NEW pos \in Nat, pos \div BlockSize < Len(tables'[s])
  PROVE  LET b == tables'[s][pos \div BlockSize + 1] IN b \in Blocks /\ ~ free'[b]
<1> DEFINE i == pos \div BlockSize + 1
<1>1. tables'[s] \in Seq(Blocks) /\ Len(tables'[s]) \in Nat
  BY DEF BMInv, BMTypeOK
<1>2. pos \div BlockSize \in Nat
  BY TimesMonotone, BlockOfPosition
<1>3. i \in DOMAIN tables'[s]
  BY <1>1, <1>2
<1> HIDE DEF i
<1> PICK b \in Blocks : b = tables'[s][i]
  BY <1>1, <1>3
<1>4. <<s, i>> \in References(b)'
  BY <1>3, IsReferenceNext
<1>5. free'[b] <=> References(b)' = {}
  BY DEF BMInv, RefCountsExact
<1> QED
  BY <1>4, <1>5 DEF i

(* ensure_block() and the entry of a position. *)
LEMMA TrackKeeps ==
  ASSUME LegacyInv, NEW s \in Seqs, Track(s)
  PROVE  LegacyInv'
<1>1. PICK pos \in pending :
        /\ \A q \in pending : pos <= q
        /\ \/ EnsureShared(s, pos, Len(prompt[s]))
           \/ EnsureFresh(s, pos, Len(prompt[s]))
           \/ ~ Missing(s, pos) /\ UNCHANGED bmVars
        /\ lists' = [b \in Blocks |->
                       IF b = tables'[s][pos \div BlockSize + 1]
                       THEN Append(Recorded(b, lists[b]), pos)
                       ELSE Recorded(b, lists[b])]
        /\ pending' = pending \ {pos}
  BY DEF Track
<1>2. /\ calling = s /\ calling' = s /\ s # 0
      /\ UNCHANGED <<phase, prompt, cursor, gen, past, skipped, raised>>
  BY LegacyAssumption DEF Track, sequence
<1>3. /\ LegacyTypeOK /\ BMInv /\ CoverInv /\ HistoryInv /\ ListsMirrorAllocator /\ CallInv
      /\ Alive(s)
  BY <1>2 DEF LegacyInv, CallInv
<1>4. /\ tables[s] \in Seq(Blocks) /\ Len(tables[s]) \in Nat /\ Target(s) \in Nat
      /\ Len(tables[s]) * BlockSize \in Nat /\ Len(prompt[s]) \in Nat
      /\ Computed(s) \in Nat /\ Computed(s) <= Len(tables[s]) * BlockSize
  BY <1>3, ChunkTypes
<1>5. PICK low \in 0 .. Target(s) :
        /\ pending = low .. Target(s) - 1
        /\ low <= Len(tables[s]) * BlockSize
  BY <1>2, <1>3 DEF CallInv
<1>6. pos = low /\ pos \in Nat /\ pos + 1 \in 0 .. Target(s)
      /\ pending' = pos + 1 .. Target(s) - 1
  BY <1>1, <1>4, <1>5
<1>7. BMInv'
  <2>1. CASE EnsureShared(s, pos, Len(prompt[s]))
    BY <1>3, <1>4, <1>6, <2>1, EnsureSharedKeepsBMInv
  <2>2. CASE EnsureFresh(s, pos, Len(prompt[s]))
    BY <1>3, <1>4, <1>6, <2>2, EnsureFreshKeepsBMInv
  <2>3. CASE UNCHANGED bmVars
    BY <1>3, <2>3, NextKeepsBMInv
  <2> QED
    BY <1>1, <2>1, <2>2, <2>3
<1>8. /\ \A t \in Seqs : t # s => tables'[t] = tables[t]
      /\ Len(tables'[s]) \in Nat /\ Len(tables[s]) <= Len(tables'[s])
      /\ pos \div BlockSize < Len(tables'[s])
  <2>1. pos \div BlockSize \in Nat /\ pos \div BlockSize <= Len(tables[s])
    <3>1. pos < (Len(tables[s]) + 1) * BlockSize
      <4> DEFINE held == Len(tables[s]) * BlockSize
      <4>1. held \in Nat /\ (Len(tables[s]) + 1) * BlockSize = held + BlockSize
        <5>1. \A m \in Nat : (m + 1) * BlockSize = m * BlockSize + BlockSize
          BY TimesMonotone
        <5> QED
          BY <1>4, <5>1
      <4>2. pos <= held /\ pos \in Nat
        BY <1>5, <1>6
      <4> HIDE DEF held
      <4> QED
        BY <4>1, <4>2, BlockSizePositive
    <3>2. pos \div BlockSize \in Nat /\ pos \div BlockSize < Len(tables[s]) + 1
      <4>1. /\ pos \div BlockSize \in Nat
            /\ \A m \in Nat : pos < m * BlockSize => pos \div BlockSize < m
        BY <1>6, BlockOfPosition
      <4>2. Len(tables[s]) + 1 \in Nat
        BY <1>4
      <4> QED
        BY <3>1, <4>1, <4>2
    <3> DEFINE blocks == Len(tables[s])
               at == pos \div BlockSize
    <3>3. blocks \in Nat /\ at \in Nat /\ at < blocks + 1
      BY <1>4, <3>2
    <3> HIDE DEF blocks, at
    <3>4. at <= blocks
      BY <3>3
    <3> QED
      BY <3>3, <3>4 DEF blocks, at
  <2>2. CASE ~ Missing(s, pos) /\ UNCHANGED bmVars
    BY <1>4, <2>1, <2>2 DEF Missing, bmVars
  <2>3. ASSUME NEW b \in Blocks, tables' = [tables EXCEPT ![s] = Append(@, b)],
               tables \in [Seqs -> Seq(Blocks)]
        PROVE  /\ \A t \in Seqs : t # s => tables'[t] = tables[t]
               /\ Len(tables'[s]) = Len(tables[s]) + 1
    BY <2>3
  <2>4. tables \in [Seqs -> Seq(Blocks)]
    BY <1>3 DEF BMInv, BMTypeOK
  <2>5. CASE EnsureShared(s, pos, Len(prompt[s]))
    <3>1. PICK b : tables' = [tables EXCEPT ![s] = Append(@, b)] /\ b \in Blocks
      <4>1. HashAt(s, pos) \in Hashes /\ Hit(HashAt(s, pos))
        <5>1. /\ pos \div BlockSize < Len(hashes[s]) /\ hashes[s] \in Seq(Hashes)
              /\ Hit(HashAt(s, pos))
          BY <1>3, <2>5 DEF EnsureShared, CacheHitAt, Cacheable, BMInv, BMTypeOK
        <5>2. pos \div BlockSize + 1 \in 1 .. Len(hashes[s])
          BY <2>1, <5>1
        <5> QED
          BY <5>1, <5>2 DEF HashAt
      <4>2. cache[HashAt(s, pos)] \in Blocks
        BY <1>3, <4>1 DEF Hit, BMInv, BMTypeOK
      <4> QED
        BY <2>5, <4>2 DEF EnsureShared
    <3> QED
      BY <1>4, <2>1, <2>3, <2>4, <3>1
  <2>6. CASE EnsureFresh(s, pos, Len(prompt[s]))
    <3>1. PICK b \in FreeBlocks : tables' = [tables EXCEPT ![s] = Append(@, b)]
      BY <2>6 DEF EnsureFresh
    <3>2. b \in Blocks
      BY DEF FreeBlocks
    <3> QED
      BY <1>4, <2>1, <2>3, <2>4, <3>1, <3>2
  <2> QED
    BY <1>1, <2>2, <2>5, <2>6
<1> DEFINE b0 == tables'[s][pos \div BlockSize + 1]
<1>9. b0 \in Blocks /\ ~ free'[b0]
  BY <1>6, <1>7, <1>8, CoveredBlock
<1> HIDE DEF b0
<1>10. lists' = [b \in Blocks |-> IF b = b0 THEN Append(Recorded(b, lists[b]), pos)
                                  ELSE Recorded(b, lists[b])]
  BY <1>1 DEF b0
<1>11. ASSUME NEW b \in Blocks
       PROVE  /\ lists'[b] \in Seq(Nat) \cup {Absent}
              /\ lists'[b] = Absent <=> free'[b]
  <2>1. /\ Recorded(b, lists[b]) \in Seq(Nat) \cup {Absent}
        /\ Recorded(b, lists[b]) = Absent <=> free'[b]
    BY <1>3, <1>7, RecordedMirrors
  <2>2. CASE b # b0
    BY <1>10, <2>1, <2>2
  <2>3. CASE b = b0
    <3>1. Recorded(b, lists[b]) \in Seq(Nat)
      BY <1>9, <2>1, <2>3
    <3>2. Append(Recorded(b, lists[b]), pos) \in Seq(Nat)
      BY <1>6, <3>1
    <3> QED
      BY <1>9, <1>10, <2>3, <3>2, LegacyAssumption
  <2> QED
    BY <2>2, <2>3
<1>12. LegacyTypeOK' /\ ListsMirrorAllocator'
  <2>1. lists' \in [Blocks -> Seq(Nat) \cup {Absent}]
    BY <1>10, <1>11
  <2> QED
    BY <1>2, <1>3, <1>11, <2>1 DEF LegacyTypeOK, ListsMirrorAllocator
<1>13. Target(s)' = Target(s) /\ Alive(s)' /\ Computed(s)' = Computed(s)
  BY <1>2, <1>3 DEF Target, ChunkEnd, DecodePos, Alive, Computed
<1>14. /\ Len(tables[s]) * BlockSize <= Len(tables'[s]) * BlockSize
       /\ Len(tables'[s]) * BlockSize \in Nat
       /\ pos + 1 <= Len(tables'[s]) * BlockSize
  <2>1. pos < Len(tables'[s]) * BlockSize
    BY <1>6, <1>8, BlockOfPosition
  <2>2. /\ Len(tables[s]) * BlockSize <= Len(tables'[s]) * BlockSize
        /\ Len(tables'[s]) * BlockSize \in Nat
    BY <1>4, <1>8, TimesMonotone
  <2> QED
    BY <1>6, <2>1, <2>2
<1>15. CallInv'
  BY <1>2, <1>6, <1>13, <1>14 DEF CallInv
<1>16. \A t \in Seqs : Same(t)
  BY <1>2 DEF Same
<1>17. CoverOf(s)'
  <2>1. Computed(s)' <= Len(tables'[s]) * BlockSize
    BY <1>4, <1>13, <1>14
  <2> QED
    BY <1>2, <1>3, <1>13, <2>1 DEF CoverInv, CoverOf, Alive
<1>18. CoverInv' /\ HistoryInv'
  <2>1. raised \subseteq raised' /\ calling' = calling
    BY <1>2
  <2>2. \A t \in Seqs : HistoryOf(t)'
    BY <1>3, <1>16, <2>1, HistoryKept
  <2>3. \A t \in Seqs : t # s => CoverOf(t)'
    BY <1>3, <1>8, <1>16, CoverKept
  <2> QED
    BY <1>17, <2>2, <2>3, ByCases
<1> QED
  BY <1>7, <1>12, <1>15, <1>18 DEF LegacyInv

-----------------------------------------------------------------------------

LEMMA CallRaisesKeeps ==
  ASSUME LegacyInv, NEW s \in Seqs, CallRaises(s)
  PROVE  LegacyInv'
<1>1. /\ calling = s /\ calling' = 0 /\ raised' = raised \cup {s}
      /\ UNCHANGED <<bmVars, phase, prompt, cursor, gen, past, lists, skipped>>
  BY DEF CallRaises, sequence
<1>2. /\ LegacyTypeOK /\ BMInv /\ CoverInv /\ HistoryInv /\ ListsMirrorAllocator
  BY DEF LegacyInv
<1>3. BMInv'
  BY <1>1, <1>2, NextKeepsBMInv
<1>4. LegacyTypeOK' /\ ListsMirrorAllocator' /\ CallInv'
  BY <1>1, <1>2 DEF LegacyTypeOK, ListsMirrorAllocator, CallInv, bmVars
<1>5. \A t \in Seqs : Same(t) /\ tables'[t] = tables[t]
  BY <1>1 DEF Same, bmVars
<1>6. \A t \in Seqs : t # s => (calling' = t <=> calling = t)
  BY <1>1, LegacyAssumption
<1>7. HistoryOf(s)'
  BY <1>1 DEF HistoryOf
<1>8. CoverInv' /\ HistoryInv'
  <2>1. raised \subseteq raised'
    BY <1>1
  <2>2. \A t \in Seqs : CoverOf(t)'
    BY <1>2, <1>5, CoverKept
  <2>3. \A t \in Seqs : t # s => HistoryOf(t)'
    BY <1>2, <1>5, <1>6, <2>1, HistoryKept
  <2> QED
    BY <1>7, <2>2, <2>3, ByCases
<1> QED
  BY <1>3, <1>4, <1>8 DEF LegacyInv

LEMMA CallReturnsKeeps ==
  ASSUME LegacyInv, NEW s \in Seqs, CallReturns(s)
  PROVE  LegacyInv'
<1>1. /\ calling = s /\ pending = {} /\ calling' = 0
      /\ UNCHANGED <<bmVars, prompt, past, lists, pending, skipped, raised>>
      /\ IF phase[s] = "prefill"
         THEN /\ cursor' = [cursor EXCEPT ![s] = ChunkEnd(s)]
              /\ IF ChunkEnd(s) >= Len(prompt[s])
                 THEN /\ gen' = [gen EXCEPT ![s] = 1]
                      /\ phase' = [phase EXCEPT ![s] = "running"]
                 ELSE UNCHANGED <<gen, phase>>
         ELSE gen' = [gen EXCEPT ![s] = gen[s] + 1] /\ UNCHANGED <<cursor, phase>>
  BY DEF CallReturns
<1>2. /\ LegacyTypeOK /\ BMInv /\ CoverInv /\ HistoryInv /\ ListsMirrorAllocator /\ CallInv
  BY DEF LegacyInv
<1>3. calling # 0 /\ Alive(s)
  BY <1>1, <1>2, LegacyAssumption DEF CallInv
<1>4. BMInv' /\ tables' = tables /\ free' = free
  BY <1>1, <1>2, NextKeepsBMInv DEF bmVars
<1>5. /\ Len(prompt[s]) \in Nat /\ cursor[s] \in Nat /\ gen[s] \in Nat
      /\ ChunkEnd(s) \in Nat /\ ChunkEnd(s) <= Len(prompt[s])
      /\ Target(s) \in Nat /\ Len(tables[s]) * BlockSize \in Nat
  BY <1>2, <1>3, ChunkTypes
<1>6. Target(s) <= Len(tables[s]) * BlockSize
  <2>1. PICK low \in 0 .. Target(s) :
          /\ pending = low .. Target(s) - 1
          /\ low <= Len(tables[s]) * BlockSize
    BY <1>1, <1>2, <1>3 DEF CallInv
  <2>2. ~ (low <= Target(s) - 1)
    BY <1>1, <1>5, <2>1
  <2> QED
    BY <1>5, <2>1, <2>2
<1>7. LegacyTypeOK' /\ ListsMirrorAllocator' /\ CallInv'
  <2>1. cursor' \in [Seqs -> Nat]
    BY <1>1, <1>2, <1>5 DEF LegacyTypeOK
  <2>2. gen' \in [Seqs -> Nat] /\ phase' \in [Seqs -> {"new", "prefill", "running", "ended"}]
    <3>1. \/ gen' = gen \/ gen' = [gen EXCEPT ![s] = 1]
          \/ gen' = [gen EXCEPT ![s] = gen[s] + 1]
      BY <1>1
    <3>2. phase' = phase \/ phase' = [phase EXCEPT ![s] = "running"]
      BY <1>1
    <3>3. 1 \in Nat /\ gen[s] + 1 \in Nat
      BY <1>5
    <3> QED
      BY <1>2, <3>1, <3>2, <3>3 DEF LegacyTypeOK
  <2>3. LegacyTypeOK' /\ CallInv'
    BY <1>1, <1>2, <2>1, <2>2 DEF LegacyTypeOK, CallInv
  <2>4. ListsMirrorAllocator'
    BY <1>1, <1>2, <1>4 DEF ListsMirrorAllocator
  <2> QED
    BY <2>3, <2>4
<1>8. /\ prompt[s] \in Prompts /\ phase[s] \in {"prefill", "running"}
      /\ phase[s] = "running" => gen[s] > 0
  BY <1>2, <1>3 DEF CoverInv, Alive
<1>9. Computed(s)' = Target(s) /\ Alive(s)'
  BY <1>1, <1>2, <1>5, <1>8
     DEF Computed, Target, DecodePos, Alive, LegacyTypeOK
<1>10. CoverOf(s)'
  <2>1. /\ phase'[s] = "prefill" => cursor'[s] <= Len(prompt'[s])
        /\ phase'[s] = "running" => gen'[s] > 0
    BY <1>1, <1>2, <1>5, <1>8 DEF LegacyTypeOK
  <2> QED
    BY <1>1, <1>4, <1>6, <1>8, <1>9, <2>1 DEF CoverOf
<1>11. HistoryOf(s)'
  <2>1. CASE s \in raised
    BY <1>1, <2>1 DEF HistoryOf
  <2>2. CASE s \notin raised
    <3>1. /\ past[s] = From(skipped[s], Target(s)) /\ skipped[s] <= Reached(s)
          /\ skipped[s] \in Nat
      BY <1>1, <1>2, <1>3, <2>2 DEF HistoryInv, LegacyTypeOK
    <3>2. phase'[s] = "prefill" => ChunkStart(s)' = cursor'[s]
      BY <1>1, <1>2, <1>5, <1>8 DEF ChunkStart, LegacyTypeOK
    <3>3. Reached(s)' = Target(s)
      BY <1>9, <3>2 DEF Reached, Computed
    <3>4. Reached(s) \in Nat /\ Reached(s) <= Target(s)
      <4>1. phase[s] = "prefill" => ChunkStart(s) \in Nat /\ ChunkStart(s) <= ChunkEnd(s)
        BY <1>2, <1>3, ChunkTypes
      <4>2. phase[s] = "running" => DecodePos(s) \in Nat
        BY <1>2, <1>3, ChunkTypes
      <4> QED
        BY <1>8, <4>1, <4>2 DEF Reached, Target
    <3>5. calling' # s /\ skipped' = skipped
      BY <1>1, <1>3
    <3>6. past'[s] = From(skipped[s], Reached(s))' /\ (skipped[s] <= Reached(s))'
      BY <1>1, <1>5, <3>1, <3>3, <3>4, <3>5 DEF From
    <3> QED
      BY <3>2, <3>5, <3>6 DEF HistoryOf
  <2> QED
    BY <2>1, <2>2
<1>12. ASSUME NEW t \in Seqs, t # s
       PROVE  Same(t) /\ tables'[t] = tables[t] /\ (calling' = t <=> calling = t)
  <2>1. Same(t)
    BY <1>1, <1>2, <1>8, <1>12 DEF Same, LegacyTypeOK
  <2>2. calling' # t /\ calling # t
    BY <1>1, <1>12, LegacyAssumption
  <2> QED
    BY <1>4, <2>1, <2>2
<1>13. CoverInv' /\ HistoryInv'
  <2>1. raised \subseteq raised'
    BY <1>1
  <2>2. \A t \in Seqs : t # s => CoverOf(t)' /\ HistoryOf(t)'
    BY <1>2, <1>12, <2>1, CoverKept, HistoryKept
  <2> QED
    BY <1>10, <1>11, <2>2, ByCases
<1> QED
  BY <1>4, <1>7, <1>13 DEF LegacyInv

LEMMA EndKeeps ==
  ASSUME LegacyInv, NEW s \in Seqs, End(s)
  PROVE  LegacyInv'
<1>1. /\ calling = 0 /\ FreeSeq(s)
      /\ lists' = [b \in Blocks |-> Recorded(b, lists[b])]
      /\ past' = [past EXCEPT ![s] = <<>>]
      /\ phase' = [phase EXCEPT ![s] = "ended"]
      /\ UNCHANGED <<prompt, cursor, gen, calling, pending, skipped, raised>>
  BY DEF End
<1>2. /\ LegacyTypeOK /\ BMInv /\ CoverInv /\ HistoryInv /\ ListsMirrorAllocator
      /\ tables' = [tables EXCEPT ![s] = <<>>] /\ tables \in [Seqs -> Seq(Blocks)]
  BY <1>1 DEF LegacyInv, FreeSeq, BMInv, BMTypeOK
<1>3. BMInv'
  BY <1>1, <1>2, FreeSeqKeepsBMInv
<1>4. \A b \in Blocks : /\ lists'[b] \in Seq(Nat) \cup {Absent}
                        /\ lists'[b] = Absent <=> free'[b]
  BY <1>1, <1>2, <1>3, RecordedMirrors
<1>5. LegacyTypeOK' /\ ListsMirrorAllocator'
  <2>1. lists' \in [Blocks -> Seq(Nat) \cup {Absent}]
    BY <1>1, <1>4
  <2>2. past' \in [Seqs -> Seq(Nat)]
    <3>1. <<>> \in Seq(Nat)
      OBVIOUS
    <3> QED
      BY <1>1, <1>2, <3>1 DEF LegacyTypeOK
  <2> QED
    BY <1>1, <1>2, <1>4, <2>1, <2>2 DEF LegacyTypeOK, ListsMirrorAllocator
<1>6. CallInv'
  BY <1>1 DEF CallInv
<1>7. phase'[s] = "ended" /\ past'[s] = <<>> /\ tables'[s] = <<>> /\ calling' # s
  BY <1>1, <1>2, LegacyAssumption DEF LegacyTypeOK
<1>8. CoverOf(s)' /\ HistoryOf(s)'
  <2>1. CoverOf(s)'
    BY <1>7 DEF CoverOf, Alive
  <2>2. <<>> = From(skipped[s], Reached(s))'
    <3>1. skipped'[s] \in Nat /\ Reached(s)' = 0
      BY <1>1, <1>2, <1>7 DEF LegacyTypeOK, Reached
    <3>2. 1 .. 0 - skipped'[s] = {}
      BY <3>1
    <3> QED
      BY <3>1, <3>2 DEF From
  <2> QED
    BY <1>7, <2>1, <2>2 DEF HistoryOf, Alive
<1>9. ASSUME NEW t \in Seqs, t # s PROVE Same(t) /\ tables'[t] = tables[t]
  BY <1>1, <1>2, <1>9 DEF Same, LegacyTypeOK
<1>10. CoverInv' /\ HistoryInv'
  <2>1. raised \subseteq raised' /\ calling' = calling
    BY <1>1
  <2>2. \A t \in Seqs : t # s => CoverOf(t)' /\ HistoryOf(t)'
    BY <1>2, <1>9, <2>1, CoverKept, HistoryKept
  <2> QED
    BY <1>8, <2>2, ByCases
<1> QED
  BY <1>3, <1>5, <1>6, <1>10 DEF LegacyInv

LEMMA NextKeepsLegacyInv == LegacyInv /\ [LegacyNext]_legacyVars => LegacyInv'
<1> SUFFICES ASSUME LegacyInv, [LegacyNext]_legacyVars PROVE LegacyInv'
  OBVIOUS
<1>1. CASE UNCHANGED legacyVars
  <2>1. /\ UNCHANGED <<bmVars, phase, prompt, cursor, gen, past, lists, calling,
                       pending, skipped, raised>>
    BY <1>1 DEF legacyVars, sequence
  <2>2. BMInv'
    BY <2>1, NextKeepsBMInv DEF LegacyInv
  <2>3. LegacyTypeOK' /\ ListsMirrorAllocator' /\ CallInv'
    <3>1. LegacyTypeOK' /\ ListsMirrorAllocator'
      BY <2>1 DEF LegacyInv, LegacyTypeOK, ListsMirrorAllocator, bmVars
    <3>2. Alive(calling)' = Alive(calling) /\ Target(calling)' = Target(calling)
      BY <2>1 DEF Alive, Target, ChunkEnd, DecodePos
    <3>3. pending' = pending /\ tables' = tables /\ calling' = calling
      BY <2>1 DEF bmVars
    <3>4. CallInv'
      BY <3>2, <3>3 DEF LegacyInv, CallInv
    <3> QED
      BY <3>1, <3>4
  <2>4. \A t \in Seqs : CoverOf(t)' /\ HistoryOf(t)'
    <3>1. \A t \in Seqs : Same(t) /\ tables'[t] = tables[t]
      BY <2>1 DEF Same, bmVars
    <3>2. raised \subseteq raised' /\ calling' = calling
      BY <2>1
    <3> QED
      BY <3>1, <3>2, CoverKept, HistoryKept DEF LegacyInv
  <2> QED
    BY <2>2, <2>3, <2>4, ByCases DEF LegacyInv
<1>2. CASE LegacyNext
  <2> PICK s \in Seqs :
        \/ \E p \in Prompts : Start(s, p)
        \/ PrefillForward(s) \/ DecodeForward(s)
        \/ Track(s) \/ CallRaises(s) \/ CallReturns(s)
        \/ End(s)
    BY <1>2 DEF LegacyNext
  <2> QED
    BY StartKeeps, PrefillForwardKeeps, DecodeForwardKeeps, TrackKeeps,
       CallRaisesKeeps, CallReturnsKeeps, EndKeeps
<1> QED
  BY <1>1, <1>2

LEMMA LegacyInvHolds == LegacySpec => []LegacyInv
  BY InitEstablishesLegacyInv, NextKeepsLegacyInv, PTL DEF LegacySpec

(* The executor has a list for exactly the blocks in use. *)
THEOREM LegacyListsMirrorAllocator == LegacySpec => []ListsMirrorAllocator
<1>1. LegacyInv => ListsMirrorAllocator
  BY DEF LegacyInv
<1> QED
  BY <1>1, LegacyInvHolds, PTL

(* Between two calls past_key_values is the history of every sequence of   *)
(* which no call raised, from the first position that was fed.              *)
THEOREM LegacyPastIsHistory == LegacySpec => []PastIsHistory
<1>1. LegacyInv => PastIsHistory
  <2> SUFFICES ASSUME LegacyInv, calling = 0, NEW s \in Seqs \ raised
               PROVE  past[s] = [i \in 1 .. Reached(s) - skipped[s] |-> skipped[s] + i - 1]
    BY DEF PastIsHistory
  <2>1. calling # s
    BY LegacyAssumption
  <2> QED
    BY <2>1 DEF LegacyInv, HistoryInv, From
<1> QED
  BY <1>1, LegacyInvHolds, PTL

(* The mask that goes with a later chunk has one place for each position  *)
(* fed before, each position of the chunk and each that a hit skipped.     *)
THEOREM LegacyMaskCoversPast == LegacySpec => MaskCoversPast
<1>1. LegacyInv =>
        \A s \in Seqs \ raised :
          PrefillForward(s) /\ past[s] # <<>> =>
            MaskLength(s) = Len(past'[s]) + skipped[s]
  <2> SUFFICES ASSUME LegacyInv, NEW s \in Seqs \ raised, PrefillForward(s), past[s] # <<>>
               PROVE  MaskLength(s) = Len(past'[s]) + skipped[s]
    OBVIOUS
  <2> DEFINE a == skipped[s]
             b == ChunkStart(s)
             c == ChunkEnd(s)
             g == [i \in 1 .. c - 1 - b + 1 |-> b + i - 1]
  <2>1. /\ phase[s] = "prefill" /\ Alive(s) /\ calling = 0
        /\ past' = [past EXCEPT ![s] = @ \o g]
    BY DEF PrefillForward, Alive, Calls
  <2>2. BMInv /\ LegacyTypeOK /\ CoverInv /\ HistoryInv
    BY DEF LegacyInv
  <2>3. b \in Nat /\ c \in Nat /\ b <= c /\ cursor[s] \in Nat /\ a \in Nat
    BY <2>1, <2>2, ChunkTypes DEF LegacyTypeOK
  <2>4. past[s] = From(a, b) /\ a <= b /\ b = cursor[s]
    <3>1. calling # s
      BY <2>1, LegacyAssumption
    <3> QED
      BY <2>1, <2>2, <3>1 DEF HistoryInv, Reached
  <2>5. g = From(b, c)
    <3>1. c - 1 - b + 1 = c - b
      BY <2>3
    <3> QED
      BY <3>1 DEF From
  <2>6. past'[s] = past[s] \o g
    BY <2>1, <2>2 DEF LegacyTypeOK
  <2>7. MaskLength(s) = cursor[s] + c - b
    BY DEF MaskLength
  <2> HIDE DEF a, b, c, g
  <2>8. Len(past'[s]) = c - a
    <3>1. a <= c
      BY <2>3, <2>4
    <3>2. From(a, b) \o From(b, c) = From(a, c)
      BY <2>3, <2>4, RangeOfPositions
    <3>3. Len(From(a, c)) = c - a
      BY <2>3, <3>1, FromIs
    <3> QED
      BY <2>4, <2>5, <2>6, <3>2, <3>3
  <2>9. MaskLength(s) = Len(past'[s]) + a
    BY <2>3, <2>4, <2>7, <2>8
  <2> QED
    BY <2>9 DEF a
<1> QED
  BY <1>1, LegacyInvHolds, PTL DEF MaskCoversPast

(* However a call ends, the reference counts of its blocks are exact. *)
THEOREM LegacyRefCountsExact == LegacySpec => []RefCountsExact
<1>1. LegacyInv => RefCountsExact
  BY DEF LegacyInv, BMInv
<1> QED
  BY <1>1, LegacyInvHolds, PTL

=============================================================================
