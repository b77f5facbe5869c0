------------------------------ MODULE KVProofs ------------------------------
(***************************************************************************)
(* What the executors keep and compute under the engine's steps, for any   *)
(* number of requests, any prompts, block size and configuration: without  *)
(* prefix caching every position a request has computed keeps its own key  *)
(* and value, the fake executor has a list for exactly the blocks in use,  *)
(* every sampled token reaches its own sequence, and both attention        *)
(* backends compute causal attention for every row of every batch.         *)
(***************************************************************************)
EXTENDS Executors, TablesProofs

KVInv ==
  /\ TablesInv
  /\ ExclusiveInv
  /\ ~ EnablePrefixCaching => KVIntact
  /\ ListsMirrorAllocator
  /\ ListsHoldWrittenPositions
  /\ \A r \in Seqs : status[r] = "RUNNING" => r \in simState

-----------------------------------------------------------------------------
(* Slots. *)

LEMMA SlotInTable ==
  ASSUME NEW t \in Seq(Blocks), NEW pos \in Nat, pos \div BlockSize < Len(t)
  PROVE  /\ pos \div BlockSize + 1 \in DOMAIN t
         /\ t[pos \div BlockSize + 1] \in Blocks
         /\ pos % BlockSize \in Offsets
<1>1. pos \div BlockSize \in Nat /\ pos % BlockSize \in Offsets
  BY BlockSizePositive DEF Offsets
<1>2. Len(t) \in Nat /\ DOMAIN t = 1 .. Len(t)
  OBVIOUS
<1> QED
  BY <1>1, <1>2

(* Two positions with the same slot of an exclusive table are one. *)
LEMMA SlotOfOne ==
  ASSUME BlocksExclusive, NEW r \in Seqs, NEW q \in Seqs,
         tables[r] \in Seq(Blocks), tables[q] \in Seq(Blocks),
         NEW pos \in Nat, NEW p \in Nat,
         HasSlot(r, pos), HasSlot(q, p), Slot(r, pos) = Slot(q, p)
  PROVE  r = q /\ pos = p
<1>1. /\ pos \div BlockSize + 1 \in DOMAIN tables[r]
      /\ p \div BlockSize + 1 \in DOMAIN tables[q]
  BY SlotInTable DEF HasSlot
<1>2. /\ tables[r][pos \div BlockSize + 1] = tables[q][p \div BlockSize + 1]
      /\ pos % BlockSize = p % BlockSize
  BY DEF Slot
<1>3. r = q /\ pos \div BlockSize + 1 = p \div BlockSize + 1
  BY <1>1, <1>2 DEF BlocksExclusive
<1>4. pos \div BlockSize = p \div BlockSize
  BY <1>3, BlockOfPosition
<1>5. /\ pos = BlockSize * (pos \div BlockSize) + (pos % BlockSize)
      /\ p = BlockSize * (p \div BlockSize) + (p % BlockSize)
  BY BlockSizePositive
<1> QED
  BY <1>2, <1>3, <1>4, <1>5

-----------------------------------------------------------------------------
(* A step without a forward pass leaves what a running request has         *)
(* computed, and adds no more than a block to its table; a request that is *)
(* admitted has computed nothing when nothing is shared.                   *)
LEMMA RequestKept ==
  ASSUME TablesInv, TablesInv', ExclusiveInv, [Prepare \/ Calls]_engineVars,
         ~ EnablePrefixCaching, NEW r \in running'
  PROVE  \/ KVLen(r)' = 0 /\ tables'[r] = <<>>
         \/ /\ r \in running
            /\ KVLen(r)' = KVLen(r) /\ prompt'[r] = prompt[r]
            /\ \A i \in DOMAIN tables[r] :
                 i \in DOMAIN tables'[r] /\ tables'[r][i] = tables[r][i]
            /\ \A i \in DOMAIN tables'[r] :
                 i \in DOMAIN tables[r] \/ free[tables'[r][i]]
<1> DEFINE Kept == /\ r \in running
                   /\ KVLen(r)' = KVLen(r) /\ prompt'[r] = prompt[r]
                   /\ \A i \in DOMAIN tables[r] :
                        i \in DOMAIN tables'[r] /\ tables'[r][i] = tables[r][i]
                   /\ \A i \in DOMAIN tables'[r] :
                        i \in DOMAIN tables[r] \/ free[tables'[r][i]]
<1>1. /\ running \subseteq Seqs /\ tables \in [Seqs -> Seq(Blocks)]
      /\ prompt \in [Seqs -> Prompts \cup {<<>>}] /\ cursor \in [Seqs -> Nat]
      /\ status \in [Seqs -> {"NONE"} \cup Live \cup Ended]
  BY DEF TablesInv, SchedInv, EngineInv, BMInv, BMTypeOK, EngineTypeOK
<1>2. ASSUME r \in running, status'[r] = status[r], prompt'[r] = prompt[r],
             cursor'[r] = cursor[r], gen'[r] = gen[r], tables'[r] = tables[r]
      PROVE  Kept
  BY <1>2 DEF KVLen
<1>3. CASE \/ UNCHANGED engineVars \/ StartStep \/ PlanDecode \/ StartAdmission
           \/ \E q \in Seqs : ContinuePrefill(q) \/ Ignore(q) \/ Reject(q) \/ RaiseOOM(q)
  <2>1. UNCHANGED <<running, status, prompt, cursor, gen, tables>>
    BY <1>3 DEF engineVars, StartStep, PlanDecode, StartAdmission, ContinuePrefill,
                Ignore, Reject, RaiseOOM, bmVars, pools, request, progress
  <2> QED
    BY <1>2, <2>1
<1>4. ASSUME NEW p \in Prompts, NEW m \in MaxTokensValues, AddRequest(p, m)
      PROVE  Kept
  <2>1. /\ prompt' = [prompt EXCEPT ![added + 1] = p]
        /\ UNCHANGED <<running, status, cursor, gen, tables>>
    BY <1>4 DEF AddRequest, bmVars, progress
  <2>2. r \in 1 .. added /\ added + 1 \notin 1 .. added
    BY <2>1 DEF TablesInv, SchedInv, EngineInv, PoolsPartition, EngineTypeOK
  <2> QED
    BY <1>1, <1>2, <2>1, <2>2
<1>5. ASSUME NEW q \in Seqs, Cancel(q) \/ TimeOut(q) \/ FinishGroup(q)
      PROVE  Kept
  <2>1. /\ \E how : EndSequence(q, how)
        /\ running' = running \ {q}
        /\ UNCHANGED <<prompt, cursor, gen>>
    BY <1>5 DEF Cancel, TimeOut, FinishGroup, request, progress
  <2>2. r \in running /\ r # q
    BY <2>1
  <2>3. status'[r] = status[r] /\ tables'[r] = tables[r]
    BY <1>1, <2>1, <2>2 DEF EndSequence, FreeSeq, bmVars
  <2> QED
    BY <1>2, <2>1, <2>2, <2>3
<1>6. ASSUME NEW q \in Seqs, EnsureBlock(q)
      PROVE  Kept
  <2>1. UNCHANGED <<running, prompt, status, cursor, gen>>
    BY <1>6 DEF EnsureBlock, pools, request, progress
  <2>2. PICK pos \in Uncovered(q) :
          /\ NextToEnsure(q, pos)
          /\ \/ EnsureShared(q, pos, Len(prompt[q]))
             \/ EnsureFresh(q, pos, Len(prompt[q]))
    BY <1>6 DEF EnsureBlock
  <2>3. PICK b \in FreeBlocks : tables' = [tables EXCEPT ![q] = Append(@, b)]
    <3>1. hashes[q] = <<>> /\ pos \in Nat
      BY <2>2, NextBlockFollows DEF ExclusiveInv
    <3>2. ~ (pos \div BlockSize < Len(hashes[q]))
      BY <3>1, BlockSizePositive
    <3>3. ~ CacheHitAt(q, pos, Len(prompt[q]))
      BY <3>2 DEF CacheHitAt, Cacheable
    <3> QED
      BY <2>2, <3>3 DEF EnsureShared, EnsureFresh
  <2>4. /\ \A i \in DOMAIN tables[r] :
             i \in DOMAIN tables'[r] /\ tables'[r][i] = tables[r][i]
        /\ \A i \in DOMAIN tables'[r] :
             i \in DOMAIN tables[r] \/ free[tables'[r][i]]
    <3>1. b \in Blocks /\ free[b]
      BY DEF FreeBlocks
    <3>2. r \in Seqs /\ tables[r] \in Seq(Blocks)
      BY <1>1, <2>1
    <3>3. tables'[r] = IF r = q THEN Append(tables[r], b) ELSE tables[r]
      BY <1>1, <2>3, <3>2
    <3> QED
      BY <3>1, <3>2, <3>3, AppendType
  <2> QED
    BY <2>1, <2>4 DEF KVLen
<1>7. ASSUME NEW q \in Seqs, Admit(q)
      PROVE  (KVLen(r)' = 0 /\ tables'[r] = <<>>) \/ Kept
  <2>1. PICK k \in 0 .. Len(prompt[q]) :
          /\ Matches(prompt[q], k)
          /\ cursor' = [cursor EXCEPT ![q] = FirstCursor(prompt[q], k)]
    BY <1>7 DEF Admit
  <2>2. /\ status' = [status EXCEPT ![q] = "PREFILL"]
        /\ running' = running \cup {q} /\ UNCHANGED <<prompt, gen>>
        /\ q \in todo /\ pc = "admit"
    BY <1>7 DEF Admit, Oldest, request
  <2>3. CASE r # q
    <3>1. \E t : tables' = [tables EXCEPT ![q] = t]
      BY <1>7 DEF Admit, AllocateForSeq
    <3>2. r \in running
      BY <2>2, <2>3
    <3> QED
      BY <1>1, <1>2, <2>1, <2>2, <2>3, <3>1, <3>2
  <2>4. CASE r = q
    <3>1. Len(prompt[q]) \in Nat \ {0}
      BY <2>2, PoolsAreRequests DEF TablesInv, SchedInv, EngineInv, PlanConsistent
    <3>2. k = 0
      BY <2>1 DEF Matches
    <3>3. CachedTokens(prompt[q], k) = 0
      BY <3>1, <3>2, BlockSizePositive DEF CachedTokens, Smaller
    <3>4. FirstCursor(prompt[q], k) = 0
      BY <3>1, <3>3 DEF FirstCursor, Uncached
    <3>5. cursor'[q] = 0 /\ status'[q] = "PREFILL"
      BY <1>1, <2>1, <2>2, <3>4
    <3>6. tables'[q] = <<>>
      <4>1. \E l \in 0 .. Len(BlockHashes(prompt[q])) :
              /\ Matches(prompt[q], l)
              /\ tables' = [tables EXCEPT ![q] =
                             [i \in 1 .. l |-> cache[BlockHashes(prompt[q])[i]]]]
        BY <1>7 DEF Admit, AllocateForSeq
      <4>2. tables' = [tables EXCEPT ![q] = [i \in 1 .. 0 |-> cache[BlockHashes(prompt[q])[i]]]]
        BY <4>1 DEF Matches
      <4> QED
        BY <1>1, <4>2
    <3> QED
      BY <2>4, <3>5, <3>6 DEF KVLen
  <2> QED
    BY <2>3, <2>4
<1> QED
  BY <1>3, <1>4, <1>5, <1>6, <1>7 DEF Prepare, Calls

LEMMA IdleKeepsKV ==
  ASSUME TablesInv, TablesInv', ExclusiveInv, [Prepare \/ Calls]_engineVars, UNCHANGED kv,
         ~ EnablePrefixCaching, KVIntact
  PROVE  KVIntact'
<1> SUFFICES ASSUME NEW r \in running', NEW pos \in 0 .. KVLen(r)' - 1
             PROVE  HasSlot(r, pos)' /\ Holds(Slot(r, pos))' = Context(r, pos)'
  BY DEF KVIntact
<1>1. KVLen(r)' # 0
  OBVIOUS
<1>2. /\ r \in running
      /\ KVLen(r)' = KVLen(r) /\ prompt'[r] = prompt[r]
      /\ \A i \in DOMAIN tables[r] :
           i \in DOMAIN tables'[r] /\ tables'[r][i] = tables[r][i]
  BY <1>1, RequestKept
<1>3. HasSlot(r, pos) /\ Holds(Slot(r, pos)) = Context(r, pos) /\ pos \in Nat
  BY <1>2 DEF KVIntact
<1>4. tables[r] \in Seq(Blocks) /\ tables'[r] \in Seq(Blocks)
  BY <1>2 DEF TablesInv, SchedInv, EngineInv, BMInv, BMTypeOK, EngineTypeOK
<1> DEFINE i == pos \div BlockSize + 1
<1>5. i \in DOMAIN tables[r] /\ pos \div BlockSize \in Nat
  BY <1>3, <1>4, SlotInTable, BlockOfPosition DEF HasSlot
<1>6. i \in DOMAIN tables'[r] /\ tables'[r][i] = tables[r][i]
  BY <1>2, <1>5
<1>7. HasSlot(r, pos)'
  BY <1>4, <1>5, <1>6 DEF HasSlot
<1>8. Slot(r, pos)' = Slot(r, pos)
  BY <1>6 DEF Slot
<1>9. Context(r, pos)' = Context(r, pos)
  BY <1>2 DEF Context
<1> QED
  BY <1>3, <1>7, <1>8, <1>9 DEF Holds

-----------------------------------------------------------------------------
(* The forward pass. *)

LEMMA ExecuteBuilds == ASSUME Execute PROVE Building
  BY DEF Execute, Building

(* All it writes has its block. *)
LEMMA DueHasSlot ==
  ASSUME TablesInv, Building, NEW r \in schedPrefill \cup schedDecode, NEW pos \in Due(r)
  PROVE  /\ r \in running /\ r \in Seqs /\ pos \in Nat /\ tables[r] \in Seq(Blocks)
         /\ HasSlot(r, pos)
<1>1. r \in running /\ pos \in Nat
  BY DuePositions DEF TablesInv
<1>2. r \in Seqs /\ tables[r] \in Seq(Blocks) /\ Len(tables[r]) \in Nat
  BY <1>1, RunningTypes DEF TablesInv
<1>3. ~ Missing(r, pos)
  BY DEF Building, Uncovered
<1> QED
  BY <1>1, <1>2, <1>3, BlockOfPosition DEF Missing, HasSlot

(* What is due lies right after what a request has computed. *)
LEMMA DueAfterWritten ==
  ASSUME TablesInv, Execute, NEW r \in running
  PROVE  /\ Due(r) = KVLen(r) .. KVLen(r)' - 1
         /\ KVLen(r) \in Nat /\ KVLen(r)' \in Nat /\ KVLen(r) <= KVLen(r)'
<1> DEFINE completes == {q \in schedPrefill : PrefillEnd(q) = Len(prompt[q])}
<1>1. /\ status' = [q \in Seqs |-> IF q \in completes THEN "RUNNING" ELSE status[q]]
      /\ gen' = [q \in Seqs |-> IF q \in completes THEN 1
                                ELSE IF q \in schedDecode THEN gen[q] + 1
                                ELSE gen[q]]
      /\ cursor' = [q \in Seqs |-> IF q \in schedPrefill THEN PrefillEnd(q)
                                   ELSE cursor[q]]
      /\ prompt' = prompt /\ pc = "admit"
  BY DEF Execute, Executing, request
<1>2. /\ r \in Seqs /\ Len(prompt[r]) \in Nat \ {0} /\ cursor[r] \in Nat /\ gen[r] \in Nat
      /\ KVLen(r) \in Nat
      /\ status[r] = "PREFILL" => gen[r] = 0 /\ cursor[r] < Len(prompt[r])
  BY RunningTypes DEF TablesInv
<1>3. r \in schedPrefill \/ r \in schedDecode
  BY <1>1 DEF TablesInv, SchedInv, BudgetInv, Planned
<1>4. CASE r \in schedPrefill
  <2>1. status[r] = "PREFILL"
    BY <1>4, BudgetsType DEF TablesInv, SchedInv
  <2>2. PrefillEnd(r) \in Nat /\ cursor[r] <= PrefillEnd(r)
    BY <1>2, <2>1, LimitsType DEF PrefillEnd, Smaller
  <2>3. KVLen(r)' = PrefillEnd(r)
    <3>1. CASE r \in completes
      BY <1>1, <1>2, <3>1 DEF KVLen
    <3>2. CASE r \notin completes
      BY <1>1, <1>2, <1>4, <2>1, <3>2 DEF KVLen
    <3> QED
      BY <3>1, <3>2
  <2>4. Due(r) = cursor[r] .. PrefillEnd(r) - 1 /\ KVLen(r) = cursor[r]
    BY <1>4, <2>1 DEF Due, KVLen
  <2> QED
    BY <1>2, <2>2, <2>3, <2>4
<1>5. CASE r \notin schedPrefill
  <2>1. status[r] = "RUNNING" /\ r \in schedDecode /\ r \notin completes
    BY <1>3, <1>5, BudgetsType DEF TablesInv, SchedInv
  <2>2. status'[r] = "RUNNING" /\ gen'[r] = gen[r] + 1
    BY <1>1, <1>2, <2>1
  <2>3. KVLen(r)' = Len(prompt[r]) + gen[r] /\ KVLen(r) = Len(prompt[r]) + gen[r] - 1
    BY <1>1, <1>2, <2>1, <2>2 DEF KVLen
  <2>4. Due(r) = {Len(prompt[r]) + gen[r] - 1}
    BY <1>5 DEF Due
  <2> QED
    BY <1>2, <2>3, <2>4
<1> QED
  BY <1>3, <1>4, <1>5

(* Afterwards a request has computed what it had and what was due. *)
LEMMA ComputedAfter ==
  ASSUME TablesInv, Execute, NEW r \in running, NEW pos \in 0 .. KVLen(r)' - 1
  PROVE  /\ r \in schedPrefill \cup schedDecode
         /\ pos \in Due(r) \/ pos \in 0 .. KVLen(r) - 1
<1>1. r \in schedPrefill \cup schedDecode
  BY DEF Execute, Executing, TablesInv, SchedInv, BudgetInv, Planned
<1> QED
  BY <1>1, DueAfterWritten

(* The writers of a slot of r, in exclusive tables. *)
LEMMA WritersOwn ==
  ASSUME TablesInv, BlocksExclusive, Building,
         NEW r \in schedPrefill \cup schedDecode, NEW pos \in Nat, HasSlot(r, pos),
         NEW t \in WritersOf(Slot(r, pos).block, Slot(r, pos).offset)
  PROVE  t = [seq |-> r, pos |-> pos] /\ pos \in Due(r)
<1>1. PICK q \in schedPrefill \cup schedDecode : \E p \in Due(q) : t = [seq |-> q, pos |-> p]
  BY DEF WritersOf, StepTokens
<1>2. PICK p \in Due(q) : t = [seq |-> q, pos |-> p]
  BY <1>1
<1>3. q \in Seqs /\ p \in Nat /\ tables[q] \in Seq(Blocks) /\ HasSlot(q, p)
  BY DueHasSlot
<1>4. r \in Seqs /\ tables[r] \in Seq(Blocks)
  <2>1. r \in running
    BY BudgetsType DEF TablesInv, SchedInv
  <2> QED
    BY <2>1, RunningTypes DEF TablesInv
<1>5. Slot(q, p) = Slot(r, pos)
  <2>1. Slot(t.seq, t.pos) = [block |-> Slot(r, pos).block, offset |-> Slot(r, pos).offset]
    BY DEF WritersOf
  <2> QED
    BY <1>2, <2>1 DEF Slot
<1>6. q = r /\ p = pos
  BY <1>3, <1>4, <1>5, SlotOfOne
<1> QED
  BY <1>2, <1>6

(* When all is written, the slots of r hold its own keys and values up to *)
(* its last position of the step.                                          *)
LEMMA HeldAfterWrite ==
  ASSUME TablesInv, BlocksExclusive, KVIntact, Building,
         NEW r \in schedPrefill \cup schedDecode, NEW pos,
         pos \in Due(r) \/ pos \in 0 .. KVLen(r) - 1
  PROVE  /\ pos \in Nat /\ r \in Seqs /\ tables[r] \in Seq(Blocks) /\ HasSlot(r, pos)
         /\ KVAfterWrite[Slot(r, pos).block][Slot(r, pos).offset] = Context(r, pos)
<1>1. r \in running
  BY BudgetsType DEF TablesInv, SchedInv
<1>2. r \in Seqs /\ tables[r] \in Seq(Blocks) /\ KVLen(r) \in Nat
  BY <1>1, RunningTypes DEF TablesInv
<1>3. pos \in Nat /\ HasSlot(r, pos)
  BY <1>1, <1>2, DueHasSlot DEF KVIntact
<1> DEFINE b == Slot(r, pos).block
           o == Slot(r, pos).offset
           token == [seq |-> r, pos |-> pos]
<1>4. b \in Blocks /\ o \in Offsets /\ Slot(r, pos) = [block |-> b, offset |-> o]
  BY <1>2, <1>3, SlotInTable DEF Slot, HasSlot
<1>5. \A t \in WritersOf(b, o) : t = token /\ pos \in Due(r)
  BY <1>3, WritersOwn
<1> HIDE DEF b, o
<1>6. CASE pos \in Due(r)
  <2>1. token \in WritersOf(b, o)
    BY <1>4, <1>6 DEF WritersOf, StepTokens
  <2>2. WritersOf(b, o) = {token}
    BY <1>5, <2>1
  <2>3. (CHOOSE t \in {token} : \A u \in {token} \ {t} : PackedAfter(t, u)) = token
    OBVIOUS
  <2>4. KVAfterWrite[b][o] = Context(r, pos)
    BY <1>4, <2>2, <2>3 DEF KVAfterWrite
  <2> QED
    BY <1>2, <1>3, <2>4 DEF b, o
<1>7. CASE pos \notin Due(r)
  <2>1. WritersOf(b, o) = {}
    BY <1>5, <1>7
  <2>2. KVAfterWrite[b][o] = kv[b][o]
    BY <1>4, <2>1 DEF KVAfterWrite
  <2>3. Holds(Slot(r, pos)) = Context(r, pos)
    BY <1>1, <1>7 DEF KVIntact
  <2>4. kv[b][o] = Holds(Slot(r, pos))
    BY DEF Holds, b, o
  <2> QED
    BY <1>2, <1>3, <2>2, <2>3, <2>4 DEF b, o
<1> QED
  BY <1>6, <1>7

LEMMA ExecuteKeepsKV ==
  ASSUME TablesInv, BlocksExclusive, KVIntact, Execute, kv' = KVAfterWrite
  PROVE  KVIntact'
<1>1. UNCHANGED <<tables, running, prompt>>
  BY DEF Execute, bmVars, pools, request
<1> SUFFICES ASSUME NEW r \in running, NEW pos \in 0 .. KVLen(r)' - 1
             PROVE  HasSlot(r, pos)' /\ Holds(Slot(r, pos))' = Context(r, pos)'
  BY <1>1 DEF KVIntact
<1>2. /\ r \in schedPrefill \cup schedDecode
      /\ pos \in Due(r) \/ pos \in 0 .. KVLen(r) - 1
  BY ComputedAfter
<1>3. /\ HasSlot(r, pos)
      /\ KVAfterWrite[Slot(r, pos).block][Slot(r, pos).offset] = Context(r, pos)
  BY <1>2, ExecuteBuilds, HeldAfterWrite
<1>4. Slot(r, pos)' = Slot(r, pos) /\ HasSlot(r, pos)' /\ Context(r, pos)' = Context(r, pos)
  BY <1>1, <1>3 DEF Slot, HasSlot, Context
<1> QED
  BY <1>3, <1>4 DEF Holds

-----------------------------------------------------------------------------
(* The fake executor's lists. *)

LEMMA CallbacksMirror ==
  ASSUME ListsMirrorAllocator, Callbacks
  PROVE  ListsMirrorAllocator'
  BY AbsentAssumption DEF ListsMirrorAllocator, Callbacks

(* A step appends only to blocks in use: those of tables. *)
LEMMA AppendsToHeld ==
  ASSUME TablesInv, Execute, NEW b \in Blocks, AppendsTo(b) # {}
  PROVE  ~ free[b] /\ Cardinality(AppendsTo(b)) \in Nat
<1>1. ASSUME NEW r \in schedPrefill \cup schedDecode, NEW pos \in Due(r),
             tables[r][pos \div BlockSize + 1] = b
      PROVE  /\ ~ free[b]
             /\ r \in Seqs /\ pos \in 0 .. MaxPosition
  <2>1. /\ r \in running /\ r \in Seqs /\ pos \in Nat /\ tables[r] \in Seq(Blocks)
        /\ HasSlot(r, pos)
    BY ExecuteBuilds, DueHasSlot
  <2>2. pos \div BlockSize + 1 \in DOMAIN tables[r]
    BY <2>1, SlotInTable DEF HasSlot
  <2>3. <<r, pos \div BlockSize + 1>> \in References(b)
    BY <1>1, <2>1, <2>2, IsReference
  <2>4. ~ free[b]
    BY <2>3, HeldIffCounted DEF TablesInv, SchedInv, EngineInv
  <2>5. pos < Len(prompt[r]) + gen[r]
    BY DuePositions DEF TablesInv
  <2>6. /\ prompt[r] \in Prompts /\ Len(prompt[r]) \in Nat \ {0} /\ gen[r] \in Nat
        /\ status[r] = "PREFILL" => gen[r] = 0
    BY <2>1, RunningTypes DEF TablesInv
  <2>7. maxTokens[r] \in MaxTokensValues \cup {0} /\ maxTokens[r] \in Nat
    BY <2>1, MaxTokensType DEF TablesInv, SchedInv, EngineInv, EngineTypeOK
  <2>8. gen[r] <= maxTokens[r]
    <3>1. r \in schedDecode => gen[r] < maxTokens[r]
      BY DEF TablesInv, SchedInv, OutputInv
    <3>2. r \in schedPrefill => gen[r] = 0
      BY <2>6, BudgetsType DEF TablesInv, SchedInv
    <3> QED
      BY <2>6, <2>7, <3>1, <3>2
  <2>9. Len(prompt[r]) + maxTokens[r] <= MaxPosition
    BY <2>6, <2>7, PositionsAssumption
  <2> QED
    BY <2>1, <2>4, <2>5, <2>6, <2>7, <2>8, <2>9, MaxPositionAssumption
<1>2. \A t \in AppendsTo(b) :
        \E r \in schedPrefill \cup schedDecode : \E pos \in Due(r) :
          t = <<r, pos>> /\ tables[r][pos \div BlockSize + 1] = b
  BY DEF AppendsTo
<1>3. AppendsTo(b) \in SUBSET (Seqs \X (0 .. MaxPosition)) /\ ~ free[b]
  BY <1>1, <1>2
<1>4. IsFiniteSet(Seqs \X (0 .. MaxPosition))
  BY SeqsFinite, FS_Interval, FS_Product, MaxPositionAssumption, 0 \in Int, MaxPosition \in Int
<1> QED
  BY <1>3, <1>4, FS_Subset, FS_CardinalityType

LEMMA RunFakeMirrors ==
  ASSUME TablesInv, Execute, ListsMirrorAllocator, RunFake
  PROVE  ListsMirrorAllocator'
<1>1. free' = free
  BY DEF Execute, bmVars
<1>2. ASSUME NEW b \in Blocks, AppendsTo(b) # {}
      PROVE  stored'[b] \in Nat /\ ~ free[b]
  <2>1. ~ free[b] /\ Cardinality(AppendsTo(b)) \in Nat
    BY <1>2, AppendsToHeld
  <2>2. stored[b] \in Nat
    BY <2>1 DEF ListsMirrorAllocator
  <2>3. stored'[b] = stored[b] + Cardinality(AppendsTo(b))
    BY <1>2 DEF RunFake
  <2> QED
    BY <2>1, <2>2, <2>3
<1>3. ASSUME NEW b \in Blocks, AppendsTo(b) = {}
      PROVE  stored'[b] = stored[b]
  BY <1>3 DEF RunFake
<1> QED
  BY <1>1, <1>2, <1>3 DEF ListsMirrorAllocator

(* Every block of a table is in use. *)
TablesInUse ==
  \A r \in Seqs : \A i \in DOMAIN tables[r] : tables[r][i] \in Blocks /\ ~ free[tables[r][i]]

LEMMA InUse == BMInv => TablesInUse
<1> SUFFICES ASSUME BMInv, NEW r \in Seqs, NEW i \in DOMAIN tables[r]
             PROVE  tables[r][i] \in Blocks /\ ~ free[tables[r][i]]
  BY DEF TablesInUse
<1>1. tables[r][i] \in Blocks
  BY DEF BMInv, BMTypeOK
<1>2. <<r, i>> \in References(tables[r][i])
  BY IsReference
<1> QED
  BY <1>1, <1>2, HeldIffCounted

LEMMA InUseNext == (BMInv => TablesInUse)'
  BY InUse, PTL

(* The positions below n that fall into the i-th block of a table. *)
Written(i, n) == {p \in 0 .. n - 1 : p \div BlockSize + 1 = i}

(* Between forward passes a block that stays keeps its list; one that is   *)
(* taken gets an empty one, and lies beyond all that has been written.     *)
LEMMA IdleKeepsLists ==
  ASSUME TablesInv, TablesInv', ExclusiveInv, [Prepare \/ Calls]_engineVars,
         Callbacks \/ UNCHANGED <<stored, free>>,
         ~ EnablePrefixCaching, ListsHoldWrittenPositions
  PROVE  ListsHoldWrittenPositions'
<1> SUFFICES ASSUME NEW r \in running', NEW i \in DOMAIN tables'[r]
             PROVE  stored'[tables'[r][i]] = Cardinality(Written(i, KVLen(r)'))
  BY DEF ListsHoldWrittenPositions, Written
<1>1. /\ r \in running /\ KVLen(r)' = KVLen(r)
      /\ i \in DOMAIN tables[r] => tables'[r][i] = tables[r][i]
      /\ i \in DOMAIN tables[r] \/ free[tables'[r][i]]
  <2>1. tables'[r] # <<>>
    OBVIOUS
  <2> QED
    BY <2>1, RequestKept
<1>2. r \in Seqs /\ tables'[r] \in Seq(Blocks) /\ Len(tables[r]) \in Nat /\ KVLen(r) \in Nat
      /\ DOMAIN tables[r] = 1 .. Len(tables[r])
  BY <1>1, RunningTypes DEF TablesInv, SchedInv, EngineInv, BMInv, BMTypeOK
<1> DEFINE b == tables'[r][i]
<1>3. b \in Blocks /\ ~ free'[b]
  BY <1>2, InUseNext DEF TablesInv, SchedInv, EngineInv, TablesInUse
<1>4. CASE i \in DOMAIN tables[r]
  <2>1. ~ free[b]
    BY <1>1, <1>2, <1>4, InUse DEF TablesInv, SchedInv, EngineInv, TablesInUse
  <2>2. stored'[b] = stored[b]
    BY <1>3, <2>1 DEF Callbacks
  <2>3. stored[tables[r][i]] = Cardinality(Written(i, KVLen(r)))
    BY <1>1, <1>4 DEF ListsHoldWrittenPositions, Written
  <2> QED
    BY <1>1, <1>4, <2>2, <2>3
<1>5. CASE i \notin DOMAIN tables[r]
  <2>1. free[b]
    BY <1>1, <1>5
  <2>2. stored'[b] = 0
    BY <1>3, <2>1 DEF Callbacks
  <2>3. Written(i, KVLen(r)) = {}
    <3> SUFFICES ASSUME NEW p \in 0 .. KVLen(r) - 1, p \div BlockSize + 1 = i PROVE FALSE
      BY DEF Written
    <3>1. KVLen(r) <= Len(tables[r]) * BlockSize
      BY <1>1 DEF TablesInv, TablesFitSequences
    <3>2. Len(tables[r]) * BlockSize \in Nat
      BY <1>2, BlockSizePositive
    <3>3. p \in Nat /\ p < Len(tables[r]) * BlockSize
      BY <1>2, <3>1, <3>2
    <3>4. p \div BlockSize \in Nat /\ p \div BlockSize < Len(tables[r])
      BY <1>2, <3>3, BlockOfPosition
    <3> QED
      BY <1>2, <1>5, <3>4
  <2>4. Cardinality({}) = 0
    BY FS_EmptySet
  <2> QED
    BY <1>1, <2>2, <2>3, <2>4
<1> QED
  BY <1>4, <1>5

(* The forward pass appends to each block once per new position in it. *)
LEMMA RunFakeWrites ==
  ASSUME TablesInv, BlocksExclusive, Execute, RunFake, ListsMirrorAllocator,
         ~ EnablePrefixCaching, ListsHoldWrittenPositions
  PROVE  ListsHoldWrittenPositions'
<1>1. UNCHANGED <<tables, running>>
  BY DEF Execute, bmVars, pools
<1> SUFFICES ASSUME NEW r \in running, NEW i \in DOMAIN tables[r]
             PROVE  stored'[tables[r][i]] = Cardinality(Written(i, KVLen(r)'))
  BY <1>1 DEF ListsHoldWrittenPositions, Written
<1>2. r \in Seqs /\ tables[r] \in Seq(Blocks)
  BY RunningTypes DEF TablesInv
<1> DEFINE b == tables[r][i]
<1>3. b \in Blocks /\ ~ free[b]
  BY <1>2, InUse DEF TablesInv, SchedInv, EngineInv, TablesInUse
<1>4. stored[b] = Cardinality(Written(i, KVLen(r))) /\ stored[b] \in Nat
  BY <1>3 DEF ListsHoldWrittenPositions, Written, ListsMirrorAllocator
<1>5. /\ Due(r) = KVLen(r) .. KVLen(r)' - 1
      /\ KVLen(r) \in Nat /\ KVLen(r)' \in Nat /\ KVLen(r) <= KVLen(r)'
  BY DueAfterWritten
<1>6. r \in schedPrefill \cup schedDecode
  BY DEF Execute, Executing, TablesInv, SchedInv, BudgetInv, Planned
<1> DEFINE New == {p \in Due(r) : p \div BlockSize + 1 = i}
           Old == Written(i, KVLen(r))
<1>7. AppendsTo(b) = {r} \X New
  <2>1. ASSUME NEW q \in schedPrefill \cup schedDecode, NEW p \in Due(q)
        PROVE  tables[q][p \div BlockSize + 1] = b <=> q = r /\ p \div BlockSize + 1 = i
    <3>1. q \in Seqs /\ p \in Nat /\ tables[q] \in Seq(Blocks) /\ HasSlot(q, p)
      BY ExecuteBuilds, DueHasSlot
    <3>2. p \div BlockSize + 1 \in DOMAIN tables[q]
      BY <3>1, SlotInTable DEF HasSlot
    <3> QED
      BY <1>2, <3>1, <3>2 DEF BlocksExclusive
  <2>2. AppendsTo(b) =
          UNION {{<<q, p>> : p \in {c \in Due(q) : q = r /\ c \div BlockSize + 1 = i}} :
                   q \in schedPrefill \cup schedDecode}
    BY <2>1 DEF AppendsTo
  <2> QED
    BY <1>6, <2>2
<1>8. IsFiniteSet(Old) /\ IsFiniteSet(New) /\ Old \cap New = {}
      /\ Written(i, KVLen(r)') = Old \cup New
  <2>1. IsFiniteSet(0 .. KVLen(r) - 1) /\ IsFiniteSet(0 .. KVLen(r)' - 1)
    <3>1. 0 \in Int /\ KVLen(r) - 1 \in Int /\ KVLen(r)' - 1 \in Int
      BY <1>5
    <3> QED
      BY <3>1, FS_Interval
  <2>2. Old \subseteq 0 .. KVLen(r) - 1 /\ New \subseteq 0 .. KVLen(r)' - 1
    BY <1>5 DEF Written
  <2>3. IsFiniteSet(Old) /\ IsFiniteSet(New)
    BY <2>1, <2>2, FS_Subset
  <2>4. Old \cap New = {}
    BY <1>5 DEF Written
  <2>5. Written(i, KVLen(r)') = Old \cup New
    BY <1>5 DEF Written
  <2> QED
    BY <2>3, <2>4, <2>5
<1> HIDE DEF New, Old, b
<1>9. Cardinality(Old \cup New) = Cardinality(Old) + Cardinality(New)
  <2>1. /\ Cardinality(Old \cup New) =
             Cardinality(Old) + Cardinality(New) - Cardinality(Old \cap New)
        /\ Cardinality(Old) \in Nat /\ Cardinality(New) \in Nat /\ Cardinality({}) = 0
    BY <1>8, FS_Union, FS_EmptySet, FS_CardinalityType
  <2>2. Cardinality(Old \cap New) = 0
    BY <1>8, <2>1
  <2> QED
    BY <2>1, <2>2
<1>10. Cardinality(AppendsTo(b)) = Cardinality(New) /\ Cardinality(New) \in Nat
  <2>1. /\ IsFiniteSet({r}) /\ Cardinality({r}) = 1 /\ Cardinality(New) \in Nat
    BY <1>8, FS_Singleton, FS_CardinalityType
  <2>2. Cardinality({r} \X New) = 1 * Cardinality(New)
    BY <1>8, <2>1, FS_Product
  <2> QED
    BY <1>7, <2>1, <2>2
<1>11. stored'[b] = stored[b] + Cardinality(New)
  <2>1. CASE AppendsTo(b) = {}
    <3>1. Cardinality(New) = 0
      BY <1>10, <2>1, FS_EmptySet
    <3> QED
      BY <1>3, <1>4, <2>1, <3>1 DEF RunFake, b
  <2>2. CASE AppendsTo(b) # {}
    BY <1>3, <1>10, <2>2 DEF RunFake, b
  <2> QED
    BY <2>1, <2>2
<1> QED
  BY <1>4, <1>8, <1>9, <1>11 DEF Old, b

(* A sequence that has begun to decode has been given a token. *)
LEMMA RunningKnown ==
  ASSUME KVInv, [ExecutorsNext]_executorsVars, NEW r \in Seqs, status'[r] = "RUNNING"
  PROVE  r \in simState'
<1>1. CASE Execute /\ RunFake
  <2> DEFINE completes == {q \in schedPrefill : PrefillEnd(q) = Len(prompt[q])}
  <2>1. /\ status' = [q \in Seqs |-> IF q \in completes THEN "RUNNING" ELSE status[q]]
        /\ gen' = [q \in Seqs |-> IF q \in completes THEN 1
                                  ELSE IF q \in schedDecode THEN gen[q] + 1
                                  ELSE gen[q]]
    BY <1>1 DEF Execute
  <2>2. CASE r \in completes
    <3>1. gen[r] = 0
      BY <2>2, BudgetsType DEF KVInv, TablesInv, SchedInv, OutputInv
    <3> QED
      BY <1>1, <2>1, <2>2, <3>1 DEF RunFake
  <2>3. CASE r \notin completes
    BY <1>1, <2>1, <2>3 DEF RunFake, KVInv
  <2> QED
    BY <2>2, <2>3
<1>2. CASE [Prepare \/ Calls]_engineVars /\ UNCHANGED simState
  <2>1. status \in [Seqs -> {"NONE"} \cup Live \cup Ended]
    BY DEF KVInv, TablesInv, SchedInv, EngineInv, EngineTypeOK
  <2>2. ASSUME NEW q \in Seqs, NEW how \in Ended, EndSequence(q, how)
        PROVE  status[r] = "RUNNING"
    BY <2>1, <2>2 DEF EndSequence, Ended
  <2>3. ASSUME NEW q \in Seqs, Cancel(q) \/ TimeOut(q) \/ FinishGroup(q)
        PROVE  status[r] = "RUNNING"
    <3>1. \E how \in Ended : EndSequence(q, how)
      BY <2>3 DEF Cancel, TimeOut, FinishGroup, Ended
    <3> QED
      BY <2>2, <3>1
  <2>4. ASSUME NEW q \in Seqs, Admit(q) PROVE status[r] = "RUNNING"
    BY <2>1, <2>4 DEF Admit
  <2>5. status[r] = "RUNNING"
    BY <1>2, <2>3, <2>4
       DEF Prepare, Calls, engineVars, StartStep, PlanDecode, StartAdmission, AddRequest,
           ContinuePrefill, Ignore, Reject, EnsureBlock, RaiseOOM
  <2> QED
    BY <1>2, <2>5 DEF KVInv
<1> QED
  BY <1>1, <1>2 DEF ExecutorsNext, Callbacks, executorsVars, pagedVars, fakeVars

-----------------------------------------------------------------------------

LEMMA InitEstablishesKVInv == ExecutorsInit => KVInv
<1> SUFFICES ASSUME ExecutorsInit PROVE KVInv
  OBVIOUS
<1>1. EngineInit /\ FakeInit
  BY DEF ExecutorsInit, PagedInit
<1>2. SchedInv /\ running = {} /\ status = [r \in Seqs |-> "NONE"]
  BY <1>1, InitEstablishesSchedInv DEF EngineInit
<1>3. TablesInv
  BY <1>2 DEF TablesInv, TablesFitSequences
<1>4. ExclusiveInv
  BY <1>1 DEF EngineInit, BMInit, ExclusiveInv, BlocksExclusive
<1>5. ListsMirrorAllocator
  BY <1>1, AbsentAssumption
     DEF EngineInit, BMInit, AllocatorInit, FakeInit, ListsMirrorAllocator
<1> QED
  BY <1>2, <1>3, <1>4, <1>5 DEF KVInv, KVIntact, ListsHoldWrittenPositions

LEMMA NextKeepsKVInv == KVInv /\ [ExecutorsNext]_executorsVars => KVInv'
<1> SUFFICES ASSUME KVInv, [ExecutorsNext]_executorsVars PROVE KVInv'
  OBVIOUS
<1>1. \/ Execute /\ kv' = KVAfterWrite /\ RunFake
      \/ [Prepare \/ Calls]_engineVars /\ UNCHANGED kv /\ (Callbacks \/ UNCHANGED <<stored, free>>)
  BY DEF ExecutorsNext, executorsVars, pagedVars, fakeVars, engineVars, bmVars
<1>2. [EngineNext]_engineVars
  BY <1>1 DEF EngineNext, Step
<1>3. TablesInv'
  BY <1>2, NextKeepsTablesInv DEF KVInv
<1>4. ExclusiveInv'
  <2>1. [BMNext]_bmVars
    BY <1>2, EngineStepsAreManagerSteps DEF KVInv
  <2> QED
    BY <2>1, NextKeepsExclusiveInv DEF KVInv, TablesInv, SchedInv, EngineInv
<1>5. ASSUME ~ EnablePrefixCaching PROVE KVIntact'
  BY <1>1, <1>3, <1>5, IdleKeepsKV, ExecuteKeepsKV DEF KVInv, ExclusiveInv
<1>6. ListsMirrorAllocator'
  <2>1. CASE UNCHANGED <<stored, free>>
    BY <2>1 DEF KVInv, ListsMirrorAllocator
  <2> QED
    BY <1>1, <2>1, CallbacksMirror, RunFakeMirrors DEF KVInv
<1>7. ListsHoldWrittenPositions'
  <2>1. CASE EnablePrefixCaching
    BY <2>1 DEF ListsHoldWrittenPositions
  <2>2. CASE ~ EnablePrefixCaching
    BY <1>1, <1>3, <2>2, IdleKeepsLists, RunFakeWrites DEF KVInv, ExclusiveInv
  <2> QED
    BY <2>1, <2>2
<1> QED
  BY <1>3, <1>4, <1>5, <1>6, <1>7, RunningKnown DEF KVInv

LEMMA KVInvHolds == ExecutorsSpec => []KVInv
  BY InitEstablishesKVInv, NextKeepsKVInv, PTL DEF ExecutorsSpec

(* Without prefix caching the KV cache holds, for every request that runs, *)
(* what its own tokens determine at every position it has computed.        *)
THEOREM ExecutorsKVIntact == ExecutorsSpec => [](EnablePrefixCaching \/ KVIntact)
<1>1. KVInv => EnablePrefixCaching \/ KVIntact
  BY DEF KVInv
<1> QED
  BY <1>1, KVInvHolds, PTL

(* The fake executor has a list for exactly the blocks in use. *)
THEOREM ExecutorsListsMirrorAllocator == ExecutorsSpec => []ListsMirrorAllocator
<1>1. KVInv => ListsMirrorAllocator
  BY DEF KVInv
<1> QED
  BY <1>1, KVInvHolds, PTL

(* Without prefix caching each list has one entry for each position of its *)
(* owner that has been computed.                                            *)
THEOREM ExecutorsListsHoldWritten == ExecutorsSpec => []ListsHoldWrittenPositions
<1>1. KVInv => ListsHoldWrittenPositions
  BY DEF KVInv
<1> QED
  BY <1>1, KVInvHolds, PTL

(* A decode finds the last token of its sequence. *)
THEOREM ExecutorsDecodesKnowTheirToken == ExecutorsSpec => []DecodesKnowTheirToken
<1>1. KVInv => DecodesKnowTheirToken
  BY BudgetsType DEF KVInv, TablesInv, SchedInv, EngineInv, EngineTypeOK, DecodesKnowTheirToken
<1> QED
  BY <1>1, KVInvHolds, PTL

-----------------------------------------------------------------------------
(* Lists by increasing key. *)

Ascending(list, S, key) ==
  /\ list \in [1 .. Cardinality(S) -> S]
  /\ \A i, j \in DOMAIN list : i < j => key[list[i]] < key[list[j]]

Distinct(S, key) ==
  /\ IsFiniteSet(S)
  /\ \A s \in S : key[s] \in Nat
  /\ \A s, t \in S : key[s] = key[t] => s = t

(* The least member of a set in front of the list of the others. *)
LEMMA AscendingPrepend ==
  ASSUME NEW S, NEW key, Distinct(S, key), S # {},
         \A m \in S : \E list : Ascending(list, S \ {m}, key)
  PROVE  \E list : Ascending(list, S, key)
<1> DEFINE keys == {key[s] : s \in S}
<1>1. PICK m \in S : \A s \in S : key[m] <= key[s]
  <2>1. keys \subseteq Nat /\ keys # {}
    BY DEF Distinct
  <2>2. PICK k \in keys : \A l \in keys : k <= l
    <3> HIDE DEF keys
    <3> QED
      BY <2>1, NatMin
  <2> QED
    BY <2>2
<1>2. PICK rest : Ascending(rest, S \ {m}, key)
  OBVIOUS
<1> DEFINE n == Cardinality(S)
           list == [i \in 1 .. n |-> IF i = 1 THEN m ELSE rest[i - 1]]
<1>3. n \in Nat \ {0} /\ Cardinality(S \ {m}) = n - 1
  BY FS_CardinalityType, FS_RemoveElement, FS_EmptySet DEF Distinct
<1> HIDE DEF n
<1>4. /\ rest \in [1 .. n - 1 -> S \ {m}]
      /\ \A i, j \in 1 .. n - 1 : i < j => key[rest[i]] < key[rest[j]]
  BY <1>2, <1>3 DEF Ascending
<1>5. list \in [1 .. n -> S]
  BY <1>3, <1>4
<1>6. ASSUME NEW i \in 1 .. n, NEW j \in 1 .. n, i < j
      PROVE  key[list[i]] < key[list[j]]
  <2>1. j - 1 \in 1 .. n - 1 /\ list[j] = rest[j - 1]
    BY <1>3, <1>6
  <2>2. CASE i = 1
    <3>1. rest[j - 1] \in S /\ rest[j - 1] # m
      BY <1>4, <2>1
    <3>2. key[m] \in Nat /\ key[rest[j - 1]] \in Nat /\ key[m] # key[rest[j - 1]]
      BY <3>1 DEF Distinct
    <3> QED
      BY <1>1, <2>1, <2>2, <3>1, <3>2
  <2>3. CASE i # 1
    <3>1. i - 1 \in 1 .. n - 1 /\ i - 1 < j - 1 /\ list[i] = rest[i - 1]
      BY <1>3, <1>6, <2>3
    <3> QED
      BY <1>4, <2>1, <3>1
  <2> QED
    BY <2>2, <2>3
<1> QED
  BY <1>5, <1>6 DEF Ascending, n

LEMMA AscendingExists ==
  ASSUME NEW S, NEW key, Distinct(S, key)
  PROVE  \E list : Ascending(list, S, key)
<1> DEFINE Bad == {T \in SUBSET S : ~ \E list : Ascending(list, T, key)}
           Sizes == {Cardinality(T) : T \in Bad}
<1>1. \A T \in SUBSET S : Distinct(T, key) /\ Cardinality(T) \in Nat
  BY FS_Subset, FS_CardinalityType DEF Distinct
<1>2. Bad = {}
  <2> SUFFICES ASSUME Bad # {} PROVE FALSE
    OBVIOUS
  <2>1. Sizes \subseteq Nat /\ Sizes # {}
    BY <1>1
  <2>2. PICK n \in Sizes : \A k \in Sizes : n <= k
    <3> HIDE DEF Sizes
    <3> QED
      BY <2>1, NatMin
  <2>3. PICK T \in Bad : Cardinality(T) = n
    BY <2>2
  <2>4. Distinct(T, key) /\ n \in Nat
    BY <1>1, <2>3
  <2>5. CASE T = {}
    <3>1. Cardinality({}) = 0
      BY FS_EmptySet
    <3>2. Ascending(<<>>, {}, key)
      BY <3>1 DEF Ascending
    <3> QED
      BY <2>3, <2>5, <3>2
  <2>6. CASE T # {}
    <3>1. ASSUME NEW m \in T
          PROVE  \E list : Ascending(list, T \ {m}, key)
      <4>1. Cardinality(T \ {m}) = n - 1
        BY <2>3, <2>4, FS_RemoveElement DEF Distinct
      <4>2. n - 1 \notin Sizes
        BY <2>2, <2>4
      <4>3. T \ {m} \in SUBSET S
        BY <2>3
      <4> QED
        BY <4>1, <4>2, <4>3
    <3>2. \E list : Ascending(list, T, key)
      BY <2>4, <2>6, <3>1, AscendingPrepend
    <3> QED
      BY <2>3, <3>2
  <2> QED
    BY <2>5, <2>6
<1> QED
  BY <1>2

(* InOrder lists each member once, by increasing key. *)
LEMMA InOrderType ==
  ASSUME NEW S, NEW key, Distinct(S, key)
  PROVE  /\ Cardinality(S) \in Nat
         /\ InOrder(S, key) \in [1 .. Cardinality(S) -> S]
         /\ \A i, j \in 1 .. Cardinality(S) :
              i < j => key[InOrder(S, key)[i]] < key[InOrder(S, key)[j]]
         /\ \A i, j \in 1 .. Cardinality(S) :
              InOrder(S, key)[i] = InOrder(S, key)[j] => i = j
         /\ \A s \in S : \E i \in 1 .. Cardinality(S) : InOrder(S, key)[i] = s
<1> DEFINE n == Cardinality(S)
           list == InOrder(S, key)
<1>1. n \in Nat
  BY FS_CardinalityType DEF Distinct
<1>2. Ascending(list, S, key)
  BY AscendingExists DEF InOrder, Ascending
<1> HIDE DEF list
<1>3. list \in [1 .. n -> S]
  BY <1>2 DEF Ascending
<1>4. \A i, j \in 1 .. n : i < j => key[list[i]] < key[list[j]]
  BY <1>2 DEF Ascending
<1> HIDE DEF n
<1>5. ASSUME NEW i \in 1 .. n, NEW j \in 1 .. n, list[i] = list[j]
      PROVE  i = j
  <2>1. key[list[i]] \in Nat /\ key[list[i]] = key[list[j]]
    BY <1>3, <1>5 DEF Distinct
  <2>2. ~ (i < j) /\ ~ (j < i)
    BY <1>4, <2>1
  <2> QED
    BY <1>1, <2>2
<1>6. ASSUME NEW s \in S PROVE \E i \in 1 .. n : list[i] = s
  <2> SUFFICES ASSUME \A i \in 1 .. n : list[i] # s PROVE FALSE
    OBVIOUS
  <2>1. list \in [1 .. n -> S \ {s}]
    BY <1>3
  <2>2. IsFiniteSet(1 .. n) /\ Cardinality(1 .. n) = n
    BY <1>1, FS_Interval, 1 \in Int, n \in Int
  <2>3. IsFiniteSet(S \ {s}) /\ Cardinality(S \ {s}) = n - 1
    BY FS_RemoveElement DEF Distinct, n
  <2>4. \E i, j \in 1 .. n : i # j /\ list[i] = list[j]
    BY <1>1, <2>1, <2>2, <2>3, FS_PigeonHole
  <2> QED
    BY <1>5, <2>4
<1> QED
  BY <1>1, <1>3, <1>4, <1>5, <1>6 DEF n, list

LEMMA IndicesDistinct ==
  ASSUME NEW I, I \subseteq Nat, IsFiniteSet(I)
  PROVE  Distinct(I, [i \in I |-> i])
BY DEF Distinct

(* The members of 1 .. n in order are 1 .. n. *)
LEMMA InOrderInterval ==
  ASSUME NEW n \in Nat
  PROVE  /\ Cardinality(1 .. n) = n
         /\ \A i \in 1 .. n : InOrder(1 .. n, [j \in 1 .. n |-> j])[i] = i
<1> DEFINE I == 1 .. n
           key == [j \in I |-> j]
           list == InOrder(I, key)
           Off == {i \in I : list[i] # i}
<1>1. IsFiniteSet(I) /\ Cardinality(I) = n
  BY FS_Interval, 1 \in Int, n \in Int
<1>2. /\ list \in [I -> I]
      /\ \A i, j \in I : i < j => list[i] < list[j]
      /\ \A s \in I : \E i \in I : list[i] = s
  <2>1. Distinct(I, key)
    BY <1>1, IndicesDistinct
  <2>2. /\ list \in [1 .. Cardinality(I) -> I]
        /\ \A i, j \in 1 .. Cardinality(I) : i < j => key[list[i]] < key[list[j]]
        /\ \A s \in I : \E i \in 1 .. Cardinality(I) : list[i] = s
    <3> HIDE DEF I, key
    <3> QED
      BY <2>1, InOrderType
  <2>3. \A i \in I : key[list[i]] = list[i]
    BY <1>1, <2>2
  <2> QED
    BY <1>1, <2>2, <2>3
<1> HIDE DEF list
<1>3. Off = {}
  <2> SUFFICES ASSUME Off # {} PROVE FALSE
    OBVIOUS
  <2>1. PICK k \in Off : \A l \in Off : k <= l
    <3>1. Off \subseteq Nat
      OBVIOUS
    <3> HIDE DEF Off
    <3> QED
      BY <3>1, NatMin
  <2>2. \A i \in I : i < k => list[i] = i
    BY <2>1
  <2>3. PICK j \in I : list[j] = k
    BY <1>2, <2>1
  <2>4. k < j
    BY <2>1, <2>2, <2>3
  <2>5. list[k] \in I /\ list[k] < k
    BY <1>2, <2>1, <2>3, <2>4
  <2>6. list[list[k]] = list[k] /\ list[list[k]] < list[k]
    BY <1>2, <2>1, <2>2, <2>5
  <2> QED
    BY <2>5, <2>6
<1> QED
  BY <1>1, <1>3 DEF list

(* What a comprehension keeps of a list. *)
LEMMA SelectType ==
  ASSUME NEW I, I \subseteq Nat, IsFiniteSet(I)
  PROVE  \E kept \in [1 .. Cardinality(I) -> I] :
           /\ Cardinality(I) \in Nat
           /\ \A i, j \in 1 .. Cardinality(I) : kept[i] = kept[j] => i = j
           /\ \A i \in I : \E k \in 1 .. Cardinality(I) : kept[k] = i
           /\ \A list : Select(list, I) = [k \in 1 .. Cardinality(I) |-> list[kept[k]]]
<1> DEFINE kept == InOrder(I, [i \in I |-> i])
<1>1. Distinct(I, [i \in I |-> i])
  BY IndicesDistinct
<1>2. /\ kept \in [1 .. Cardinality(I) -> I]
      /\ Cardinality(I) \in Nat
      /\ \A i, j \in 1 .. Cardinality(I) : kept[i] = kept[j] => i = j
      /\ \A i \in I : \E k \in 1 .. Cardinality(I) : kept[k] = i
  BY <1>1, InOrderType
<1>3. \A list : Select(list, I) = [k \in 1 .. Cardinality(I) |-> list[kept[k]]]
  BY DEF Select
<1> QED
  BY <1>2, <1>3

(* A comprehension that keeps a beginning of a list. *)
LEMMA SelectPrefix ==
  ASSUME NEW list, NEW n \in Nat
  PROVE  Select(list, 1 .. n) = [k \in 1 .. n |-> list[k]]
<1>1. \A i \in 1 .. n : InOrder(1 .. n, [j \in 1 .. n |-> j])[i] = i
  BY InOrderInterval
<1>2. Cardinality(1 .. n) = n
  BY InOrderInterval
<1> QED
  BY <1>1, <1>2 DEF Select

-----------------------------------------------------------------------------
(* Running sums. *)

RunningSum(lengths, i, f) ==
  f = [n \in 1 .. i |-> IF n = 1 THEN 0 ELSE f[n - 1] + lengths[n - 1]]

LEMMA RunningSumExists ==
  ASSUME NEW lengths, NEW n \in Nat
  PROVE  \E f : RunningSum(lengths, n, f)
<1> DEFINE Bad == {i \in Nat : ~ \E f : RunningSum(lengths, i, f)}
<1>1. 0 \notin Bad
  <2>1. RunningSum(lengths, 0, [i \in 1 .. 0 |-> 0])
    BY DEF RunningSum
  <2> QED
    BY <2>1
<1>2. ASSUME NEW i \in Nat, NEW f, RunningSum(lengths, i, f)
      PROVE  \E g : RunningSum(lengths, i + 1, g)
  <2> DEFINE g == [k \in 1 .. i + 1 |->
                     IF k = 1 THEN 0 ELSE IF k = i + 1 THEN f[i] + lengths[i] ELSE f[k]]
  <2>1. ASSUME NEW k \in 1 .. i + 1
        PROVE  g[k] = IF k = 1 THEN 0 ELSE g[k - 1] + lengths[k - 1]
    BY <1>2 DEF RunningSum
  <2>2. RunningSum(lengths, i + 1, g)
    BY <2>1 DEF RunningSum
  <2> QED
    BY <2>2
<1>3. Bad = {}
  <2> SUFFICES ASSUME Bad # {} PROVE FALSE
    OBVIOUS
  <2>1. PICK m \in Bad : \A k \in Bad : m <= k
    <3>1. Bad \subseteq Nat
      OBVIOUS
    <3> HIDE DEF Bad
    <3> QED
      BY <3>1, NatMin
  <2>2. m - 1 \in Nat /\ m - 1 \notin Bad
    BY <1>1, <2>1
  <2>3. \E f : RunningSum(lengths, m - 1, f)
    BY <2>2
  <2>4. \E g : RunningSum(lengths, (m - 1) + 1, g)
    BY <1>2, <2>2, <2>3
  <2>5. (m - 1) + 1 = m
    BY <2>1
  <2> QED
    BY <2>1, <2>4, <2>5
<1> QED
  BY <1>3

LEMMA RunningSumSame ==
  ASSUME NEW a, NEW b, NEW i \in Nat, NEW j \in Nat, NEW f, NEW g,
         RunningSum(a, i, f), RunningSum(b, j, g),
         NEW n \in 1 .. i, n <= j, \A k \in 1 .. n - 1 : a[k] = b[k]
  PROVE  f[n] = g[n]
<1> DEFINE Off == {k \in 1 .. n : f[k] # g[k]}
<1>1. ASSUME NEW k \in 1 .. n
      PROVE  /\ f[k] = IF k = 1 THEN 0 ELSE f[k - 1] + a[k - 1]
             /\ g[k] = IF k = 1 THEN 0 ELSE g[k - 1] + b[k - 1]
  <2>1. k \in 1 .. i /\ k \in 1 .. j
    OBVIOUS
  <2> QED
    BY <2>1 DEF RunningSum
<1>2. Off = {}
  <2> SUFFICES ASSUME Off # {} PROVE FALSE
    OBVIOUS
  <2>1. PICK m \in Off : \A k \in Off : m <= k
    <3>1. Off \subseteq Nat
      OBVIOUS
    <3> HIDE DEF Off
    <3> QED
      BY <3>1, NatMin
  <2>2. m # 1
    BY <1>1, <2>1
  <2>3. m - 1 \in 1 .. n /\ m - 1 \in 1 .. n - 1 /\ f[m - 1] = g[m - 1]
    BY <2>1, <2>2
  <2> QED
    BY <1>1, <2>1, <2>2, <2>3
<1> QED
  BY <1>2

LEMMA StartOfIsSum ==
  ASSUME NEW lengths, NEW n \in Nat \ {0}
  PROVE  \E f : RunningSum(lengths, n, f) /\ StartOf(lengths, n) = f[n]
<1> DEFINE offset == CHOOSE f : f = [i \in 1 .. n |->
                                       IF i = 1 THEN 0 ELSE f[i - 1] + lengths[i - 1]]
<1>1. RunningSum(lengths, n, offset)
  <2>1. \E f : f = [i \in 1 .. n |-> IF i = 1 THEN 0 ELSE f[i - 1] + lengths[i - 1]]
    BY RunningSumExists DEF RunningSum
  <2> QED
    BY <2>1 DEF RunningSum
<1>2. StartOf(lengths, n) = offset[n]
  BY DEF StartOf
<1> QED
  BY <1>1, <1>2

(* Where a part of a packed list begins depends on the parts before it ... *)
LEMMA StartOfSame ==
  ASSUME NEW a, NEW b, NEW n \in Nat \ {0}, \A k \in 1 .. n - 1 : a[k] = b[k]
  PROVE  StartOf(a, n) = StartOf(b, n)
<1>1. PICK f : RunningSum(a, n, f) /\ StartOf(a, n) = f[n]
  BY StartOfIsSum
<1>2. PICK g : RunningSum(b, n, g) /\ StartOf(b, n) = g[n]
  BY StartOfIsSum
<1> QED
  BY <1>1, <1>2, RunningSumSame

(* ... and is where the one before it ends. *)
LEMMA StartOfStep ==
  ASSUME NEW lengths
  PROVE  /\ StartOf(lengths, 1) = 0
         /\ \A n \in Nat \ {0} : StartOf(lengths, n + 1) = StartOf(lengths, n) + lengths[n]
<1>1. StartOf(lengths, 1) = 0
  <2>1. PICK f : RunningSum(lengths, 1, f) /\ StartOf(lengths, 1) = f[1]
    BY StartOfIsSum
  <2> QED
    BY <2>1 DEF RunningSum
<1>2. ASSUME NEW n \in Nat \ {0}
      PROVE  StartOf(lengths, n + 1) = StartOf(lengths, n) + lengths[n]
  <2>1. PICK f : RunningSum(lengths, n + 1, f) /\ StartOf(lengths, n + 1) = f[n + 1]
    BY StartOfIsSum
  <2>2. PICK g : RunningSum(lengths, n, g) /\ StartOf(lengths, n) = g[n]
    BY StartOfIsSum
  <2>3. g[n] = f[n]
    BY <2>1, <2>2, RunningSumSame
  <2>4. f[n + 1] = f[n] + lengths[n]
    BY <2>1 DEF RunningSum
  <2> QED
    BY <2>1, <2>2, <2>3, <2>4
<1> QED
  BY <1>1, <1>2

(* The parts follow one another, and do not overlap. *)
LEMMA StartOfType ==
  ASSUME NEW lengths, NEW n \in Nat, \A i \in 1 .. n : lengths[i] \in Nat
  PROVE  \A i \in 1 .. n + 1 : StartOf(lengths, i) \in Nat
<1> DEFINE Bad == {i \in 1 .. n + 1 : StartOf(lengths, i) \notin Nat}
<1>1. Bad = {}
  <2> SUFFICES ASSUME Bad # {} PROVE FALSE
    OBVIOUS
  <2>1. PICK m \in Bad : \A k \in Bad : m <= k
    <3>1. Bad \subseteq Nat
      OBVIOUS
    <3> HIDE DEF Bad
    <3> QED
      BY <3>1, NatMin
  <2>2. m # 1
    BY <2>1, StartOfStep
  <2>3. m - 1 \in 1 .. n /\ StartOf(lengths, m - 1) \in Nat
    BY <2>1, <2>2
  <2>4. StartOf(lengths, (m - 1) + 1) = StartOf(lengths, m - 1) + lengths[m - 1]
    BY <2>3, StartOfStep
  <2>5. (m - 1) + 1 = m
    BY <2>1
  <2> QED
    BY <2>1, <2>3, <2>4, <2>5
<1> QED
  BY <1>1

LEMMA StartOfMonotone ==
  ASSUME NEW lengths, NEW n \in Nat, \A i \in 1 .. n : lengths[i] \in Nat,
         NEW i \in 1 .. n, NEW j \in 1 .. n + 1, i < j
  PROVE  StartOf(lengths, i) + lengths[i] <= StartOf(lengths, j)
<1> DEFINE first == StartOf(lengths, i) + lengths[i]
           Bad == {k \in 1 .. n + 1 : i < k /\ ~ (first <= StartOf(lengths, k))}
<1>1. Bad = {}
  <2> SUFFICES ASSUME Bad # {} PROVE FALSE
    OBVIOUS
  <2>1. PICK m \in Bad : \A k \in Bad : m <= k
    <3>1. Bad \subseteq Nat
      OBVIOUS
    <3> HIDE DEF Bad
    <3> QED
      BY <3>1, NatMin
  <2>2. m - 1 \in 1 .. n /\ (m - 1) + 1 = m
    BY <2>1
  <2>3. StartOf(lengths, (m - 1) + 1) = StartOf(lengths, m - 1) + lengths[m - 1]
    BY <2>2, StartOfStep
  <2>4. /\ StartOf(lengths, m - 1) \in Nat /\ lengths[m - 1] \in Nat
        /\ StartOf(lengths, i) \in Nat /\ lengths[i] \in Nat
    BY <2>2, StartOfType
  <2>5. m - 1 = i \/ first <= StartOf(lengths, m - 1)
    BY <2>1, <2>2
  <2> QED
    BY <2>1, <2>2, <2>3, <2>4, <2>5
<1> QED
  BY <1>1

(* Every place in a packed list belongs to one part. *)
LEMMA StartOfLocates ==
  ASSUME NEW lengths, NEW n \in Nat, \A i \in 1 .. n : lengths[i] \in Nat,
         NEW x \in 1 .. StartOf(lengths, n + 1)
  PROVE  \E i \in 1 .. n : StartOf(lengths, i) < x /\ x <= StartOf(lengths, i) + lengths[i]
<1> DEFINE Beyond == {i \in 1 .. n + 1 : x <= StartOf(lengths, i)}
<1>1. \A i \in 1 .. n + 1 : StartOf(lengths, i) \in Nat
  BY StartOfType
<1>2. n + 1 \in Beyond
  BY <1>1
<1>3. PICK m \in Beyond : \A k \in Beyond : m <= k
  <2>1. Beyond \subseteq Nat /\ Beyond # {}
    BY <1>2
  <2> HIDE DEF Beyond
  <2> QED
    BY <2>1, NatMin
<1>4. m # 1
  BY <1>1, <1>3, StartOfStep
<1>5. m - 1 \in 1 .. n /\ (m - 1) + 1 = m /\ m - 1 \notin Beyond
  BY <1>3, <1>4
<1>6. StartOf(lengths, m) = StartOf(lengths, m - 1) + lengths[m - 1]
  <2>1. StartOf(lengths, (m - 1) + 1) = StartOf(lengths, m - 1) + lengths[m - 1]
    BY <1>5, StartOfStep
  <2> QED
    BY <1>5, <2>1
<1>7. StartOf(lengths, m - 1) < x /\ x <= StartOf(lengths, m - 1) + lengths[m - 1]
  BY <1>1, <1>3, <1>5, <1>6
<1> QED
  BY <1>5, <1>7

LEMMA StartOfUnique ==
  ASSUME NEW lengths, NEW n \in Nat, \A i \in 1 .. n : lengths[i] \in Nat,
         NEW i \in 1 .. n, NEW j \in 1 .. n, NEW x \in Nat,
         StartOf(lengths, i) < x, x <= StartOf(lengths, i) + lengths[i],
         StartOf(lengths, j) < x, x <= StartOf(lengths, j) + lengths[j]
  PROVE  i = j
<1>1. i < j => StartOf(lengths, i) + lengths[i] <= StartOf(lengths, j)
  BY StartOfMonotone
<1>2. j < i => StartOf(lengths, j) + lengths[j] <= StartOf(lengths, i)
  BY StartOfMonotone
<1>3. /\ StartOf(lengths, i) \in Nat /\ lengths[i] \in Nat
      /\ StartOf(lengths, j) \in Nat /\ lengths[j] \in Nat
  BY StartOfType
<1> QED
  BY <1>1, <1>2, <1>3

(* Equal parts. *)
LEMMA StartOfEqualParts ==
  ASSUME NEW lengths, NEW c \in Nat, NEW n \in Nat, \A i \in 1 .. n : lengths[i] = c
  PROVE  \A i \in 1 .. n + 1 : StartOf(lengths, i) = (i - 1) * c
<1> DEFINE Bad == {i \in 1 .. n + 1 : StartOf(lengths, i) # (i - 1) * c}
<1>1. Bad = {}
  <2> SUFFICES ASSUME Bad # {} PROVE FALSE
    OBVIOUS
  <2>1. PICK m \in Bad : \A k \in Bad : m <= k
    <3>1. Bad \subseteq Nat
      OBVIOUS
    <3> HIDE DEF Bad
    <3> QED
      BY <3>1, NatMin
  <2>2. m # 1
    BY <2>1, StartOfStep
  <2>3. m - 1 \in 1 .. n /\ m - 1 \in 1 .. n + 1 /\ (m - 1) + 1 = m
    BY <2>1, <2>2
  <2>4. StartOf(lengths, (m - 1) + 1) = StartOf(lengths, m - 1) + lengths[m - 1]
    BY <2>3, StartOfStep
  <2>5. StartOf(lengths, m - 1) = (m - 2) * c
    BY <2>1, <2>3
  <2>6. (m - 2) * c + c = (m - 1) * c
    BY <2>1
  <2> QED
    BY <2>1, <2>3, <2>4, <2>5, <2>6
<1> QED
  BY <1>1

-----------------------------------------------------------------------------
(* Packing. *)

Packed(rows, n, f) == f = [i \in 1 .. n |-> IF i = 1 THEN rows[i] ELSE f[i - 1] \o rows[i]]

LEMMA PackedExists ==
  ASSUME NEW rows, NEW n \in Nat
  PROVE  \E f : Packed(rows, n, f)
<1> DEFINE Bad == {i \in Nat : ~ \E f : Packed(rows, i, f)}
<1>1. 0 \notin Bad
  <2>1. Packed(rows, 0, [i \in 1 .. 0 |-> <<>>])
    BY DEF Packed
  <2> QED
    BY <2>1
<1>2. ASSUME NEW i \in Nat, NEW f, Packed(rows, i, f)
      PROVE  \E g : Packed(rows, i + 1, g)
  <2> DEFINE last == IF i = 0 THEN rows[1] ELSE f[i] \o rows[i + 1]
             g == [k \in 1 .. i + 1 |-> IF k = i + 1 THEN last ELSE f[k]]
  <2>1. ASSUME NEW k \in 1 .. i + 1
        PROVE  g[k] = IF k = 1 THEN rows[k] ELSE g[k - 1] \o rows[k]
    <3>1. CASE k = i + 1
      <4>1. g[k] = last /\ (i # 0 => g[k - 1] = f[i])
        BY <3>1
      <4> QED
        BY <3>1, <4>1
    <3>2. CASE k # i + 1
      <4>1. k \in 1 .. i /\ g[k] = f[k] /\ (k # 1 => g[k - 1] = f[k - 1])
        BY <3>2
      <4>2. f[k] = IF k = 1 THEN rows[k] ELSE f[k - 1] \o rows[k]
        BY <1>2, <4>1 DEF Packed
      <4> QED
        BY <4>1, <4>2
    <3> QED
      BY <3>1, <3>2
  <2>2. Packed(rows, i + 1, g)
    BY <2>1 DEF Packed
  <2> QED
    BY <2>2
<1>3. Bad = {}
  <2> SUFFICES ASSUME Bad # {} PROVE FALSE
    OBVIOUS
  <2>1. PICK m \in Bad : \A k \in Bad : m <= k
    <3>1. Bad \subseteq Nat
      OBVIOUS
    <3> HIDE DEF Bad
    <3> QED
      BY <3>1, NatMin
  <2>2. m - 1 \in Nat /\ m - 1 \notin Bad
    BY <1>1, <2>1
  <2>3. \E f : Packed(rows, m - 1, f)
    BY <2>2
  <2>4. \E g : Packed(rows, (m - 1) + 1, g)
    BY <1>2, <2>2, <2>3
  <2>5. (m - 1) + 1 = m
    BY <2>1
  <2> QED
    BY <2>1, <2>4, <2>5
<1> QED
  BY <1>3

(* The rows packed so far. *)
PackedSoFar(X, rows, lengths, n, list) ==
  /\ list \in Seq(X)
  /\ Len(list) = StartOf(lengths, n + 1)
  /\ \A i \in 1 .. n : \A j \in 1 .. Len(rows[i]) :
       list[StartOf(lengths, i) + j] = rows[i][j]

LEMMA ConcatType ==
  ASSUME NEW X, NEW s \in Seq(X), NEW t \in Seq(X), NEW both, both = s \o t
  PROVE  /\ both \in Seq(X) /\ Len(both) = Len(s) + Len(t)
         /\ \A k \in 1 .. Len(s) : both[k] = s[k]
         /\ \A k \in 1 .. Len(t) : both[Len(s) + k] = t[k]
  BY ConcatProperties

LEMMA WithinPart ==
  ASSUME NEW start \in Nat, NEW len \in Nat, NEW end \in Nat, start + len <= end,
         NEW j \in 1 .. len
  PROVE  start + j \in 1 .. end
  OBVIOUS

LEMMA PackedStep ==
  ASSUME NEW X, NEW rows \in Seq(Seq(X)), NEW lengths,
         \A i \in 1 .. Len(rows) : lengths[i] = Len(rows[i]),
         NEW n \in Nat, n < Len(rows), NEW list, PackedSoFar(X, rows, lengths, n, list)
  PROVE  PackedSoFar(X, rows, lengths, n + 1, list \o rows[n + 1])
<1> DEFINE row == rows[n + 1]
           more == list \o row
<1>1. /\ list \in Seq(X) /\ Len(list) = StartOf(lengths, n + 1)
      /\ \A i \in 1 .. n : \A j \in 1 .. Len(rows[i]) :
           list[StartOf(lengths, i) + j] = rows[i][j]
  BY DEF PackedSoFar
<1>2. row \in Seq(X) /\ n + 1 \in 1 .. Len(rows) /\ lengths[n + 1] = Len(row)
  OBVIOUS
<1>3. StartOf(lengths, (n + 1) + 1) = StartOf(lengths, n + 1) + lengths[n + 1]
  <2>1. n + 1 \in Nat \ {0}
    OBVIOUS
  <2> QED
    BY <2>1, StartOfStep
<1> HIDE DEF row
<1>4. /\ more \in Seq(X) /\ Len(more) = Len(list) + Len(row)
      /\ \A k \in 1 .. Len(list) : more[k] = list[k]
      /\ \A k \in 1 .. Len(row) : more[Len(list) + k] = row[k]
  <2>1. list \in Seq(X) /\ row \in Seq(X)
    BY <1>1, <1>2
  <2>2. more = list \o row
    OBVIOUS
  <2> HIDE DEF more
  <2> QED
    BY <2>1, <2>2, ConcatType
<1> HIDE DEF more
<1>5. ASSUME NEW i \in 1 .. n + 1, NEW j \in 1 .. Len(rows[i])
      PROVE  more[StartOf(lengths, i) + j] = rows[i][j]
  <2>1. CASE i = n + 1
    BY <1>1, <1>4, <2>1 DEF row
  <2>2. CASE i # n + 1
    <3>1. i \in 1 .. n
      BY <2>2
    <3>2. \A k \in 1 .. n : lengths[k] \in Nat
      <4>1. \A k \in 1 .. n : rows[k] \in Seq(X) /\ lengths[k] = Len(rows[k])
        OBVIOUS
      <4>2. \A row2 \in Seq(X) : Len(row2) \in Nat
        OBVIOUS
      <4> QED
        BY <4>1, <4>2
    <3>3. StartOf(lengths, i) + lengths[i] <= StartOf(lengths, n + 1)
      <4>1. n + 1 \in 1 .. n + 1 /\ i < n + 1
        BY <3>1
      <4> QED
        BY <3>1, <3>2, <4>1, StartOfMonotone
    <3>4. StartOf(lengths, i) \in Nat /\ StartOf(lengths, n + 1) \in Nat
      <4>1. i \in 1 .. n + 1 /\ n + 1 \in 1 .. n + 1
        BY <3>1
      <4> QED
        BY <3>2, <4>1, StartOfType
    <3>5. lengths[i] = Len(rows[i]) /\ lengths[i] \in Nat
      BY <3>1, <3>2
    <3>6. StartOf(lengths, i) + j \in 1 .. Len(list)
      <4>1. j \in 1 .. lengths[i]
        BY <3>5
      <4>2. StartOf(lengths, i) + j \in 1 .. StartOf(lengths, n + 1)
        BY <3>3, <3>4, <3>5, <4>1, WithinPart
      <4> QED
        BY <1>1, <4>2
    <3> QED
      BY <1>1, <1>4, <3>1, <3>6
  <2> QED
    BY <2>1, <2>2
<1> QED
  BY <1>1, <1>2, <1>3, <1>4, <1>5 DEF PackedSoFar, more, row

(* A packed list holds the j-th entry of its i-th row j places after the  *)
(* start of that row.                                                      *)
LEMMA FlattenType ==
  ASSUME NEW X, NEW rows \in Seq(Seq(X)), NEW lengths,
         \A i \in 1 .. Len(rows) : lengths[i] = Len(rows[i])
  PROVE  /\ Lists!FlattenSeq(rows) \in Seq(X)
         /\ Len(Lists!FlattenSeq(rows)) = StartOf(lengths, Len(rows) + 1)
         /\ \A i \in 1 .. Len(rows) : \A j \in 1 .. Len(rows[i]) :
              Lists!FlattenSeq(rows)[StartOf(lengths, i) + j] = rows[i][j]
<1> DEFINE n == Len(rows)
<1>1. CASE n = 0
  <2>1. Lists!FlattenSeq(rows) = <<>>
    BY <1>1 DEF Lists!FlattenSeq
  <2>2. StartOf(lengths, 0 + 1) = 0
    BY StartOfStep
  <2> QED
    BY <1>1, <2>1, <2>2
<1>2. CASE n # 0
  <2> DEFINE f == CHOOSE f : f = [i \in 1 .. n |->
                                    IF i = 1 THEN rows[i] ELSE f[i - 1] \o rows[i]]
             Bad == {i \in 1 .. n : ~ PackedSoFar(X, rows, lengths, i, f[i])}
  <2>1. Packed(rows, n, f)
    <3>1. \E g : Packed(rows, n, g)
      <4>1. n \in Nat
        OBVIOUS
      <4> QED
        BY <4>1, PackedExists
    <3>2. \E g : g = [i \in 1 .. n |-> IF i = 1 THEN rows[i] ELSE g[i - 1] \o rows[i]]
      BY <3>1 DEF Packed
    <3> QED
      BY <3>2 DEF Packed
  <2>2. Lists!FlattenSeq(rows) = f[n]
    BY <1>2 DEF Lists!FlattenSeq
  <2> HIDE DEF f
  <2>3. PackedSoFar(X, rows, lengths, 1, f[1])
    <3>1. f[1] = rows[1] /\ rows[1] \in Seq(X) /\ lengths[1] = Len(rows[1])
      BY <1>2, <2>1 DEF Packed
    <3>2. StartOf(lengths, 1) = 0 /\ StartOf(lengths, 1 + 1) = 0 + lengths[1]
      BY StartOfStep
    <3> QED
      BY <3>1, <3>2 DEF PackedSoFar
  <2>4. Bad = {}
    <3> SUFFICES ASSUME Bad # {} PROVE FALSE
      OBVIOUS
    <3>1. PICK m \in Bad : \A k \in Bad : m <= k
      <4>1. Bad \subseteq Nat
        OBVIOUS
      <4> HIDE DEF Bad
      <4> QED
        BY <4>1, NatMin
    <3>2. m # 1
      BY <2>3, <3>1
    <3>3. m - 1 \in 1 .. n /\ (m - 1) + 1 = m /\ m - 1 < n /\ m - 1 \in Nat
      BY <3>1, <3>2
    <3>4. PackedSoFar(X, rows, lengths, m - 1, f[m - 1])
      BY <3>1, <3>3
    <3>5. PackedSoFar(X, rows, lengths, (m - 1) + 1, f[m - 1] \o rows[(m - 1) + 1])
      BY <3>3, <3>4, PackedStep
    <3>6. f[m] = f[m - 1] \o rows[m]
      BY <2>1, <3>1, <3>2 DEF Packed
    <3>7. PackedSoFar(X, rows, lengths, m, f[m])
      BY <3>3, <3>5, <3>6
    <3> QED
      BY <3>1, <3>7
  <2>5. PackedSoFar(X, rows, lengths, n, f[n])
    BY <1>2, <2>4
  <2> QED
    BY <2>2, <2>5 DEF PackedSoFar
<1> QED
  BY <1>1, <1>2

-----------------------------------------------------------------------------
(* The order of the batch. *)

(* Ranks count the admissions: no two requests have the same. *)
RanksInv ==
  /\ \A r \in running : rank[r] > 0
  /\ \A r \in Seqs : rank[r] > 0 => r \in (1 .. added) \ waiting
  /\ \A r \in Seqs : rank[r] <= Cardinality({q \in Seqs : rank[q] > 0})
  /\ \A r, q \in Seqs : rank[r] > 0 /\ rank[r] = rank[q] => r = q

LEMMA AdmitKeepsRanks ==
  ASSUME EngineInv, RanksInv, NEW r \in Seqs, Admit(r)
  PROVE  RanksInv'
<1> DEFINE Ranked == {q \in Seqs : rank[q] > 0}
           n == Cardinality(Ranked)
<1>1. /\ rank' = [rank EXCEPT ![r] = n + 1]
      /\ running' = running \cup {r} /\ waiting' = waiting \ {r} /\ added' = added
      /\ r \in todo /\ pc = "admit"
  <2>1. rank' = [rank EXCEPT ![r] = n + 1]
    <3>1. rank' = [rank EXCEPT ![r] = Cardinality({q \in Seqs : rank[q] > 0}) + 1]
      BY DEF Admit
    <3> QED
      BY <3>1
  <2>2. /\ running' = running \cup {r} /\ waiting' = waiting \ {r} /\ added' = added
        /\ r \in todo /\ pc = "admit"
    BY DEF Admit, Oldest, request
  <2> QED
    BY <2>1, <2>2
<1>2. n \in Nat /\ IsFiniteSet(Ranked)
  BY SeqsFinite
<1>3. rank \in [Seqs -> Nat] /\ running \subseteq Seqs
  BY DEF EngineInv, EngineTypeOK
<1>4. r \in waiting /\ rank[r] = 0 /\ r \in 1 .. added
  BY <1>1, <1>3 DEF EngineInv, PlanConsistent, PoolsPartition, RanksInv
<1>5. {q \in Seqs : rank'[q] > 0} = Ranked \cup {r}
  <2> HIDE DEF n
  <2> QED
    BY <1>1, <1>2, <1>3
<1>6. Cardinality({q \in Seqs : rank'[q] > 0}) = n + 1
  <2>1. r \notin Ranked
    BY <1>4
  <2> HIDE DEF Ranked
  <2> QED
    BY <1>2, <1>5, <2>1, FS_AddElement
<1>7. \A q \in Seqs : rank[q] <= n
  BY DEF RanksInv
<1> HIDE DEF n, Ranked
<1>8. \A q \in Seqs : rank'[q] = IF q = r THEN n + 1 ELSE rank[q]
  BY <1>1, <1>3
<1>9. \A q \in running' : rank'[q] > 0
  BY <1>1, <1>2, <1>3, <1>8 DEF RanksInv
<1>10. \A q \in Seqs : rank'[q] > 0 => q \in (1 .. added') \ waiting'
  BY <1>1, <1>3, <1>4, <1>8 DEF RanksInv
<1>11. \A q \in Seqs : rank'[q] <= n + 1
  BY <1>2, <1>3, <1>7, <1>8
<1>12. \A p, q \in Seqs : rank'[p] > 0 /\ rank'[p] = rank'[q] => p = q
  BY <1>2, <1>3, <1>7, <1>8 DEF RanksInv
<1> QED
  BY <1>6, <1>9, <1>10, <1>11, <1>12 DEF RanksInv

LEMMA NextKeepsRanks ==
  ASSUME EngineInv, RanksInv, [EngineNext]_engineVars
  PROVE  RanksInv'
<1>1. ASSUME UNCHANGED <<rank, added>>, running' \subseteq running, waiting' \subseteq waiting
      PROVE  RanksInv'
  BY <1>1 DEF RanksInv
<1>2. ASSUME NEW p \in Prompts, NEW m \in MaxTokensValues, AddRequest(p, m)
      PROVE  RanksInv'
  <2>1. /\ added' = added + 1 /\ waiting' = waiting \cup {added + 1}
        /\ UNCHANGED <<rank, running>>
    BY <1>2 DEF AddRequest
  <2>2. added \in Nat
    BY EngineAssumption DEF EngineInv, EngineTypeOK
  <2>3. (1 .. added) \ waiting \subseteq (1 .. added') \ waiting'
    BY <2>1, <2>2
  <2>4. \A r \in Seqs : rank[r] > 0 => r \in (1 .. added') \ waiting'
    BY <2>3 DEF RanksInv
  <2> QED
    BY <2>1, <2>4 DEF RanksInv
<1>3. ASSUME NEW r \in Seqs, \/ TimeOut(r) \/ FinishGroup(r) \/ ContinuePrefill(r) \/ Ignore(r)
                             \/ Reject(r) \/ EnsureBlock(r) \/ RaiseOOM(r) \/ Cancel(r)
      PROVE  UNCHANGED <<rank, added>> /\ running' \subseteq running /\ waiting' \subseteq waiting
  BY <1>3 DEF TimeOut, FinishGroup, ContinuePrefill, Ignore, Reject, EnsureBlock, RaiseOOM,
              Cancel, pools, request
<1>4. CASE UNCHANGED engineVars \/ StartStep \/ PlanDecode \/ StartAdmission \/ Execute
  <2>1. UNCHANGED <<rank, added, running, waiting>>
    BY <1>4 DEF engineVars, StartStep, PlanDecode, StartAdmission, Execute, pools, request
  <2> QED
    BY <1>1, <2>1
<1> QED
  BY <1>1, <1>2, <1>3, <1>4, AdmitKeepsRanks DEF EngineNext, Step, Prepare, Calls

LEMMA ByAdmissionType ==
  ASSUME EngineInv, RanksInv, NEW S \in SUBSET running
  PROVE  /\ ByAdmission(S) \in Seq(Seqs)
         /\ \A i \in 1 .. Len(ByAdmission(S)) : ByAdmission(S)[i] \in S
         /\ \A i, j \in 1 .. Len(ByAdmission(S)) :
              ByAdmission(S)[i] = ByAdmission(S)[j] => i = j
         /\ \A r \in S : \E i \in 1 .. Len(ByAdmission(S)) : ByAdmission(S)[i] = r
<1>1. S \subseteq Seqs /\ rank \in [Seqs -> Nat]
  BY DEF EngineInv, EngineTypeOK
<1>2. Distinct(S, rank)
  <2>1. IsFiniteSet(S)
    BY <1>1, SeqsFinite
  <2> QED
    BY <1>1, <2>1 DEF Distinct, RanksInv
<1> DEFINE n == Cardinality(S)
           list == InOrder(S, rank)
<1>3. /\ n \in Nat /\ list \in [1 .. n -> S]
      /\ \A i, j \in 1 .. n : list[i] = list[j] => i = j
      /\ \A r \in S : \E i \in 1 .. n : list[i] = r
  BY <1>2, InOrderType
<1> HIDE DEF n, list
<1>4. list \in Seq(Seqs) /\ Len(list) = n
  BY <1>1, <1>3
<1>5. ByAdmission(S) = list
  BY DEF ByAdmission, list
<1> QED
  BY <1>3, <1>4, <1>5

(* Every sequence of the step is in the batch once, the prefills first. *)
LEMMA BatchSeqsType ==
  ASSUME EngineInv, RanksInv
  PROVE  /\ PrefillSeqs \in Seq(Seqs) /\ DecodeSeqs \in Seq(Seqs) /\ BatchSeqs \in Seq(Seqs)
         /\ Len(BatchSeqs) = Len(PrefillSeqs) + Len(DecodeSeqs)
         /\ \A i \in 1 .. Len(PrefillSeqs) :
              BatchSeqs[i] = PrefillSeqs[i] /\ PrefillSeqs[i] \in schedPrefill
         /\ \A i \in 1 .. Len(DecodeSeqs) :
              /\ BatchSeqs[Len(PrefillSeqs) + i] = DecodeSeqs[i]
              /\ DecodeSeqs[i] \in schedDecode
         /\ \A i, j \in 1 .. Len(BatchSeqs) : BatchSeqs[i] = BatchSeqs[j] => i = j
         /\ \A r \in schedPrefill \cup schedDecode :
              \E i \in 1 .. Len(BatchSeqs) : BatchSeqs[i] = r
<1> DEFINE np == Len(PrefillSeqs)
           nd == Len(DecodeSeqs)
<1>1. /\ schedPrefill \in SUBSET running /\ schedDecode \in SUBSET running
      /\ schedPrefill \cap schedDecode = {}
  BY BudgetsType
<1>2. /\ PrefillSeqs \in Seq(Seqs)
      /\ \A i \in 1 .. np : PrefillSeqs[i] \in schedPrefill
      /\ \A i, j \in 1 .. np : PrefillSeqs[i] = PrefillSeqs[j] => i = j
      /\ \A r \in schedPrefill : \E i \in 1 .. np : PrefillSeqs[i] = r
  BY <1>1, ByAdmissionType DEF PrefillSeqs
<1>3. /\ DecodeSeqs \in Seq(Seqs)
      /\ \A i \in 1 .. nd : DecodeSeqs[i] \in schedDecode
      /\ \A i, j \in 1 .. nd : DecodeSeqs[i] = DecodeSeqs[j] => i = j
      /\ \A r \in schedDecode : \E i \in 1 .. nd : DecodeSeqs[i] = r
  BY <1>1, ByAdmissionType DEF DecodeSeqs
<1>4. np \in Nat /\ nd \in Nat
  BY <1>2, <1>3
<1>5. /\ BatchSeqs \in Seq(Seqs) /\ Len(BatchSeqs) = np + nd
      /\ \A i \in 1 .. np : BatchSeqs[i] = PrefillSeqs[i]
      /\ \A i \in 1 .. nd : BatchSeqs[np + i] = DecodeSeqs[i]
  <2>1. BatchSeqs = PrefillSeqs \o DecodeSeqs
    BY DEF BatchSeqs
  <2> QED
    BY <1>2, <1>3, <2>1, ConcatType
<1> HIDE DEF np, nd
<1>6. \A i \in 1 .. np + nd : i \in 1 .. np \/ \E k \in 1 .. nd : i = np + k
  <2> SUFFICES ASSUME NEW i \in 1 .. np + nd, i \notin 1 .. np
               PROVE  \E k \in 1 .. nd : i = np + k
    OBVIOUS
  <2>1. i - np \in 1 .. nd /\ i = np + (i - np)
    BY <1>4
  <2> QED
    BY <2>1
<1>7. \A i \in 1 .. np : i \in 1 .. np + nd
  BY <1>4
<1>8. \A k \in 1 .. nd : np + k \in 1 .. np + nd
  BY <1>4
<1>9. ASSUME NEW i \in 1 .. np + nd, NEW j \in 1 .. np + nd, BatchSeqs[i] = BatchSeqs[j]
      PROVE  i = j
  <2>1. CASE i \in 1 .. np /\ j \in 1 .. np
    BY <1>2, <1>5, <1>9, <2>1
  <2>2. ASSUME NEW k \in 1 .. nd, NEW l \in 1 .. nd, i = np + k, j = np + l
        PROVE  i = j
    <3>1. DecodeSeqs[k] = DecodeSeqs[l]
      BY <1>5, <1>9, <2>2
    <3> QED
      BY <1>3, <2>2, <3>1
  <2>3. ASSUME NEW k \in 1 .. nd, \/ i \in 1 .. np /\ j = np + k
                                  \/ j \in 1 .. np /\ i = np + k
        PROVE  FALSE
    BY <1>1, <1>2, <1>3, <1>5, <1>9, <2>3
  <2> QED
    BY <1>6, <2>1, <2>2, <2>3
<1>10. ASSUME NEW r \in schedPrefill \cup schedDecode
       PROVE  \E i \in 1 .. np + nd : BatchSeqs[i] = r
  BY <1>2, <1>3, <1>5, <1>7, <1>8
<1> QED
  BY <1>2, <1>3, <1>5, <1>9, <1>10 DEF np, nd

-----------------------------------------------------------------------------
(* The rows of the batch. *)

(* The row of a sequence is what the step has made room for. *)
LEMMA RowIsDue ==
  ASSUME SchedInv, NEW r \in schedPrefill \cup schedDecode
  PROVE  /\ r \in running /\ r \in Seqs
         /\ QueryLen(r) \in Nat \ {0} /\ CachedLenBefore(r) \in Nat /\ KVLenAfter(r) \in Nat
         /\ CachedLenBefore(r) = KVLen(r)
         /\ KVLenAfter(r) = CachedLenBefore(r) + QueryLen(r)
         /\ Due(r) = CachedLenBefore(r) .. KVLenAfter(r) - 1
         /\ \A j \in 1 .. QueryLen(r) : CachedLenBefore(r) + j - 1 \in Due(r)
         /\ r \in schedDecode => QueryLen(r) = 1
         /\ Samples(r) <=> \/ r \in schedDecode
                           \/ r \in schedPrefill /\ PrefillEnd(r) = Len(prompt[r])
<1>1. r \in running /\ r \in Seqs
  BY BudgetsType DEF SchedInv
<1>2. /\ Len(prompt[r]) \in Nat \ {0} /\ cursor[r] \in Nat /\ gen[r] \in Nat
      /\ KVLen(r) \in Nat
      /\ status[r] = "PREFILL" => gen[r] = 0 /\ cursor[r] < Len(prompt[r])
  BY <1>1, RunningTypes
<1>3. CASE r \in schedPrefill
  <2>1. status[r] = "PREFILL" /\ r \notin schedDecode
    BY <1>3, BudgetsType DEF SchedInv
  <2>2. /\ CachedLenBefore(r) = cursor[r]
        /\ QueryLen(r) = Smaller(MaxPrefillChunkSize, Len(prompt[r]) - cursor[r])
        /\ KVLen(r) = cursor[r]
        /\ Due(r) = cursor[r] .. PrefillEnd(r) - 1
        /\ KVLenAfter(r) = CachedLenBefore(r) + QueryLen(r)
    BY <1>3, <2>1 DEF CachedLenBefore, QueryLen, KVLen, Due, KVLenAfter
  <2>3. /\ PrefillEnd(r) = cursor[r] + QueryLen(r)
        /\ QueryLen(r) \in Nat \ {0} /\ PrefillEnd(r) <= Len(prompt[r])
    BY <1>2, <2>1, <2>2, LimitsType DEF PrefillEnd, Smaller
  <2>4. Samples(r) <=> KVLenAfter(r) >= Len(prompt[r])
    BY <1>3 DEF Samples
  <2>5. KVLenAfter(r) = PrefillEnd(r) /\ KVLenAfter(r) \in Nat
    BY <1>2, <2>2, <2>3
  <2>6. \A j \in 1 .. QueryLen(r) : CachedLenBefore(r) + j - 1 \in Due(r)
    BY <1>2, <2>2, <2>3
  <2> QED
    BY <1>1, <1>2, <1>3, <2>1, <2>2, <2>3, <2>4, <2>5, <2>6
<1>4. CASE r \notin schedPrefill
  <2>1. status[r] = "RUNNING" /\ r \in schedDecode
    BY <1>4, BudgetsType DEF SchedInv
  <2>2. /\ CachedLenBefore(r) = Len(prompt[r]) + gen[r] - 1
        /\ QueryLen(r) = 1
        /\ KVLen(r) = Len(prompt[r]) + gen[r] - 1
        /\ Due(r) = {Len(prompt[r]) + gen[r] - 1}
        /\ KVLenAfter(r) = CachedLenBefore(r) + QueryLen(r)
        /\ Samples(r)
    BY <1>4, <2>1 DEF CachedLenBefore, QueryLen, KVLen, Due, KVLenAfter, Samples
  <2>3. Due(r) = CachedLenBefore(r) .. KVLenAfter(r) - 1
    BY <1>2, <2>2
  <2> QED
    BY <1>1, <1>2, <2>1, <2>2, <2>3
<1> QED
  BY <1>3, <1>4

Lengths == [n \in DOMAIN BatchSeqs |-> QueryLen(BatchSeqs[n])]
RowTokens == [seq : Seqs, pos : Nat]

LEMMA RowOfType ==
  ASSUME SchedInv, NEW r \in schedPrefill \cup schedDecode
  PROVE  /\ RowOf(r) \in Seq(RowTokens) /\ Len(RowOf(r)) = QueryLen(r)
         /\ \A j \in 1 .. QueryLen(r) :
              RowOf(r)[j] = [seq |-> r, pos |-> CachedLenBefore(r) + j - 1]
<1>1. QueryLen(r) \in Nat \ {0} /\ CachedLenBefore(r) \in Nat /\ r \in Seqs
  BY RowIsDue
<1>2. RowOf(r) \in [1 .. QueryLen(r) -> RowTokens]
  <2>1. \A j \in 1 .. QueryLen(r) :
          [seq |-> r, pos |-> CachedLenBefore(r) + j - 1] \in RowTokens
    BY <1>1 DEF RowTokens
  <2> QED
    BY <2>1 DEF RowOf
<1>3. RowOf(r) \in Seq(RowTokens) /\ Len(RowOf(r)) = QueryLen(r)
  BY <1>1, <1>2
<1>4. \A j \in 1 .. QueryLen(r) :
        RowOf(r)[j] = [seq |-> r, pos |-> CachedLenBefore(r) + j - 1]
  BY DEF RowOf
<1> QED
  BY <1>3, <1>4

LEMMA BatchLengths ==
  ASSUME SchedInv, RanksInv
  PROVE  /\ Len(BatchSeqs) \in Nat /\ DOMAIN BatchSeqs = 1 .. Len(BatchSeqs)
         /\ \A i \in 1 .. Len(BatchSeqs) :
              /\ BatchSeqs[i] \in schedPrefill \cup schedDecode
              /\ Lengths[i] = QueryLen(BatchSeqs[i]) /\ Lengths[i] \in Nat \ {0}
         /\ \A i : TokenOffset(i) = StartOf(Lengths, i)
<1>1. EngineInv
  BY DEF SchedInv
<1>2. /\ PrefillSeqs \in Seq(Seqs) /\ DecodeSeqs \in Seq(Seqs) /\ BatchSeqs \in Seq(Seqs)
      /\ Len(BatchSeqs) = Len(PrefillSeqs) + Len(DecodeSeqs)
      /\ \A i \in 1 .. Len(PrefillSeqs) :
           BatchSeqs[i] = PrefillSeqs[i] /\ PrefillSeqs[i] \in schedPrefill
      /\ \A i \in 1 .. Len(DecodeSeqs) :
           /\ BatchSeqs[Len(PrefillSeqs) + i] = DecodeSeqs[i]
           /\ DecodeSeqs[i] \in schedDecode
  BY <1>1, BatchSeqsType
<1>3. Len(PrefillSeqs) \in Nat /\ Len(DecodeSeqs) \in Nat
  BY <1>2
<1>4. ASSUME NEW i \in 1 .. Len(BatchSeqs)
      PROVE  BatchSeqs[i] \in schedPrefill \cup schedDecode
  <2>1. CASE i \in 1 .. Len(PrefillSeqs)
    BY <1>2, <2>1
  <2>2. CASE i \notin 1 .. Len(PrefillSeqs)
    <3>1. i - Len(PrefillSeqs) \in 1 .. Len(DecodeSeqs)
          /\ i = Len(PrefillSeqs) + (i - Len(PrefillSeqs))
      BY <1>2, <1>3, <2>2
    <3> QED
      BY <1>2, <3>1
  <2> QED
    BY <2>1, <2>2
<1>5. Len(BatchSeqs) \in Nat /\ DOMAIN BatchSeqs = 1 .. Len(BatchSeqs)
  BY <1>2
<1>6. \A i \in 1 .. Len(BatchSeqs) :
        Lengths[i] = QueryLen(BatchSeqs[i]) /\ Lengths[i] \in Nat \ {0}
  BY <1>4, <1>5, RowIsDue DEF Lengths
<1> QED
  BY <1>4, <1>5, <1>6 DEF TokenOffset, Lengths

(* The batch is the rows of its sequences one after the other. *)
LEMMA BatchRows ==
  ASSUME SchedInv, RanksInv
  PROVE  /\ Batch \in Seq(RowTokens)
         /\ Len(Batch) = StartOf(Lengths, Len(BatchSeqs) + 1)
         /\ \A i \in 1 .. Len(BatchSeqs) : \A j \in 1 .. QueryLen(BatchSeqs[i]) :
              Batch[TokenOffset(i) + j] =
                [seq |-> BatchSeqs[i], pos |-> CachedLenBefore(BatchSeqs[i]) + j - 1]
<1> DEFINE n == Len(BatchSeqs)
           rows == [i \in 1 .. n |-> RowOf(BatchSeqs[i])]
<1>1. /\ n \in Nat
      /\ \A i \in 1 .. n : /\ BatchSeqs[i] \in schedPrefill \cup schedDecode
                           /\ Lengths[i] = QueryLen(BatchSeqs[i])
      /\ \A i : TokenOffset(i) = StartOf(Lengths, i)
  BY BatchLengths
<1>2. \A i \in 1 .. n : /\ RowOf(BatchSeqs[i]) \in Seq(RowTokens)
                        /\ Len(RowOf(BatchSeqs[i])) = QueryLen(BatchSeqs[i])
                        /\ \A j \in 1 .. QueryLen(BatchSeqs[i]) :
                             RowOf(BatchSeqs[i])[j] =
                               [seq |-> BatchSeqs[i],
                                pos |-> CachedLenBefore(BatchSeqs[i]) + j - 1]
  BY <1>1, RowOfType
<1>3. Batch = Lists!FlattenSeq(rows)
  BY DEF Batch
<1> HIDE DEF n
<1>4. rows \in Seq(Seq(RowTokens)) /\ Len(rows) = n
  BY <1>1, <1>2
<1>5. \A i \in 1 .. n : rows[i] = RowOf(BatchSeqs[i])
  OBVIOUS
<1> HIDE DEF rows
<1>6. \A i \in 1 .. Len(rows) : Lengths[i] = Len(rows[i])
  BY <1>1, <1>2, <1>4, <1>5
<1>7. /\ Batch \in Seq(RowTokens)
      /\ Len(Batch) = StartOf(Lengths, n + 1)
      /\ \A i \in 1 .. n : \A j \in 1 .. Len(rows[i]) :
           Batch[StartOf(Lengths, i) + j] = rows[i][j]
  <2>1. rows \in Seq(Seq(RowTokens))
    BY <1>4
  <2>2. Lists!FlattenSeq(rows) \in Seq(RowTokens)
    BY <1>6, <2>1, FlattenType
  <2>3. Len(Lists!FlattenSeq(rows)) = StartOf(Lengths, Len(rows) + 1)
    BY <1>6, <2>1, FlattenType
  <2>4. \A i \in 1 .. Len(rows) : \A j \in 1 .. Len(rows[i]) :
          Lists!FlattenSeq(rows)[StartOf(Lengths, i) + j] = rows[i][j]
    BY <1>6, <2>1, FlattenType
  <2> QED
    BY <1>3, <1>4, <2>2, <2>3, <2>4
<1>8. ASSUME NEW i \in 1 .. n, NEW j \in 1 .. QueryLen(BatchSeqs[i])
      PROVE  Batch[TokenOffset(i) + j] =
               [seq |-> BatchSeqs[i], pos |-> CachedLenBefore(BatchSeqs[i]) + j - 1]
  <2>1. rows[i] = RowOf(BatchSeqs[i]) /\ j \in 1 .. Len(rows[i])
    BY <1>2, <1>5
  <2>2. Batch[StartOf(Lengths, i) + j] = rows[i][j]
    BY <1>7, <2>1
  <2> QED
    BY <1>1, <1>2, <2>1, <2>2
<1> QED
  BY <1>7, <1>8 DEF n

(* A place in the batch is a place in the row of one sequence. *)
LEMMA PlaceInBatch ==
  ASSUME SchedInv, RanksInv, NEW row \in 1 .. Len(Batch)
  PROVE  \E i \in 1 .. Len(BatchSeqs) : \E j \in 1 .. QueryLen(BatchSeqs[i]) :
           /\ row = TokenOffset(i) + j /\ TokenOffset(i) \in Nat
           /\ Batch[row] = [seq |-> BatchSeqs[i],
                            pos |-> CachedLenBefore(BatchSeqs[i]) + j - 1]
<1> DEFINE n == Len(BatchSeqs)
<1>1. /\ n \in Nat
      /\ \A i \in 1 .. n : Lengths[i] = QueryLen(BatchSeqs[i]) /\ Lengths[i] \in Nat
      /\ \A i : TokenOffset(i) = StartOf(Lengths, i)
  BY BatchLengths
<1>2. Len(Batch) = StartOf(Lengths, n + 1)
  BY BatchRows
<1> HIDE DEF n
<1>3. PICK i \in 1 .. n : StartOf(Lengths, i) < row /\ row <= StartOf(Lengths, i) + Lengths[i]
  BY <1>1, <1>2, StartOfLocates
<1>4. StartOf(Lengths, i) \in Nat
  BY <1>1, StartOfType
<1> DEFINE j == row - StartOf(Lengths, i)
<1>5. j \in 1 .. QueryLen(BatchSeqs[i]) /\ row = TokenOffset(i) + j /\ TokenOffset(i) \in Nat
  BY <1>1, <1>3, <1>4
<1> HIDE DEF j
<1>6. Batch[TokenOffset(i) + j] = [seq |-> BatchSeqs[i],
                                   pos |-> CachedLenBefore(BatchSeqs[i]) + j - 1]
  BY <1>5, BatchRows DEF n
<1> QED
  BY <1>5, <1>6 DEF n

LEMMA SlotsAreDistinct ==
  ASSUME TablesInv, RanksInv, BlocksExclusive, Building
  PROVE  CacheWriteAccepted
<1>1. SchedInv
  BY DEF TablesInv
<1>2. DOMAIN Batch = 1 .. Len(Batch)
  BY <1>1, BatchRows
<1> SUFFICES ASSUME NEW x \in 1 .. Len(Batch), NEW y \in 1 .. Len(Batch),
                    Slot(Batch[x].seq, Batch[x].pos) = Slot(Batch[y].seq, Batch[y].pos)
             PROVE  x = y
  BY <1>2 DEF CacheWriteAccepted
<1>3. PICK i \in 1 .. Len(BatchSeqs) : \E k \in 1 .. QueryLen(BatchSeqs[i]) :
           /\ x = TokenOffset(i) + k /\ TokenOffset(i) \in Nat
           /\ Batch[x] = [seq |-> BatchSeqs[i], pos |-> CachedLenBefore(BatchSeqs[i]) + k - 1]
  BY <1>1, PlaceInBatch
<1>4. PICK k \in 1 .. QueryLen(BatchSeqs[i]) :
           /\ x = TokenOffset(i) + k /\ TokenOffset(i) \in Nat
           /\ Batch[x] = [seq |-> BatchSeqs[i], pos |-> CachedLenBefore(BatchSeqs[i]) + k - 1]
  BY <1>3
<1>5. PICK j \in 1 .. Len(BatchSeqs) : \E l \in 1 .. QueryLen(BatchSeqs[j]) :
           /\ y = TokenOffset(j) + l /\ TokenOffset(j) \in Nat
           /\ Batch[y] = [seq |-> BatchSeqs[j], pos |-> CachedLenBefore(BatchSeqs[j]) + l - 1]
  BY <1>1, PlaceInBatch
<1>6. PICK l \in 1 .. QueryLen(BatchSeqs[j]) :
           /\ y = TokenOffset(j) + l /\ TokenOffset(j) \in Nat
           /\ Batch[y] = [seq |-> BatchSeqs[j], pos |-> CachedLenBefore(BatchSeqs[j]) + l - 1]
  BY <1>5
<1>7. /\ BatchSeqs[i] \in schedPrefill \cup schedDecode
      /\ BatchSeqs[j] \in schedPrefill \cup schedDecode
  BY <1>1, BatchLengths
<1> DEFINE r == BatchSeqs[i]
           q == BatchSeqs[j]
           p == CachedLenBefore(r) + k - 1
           o == CachedLenBefore(q) + l - 1
<1>8. p \in Due(r) /\ o \in Due(q) /\ CachedLenBefore(r) \in Nat /\ CachedLenBefore(q) \in Nat
  <2>1. CachedLenBefore(r) \in Nat /\ p \in Due(r)
    BY <1>1, <1>7, RowIsDue
  <2>2. CachedLenBefore(q) \in Nat /\ o \in Due(q)
    BY <1>1, <1>7, RowIsDue
  <2> QED
    BY <2>1, <2>2
<1>9. Slot(r, p) = Slot(q, o)
  BY <1>4, <1>6
<1>10. /\ r \in Seqs /\ p \in Nat /\ tables[r] \in Seq(Blocks) /\ HasSlot(r, p)
       /\ q \in Seqs /\ o \in Nat /\ tables[q] \in Seq(Blocks) /\ HasSlot(q, o)
  BY <1>7, <1>8, DueHasSlot
<1> HIDE DEF r, q, p, o
<1>11. r = q /\ p = o
  <2>1. \A pos \in Nat, at \in Nat :
          HasSlot(r, pos) /\ HasSlot(q, at) /\ Slot(r, pos) = Slot(q, at)
            => r = q /\ pos = at
    BY <1>10, SlotOfOne
  <2> QED
    BY <1>9, <1>10, <2>1
<1>12. i = j
  <2>1. \A a, b \in 1 .. Len(BatchSeqs) : BatchSeqs[a] = BatchSeqs[b] => a = b
    BY <1>1, BatchSeqsType DEF SchedInv
  <2> QED
    BY <1>11, <2>1 DEF r, q
<1>13. k = l
  <2>1. \A c \in Nat : k \in Int /\ l \in Int /\ (c + k - 1 = c + l - 1 => k = l)
    OBVIOUS
  <2>2. CachedLenBefore(r) \in Nat /\ CachedLenBefore(r) + k - 1 = CachedLenBefore(r) + l - 1
    BY <1>8, <1>11 DEF p, o
  <2> QED
    BY <2>1, <2>2
<1> QED
  BY <1>4, <1>6, <1>12, <1>13

-----------------------------------------------------------------------------
(* The sampled tokens. *)

(* The two lists that are zipped go through the same sequences. *)
LEMMA AppliedTokensAre ==
  ASSUME SchedInv, RanksInv
  PROVE  AppliedTokens =
           {[seq |-> BatchSeqs[i], row |-> TokenOffset(i) + QueryLen(BatchSeqs[i])] :
              i \in Sampling}
<1> DEFINE n == Len(BatchSeqs)
           ends == [i \in DOMAIN BatchSeqs |-> TokenOffset(i) + QueryLen(BatchSeqs[i]) - 1]
           m == Cardinality(Sampling)
<1>1. /\ n \in Nat /\ DOMAIN BatchSeqs = 1 .. n
      /\ \A i \in 1 .. n : /\ BatchSeqs[i] \in Seqs
                           /\ QueryLen(BatchSeqs[i]) \in Nat /\ TokenOffset(i) \in Nat
  <2>1. /\ n \in Nat /\ DOMAIN BatchSeqs = 1 .. n
        /\ \A i \in 1 .. n : /\ BatchSeqs[i] \in schedPrefill \cup schedDecode
                             /\ Lengths[i] = QueryLen(BatchSeqs[i]) /\ Lengths[i] \in Nat
        /\ \A i : TokenOffset(i) = StartOf(Lengths, i)
    BY BatchLengths
  <2> HIDE DEF n
  <2>2. \A i \in 1 .. n + 1 : StartOf(Lengths, i) \in Nat
    BY <2>1, StartOfType
  <2>3. \A i \in 1 .. n : i \in 1 .. n + 1
    BY <2>1
  <2>4. \A i \in 1 .. n : BatchSeqs[i] \in Seqs
    BY <2>1, RowIsDue
  <2> QED
    BY <2>1, <2>2, <2>3, <2>4
<1> HIDE DEF n
<1>2. Sampling \subseteq 1 .. n /\ Sampling \subseteq Nat
  BY <1>1 DEF Sampling
<1>3. IsFiniteSet(Sampling)
  <2>1. IsFiniteSet(1 .. n)
    BY <1>1, FS_Interval, 1 \in Int, n \in Int
  <2> QED
    BY <1>2, <2>1, FS_Subset
<1>4. PICK kept \in [1 .. m -> Sampling] :
        /\ m \in Nat
        /\ \A i \in Sampling : \E k \in 1 .. m : kept[k] = i
        /\ \A list : Select(list, Sampling) = [k \in 1 .. m |-> list[kept[k]]]
  BY <1>2, <1>3, SelectType
<1> HIDE DEF m
<1>5. \A k \in 1 .. m : kept[k] \in Sampling /\ kept[k] \in 1 .. n
  BY <1>2
<1>6. /\ SampledSequences = [k \in 1 .. m |-> BatchSeqs[kept[k]]]
      /\ SampleTokenIndices = [k \in 1 .. m |-> ends[kept[k]]]
  BY <1>4 DEF SampledSequences, SampleTokenIndices
<1>7. \A k \in 1 .. m :
        ends[kept[k]] = TokenOffset(kept[k]) + QueryLen(BatchSeqs[kept[k]]) - 1
  BY <1>1, <1>5
<1>8. \A k \in 1 .. m : ends[kept[k]] \in Int
  BY <1>1, <1>5, <1>7
<1> HIDE DEF ends
<1>9. /\ Len(SampledSequences) = m
      /\ \A k \in 1 .. m : SampledSequences[k] = BatchSeqs[kept[k]]
  BY <1>4, <1>6
<1>10. /\ Len(SampleTokenIndices) = m /\ SampleTokenIndices \in Seq(Int)
       /\ \A k \in 1 .. m : SampleTokenIndices[k] = ends[kept[k]]
  BY <1>4, <1>6, <1>8
<1>11. CASE m = 0
  <2>1. Len(LogitRows) \in Nat
    <3>1. Len(Batch) \in Nat
      <4>1. Batch \in Seq(RowTokens)
        BY BatchRows
      <4> QED
        BY <4>1
    <3>2. [i \in 1 .. Len(Batch) |-> i - 1] \in Seq(Int)
      BY <3>1
    <3> QED
      BY <1>10, <3>2 DEF LogitRows
  <2>2. Smaller(Len(SampledSequences), Len(LogitRows)) = 0
    BY <1>9, <1>11, <2>1 DEF Smaller
  <2>3. AppliedTokens = {}
    BY <2>2 DEF AppliedTokens
  <2>4. Sampling = {}
    BY <1>4, <1>11
  <2> QED
    BY <2>3, <2>4
<1>12. CASE m # 0
  <2>1. LogitRows = SampleTokenIndices
    <3>1. SampleTokenIndices # <<>>
      BY <1>4, <1>10, <1>12
    <3> QED
      BY <3>1 DEF LogitRows
  <2>2. Smaller(Len(SampledSequences), Len(LogitRows)) = m
    BY <1>9, <1>10, <2>1 DEF Smaller
  <2>3. AppliedTokens = {[seq |-> SampledSequences[k], row |-> LogitRows[k] + 1] : k \in 1 .. m}
    BY <2>2 DEF AppliedTokens
  <2>4. ASSUME NEW k \in 1 .. m
        PROVE  /\ SampledSequences[k] = BatchSeqs[kept[k]]
               /\ LogitRows[k] + 1 = TokenOffset(kept[k]) + QueryLen(BatchSeqs[kept[k]])
    <3>1. kept[k] \in 1 .. n
      BY <1>5
    <3>2. QueryLen(BatchSeqs[kept[k]]) \in Nat /\ TokenOffset(kept[k]) \in Nat
      BY <1>1, <3>1
    <3>3. LogitRows[k] = TokenOffset(kept[k]) + QueryLen(BatchSeqs[kept[k]]) - 1
      BY <1>7, <1>10, <2>1
    <3> QED
      BY <1>9, <3>2, <3>3
  <2>5. AppliedTokens =
          {[seq |-> BatchSeqs[kept[k]],
            row |-> TokenOffset(kept[k]) + QueryLen(BatchSeqs[kept[k]])] : k \in 1 .. m}
    BY <2>3, <2>4
  <2> QED
    BY <1>4, <1>5, <2>5
<1> QED
  BY <1>11, <1>12

LEMMA TokensReachSequences ==
  ASSUME SchedInv, RanksInv
  PROVE  TokensGoToTheirSequences
<1> DEFINE n == Len(BatchSeqs)
           token(i) == [seq |-> BatchSeqs[i], row |-> TokenOffset(i) + QueryLen(BatchSeqs[i])]
<1>1. AppliedTokens = {token(i) : i \in Sampling}
  BY AppliedTokensAre
<1>2. /\ DOMAIN BatchSeqs = 1 .. n
      /\ \A i \in 1 .. n : BatchSeqs[i] \in schedPrefill \cup schedDecode
  BY BatchLengths
<1>3. /\ \A i, j \in 1 .. n : BatchSeqs[i] = BatchSeqs[j] => i = j
      /\ \A r \in schedPrefill \cup schedDecode : \E i \in 1 .. n : BatchSeqs[i] = r
  BY BatchSeqsType DEF SchedInv
<1> HIDE DEF n
<1>4. Sampling = {i \in 1 .. n : Samples(BatchSeqs[i])}
  BY <1>2 DEF Sampling
<1>5. {a.seq : a \in AppliedTokens} =
        schedDecode \cup {r \in schedPrefill : PrefillEnd(r) = Len(prompt[r])}
  <2>1. {a.seq : a \in AppliedTokens} = {BatchSeqs[i] : i \in Sampling}
    <3>1. \A i \in Sampling : token(i).seq = BatchSeqs[i]
      OBVIOUS
    <3> HIDE DEF token
    <3> QED
      BY <1>1, <3>1
  <2>2. {BatchSeqs[i] : i \in Sampling} = {r \in schedPrefill \cup schedDecode : Samples(r)}
    BY <1>2, <1>3, <1>4
  <2>3. \A r \in schedPrefill \cup schedDecode :
          Samples(r) <=> \/ r \in schedDecode
                         \/ r \in schedPrefill /\ PrefillEnd(r) = Len(prompt[r])
    BY RowIsDue
  <2> QED
    BY <2>1, <2>2, <2>3
<1>6. ASSUME NEW i \in Sampling
      PROVE  Batch[token(i).row] = [seq |-> token(i).seq, pos |-> KVLenAfter(token(i).seq) - 1]
  <2> DEFINE r == BatchSeqs[i]
  <2>1. i \in 1 .. n /\ r \in schedPrefill \cup schedDecode
    BY <1>2, <1>4
  <2>2. /\ QueryLen(r) \in Nat \ {0} /\ CachedLenBefore(r) \in Nat
        /\ KVLenAfter(r) = CachedLenBefore(r) + QueryLen(r)
    BY <2>1, RowIsDue
  <2>3. QueryLen(r) \in 1 .. QueryLen(r)
    BY <2>2
  <2>4. Batch[TokenOffset(i) + QueryLen(r)] =
          [seq |-> r, pos |-> CachedLenBefore(r) + QueryLen(r) - 1]
    BY <2>1, <2>3, BatchRows DEF n
  <2> QED
    BY <2>2, <2>4
<1>7. \A a \in AppliedTokens : Batch[a.row] = [seq |-> a.seq, pos |-> KVLenAfter(a.seq) - 1]
  BY <1>1, <1>6
<1>8. \A a, b \in AppliedTokens : a.seq = b.seq => a = b
  <2>1. ASSUME NEW i \in Sampling, NEW j \in Sampling, token(i).seq = token(j).seq
        PROVE  token(i) = token(j)
    BY <1>3, <1>4, <2>1
  <2> HIDE DEF token
  <2> QED
    BY <1>1, <2>1
<1> QED
  BY <1>5, <1>7, <1>8 DEF TokensGoToTheirSequences

-----------------------------------------------------------------------------
(* The groups. *)

LEMMA GroupsType ==
  ASSUME SchedInv, RanksInv
  PROVE  /\ PrefillGroup.seqIndices = [i \in 1 .. Len(PrefillSeqs) |-> i - 1]
         /\ PrefillGroup.queryLen = [i \in 1 .. Len(PrefillSeqs) |-> QueryLen(PrefillSeqs[i])]
         /\ PrefillGroup.kvLenAfter = [i \in 1 .. Len(PrefillSeqs) |-> KVLenAfter(PrefillSeqs[i])]
         /\ DecodeGroup.seqIndices = [i \in 1 .. Len(DecodeSeqs) |-> i - 1]
         /\ DecodeGroup.queryLen = [i \in 1 .. Len(DecodeSeqs) |-> QueryLen(DecodeSeqs[i])]
         /\ DecodeGroup.kvLenAfter = [i \in 1 .. Len(DecodeSeqs) |-> KVLenAfter(DecodeSeqs[i])]
         /\ Len(PrefillSeqs) \in Nat /\ Len(DecodeSeqs) \in Nat
<1>1. Len(PrefillSeqs) \in Nat /\ Len(DecodeSeqs) \in Nat
  BY BatchSeqsType DEF SchedInv
<1>2. [i \in 1 .. Len(PrefillSeqs) |-> 0 + i - 1] = [i \in 1 .. Len(PrefillSeqs) |-> i - 1]
  OBVIOUS
<1>3. DecodeGroup.seqIndices = [i \in 1 .. Len(DecodeSeqs) |-> i - 1]
  BY DEF DecodeGroup, BuiltDecodeGroup, Group
<1> QED
  BY <1>1, <1>2, <1>3 DEF PrefillGroup, DecodeGroup, BuiltDecodeGroup, Group

(* The backends' offsets are the builder's. *)
LEMMA OffsetsAgree ==
  ASSUME SchedInv, RanksInv
  PROVE  /\ \A i \in 1 .. Len(PrefillSeqs) + 1 : QueryOffset(i) = TokenOffset(i)
         /\ NumPrefillTokens = TokenOffset(Len(PrefillSeqs) + 1)
         /\ \A i \in 1 .. Len(DecodeSeqs) + 1 :
              TokenOffset(Len(PrefillSeqs) + i) = NumPrefillTokens + i - 1
         /\ NumPrefillTokens \in Nat
<1> DEFINE np == Len(PrefillSeqs)
           nd == Len(DecodeSeqs)
           n == Len(BatchSeqs)
<1>1. /\ PrefillGroup.queryLen = [i \in 1 .. np |-> QueryLen(PrefillSeqs[i])]
      /\ np \in Nat /\ nd \in Nat
  BY GroupsType
<1>2. /\ n = np + nd
      /\ \A i \in 1 .. np : BatchSeqs[i] = PrefillSeqs[i] /\ PrefillSeqs[i] \in schedPrefill
      /\ \A i \in 1 .. nd : BatchSeqs[np + i] = DecodeSeqs[i] /\ DecodeSeqs[i] \in schedDecode
  BY BatchSeqsType DEF SchedInv
<1>3. /\ \A i \in 1 .. n : Lengths[i] = QueryLen(BatchSeqs[i]) /\ Lengths[i] \in Nat
      /\ \A i : TokenOffset(i) = StartOf(Lengths, i)
  BY BatchLengths
<1> HIDE DEF np, nd, n
<1>4. \A i \in 1 .. np : PrefillGroup.queryLen[i] = Lengths[i]
  BY <1>1, <1>2, <1>3
<1>5. ASSUME NEW i \in 1 .. np + 1
      PROVE  StartOf(PrefillGroup.queryLen, i) = TokenOffset(i)
  <2>1. \A k \in 1 .. i - 1 : PrefillGroup.queryLen[k] = Lengths[k]
    BY <1>1, <1>4
  <2>2. i \in Nat \ {0}
    BY <1>1
  <2> QED
    BY <1>3, <2>1, <2>2, StartOfSame
<1>6. NumPrefillTokens = TokenOffset(np + 1)
  BY <1>1, <1>5 DEF NumPrefillTokens, np
<1>7. NumPrefillTokens \in Nat
  <2>1. np + 1 \in 1 .. n + 1
    BY <1>1, <1>2
  <2>2. n \in Nat
    BY <1>1, <1>2
  <2> QED
    BY <1>3, <1>6, <2>1, <2>2, StartOfType
<1> DEFINE Bad == {i \in 1 .. nd + 1 : TokenOffset(np + i) # NumPrefillTokens + i - 1}
<1>8. Bad = {}
  <2> SUFFICES ASSUME Bad # {} PROVE FALSE
    OBVIOUS
  <2>1. PICK m \in Bad : \A k \in Bad : m <= k
    <3>1. Bad \subseteq Nat
      OBVIOUS
    <3> HIDE DEF Bad
    <3> QED
      BY <3>1, NatMin
  <2>2. m # 1
    BY <1>6, <1>7, <2>1
  <2>3. m - 1 \in 1 .. nd /\ np + (m - 1) \in 1 .. n /\ (np + (m - 1)) + 1 = np + m
    BY <1>1, <1>2, <2>1, <2>2
  <2>4. StartOf(Lengths, (np + (m - 1)) + 1) =
          StartOf(Lengths, np + (m - 1)) + Lengths[np + (m - 1)]
    <3>1. np + (m - 1) \in Nat \ {0}
      BY <2>3
    <3> QED
      BY <3>1, StartOfStep
  <2>5. Lengths[np + (m - 1)] = 1
    <3>1. DecodeSeqs[m - 1] \in schedDecode /\ BatchSeqs[np + (m - 1)] = DecodeSeqs[m - 1]
      BY <1>2, <2>3
    <3>2. QueryLen(DecodeSeqs[m - 1]) = 1
      BY <3>1, RowIsDue
    <3> QED
      BY <1>3, <2>3, <3>1, <3>2
  <2>6. TokenOffset(np + (m - 1)) = NumPrefillTokens + (m - 1) - 1
    BY <1>1, <2>1, <2>3
  <2> QED
    BY <1>3, <1>7, <2>1, <2>3, <2>4, <2>5, <2>6
<1> QED
  BY <1>5, <1>6, <1>7, <1>8 DEF QueryOffset, np, nd

(* A row of the batch is one of a prefill's chunk, or a decode. *)
ChunkRow(i, j, row) ==
  /\ i \in 1 .. Len(PrefillSeqs) /\ PrefillSeqs[i] \in schedPrefill
  /\ j \in 1 .. QueryLen(PrefillSeqs[i])
  /\ row = TokenOffset(i) + j /\ row <= NumPrefillTokens
  /\ TokenOffset(i) \in Nat /\ QueryOffset(i) = TokenOffset(i) /\ PrefillOfRow(row) = i
  /\ \A k \in 1 .. QueryLen(PrefillSeqs[i]) :
       Batch[TokenOffset(i) + k] =
         [seq |-> PrefillSeqs[i], pos |-> CachedLenBefore(PrefillSeqs[i]) + k - 1]

DecodeRow(i, row) ==
  /\ i \in 1 .. Len(DecodeSeqs) /\ DecodeSeqs[i] \in schedDecode
  /\ row > NumPrefillTokens /\ row - NumPrefillTokens = i
  /\ Batch[row] = [seq |-> DecodeSeqs[i], pos |-> CachedLenBefore(DecodeSeqs[i])]

LEMMA RowCases ==
  ASSUME SchedInv, RanksInv, NEW row \in 1 .. Len(Batch)
  PROVE  (\E i, j : ChunkRow(i, j, row)) \/ (\E i : DecodeRow(i, row))
<1> DEFINE np == Len(PrefillSeqs)
           nd == Len(DecodeSeqs)
           n == Len(BatchSeqs)
<1>1. /\ n = np + nd
      /\ \A i \in 1 .. np : BatchSeqs[i] = PrefillSeqs[i] /\ PrefillSeqs[i] \in schedPrefill
      /\ \A i \in 1 .. nd : BatchSeqs[np + i] = DecodeSeqs[i] /\ DecodeSeqs[i] \in schedDecode
  BY BatchSeqsType DEF SchedInv
<1>2. /\ \A i \in 1 .. n : Lengths[i] = QueryLen(BatchSeqs[i]) /\ Lengths[i] \in Nat
      /\ \A i : TokenOffset(i) = StartOf(Lengths, i)
  BY BatchLengths
<1>3. /\ PrefillGroup.queryLen = [i \in 1 .. np |-> QueryLen(PrefillSeqs[i])]
      /\ np \in Nat /\ nd \in Nat
  BY GroupsType
<1>4. /\ \A i \in 1 .. np + 1 : QueryOffset(i) = TokenOffset(i)
      /\ NumPrefillTokens = TokenOffset(np + 1)
      /\ \A i \in 1 .. nd + 1 : TokenOffset(np + i) = NumPrefillTokens + i - 1
      /\ NumPrefillTokens \in Nat
  BY OffsetsAgree
<1>5. PICK i \in 1 .. n : \E j \in 1 .. QueryLen(BatchSeqs[i]) :
        /\ row = TokenOffset(i) + j /\ TokenOffset(i) \in Nat
        /\ Batch[row] = [seq |-> BatchSeqs[i], pos |-> CachedLenBefore(BatchSeqs[i]) + j - 1]
  BY PlaceInBatch
<1>6. PICK j \in 1 .. QueryLen(BatchSeqs[i]) :
        /\ row = TokenOffset(i) + j /\ TokenOffset(i) \in Nat
        /\ Batch[row] = [seq |-> BatchSeqs[i], pos |-> CachedLenBefore(BatchSeqs[i]) + j - 1]
  BY <1>5
<1>7. \A k \in 1 .. QueryLen(BatchSeqs[i]) :
        Batch[TokenOffset(i) + k] =
          [seq |-> BatchSeqs[i], pos |-> CachedLenBefore(BatchSeqs[i]) + k - 1]
  BY BatchRows
<1> HIDE DEF np, nd, n
<1>8. CASE i \in 1 .. np
  <2>1. BatchSeqs[i] = PrefillSeqs[i] /\ PrefillSeqs[i] \in schedPrefill
    BY <1>1, <1>8
  <2>2. \A k \in 1 .. np : Lengths[k] \in Nat /\ PrefillGroup.queryLen[k] = Lengths[k]
    BY <1>1, <1>2, <1>3
  <2>3. TokenOffset(i) + Lengths[i] <= NumPrefillTokens
    <3>1. np + 1 \in 1 .. np + 1 /\ i < np + 1
      BY <1>3, <1>8
    <3> QED
      BY <1>2, <1>3, <1>4, <1>8, <2>2, <3>1, StartOfMonotone
  <2>4. row <= NumPrefillTokens /\ row \in Nat /\ row <= TokenOffset(i) + Lengths[i]
        /\ TokenOffset(i) < row
    BY <1>2, <1>4, <1>6, <2>3
  <2>5. PrefillOfRow(row) = i
    <3>1. Len(PrefillGroup.queryLen) = np
      BY <1>3
    <3>2. \A k \in 1 .. np : k \in 1 .. np + 1
      BY <1>3
    <3>3. \A k \in 1 .. np : QueryOffset(k) = StartOf(Lengths, k)
      BY <1>2, <1>4, <3>2
    <3>4. QueryOffset(i) < row /\ row <= QueryOffset(i) + PrefillGroup.queryLen[i]
      BY <1>2, <1>8, <2>2, <2>4, <3>3
    <3>5. ASSUME NEW k \in 1 .. np,
                 QueryOffset(k) < row, row <= QueryOffset(k) + PrefillGroup.queryLen[k]
          PROVE  k = i
      <4>1. StartOf(Lengths, k) < row /\ row <= StartOf(Lengths, k) + Lengths[k]
        BY <2>2, <3>3, <3>5
      <4>2. StartOf(Lengths, i) < row /\ row <= StartOf(Lengths, i) + Lengths[i]
        BY <1>2, <2>4
      <4> QED
        BY <1>3, <1>8, <2>2, <2>4, <4>1, <4>2, StartOfUnique
    <3> QED
      BY <1>8, <3>1, <3>4, <3>5 DEF PrefillOfRow
  <2>6. QueryOffset(i) = TokenOffset(i)
    BY <1>3, <1>4, <1>8
  <2>7. ChunkRow(i, j, row)
    BY <1>6, <1>7, <1>8, <2>1, <2>4, <2>5, <2>6 DEF ChunkRow, np
  <2> QED
    BY <2>7
<1>9. CASE i \notin 1 .. np
  <2> DEFINE d == i - np
  <2>1. d \in 1 .. nd /\ d \in 1 .. nd + 1 /\ i = np + d
    BY <1>1, <1>3, <1>9
  <2> HIDE DEF d
  <2>2. BatchSeqs[i] = DecodeSeqs[d] /\ DecodeSeqs[d] \in schedDecode
    BY <1>1, <2>1
  <2>3. QueryLen(DecodeSeqs[d]) = 1 /\ CachedLenBefore(DecodeSeqs[d]) \in Nat
    BY <2>2, RowIsDue
  <2>4. j = 1
    BY <1>6, <2>2, <2>3
  <2>5. TokenOffset(i) = NumPrefillTokens + d - 1
    BY <1>4, <2>1
  <2>6. row > NumPrefillTokens /\ row - NumPrefillTokens = d
    BY <1>4, <1>6, <2>1, <2>4, <2>5
  <2>7. Batch[row] = [seq |-> DecodeSeqs[d], pos |-> CachedLenBefore(DecodeSeqs[d])]
    BY <1>6, <2>2, <2>3, <2>4
  <2>8. DecodeRow(d, row)
    BY <2>1, <2>2, <2>6, <2>7 DEF DecodeRow, nd
  <2> QED
    BY <2>8
<1> QED
  BY <1>8, <1>9

-----------------------------------------------------------------------------
(* The padded block tables. *)

LEMMA NatMax ==
  ASSUME NEW T, T \subseteq Nat, IsFiniteSet(T), T # {}
  PROVE  \E m \in T : \A k \in T : k <= m
<1> DEFINE n == Cardinality(T)
           key == [i \in T |-> i]
           list == InOrder(T, key)
<1>1. /\ n \in Nat /\ list \in [1 .. n -> T]
      /\ \A i, j \in 1 .. n : i < j => key[list[i]] < key[list[j]]
      /\ \A s \in T : \E i \in 1 .. n : list[i] = s
  <2>1. Distinct(T, key)
    BY IndicesDistinct
  <2> HIDE DEF key
  <2> QED
    BY <2>1, InOrderType
<1> HIDE DEF list, n
<1>2. n \in 1 .. n
  <2>1. PICK s \in T : TRUE
    OBVIOUS
  <2>2. PICK i \in 1 .. n : list[i] = s
    BY <1>1, <2>1
  <2> QED
    BY <1>1, <2>2
<1>3. \A i \in 1 .. n : list[i] \in T /\ key[list[i]] = list[i]
  BY <1>1
<1>4. ASSUME NEW k \in T PROVE k <= list[n]
  <2>1. PICK i \in 1 .. n : list[i] = k
    BY <1>1
  <2>2. i = n \/ i < n
    BY <1>1
  <2>3. i < n => list[i] < list[n]
    BY <1>1, <1>2, <1>3
  <2>4. list[n] \in Nat /\ k \in Nat
    BY <1>2, <1>3
  <2> QED
    BY <2>1, <2>2, <2>3, <2>4
<1> QED
  BY <1>2, <1>3, <1>4

LEMMA TablesFitTensor ==
  ASSUME SchedInv
  PROVE  /\ MaxBlocks \in Nat
         /\ \A r \in schedPrefill \cup schedDecode :
              Len(tables[r]) \in Nat /\ Len(tables[r]) <= MaxBlocks
<1> DEFINE S == schedPrefill \cup schedDecode
           lengths == {Len(tables[r]) : r \in S}
           len == [r \in S |-> Len(tables[r])]
<1>1. S \subseteq Seqs /\ \A r \in S : Len(tables[r]) \in Nat
  <2>1. \A r \in S : r \in running
    BY BudgetsType DEF SchedInv
  <2> QED
    BY <2>1, RunningTypes
<1>2. IsFiniteSet(S)
  BY <1>1, SeqsFinite
<1>3. IsFiniteSet(lengths)
  <2>1. len \in Surjection(S, lengths)
    BY DEF Surjection
  <2> HIDE DEF S, lengths, len
  <2> QED
    BY <1>2, <2>1, FS_Surjection
<1>4. lengths \subseteq Nat
  BY <1>1
<1> DEFINE T == lengths \cup {1}
<1>5. \E m \in T : \A k \in T : k <= m
  <2>1. T \subseteq Nat /\ T # {}
    BY <1>4
  <2>2. IsFiniteSet(T)
    <3> HIDE DEF lengths
    <3> QED
      BY <1>3, FS_AddElement
  <2> HIDE DEF T
  <2> QED
    BY <2>1, <2>2, NatMax
<1>6. MaxBlocks \in T /\ \A k \in T : k <= MaxBlocks
  BY <1>5 DEF MaxBlocks
<1> QED
  BY <1>1, <1>4, <1>6

(* A row of the tensor is a table with padding, which BlockIds() removes. *)
LEMMA TensorRow ==
  ASSUME SchedInv, NEW seqs, NEW i \in 1 .. Len(seqs), NEW r \in schedPrefill \cup schedDecode,
         seqs[i] = r, tables[r] \in Seq(Blocks)
  PROVE  /\ \A k \in 1 .. Len(tables[r]) :
              /\ BlockTableTensor(seqs)[i][k] = tables[r][k]
              /\ tables[r][k] # Padding
         /\ BlockIds(BlockTableTensor(seqs)[i]) = tables[r]
<1> DEFINE row == BlockTableTensor(seqs)[i]
           n == Len(tables[r])
<1>1. MaxBlocks \in Nat /\ n \in Nat /\ n <= MaxBlocks
  BY TablesFitTensor
<1>2. row = [j \in 1 .. MaxBlocks |-> IF j <= n THEN tables[r][j] ELSE Padding]
  BY DEF BlockTableTensor
<1>3. \A k \in 1 .. n : tables[r][k] \in Blocks /\ tables[r][k] # Padding
  <2>1. \A b \in Blocks : b # Padding
    BY NumBlocksAssumption DEF Blocks, Padding
  <2>2. \A k \in 1 .. n : tables[r][k] \in Blocks
    OBVIOUS
  <2> QED
    BY <2>1, <2>2
<1> HIDE DEF row
<1>4. \A k \in 1 .. n : row[k] = tables[r][k]
  BY <1>1, <1>2
<1>5. {j \in DOMAIN row : row[j] # Padding} = 1 .. n
  <2>1. DOMAIN row = 1 .. MaxBlocks
    BY <1>2
  <2>2. \A j \in 1 .. MaxBlocks : row[j] # Padding <=> j \in 1 .. n
    BY <1>1, <1>2, <1>3
  <2>3. \A j \in 1 .. n : j \in 1 .. MaxBlocks
    BY <1>1
  <2> QED
    BY <2>1, <2>2, <2>3
<1>6. BlockIds(row) = [k \in 1 .. n |-> row[k]]
  <2>1. BlockIds(row) = Select(row, 1 .. n)
    BY <1>5 DEF BlockIds
  <2> QED
    BY <1>1, <2>1, SelectPrefix
<1>7. tables[r] = [k \in 1 .. n |-> tables[r][k]]
  OBVIOUS
<1>8. BlockIds(row) = tables[r]
  BY <1>4, <1>6, <1>7
<1> QED
  BY <1>3, <1>4, <1>8 DEF row

-----------------------------------------------------------------------------
(* What the backends read. *)

Causal(r, n) == [p \in 1 .. n |-> Context(r, p - 1)]

(* Reading p - 1 through a list of blocks that begins with the table. *)
LEMMA ReadThroughTable ==
  ASSUME TablesInv, BlocksExclusive, KVIntact, Building,
         NEW r \in schedPrefill \cup schedDecode, NEW ids,
         \A k \in 1 .. Len(tables[r]) : ids[k] = tables[r][k],
         NEW p \in 1 .. KVLenAfter(r)
  PROVE  /\ (p - 1) \div BlockSize \in Nat /\ (p - 1) \div BlockSize + 1 \in 1 .. Len(tables[r])
         /\ After([block |-> ids[(p - 1) \div BlockSize + 1],
                   offset |-> (p - 1) % BlockSize]) = Context(r, p - 1)
<1>1. /\ KVLenAfter(r) \in Nat /\ CachedLenBefore(r) = KVLen(r) /\ CachedLenBefore(r) \in Nat
      /\ Due(r) = CachedLenBefore(r) .. KVLenAfter(r) - 1
  BY RowIsDue DEF TablesInv
<1> DEFINE pos == p - 1
<1>2. pos \in Due(r) \/ pos \in 0 .. KVLen(r) - 1
  BY <1>1
<1>3. /\ pos \in Nat /\ r \in Seqs /\ tables[r] \in Seq(Blocks) /\ HasSlot(r, pos)
      /\ KVAfterWrite[Slot(r, pos).block][Slot(r, pos).offset] = Context(r, pos)
  <2> HIDE DEF pos
  <2> QED
    BY <1>2, HeldAfterWrite
<1> HIDE DEF pos
<1>4. pos \div BlockSize \in Nat /\ pos \div BlockSize + 1 \in 1 .. Len(tables[r])
  BY <1>3, SlotInTable, BlockSizePositive DEF HasSlot
<1>5. [block |-> ids[pos \div BlockSize + 1], offset |-> pos % BlockSize] = Slot(r, pos)
  BY <1>4 DEF Slot
<1> QED
  BY <1>3, <1>4, <1>5 DEF After, pos

LEMMA CausalOfMask ==
  ASSUME NEW r, NEW n \in Nat, NEW m \in Nat, m <= n, NEW keys,
         Len(keys) = n, \A p \in 1 .. m : keys[p] = Context(r, p - 1),
         NEW cached, NEW j, cached + j = m
  PROVE  CausalMask(keys, cached, j) = Causal(r, m)
<1>1. Smaller(Len(keys), cached + j) = m
  BY DEF Smaller
<1> QED
  BY <1>1 DEF CausalMask, Causal

(* The causal attention of a chunk's j-th row, and of a decode. *)
LEMMA CausalOfChunk ==
  ASSUME SchedInv, RanksInv, NEW row \in DOMAIN Batch, NEW i, NEW j, ChunkRow(i, j, row)
  PROVE  /\ CausalAttention[row] = Causal(PrefillSeqs[i], CachedLenBefore(PrefillSeqs[i]) + j)
         /\ CachedLenBefore(PrefillSeqs[i]) \in Nat /\ QueryLen(PrefillSeqs[i]) \in Nat
         /\ KVLenAfter(PrefillSeqs[i]) = CachedLenBefore(PrefillSeqs[i]) + QueryLen(PrefillSeqs[i])
         /\ CachedLen(PrefillGroup, i) = CachedLenBefore(PrefillSeqs[i])
         /\ PrefillGroup.kvLenAfter[i] = KVLenAfter(PrefillSeqs[i])
         /\ PrefillGroup.queryLen[i] = QueryLen(PrefillSeqs[i])
         /\ PrefillGroup.seqIndices[i] + 1 = i
         /\ row - QueryOffset(i) = j
<1> DEFINE r == PrefillSeqs[i]
<1>1. /\ i \in 1 .. Len(PrefillSeqs) /\ r \in schedPrefill /\ j \in 1 .. QueryLen(r)
      /\ row = TokenOffset(i) + j /\ TokenOffset(i) \in Nat /\ QueryOffset(i) = TokenOffset(i)
      /\ Batch[row] = [seq |-> r, pos |-> CachedLenBefore(r) + j - 1]
  BY DEF ChunkRow
<1>2. /\ CachedLenBefore(r) \in Nat /\ QueryLen(r) \in Nat
      /\ KVLenAfter(r) = CachedLenBefore(r) + QueryLen(r)
  BY <1>1, RowIsDue
<1>3. /\ PrefillGroup.kvLenAfter[i] = KVLenAfter(r) /\ PrefillGroup.queryLen[i] = QueryLen(r)
      /\ PrefillGroup.seqIndices[i] = i - 1 /\ Len(PrefillSeqs) \in Nat
  BY <1>1, GroupsType
<1> HIDE DEF r
<1>4. CachedLen(PrefillGroup, i) = CachedLenBefore(r) /\ PrefillGroup.seqIndices[i] + 1 = i
  BY <1>1, <1>2, <1>3 DEF CachedLen
<1>5. Batch[row].pos + 1 = CachedLenBefore(r) + j /\ Batch[row].seq = r
  BY <1>1, <1>2
<1>6. CausalAttention[row] = Causal(r, CachedLenBefore(r) + j)
  BY <1>5 DEF CausalAttention, Causal
<1>7. row - QueryOffset(i) = j
  BY <1>1, <1>2
<1> QED
  BY <1>2, <1>3, <1>4, <1>6, <1>7 DEF r

LEMMA CausalOfDecode ==
  ASSUME SchedInv, RanksInv, NEW row \in DOMAIN Batch, NEW i, DecodeRow(i, row)
  PROVE  /\ CausalAttention[row] = Causal(DecodeSeqs[i], KVLenAfter(DecodeSeqs[i]))
         /\ KVLenAfter(DecodeSeqs[i]) \in Nat \ {0}
         /\ CachedLen(DecodeGroup, i) + 1 = KVLenAfter(DecodeSeqs[i])
         /\ DecodeGroup.kvLenAfter[i] = KVLenAfter(DecodeSeqs[i])
         /\ DecodeGroup.seqIndices[i] + 1 = i
<1> DEFINE r == DecodeSeqs[i]
<1>1. /\ i \in 1 .. Len(DecodeSeqs) /\ r \in schedDecode
      /\ Batch[row] = [seq |-> r, pos |-> CachedLenBefore(r)]
  BY DEF DecodeRow
<1>2. /\ CachedLenBefore(r) \in Nat /\ QueryLen(r) = 1
      /\ KVLenAfter(r) = CachedLenBefore(r) + QueryLen(r)
  BY <1>1, RowIsDue
<1>3. /\ DecodeGroup.kvLenAfter[i] = KVLenAfter(r) /\ DecodeGroup.queryLen[i] = QueryLen(r)
      /\ DecodeGroup.seqIndices[i] = i - 1 /\ Len(DecodeSeqs) \in Nat
  BY <1>1, GroupsType
<1> HIDE DEF r
<1>4. CachedLen(DecodeGroup, i) + 1 = KVLenAfter(r) /\ DecodeGroup.seqIndices[i] + 1 = i
  BY <1>1, <1>2, <1>3 DEF CachedLen
<1>5. Batch[row].pos + 1 = KVLenAfter(r) /\ Batch[row].seq = r
  BY <1>1, <1>2
<1>6. CausalAttention[row] = Causal(r, KVLenAfter(r))
  BY <1>5 DEF CausalAttention, Causal
<1> QED
  BY <1>2, <1>3, <1>4, <1>6 DEF r

-----------------------------------------------------------------------------
(* The reference backend. *)

LEMMA GatheredType ==
  ASSUME TablesInv, BlocksExclusive, KVIntact, Building,
         NEW r \in schedPrefill \cup schedDecode,
         NEW n \in 0 .. KVLenAfter(r)
  PROVE  GatherPagedKV(tables[r], n) = Causal(r, n)
<1>1. ASSUME NEW p \in 1 .. n
      PROVE  After([block |-> tables[r][(p - 1) \div BlockSize + 1],
                    offset |-> (p - 1) % BlockSize]) = Context(r, p - 1)
  <2>1. KVLenAfter(r) \in Nat
    BY RowIsDue DEF TablesInv
  <2>2. p \in 1 .. KVLenAfter(r)
    BY <2>1
  <2> QED
    BY <2>2, ReadThroughTable
<1> QED
  BY <1>1 DEF GatherPagedKV, Causal

LEMMA RefComputesCausal ==
  ASSUME TablesInv, RanksInv, BlocksExclusive, KVIntact, Building
  PROVE  RefAttention = CausalAttention
<1>1. SchedInv
  BY DEF TablesInv
<1>2. DOMAIN Batch = 1 .. Len(Batch)
  BY <1>1, BatchRows
<1>3. ASSUME NEW row \in DOMAIN Batch, NEW i, NEW j, ChunkRow(i, j, row)
      PROVE  RefAttention[row] = CausalAttention[row]
  <2> DEFINE r == PrefillSeqs[i]
             cached == CachedLenBefore(r)
  <2>1. /\ CausalAttention[row] = Causal(r, cached + j)
        /\ cached \in Nat /\ QueryLen(r) \in Nat /\ KVLenAfter(r) = cached + QueryLen(r)
        /\ CachedLen(PrefillGroup, i) = cached
        /\ PrefillGroup.kvLenAfter[i] = KVLenAfter(r)
        /\ PrefillGroup.seqIndices[i] + 1 = i
        /\ row - QueryOffset(i) = j
    BY <1>1, <1>3, CausalOfChunk
  <2>2. /\ i \in 1 .. Len(PrefillSeqs) /\ r \in schedPrefill /\ j \in 1 .. QueryLen(r)
        /\ row <= NumPrefillTokens /\ PrefillOfRow(row) = i
    BY <1>3 DEF ChunkRow
  <2>3. tables[r] \in Seq(Blocks)
    BY <1>1, <2>2, RowIsDue, RunningTypes
  <2>4. BlockIds(PrefillTables[PrefillGroup.seqIndices[i] + 1]) = tables[r]
    BY <1>1, <2>1, <2>2, <2>3, TensorRow DEF PrefillTables
  <2> HIDE DEF r, cached
  <2>5. RefAttention[row] =
          CausalMask(GatherPagedKV(tables[r], KVLenAfter(r)), cached, j)
    BY <2>1, <2>2, <2>4 DEF RefAttention, RefPrefill
  <2>6. GatherPagedKV(tables[r], KVLenAfter(r)) = Causal(r, KVLenAfter(r))
    BY <2>1, <2>2, GatheredType
  <2>7. /\ KVLenAfter(r) \in Nat /\ cached + j \in Nat /\ cached + j <= KVLenAfter(r)
        /\ Len(Causal(r, KVLenAfter(r))) = KVLenAfter(r)
        /\ \A p \in 1 .. cached + j : Causal(r, KVLenAfter(r))[p] = Context(r, p - 1)
    BY <2>1, <2>2 DEF Causal
  <2>8. CausalMask(Causal(r, KVLenAfter(r)), cached, j) = Causal(r, cached + j)
    BY <2>7, CausalOfMask
  <2> QED
    BY <2>1, <2>5, <2>6, <2>8
<1>4. ASSUME NEW row \in DOMAIN Batch, NEW i, DecodeRow(i, row)
      PROVE  RefAttention[row] = CausalAttention[row]
  <2> DEFINE r == DecodeSeqs[i]
  <2>1. /\ CausalAttention[row] = Causal(r, KVLenAfter(r)) /\ KVLenAfter(r) \in Nat \ {0}
        /\ CachedLen(DecodeGroup, i) + 1 = KVLenAfter(r)
        /\ DecodeGroup.seqIndices[i] + 1 = i
    BY <1>1, <1>4, CausalOfDecode
  <2>2. /\ i \in 1 .. Len(DecodeSeqs) /\ r \in schedDecode
        /\ row > NumPrefillTokens /\ row - NumPrefillTokens = i
    BY <1>4 DEF DecodeRow
  <2>3. tables[r] \in Seq(Blocks)
    BY <1>1, <2>2, RowIsDue, RunningTypes
  <2>4. BlockIds(DecodeTables[DecodeGroup.seqIndices[i] + 1]) = tables[r]
    BY <1>1, <2>1, <2>2, <2>3, TensorRow DEF DecodeTables
  <2>5. ~ (row <= NumPrefillTokens)
    BY <1>1, <1>2, <2>2, OffsetsAgree
  <2> HIDE DEF r
  <2>6. RefAttention[row] = GatherPagedKV(tables[r], KVLenAfter(r))
    BY <2>1, <2>2, <2>4, <2>5 DEF RefAttention, RefDecode
  <2>7. GatherPagedKV(tables[r], KVLenAfter(r)) = Causal(r, KVLenAfter(r))
    BY <2>1, <2>2, GatheredType
  <2> QED
    BY <2>1, <2>6, <2>7
<1>5. \A row \in DOMAIN Batch : RefAttention[row] = CausalAttention[row]
  BY <1>1, <1>2, <1>3, <1>4, RowCases
<1> QED
  BY <1>5 DEF RefAttention, CausalAttention

-----------------------------------------------------------------------------
(* The GPU backend. *)

(* Dividing a position that is given by its block and its offset. *)
LEMMA BlockAndOffset ==
  ASSUME NEW k \in Nat, NEW o \in 0 .. BlockSize - 1
  PROVE  /\ k * BlockSize + o \in Nat
         /\ (k * BlockSize + o) \div BlockSize = k
         /\ (k * BlockSize + o) % BlockSize = o
<1> DEFINE pos == k * BlockSize + o
           d == pos \div BlockSize
<1>1. k * BlockSize \in Nat /\ (k + 1) * BlockSize = k * BlockSize + BlockSize
      /\ o \in Nat /\ o < BlockSize /\ BlockSize \in Nat
  BY BlockSizePositive
<1>2. pos \in Nat /\ ~ (pos < k * BlockSize) /\ pos < (k + 1) * BlockSize
  BY <1>1
<1>3. /\ pos = BlockSize * (pos \div BlockSize) + (pos % BlockSize)
      /\ pos \div BlockSize \in Nat
  BY <1>2, BlockSizePositive
<1> HIDE DEF pos
<1>4. d = k
  <2>1. ~ (d < k) /\ d < k + 1
    BY <1>2, BlockOfPosition, k + 1 \in Nat
  <2> QED
    BY <1>3, <2>1
<1>5. pos % BlockSize = o
  <2>1. pos = BlockSize * k + (pos % BlockSize) /\ pos % BlockSize \in Int
    BY <1>2, <1>3, <1>4, BlockSizePositive
  <2>2. pos = k * BlockSize + o
    BY DEF pos
  <2>3. BlockSize * k = k * BlockSize
    BY BlockSizePositive
  <2> QED
    BY <1>1, <2>1, <2>2, <2>3
<1> QED
  BY <1>2, <1>4, <1>5 DEF pos

LEMMA PrefixType ==
  ASSUME TablesInv, BlocksExclusive, KVIntact, Building,
         NEW r \in schedPrefill \cup schedDecode, NEW ids,
         \A k \in 1 .. Len(tables[r]) : ids[k] = tables[r][k],
         NEW n \in 0 .. KVLenAfter(r)
  PROVE  GatherPrefixKV(ids, n) = Causal(r, n)
<1>1. ASSUME NEW p \in 1 .. n
      PROVE  After([block |-> ids[(p - 1) \div BlockSize + 1],
                    offset |-> (p - 1) % BlockSize]) = Context(r, p - 1)
  <2>1. KVLenAfter(r) \in Nat
    BY RowIsDue DEF TablesInv
  <2>2. p \in 1 .. KVLenAfter(r)
    BY <2>1
  <2> QED
    BY <2>2, ReadThroughTable
<1> QED
  BY <1>1 DEF GatherPrefixKV, Causal

Contexts(r) == {Context(r, pos) : pos \in Nat}

(* The prefix from the cache and the chunk from k and v make the sequence. *)
LEMMA GPUPrefillCausal ==
  ASSUME TablesInv, RanksInv, BlocksExclusive, KVIntact, Building,
         NEW row \in DOMAIN Batch, NEW i, NEW j, ChunkRow(i, j, row)
  PROVE  GPUAttention[row] = CausalAttention[row]
<1> DEFINE r == PrefillSeqs[i]
           cached == CachedLenBefore(r)
           query == QueryLen(r)
           chunk == ChunkKV(QueryOffset(i), query)
           all == Causal(r, cached) \o chunk
<1>1. SchedInv
  BY DEF TablesInv
<1>2. /\ CausalAttention[row] = Causal(r, cached + j)
      /\ cached \in Nat /\ query \in Nat /\ KVLenAfter(r) = cached + query
      /\ CachedLen(PrefillGroup, i) = cached
      /\ PrefillGroup.queryLen[i] = query
      /\ PrefillGroup.seqIndices[i] + 1 = i
      /\ row - QueryOffset(i) = j
  BY <1>1, CausalOfChunk
<1>3. /\ i \in 1 .. Len(PrefillSeqs) /\ r \in schedPrefill /\ j \in 1 .. query
      /\ row <= NumPrefillTokens /\ PrefillOfRow(row) = i
      /\ QueryOffset(i) = TokenOffset(i)
      /\ \A k \in 1 .. query :
           Batch[TokenOffset(i) + k] = [seq |-> r, pos |-> cached + k - 1]
  BY DEF ChunkRow
<1>4. tables[r] \in Seq(Blocks)
  BY <1>1, <1>3, RowIsDue, RunningTypes
<1>5. GatherPrefixKV(PrefillTables[PrefillGroup.seqIndices[i] + 1], cached) = Causal(r, cached)
  <2>1. \A k \in 1 .. Len(tables[r]) : BlockTableTensor(PrefillSeqs)[i][k] = tables[r][k]
    BY <1>1, <1>3, <1>4, TensorRow
  <2>2. cached \in 0 .. KVLenAfter(r)
    BY <1>2
  <2> HIDE DEF r, cached, query
  <2> QED
    <3>1. PrefillTables[PrefillGroup.seqIndices[i] + 1] = BlockTableTensor(PrefillSeqs)[i]
      BY <1>2 DEF PrefillTables
    <3>2. r \in schedPrefill \cup schedDecode
      BY <1>3
    <3> QED
      BY <2>1, <2>2, <3>1, <3>2, PrefixType
<1> HIDE DEF r, cached, query
<1>6. GPUAttention[row] = CausalMask(all, cached, j)
  BY <1>2, <1>3, <1>5 DEF GPUAttention, GPUPrefill
<1>7. /\ Causal(r, cached) \in Seq(Contexts(r)) /\ Len(Causal(r, cached)) = cached
      /\ \A p \in 1 .. cached : Causal(r, cached)[p] = Context(r, p - 1)
  <2>1. \A p \in 1 .. cached : Context(r, p - 1) \in Contexts(r)
    BY <1>2 DEF Contexts
  <2> QED
    BY <1>2, <2>1 DEF Causal
<1>8. /\ chunk \in Seq(Contexts(r)) /\ Len(chunk) = query
      /\ \A k \in 1 .. query : chunk[k] = Context(r, cached + k - 1)
  <2>1. ASSUME NEW k \in 1 .. query
        PROVE  Context(Batch[TokenOffset(i) + k].seq, Batch[TokenOffset(i) + k].pos) =
                 Context(r, cached + k - 1)
    <3>1. Batch[TokenOffset(i) + k] = [seq |-> r, pos |-> cached + k - 1]
      BY <1>3
    <3>2. Batch[TokenOffset(i) + k].seq = r /\ Batch[TokenOffset(i) + k].pos = cached + k - 1
      BY <3>1
    <3> QED
      BY <3>2
  <2>2. chunk = [k \in 1 .. query |-> Context(r, cached + k - 1)]
    BY <1>3, <2>1 DEF ChunkKV
  <2>3. \A k \in 1 .. query : cached + k - 1 \in Nat
    BY <1>2
  <2>4. \A k \in 1 .. query : Context(r, cached + k - 1) \in Contexts(r)
    BY <2>3 DEF Contexts
  <2> HIDE DEF chunk
  <2> QED
    BY <1>2, <2>2, <2>4
<1>9. all = Causal(r, cached) \o chunk
  OBVIOUS
<1> HIDE DEF chunk, all
<1>10. /\ Len(all) = cached + query
       /\ \A p \in 1 .. cached : all[p] = Causal(r, cached)[p]
       /\ \A k \in 1 .. query : all[cached + k] = chunk[k]
  <2>1. /\ Len(all) = Len(Causal(r, cached)) + Len(chunk)
        /\ \A p \in 1 .. Len(Causal(r, cached)) : all[p] = Causal(r, cached)[p]
        /\ \A k \in 1 .. Len(chunk) : all[Len(Causal(r, cached)) + k] = chunk[k]
    <3>1. Causal(r, cached) \in Seq(Contexts(r)) /\ chunk \in Seq(Contexts(r))
      BY <1>7, <1>8
    <3> QED
      BY <1>9, <3>1, ConcatType
  <2> QED
    BY <1>7, <1>8, <2>1
<1>11. ASSUME NEW p \in 1 .. cached + j PROVE all[p] = Context(r, p - 1)
  <2>1. CASE p \in 1 .. cached
    BY <1>7, <1>10, <2>1
  <2>2. CASE p \notin 1 .. cached
    <3>1. p - cached \in 1 .. query /\ cached + (p - cached) = p
          /\ cached + (p - cached) - 1 = p - 1
      BY <1>2, <1>3, <2>2
    <3>2. all[cached + (p - cached)] = Context(r, cached + (p - cached) - 1)
      BY <1>8, <1>10, <3>1
    <3> QED
      BY <3>1, <3>2
  <2> QED
    BY <2>1, <2>2
<1>12. cached + query \in Nat /\ cached + j \in Nat /\ cached + j <= cached + query
  BY <1>2, <1>3
<1>13. CausalMask(all, cached, j) = Causal(r, cached + j)
  BY <1>10, <1>11, <1>12, CausalOfMask
<1> QED
  BY <1>2, <1>6, <1>13

(* The walk over the blocks: whole ones, then what is left. *)
Walk(seqLen) ==
  seqLen \div BlockSize + (IF seqLen % BlockSize > 0 THEN 1 ELSE 0)

LEMMA WalkType ==
  ASSUME NEW n \in Nat, NEW lengths,
         \A k \in 1 .. Walk(n) : lengths[k] = TokensInBlock(n, k - 1)
  PROVE  /\ Walk(n) \in Nat
         /\ \A k \in 1 .. Walk(n) : lengths[k] \in 0 .. BlockSize
         /\ \A k \in 1 .. Walk(n) : StartOf(lengths, k) = (k - 1) * BlockSize
         /\ StartOf(lengths, Walk(n) + 1) = n
         /\ \A p \in 1 .. n : /\ (p - 1) \div BlockSize + 1 \in 1 .. Walk(n)
                              /\ ((p - 1) % BlockSize) + 1
                                   \in 1 .. lengths[(p - 1) \div BlockSize + 1]
<1> DEFINE whole == n \div BlockSize
           left == n % BlockSize
<1>1. /\ whole \in Nat /\ left \in 0 .. BlockSize - 1 /\ n = BlockSize * whole + left
      /\ BlockSize \in Nat /\ BlockSize * whole = whole * BlockSize
      /\ whole * BlockSize \in Nat
  BY BlockSizePositive
<1>2. Walk(n) = whole + (IF left > 0 THEN 1 ELSE 0)
  BY DEF Walk
<1>3. \A k \in 1 .. Walk(n) :
        lengths[k] = IF k - 1 < whole THEN BlockSize ELSE left
  BY DEF TokensInBlock
<1> HIDE DEF whole, left
<1>4. Walk(n) \in Nat /\ whole <= Walk(n) /\ Walk(n) <= whole + 1
  BY <1>1, <1>2
<1>5. \A k \in 1 .. Walk(n) : lengths[k] \in 0 .. BlockSize
  BY <1>1, <1>3
<1>6. \A k \in 1 .. whole : lengths[k] = BlockSize
  <2>1. \A k \in 1 .. whole : k \in 1 .. Walk(n) /\ k - 1 < whole
    BY <1>1, <1>4
  <2> QED
    BY <1>3, <2>1
<1>7. \A k \in 1 .. whole + 1 : StartOf(lengths, k) = (k - 1) * BlockSize
  BY <1>1, <1>6, StartOfEqualParts
<1>8. \A k \in 1 .. Walk(n) : StartOf(lengths, k) = (k - 1) * BlockSize
  <2>1. \A k \in 1 .. Walk(n) : k \in 1 .. whole + 1
    BY <1>1, <1>4
  <2> QED
    BY <1>7, <2>1
<1>9. StartOf(lengths, Walk(n) + 1) = n
  <2>1. StartOf(lengths, whole + 1) = whole * BlockSize
    <3>1. whole + 1 \in 1 .. whole + 1 /\ (whole + 1) - 1 = whole
      BY <1>1
    <3> QED
      BY <1>7, <3>1
  <2>2. CASE left = 0
    BY <1>1, <1>2, <2>1, <2>2
  <2>3. CASE left # 0
    <3>1. Walk(n) = whole + 1 /\ whole + 1 \in Nat \ {0} /\ whole + 1 \in 1 .. Walk(n)
      BY <1>1, <1>2, <2>3
    <3>2. lengths[whole + 1] = left
      <4>1. ~ ((whole + 1) - 1 < whole)
        BY <1>1
      <4> QED
        BY <1>3, <3>1, <4>1
    <3>3. StartOf(lengths, (whole + 1) + 1) = StartOf(lengths, whole + 1) + lengths[whole + 1]
      BY <3>1, StartOfStep
    <3> QED
      BY <1>1, <2>1, <3>1, <3>2, <3>3
  <2> QED
    BY <2>2, <2>3
<1>10. ASSUME NEW p \in 1 .. n
       PROVE  /\ (p - 1) \div BlockSize + 1 \in 1 .. Walk(n)
              /\ ((p - 1) % BlockSize) + 1 \in 1 .. lengths[(p - 1) \div BlockSize + 1]
  <2> DEFINE pos == p - 1
             d == pos \div BlockSize
             o == pos % BlockSize
  <2>1. /\ pos \in Nat /\ pos < n /\ d \in Nat /\ o \in 0 .. BlockSize - 1
        /\ pos = BlockSize * d + o
    BY BlockSizePositive
  <2>2. d <= whole
    <3>1. whole + 1 \in Nat /\ (whole + 1) * BlockSize = whole * BlockSize + BlockSize
      BY <1>1
    <3>2. pos < (whole + 1) * BlockSize
      BY <1>1, <2>1, <3>1
    <3>3. d < whole + 1
      BY <2>1, <3>1, <3>2, BlockOfPosition
    <3> QED
      BY <1>1, <2>1, <3>3
  <2> HIDE DEF o, d, pos
  <2>3. CASE d < whole
    <3>1. d + 1 \in 1 .. Walk(n) /\ (d + 1) - 1 < whole
      BY <1>1, <1>4, <2>1, <2>3
    <3>2. lengths[d + 1] = BlockSize
      BY <1>3, <3>1
    <3>3. d + 1 \in 1 .. Walk(n) /\ o + 1 \in 1 .. lengths[d + 1]
      BY <1>1, <2>1, <3>1, <3>2
    <3> QED
      BY <3>3 DEF o, d, pos
  <2>4. CASE ~ (d < whole)
    <3>1. d = whole
      BY <1>1, <2>1, <2>2, <2>4
    <3>2. o < left
      BY <1>1, <2>1, <3>1
    <3>3. Walk(n) = whole + 1
      BY <1>1, <1>2, <2>1, <3>2
    <3>4. d + 1 \in 1 .. Walk(n) /\ ~ ((d + 1) - 1 < whole)
      BY <1>1, <3>1, <3>3
    <3>5. lengths[d + 1] = left
      BY <1>3, <3>4
    <3>6. d + 1 \in 1 .. Walk(n) /\ o + 1 \in 1 .. lengths[d + 1]
      BY <1>1, <2>1, <3>2, <3>4, <3>5
    <3> QED
      BY <3>6 DEF o, d, pos
  <2> QED
    BY <2>3, <2>4
<1> QED
  BY <1>4, <1>5, <1>8, <1>9, <1>10

(* The walk of one decode gives the whole sequence. *)
LEMMA GPUDecodeCausal ==
  ASSUME TablesInv, RanksInv, BlocksExclusive, KVIntact, Building,
         NEW row \in DOMAIN Batch, NEW i, DecodeRow(i, row)
  PROVE  GPUAttention[row] = CausalAttention[row]
<1> DEFINE r == DecodeSeqs[i]
           n == KVLenAfter(r)
           part(k) == [pos \in 1 .. TokensInBlock(n, k - 1) |->
                         Context(r, (k - 1) * BlockSize + (pos - 1))]
           parts == [k \in 1 .. Walk(n) |-> part(k)]
           lengths == [k \in 1 .. Walk(n) |-> TokensInBlock(n, k - 1)]
           bid(k) == DecodeTables[i][(k - 1) + 1]
           read(k) ==
             IF bid(k) = Padding THEN <<>>
             ELSE [pos \in 1 .. TokensInBlock(n, k - 1) |->
                     After([block |-> bid(k), offset |-> pos - 1])]
<1>1. SchedInv
  BY DEF TablesInv
<1>2. /\ CausalAttention[row] = Causal(r, n) /\ n \in Nat \ {0}
      /\ DecodeGroup.kvLenAfter[i] = n
  BY <1>1, CausalOfDecode
<1>3. /\ i \in 1 .. Len(DecodeSeqs) /\ r \in schedDecode
      /\ row > NumPrefillTokens /\ row - NumPrefillTokens = i
  BY DEF DecodeRow
<1>4. tables[r] \in Seq(Blocks)
  BY <1>1, <1>3, RowIsDue, RunningTypes
<1>5. ~ (row <= NumPrefillTokens)
  <2>1. DOMAIN Batch = 1 .. Len(Batch) /\ Len(Batch) \in Nat
    BY <1>1, BatchRows
  <2> QED
    BY <1>1, <1>3, <2>1, OffsetsAgree
<1>6. GPUAttention[row] = Lists!FlattenSeq([k \in 1 .. Walk(n) |-> read(k)])
  <2> HIDE DEF r, n
  <2> QED
    BY <1>2, <1>3, <1>5 DEF GPUAttention, GPUDecode, Walk
<1>7. \A k \in 1 .. Len(tables[r]) :
        DecodeTables[i][k] = tables[r][k] /\ tables[r][k] # Padding
  BY <1>1, <1>3, <1>4, TensorRow DEF DecodeTables
<1> HIDE DEF r, n
<1>8. /\ Walk(n) \in Nat
      /\ \A k \in 1 .. Walk(n) : lengths[k] \in 0 .. BlockSize
      /\ \A k \in 1 .. Walk(n) : StartOf(lengths, k) = (k - 1) * BlockSize
      /\ StartOf(lengths, Walk(n) + 1) = n
      /\ \A p \in 1 .. n : /\ (p - 1) \div BlockSize + 1 \in 1 .. Walk(n)
                           /\ ((p - 1) % BlockSize) + 1
                                \in 1 .. lengths[(p - 1) \div BlockSize + 1]
  <2>1. \A k \in 1 .. Walk(n) : lengths[k] = TokensInBlock(n, k - 1)
    OBVIOUS
  <2> HIDE DEF lengths
  <2> QED
    BY <1>2, <2>1, WalkType
<1>9. ASSUME NEW k \in 1 .. Walk(n) PROVE read(k) = part(k)
  <2>1. k \in Nat \ {0} /\ k - 1 \in Nat /\ lengths[k] = TokensInBlock(n, k - 1)
        /\ lengths[k] \in 0 .. BlockSize /\ StartOf(lengths, k) = (k - 1) * BlockSize
    BY <1>8
  <2>2. StartOf(lengths, k) + lengths[k] <= n
    <3>1. Walk(n) + 1 \in 1 .. Walk(n) + 1 /\ k < Walk(n) + 1
      BY <1>8
    <3>2. \A m \in 1 .. Walk(n) : lengths[m] \in Nat
      BY <1>8, BlockSizePositive
    <3> HIDE DEF lengths
    <3>3. StartOf(lengths, k) + lengths[k] <= StartOf(lengths, Walk(n) + 1)
      BY <1>8, <3>1, <3>2, StartOfMonotone
    <3> QED
      BY <1>8, <3>3
  <2>3. ASSUME NEW pos \in 1 .. TokensInBlock(n, k - 1)
        PROVE  /\ bid(k) # Padding
               /\ After([block |-> bid(k), offset |-> pos - 1]) =
                    Context(r, (k - 1) * BlockSize + (pos - 1))
    <3> DEFINE at == (k - 1) * BlockSize + (pos - 1)
    <3>1. pos - 1 \in 0 .. BlockSize - 1
      BY <2>1, BlockSizePositive
    <3>2. at \in Nat /\ at \div BlockSize = k - 1 /\ at % BlockSize = pos - 1
      BY <2>1, <3>1, BlockAndOffset
    <3>3. at < n
      <4>1. (k - 1) * BlockSize \in Nat
        BY <2>1, BlockSizePositive
      <4> QED
        BY <1>2, <2>1, <2>2, <3>1, <4>1
    <3> HIDE DEF at
    <3>4. at + 1 \in 1 .. n /\ (at + 1) - 1 = at
      BY <1>2, <3>2, <3>3
    <3>5. /\ at \div BlockSize + 1 \in 1 .. Len(tables[r])
          /\ After([block |-> DecodeTables[i][at \div BlockSize + 1],
                    offset |-> at % BlockSize]) = Context(r, at)
      <4>1. \A m \in 1 .. Len(tables[r]) : DecodeTables[i][m] = tables[r][m]
        BY <1>7
      <4>2. r \in schedPrefill \cup schedDecode
        BY <1>3
      <4>3. at + 1 \in 1 .. KVLenAfter(r)
        BY <3>4 DEF n
      <4>4. /\ ((at + 1) - 1) \div BlockSize + 1 \in 1 .. Len(tables[r])
            /\ After([block |-> DecodeTables[i][((at + 1) - 1) \div BlockSize + 1],
                      offset |-> ((at + 1) - 1) % BlockSize]) = Context(r, (at + 1) - 1)
        BY <4>1, <4>2, <4>3, ReadThroughTable
      <4> QED
        BY <3>4, <4>4
    <3>6. bid(k) # Padding
      BY <1>7, <3>2, <3>5
    <3> QED
      BY <3>2, <3>5, <3>6 DEF at
  <2>4. lengths[k] # 0
    <3>1. CASE TokensInBlock(n, k - 1) = BlockSize
      BY <2>1, <3>1, BlockSizePositive
    <3>2. CASE TokensInBlock(n, k - 1) # BlockSize
      <4>1. ~ (k - 1 < n \div BlockSize) /\ TokensInBlock(n, k - 1) = n % BlockSize
        BY <3>2 DEF TokensInBlock
      <4>2. n \div BlockSize \in Nat /\ n % BlockSize \in Nat
        BY <1>2, BlockSizePositive
      <4>3. n % BlockSize > 0
        BY <2>1, <4>1, <4>2 DEF Walk
      <4> QED
        BY <2>1, <4>1, <4>2, <4>3
    <3> QED
      BY <3>1, <3>2
  <2>5. bid(k) # Padding
    <3>1. 1 \in 1 .. TokensInBlock(n, k - 1)
      BY <2>1, <2>4, BlockSizePositive
    <3> QED
      BY <2>3, <3>1
  <2> QED
    BY <2>3, <2>5
<1>10. GPUAttention[row] = Lists!FlattenSeq(parts)
  BY <1>6, <1>9
<1> DEFINE all == Lists!FlattenSeq(parts)
<1>11. /\ all \in Seq(Contexts(r)) /\ Len(all) = n
       /\ \A k \in 1 .. Walk(n) : \A j \in 1 .. lengths[k] :
            all[StartOf(lengths, k) + j] = parts[k][j]
  <2>1. ASSUME NEW k \in 1 .. Walk(n)
        PROVE  parts[k] \in Seq(Contexts(r)) /\ lengths[k] = Len(parts[k])
    <3>1. lengths[k] = TokensInBlock(n, k - 1) /\ lengths[k] \in Nat
      BY <1>8, BlockSizePositive
    <3>2. ASSUME NEW pos \in 1 .. TokensInBlock(n, k - 1)
          PROVE  Context(r, (k - 1) * BlockSize + (pos - 1)) \in Contexts(r)
      <4>1. (k - 1) * BlockSize \in Nat
        BY <1>8, BlockSizePositive
      <4>2. (k - 1) * BlockSize + (pos - 1) \in Nat
        BY <3>1, <4>1
      <4> QED
        BY <4>2 DEF Contexts
    <3> QED
      BY <3>1, <3>2
  <2>2. parts \in Seq(Seq(Contexts(r))) /\ Len(parts) = Walk(n)
    BY <1>8, <2>1
  <2>3. \A k \in 1 .. Len(parts) : lengths[k] = Len(parts[k])
    BY <2>1, <2>2
  <2> DEFINE X == Contexts(r)
  <2>4. parts \in Seq(Seq(X))
    BY <2>2
  <2> HIDE DEF parts, lengths, X
  <2>5. /\ Lists!FlattenSeq(parts) \in Seq(X)
        /\ Len(Lists!FlattenSeq(parts)) = StartOf(lengths, Len(parts) + 1)
        /\ \A k \in 1 .. Len(parts) : \A j \in 1 .. Len(parts[k]) :
             Lists!FlattenSeq(parts)[StartOf(lengths, k) + j] = parts[k][j]
    BY <2>3, <2>4, FlattenType
  <2> QED
    BY <1>8, <2>2, <2>3, <2>5 DEF X
<1> HIDE DEF all
<1>12. ASSUME NEW p \in 1 .. n PROVE all[p] = Context(r, p - 1)
  <2> DEFINE pos == p - 1
             d == pos \div BlockSize
             o == pos % BlockSize
  <2>1. pos \in Nat /\ d \in Nat /\ o \in Nat /\ pos = BlockSize * d + o
        /\ BlockSize * d = d * BlockSize /\ d * BlockSize \in Nat
    BY <1>2, BlockSizePositive
  <2>2. d + 1 \in 1 .. Walk(n) /\ o + 1 \in 1 .. lengths[d + 1]
    BY <1>8
  <2> HIDE DEF o, d, pos
  <2>3. all[StartOf(lengths, d + 1) + (o + 1)] = parts[d + 1][o + 1]
    BY <1>11, <2>2
  <2>4. (d + 1) - 1 = d /\ (o + 1) - 1 = o /\ d * BlockSize + o = pos
    BY <2>1
  <2>5. StartOf(lengths, d + 1) = d * BlockSize
    <3>1. StartOf(lengths, d + 1) = ((d + 1) - 1) * BlockSize
      BY <1>8, <2>2
    <3> QED
      BY <2>4, <3>1
  <2>6. parts[d + 1][o + 1] = Context(r, pos)
    <3>1. o + 1 \in 1 .. TokensInBlock(n, (d + 1) - 1)
      BY <2>2
    <3>2. parts[d + 1][o + 1] = Context(r, ((d + 1) - 1) * BlockSize + ((o + 1) - 1))
      BY <2>2, <3>1
    <3> QED
      BY <2>4, <3>2
  <2>7. d * BlockSize + (o + 1) = p
    BY <1>2, <2>1 DEF pos
  <2> QED
    BY <2>3, <2>5, <2>6, <2>7 DEF pos
<1>13. all = Causal(r, n)
  <2>1. all = [p \in 1 .. n |-> all[p]]
    BY <1>11
  <2> QED
    BY <1>12, <2>1 DEF Causal
<1> QED
  BY <1>2, <1>10, <1>13 DEF all

LEMMA GPUComputesCausal ==
  ASSUME TablesInv, RanksInv, BlocksExclusive, KVIntact, Building
  PROVE  GPUAttention = CausalAttention
<1>1. SchedInv
  BY DEF TablesInv
<1>2. DOMAIN Batch = 1 .. Len(Batch)
  BY <1>1, BatchRows
<1>3. \A row \in DOMAIN Batch : GPUAttention[row] = CausalAttention[row]
  BY <1>1, <1>2, RowCases, GPUPrefillCausal, GPUDecodeCausal
<1> QED
  BY <1>3 DEF GPUAttention, CausalAttention

-----------------------------------------------------------------------------
(* The batch of every forward pass. *)

BatchInv == KVInv /\ RanksInv

LEMMA BatchInvHolds == ExecutorsSpec => []BatchInv
<1>1. ExecutorsInit => BatchInv
  <2> SUFFICES ASSUME ExecutorsInit PROVE BatchInv
    OBVIOUS
  <2>1. rank = [r \in Seqs |-> 0] /\ running = {}
    BY DEF ExecutorsInit, PagedInit, EngineInit
  <2>2. RanksInv
    BY <2>1, SeqsFinite DEF RanksInv
  <2> QED
    BY <2>2, InitEstablishesKVInv DEF BatchInv
<1>2. BatchInv /\ [ExecutorsNext]_executorsVars => BatchInv'
  <2> SUFFICES ASSUME BatchInv, [ExecutorsNext]_executorsVars PROVE BatchInv'
    OBVIOUS
  <2>1. [EngineNext]_engineVars
    BY DEF ExecutorsNext, executorsVars, pagedVars, fakeVars, engineVars, bmVars, EngineNext,
           Step
  <2>2. RanksInv'
    BY <2>1, NextKeepsRanks DEF BatchInv, KVInv, TablesInv, SchedInv
  <2> QED
    BY <2>2, NextKeepsKVInv DEF BatchInv
<1> QED
  BY <1>1, <1>2, PTL DEF ExecutorsSpec

(* The two loops of build() and the one of PagedExecutor.execute() stay in *)
(* step: every sequence that samples, and no other, gets one token, and it *)
(* is the one computed at the row of its own last position.                *)
THEOREM ExecutorsTokensGoToTheirSequences == ExecutorsSpec => []TokensGoToTheirSequences
<1>1. BatchInv => TokensGoToTheirSequences
  BY TokensReachSequences DEF BatchInv, KVInv, TablesInv
<1> QED
  BY <1>1, BatchInvHolds, PTL

(* Without prefix caching no two tokens of a forward pass share a slot, so *)
(* triton_cache_write() never refuses one.                                 *)
THEOREM ExecutorsSlotsDistinct == ExecutorsSpec => []SlotsDistinct
<1>1. BatchInv => SlotsDistinct
  BY SlotsAreDistinct DEF BatchInv, KVInv, ExclusiveInv, SlotsDistinct
<1> QED
  BY <1>1, BatchInvHolds, PTL

(* Without prefix caching the reference backend computes causal attention  *)
(* for every row of every forward pass.                                    *)
THEOREM ExecutorsRefIsCausal == ExecutorsSpec => [](EnablePrefixCaching \/ RefIsCausal)
<1>1. BatchInv => EnablePrefixCaching \/ RefIsCausal
  BY RefComputesCausal DEF BatchInv, KVInv, ExclusiveInv, RefIsCausal
<1> QED
  BY <1>1, BatchInvHolds, PTL

(* Without prefix caching the GPU backend, which takes the chunk from k    *)
(* and v and walks a decode's blocks one by one, computes the same.        *)
THEOREM ExecutorsGPUIsCausal == ExecutorsSpec => [](EnablePrefixCaching \/ GPUIsCausal)
<1>1. BatchInv => EnablePrefixCaching \/ GPUIsCausal
  BY GPUComputesCausal DEF BatchInv, KVInv, ExclusiveInv, GPUIsCausal
<1> QED
  BY <1>1, BatchInvHolds, PTL

(* The engine runs on its executors as it does without them: each theorem  *)
(* about EngineSpec holds here too.                                         *)
THEOREM ExecutorsImplementEngine == ExecutorsSpec => EngineSpec
<1>1. ExecutorsInit => EngineInit
  BY DEF ExecutorsInit, PagedInit
<1>2. [ExecutorsNext]_executorsVars => [EngineNext]_engineVars
  BY DEF ExecutorsNext, executorsVars, pagedVars, EngineNext, Step
<1> QED
  BY <1>1, <1>2, PTL DEF ExecutorsSpec, EngineSpec

=============================================================================
