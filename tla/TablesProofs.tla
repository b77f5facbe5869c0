----------------------------- MODULE TablesProofs -----------------------------
(***************************************************************************)
(* How the engine loop uses the block manager, for any number of requests, *)
(* any prompts, block size and configuration: a table always covers what   *)
(* has been written and no more than is needed, blocks are added one after *)
(* the other, and every call is one that BlockManager's own specification  *)
(* allows.                                                                 *)
(***************************************************************************)
EXTENDS EngineCoreProofs

-----------------------------------------------------------------------------
(* Tables. *)

TablesInv == SchedInv /\ TablesFitSequences

LEMMA RunningTypes ==
  ASSUME SchedInv, NEW r \in running
  PROVE  /\ r \in Seqs /\ prompt[r] \in Prompts /\ Len(prompt[r]) \in Nat \ {0}
         /\ cursor[r] \in Nat /\ gen[r] \in Nat /\ KVLen(r) \in Nat
         /\ tables[r] \in Seq(Blocks) /\ Len(tables[r]) \in Nat
         /\ status[r] = "PREFILL" => gen[r] = 0 /\ cursor[r] < Len(prompt[r])
<1>1. /\ EngineInv /\ r \in Seqs /\ r \in waiting \cup running
  BY DEF SchedInv, EngineInv, EngineTypeOK
<1>2. prompt[r] \in Prompts /\ Len(prompt[r]) \in Nat \ {0}
  BY <1>1, PoolsAreRequests
<1>3. cursor[r] \in Nat /\ gen[r] \in Nat
  BY <1>1 DEF EngineInv, EngineTypeOK
<1>4. tables[r] \in Seq(Blocks)
  BY <1>1 DEF EngineInv, BMInv, BMTypeOK
<1>5. status[r] = "PREFILL" => gen[r] = 0 /\ cursor[r] < Len(prompt[r])
  BY <1>1 DEF SchedInv, OutputInv, CursorInv, Prefilling
<1>6. KVLen(r) \in Nat
  BY <1>2, <1>3 DEF KVLen
<1> QED
  BY <1>1, <1>2, <1>3, <1>4, <1>5, <1>6

(* What a step asks for: positions that follow one another, the first of   *)
(* them the first that has not been written, the last within the prompt or *)
(* at the token generated last.                                            *)
LEMMA DuePositions ==
  ASSUME SchedInv, NEW r \in schedPrefill \cup schedDecode, NEW pos \in Due(r)
  PROVE  /\ r \in running /\ pos \in Nat
         /\ pos < Len(prompt[r]) + gen[r]
         /\ pos = KVLen(r) \/ pos - 1 \in Due(r)
<1>1. r \in running
  BY BudgetsType DEF SchedInv
<1>2. /\ Len(prompt[r]) \in Nat \ {0} /\ cursor[r] \in Nat /\ gen[r] \in Nat
      /\ status[r] = "PREFILL" => gen[r] = 0 /\ cursor[r] < Len(prompt[r])
  BY <1>1, RunningTypes
<1>3. PrefillEnd(r) \in Nat /\ PrefillEnd(r) <= Len(prompt[r])
  BY <1>2, LimitsType DEF PrefillEnd, Smaller
<1>4. CASE r \in schedPrefill
  <2>1. status[r] = "PREFILL"
    BY <1>4, BudgetsType DEF SchedInv
  <2>2. Due(r) = cursor[r] .. PrefillEnd(r) - 1 /\ KVLen(r) = cursor[r]
    BY <1>4, <2>1 DEF Due, KVLen
  <2> QED
    BY <1>1, <1>2, <1>3, <2>2
<1>5. CASE r \notin schedPrefill
  <2>1. status[r] = "RUNNING"
    BY <1>5, BudgetsType DEF SchedInv
  <2>2. Due(r) = {Len(prompt[r]) + gen[r] - 1} /\ KVLen(r) = Len(prompt[r]) + gen[r] - 1
    BY <1>5, <2>1 DEF Due, KVLen
  <2> QED
    BY <1>1, <1>2, <2>2
<1> QED
  BY <1>4, <1>5

(* So the block asked for next is the one that follows the table. *)
LEMMA NextBlockFollows ==
  ASSUME TablesInv, NEW r \in Seqs, NEW pos \in Uncovered(r), NextToEnsure(r, pos)
  PROVE  /\ r \in running /\ pos \in Nat /\ pos < Len(prompt[r]) + gen[r]
         /\ pos \div BlockSize = Len(tables[r])
<1>1. r \in schedPrefill \cup schedDecode /\ pos \in Due(r)
  BY DEF NextToEnsure, FirstAdmitted, Uncovered
<1>2. /\ r \in running /\ pos \in Nat /\ pos < Len(prompt[r]) + gen[r]
      /\ pos = KVLen(r) \/ pos - 1 \in Due(r)
  BY <1>1, DuePositions DEF TablesInv
<1>3. Len(tables[r]) \in Nat /\ KVLen(r) \in Nat /\ KVLen(r) <= Len(tables[r]) * BlockSize
  BY <1>2, RunningTypes DEF TablesInv, TablesFitSequences
<1> DEFINE n == Len(tables[r])
<1>4. pos \div BlockSize \in Nat /\ ~ (pos \div BlockSize < n)
  BY <1>2, <1>3, BlockOfPosition DEF Uncovered, Missing
<1> HIDE DEF n
<1>5. /\ n \in Nat /\ n * BlockSize \in Nat
      /\ (n + 1) * BlockSize = n * BlockSize + BlockSize
  <2>1. n \in Nat /\ n <= n
    BY <1>3 DEF n
  <2> QED
    BY <2>1, TimesMonotone
<1>6. pos <= n * BlockSize
  <2>1. CASE pos = KVLen(r)
    BY <1>3, <2>1 DEF n
  <2>2. CASE pos - 1 \in Due(r)
    <3>1. pos - 1 \in Nat
      BY <1>1, <2>2, DuePositions DEF TablesInv
    <3>2. pos - 1 \notin Uncovered(r)
      BY <1>2, <3>1 DEF NextToEnsure, Oldest
    <3>3. (pos - 1) \div BlockSize < n
      BY <1>5, <2>2, <3>1, <3>2, BlockOfPosition DEF Uncovered, Missing, n
    <3>4. pos - 1 < n * BlockSize
      BY <1>5, <3>1, <3>3, BlockOfPosition
    <3> QED
      BY <1>2, <1>5, <3>4
  <2> QED
    BY <1>2, <2>1, <2>2
<1>7. pos < (n + 1) * BlockSize
  BY <1>2, <1>5, <1>6, BlockSizePositive
<1>8. pos \div BlockSize < n + 1
  <2>1. n + 1 \in Nat
    BY <1>5
  <2> QED
    BY <1>2, <1>7, <2>1, BlockOfPosition
<1> QED
  BY <1>2, <1>4, <1>5, <1>8 DEF n

(* Nothing changes for a request that goes on running. *)
LEMMA TablesKept ==
  ASSUME TablesInv, running' \subseteq running,
         \A r \in running' : /\ status'[r] = status[r] /\ prompt'[r] = prompt[r]
                             /\ cursor'[r] = cursor[r] /\ gen'[r] = gen[r]
                             /\ tables'[r] = tables[r]
  PROVE  TablesFitSequences'
  BY DEF TablesInv, TablesFitSequences, KVLen

(* A request starts with the matching blocks and at or before their end. *)
LEMMA AdmitKeepsTables ==
  ASSUME TablesInv, SchedInv', NEW r \in Seqs, Admit(r)
  PROVE  TablesFitSequences'
<1> DEFINE p == prompt[r]
<1>1. PICK k \in 0 .. Len(p) :
         /\ Matches(p, k)
         /\ cursor' = [cursor EXCEPT ![r] = FirstCursor(p, k)]
  BY DEF Admit
<1>2. PICK l \in 0 .. Len(BlockHashes(p)) :
         /\ Matches(p, l)
         /\ tables' = [tables EXCEPT ![r] = [i \in 1 .. l |-> cache[BlockHashes(p)[i]]]]
  BY DEF Admit, AllocateForSeq
<1>3. /\ UNCHANGED <<prompt, gen>> /\ r \in todo /\ pc = "admit"
      /\ status' = [status EXCEPT ![r] = "PREFILL"]
      /\ running' = running \cup {r}
  BY DEF Admit, Oldest, request
<1>4. /\ r \in waiting /\ r \notin running /\ p \in Prompts /\ Len(p) \in Nat \ {0}
  BY <1>3, PoolsAreRequests
     DEF TablesInv, SchedInv, EngineInv, PlanConsistent, PoolsPartition
<1>5. Len(BlockHashes(p)) = BlocksFor(Len(p)) /\ BlocksFor(Len(p)) \in Nat
  BY <1>4, BlockHashesLen
<1>6. k \in Nat /\ l \in Nat /\ l <= BlocksFor(Len(p)) /\ k = l
  <2>1. k \in Nat /\ l \in Nat /\ l <= BlocksFor(Len(p))
    BY <1>4, <1>5
  <2> QED
    BY <1>1, <1>2, <1>4, <2>1, MatchUnique
<1>7. FirstCursor(p, k) \in Nat /\ FirstCursor(p, k) <= k * BlockSize
  <2>1. k * BlockSize \in Nat
    BY <1>6, BlockSizePositive
  <2>2. CachedTokens(p, k) <= k * BlockSize /\ CachedTokens(p, k) \in Nat
    BY <1>4, <2>1 DEF CachedTokens, Smaller
  <2>3. Uncached(p, k) = 0 => CachedTokens(p, k) = Len(p)
    BY <1>4, <2>2 DEF Uncached
  <2>4. FirstChunk(p, k) \in Nat /\ FirstCursor(p, k) \in Nat
    BY <1>4, <1>6, FirstChunkCoversNeed DEF TablesInv, SchedInv
  <2> QED
    BY <1>4, <2>1, <2>2, <2>3, <2>4 DEF FirstCursor
<1>8. /\ tables \in [Seqs -> Seq(Blocks)] /\ cursor \in [Seqs -> Nat]
      /\ status \in [Seqs -> {"NONE"} \cup Live \cup Ended] /\ running \subseteq Seqs
  BY DEF TablesInv, SchedInv, EngineInv, BMInv, BMTypeOK, EngineTypeOK
<1> HIDE DEF p
<1>9. /\ status'[r] = "PREFILL" /\ cursor'[r] = FirstCursor(p, k)
      /\ Len(tables'[r]) = k
  BY <1>1, <1>2, <1>3, <1>6, <1>8
<1>10. KVLen(r)' <= Len(tables'[r]) * BlockSize
  BY <1>7, <1>9 DEF KVLen
<1>11. Len(tables'[r]) <= BlocksFor(Len(prompt'[r]) + gen'[r])
  <2>1. gen[r] \in Nat
    BY DEF TablesInv, SchedInv, EngineInv, EngineTypeOK
  <2>2. /\ Len(p) + gen[r] \in Nat /\ Len(p) <= Len(p) + gen[r] /\ Len(p) \in Nat
        /\ BlocksFor(Len(p) + gen[r]) \in Nat
    <3>1. /\ Len(p) + gen[r] \in Nat /\ Len(p) <= Len(p) + gen[r] /\ Len(p) \in Nat
      BY <1>4, <2>1
    <3> QED
      BY <3>1, BlocksForType
  <2>3. BlocksFor(Len(p)) <= BlocksFor(Len(p) + gen[r])
    BY <2>2, BlocksForMonotone
  <2>4. k <= BlocksFor(Len(p) + gen[r])
    BY <1>5, <1>6, <2>2, <2>3
  <2>5. Len(prompt'[r]) + gen'[r] = Len(p) + gen[r]
    BY <1>3 DEF p
  <2> QED
    BY <1>9, <2>4, <2>5
<1>12. ASSUME NEW q \in running
       PROVE  /\ KVLen(q)' <= Len(tables'[q]) * BlockSize
              /\ Len(tables'[q]) <= BlocksFor(Len(prompt'[q]) + gen'[q])
  <2>1. q # r /\ q \in Seqs
    BY <1>4, <1>8
  <2>2. /\ status'[q] = status[q] /\ prompt'[q] = prompt[q] /\ gen'[q] = gen[q]
        /\ cursor'[q] = cursor[q] /\ tables'[q] = tables[q]
    BY <1>1, <1>2, <1>3, <1>8, <2>1
  <2> QED
    BY <2>2 DEF TablesInv, TablesFitSequences, KVLen
<1> QED
  BY <1>3, <1>10, <1>11, <1>12 DEF TablesFitSequences

LEMMA EnsureBlockKeepsTables ==
  ASSUME TablesInv, SchedInv', NEW r \in Seqs, EnsureBlock(r)
  PROVE  TablesFitSequences'
<1>1. PICK pos \in Uncovered(r) :
         /\ NextToEnsure(r, pos)
         /\ \/ EnsureShared(r, pos, Len(prompt[r]))
            \/ EnsureFresh(r, pos, Len(prompt[r]))
  BY DEF EnsureBlock
<1>2. UNCHANGED <<running, prompt, status, cursor, gen>>
  BY DEF EnsureBlock, pools, request, progress
<1>3. PICK b : tables' = [tables EXCEPT ![r] = Append(@, b)]
  BY <1>1 DEF EnsureShared, EnsureFresh
<1>4. /\ r \in running /\ pos \in Nat /\ pos < Len(prompt[r]) + gen[r]
      /\ pos \div BlockSize = Len(tables[r])
  BY <1>1, NextBlockFollows
<1>5. /\ Len(tables[r]) \in Nat /\ KVLen(r) \in Nat
      /\ Len(prompt[r]) + gen[r] \in Nat
  BY <1>4, RunningTypes DEF TablesInv
<1>6. tables \in [Seqs -> Seq(Blocks)] /\ running \subseteq Seqs
  BY DEF TablesInv, SchedInv, EngineInv, BMInv, BMTypeOK, EngineTypeOK
<1>7. Len(tables'[r]) = Len(tables[r]) + 1
  <2>1. tables'[r] = Append(tables[r], b) /\ tables[r] \in Seq(Blocks)
    BY <1>3, <1>6
  <2>2. tables'[r] \in Seq(Blocks)
    BY DEF SchedInv, EngineInv, BMInv, BMTypeOK
  <2> QED
    BY <2>1
<1> DEFINE n == Len(tables[r])
<1>8. /\ n * BlockSize \in Nat /\ (n + 1) * BlockSize = n * BlockSize + BlockSize
  <2>1. n \in Nat /\ n <= n
    BY <1>5
  <2> HIDE DEF n
  <2> QED
    BY <2>1, TimesMonotone
<1>9. KVLen(r) <= n * BlockSize
  BY <1>4 DEF TablesInv, TablesFitSequences
<1>10. n + 1 <= BlocksFor(Len(prompt[r]) + gen[r])
  <2>1. pos \div BlockSize + 1 <= BlocksFor(Len(prompt[r]) + gen[r])
    BY <1>4, <1>5, BlocksForCovers
  <2> QED
    BY <1>4, <2>1
<1>11. KVLen(r)' = KVLen(r)
  BY <1>2 DEF KVLen
<1>12. /\ KVLen(r)' <= Len(tables'[r]) * BlockSize
       /\ Len(tables'[r]) <= BlocksFor(Len(prompt'[r]) + gen'[r])
  <2>1. n \in Nat
    BY <1>5
  <2>2. Len(tables'[r]) = n + 1
    BY <1>7
  <2> HIDE DEF n
  <2>3. KVLen(r) <= (n + 1) * BlockSize
    BY <1>5, <1>8, <1>9, <2>1, BlockSizePositive
  <2> QED
    BY <1>2, <1>10, <1>11, <2>2, <2>3
<1>13. ASSUME NEW q \in running, q # r
       PROVE  /\ KVLen(q)' <= Len(tables'[q]) * BlockSize
              /\ Len(tables'[q]) <= BlocksFor(Len(prompt'[q]) + gen'[q])
  <2>1. tables'[q] = tables[q]
    BY <1>3, <1>6, <1>13
  <2> QED
    BY <1>2, <2>1 DEF TablesInv, TablesFitSequences, KVLen
<1> QED
  BY <1>2, <1>12, <1>13 DEF TablesFitSequences

(* The forward pass writes exactly what was asked for, and all of that has *)
(* its blocks.                                                             *)
LEMMA ExecuteKeepsTables ==
  ASSUME TablesInv, SchedInv', Execute
  PROVE  TablesFitSequences'
<1> DEFINE completes == {r \in schedPrefill : PrefillEnd(r) = Len(prompt[r])}
<1>1. /\ status' = [r \in Seqs |-> IF r \in completes THEN "RUNNING" ELSE status[r]]
      /\ gen' = [r \in Seqs |-> IF r \in completes THEN 1
                                ELSE IF r \in schedDecode THEN gen[r] + 1
                                ELSE gen[r]]
      /\ cursor' = [r \in Seqs |-> IF r \in schedPrefill THEN PrefillEnd(r)
                                   ELSE cursor[r]]
      /\ UNCHANGED <<tables, running, prompt>>
      /\ pc = "admit"
      /\ \A r \in schedPrefill \cup schedDecode : Uncovered(r) = {}
  BY DEF Execute, Executing, bmVars, pools, request
<1> SUFFICES ASSUME NEW r \in running
             PROVE  /\ KVLen(r)' <= Len(tables[r]) * BlockSize
                    /\ Len(tables[r]) <= BlocksFor(Len(prompt[r]) + gen'[r])
  BY <1>1 DEF TablesFitSequences
<1>2. /\ r \in Seqs /\ Len(prompt[r]) \in Nat \ {0} /\ cursor[r] \in Nat /\ gen[r] \in Nat
      /\ Len(tables[r]) \in Nat
      /\ status[r] = "PREFILL" => gen[r] = 0 /\ cursor[r] < Len(prompt[r])
  BY RunningTypes DEF TablesInv
<1>3. r \in schedPrefill \/ r \in schedDecode
  BY <1>1 DEF TablesInv, SchedInv, BudgetInv, Planned
<1>4. PICK pos \in Due(r) : pos \in Nat /\ KVLen(r)' = pos + 1
  <2>1. CASE r \in schedPrefill
    <3>1. status[r] = "PREFILL"
      BY <2>1, BudgetsType DEF TablesInv, SchedInv
    <3>2. /\ PrefillEnd(r) \in Nat /\ cursor[r] < PrefillEnd(r)
          /\ PrefillEnd(r) <= Len(prompt[r])
      BY <1>2, <3>1, LimitsType DEF PrefillEnd, Smaller
    <3>3. KVLen(r)' = PrefillEnd(r)
      <4>1. CASE r \in completes
        BY <1>1, <1>2, <4>1 DEF KVLen
      <4>2. CASE r \notin completes
        BY <1>1, <1>2, <2>1, <3>1, <4>2 DEF KVLen
      <4> QED
        BY <4>1, <4>2
    <3>4. Due(r) = cursor[r] .. PrefillEnd(r) - 1
      BY <2>1 DEF Due
    <3>5. PrefillEnd(r) - 1 \in Due(r) /\ PrefillEnd(r) - 1 \in Nat
      BY <1>2, <3>2, <3>4
    <3> QED
      BY <3>2, <3>3, <3>5
  <2>2. CASE r \notin schedPrefill
    <3>1. status[r] = "RUNNING" /\ r \in schedDecode /\ r \notin completes
      BY <1>3, <2>2, BudgetsType DEF TablesInv, SchedInv
    <3>2. status'[r] = "RUNNING" /\ gen'[r] = gen[r] + 1
      BY <1>1, <1>2, <3>1
    <3>3. KVLen(r)' = Len(prompt[r]) + gen[r]
      BY <1>1, <1>2, <3>2 DEF KVLen
    <3>4. Due(r) = {Len(prompt[r]) + gen[r] - 1}
      BY <2>2 DEF Due
    <3> QED
      BY <1>2, <3>3, <3>4
  <2> QED
    BY <2>1, <2>2
<1>5. pos \div BlockSize < Len(tables[r])
  <2>1. ~ (pos \div BlockSize >= Len(tables[r]))
    BY <1>1, <1>3, <1>4 DEF Uncovered, Missing
  <2>2. pos \div BlockSize \in Nat /\ Len(tables[r]) \in Nat
    BY <1>2, <1>4, BlockOfPosition
  <2> QED
    BY <2>1, <2>2
<1>6. KVLen(r)' <= Len(tables[r]) * BlockSize
  <2>1. pos < Len(tables[r]) * BlockSize
    BY <1>2, <1>4, <1>5, BlockOfPosition
  <2>2. Len(tables[r]) * BlockSize \in Nat
    BY <1>2, BlockSizePositive
  <2> QED
    BY <1>4, <2>1, <2>2
<1>7. gen'[r] \in Nat /\ gen[r] <= gen'[r]
  <2>1. CASE r \in completes
    <3>1. status[r] = "PREFILL"
      BY <2>1, BudgetsType DEF TablesInv, SchedInv
    <3> QED
      BY <1>1, <1>2, <2>1, <3>1
  <2>2. CASE r \notin completes
    BY <1>1, <1>2, <2>2
  <2> QED
    BY <2>1, <2>2
<1>8. Len(tables[r]) <= BlocksFor(Len(prompt[r]) + gen'[r])
  <2>1. Len(tables[r]) <= BlocksFor(Len(prompt[r]) + gen[r])
    BY DEF TablesInv, TablesFitSequences
  <2>2. /\ Len(prompt[r]) + gen[r] \in Nat /\ Len(prompt[r]) + gen'[r] \in Nat
        /\ Len(prompt[r]) + gen[r] <= Len(prompt[r]) + gen'[r]
    BY <1>2, <1>7
  <2>3. BlocksFor(Len(prompt[r]) + gen[r]) <= BlocksFor(Len(prompt[r]) + gen'[r])
    BY <2>2, BlocksForMonotone
  <2>4. /\ BlocksFor(Len(prompt[r]) + gen[r]) \in Nat
        /\ BlocksFor(Len(prompt[r]) + gen'[r]) \in Nat
    BY <2>2, BlocksForType
  <2> QED
    BY <1>2, <2>1, <2>3, <2>4
<1> QED
  BY <1>6, <1>8

LEMMA NextKeepsTablesInv == TablesInv /\ [EngineNext]_engineVars => TablesInv'
<1> SUFFICES ASSUME TablesInv, [EngineNext]_engineVars PROVE TablesInv'
  OBVIOUS
<1>1. SchedInv'
  BY NextKeepsSchedInv DEF TablesInv
<1>2. running \subseteq Seqs /\ tables \in [Seqs -> Seq(Blocks)]
  BY DEF TablesInv, SchedInv, EngineInv, BMInv, BMTypeOK, EngineTypeOK
<1>3. CASE \/ UNCHANGED engineVars \/ StartStep \/ PlanDecode \/ StartAdmission
           \/ \E r \in Seqs : ContinuePrefill(r) \/ Ignore(r) \/ Reject(r) \/ RaiseOOM(r)
  <2>1. UNCHANGED <<running, status, prompt, cursor, gen, tables>>
    BY <1>3 DEF engineVars, StartStep, PlanDecode, StartAdmission, ContinuePrefill,
                Ignore, Reject, RaiseOOM, bmVars, pools, request, progress
  <2> QED
    BY <1>1, <2>1, TablesKept DEF TablesInv
<1>4. ASSUME NEW p \in Prompts, NEW m \in MaxTokensValues, AddRequest(p, m)
      PROVE  TablesFitSequences'
  <2>1. /\ prompt' = [prompt EXCEPT ![added + 1] = p]
        /\ UNCHANGED <<running, status, cursor, gen, tables>>
    BY <1>4 DEF AddRequest, bmVars, progress
  <2>2. \A r \in running : r \in 1 .. added
    BY DEF TablesInv, SchedInv, EngineInv, PoolsPartition
  <2>3. added + 1 \notin 1 .. added
    BY DEF TablesInv, SchedInv, EngineInv, EngineTypeOK
  <2>4. \A r \in running : prompt'[r] = prompt[r]
    BY <2>1, <2>2, <2>3 DEF TablesInv, SchedInv, EngineInv, EngineTypeOK
  <2> QED
    BY <2>1, <2>4, TablesKept
<1>5. ASSUME NEW r \in Seqs, Cancel(r) \/ TimeOut(r) \/ FinishGroup(r)
      PROVE  TablesFitSequences'
  <2>1. /\ \E how : EndSequence(r, how)
        /\ running' = running \ {r}
        /\ UNCHANGED <<prompt, cursor, gen>>
    BY <1>5 DEF Cancel, TimeOut, FinishGroup, request, progress
  <2>2. \A q \in running' : status'[q] = status[q]
    BY <2>1 DEF EndSequence, TablesInv, SchedInv, EngineInv, EngineTypeOK
  <2>3. \A q \in running' : tables'[q] = tables[q]
    BY <1>2, <2>1 DEF EndSequence, FreeSeq, bmVars
  <2> QED
    BY <2>1, <2>2, <2>3, TablesKept
<1> QED
  BY <1>1, <1>3, <1>4, <1>5, AdmitKeepsTables, EnsureBlockKeepsTables, ExecuteKeepsTables
     DEF TablesInv, EngineNext, Step, Prepare, Calls

LEMMA TablesInvHolds == EngineSpec => []TablesInv
<1>1. EngineInit => TablesInv
  <2>1. EngineInit => SchedInv
    BY InitEstablishesSchedInv
  <2>2. EngineInit => TablesFitSequences
    BY DEF EngineInit, TablesFitSequences
  <2> QED
    BY <2>1, <2>2 DEF TablesInv
<1> QED
  BY <1>1, NextKeepsTablesInv, PTL DEF EngineSpec

(* A table covers what has been written and nothing beyond the next token. *)
THEOREM EngineTablesFitSequences == EngineSpec => []TablesFitSequences
<1>1. TablesInv => TablesFitSequences
  BY DEF TablesInv
<1> QED
  BY <1>1, TablesInvHolds, PTL

(* ensure_block() is asked for the block that follows the table. *)
THEOREM EngineBlocksAddedInOrder == EngineSpec => []BlocksAddedInOrder
<1>1. TablesInv => BlocksAddedInOrder
  BY NextBlockFollows DEF BlocksAddedInOrder
<1> QED
  BY <1>1, TablesInvHolds, PTL

-----------------------------------------------------------------------------
(* Every call of the engine loop into the block manager is one that its own *)
(* specification allows: a table is made only for a sequence without one,   *)
(* and no position is asked for beyond the bound.                           *)
LEMMA EngineStepsAreManagerSteps ==
  ASSUME TablesInv, [EngineNext]_engineVars
  PROVE  [BMNext]_bmVars
<1>1. CASE \/ UNCHANGED engineVars \/ StartStep \/ PlanDecode \/ StartAdmission \/ Execute
           \/ \E p \in Prompts, m \in MaxTokensValues : AddRequest(p, m)
           \/ \E r \in Seqs : ContinuePrefill(r) \/ Ignore(r) \/ Reject(r) \/ RaiseOOM(r)
  <2>1. UNCHANGED bmVars
    BY <1>1 DEF engineVars, StartStep, PlanDecode, StartAdmission, Execute, AddRequest,
                ContinuePrefill, Ignore, Reject, RaiseOOM
  <2> QED
    BY <2>1
<1>2. ASSUME NEW r \in Seqs, Cancel(r) \/ TimeOut(r) \/ FinishGroup(r)
      PROVE  [BMNext]_bmVars
  <2>1. FreeSeq(r) \/ UNCHANGED bmVars
    BY <1>2 DEF Cancel, TimeOut, FinishGroup, EndSequence
  <2> QED
    BY <2>1 DEF BMNext
<1>3. ASSUME NEW r \in Seqs, Admit(r) PROVE BMNext
  <2>1. AllocateForSeq(r, prompt[r]) /\ r \in todo /\ pc = "admit"
    BY <1>3 DEF Admit, Oldest
  <2>2. prompt[r] \in Prompts /\ r \notin running
    BY <2>1, PoolsAreRequests DEF TablesInv, SchedInv, EngineInv, PlanConsistent, PoolsPartition
  <2>3. tables[r] = <<>> /\ hashes[r] = <<>>
    BY <2>2 DEF TablesInv, SchedInv, EngineInv, OnlyRunningHoldBlocks
  <2> QED
    BY <2>1, <2>2, <2>3 DEF BMNext
<1>4. ASSUME NEW r \in Seqs, EnsureBlock(r) PROVE BMNext
  <2>1. PICK pos \in Uncovered(r) :
           /\ NextToEnsure(r, pos)
           /\ \/ EnsureShared(r, pos, Len(prompt[r]))
              \/ EnsureFresh(r, pos, Len(prompt[r]))
    BY <1>4 DEF EnsureBlock
  <2>2. r \in running /\ pos \in Nat /\ pos < Len(prompt[r]) + gen[r]
    BY <2>1, NextBlockFollows
  <2>3. /\ prompt[r] \in Prompts /\ Len(prompt[r]) \in Nat \ {0} /\ gen[r] \in Nat
        /\ status[r] = "PREFILL" => gen[r] = 0
    BY <2>2, RunningTypes DEF TablesInv
  <2>4. maxTokens[r] \in MaxTokensValues \cup {0} /\ maxTokens[r] \in Nat
    BY MaxTokensType DEF TablesInv, SchedInv, EngineInv, EngineTypeOK
  <2>5. gen[r] <= maxTokens[r]
    <3>1. r \in schedPrefill \cup schedDecode
      BY <2>1 DEF NextToEnsure, FirstAdmitted
    <3>2. r \in schedDecode => gen[r] < maxTokens[r]
      BY DEF TablesInv, SchedInv, OutputInv
    <3>3. r \in schedPrefill => gen[r] = 0
      BY <2>3, BudgetsType DEF TablesInv, SchedInv
    <3> QED
      BY <2>3, <2>4, <3>1, <3>2, <3>3
  <2>6. Len(prompt[r]) + maxTokens[r] <= MaxPosition
    BY <2>3, <2>4, PositionsAssumption
  <2>7. pos \in 0 .. MaxPosition /\ Len(prompt[r]) \in 0 .. MaxPosition
    BY <2>2, <2>3, <2>4, <2>5, <2>6, MaxPositionAssumption
  <2> QED
    BY <2>1, <2>7 DEF BMNext
<1> QED
  BY <1>1, <1>2, <1>3, <1>4 DEF EngineNext, Step, Prepare, Calls

(* So the engine implements the block manager's specification. *)
THEOREM EngineImplementsBlockManager == EngineSpec => BMSpec
<1>1. EngineInit => BMInit
  BY DEF EngineInit
<1>2. TablesInv /\ [EngineNext]_engineVars => [BMNext]_bmVars
  BY EngineStepsAreManagerSteps
<1> QED
  BY <1>1, <1>2, TablesInvHolds, PTL DEF EngineSpec, BMSpec

(* And, through it, what the block manager promises. *)
THEOREM EngineImplementsOwnership == EngineSpec => ImplementsOwnership
  BY EngineImplementsBlockManager, BMImplementsOwnership, PTL

(* Without prefix caching no two running requests, and no two places of one *)
(* request, ever have a block in common.                                     *)
THEOREM EngineBlocksExclusive == EngineSpec => [](EnablePrefixCaching \/ BlocksExclusive)
  BY EngineImplementsBlockManager, BMBlocksExclusive, PTL

-----------------------------------------------------------------------------
(***************************************************************************)
(* How many blocks are enough.  If max_num_seqs requests of the largest    *)
(* size fit in the pool, no order of calls makes ensure_block() raise:     *)
(* sharing only saves blocks, and none is allocated ahead of need.         *)
(***************************************************************************)
EnoughBlocks ==
  \E n \in Nat :
    /\ MaxNumSeqs * n <= NumBlocks
    /\ \A p \in Prompts, m \in MaxTokensValues \cup {1} : BlocksFor(Len(p) + m) <= n

LEMMA ProductMonotone ==
  ASSUME NEW m \in Nat, NEW k \in Nat, m <= k, NEW n \in Nat
  PROVE  m * n <= k * n /\ m * n \in Nat /\ k * n \in Nat
  OBVIOUS

(* No table is longer than the largest request needs. *)
LEMMA TablesBounded ==
  ASSUME TablesInv, NEW n \in Nat, NEW r \in running,
         \A p \in Prompts, m \in MaxTokensValues \cup {1} : BlocksFor(Len(p) + m) <= n
  PROVE  BlocksFor(Len(prompt[r]) + gen[r]) \in Nat /\ BlocksFor(Len(prompt[r]) + gen[r]) <= n
<1>1. /\ SchedInv /\ EngineInv /\ r \in Seqs /\ prompt[r] \in Prompts
      /\ Len(prompt[r]) \in Nat /\ gen[r] \in Nat
  BY RunningTypes DEF TablesInv, SchedInv
<1>2. /\ maxTokens[r] \in MaxTokensValues \cup {0} /\ maxTokens[r] \in Nat
      /\ gen[r] <= maxTokens[r] \/ (maxTokens[r] = 0 /\ gen[r] = 1)
  BY <1>1, MaxTokensType DEF SchedInv, OutputInv, EngineInv, EngineTypeOK
<1>3. PICK m \in MaxTokensValues \cup {1} : gen[r] <= m /\ m \in Nat
  BY <1>1, <1>2
<1>4. /\ Len(prompt[r]) + gen[r] \in Nat /\ Len(prompt[r]) + m \in Nat
      /\ Len(prompt[r]) + gen[r] <= Len(prompt[r]) + m
  BY <1>1, <1>3
<1>5. /\ BlocksFor(Len(prompt[r]) + gen[r]) \in Nat /\ BlocksFor(Len(prompt[r]) + m) \in Nat
      /\ BlocksFor(Len(prompt[r]) + gen[r]) <= BlocksFor(Len(prompt[r]) + m)
  BY <1>4, BlocksForType, BlocksForMonotone
<1>6. BlocksFor(Len(prompt[r]) + m) <= n
  BY <1>1, <1>3
<1> QED
  BY <1>5, <1>6

(* A pool without a free block has an entry for each block; the one that   *)
(* is asked for would come on top of them.                                 *)
LEMMA BlockLeft ==
  ASSUME TablesInv, EnoughBlocks, NEW r \in Seqs, NEW pos \in Uncovered(r),
         NextToEnsure(r, pos)
  PROVE  FreeBlocks # {}
<1>1. PICK n \in Nat :
        /\ MaxNumSeqs * n <= NumBlocks
        /\ \A p \in Prompts, m \in MaxTokensValues \cup {1} : BlocksFor(Len(p) + m) <= n
  BY DEF EnoughBlocks
<1>2. /\ r \in running /\ pos \in Nat /\ pos < Len(prompt[r]) + gen[r]
      /\ pos \div BlockSize = Len(tables[r])
  BY NextBlockFollows
<1>3. /\ SchedInv /\ EngineInv /\ BMInv /\ running \in SUBSET Seqs
      /\ tables \in [Seqs -> Seq(Blocks)]
  BY DEF TablesInv, SchedInv, EngineInv, EngineTypeOK, BMInv, BMTypeOK
<1>4. \A q \in running : Len(tables[q]) \in Nat /\ Len(tables[q]) <= n
  <2> SUFFICES ASSUME NEW q \in running PROVE Len(tables[q]) \in Nat /\ Len(tables[q]) <= n
    OBVIOUS
  <2>1. Len(tables[q]) \in Nat /\ Len(tables[q]) <= BlocksFor(Len(prompt[q]) + gen[q])
    BY <1>3, RunningTypes DEF TablesInv, TablesFitSequences
  <2>2. /\ BlocksFor(Len(prompt[q]) + gen[q]) \in Nat
        /\ BlocksFor(Len(prompt[q]) + gen[q]) <= n
    BY <1>1, TablesBounded
  <2> QED
    BY <2>1, <2>2
<1>5. Len(tables[r]) \in Nat /\ Len(tables[r]) + 1 <= n
  <2> DEFINE l == Len(prompt[r]) + gen[r]
  <2>1. l \in Nat /\ Len(tables[r]) \in Nat
    BY <1>2, <1>3, RunningTypes
  <2>2. BlocksFor(l) \in Nat /\ BlocksFor(l) <= n
    BY <1>1, <1>2, TablesBounded
  <2> HIDE DEF l
  <2>3. pos \div BlockSize + 1 <= BlocksFor(l)
    BY <1>2, <2>1, BlocksForCovers DEF l
  <2> QED
    BY <1>2, <2>1, <2>2, <2>3
<1> DEFINE Places == (running \X (1 .. n)) \ {<<r, n>>}
<1>6. \A b \in Blocks : References(b) \subseteq Places
  <2> SUFFICES ASSUME NEW b \in Blocks, NEW h \in References(b) PROVE h \in Places
    OBVIOUS
  <2>1. PICK s \in Seqs : \E i \in DOMAIN tables[s] : h = <<s, i>>
    BY IsReference
  <2>2. PICK i \in DOMAIN tables[s] : h = <<s, i>>
    BY <2>1
  <2>3. s \in running
    <3>1. tables[s] # <<>>
      BY <2>2
    <3> QED
      BY <1>3, <3>1 DEF EngineInv, OnlyRunningHoldBlocks
  <2>4. i \in 1 .. Len(tables[s]) /\ Len(tables[s]) \in Nat /\ Len(tables[s]) <= n
    BY <1>3, <1>4, <2>2, <2>3
  <2>5. i \in 1 .. n /\ (s = r => i # n)
    BY <1>5, <2>4
  <2> QED
    BY <2>2, <2>3, <2>5
<1>7. /\ IsFiniteSet(Places)
      /\ Cardinality(Places) + 1 <= MaxNumSeqs * n
      /\ Cardinality(Places) \in Nat /\ MaxNumSeqs * n \in Nat
  <2>1. /\ IsFiniteSet(running) /\ Cardinality(running) \in Nat
        /\ Cardinality(running) <= MaxNumSeqs /\ MaxNumSeqs \in Nat
    BY <1>3, SeqsFinite, LimitsType DEF SchedInv, LoadInv
  <2>2. IsFiniteSet(1 .. n) /\ Cardinality(1 .. n) = n
    <3>1. 1 \in Int /\ n \in Int
      OBVIOUS
    <3>2. IsFiniteSet(1 .. n) /\ Cardinality(1 .. n) = IF 1 > n THEN 0 ELSE n - 1 + 1
      BY <3>1, FS_Interval
    <3> QED
      BY <3>2
  <2> DEFINE A == running \X (1 .. n)
  <2>3. IsFiniteSet(A) /\ Cardinality(A) = Cardinality(running) * n
    BY <2>1, <2>2, FS_Product
  <2>4. <<r, n>> \in A
    BY <1>2, <1>5
  <2> HIDE DEF A
  <2>5. IsFiniteSet(A \ {<<r, n>>}) /\ Cardinality(A \ {<<r, n>>}) = Cardinality(A) - 1
    BY <2>3, <2>4, FS_RemoveElement
  <2>6. Cardinality(running) * n <= MaxNumSeqs * n /\ MaxNumSeqs * n \in Nat
    BY <2>1, ProductMonotone
  <2>7. Cardinality(A \ {<<r, n>>}) \in Nat /\ Cardinality(A) \in Nat
    BY <2>3, <2>5, FS_CardinalityType
  <2> QED
    BY <2>3, <2>5, <2>6, <2>7 DEF A
<1>8. IsFiniteSet(Blocks) /\ Cardinality(Blocks) = NumBlocks /\ NumBlocks \in Nat
  <2>1. NumBlocks \in Nat \ {0} /\ 0 \in Int /\ NumBlocks - 1 \in Int
    BY NumBlocksAssumption
  <2>2. /\ IsFiniteSet(0 .. NumBlocks - 1)
        /\ Cardinality(0 .. NumBlocks - 1) =
             IF 0 > NumBlocks - 1 THEN 0 ELSE NumBlocks - 1 - 0 + 1
    BY <2>1, FS_Interval
  <2> QED
    BY <2>1, <2>2 DEF Blocks
<1> HIDE DEF Places
<1>9. SUFFICES ASSUME FreeBlocks = {} PROVE FALSE
  OBVIOUS
<1>10. \A b \in Blocks : References(b) # {}
  BY <1>3, <1>9 DEF FreeBlocks, BMInv, RefCountsExact
<1> DEFINE f == [b \in Blocks |-> CHOOSE h : h \in References(b)]
<1>11. \A b \in Blocks : f[b] \in References(b)
  BY <1>10
<1> HIDE DEF f
<1>12. f \in Injection(Blocks, Places)
  <2>1. f \in [Blocks -> Places]
    <3>1. f = [b \in Blocks |-> f[b]]
      BY DEF f
    <3> QED
      BY <1>6, <1>11, <3>1
  <2>2. ASSUME NEW b \in Blocks, NEW c \in Blocks, f[b] = f[c] PROVE b = c
    <3>1. f[b] \in References(b) /\ f[b] \in References(c)
      BY <1>11, <2>2
    <3>2. PICK s \in Seqs : \E i \in DOMAIN tables[s] : f[b] = <<s, i>> /\ tables[s][i] = b
      BY <3>1, IsReference
    <3>3. PICK t \in Seqs : \E i \in DOMAIN tables[t] : f[b] = <<t, i>> /\ tables[t][i] = c
      BY <3>1, IsReference
    <3> QED
      BY <3>2, <3>3
  <2> QED
    BY <2>1, <2>2 DEF Injection, IsInjective
<1>13. Cardinality(Blocks) <= Cardinality(Places)
  BY <1>7, <1>12, FS_Injection
<1> QED
  BY <1>1, <1>7, <1>8, <1>13

(* With enough blocks for max_num_seqs requests of the largest size, no *)
(* step ever raises OOM.                                                 *)
THEOREM EngineNeverRaises ==
  EnoughBlocks => (EngineSpec => [][\A r \in Seqs : ~ RaiseOOM(r)]_engineVars)
<1> SUFFICES ASSUME EnoughBlocks
             PROVE  EngineSpec => [][\A r \in Seqs : ~ RaiseOOM(r)]_engineVars
  OBVIOUS
<1>1. TablesInv => [\A r \in Seqs : ~ RaiseOOM(r)]_engineVars
  BY BlockLeft DEF RaiseOOM, OutOfBlocks
<1> QED
  BY <1>1, TablesInvHolds, PTL

(* What a step found finished is with it until it returns or raises. *)
OutputsInv ==
  /\ \A r \in Seqs : status[r] = "FINISHED" => r \in outputs \cup finishedGroups
  /\ pc = "idle" => finishedGroups = {}

LEMMA NextKeepsOutputsInv ==
  ASSUME EngineInv, OutputsInv, [EngineNext]_engineVars, \A r \in Seqs : ~ RaiseOOM(r)
  PROVE  OutputsInv'
<1>1. CASE \/ UNCHANGED engineVars \/ StartStep \/ PlanDecode \/ StartAdmission
           \/ \E p \in Prompts, m \in MaxTokensValues : AddRequest(p, m)
           \/ \E r \in Seqs : ContinuePrefill(r) \/ Ignore(r) \/ Reject(r) \/ EnsureBlock(r)
  <2>1. UNCHANGED <<status, outputs, finishedGroups>> /\ (pc' = "idle" => pc = "idle")
    BY <1>1 DEF engineVars, StartStep, PlanDecode, StartAdmission, AddRequest,
                ContinuePrefill, Ignore, Reject, EnsureBlock, result
  <2> QED
    BY <2>1 DEF OutputsInv
<1>2. ASSUME NEW r \in Seqs, NEW how, EndSequence(r, how)
      PROVE  \A q \in Seqs : status'[q] = "FINISHED" =>
               status[q] = "FINISHED" \/ (q = r /\ how = "FINISHED")
  BY <1>2 DEF EndSequence, EngineInv, EngineTypeOK
<1>3. ASSUME NEW r \in Seqs, Cancel(r) \/ TimeOut(r) \/ FinishGroup(r)
      PROVE  OutputsInv'
  <2>1. /\ UNCHANGED <<outputs, pc>>
        /\ \/ /\ EndSequence(r, "CANCELLED") \/ EndSequence(r, "TIMEOUT")
              /\ UNCHANGED finishedGroups
           \/ /\ EndSequence(r, "FINISHED") /\ finishedGroups' = finishedGroups \cup {r}
              /\ pc = "begin"
    BY <1>3 DEF Cancel, TimeOut, FinishGroup, Scheduling, result
  <2> QED
    BY <1>2, <2>1 DEF OutputsInv
<1>4. ASSUME NEW r \in Seqs, Admit(r) PROVE OutputsInv'
  <2>1. /\ UNCHANGED <<outputs, finishedGroups, pc>>
        /\ status' = [status EXCEPT ![r] = "PREFILL"]
    BY <1>4 DEF Admit
  <2>2. \A q \in Seqs : status'[q] = "FINISHED" => status[q] = "FINISHED"
    BY <2>1 DEF EngineInv, EngineTypeOK
  <2> QED
    BY <2>1, <2>2 DEF OutputsInv
<1>5. CASE Execute
  <2>1. /\ outputs' = outputs \cup {r \in finishedGroups : status[r] = "FINISHED"}
        /\ finishedGroups' = {}
        /\ \A r \in Seqs : status'[r] = "FINISHED" => status[r] = "FINISHED"
    BY <1>5 DEF Execute, Return
  <2> QED
    BY <2>1 DEF OutputsInv
<1> QED
  BY <1>1, <1>3, <1>4, <1>5 DEF EngineNext, Step, Prepare, Calls

(* Then every finished request's text is there when its step has returned: *)
(* the run in which one is lost needs a pool that is too small.              *)
THEOREM EngineOutputsCaptured ==
  EnoughBlocks => (EngineSpec => []FinishedOutputCaptured)
<1> SUFFICES ASSUME EnoughBlocks PROVE EngineSpec => []FinishedOutputCaptured
  OBVIOUS
<1>1. EngineInit => OutputsInv
  BY DEF EngineInit, OutputsInv
<1>2. TablesInv /\ OutputsInv /\ [EngineNext]_engineVars => OutputsInv'
  BY NextKeepsOutputsInv, BlockLeft DEF TablesInv, SchedInv, RaiseOOM, OutOfBlocks
<1>3. OutputsInv => FinishedOutputCaptured
  BY DEF OutputsInv, FinishedOutputCaptured
<1> QED
  BY <1>1, <1>2, <1>3, TablesInvHolds, PTL DEF EngineSpec

=============================================================================
