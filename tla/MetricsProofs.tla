--------------------------- MODULE MetricsProofs ---------------------------
(***************************************************************************)
(* What MetricsCollector and StageProfiler count is what happened, for any *)
(* number of requests, any prompts and any order of calls: each request's  *)
(* time in the queue once, the prefill tokens that were computed and no    *)
(* others, and each sequence that ended once; and a stage the profiler     *)
(* hints at did fill the steps.                                            *)
(***************************************************************************)
EXTENDS Metrics, StageProfiler, TablesProofs

-----------------------------------------------------------------------------
(* Metrics only watches: each of its steps is one of the engine's. *)

LEMMA MetricsStepsAreEngineSteps ==
  ASSUME [MetricsNext]_metricsVars
  PROVE  [EngineNext]_engineVars
<1>1. CASE UNCHANGED metricsVars
  BY <1>1 DEF metricsVars
<1>2. CASE RecordedExecute
  BY <1>2 DEF RecordedExecute, EngineNext, Step
<1>3. CASE (StartStep \/ PlanDecode \/ StartAdmission) /\ Unmeasured
  BY <1>3 DEF EngineNext, Step, Prepare
<1>4. ASSUME NEW p \in Prompts, NEW m \in MaxTokensValues, AddRequest(p, m)
      PROVE  EngineNext
  BY <1>4 DEF EngineNext, Calls
<1>5. ASSUME NEW r \in Seqs, EndOutside(r) PROVE EngineNext
  BY <1>5 DEF EndOutside, EngineNext, Step, Prepare, Calls
<1>6. ASSUME NEW r \in Seqs, PlannedContinue(r) \/ PlannedAdmit(r) \/ UnrecordedRaise(r)
      PROVE  EngineNext
  BY <1>6 DEF PlannedContinue, PlannedAdmit, UnrecordedRaise, EngineNext, Step, Prepare
<1>7. ASSUME NEW r \in Seqs, FinishGroup(r) \/ Ignore(r) \/ Reject(r) \/ EnsureBlock(r)
      PROVE  EngineNext
  BY <1>7 DEF EngineNext, Step, Prepare
<1> QED
  BY <1>1, <1>2, <1>3, <1>4, <1>5, <1>6, <1>7 DEF MetricsNext

(* The measured engine is the engine: whatever is proved of EngineSpec *)
(* holds while metrics are collected.                                  *)
THEOREM MetricsImplementEngine == MetricsSpec => EngineSpec
<1>1. MetricsInit => EngineInit
  BY DEF MetricsInit
<1>2. [MetricsNext]_metricsVars => [EngineNext]_engineVars
  BY MetricsStepsAreEngineSteps
<1> QED
  BY <1>1, <1>2, PTL DEF MetricsSpec, EngineSpec

LEMMA MetricsTablesInv == MetricsSpec => []TablesInv
  BY MetricsImplementEngine, TablesInvHolds, PTL

(* The steps that plan no prefill: what they leave alone. *)
Aside ==
  \/ StartStep \/ PlanDecode \/ StartAdmission
  \/ \E p \in Prompts, m \in MaxTokensValues : AddRequest(p, m)
  \/ \E r \in Seqs : \/ TimeOut(r) \/ Cancel(r) \/ FinishGroup(r)
                     \/ Ignore(r) \/ Reject(r) \/ EnsureBlock(r)

LEMMA AsideEffect ==
  ASSUME Aside
  PROVE  UNCHANGED <<rank, cursor, schedPrefill>> /\ running' \subseteq running
<1>1. CASE \/ StartStep \/ PlanDecode \/ StartAdmission
           \/ \E p \in Prompts, m \in MaxTokensValues : AddRequest(p, m)
  BY <1>1 DEF StartStep, PlanDecode, StartAdmission, AddRequest, pools, progress, result
<1>2. ASSUME NEW r \in Seqs, \/ TimeOut(r) \/ Cancel(r) \/ FinishGroup(r)
                             \/ Ignore(r) \/ Reject(r) \/ EnsureBlock(r)
      PROVE  UNCHANGED <<rank, cursor, schedPrefill>> /\ running' \subseteq running
  BY <1>2 DEF TimeOut, Cancel, FinishGroup, Ignore, Reject, EnsureBlock, pools, progress, result
<1> QED
  BY <1>1, <1>2 DEF Aside

(* A step of Metrics is one that plans no prefill, one of phases 4 and 5, *)
(* or the end of a step; each with what is counted at it.                  *)
LEMMA MetricsCases ==
  ASSUME [MetricsNext]_metricsVars
  PROVE  \/ UNCHANGED metricsVars
         \/ Aside /\ UNCHANGED <<plan, prefilled, seen, queueTimes, start>>
         \/ \E r \in Seqs : PlannedContinue(r)
         \/ \E r \in Seqs : PlannedAdmit(r)
         \/ RecordedExecute
         \/ \E r \in Seqs : UnrecordedRaise(r)
<1>1. ASSUME Unmeasured, Aside
      PROVE  Aside /\ UNCHANGED <<plan, prefilled, seen, queueTimes, start>>
  BY <1>1 DEF Unmeasured, metrics
<1>2. ASSUME NEW r \in Seqs, EndOutside(r)
      PROVE  Aside /\ UNCHANGED <<plan, prefilled, seen, queueTimes, start>>
  BY <1>2 DEF EndOutside, Aside
<1>3. ASSUME NEW r \in Seqs, FinishGroup(r) \/ Ignore(r) \/ Reject(r) \/ EnsureBlock(r)
      PROVE  Aside
  BY <1>3 DEF Aside
<1>4. ASSUME \/ StartStep \/ PlanDecode \/ StartAdmission
             \/ \E p \in Prompts, m \in MaxTokensValues : AddRequest(p, m)
      PROVE  Aside
  BY <1>4 DEF Aside
<1> QED
  BY <1>1, <1>2, <1>3, <1>4 DEF MetricsNext

-----------------------------------------------------------------------------
(* Time in the queue. *)

(* The requests that have been admitted are those whose time is recorded, *)
(* and those that the step under way takes on.                             *)
QueueInv ==
  /\ seen \in SUBSET Seqs /\ queueTimes = Cardinality(seen)
  /\ {r \in Seqs : rank[r] > 0} = seen \cup schedPrefill
  /\ \A r \in running : rank[r] > 0

LEMMA RecordWaitingKeepsQueueInv ==
  ASSUME EngineInv, QueueInv, RecordWaiting, schedPrefill' = {}, UNCHANGED <<rank, running>>
  PROVE  QueueInv'
<1>1. schedPrefill \in SUBSET Seqs /\ seen \in SUBSET Seqs /\ NewlyScheduled \in SUBSET Seqs
  BY BudgetsType DEF QueueInv, NewlyScheduled
<1>2. /\ IsFiniteSet(seen) /\ IsFiniteSet(NewlyScheduled)
      /\ Cardinality(seen) \in Nat /\ Cardinality(NewlyScheduled) \in Nat
  BY <1>1, SeqsFinite
<1>3. seen' = seen \cup NewlyScheduled /\ seen \cap NewlyScheduled = {}
  BY DEF RecordWaiting, NewlyScheduled
<1>4. Cardinality(seen') = Cardinality(seen) + Cardinality(NewlyScheduled)
  <2>1. /\ Cardinality(seen \cup NewlyScheduled) =
             Cardinality(seen) + Cardinality(NewlyScheduled)
               - Cardinality(seen \cap NewlyScheduled)
        /\ Cardinality({}) = 0
    BY <1>2, FS_Union, FS_EmptySet
  <2>2. Cardinality(seen \cap NewlyScheduled) = 0
    BY <1>3, <2>1
  <2> QED
    BY <1>2, <1>3, <2>1, <2>2
<1>5. queueTimes' = Cardinality(seen')
  BY <1>4 DEF RecordWaiting, QueueInv
<1> QED
  BY <1>1, <1>5 DEF RecordWaiting, QueueInv

LEMMA NextKeepsQueueInv ==
  ASSUME EngineInv, QueueInv, [MetricsNext]_metricsVars
  PROVE  QueueInv'
<1>1. CASE UNCHANGED metricsVars
  BY <1>1 DEF metricsVars, metrics, engineVars, pools, result, QueueInv
<1>2. CASE Aside /\ UNCHANGED <<plan, prefilled, seen, queueTimes, start>>
  BY <1>2, AsideEffect DEF QueueInv
<1>3. ASSUME NEW r \in Seqs, PlannedContinue(r)
      PROVE  QueueInv'
  <2>1. /\ UNCHANGED <<seen, queueTimes, rank, running>>
        /\ schedPrefill' = schedPrefill \/ schedPrefill' = schedPrefill \cup {r}
        /\ pc = "continue" /\ r \in todo
    BY <1>3 DEF PlannedContinue, ContinuePrefill, Take, FirstAdmitted, metrics, pools
  <2>2. rank[r] > 0
    BY <2>1 DEF EngineInv, PlanConsistent, QueueInv
  <2> QED
    BY <2>1, <2>2 DEF QueueInv
<1>4. ASSUME NEW r \in Seqs, PlannedAdmit(r)
      PROVE  QueueInv'
  <2> DEFINE n == Cardinality({q \in Seqs : rank[q] > 0}) + 1
  <2>1. /\ UNCHANGED <<seen, queueTimes>>
        /\ schedPrefill' = schedPrefill \cup {r}
        /\ running' = running \cup {r}
        /\ rank' = [rank EXCEPT ![r] = n]
    BY <1>4 DEF PlannedAdmit, Admit, Take, metrics
  <2>2. n > 0
    <3>1. Cardinality({q \in Seqs : rank[q] > 0}) \in Nat
      BY SeqsFinite
    <3> QED
      BY <3>1
  <2> HIDE DEF n
  <2>3. rank \in [Seqs -> Nat] /\ running \subseteq Seqs
    BY DEF EngineInv, EngineTypeOK
  <2>4. \A q \in Seqs : rank'[q] > 0 <=> q = r \/ rank[q] > 0
    BY <2>1, <2>2, <2>3
  <2>5. {q \in Seqs : rank'[q] > 0} = {q \in Seqs : rank[q] > 0} \cup {r}
    BY <2>4
  <2>6. \A q \in running' : rank'[q] > 0
    BY <2>1, <2>3, <2>4 DEF QueueInv
  <2> QED
    BY <2>1, <2>5, <2>6 DEF QueueInv
<1>5. CASE RecordedExecute \/ \E r \in Seqs : UnrecordedRaise(r)
  <2>1. RecordWaiting /\ schedPrefill' = {} /\ UNCHANGED <<rank, running>>
    BY <1>5 DEF RecordedExecute, UnrecordedRaise, Execute, RaiseOOM, Return, pools
  <2> QED
    BY <2>1, RecordWaitingKeepsQueueInv
<1> QED
  BY <1>1, <1>2, <1>3, <1>4, <1>5, MetricsCases

(* A request's time in the queue is recorded once, also if its first step *)
(* raises.                                                                 *)
THEOREM MetricsQueueTimeOnce == MetricsSpec => []QueueTimeOnce
<1>1. MetricsInit => QueueInv
  <2>1. Cardinality({}) = 0
    BY FS_EmptySet
  <2> QED
    BY <2>1 DEF MetricsInit, EngineInit, QueueInv
<1>2. TablesInv /\ QueueInv /\ [MetricsNext]_metricsVars => QueueInv'
  BY NextKeepsQueueInv DEF TablesInv, SchedInv
<1>3. TablesInv /\ QueueInv => QueueTimeOnce
  BY DEF TablesInv, SchedInv, EngineInv, PlanConsistent, QueueInv, QueueTimeOnce
<1> QED
  BY <1>1, <1>2, <1>3, MetricsTablesInv, PTL DEF MetricsSpec

-----------------------------------------------------------------------------
(* Prefill tokens. *)

(* The positions that the step under way is going to compute. *)
Chosen == UNION {{r} \X (cursor[r] .. PrefillEnd(r) - 1) : r \in schedPrefill}

TokensInv ==
  /\ IsFiniteSet(Chosen) /\ plan = Cardinality(Chosen)
  /\ IsFiniteSet(Computed) /\ prefilled = Cardinality(Computed)
  /\ start \in [Seqs -> Nat]
  /\ \A r \in Seqs :
       /\ start[r] <= cursor[r]
       /\ status[r] = "NONE" => start[r] = 0 /\ cursor[r] = 0

(* The chunk the scheduler charges for is at most max_prefill_chunk_size,  *)
(* the chunk the engine computes, if chunked prefill is on or no prompt is *)
(* longer.                                                                 *)
PromptsInChunks ==
  ChunkedPrefillEnabled \/ \A p \in Prompts : Len(p) <= MaxPrefillChunkSize

LEMMA InChosen ==
  ASSUME NEW x
  PROVE  x \in Chosen <=> \E r \in schedPrefill : \E i \in cursor[r] .. PrefillEnd(r) - 1 :
                             x = <<r, i>>
  BY DEF Chosen

LEMMA InComputed ==
  ASSUME NEW x
  PROVE  x \in Computed <=> \E r \in Seqs : \E i \in start[r] .. cursor[r] - 1 : x = <<r, i>>
  BY DEF Computed

LEMMA InChosenNext ==
  ASSUME NEW x
  PROVE  x \in Chosen' <=> \E r \in schedPrefill' : \E i \in cursor'[r] .. PrefillEnd(r)' - 1 :
                             x = <<r, i>>
  BY DEF Chosen

LEMMA InComputedNext ==
  ASSUME NEW x
  PROVE  x \in Computed' <=> \E r \in Seqs : \E i \in start'[r] .. cursor'[r] - 1 : x = <<r, i>>
  BY DEF Computed

LEMMA CardinalityOfBoth ==
  ASSUME NEW S, IsFiniteSet(S), NEW T, IsFiniteSet(T), S \cap T = {}
  PROVE  IsFiniteSet(S \cup T) /\ Cardinality(S \cup T) = Cardinality(S) + Cardinality(T)
<1>1. /\ IsFiniteSet(S \cup T)
      /\ Cardinality(S \cup T) = Cardinality(S) + Cardinality(T) - Cardinality(S \cap T)
      /\ Cardinality(S) \in Nat /\ Cardinality(T) \in Nat /\ Cardinality({}) = 0
  BY FS_Union, FS_EmptySet, FS_CardinalityType
<1>2. Cardinality(S \cap T) = 0
  BY <1>1
<1> QED
  BY <1>1, <1>2

LEMMA PositionsUpTo ==
  ASSUME NEW a \in Nat, NEW b \in Nat, a <= b
  PROVE  IsFiniteSet(a .. b - 1) /\ Cardinality(a .. b - 1) = b - a
<1>1. a \in Int /\ b - 1 \in Int
  OBVIOUS
<1>2. /\ IsFiniteSet(a .. b - 1)
      /\ Cardinality(a .. b - 1) = IF a > b - 1 THEN 0 ELSE (b - 1) - a + 1
  BY <1>1, FS_Interval
<1> QED
  BY <1>2

(* One more sequence, with its positions. *)
LEMMA AddPositions ==
  ASSUME NEW S, IsFiniteSet(S), NEW r, \A i : <<r, i>> \notin S, NEW I, IsFiniteSet(I)
  PROVE  /\ IsFiniteSet(S \cup ({r} \X I))
         /\ Cardinality(S \cup ({r} \X I)) = Cardinality(S) + Cardinality(I)
<1> DEFINE N == {r} \X I
<1>1. IsFiniteSet({r}) /\ Cardinality({r}) = 1
  BY FS_Singleton
<1>2. IsFiniteSet(N) /\ Cardinality(N) = 1 * Cardinality(I) /\ Cardinality(I) \in Nat
  BY <1>1, FS_Product, FS_CardinalityType
<1>3. S \cap N = {}
  OBVIOUS
<1> HIDE DEF N
<1>4. IsFiniteSet(S \cup N) /\ Cardinality(S \cup N) = Cardinality(S) + Cardinality(N)
  BY <1>2, <1>3, CardinalityOfBoth
<1> QED
  BY <1>2, <1>4 DEF N

LEMMA FirstChunkIsComputed ==
  ASSUME EngineInv, PromptsInChunks, NEW r \in waiting, NEW k \in Nat
  PROVE  /\ FirstChunk(prompt[r], k) \in Nat /\ FirstCursor(prompt[r], k) \in Nat
         /\ Smaller(FirstCursor(prompt[r], k) + MaxPrefillChunkSize, Len(prompt[r]))
              = FirstCursor(prompt[r], k) + FirstChunk(prompt[r], k)
<1> DEFINE p == prompt[r]
           n == Len(p)
<1>1. r \in Seqs /\ p \in Prompts /\ n \in Nat \ {0}
  BY PoolsAreRequests
<1>2. /\ FirstChunk(p, k) \in Nat /\ FirstCursor(p, k) \in Nat
      /\ FirstCursor(p, k) < n
  BY <1>1, FirstChunkCoversNeed
<1>3. k * BlockSize \in Nat
  BY BlockManagerAssumption
<1>4. CachedTokens(p, k) \in Nat /\ CachedTokens(p, k) <= n
  BY <1>1, <1>3 DEF CachedTokens, Smaller
<1>5. Uncached(p, k) = n - CachedTokens(p, k)
  BY DEF Uncached
<1>6. ChunkedPrefillEnabled \/ n <= MaxPrefillChunkSize
  BY <1>1 DEF PromptsInChunks
<1> HIDE DEF n, p
<1>7. CASE Uncached(p, k) = 0
  <2>1. /\ FirstChunk(p, k) = Smaller(MaxPrefillChunkSize, n)
        /\ FirstCursor(p, k) = n - FirstChunk(p, k)
    BY <1>7 DEF FirstChunk, FirstCursor, n
  <2>2. Smaller(FirstCursor(p, k) + MaxPrefillChunkSize, n)
          = FirstCursor(p, k) + FirstChunk(p, k)
    BY <1>1, <1>2, <2>1, LimitsType DEF Smaller
  <2> QED
    BY <1>2, <2>2 DEF n, p
<1>8. CASE Uncached(p, k) # 0
  <2>1. /\ FirstChunk(p, k) = IF ChunkedPrefillEnabled
                              THEN Smaller(Uncached(p, k), MaxPrefillChunkSize)
                              ELSE Uncached(p, k)
        /\ FirstCursor(p, k) = CachedTokens(p, k)
    BY <1>8 DEF FirstChunk, FirstCursor
  <2>2. Smaller(FirstCursor(p, k) + MaxPrefillChunkSize, n)
          = FirstCursor(p, k) + FirstChunk(p, k)
    BY <1>1, <1>4, <1>5, <1>6, <2>1, LimitsType DEF Smaller
  <2> QED
    BY <1>2, <2>2 DEF n, p
<1> QED
  BY <1>7, <1>8

LEMMA AsideKeepsRequests ==
  ASSUME EngineInv, Aside
  PROVE  /\ \A r \in running : prompt'[r] = prompt[r]
         /\ \A r \in Seqs : status'[r] = "NONE" => status[r] = "NONE"
<1>1. /\ prompt \in [Seqs -> Prompts \cup {<<>>}] /\ running \subseteq Seqs
      /\ status \in [Seqs -> {"NONE"} \cup Live \cup Ended] /\ running \subseteq 1 .. added
      /\ added \in Nat
  BY DEF EngineInv, EngineTypeOK, PoolsPartition
<1>2. CASE \/ StartStep \/ PlanDecode \/ StartAdmission
           \/ \E r \in Seqs : Ignore(r) \/ Reject(r) \/ EnsureBlock(r)
  BY <1>2 DEF StartStep, PlanDecode, StartAdmission, Ignore, Reject, EnsureBlock, request
<1>3. ASSUME NEW p \in Prompts, NEW m \in MaxTokensValues, AddRequest(p, m)
      PROVE  UNCHANGED status /\ \A r \in running : prompt'[r] = prompt[r]
  <2>1. prompt' = [prompt EXCEPT ![added + 1] = p] /\ UNCHANGED status
    BY <1>3 DEF AddRequest
  <2>2. \A r \in running : r # added + 1
    BY <1>1
  <2> QED
    BY <1>1, <2>1, <2>2
<1>4. ASSUME NEW r \in Seqs, TimeOut(r) \/ Cancel(r) \/ FinishGroup(r)
      PROVE  /\ UNCHANGED prompt
             /\ \A q \in Seqs : status'[q] = "NONE" => status[q] = "NONE"
  <2>1. PICK how \in Ended : EndSequence(r, how)
    BY <1>4 DEF TimeOut, Cancel, FinishGroup, Ended
  <2>2. UNCHANGED prompt
    BY <1>4 DEF TimeOut, Cancel, FinishGroup, request
  <2> QED
    BY <1>1, <2>1, <2>2 DEF EndSequence, Ended
<1> QED
  BY <1>2, <1>3, <1>4 DEF Aside

(* The positions do not change when what they are made of does not. *)
LEMMA PositionsKept ==
  ASSUME EngineInv, TokensInv, UNCHANGED <<plan, prefilled, start, cursor, schedPrefill>>,
         \A r \in running : prompt'[r] = prompt[r],
         \A r \in Seqs : status'[r] = "NONE" => status[r] = "NONE"
  PROVE  TokensInv'
<1>1. Computed' = Computed
  BY DEF Computed
<1>2. \A r \in schedPrefill : PrefillEnd(r)' = PrefillEnd(r)
  BY BudgetsType DEF PrefillEnd
<1>3. Chosen' = Chosen
  BY <1>2 DEF Chosen
<1> QED
  BY <1>1, <1>3 DEF TokensInv

LEMMA ContinueKeepsTokens ==
  ASSUME SchedInv, TokensInv, NEW r \in Seqs, PlannedContinue(r)
  PROVE  TokensInv'
<1>1. /\ UNCHANGED <<cursor, prompt, status, start, prefilled, running>>
      /\ pc = "continue" /\ r \in todo
      /\ IF Fits(NextChunk(r))
         THEN schedPrefill' = schedPrefill \cup {r} /\ plan' = plan + NextChunk(r)
         ELSE schedPrefill' = schedPrefill /\ plan' = plan + 0
  BY DEF PlannedContinue, ContinuePrefill, Take, FirstAdmitted, metrics, progress, request, pools
<1>2. EngineInv /\ r \in running /\ status[r] = "PREFILL" /\ r \notin schedPrefill
  BY <1>1 DEF SchedInv, EngineInv, PlanConsistent, BudgetInv, Planned
<1>3. cursor[r] \in Nat /\ Len(prompt[r]) \in Nat /\ cursor[r] < Len(prompt[r])
  BY <1>2, PoolsAreRequests DEF SchedInv, EngineInv, EngineTypeOK, CursorInv, Prefilling
<1>4. /\ PrefillEnd(r) \in Nat /\ NextChunk(r) \in Nat
      /\ cursor[r] <= PrefillEnd(r) /\ PrefillEnd(r) - cursor[r] = NextChunk(r)
  BY <1>3, LimitsType DEF PrefillEnd, NextChunk, Smaller
<1>5. Computed' = Computed /\ \A q : PrefillEnd(q)' = PrefillEnd(q)
  BY <1>1 DEF Computed, PrefillEnd
<1>6. IsFiniteSet(Chosen) /\ Cardinality(Chosen) \in Nat /\ plan = Cardinality(Chosen)
  BY FS_CardinalityType DEF TokensInv
<1>7. IsFiniteSet(Chosen') /\ plan' = Cardinality(Chosen')
  <2>1. CASE Fits(NextChunk(r))
    <3>1. Chosen' = Chosen \cup ({r} \X (cursor[r] .. PrefillEnd(r) - 1))
      BY <1>1, <1>5, <2>1 DEF Chosen
    <3>2. \A i : <<r, i>> \notin Chosen
      BY <1>2, InChosen
    <3> DEFINE I == cursor[r] .. PrefillEnd(r) - 1
    <3>3. IsFiniteSet(I) /\ Cardinality(I) = PrefillEnd(r) - cursor[r]
      BY <1>3, <1>4, PositionsUpTo
    <3> HIDE DEF I
    <3>4. /\ IsFiniteSet(Chosen')
          /\ Cardinality(Chosen') = Cardinality(Chosen) + (PrefillEnd(r) - cursor[r])
      <4>1. Chosen' = Chosen \cup ({r} \X I)
        BY <3>1 DEF I
      <4>2. /\ IsFiniteSet(Chosen \cup ({r} \X I))
            /\ Cardinality(Chosen \cup ({r} \X I)) = Cardinality(Chosen) + Cardinality(I)
        BY <1>6, <3>2, <3>3, AddPositions
      <4> QED
        BY <3>3, <4>1, <4>2
    <3> QED
      BY <1>1, <1>4, <1>6, <2>1, <3>4
  <2>2. CASE ~ Fits(NextChunk(r))
    <3>1. Chosen' = Chosen
      BY <1>1, <1>5, <2>2 DEF Chosen
    <3> QED
      BY <1>1, <1>6, <2>2, <3>1
  <2> QED
    BY <2>1, <2>2
<1> QED
  BY <1>1, <1>5, <1>7 DEF TokensInv

LEMMA AdmitKeepsTokens ==
  ASSUME SchedInv, TokensInv, PromptsInChunks, NEW r \in Seqs, PlannedAdmit(r)
  PROVE  TokensInv'
<1> DEFINE p == prompt[r]
<1>1. /\ UNCHANGED <<prompt, prefilled>> /\ pc = "admit" /\ r \in todo
      /\ status' = [status EXCEPT ![r] = "PREFILL"]
      /\ start' = [start EXCEPT ![r] = cursor'[r]]
  BY DEF PlannedAdmit, Admit, Oldest, metrics, request
<1>2. PICK k \in 0 .. Len(p) :
         /\ Matches(p, k)
         /\ schedPrefill' = schedPrefill \cup {r}
         /\ cursor' = [cursor EXCEPT ![r] = FirstCursor(p, k)]
  BY DEF PlannedAdmit, Admit, Take
<1>3. PICK l \in 0 .. Len(p) : Matches(p, l) /\ plan' = plan + FirstChunk(p, l)
  BY DEF PlannedAdmit
<1>4. /\ EngineInv /\ r \in waiting /\ r \notin running /\ p \in Prompts
      /\ Len(p) \in Nat /\ status[r] = "NONE"
  BY <1>1, PoolsAreRequests DEF SchedInv, EngineInv, PlanConsistent, PoolsPartition
<1>5. k \in Nat /\ l \in Nat
  BY <1>4
<1>6. k = l
  BY <1>2, <1>3, <1>4, <1>5, MatchUnique
<1> DEFINE c == FirstCursor(p, k)
           n == FirstChunk(p, k)
<1>7. /\ c \in Nat /\ n \in Nat
      /\ Smaller(c + MaxPrefillChunkSize, Len(p)) = c + n
  BY <1>4, <1>5, FirstChunkIsComputed
<1> HIDE DEF c, n
<1>8. /\ cursor \in [Seqs -> Nat] /\ start \in [Seqs -> Nat]
      /\ status \in [Seqs -> {"NONE"} \cup Live \cup Ended]
  BY DEF SchedInv, EngineInv, EngineTypeOK, TokensInv
<1>9. /\ cursor'[r] = c /\ start'[r] = c /\ status'[r] = "PREFILL"
      /\ start' \in [Seqs -> Nat]
      /\ \A q \in Seqs : q # r => /\ cursor'[q] = cursor[q] /\ start'[q] = start[q]
                                  /\ status'[q] = status[q]
  BY <1>1, <1>2, <1>7, <1>8 DEF c
<1>10. start[r] = 0 /\ cursor[r] = 0
  BY <1>4 DEF TokensInv
<1>11. Computed' = Computed
  <2>1. ASSUME NEW q \in Seqs
        PROVE  {q} \X (start'[q] .. cursor'[q] - 1) = {q} \X (start[q] .. cursor[q] - 1)
    <3>1. CASE q = r
      <4>1. start'[r] .. cursor'[r] - 1 = {} /\ start[r] .. cursor[r] - 1 = {}
        BY <1>7, <1>9, <1>10
      <4> QED
        BY <3>1, <4>1
    <3>2. CASE q # r
      BY <1>9, <3>2
    <3> QED
      BY <3>1, <3>2
  <2> QED
    BY <2>1 DEF Computed
<1>12. PrefillEnd(r)' = c + n
  BY <1>1, <1>7, <1>9 DEF PrefillEnd
<1>13. \A q \in schedPrefill : cursor'[q] = cursor[q] /\ PrefillEnd(q)' = PrefillEnd(q)
  <2>1. \A q \in schedPrefill : q # r /\ q \in Seqs
    BY <1>4, BudgetsType
  <2> QED
    BY <1>1, <1>9, <2>1 DEF PrefillEnd
<1>14. Chosen' = Chosen \cup ({r} \X (c .. (c + n) - 1))
  BY <1>2, <1>9, <1>12, <1>13 DEF Chosen
<1>15. \A i : <<r, i>> \notin Chosen
  <2>1. r \notin schedPrefill
    BY <1>4, BudgetsType
  <2> QED
    BY <2>1, InChosen
<1>16. IsFiniteSet(Chosen) /\ Cardinality(Chosen) \in Nat /\ plan = Cardinality(Chosen)
  BY FS_CardinalityType DEF TokensInv
<1>17. IsFiniteSet(Chosen') /\ Cardinality(Chosen') = Cardinality(Chosen) + ((c + n) - c)
  <2>1. c \in Nat /\ c + n \in Nat /\ c <= c + n
    BY <1>7
  <2> DEFINE I == c .. (c + n) - 1
  <2>2. IsFiniteSet(I) /\ Cardinality(I) = (c + n) - c
    BY <2>1, PositionsUpTo
  <2> HIDE DEF I
  <2>3. Chosen' = Chosen \cup ({r} \X I)
    BY <1>14 DEF I
  <2>4. /\ IsFiniteSet(Chosen \cup ({r} \X I))
        /\ Cardinality(Chosen \cup ({r} \X I)) = Cardinality(Chosen) + Cardinality(I)
    BY <1>15, <1>16, <2>2, AddPositions
  <2> QED
    BY <2>2, <2>3, <2>4
<1>18. plan' = Cardinality(Chosen')
  BY <1>3, <1>6, <1>7, <1>16, <1>17 DEF n
<1>19. \A q \in Seqs : /\ start'[q] <= cursor'[q]
                       /\ status'[q] = "NONE" => start'[q] = 0 /\ cursor'[q] = 0
  BY <1>7, <1>9 DEF TokensInv
<1> QED
  BY <1>1, <1>9, <1>11, <1>17, <1>18, <1>19 DEF TokensInv

LEMMA ExecuteKeepsTokens ==
  ASSUME SchedInv, TokensInv, RecordedExecute
  PROVE  TokensInv'
<1>1. /\ UNCHANGED start /\ schedPrefill' = {}
      /\ prefilled' = prefilled + plan /\ plan' = 0
      /\ cursor' = [r \in Seqs |-> IF r \in schedPrefill THEN PrefillEnd(r) ELSE cursor[r]]
      /\ \A r \in Seqs : status'[r] \in {status[r], "RUNNING"}
  BY DEF RecordedExecute, Execute, Return
<1>2. ASSUME NEW r \in schedPrefill
      PROVE  /\ r \in Seqs /\ cursor[r] \in Nat /\ PrefillEnd(r) \in Nat
             /\ cursor[r] <= PrefillEnd(r) /\ start[r] \in Nat /\ start[r] <= cursor[r]
             /\ status[r] = "PREFILL"
  <2>1. /\ EngineInv /\ r \in running /\ r \in Seqs /\ status[r] = "PREFILL"
    BY BudgetsType DEF SchedInv
  <2>2. /\ cursor[r] \in Nat /\ Len(prompt[r]) \in Nat /\ cursor[r] < Len(prompt[r])
    BY <2>1, PoolsAreRequests DEF SchedInv, EngineInv, EngineTypeOK, CursorInv, Prefilling
  <2> QED
    BY <2>1, <2>2, LimitsType DEF PrefillEnd, Smaller, TokensInv
<1>3. Chosen' = {}
  BY <1>1 DEF Chosen
<1>4. /\ IsFiniteSet(Chosen) /\ IsFiniteSet(Computed) /\ IsFiniteSet({})
      /\ Cardinality({}) = 0
  BY FS_EmptySet DEF TokensInv
<1>5. Computed \cap Chosen = {}
  <2> SUFFICES ASSUME NEW x, x \in Computed, x \in Chosen PROVE FALSE
    OBVIOUS
  <2>1. PICK r \in schedPrefill : \E i \in cursor[r] .. PrefillEnd(r) - 1 : x = <<r, i>>
    BY InChosen
  <2>2. PICK q \in Seqs : \E i \in start[q] .. cursor[q] - 1 : x = <<q, i>>
    BY InComputed
  <2> QED
    BY <1>2, <2>1, <2>2
<1>6. Computed' = Computed \cup Chosen
  <2>1. ASSUME NEW x PROVE x \in Computed' <=> x \in Computed \/ x \in Chosen
    <3>1. ASSUME NEW q \in Seqs, NEW i
          PROVE  i \in start'[q] .. cursor'[q] - 1
                   <=> \/ i \in start[q] .. cursor[q] - 1
                       \/ q \in schedPrefill /\ i \in cursor[q] .. PrefillEnd(q) - 1
      <4>1. start[q] \in Nat /\ cursor[q] \in Nat /\ start[q] <= cursor[q]
        BY DEF TokensInv, SchedInv, EngineInv, EngineTypeOK
      <4>2. CASE q \in schedPrefill
        BY <1>1, <1>2, <4>1, <4>2
      <4>3. CASE q \notin schedPrefill
        BY <1>1, <4>1, <4>3
      <4> QED
        BY <4>2, <4>3
    <3>2. \A q \in schedPrefill : q \in Seqs
      BY <1>2
    <3> QED
      BY <3>1, <3>2, InChosen, InComputed, InComputedNext
  <2> QED
    BY <2>1
<1>7. /\ IsFiniteSet(Computed')
      /\ Cardinality(Computed') = Cardinality(Computed) + Cardinality(Chosen)
  BY <1>4, <1>5, <1>6, CardinalityOfBoth
<1>8. \A r \in Seqs : /\ start'[r] <= cursor'[r]
                      /\ status'[r] = "NONE" => start'[r] = 0 /\ cursor'[r] = 0
  <2> SUFFICES ASSUME NEW r \in Seqs
               PROVE  /\ start[r] <= cursor'[r]
                      /\ status'[r] = "NONE" => start[r] = 0 /\ cursor'[r] = 0
    BY <1>1
  <2>1. /\ start[r] \in Nat /\ cursor[r] \in Nat /\ start[r] <= cursor[r]
        /\ status[r] = "NONE" => start[r] = 0 /\ cursor[r] = 0
    BY DEF TokensInv, SchedInv, EngineInv, EngineTypeOK
  <2>2. CASE r \in schedPrefill
    BY <1>1, <1>2, <2>1, <2>2
  <2>3. CASE r \notin schedPrefill
    BY <1>1, <2>1, <2>3
  <2> QED
    BY <2>2, <2>3
<1> QED
  BY <1>1, <1>3, <1>4, <1>7, <1>8 DEF TokensInv

LEMMA RaiseKeepsTokens ==
  ASSUME TokensInv, NEW r \in Seqs, UnrecordedRaise(r)
  PROVE  TokensInv'
<1>1. /\ UNCHANGED <<start, cursor, status, prefilled>> /\ schedPrefill' = {} /\ plan' = 0
  BY DEF UnrecordedRaise, RaiseOOM, Return, progress
<1>2. Chosen' = {} /\ Computed' = Computed
  BY <1>1 DEF Chosen, Computed
<1>3. IsFiniteSet({}) /\ Cardinality({}) = 0
  BY FS_EmptySet
<1> QED
  BY <1>1, <1>2, <1>3 DEF TokensInv

LEMMA NextKeepsTokensInv ==
  ASSUME SchedInv, TokensInv, PromptsInChunks, [MetricsNext]_metricsVars
  PROVE  TokensInv'
<1>1. CASE UNCHANGED metricsVars
  <2>1. /\ UNCHANGED <<plan, prefilled, start, cursor, schedPrefill, prompt, status>>
    BY <1>1 DEF metricsVars, metrics, engineVars, progress, result, request
  <2> QED
    BY <2>1, PositionsKept DEF SchedInv
<1>2. CASE Aside /\ UNCHANGED <<plan, prefilled, seen, queueTimes, start>>
  BY <1>2, AsideEffect, AsideKeepsRequests, PositionsKept DEF SchedInv
<1> QED
  BY <1>1, <1>2, MetricsCases, ContinueKeepsTokens, AdmitKeepsTokens, ExecuteKeepsTokens,
     RaiseKeepsTokens

(* The prefill tokens that are reported are those that were computed, if   *)
(* the chunks of the scheduler are those of the engine.                     *)
THEOREM MetricsPlannedIsComputed ==
  PromptsInChunks => (MetricsSpec => []PlannedIsComputed)
<1> SUFFICES ASSUME PromptsInChunks PROVE MetricsSpec => []PlannedIsComputed
  OBVIOUS
<1>1. MetricsInit => TokensInv
  <2> SUFFICES ASSUME MetricsInit PROVE TokensInv
    OBVIOUS
  <2>1. /\ schedPrefill = {} /\ start = [r \in Seqs |-> 0] /\ cursor = [r \in Seqs |-> 0]
        /\ plan = 0 /\ prefilled = 0
    BY DEF MetricsInit, EngineInit
  <2>2. Chosen = {}
    BY <2>1 DEF Chosen
  <2>3. Computed = {}
    BY <2>1 DEF Computed
  <2>4. IsFiniteSet({}) /\ Cardinality({}) = 0
    BY FS_EmptySet
  <2> QED
    BY <2>1, <2>2, <2>3, <2>4 DEF TokensInv
<1>2. TablesInv /\ TokensInv /\ [MetricsNext]_metricsVars => TokensInv'
  BY NextKeepsTokensInv DEF TablesInv
<1>3. TokensInv => PlannedIsComputed
  BY DEF TokensInv, PlannedIsComputed
<1> QED
  BY <1>1, <1>2, <1>3, MetricsTablesInv, PTL DEF MetricsSpec

-----------------------------------------------------------------------------
(* Registration. *)

(* A step that finishes a group registers it at its end. *)
RegisteredInv ==
  /\ registered \in [Seqs -> Nat]
  /\ finishedGroups \in SUBSET Seqs
  /\ \A r \in finishedGroups : status[r] = "FINISHED"
  /\ pc = "idle" => finishedGroups = {}
  /\ \A r \in Seqs : registered[r] = IF status[r] \in Ended /\ r \notin finishedGroups
                                     THEN 1 ELSE 0

(* No raise loses a finished group. *)
RaisesLoseNothing == \A r \in Seqs : RaiseOOM(r) => finishedGroups = {}

LEMMA RegisteredKept ==
  ASSUME RegisteredInv, UNCHANGED <<registered, finishedGroups>>,
         pc' = "idle" => pc = "idle",
         \A r \in Seqs : status'[r] = status[r] \/ (status[r] \notin Ended /\ status'[r] \notin Ended)
  PROVE  RegisteredInv'
<1>1. \A r \in finishedGroups : status'[r] = status[r]
  BY DEF RegisteredInv, Ended
<1>2. \A r \in Seqs : status'[r] \in Ended <=> status[r] \in Ended
  OBVIOUS
<1> QED
  BY <1>1, <1>2 DEF RegisteredInv

LEMMA EndOutsideRegisters ==
  ASSUME EngineInv, RegisteredInv, NEW r \in Seqs, EndOutside(r)
  PROVE  RegisteredInv'
<1>1. PICK how \in Ended : EndSequence(r, how)
  BY DEF EndOutside, TimeOut, Cancel, Ended
<1>2. /\ UNCHANGED <<finishedGroups, pc>>
      /\ registered' = [registered EXCEPT ![r] = IF status[r] \in Live THEN @ + 1 ELSE @]
  BY DEF EndOutside, TimeOut, Cancel, RegisterEnded, result
<1>3. status \in [Seqs -> {"NONE"} \cup Live \cup Ended] /\ Live \cap Ended = {}
  BY DEF EngineInv, EngineTypeOK, Live, Ended
<1>4. CASE status[r] \in Live
  <2>1. /\ registered' \in [Seqs -> Nat] /\ registered'[r] = registered[r] + 1
        /\ \A q \in Seqs : q # r => registered'[q] = registered[q]
    BY <1>2, <1>4 DEF RegisteredInv
  <2>2. status'[r] = how /\ \A q \in Seqs : q # r => status'[q] = status[q]
    BY <1>1, <1>3, <1>4 DEF EndSequence
  <2>3. r \notin finishedGroups /\ registered[r] = 0
    BY <1>3, <1>4 DEF RegisteredInv, Ended
  <2>4. registered'[r] = 1
    BY <2>1, <2>3
  <2> QED
    BY <1>1, <1>2, <2>1, <2>2, <2>3, <2>4 DEF RegisteredInv
<1>5. CASE status[r] \notin Live
  <2>1. registered' = registered /\ status' = status
    BY <1>1, <1>2, <1>5 DEF EndSequence, RegisteredInv
  <2> QED
    BY <1>2, <2>1, RegisteredKept
<1> QED
  BY <1>4, <1>5

LEMMA FinishGroupRegisters ==
  ASSUME EngineInv, RegisteredInv, NEW r \in Seqs, FinishGroup(r), UNCHANGED registered
  PROVE  RegisteredInv'
<1>1. /\ EndSequence(r, "FINISHED") /\ r \in running /\ pc' = pc /\ pc = "begin"
      /\ finishedGroups' = finishedGroups \cup {r}
  BY DEF FinishGroup, FirstAdmitted, Complete, Scheduling
<1>2. /\ status \in [Seqs -> {"NONE"} \cup Live \cup Ended] /\ Live \cap Ended = {}
      /\ status[r] \in Live /\ "FINISHED" \in Ended
  BY <1>1 DEF EngineInv, EngineTypeOK, PoolsPartition, Live, Ended
<1>3. status'[r] = "FINISHED" /\ \A q \in Seqs : q # r => status'[q] = status[q]
  BY <1>1, <1>2 DEF EndSequence
<1>4. registered[r] = 0
  BY <1>2 DEF RegisteredInv
<1> QED
  BY <1>1, <1>2, <1>3, <1>4 DEF RegisteredInv

LEMMA ExecuteRegisters ==
  ASSUME EngineInv, RegisteredInv, RecordedExecute
  PROVE  RegisteredInv'
<1>1. /\ registered' = [r \in Seqs |-> IF r \in finishedGroups THEN registered[r] + 1
                                       ELSE registered[r]]
      /\ finishedGroups' = {}
      /\ \A r \in Seqs : status'[r] = status[r] \/ (r \in schedPrefill /\ status'[r] = "RUNNING")
  BY DEF RecordedExecute, Execute, Return
<1>2. \A r \in schedPrefill : status[r] = "PREFILL" /\ r \notin finishedGroups
  BY BudgetsType DEF RegisteredInv
<1>3. \A r \in Seqs : status'[r] \in Ended <=> status[r] \in Ended
  BY <1>1, <1>2 DEF Ended
<1>4. ASSUME NEW r \in Seqs
      PROVE  registered'[r] \in Nat /\ registered'[r] = IF status'[r] \in Ended THEN 1 ELSE 0
  <2>1. CASE r \in finishedGroups
    <3>1. status[r] \in Ended /\ registered[r] = 0
      BY <2>1 DEF RegisteredInv, Ended
    <3>2. registered'[r] = 1
      BY <1>1, <2>1, <3>1
    <3> QED
      BY <1>3, <3>1, <3>2
  <2>2. CASE r \notin finishedGroups
    <3>1. registered'[r] = registered[r] /\ registered[r] \in Nat
      BY <1>1, <2>2 DEF RegisteredInv
    <3> QED
      BY <1>3, <2>2, <3>1 DEF RegisteredInv
  <2> QED
    BY <2>1, <2>2
<1>5. registered' \in [Seqs -> Nat]
  BY <1>1, <1>4
<1> QED
  BY <1>1, <1>4, <1>5 DEF RegisteredInv

LEMMA NextKeepsRegisteredInv ==
  ASSUME EngineInv, RegisteredInv, RaisesLoseNothing, [MetricsNext]_metricsVars
  PROVE  RegisteredInv'
<1>1. CASE UNCHANGED metricsVars
  <2>1. UNCHANGED <<registered, finishedGroups, pc, status>>
    BY <1>1 DEF metricsVars, metrics, engineVars, result
  <2> QED
    BY <2>1, RegisteredKept
<1>2. CASE \/ (StartStep \/ PlanDecode \/ StartAdmission) /\ Unmeasured
           \/ \E p \in Prompts, m \in MaxTokensValues : AddRequest(p, m) /\ Unmeasured
           \/ \E r \in Seqs : (Ignore(r) \/ Reject(r) \/ EnsureBlock(r)) /\ Unmeasured
           \/ \E r \in Seqs : PlannedContinue(r)
  <2>1. /\ UNCHANGED <<registered, finishedGroups, status>>
        /\ pc' = "idle" => pc = "idle"
    BY <1>2 DEF StartStep, PlanDecode, StartAdmission, AddRequest, Ignore, Reject, EnsureBlock,
                PlannedContinue, ContinuePrefill, Unmeasured, metrics, result
  <2> QED
    BY <2>1, RegisteredKept
<1>3. ASSUME NEW r \in Seqs, PlannedAdmit(r) PROVE RegisteredInv'
  <2>1. /\ UNCHANGED <<registered, finishedGroups, pc>> /\ pc = "admit" /\ r \in todo
        /\ status' = [status EXCEPT ![r] = "PREFILL"]
    BY <1>3 DEF PlannedAdmit, Admit, Oldest, metrics
  <2>2. r \in waiting /\ status[r] = "NONE"
    BY <2>1 DEF EngineInv, PlanConsistent, PoolsPartition
  <2>3. \A q \in Seqs : status'[q] = status[q] \/ (status[q] \notin Ended /\ status'[q] \notin Ended)
    BY <2>1, <2>2 DEF EngineInv, EngineTypeOK, Ended
  <2> QED
    BY <2>1, <2>3, RegisteredKept
<1>4. ASSUME NEW r \in Seqs, UnrecordedRaise(r) PROVE RegisteredInv'
  <2>1. /\ UNCHANGED <<registered, status>> /\ finishedGroups' = {} /\ finishedGroups = {}
    BY <1>4 DEF UnrecordedRaise, RaiseOOM, Return, RaisesLoseNothing
  <2> QED
    BY <2>1 DEF RegisteredInv
<1>5. ASSUME NEW r \in Seqs, FinishGroup(r), Unmeasured PROVE RegisteredInv'
  BY <1>5, FinishGroupRegisters DEF Unmeasured, metrics
<1> QED
  BY <1>1, <1>2, <1>3, <1>4, <1>5, EndOutsideRegisters, ExecuteRegisters DEF MetricsNext

(* Every sequence that ends is registered once as long as no step raises   *)
(* after it has found a group finished ...                                  *)
THEOREM MetricsRegisterOnce ==
  MetricsSpec /\ [][RaisesLoseNothing]_metricsVars => []EndedRegisteredOnce
<1>1. MetricsInit => RegisteredInv
  BY DEF MetricsInit, EngineInit, RegisteredInv, Ended
<1>2. TablesInv /\ RegisteredInv /\ [MetricsNext]_metricsVars /\ [RaisesLoseNothing]_metricsVars
        => RegisteredInv'
  <2>1. CASE UNCHANGED metricsVars
    <3>1. UNCHANGED <<registered, finishedGroups, pc, status>>
      BY <2>1 DEF metricsVars, metrics, engineVars, result
    <3> QED
      BY <3>1, RegisteredKept
  <2>2. CASE RaisesLoseNothing
    BY <2>2, NextKeepsRegisteredInv DEF TablesInv, SchedInv
  <2> QED
    BY <2>1, <2>2
<1>3. RegisteredInv => EndedRegisteredOnce
  BY DEF RegisteredInv, EndedRegisteredOnce
<1> QED
  BY <1>1, <1>2, <1>3, MetricsTablesInv, PTL DEF MetricsSpec

(* ... which no step does when there are enough blocks. *)
THEOREM MetricsRegisterOnceEnough ==
  EnoughBlocks => (MetricsSpec => []EndedRegisteredOnce)
<1> SUFFICES ASSUME EnoughBlocks PROVE MetricsSpec => []EndedRegisteredOnce
  OBVIOUS
<1>1. TablesInv => [RaisesLoseNothing]_metricsVars
  BY BlockLeft DEF RaisesLoseNothing, RaiseOOM, OutOfBlocks
<1> QED
  BY <1>1, MetricsTablesInv, MetricsRegisterOnce, PTL

-----------------------------------------------------------------------------
(* The stage profiler. *)

(* What is kept of a stage: no time without a record. *)
Durable == {d \in [count : Nat, total : Nat] : d.count = 0 => d.total = 0}

ProfilerTypeOK ==
  /\ clock \in Nat
  /\ \E D \in SUBSET StageNames : records \in [D -> Durable]
  /\ opened \in [StageNames -> Int]
  /\ queue \in Seq(Nat) /\ \A i \in DOMAIN queue : queue[i] <= clock

(* Which stages are open at which place of the step. *)
OpenInv ==
  /\ \A s \in StageNames : opened[s] <= clock
  /\ opened["engine_step_total"] >= 0 <=> at # "idle"
  /\ \A s \in InStep :
       opened[s] >= 0 <=> \/ s = "scheduler_step" /\ at = "schedule"
                          \/ s = "executor_forward" /\ at = "forward"
                          \/ s = "metrics_update" /\ at = "metrics"

(* The time a stage has taken, what is open included. *)
Taken(s) == Total(s) + (IF opened[s] >= 0 THEN clock - opened[s] ELSE 0)

(* A stage inside the steps never took longer than the steps. *)
NestInv == \A s \in InStep : Taken(s) <= Taken("engine_step_total")

ProfilerInv == ProfilerTypeOK /\ OpenInv /\ NestInv

LEMMA StageNamesAre ==
  /\ StageNames = {"request_queue_waiting", "scheduler_step", "kv_cache_allocation",
                   "prefix_cache_lookup", "prefill", "decode", "executor_forward",
                   "kv_cache_release", "metrics_update", "engine_step_total"}
  /\ InStep \subseteq StageNames /\ "engine_step_total" \in StageNames
  /\ "engine_step_total" \notin InStep
<1>1. DOMAIN Stages = 1 .. 10
  BY DEF Stages
<1>2. /\ 1 .. 10 = {1, 2, 3, 4, 5, 6, 7, 8, 9, 10}
  OBVIOUS
<1>3. StageNames = {Stages[1], Stages[2], Stages[3], Stages[4], Stages[5], Stages[6],
                    Stages[7], Stages[8], Stages[9], Stages[10]}
  BY <1>1, <1>2 DEF StageNames
<1>4. StageNames = {"request_queue_waiting", "scheduler_step", "kv_cache_allocation",
                   "prefix_cache_lookup", "prefill", "decode", "executor_forward",
                   "kv_cache_release", "metrics_update", "engine_step_total"}
  BY <1>3 DEF Stages
<1> QED
  BY <1>4 DEF InStep

LEMMA OfType ==
  ASSUME ProfilerTypeOK, NEW s
  PROVE  /\ Of(records, s) \in Durable /\ Of(records, s).count \in Nat /\ Total(s) \in Nat
         /\ s \notin DOMAIN records => Total(s) = 0
<1>1. PICK D \in SUBSET StageNames : records \in [D -> Durable]
  BY DEF ProfilerTypeOK
<1>2. NoRecords \in Durable /\ NoRecords.total = 0
  BY DEF NoRecords, Durable
<1>3. Of(records, s) \in Durable
  BY <1>1, <1>2 DEF Of
<1> QED
  BY <1>1, <1>2, <1>3 DEF Of, Durable, Total

LEMMA TotalNext ==
  ASSUME ProfilerTypeOK', NEW s
  PROVE  Total(s)' \in Nat
<1>1. PICK D \in SUBSET StageNames : records' \in [D -> Durable]
  BY DEF ProfilerTypeOK
<1>2. NoRecords \in Durable
  BY DEF NoRecords, Durable
<1>3. Of(records, s)' \in Durable
  BY <1>1, <1>2 DEF Of
<1> QED
  BY <1>3 DEF Durable, Total

(* Only some stages get longer: those named, by the durations given. *)
LEMMA Lengthened ==
  ASSUME ProfilerTypeOK, NEW S \in SUBSET StageNames, NEW d \in [S -> Nat],
         records' = [s \in DOMAIN records \cup S |->
                       IF s \in S THEN Longer(s, d[s]) ELSE records[s]]
  PROVE  /\ \E D \in SUBSET StageNames : records' \in [D -> Durable]
         /\ \A s : Total(s)' = Total(s) + (IF s \in S THEN d[s] ELSE 0)
<1>1. PICK D \in SUBSET StageNames : records \in [D -> Durable]
  BY DEF ProfilerTypeOK
<1>2. ASSUME NEW s \in S
      PROVE  Longer(s, d[s]) \in Durable /\ Longer(s, d[s]).total = Total(s) + d[s]
  BY OfType DEF Longer, Durable, Total
<1>3. records' \in [D \cup S -> Durable]
  BY <1>1, <1>2
<1>4. ASSUME NEW s
      PROVE  Total(s)' = Total(s) + (IF s \in S THEN d[s] ELSE 0)
  <2>1. Total(s) \in Nat
    BY OfType
  <2>2. CASE s \in S
    BY <1>2, <2>2 DEF Total, Of
  <2>3. CASE s \notin S
    <3>1. Of(records, s)' = Of(records, s)
      BY <1>1, <2>3 DEF Of, NoRecords
    <3> QED
      BY <2>1, <2>3, <3>1 DEF Total
  <2> QED
    BY <2>2, <2>3
<1> QED
  BY <1>3, <1>4

LEMMA AddLengthens ==
  ASSUME ProfilerTypeOK, NEW q \in StageNames, NEW n \in Nat, Add(q, n)
  PROVE  /\ \E D \in SUBSET StageNames : records' \in [D -> Durable]
         /\ \A s : Total(s)' = Total(s) + (IF s = q THEN n ELSE 0)
<1> DEFINE d == [s \in {q} |-> n]
<1>1. d \in [{q} -> Nat]
  OBVIOUS
<1>2. records' = [s \in DOMAIN records \cup {q} |->
                    IF s \in {q} THEN Longer(s, d[s]) ELSE records[s]]
  BY DEF Add
<1> HIDE DEF d
<1>3. d[q] = n
  BY DEF d
<1>4. /\ \E D \in SUBSET StageNames : records' \in [D -> Durable]
      /\ \A s : Total(s)' = Total(s) + (IF s \in {q} THEN d[s] ELSE 0)
  <2>1. {q} \in SUBSET StageNames
    OBVIOUS
  <2> QED
    BY <1>1, <1>2, <2>1, Lengthened
<1>5. \A s : Total(s)' = Total(s) + (IF s = q THEN n ELSE 0)
  BY <1>3, <1>4
<1> QED
  BY <1>4, <1>5

(* A stage that is closed goes on counting what it took while open. *)
LEMMA CloseLengthens ==
  ASSUME ProfilerTypeOK, OpenInv, NEW S \in SUBSET StageNames, Close(S),
         \A s \in S : opened[s] >= 0
  PROVE  /\ \E D \in SUBSET StageNames : records' \in [D -> Durable]
         /\ \A s \in StageNames : Total(s)' =
              Total(s) + (IF s \in S THEN clock - opened[s] ELSE 0)
         /\ opened' \in [StageNames -> Int]
         /\ \A s \in StageNames : opened'[s] = IF s \in S THEN -1 ELSE opened[s]
<1> DEFINE d == [s \in S |-> clock - opened[s]]
<1>1. d \in [S -> Nat]
  BY DEF ProfilerTypeOK, OpenInv
<1>2. records' = [s \in DOMAIN records \cup S |->
                    IF s \in S THEN Longer(s, d[s]) ELSE records[s]]
  BY DEF Close
<1>3. \A s \in S : d[s] = clock - opened[s]
  OBVIOUS
<1> HIDE DEF d
<1>4. /\ \E D \in SUBSET StageNames : records' \in [D -> Durable]
      /\ \A s : Total(s)' = Total(s) + (IF s \in S THEN d[s] ELSE 0)
  BY <1>1, <1>2, Lengthened
<1>5. \A s \in StageNames : Total(s)' =
            Total(s) + (IF s \in S THEN clock - opened[s] ELSE 0)
  BY <1>3, <1>4
<1>6. /\ opened' \in [StageNames -> Int]
      /\ \A s \in StageNames : opened'[s] = IF s \in S THEN -1 ELSE opened[s]
  BY DEF Close, ProfilerTypeOK
<1> QED
  BY <1>4, <1>5, <1>6

(* What is open inside a step gets no longer than the step as time goes on. *)
LEMMA Later ==
  ASSUME NEW x \in Nat, NEW y \in Nat, NEW o \in Int, NEW p \in Int,
         NEW c \in Nat, NEW d \in Nat, c <= d, o >= 0 => p >= 0,
         x + (IF o >= 0 THEN c - o ELSE 0) <= y + (IF p >= 0 THEN c - p ELSE 0)
  PROVE  x + (IF o >= 0 THEN d - o ELSE 0) <= y + (IF p >= 0 THEN d - p ELSE 0)
  OBVIOUS

(* The effect of each kind of step on what the stages have taken. *)
LEMMA KeptUntouched ==
  ASSUME ProfilerInv, UNCHANGED <<records, opened, at>>,
         clock' \in Nat, clock <= clock',
         queue' \in Seq(Nat), \A i \in DOMAIN queue' : queue'[i] <= clock'
  PROVE  ProfilerInv'
<1>1. ProfilerTypeOK' /\ OpenInv'
  BY StageNamesAre DEF ProfilerInv, ProfilerTypeOK, OpenInv
<1>2. ASSUME NEW s \in InStep PROVE Taken(s)' <= Taken("engine_step_total")'
  <2>1. /\ Total(s)' = Total(s) /\ Total("engine_step_total")' = Total("engine_step_total")
        /\ opened' = opened
    BY DEF Total, Of, NoRecords
  <2>2. /\ Total(s) \in Nat /\ Total("engine_step_total") \in Nat
        /\ opened[s] \in Int /\ opened["engine_step_total"] \in Int /\ clock \in Nat
    BY OfType, StageNamesAre DEF ProfilerInv, ProfilerTypeOK
  <2>3. opened[s] >= 0 => opened["engine_step_total"] >= 0
    BY DEF ProfilerInv, OpenInv
  <2>4. Taken(s) <= Taken("engine_step_total")
    BY DEF ProfilerInv, NestInv
  <2> DEFINE e == "engine_step_total"
  <2>5. /\ Taken(s) = Total(s) + (IF opened[s] >= 0 THEN clock - opened[s] ELSE 0)
        /\ Taken(e) = Total(e) + (IF opened[e] >= 0 THEN clock - opened[e] ELSE 0)
        /\ Taken(s)' = Total(s) + (IF opened[s] >= 0 THEN clock' - opened[s] ELSE 0)
        /\ Taken(e)' = Total(e) + (IF opened[e] >= 0 THEN clock' - opened[e] ELSE 0)
    BY <2>1 DEF Taken
  <2>6. /\ Total(s) + (IF opened[s] >= 0 THEN clock - opened[s] ELSE 0)
             <= Total(e) + (IF opened[e] >= 0 THEN clock - opened[e] ELSE 0)
        /\ clock' \in Nat /\ clock <= clock'
    BY <2>4, <2>5
  <2>7. Total(s) + (IF opened[s] >= 0 THEN clock' - opened[s] ELSE 0)
          <= Total(e) + (IF opened[e] >= 0 THEN clock' - opened[e] ELSE 0)
    BY <2>2, <2>3, <2>6, Later
  <2> QED
    BY <2>5, <2>7
<1> QED
  BY <1>1, <1>2 DEF ProfilerInv, NestInv

LEMMA RawKeeps ==
  ASSUME ProfilerInv, NEW q \in StageNames, NEW n \in Nat,
         Add(q, n), clock' \in Nat, clock <= clock', UNCHANGED <<opened, at>>,
         q \in InStep => at # "idle" /\ clock' = clock + n /\ opened[q] < 0,
         q # "engine_step_total",
         queue' \in Seq(Nat), \A i \in DOMAIN queue' : queue'[i] <= clock'
  PROVE  ProfilerInv'
<1>1. /\ \E D \in SUBSET StageNames : records' \in [D -> Durable]
      /\ \A s : Total(s)' = Total(s) + (IF s = q THEN n ELSE 0)
  BY AddLengthens DEF ProfilerInv
<1>2. ProfilerTypeOK' /\ OpenInv'
  <2>1. ProfilerTypeOK'
    BY <1>1 DEF ProfilerInv, ProfilerTypeOK
  <2>2. /\ opened \in [StageNames -> Int] /\ clock \in Nat
        /\ \A s \in StageNames : opened[s] <= clock
    BY DEF ProfilerInv, ProfilerTypeOK, OpenInv
  <2>3. \A s \in StageNames : opened'[s] <= clock'
    BY <2>2
  <2> QED
    BY <2>1, <2>3 DEF ProfilerInv, OpenInv
<1>3. ASSUME NEW s \in InStep PROVE Taken(s)' <= Taken("engine_step_total")'
  <2>2. /\ Total(s) \in Nat /\ Total("engine_step_total") \in Nat
        /\ opened[s] \in Int /\ opened["engine_step_total"] \in Int /\ clock \in Nat
    BY OfType, StageNamesAre DEF ProfilerInv, ProfilerTypeOK
  <2>3. /\ opened[s] >= 0 => opened["engine_step_total"] >= 0
        /\ at # "idle" => opened["engine_step_total"] >= 0
    BY DEF ProfilerInv, OpenInv
  <2>4. Taken(s) <= Taken("engine_step_total")
    BY DEF ProfilerInv, NestInv
  <2> DEFINE e == "engine_step_total"
  <2>5. CASE s = q
    <3>1. /\ Total(s)' = Total(s) + n /\ Total("engine_step_total")' = Total("engine_step_total")
          /\ clock' = clock + n /\ opened' = opened /\ opened[s] < 0
          /\ opened["engine_step_total"] >= 0
      BY <1>1, <2>2, <2>3, <2>5
    <3>2. /\ Taken(s) = Total(s)
          /\ Taken(e) = Total(e) + (clock - opened[e])
          /\ Taken(s)' = Total(s) + n
          /\ Taken(e)' = Total(e) + (clock + n - opened[e])
      BY <2>2, <3>1 DEF Taken
    <3> QED
      BY <2>2, <2>4, <3>2
  <2>6. CASE s # q
    <3>1. /\ Total(s)' = Total(s) /\ Total("engine_step_total")' = Total("engine_step_total")
          /\ opened' = opened
      BY <1>1, <2>2, <2>6
    <3>2. /\ Taken(s) = Total(s) + (IF opened[s] >= 0 THEN clock - opened[s] ELSE 0)
          /\ Taken(e) = Total(e) + (IF opened[e] >= 0 THEN clock - opened[e] ELSE 0)
          /\ Taken(s)' = Total(s) + (IF opened[s] >= 0 THEN clock' - opened[s] ELSE 0)
          /\ Taken(e)' = Total(e) + (IF opened[e] >= 0 THEN clock' - opened[e] ELSE 0)
      BY <3>1 DEF Taken
    <3>3. /\ Total(s) + (IF opened[s] >= 0 THEN clock - opened[s] ELSE 0)
               <= Total(e) + (IF opened[e] >= 0 THEN clock - opened[e] ELSE 0)
          /\ clock' \in Nat /\ clock <= clock'
      BY <2>4, <3>2
    <3>4. Total(s) + (IF opened[s] >= 0 THEN clock' - opened[s] ELSE 0)
            <= Total(e) + (IF opened[e] >= 0 THEN clock' - opened[e] ELSE 0)
      BY <2>2, <2>3, <3>3, Later
    <3> QED
      BY <3>2, <3>4
  <2> QED
    BY <2>5, <2>6
<1> QED
  BY <1>2, <1>3 DEF ProfilerInv, NestInv

LEMMA OpenKeeps ==
  ASSUME ProfilerInv, NEW q \in StageNames, Open(q), opened[q] < 0,
         UNCHANGED <<clock, records, queue>>, OpenInv'
  PROVE  ProfilerInv'
<1>1. ProfilerTypeOK'
  BY DEF ProfilerInv, ProfilerTypeOK, Open
<1>2. ASSUME NEW s \in StageNames PROVE Taken(s)' = Taken(s)
  <2>1. /\ Total(s)' = Total(s) /\ Total(s) \in Nat /\ clock' = clock /\ clock \in Nat
        /\ opened[s] \in Int
    BY OfType DEF Total, Of, NoRecords, ProfilerInv, ProfilerTypeOK
  <2>2. opened'[s] = IF s = q THEN clock ELSE opened[s]
    BY DEF ProfilerInv, ProfilerTypeOK, Open
  <2> QED
    BY <2>1, <2>2 DEF Taken
<1> QED
  BY <1>1, <1>2, StageNamesAre DEF ProfilerInv, NestInv

LEMMA CloseKeeps ==
  ASSUME ProfilerInv, NEW S \in SUBSET StageNames, Close(S), \A s \in S : opened[s] >= 0,
         UNCHANGED <<clock, queue>>, OpenInv'
  PROVE  ProfilerInv'
<1>1. /\ \E D \in SUBSET StageNames : records' \in [D -> Durable]
      /\ \A s \in StageNames : Total(s)' =
           Total(s) + (IF s \in S THEN clock - opened[s] ELSE 0)
      /\ opened' \in [StageNames -> Int]
      /\ \A s \in StageNames : opened'[s] = IF s \in S THEN -1 ELSE opened[s]
  BY CloseLengthens DEF ProfilerInv
<1>2. ProfilerTypeOK'
  BY <1>1 DEF ProfilerInv, ProfilerTypeOK
<1>3. ASSUME NEW s \in StageNames PROVE Taken(s)' = Taken(s)
  <2>1. /\ Total(s) \in Nat /\ clock' = clock /\ clock \in Nat /\ opened[s] \in Int
    BY OfType DEF ProfilerInv, ProfilerTypeOK
  <2>2. CASE s \in S
    BY <1>1, <2>1, <2>2 DEF Taken
  <2>3. CASE s \notin S
    BY <1>1, <2>1, <2>3 DEF Taken
  <2> QED
    BY <2>2, <2>3
<1> QED
  BY <1>2, <1>3, StageNamesAre DEF ProfilerInv, NestInv

LEMMA ResetKeeps ==
  ASSUME ProfilerInv, Reset
  PROVE  ProfilerInv'
<1>1. at = "idle" /\ UNCHANGED <<clock, at, opened, queue>>
  BY DEF Reset
<1>2. PICK D \in SUBSET StageNames : records \in [D -> Durable]
  BY DEF ProfilerInv, ProfilerTypeOK
<1>3. /\ \E E \in SUBSET StageNames : records' \in [E -> Durable]
      /\ \A s \in InStep :
           \/ Total(s)' = 0
           \/ Total(s)' = Total(s) /\ Total("engine_step_total")' = Total("engine_step_total")
  <2>1. CASE StageNames \subseteq DOMAIN records
    <3>1. records' = [s \in {} |-> NoRecords]
      BY <2>1 DEF Reset
    <3>2. \A s : Total(s)' = 0
      BY <3>1 DEF Total, Of, NoRecords
    <3>3. records' \in [{} -> Durable] /\ {} \in SUBSET StageNames
      BY <3>1
    <3> QED
      BY <3>2, <3>3
  <2>2. CASE ~ (StageNames \subseteq DOMAIN records)
    <3>1. PICK i \in DOMAIN Stages :
            records' = [s \in DOMAIN records |->
                          IF \E j \in 1 .. i - 1 : s = Stages[j] THEN NoRecords
                          ELSE records[s]]
      BY <2>2 DEF Reset
    <3>2. \A j \in 1 .. i - 1 : Stages[j] # "engine_step_total"
      BY DEF Stages
    <3>3. NoRecords \in Durable /\ NoRecords.total = 0
      BY DEF NoRecords, Durable
    <3>4. records' \in [D -> Durable]
      BY <1>2, <3>1, <3>3
    <3>5. \A s : Of(records, s)' = IF \E j \in 1 .. i - 1 : s = Stages[j] THEN NoRecords
                                   ELSE Of(records, s)
      BY <1>2, <3>1 DEF Of, NoRecords
    <3>6. \A s : Total(s)' = 0 \/ Total(s)' = Total(s)
      BY <3>3, <3>5 DEF Total
    <3>7. Total("engine_step_total")' = Total("engine_step_total")
      BY <3>2, <3>5 DEF Total
    <3> QED
      BY <3>4, <3>6, <3>7
  <2> QED
    BY <2>1, <2>2
<1>4. ProfilerTypeOK' /\ OpenInv'
  BY <1>1, <1>3 DEF ProfilerInv, ProfilerTypeOK, OpenInv
<1>5. ASSUME NEW s \in InStep PROVE Taken(s)' <= Taken("engine_step_total")'
  <2> DEFINE e == "engine_step_total"
  <2>1. /\ Total(e) \in Nat /\ Total(s) \in Nat
        /\ opened' = opened /\ opened[s] \in Int /\ opened[e] \in Int
    BY <1>1, OfType, StageNamesAre DEF ProfilerInv, ProfilerTypeOK
  <2>5. Total(e)' \in Nat
    BY <1>3, <1>4, TotalNext
  <2>2. ~ (opened[s] >= 0) /\ ~ (opened["engine_step_total"] >= 0)
    BY <1>1 DEF ProfilerInv, OpenInv
  <2>3. Total(s) <= Total("engine_step_total")
    BY <2>1, <2>2 DEF ProfilerInv, NestInv, Taken
  <2>4. Total(s)' <= Total("engine_step_total")'
    BY <1>3, <2>1, <2>3, <2>5
  <2>6. Taken(s)' = Total(s)' + 0 /\ Taken(e)' = Total(e)' + 0
    BY <2>1, <2>2 DEF Taken
  <2>7. Total(s)' \in Nat
    BY <1>3, <2>1
  <2> QED
    BY <2>4, <2>5, <2>6, <2>7
<1> QED
  BY <1>4, <1>5 DEF ProfilerInv, NestInv

LEMMA NextKeepsProfilerInv ==
  ASSUME ProfilerInv, [Next]_vars
  PROVE  ProfilerInv'
<1>1. /\ clock \in Nat /\ opened \in [StageNames -> Int]
      /\ queue \in Seq(Nat) /\ \A i \in DOMAIN queue : queue[i] <= clock
  BY DEF ProfilerInv, ProfilerTypeOK
<1>2. CASE UNCHANGED vars \/ Tick
  <2>1. UNCHANGED <<records, opened, at, queue>> /\ clock' \in Nat /\ clock <= clock'
    <3>1. CASE UNCHANGED vars
      BY <1>1, <3>1 DEF vars
    <3>2. CASE Tick
      <4>1. Instants \subseteq Nat /\ clock' \in Instants /\ clock' > clock
        BY <3>2, ProfilerAssumption DEF Tick
      <4> QED
        BY <1>1, <3>2, <4>1 DEF Tick
    <3> QED
      BY <1>2, <3>1, <3>2
  <2> QED
    BY <1>1, <2>1, KeptUntouched
<1>3. CASE Arrive
  <2>1. UNCHANGED <<records, opened, at, clock>> /\ queue' = Append(queue, clock)
    BY <1>3 DEF Arrive
  <2>2. queue' \in Seq(Nat) /\ \A i \in DOMAIN queue' : queue'[i] <= clock'
    BY <1>1, <2>1
  <2> QED
    BY <1>1, <2>1, <2>2, KeptUntouched
<1>4. CASE Reset
  BY <1>4, ResetKeeps
<1>5. ASSUME NEW q \in StageNames, NEW p, at' = p, Open(q), opened[q] < 0,
             UNCHANGED <<clock, records, queue>>,
             \/ at = "idle" /\ p = "timeouts" /\ q = "engine_step_total"
             \/ at = "timeouts" /\ p = "schedule" /\ q = "scheduler_step"
             \/ at = "blocks" /\ p = "forward" /\ q = "executor_forward"
             \/ at \in {"blocks", "after"} /\ p = "metrics" /\ q = "metrics_update"
      PROVE  ProfilerInv'
  <2>1. \A s \in StageNames : opened'[s] = IF s = q THEN clock ELSE opened[s]
    BY <1>1, <1>5 DEF Open
  <2>2. \A s \in StageNames : opened'[s] <= clock'
    BY <1>1, <1>5, <2>1 DEF ProfilerInv, OpenInv
  <2>3. opened'["engine_step_total"] >= 0 <=> at' # "idle"
    BY <1>1, <1>5, <2>1, StageNamesAre DEF ProfilerInv, OpenInv
  <2>4. ASSUME NEW s \in InStep
        PROVE  opened'[s] >= 0 <=> \/ s = "scheduler_step" /\ at' = "schedule"
                                   \/ s = "executor_forward" /\ at' = "forward"
                                   \/ s = "metrics_update" /\ at' = "metrics"
    BY <1>1, <1>5, <2>1, StageNamesAre DEF ProfilerInv, OpenInv
  <2>5. OpenInv'
    BY <2>2, <2>3, <2>4 DEF OpenInv
  <2> QED
    BY <1>5, <2>5, OpenKeeps
<1>6. CASE EnterStep
  <2>1. /\ at' = "timeouts" /\ Open("engine_step_total") /\ UNCHANGED <<clock, records, queue>>
        /\ at = "idle"
    BY <1>6 DEF EnterStep
  <2>2. "engine_step_total" \in StageNames /\ opened["engine_step_total"] < 0
    BY <1>1, <2>1, StageNamesAre DEF ProfilerInv, OpenInv, InStep
  <2> QED
    BY <1>5, <2>1, <2>2
<1>7. CASE EnterSchedule
  <2>1. /\ at' = "schedule" /\ Open("scheduler_step") /\ UNCHANGED <<clock, records, queue>>
        /\ at = "timeouts"
    BY <1>7 DEF EnterSchedule
  <2>2. "scheduler_step" \in StageNames /\ opened["scheduler_step"] < 0
    BY <1>1, <2>1, StageNamesAre DEF ProfilerInv, OpenInv, InStep
  <2> QED
    BY <1>5, <2>1, <2>2
<1>8. CASE EnterForward
  <2>1. /\ at' = "forward" /\ Open("executor_forward") /\ UNCHANGED <<clock, records, queue>>
        /\ at = "blocks"
    BY <1>8 DEF EnterForward
  <2>2. "executor_forward" \in StageNames /\ opened["executor_forward"] < 0
    BY <1>1, <2>1, StageNamesAre DEF ProfilerInv, OpenInv, InStep
  <2> QED
    BY <1>5, <2>1, <2>2
<1>9. CASE EnterMetrics
  <2>1. /\ at' = "metrics" /\ Open("metrics_update") /\ UNCHANGED <<clock, records, queue>>
        /\ at \in {"blocks", "after"}
    BY <1>9 DEF EnterMetrics
  <2>2. "metrics_update" \in StageNames /\ opened["metrics_update"] < 0
    BY <1>1, <2>1, StageNamesAre DEF ProfilerInv, OpenInv, InStep
  <2> QED
    BY <1>5, <2>1, <2>2
<1>10. ASSUME NEW S \in SUBSET StageNames, NEW p, at' = p, Close(S),
              \A s \in S : opened[s] >= 0, UNCHANGED <<clock, queue>>,
              \/ at = "schedule" /\ p = "blocks" /\ S = {"scheduler_step"}
              \/ at = "forward" /\ p = "after" /\ S = {"executor_forward"}
              \/ at = "metrics" /\ p = "idle" /\ S = {"metrics_update", "engine_step_total"}
              \/ p = "idle" /\ S = {s \in StageNames : opened[s] >= 0}
       PROVE  ProfilerInv'
  <2>1. \A s \in StageNames : opened'[s] = IF s \in S THEN -1 ELSE opened[s]
    BY <1>10 DEF Close
  <2>2. \A s \in StageNames : opened'[s] <= clock'
    BY <1>1, <1>10, <2>1 DEF ProfilerInv, OpenInv
  <2>3. opened'["engine_step_total"] >= 0 <=> at' # "idle"
    <3>1. /\ "engine_step_total" \in StageNames
          /\ opened["engine_step_total"] \in Int
          /\ opened["engine_step_total"] >= 0 <=> at # "idle"
      BY <1>1, StageNamesAre DEF ProfilerInv, OpenInv
    <3>2. opened'["engine_step_total"] >= 0 <=>
            "engine_step_total" \notin S /\ opened["engine_step_total"] >= 0
      BY <2>1, <3>1
    <3> QED
      BY <1>10, <3>1, <3>2
  <2>4. ASSUME NEW s \in InStep
        PROVE  opened'[s] >= 0 <=> \/ s = "scheduler_step" /\ at' = "schedule"
                                   \/ s = "executor_forward" /\ at' = "forward"
                                   \/ s = "metrics_update" /\ at' = "metrics"
    <3>1. opened[s] >= 0 <=> \/ s = "scheduler_step" /\ at = "schedule"
                             \/ s = "executor_forward" /\ at = "forward"
                             \/ s = "metrics_update" /\ at = "metrics"
      BY DEF ProfilerInv, OpenInv
    <3>2. s \in StageNames /\ s # "engine_step_total" /\ opened[s] \in Int
      BY <1>1, StageNamesAre
    <3>3. opened'[s] >= 0 <=> s \notin S /\ opened[s] >= 0
      BY <2>1, <3>2
    <3> QED
      BY <1>10, <3>1, <3>2, <3>3
  <2>5. OpenInv'
    BY <2>2, <2>3, <2>4 DEF OpenInv
  <2> QED
    BY <1>10, <2>5, CloseKeeps
<1>11. CASE LeaveSchedule
  <2>1. /\ at = "schedule" /\ at' = "blocks" /\ Close({"scheduler_step"})
        /\ UNCHANGED <<clock, queue>>
    BY <1>11 DEF LeaveSchedule
  <2>2. {"scheduler_step"} \in SUBSET StageNames /\ \A s \in {"scheduler_step"} : opened[s] >= 0
    BY <1>1, <2>1, StageNamesAre DEF ProfilerInv, OpenInv, InStep
  <2> QED
    BY <1>10, <2>1, <2>2
<1>12. CASE LeaveForward
  <2>1. /\ at = "forward" /\ at' = "after" /\ Close({"executor_forward"})
        /\ UNCHANGED <<clock, queue>>
    BY <1>12 DEF LeaveForward
  <2>2. {"executor_forward"} \in SUBSET StageNames /\ \A s \in {"executor_forward"} : opened[s] >= 0
    BY <1>1, <2>1, StageNamesAre DEF ProfilerInv, OpenInv, InStep
  <2> QED
    BY <1>10, <2>1, <2>2
<1>13. CASE LeaveStep
  <2>1. /\ at = "metrics" /\ at' = "idle" /\ Close({"metrics_update", "engine_step_total"})
        /\ UNCHANGED <<clock, queue>>
    BY <1>13 DEF LeaveStep
  <2>2. {"metrics_update", "engine_step_total"} \in SUBSET StageNames /\ \A s \in {"metrics_update", "engine_step_total"} : opened[s] >= 0
    BY <1>1, <2>1, StageNamesAre DEF ProfilerInv, OpenInv, InStep
  <2> QED
    BY <1>10, <2>1, <2>2
<1>14. CASE Raise
  BY <1>10, <1>14, StageNamesAre DEF Raise
<1>15. CASE Dequeue
  <2>1. /\ queue # <<>> /\ queue' = Tail(queue) /\ UNCHANGED <<clock, at, opened>>
        /\ Add("request_queue_waiting", clock - Head(queue))
    BY <1>15 DEF Dequeue
  <2>2. clock - Head(queue) \in Nat
    BY <1>1, <2>1
  <2>3. queue' \in Seq(Nat) /\ \A i \in DOMAIN queue' : queue'[i] <= clock'
    BY <1>1, <2>1
  <2>4. "request_queue_waiting" \in StageNames /\ "request_queue_waiting" \notin InStep
    BY StageNamesAre DEF InStep
  <2> QED
    BY <1>1, <2>1, <2>2, <2>3, <2>4, RawKeeps
<1>16. ASSUME NEW d \in Durations, Release(d) \/ Lookup(d) \/ AllocateBlock(d)
       PROVE  ProfilerInv'
  <2>1. d \in Nat
    BY <1>1, ProfilerAssumption DEF Durations
  <2>2. PICK q \in {"kv_cache_release", "prefix_cache_lookup", "kv_cache_allocation"} :
          /\ clock' = clock + d /\ Add(q, d) /\ UNCHANGED <<at, opened, queue>>
          /\ q # "kv_cache_release" => at # "idle"
    BY <1>16 DEF Release, Lookup, AllocateBlock, RecordRaw
  <2>3. /\ q \in StageNames /\ q # "engine_step_total"
        /\ q \in InStep => q # "kv_cache_release" /\ opened[q] < 0
    <3>1. q \in InStep => q # "kv_cache_release" /\ ~ (opened[q] >= 0)
      BY DEF InStep, ProfilerInv, OpenInv
    <3>2. q \in StageNames /\ q # "engine_step_total"
      BY StageNamesAre
    <3> QED
      BY <1>1, <3>1, <3>2
  <2>4. clock' \in Nat /\ clock <= clock'
    BY <1>1, <2>1, <2>2
  <2>5. queue' \in Seq(Nat) /\ \A i \in DOMAIN queue' : queue'[i] <= clock'
    <3>1. \A i \in DOMAIN queue : queue[i] \in Nat /\ queue[i] <= clock
      BY <1>1
    <3> QED
      BY <1>1, <2>2, <2>4, <3>1
  <2> QED
    BY <1>1, <2>1, <2>2, <2>3, <2>4, <2>5, RawKeeps
<1> QED
  BY <1>2, <1>3, <1>4, <1>6, <1>7, <1>8, <1>9, <1>11, <1>12, <1>13, <1>14, <1>15, <1>16 DEF Next

LEMMA InitEstablishesProfilerInv == Init => ProfilerInv
<1> SUFFICES ASSUME Init PROVE ProfilerInv
  OBVIOUS
<1>1. /\ clock = 0 /\ at = "idle" /\ queue = <<>>
      /\ opened = [s \in StageNames |-> -1]
      /\ records = [s \in StageNames |-> NoRecords]
  BY DEF Init
<1>2. NoRecords \in Durable
  BY DEF NoRecords, Durable
<1>3. records \in [StageNames -> Durable]
  BY <1>1, <1>2
<1>4. ProfilerTypeOK
  BY <1>1, <1>3 DEF ProfilerTypeOK
<1>5. OpenInv
  BY <1>1, StageNamesAre DEF OpenInv
<1>6. \A s : Total(s) = 0
  BY <1>1 DEF Total, Of, NoRecords
<1>7. NestInv
  BY <1>1, <1>6, StageNamesAre DEF NestInv, Taken
<1> QED
  BY <1>4, <1>5, <1>7 DEF ProfilerInv

(* Rounding keeps the order, and what is whole already. *)

LEMMA Division ==
  ASSUME NEW n \in Nat, NEW d \in Nat \ {0}
  PROVE  /\ n \div d \in Nat /\ n % d \in Nat /\ n % d < d
         /\ n = d * (n \div d) + (n % d)
  OBVIOUS

LEMMA TimesOrdered ==
  ASSUME NEW d \in Nat, NEW a \in Nat, NEW b \in Nat, a < b
  PROVE  d * a + d <= d * b
<1>1. PICK c \in Nat : b = a + 1 + c
  <2>1. b - a - 1 \in Nat /\ b = a + 1 + (b - a - 1)
    OBVIOUS
  <2> QED
    BY <2>1
<1>2. d * b = d * a + d + d * c
  BY <1>1
<1>3. d * c \in Nat /\ d * a \in Nat
  OBVIOUS
<1> QED
  BY <1>2, <1>3

LEMMA DivisionOrdered ==
  ASSUME NEW d \in Nat \ {0}, NEW m \in Nat, NEW n \in Nat, m <= n
  PROVE  /\ m \div d <= n \div d
         /\ m \div d = n \div d => m % d <= n % d
<1> DEFINE a == m \div d
           b == n \div d
           r == m % d
           s == n % d
<1>1. /\ a \in Nat /\ b \in Nat /\ r \in Nat /\ s \in Nat /\ s < d
      /\ m = d * a + r /\ n = d * b + s
  BY Division
<1> HIDE DEF a, b, r, s
<1>2. a <= b
  <2> SUFFICES ASSUME b < a PROVE FALSE
    BY <1>1
  <2>1. d * b + d <= d * a
    BY <1>1, TimesOrdered
  <2>2. d * a \in Nat /\ d * b \in Nat
    BY <1>1
  <2> QED
    BY <1>1, <2>1, <2>2
<1>3. a = b => r <= s
  <2>1. d * a \in Nat
    BY <1>1
  <2> QED
    BY <1>1, <2>1
<1> QED
  BY <1>2, <1>3 DEF a, b, r, s

LEMMA RoundedOrdered ==
  ASSUME NEW d \in Nat \ {0}, NEW m \in Nat, NEW n \in Nat, m <= n
  PROVE  RoundTo(m, d) \in Nat /\ RoundTo(n, d) \in Nat /\ RoundTo(m, d) <= RoundTo(n, d)
<1>1. /\ m \div d \in Nat /\ n \div d \in Nat /\ m % d \in Nat /\ n % d \in Nat
      /\ m \div d <= n \div d
      /\ m \div d = n \div d => m % d <= n % d
  BY Division, DivisionOrdered
<1>2. CASE m \div d = n \div d
  BY <1>1, <1>2 DEF RoundTo
<1>3. CASE m \div d + 1 <= n \div d
  BY <1>1, <1>3 DEF RoundTo
<1> QED
  BY <1>1, <1>2, <1>3

LEMMA RoundedWhole ==
  ASSUME NEW d \in Nat \ {0}, NEW k \in Nat
  PROVE  RoundTo(k * d, d) = k
<1> DEFINE n == k * d
           q == n \div d
           r == n % d
<1>1. /\ n \in Nat /\ q \in Nat /\ r \in Nat /\ r < d /\ n = d * q + r
  <2>1. n \in Nat
    OBVIOUS
  <2> HIDE DEF n
  <2> QED
    BY <2>1, Division
<1>2. n = d * k
  OBVIOUS
<1> HIDE DEF n, q, r
<1>3. ~ (q < k)
  <2> SUFFICES ASSUME q < k PROVE FALSE
    OBVIOUS
  <2>1. d * q + d <= d * k
    BY <1>1, TimesOrdered
  <2>2. d * q \in Nat
    BY <1>1
  <2> QED
    BY <1>1, <1>2, <2>1, <2>2
<1>4. ~ (k < q)
  <2> SUFFICES ASSUME k < q PROVE FALSE
    OBVIOUS
  <2>1. d * k + d <= d * q
    BY <1>1, TimesOrdered
  <2>2. d * q \in Nat
    BY <1>1
  <2> QED
    BY <1>1, <1>2, <2>1, <2>2
<1>5. q = k
  BY <1>1, <1>3, <1>4
<1>6. r = 0
  <2>1. d * k \in Nat
    OBVIOUS
  <2> QED
    BY <1>1, <1>2, <1>5, <2>1
<1> QED
  BY <1>1, <1>5, <1>6 DEF RoundTo, n, q, r

LEMMA MostOfTen ==
  ASSUME NEW R \in SUBSET (1 .. 10), R # {}, NEW f \in [1 .. 10 -> Nat]
  PROVE  \E i \in R : \A j \in R : f[j] <= f[i]
<1> DEFINE Bounds == {n \in Nat : \A i \in R : f[i] <= n}
           sum == f[1] + f[2] + f[3] + f[4] + f[5] + f[6] + f[7] + f[8] + f[9] + f[10]
<1>1. sum \in Bounds
  <2>1. /\ f[1] \in Nat /\ f[2] \in Nat /\ f[3] \in Nat /\ f[4] \in Nat /\ f[5] \in Nat
        /\ f[6] \in Nat /\ f[7] \in Nat /\ f[8] \in Nat /\ f[9] \in Nat /\ f[10] \in Nat
    OBVIOUS
  <2>2. ASSUME NEW i \in R PROVE f[i] <= sum
    <3>1. \/ i = 1 \/ i = 2 \/ i = 3 \/ i = 4 \/ i = 5
          \/ i = 6 \/ i = 7 \/ i = 8 \/ i = 9 \/ i = 10
      OBVIOUS
    <3>2. /\ f[1] <= sum /\ f[2] <= sum /\ f[3] <= sum /\ f[4] <= sum /\ f[5] <= sum
          /\ f[6] <= sum /\ f[7] <= sum /\ f[8] <= sum /\ f[9] <= sum /\ f[10] <= sum
      BY <2>1
    <3> QED
      BY <3>1, <3>2
  <2>3. sum \in Nat
    BY <2>1
  <2> QED
    BY <2>2, <2>3
<1>2. PICK m \in Bounds : \A n \in Bounds : m <= n
  <2>1. Bounds \subseteq Nat
    OBVIOUS
  <2> HIDE DEF Bounds
  <2> QED
    BY <1>1, <2>1, NatMin
<1> SUFFICES ASSUME \A i \in R : f[i] # m PROVE FALSE
  OBVIOUS
<1>3. PICK i \in R : TRUE
  OBVIOUS
<1>4. f[i] <= m /\ f[i] \in Nat /\ f[i] # m /\ m \in Nat
  OBVIOUS
<1>5. m - 1 \in Bounds
  <2>1. ASSUME NEW j \in R PROVE f[j] <= m - 1
    <3>1. f[j] <= m /\ f[j] \in Nat /\ f[j] # m
      OBVIOUS
    <3> QED
      BY <1>4, <3>1
  <2>2. m - 1 \in Nat
    BY <1>4
  <2> QED
    BY <2>1, <2>2
<1> QED
  BY <1>2, <1>4, <1>5

LEMMA RoundedType ==
  ASSUME ProfilerTypeOK, NEW s
  PROVE  /\ TotalMs(s) \in Nat
         /\ Base \in Nat => Percent(s) \in Nat
<1>1. Total(s) \in Nat /\ Grain \in Nat \ {0} /\ 1000 * Total(s) \in Nat
  <2>1. Total(s) \in Nat
    BY OfType
  <2> QED
    BY <2>1, ProfilerAssumption
<1>2. TotalMs(s) \in Nat
  BY <1>1, RoundedOrdered DEF TotalMs
<1>3. ASSUME Base \in Nat, Base # 0 PROVE RoundTo(1000 * Total(s), Base) \in Nat
  <2>1. Base \in Nat \ {0} /\ 1000 * Total(s) <= 1000 * Total(s)
    BY <1>1, <1>3
  <2> QED
    BY <1>1, <2>1, RoundedOrdered
<1> QED
  BY <1>2, <1>3 DEF Percent

(* The top stage is one of those that no other has a greater percentage   *)
(* than nor, with the same one, a greater total, both as they are rounded. *)
LEMMA TopIsLargest ==
  ASSUME ProfilerTypeOK, Base \in Nat, NEW k \in Recorded
  PROVE  /\ Percent(Stages[k]) <= Percent(TopStage)
         /\ Percent(Stages[k]) = Percent(TopStage) => TotalMs(Stages[k]) <= TotalMs(TopStage)
<1> DEFINE pct == [i \in Recorded |-> Percent(Stages[i])]
           ms == [i \in Recorded |-> TotalMs(Stages[i])]
           Precedes(i, j) ==
             \/ pct[i] > pct[j]
             \/ pct[i] = pct[j] /\ ms[i] > ms[j]
             \/ pct[i] = pct[j] /\ ms[i] = ms[j] /\ i < j
           Top(i) == \A j \in Recorded \ {i} : Precedes(i, j)
           top == CHOOSE i \in Recorded : Top(i)
<1>1. /\ Recorded \in SUBSET (1 .. 10)
      /\ \A i \in Recorded : pct[i] \in Nat /\ ms[i] \in Nat /\ i \in Nat
      /\ \A i \in Recorded : pct[i] = Percent(Stages[i]) /\ ms[i] = TotalMs(Stages[i])
  <2>1. DOMAIN Stages = 1 .. 10
    BY DEF Stages
  <2>2. Recorded \in SUBSET (1 .. 10)
    BY <2>1 DEF Recorded
  <2> QED
    BY <2>2, RoundedType
<1>2. TopStage = Stages[top]
  BY DEF TopStage
<1> HIDE DEF pct, ms
<1>3. \E i \in Recorded : Top(i)
  <2>1. ASSUME NEW R \in SUBSET Recorded, R # {}, NEW f, \A i \in Recorded : f[i] \in Nat
        PROVE  \E i \in R : \A j \in R : f[j] <= f[i]
    <3> DEFINE g == [i \in 1 .. 10 |-> IF i \in Recorded THEN f[i] ELSE 0]
    <3>1. g \in [1 .. 10 -> Nat] /\ \A i \in R : g[i] = f[i]
      BY <1>1, <2>1
    <3> HIDE DEF g
    <3>2. R \in SUBSET (1 .. 10)
      BY <1>1
    <3>3. \E i \in R : \A j \in R : g[j] <= g[i]
      BY <2>1, <3>1, <3>2, MostOfTen
    <3> QED
      BY <3>1, <3>3
  <2>2. PICK a \in Recorded : \A j \in Recorded : pct[j] <= pct[a]
    BY <1>1, <2>1
  <2> DEFINE A == {i \in Recorded : pct[i] = pct[a]}
  <2>3. PICK b \in A : \A j \in A : ms[j] <= ms[b]
    <3>1. A \in SUBSET Recorded /\ A # {}
      OBVIOUS
    <3> HIDE DEF A
    <3> QED
      BY <1>1, <2>1, <3>1
  <2> DEFINE B == {i \in A : ms[i] = ms[b]}
  <2>4. PICK c \in B : \A j \in B : c <= j
    <3>1. B \subseteq Nat /\ B # {}
      BY <1>1
    <3> HIDE DEF B
    <3> QED
      BY <3>1, NatMin
  <2>5. ASSUME NEW j \in Recorded \ {c} PROVE Precedes(c, j)
    <3>1. /\ c \in Recorded /\ pct[c] = pct[a] /\ ms[c] = ms[b] /\ c \in Nat
          /\ pct[c] \in Nat /\ ms[c] \in Nat
          /\ pct[j] \in Nat /\ ms[j] \in Nat /\ j \in Nat /\ j # c
      BY <1>1
    <3>2. CASE pct[j] # pct[a]
      <4>1. pct[j] <= pct[a]
        BY <2>2
      <4> QED
        BY <3>1, <3>2, <4>1
    <3>3. CASE pct[j] = pct[a] /\ ms[j] # ms[b]
      <4>1. ms[j] <= ms[b]
        BY <2>3, <3>3
      <4> QED
        BY <3>1, <3>3, <4>1
    <3>4. CASE pct[j] = pct[a] /\ ms[j] = ms[b]
      <4>1. c <= j
        BY <2>4, <3>4
      <4> QED
        BY <3>1, <3>4, <4>1
    <3> QED
      BY <3>2, <3>3, <3>4
  <2> QED
    BY <2>5
<1>4. top \in Recorded /\ Top(top)
  <2> HIDE DEF Top
  <2> QED
    BY <1>3
<1> HIDE DEF top
<1>5. CASE k = top
  BY <1>1, <1>2, <1>4, <1>5
<1>6. CASE k # top
  <2>1. Precedes(top, k)
    BY <1>4, <1>6
  <2>2. /\ pct[top] \in Nat /\ pct[k] \in Nat /\ ms[top] \in Nat /\ ms[k] \in Nat
        /\ pct[top] = Percent(TopStage) /\ ms[top] = TotalMs(TopStage)
        /\ pct[k] = Percent(Stages[k]) /\ ms[k] = TotalMs(Stages[k])
    BY <1>1, <1>2, <1>4
  <2>3. pct[k] <= pct[top] /\ (pct[k] = pct[top] => ms[k] <= ms[top])
    BY <2>1, <2>2
  <2> QED
    BY <2>2, <2>3
<1> QED
  BY <1>5, <1>6

(* A stage inside the steps is hinted at only if what the report shows of *)
(* it is what it shows of the steps, whatever raised or was reset half-way. *)
THEOREM ProfilerHintedStageFillsSteps == Spec => []HintedStageFillsSteps
<1>1. ProfilerInv => HintedStageFillsSteps
  <2> DEFINE e == "engine_step_total"
             h == Hint
  <2> SUFFICES ASSUME ProfilerInv, at = "idle", h \in InStep
               PROVE  Percent(h) = 1000 /\ TotalMs(h) = TotalMs(e)
    BY DEF HintedStageFillsSteps
  <2>1. h = TopStage /\ ~ (Percent(h) < 300)
    BY DEF Hint, InStep
  <2> HIDE DEF h
  <2>2. ProfilerTypeOK /\ Total(h) \in Nat /\ Total(e) \in Nat
    BY OfType DEF ProfilerInv
  <2>3. Total(h) <= Total(e)
    <3>1. ~ (opened[h] >= 0) /\ ~ (opened[e] >= 0)
      BY DEF ProfilerInv, OpenInv
    <3>2. Taken(h) <= Taken(e)
      BY DEF ProfilerInv, NestInv
    <3> QED
      BY <2>2, <3>1, <3>2 DEF Taken
  <2>4. Total(h) # 0
    BY <2>1 DEF Percent
  <2>5. Of(records, e).count > 0
    <3>1. Of(records, e) \in Durable /\ Of(records, e).count \in Nat
      BY <2>2, OfType
    <3>2. Of(records, e).count # 0
      BY <2>2, <2>3, <2>4, <3>1 DEF Durable, Total
    <3> QED
      BY <3>1, <3>2
  <2>6. Base = Total(e) /\ Base \in Nat \ {0}
    BY <2>2, <2>3, <2>4, <2>5 DEF Base
  <2>7. 10 \in Recorded /\ Stages[10] = e
    BY <2>5 DEF Recorded, Stages
  <2>8. /\ Percent(e) <= Percent(h)
        /\ Percent(e) = Percent(h) => TotalMs(e) <= TotalMs(h)
    <3>1. Base \in Nat
      BY <2>6
    <3> QED
      BY <2>1, <2>2, <2>7, <3>1, TopIsLargest
  <2>9. Percent(e) = 1000
    <3>1. RoundTo(1000 * Base, Base) = 1000
      BY <2>6, RoundedWhole
    <3> QED
      BY <2>2, <2>3, <2>4, <2>6, <3>1 DEF Percent
  <2>10. Percent(h) <= Percent(e) /\ Percent(h) \in Nat
    <3>1. /\ 1000 * Total(h) \in Nat /\ 1000 * Total(e) \in Nat
          /\ 1000 * Total(h) <= 1000 * Total(e)
      BY <2>2, <2>3
    <3>2. /\ RoundTo(1000 * Total(h), Base) \in Nat
          /\ RoundTo(1000 * Total(h), Base) <= RoundTo(1000 * Total(e), Base)
      BY <2>6, <3>1, RoundedOrdered
    <3> QED
      BY <2>2, <2>3, <2>4, <2>6, <3>2 DEF Percent
  <2>11. TotalMs(h) <= TotalMs(e) /\ TotalMs(h) \in Nat /\ TotalMs(e) \in Nat
    <3>1. Grain \in Nat \ {0}
      BY ProfilerAssumption
    <3> QED
      BY <2>2, <2>3, <3>1, RoundedOrdered DEF TotalMs
  <2>12. Percent(h) = 1000
    BY <2>8, <2>9, <2>10
  <2> QED
    BY <2>8, <2>9, <2>11, <2>12
<1>2. [Next /\ Few]_vars => [Next]_vars
  OBVIOUS
<1> QED
  BY <1>1, <1>2, InitEstablishesProfilerInv, NextKeepsProfilerInv, PTL DEF Spec

=============================================================================
