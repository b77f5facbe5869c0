-------------------------- MODULE EngineCoreProofs --------------------------
(***************************************************************************)
(* Safety of the engine loop for any number of requests, any prompts and   *)
(* any configuration: the pools partition the requests, only requests that *)
(* run hold blocks, and the reference counts stay exact; then budgets,     *)
(* progress and the number of tokens, by counting claims on the budgets.   *)
(***************************************************************************)
EXTENDS EngineCore, BlockManagerProofs

(* What a step that is under way has picked, at every point of it. *)
PlanConsistent ==
  /\ pc = "begin" => todo \subseteq waiting \cup running
  /\ pc = "continue" => \A r \in todo : r \in running /\ status[r] = "PREFILL"
  /\ pc = "admit" => todo \subseteq waiting
  /\ \A r \in schedPrefill : r \in running /\ status[r] = "PREFILL"
  /\ \A r \in schedDecode : r \in running /\ status[r] = "RUNNING"
  /\ pc \in {"idle", "begin"} => schedPrefill = {} /\ schedDecode = {}

PromptsKnown == \A r \in 1 .. added : prompt[r] \in Prompts

EngineInv ==
  /\ BMInv
  /\ EngineTypeOK
  /\ PoolsPartition
  /\ OnlyRunningHoldBlocks
  /\ PlanConsistent
  /\ PromptsKnown

LEMMA BMInvUnchanged ==
  ASSUME BMInv, UNCHANGED bmVars
  PROVE  BMInv' /\ BMTypeOK'
  BY NextKeepsBMInv DEF BMInv

LEMMA PoolsAreRequests ==
  ASSUME EngineInv
  PROVE  /\ \A r \in waiting \cup running : r \in Seqs /\ prompt[r] \in Prompts
         /\ \A r \in Seqs : Len(prompt[r]) \in Nat
         /\ \A p \in Prompts : Len(p) \in Nat \ {0}
<1>1. \A p \in Prompts : Len(p) \in Nat \ {0}
  BY EngineAssumption, BlockManagerAssumption
<1>2. \A r \in Seqs : Len(prompt[r]) \in Nat
  BY <1>1 DEF EngineInv, EngineTypeOK
<1>3. \A r \in waiting \cup running : r \in 1 .. added
  BY DEF EngineInv, PoolsPartition
<1> QED
  BY <1>1, <1>2, <1>3 DEF EngineInv, PromptsKnown, EngineTypeOK

LEMMA InitEstablishesEngineInv == EngineInit => EngineInv
<1> SUFFICES ASSUME EngineInit PROVE EngineInv
  OBVIOUS
<1>1. BMInv /\ BMTypeOK
  BY InitEstablishesBMInv DEF EngineInit, BMInv
<1>2. EngineTypeOK
  BY <1>1, EngineAssumption DEF EngineInit, EngineTypeOK
<1>3. PoolsPartition
  BY DEF EngineInit, PoolsPartition, Live
<1>4. OnlyRunningHoldBlocks
  BY DEF EngineInit, BMInit, OnlyRunningHoldBlocks
<1>5. PlanConsistent /\ PromptsKnown
  BY DEF EngineInit, PlanConsistent, PromptsKnown
<1> QED
  BY <1>1, <1>2, <1>3, <1>4, <1>5 DEF EngineInv

(* Ending a sequence keeps the manager's invariant and takes away the     *)
(* blocks of that request and of no other.                                *)
LEMMA EndSequenceEffect ==
  ASSUME EngineInv, NEW r \in Seqs, NEW how \in Ended, EndSequence(r, how)
  PROVE  /\ BMInv' /\ BMTypeOK'
         /\ status' \in [Seqs -> {"NONE"} \cup Live \cup Ended]
         /\ \A q \in Seqs : q # r => /\ status'[q] = status[q]
                                     /\ tables'[q] = tables[q]
                                     /\ hashes'[q] = hashes[q]
         /\ tables'[r] = <<>> /\ hashes'[r] = <<>>
         /\ status'[r] = IF r \in running THEN how ELSE status[r]
         /\ status'[r] \notin Live
<1>1. r \in running <=> status[r] \in Live
  BY DEF EngineInv, PoolsPartition
<1>2. /\ tables \in [Seqs -> Seq(Blocks)] /\ hashes \in [Seqs -> Seq(Hashes)]
      /\ status \in [Seqs -> {"NONE"} \cup Live \cup Ended]
  BY DEF EngineInv, BMInv, BMTypeOK, EngineTypeOK
<1>3. how \notin Live
  BY DEF Live, Ended
<1>4. CASE status[r] \in Live
  <2>1. status' = [status EXCEPT ![r] = how] /\ FreeSeq(r)
    BY <1>4 DEF EndSequence
  <2>2. BMInv' /\ BMTypeOK'
    BY <2>1, FreeSeqKeepsBMInv DEF EngineInv, BMInv
  <2> QED
    BY <1>1, <1>2, <1>3, <1>4, <2>1, <2>2 DEF FreeSeq
<1>5. CASE status[r] \notin Live
  <2>1. UNCHANGED status /\ UNCHANGED bmVars
    BY <1>5 DEF EndSequence
  <2>2. BMInv' /\ BMTypeOK'
    BY <2>1, BMInvUnchanged DEF EngineInv
  <2>3. tables[r] = <<>> /\ hashes[r] = <<>>
    BY <1>1, <1>5 DEF EngineInv, OnlyRunningHoldBlocks
  <2> QED
    BY <1>1, <1>2, <1>5, <2>1, <2>2, <2>3 DEF bmVars
<1> QED
  BY <1>4, <1>5

LEMMA AddRequestKeeps ==
  ASSUME EngineInv, NEW p \in Prompts, NEW m \in MaxTokensValues, AddRequest(p, m)
  PROVE  EngineInv'
<1> DEFINE n == added + 1
<1>1. BMInv' /\ BMTypeOK'
  BY BMInvUnchanged DEF AddRequest, EngineInv
<1>2. /\ n \in Seqs /\ n \in Nat /\ n \in 0 .. MaxRequests
      /\ 1 .. n = (1 .. added) \cup {n} /\ n \notin 1 .. added
  <2>1. added \in 0 .. MaxRequests /\ added < MaxRequests
    BY DEF AddRequest, EngineInv, EngineTypeOK
  <2>2. MaxRequests \in Nat /\ Seqs = 1 .. MaxRequests
    BY EngineAssumption
  <2> QED
    BY <2>1, <2>2
<1>3. /\ added' = n
      /\ prompt' = [prompt EXCEPT ![n] = p]
      /\ maxTokens' = [maxTokens EXCEPT ![n] = m]
      /\ waiting' = waiting \cup {n}
      /\ UNCHANGED <<running, finished, rejected, status, rank, cursor, gen, outputs>>
      /\ UNCHANGED <<pc, todo, tokenBudget, seqBudget, prefillBudget>>
      /\ UNCHANGED <<schedPrefill, schedDecode, finishedGroups>>
      /\ UNCHANGED <<tables, hashes>>
      /\ pc = "idle"
  BY DEF AddRequest, progress, budget, result, bmVars
<1>4. n \notin waiting \cup running \cup finished \cup rejected
  BY <1>2 DEF EngineInv, PoolsPartition
<1> HIDE DEF n
<1>5. EngineTypeOK'
  BY <1>1, <1>2, <1>3 DEF EngineInv, EngineTypeOK
<1>6. PoolsPartition'
  BY <1>2, <1>3, <1>4 DEF EngineInv, PoolsPartition
<1>7. OnlyRunningHoldBlocks' /\ PlanConsistent'
  BY <1>3 DEF EngineInv, OnlyRunningHoldBlocks, PlanConsistent
<1>8. PromptsKnown'
  BY <1>2, <1>3 DEF EngineInv, EngineTypeOK, PromptsKnown
<1> QED
  BY <1>1, <1>5, <1>6, <1>7, <1>8 DEF EngineInv

(* cancel_request(), a timeout and phase 1 have this in common: the request *)
(* leaves its pool for the finished one and its sequence, if any, ends.     *)
LEMMA RetireKeeps ==
  ASSUME EngineInv, NEW r \in Seqs, NEW how \in Ended, EndSequence(r, how),
         r \in waiting \cup running \cup finished \cup rejected,
         running' = running \ {r}, waiting' = waiting \ {r},
         finished' = finished \cup {r}, rejected' = rejected,
         UNCHANGED request
  PROVE  /\ BMInv' /\ BMTypeOK' /\ PoolsPartition'
         /\ OnlyRunningHoldBlocks' /\ PromptsKnown'
         /\ status' \in [Seqs -> {"NONE"} \cup Live \cup Ended]
         /\ \A q \in Seqs : q # r => status'[q] = status[q]
<1>1. /\ BMInv' /\ BMTypeOK'
      /\ status' \in [Seqs -> {"NONE"} \cup Live \cup Ended]
      /\ \A q \in Seqs : q # r => /\ status'[q] = status[q]
                                  /\ tables'[q] = tables[q]
                                  /\ hashes'[q] = hashes[q]
      /\ tables'[r] = <<>> /\ hashes'[r] = <<>>
      /\ status'[r] = IF r \in running THEN how ELSE status[r]
      /\ status'[r] \notin Live
  BY EndSequenceEffect
<1>2. /\ waiting \cap running = {}
      /\ (waiting \cup running) \cap (finished \cup rejected) = {}
      /\ waiting \cup running \cup finished \cup rejected = 1 .. added
      /\ \A q \in Seqs : q \in running <=> status[q] \in Live
      /\ \A q \in Seqs : q \notin running \cup (finished \ rejected) => status[q] = "NONE"
  BY DEF EngineInv, PoolsPartition
<1>3. prompt' = prompt /\ added' = added
  BY DEF request
<1>4. waiting' \cup running' \cup finished' \cup rejected' = 1 .. added'
  BY <1>2, <1>3
<1>5. (waiting' \cup running') \cap (finished' \cup rejected') = {}
  BY <1>2
<1>6. \A q \in Seqs : q \in running' <=> status'[q] \in Live
  BY <1>1, <1>2
<1>7. \A q \in Seqs : q \notin running' \cup (finished' \ rejected') => status'[q] = "NONE"
  BY <1>1, <1>2
<1>8. PoolsPartition'
  BY <1>2, <1>4, <1>5, <1>6, <1>7 DEF PoolsPartition
<1>9. OnlyRunningHoldBlocks'
  BY <1>1 DEF EngineInv, OnlyRunningHoldBlocks
<1>10. PromptsKnown'
  BY <1>3 DEF EngineInv, PromptsKnown
<1> QED
  BY <1>1, <1>8, <1>9, <1>10

LEMMA CancelKeeps ==
  ASSUME EngineInv, NEW r \in Seqs, Cancel(r)
  PROVE  EngineInv'
<1>1. /\ EndSequence(r, "CANCELLED") /\ "CANCELLED" \in Ended
      /\ r \in waiting \cup running \cup finished \cup rejected
      /\ running' = running \ {r} /\ waiting' = waiting \ {r}
      /\ finished' = finished \cup {r} /\ rejected' = rejected
      /\ UNCHANGED <<request, rank, cursor, gen, outputs, pc, todo>>
      /\ UNCHANGED <<tokenBudget, seqBudget, prefillBudget>>
      /\ UNCHANGED <<schedPrefill, schedDecode, finishedGroups>>
      /\ pc = "idle"
  BY DEF Cancel, progress, budget, result, Ended
<1>2. /\ BMInv' /\ BMTypeOK' /\ PoolsPartition'
      /\ OnlyRunningHoldBlocks' /\ PromptsKnown'
      /\ status' \in [Seqs -> {"NONE"} \cup Live \cup Ended]
  BY <1>1, RetireKeeps
<1>3. EngineTypeOK'
  BY <1>1, <1>2 DEF EngineInv, EngineTypeOK, request
<1>4. PlanConsistent'
  BY <1>1 DEF EngineInv, PlanConsistent
<1> QED
  BY <1>2, <1>3, <1>4 DEF EngineInv

LEMMA TimeOutKeeps ==
  ASSUME EngineInv, NEW r \in Seqs, TimeOut(r)
  PROVE  EngineInv'
<1>1. /\ EndSequence(r, "TIMEOUT") /\ "TIMEOUT" \in Ended
      /\ r \in todo
      /\ running' = running \ {r} /\ waiting' = waiting \ {r}
      /\ finished' = finished \cup {r} /\ rejected' = rejected
      /\ todo' = todo \ {r}
      /\ UNCHANGED <<request, rank, cursor, gen, outputs, pc>>
      /\ UNCHANGED <<tokenBudget, seqBudget, prefillBudget>>
      /\ UNCHANGED <<schedPrefill, schedDecode, finishedGroups>>
      /\ pc = "begin"
  BY DEF TimeOut, Oldest, FirstAdmitted, progress, budget, result, Ended
<1>2. r \in waiting \cup running
  BY <1>1 DEF EngineInv, PlanConsistent
<1>3. /\ BMInv' /\ BMTypeOK' /\ PoolsPartition'
      /\ OnlyRunningHoldBlocks' /\ PromptsKnown'
      /\ status' \in [Seqs -> {"NONE"} \cup Live \cup Ended]
  BY <1>1, <1>2, RetireKeeps
<1>4. EngineTypeOK'
  BY <1>1, <1>3 DEF EngineInv, EngineTypeOK, request
<1>5. PlanConsistent'
  BY <1>1 DEF EngineInv, PlanConsistent
<1> QED
  BY <1>3, <1>4, <1>5 DEF EngineInv

LEMMA FinishGroupKeeps ==
  ASSUME EngineInv, NEW r \in Seqs, FinishGroup(r)
  PROVE  EngineInv'
<1>1. /\ EndSequence(r, "FINISHED") /\ "FINISHED" \in Ended
      /\ r \in running
      /\ running' = running \ {r}
      /\ finished' = finished \cup {r} /\ rejected' = rejected
      /\ finishedGroups' = finishedGroups \cup {r}
      /\ UNCHANGED <<waiting, request, rank, cursor, gen, outputs, pc, todo>>
      /\ UNCHANGED <<tokenBudget, seqBudget, prefillBudget, schedPrefill, schedDecode>>
      /\ pc = "begin" /\ todo = {}
  BY DEF FinishGroup, FirstAdmitted, Complete, Scheduling, progress, budget, Ended
<1>2. waiting' = waiting \ {r}
  BY <1>1 DEF EngineInv, PoolsPartition
<1>3. /\ BMInv' /\ BMTypeOK' /\ PoolsPartition'
      /\ OnlyRunningHoldBlocks' /\ PromptsKnown'
      /\ status' \in [Seqs -> {"NONE"} \cup Live \cup Ended]
  BY <1>1, <1>2, RetireKeeps
<1>4. EngineTypeOK'
  BY <1>1, <1>3 DEF EngineInv, EngineTypeOK, request
<1>5. PlanConsistent'
  BY <1>1 DEF EngineInv, PlanConsistent
<1> QED
  BY <1>3, <1>4, <1>5 DEF EngineInv

(* The steps that only plan: requests, sequences and blocks are as before. *)
LEMMA PlanningKeeps ==
  ASSUME EngineInv, UNCHANGED <<bmVars, pools, request, status>>
  PROVE  /\ BMInv' /\ BMTypeOK' /\ PoolsPartition'
         /\ OnlyRunningHoldBlocks' /\ PromptsKnown'
<1>1. BMInv' /\ BMTypeOK'
  BY BMInvUnchanged DEF EngineInv
<1>2. /\ UNCHANGED <<waiting, running, finished, rejected, added, prompt, status>>
      /\ UNCHANGED <<tables, hashes>>
  BY DEF pools, request, bmVars
<1>3. PoolsPartition'
  BY <1>2 DEF EngineInv, PoolsPartition
<1>4. OnlyRunningHoldBlocks' /\ PromptsKnown'
  BY <1>2 DEF EngineInv, OnlyRunningHoldBlocks, PromptsKnown
<1> QED
  BY <1>1, <1>3, <1>4

LEMMA StartStepKeeps == EngineInv /\ StartStep => EngineInv'
<1> SUFFICES ASSUME EngineInv, StartStep PROVE EngineInv'
  OBVIOUS
<1>1. /\ UNCHANGED <<bmVars, pools, request, status>>
      /\ UNCHANGED <<waiting, running, finished, rejected, added, prompt, maxTokens>>
      /\ UNCHANGED <<rank, cursor, gen, outputs, tokenBudget, seqBudget>>
      /\ UNCHANGED <<prefillBudget, schedPrefill, schedDecode, finishedGroups>>
      /\ pc = "idle" /\ pc' = "begin"
      /\ todo' \subseteq waiting \cup running
  BY DEF StartStep, pools, request, progress, budget, result
<1>2. BMInv' /\ BMTypeOK' /\ PoolsPartition' /\ OnlyRunningHoldBlocks' /\ PromptsKnown'
  BY <1>1, PlanningKeeps
<1>3. EngineTypeOK'
  BY <1>1, <1>2 DEF EngineInv, EngineTypeOK
<1>4. PlanConsistent'
  BY <1>1 DEF EngineInv, PlanConsistent
<1> QED
  BY <1>2, <1>3, <1>4 DEF EngineInv

LEMMA SeqsFinite ==
  ASSUME NEW S \in SUBSET Seqs
  PROVE  IsFiniteSet(S) /\ Cardinality(S) \in Nat
<1>1. IsFiniteSet(Seqs)
  BY EngineAssumption, FS_Interval, 1 \in Int, MaxRequests \in Int
<1> QED
  BY <1>1, FS_Subset, FS_CardinalityType

LEMMA PlanDecodeKeeps == EngineInv /\ PlanDecode => EngineInv'
<1> SUFFICES ASSUME EngineInv, PlanDecode PROVE EngineInv'
  OBVIOUS
<1>1. /\ UNCHANGED <<bmVars, pools, request, status>>
      /\ UNCHANGED <<waiting, running, finished, rejected, added, prompt, maxTokens>>
      /\ UNCHANGED <<rank, cursor, gen, outputs, schedPrefill, finishedGroups>>
      /\ pc = "begin" /\ pc' = "continue"
      /\ schedDecode' = {r \in running : status[r] = "RUNNING"}
      /\ tokenBudget' = MaxNumBatchedTokens - Cardinality(schedDecode')
      /\ seqBudget' = MaxNumSeqs - Cardinality(schedDecode')
      /\ prefillBudget' = Smaller(tokenBudget', MaxNumPrefillTokens)
      /\ todo' = {r \in running : status[r] = "PREFILL"}
  BY DEF PlanDecode, Scheduling, pools, request, progress
<1>2. BMInv' /\ BMTypeOK' /\ PoolsPartition' /\ OnlyRunningHoldBlocks' /\ PromptsKnown'
  BY <1>1, PlanningKeeps
<1>3. schedDecode' \in SUBSET Seqs /\ todo' \in SUBSET Seqs
  BY <1>1 DEF EngineInv, EngineTypeOK
<1>4. tokenBudget' \in Int /\ seqBudget' \in Int /\ prefillBudget' \in Int
  BY <1>1, <1>3, SeqsFinite, EngineAssumption DEF Smaller
<1>5. EngineTypeOK'
  BY <1>1, <1>2, <1>3, <1>4 DEF EngineInv, EngineTypeOK
<1>6. PlanConsistent'
  BY <1>1 DEF EngineInv, PlanConsistent
<1> QED
  BY <1>2, <1>5, <1>6 DEF EngineInv

LEMMA ContinuePrefillKeeps ==
  ASSUME EngineInv, NEW r \in Seqs, ContinuePrefill(r)
  PROVE  EngineInv'
<1>1. /\ UNCHANGED <<bmVars, pools, request, status>>
      /\ UNCHANGED <<waiting, running, finished, rejected, added, prompt, maxTokens>>
      /\ UNCHANGED <<rank, cursor, gen, outputs, pc, schedDecode, finishedGroups>>
      /\ pc = "continue" /\ r \in todo
      /\ todo' = todo \ {r}
  BY DEF ContinuePrefill, FirstAdmitted, pools, request, progress
<1>2. BMInv' /\ BMTypeOK' /\ PoolsPartition' /\ OnlyRunningHoldBlocks' /\ PromptsKnown'
  BY <1>1, PlanningKeeps
<1>3. NextChunk(r) \in Int
  BY PoolsAreRequests, EngineAssumption DEF NextChunk, Smaller, EngineInv, EngineTypeOK
<1>4. \/ Take(r, NextChunk(r))
      \/ UNCHANGED <<tokenBudget, seqBudget, prefillBudget, schedPrefill>>
  BY DEF ContinuePrefill, budget
<1>5. /\ schedPrefill' \subseteq schedPrefill \cup {r}
      /\ tokenBudget' \in Int /\ seqBudget' \in Int /\ prefillBudget' \in Int
  BY <1>3, <1>4 DEF Take, EngineInv, EngineTypeOK
<1>6. EngineTypeOK'
  BY <1>1, <1>2, <1>5 DEF EngineInv, EngineTypeOK
<1>7. r \in running /\ status[r] = "PREFILL"
  BY <1>1 DEF EngineInv, PlanConsistent
<1>8. PlanConsistent'
  BY <1>1, <1>5, <1>7 DEF EngineInv, PlanConsistent
<1> QED
  BY <1>2, <1>6, <1>8 DEF EngineInv

LEMMA StartAdmissionKeeps == EngineInv /\ StartAdmission => EngineInv'
<1> SUFFICES ASSUME EngineInv, StartAdmission PROVE EngineInv'
  OBVIOUS
<1>1. /\ UNCHANGED <<bmVars, pools, request, status>>
      /\ UNCHANGED <<waiting, running, finished, rejected, added, prompt, maxTokens>>
      /\ UNCHANGED <<rank, cursor, gen, outputs, tokenBudget, seqBudget>>
      /\ UNCHANGED <<prefillBudget, schedPrefill, schedDecode, finishedGroups>>
      /\ pc' = "admit"
      /\ todo' \subseteq waiting
  BY DEF StartAdmission, pools, request, progress, budget, result
<1>2. BMInv' /\ BMTypeOK' /\ PoolsPartition' /\ OnlyRunningHoldBlocks' /\ PromptsKnown'
  BY <1>1, PlanningKeeps
<1>3. EngineTypeOK'
  BY <1>1, <1>2 DEF EngineInv, EngineTypeOK
<1>4. PlanConsistent'
  BY <1>1 DEF EngineInv, PlanConsistent
<1> QED
  BY <1>2, <1>3, <1>4 DEF EngineInv

LEMMA IgnoreKeeps ==
  ASSUME EngineInv, NEW r \in Seqs, Ignore(r)
  PROVE  EngineInv'
<1>1. /\ UNCHANGED <<bmVars, pools, request, status>>
      /\ UNCHANGED <<waiting, running, finished, rejected, added, prompt, maxTokens>>
      /\ UNCHANGED <<rank, cursor, gen, outputs, tokenBudget, seqBudget, pc>>
      /\ UNCHANGED <<prefillBudget, schedPrefill, schedDecode, finishedGroups>>
      /\ todo' = todo \ {r}
  BY DEF Ignore, pools, request, progress, budget, result
<1>2. BMInv' /\ BMTypeOK' /\ PoolsPartition' /\ OnlyRunningHoldBlocks' /\ PromptsKnown'
  BY <1>1, PlanningKeeps
<1>3. EngineTypeOK'
  BY <1>1, <1>2 DEF EngineInv, EngineTypeOK
<1>4. PlanConsistent'
  BY <1>1 DEF EngineInv, PlanConsistent
<1> QED
  BY <1>2, <1>3, <1>4 DEF EngineInv

LEMMA RejectKeeps ==
  ASSUME EngineInv, NEW r \in Seqs, Reject(r)
  PROVE  EngineInv'
<1>1. /\ UNCHANGED <<bmVars, tables, hashes, running, finished, status>>
      /\ UNCHANGED <<added, prompt, maxTokens, rank, cursor, gen, outputs, pc>>
      /\ UNCHANGED <<tokenBudget, seqBudget, prefillBudget>>
      /\ UNCHANGED <<schedPrefill, schedDecode, finishedGroups>>
      /\ pc = "admit" /\ r \in todo
      /\ todo' = todo \ {r}
      /\ waiting' = waiting \ {r}
      /\ rejected' = rejected \cup {r}
  BY DEF Reject, Oldest, bmVars, request, progress, budget, result
<1>2. BMInv' /\ BMTypeOK'
  BY <1>1, BMInvUnchanged DEF EngineInv
<1>3. r \in waiting
  BY <1>1 DEF EngineInv, PlanConsistent
<1>4. EngineTypeOK'
  BY <1>1, <1>2 DEF EngineInv, EngineTypeOK
<1>5. PoolsPartition'
  BY <1>1, <1>3 DEF EngineInv, PoolsPartition
<1>6. OnlyRunningHoldBlocks' /\ PlanConsistent' /\ PromptsKnown'
  BY <1>1 DEF EngineInv, OnlyRunningHoldBlocks, PlanConsistent, PromptsKnown
<1> QED
  BY <1>2, <1>4, <1>5, <1>6 DEF EngineInv

LEMMA AdmitKeeps ==
  ASSUME EngineInv, NEW r \in Seqs, Admit(r)
  PROVE  EngineInv'
<1>1. /\ UNCHANGED <<finished, rejected, added, prompt, maxTokens, gen, outputs, pc>>
      /\ UNCHANGED <<schedDecode, finishedGroups>>
      /\ pc = "admit" /\ r \in todo
      /\ AllocateForSeq(r, prompt[r])
      /\ status' = [status EXCEPT ![r] = "PREFILL"]
      /\ rank' = [rank EXCEPT ![r] = Cardinality({q \in Seqs : rank[q] > 0}) + 1]
      /\ waiting' = waiting \ {r}
      /\ running' = running \cup {r}
      /\ todo' = todo \ {r}
  BY DEF Admit, Oldest, request
<1>2. r \in waiting /\ prompt[r] \in Prompts
  BY <1>1, PoolsAreRequests DEF EngineInv, PlanConsistent
<1>3. r \notin running /\ r \notin finished /\ r \notin rejected
  BY <1>2 DEF EngineInv, PoolsPartition
<1>4. BMInv' /\ BMTypeOK'
  <2>1. tables[r] = <<>>
    BY <1>3 DEF EngineInv, OnlyRunningHoldBlocks
  <2> QED
    BY <1>1, <1>2, <2>1, AllocateForSeqKeepsBMInv DEF EngineInv, BMInv
<1>5. PICK k \in 0 .. Len(prompt[r]) :
         /\ Take(r, FirstChunk(prompt[r], k))
         /\ cursor' = [cursor EXCEPT ![r] = FirstCursor(prompt[r], k)]
  BY DEF Admit
<1>6. FirstChunk(prompt[r], k) \in Int /\ FirstCursor(prompt[r], k) \in Nat
  <2> DEFINE n == Len(prompt[r])
  <2>1. n \in Nat /\ k \in Nat
    BY PoolsAreRequests
  <2>2. k * BlockSize \in Nat
    BY <2>1, BlockManagerAssumption
  <2>3. CachedTokens(prompt[r], k) \in 0 .. n
    BY <2>1, <2>2 DEF CachedTokens, Smaller
  <2>4. Uncached(prompt[r], k) \in 0 .. n
    BY <2>1, <2>3 DEF Uncached
  <2>5. FirstChunk(prompt[r], k) \in 0 .. n
    BY <2>1, <2>4, EngineAssumption DEF FirstChunk, Smaller
  <2> QED
    BY <2>1, <2>3, <2>5 DEF FirstCursor
<1>7. /\ schedPrefill' = schedPrefill \cup {r}
      /\ tokenBudget' \in Int /\ seqBudget' \in Int /\ prefillBudget' \in Int
  BY <1>5, <1>6 DEF Take, EngineInv, EngineTypeOK
<1>8. rank' \in [Seqs -> Nat]
  <2>1. rank \in [Seqs -> Nat]
    BY DEF EngineInv, EngineTypeOK
  <2>2. Cardinality({q \in Seqs : rank[q] > 0}) \in Nat
    BY SeqsFinite
  <2> QED
    BY <1>1, <2>1, <2>2
<1>9. EngineTypeOK'
  BY <1>1, <1>4, <1>5, <1>6, <1>7, <1>8 DEF EngineInv, EngineTypeOK, Live
<1>10. PoolsPartition'
  BY <1>1, <1>2, <1>3 DEF EngineInv, PoolsPartition, EngineTypeOK, Live
<1>11. OnlyRunningHoldBlocks'
  <2>1. \A q \in Seqs : q # r => tables'[q] = tables[q] /\ hashes'[q] = hashes[q]
    BY <1>1 DEF AllocateForSeq, EngineInv, BMInv, BMTypeOK
  <2> QED
    BY <1>1, <2>1 DEF EngineInv, OnlyRunningHoldBlocks
<1>12. PlanConsistent'
  BY <1>1, <1>3, <1>7 DEF EngineInv, PlanConsistent, EngineTypeOK
<1>13. PromptsKnown'
  BY <1>1 DEF EngineInv, PromptsKnown
<1> QED
  BY <1>4, <1>9, <1>10, <1>11, <1>12, <1>13 DEF EngineInv

(* The positions a step writes are natural numbers: a prompt has a token. *)
LEMMA DueType ==
  ASSUME EngineInv, NEW r \in schedPrefill \cup schedDecode
  PROVE  r \in running /\ r \in Seqs /\ Due(r) \subseteq Nat
<1>1. r \in running /\ r \in Seqs
  BY DEF EngineInv, PlanConsistent, EngineTypeOK
<1>2. Len(prompt[r]) \in Nat \ {0}
  BY <1>1, PoolsAreRequests
<1>3. gen[r] \in Nat /\ cursor[r] \in Nat
  BY <1>1 DEF EngineInv, EngineTypeOK
<1>4. PrefillEnd(r) \in Nat
  BY <1>2, <1>3, EngineAssumption DEF PrefillEnd, Smaller
<1>5. cursor[r] .. PrefillEnd(r) - 1 \subseteq Nat
  BY <1>3, <1>4
<1>6. Len(prompt[r]) + gen[r] - 1 \in Nat
  BY <1>2, <1>3
<1> QED
  BY <1>1, <1>5, <1>6 DEF Due

LEMMA EnsureBlockKeeps ==
  ASSUME EngineInv, NEW r \in Seqs, EnsureBlock(r)
  PROVE  EngineInv'
<1>1. PICK pos \in Uncovered(r) :
         /\ NextToEnsure(r, pos)
         /\ \/ EnsureShared(r, pos, Len(prompt[r]))
            \/ EnsureFresh(r, pos, Len(prompt[r]))
  BY DEF EnsureBlock
<1>2. /\ UNCHANGED <<waiting, running, finished, rejected, added, prompt, maxTokens>>
      /\ UNCHANGED <<status, rank, cursor, gen, outputs, pc, todo, tokenBudget>>
      /\ UNCHANGED <<seqBudget, prefillBudget, schedPrefill, schedDecode, finishedGroups>>
  BY DEF EnsureBlock, pools, request, progress, budget, result
<1>3. r \in schedPrefill \cup schedDecode
  BY <1>1 DEF NextToEnsure, FirstAdmitted
<1>4. r \in running /\ pos \in Nat /\ Len(prompt[r]) \in Nat
  BY <1>3, DueType, PoolsAreRequests DEF Uncovered
<1>5. BMInv' /\ BMTypeOK'
  BY <1>1, <1>4, EnsureSharedKeepsBMInv, EnsureFreshKeepsBMInv DEF EngineInv, BMInv
<1>6. EngineTypeOK'
  BY <1>2, <1>5 DEF EngineInv, EngineTypeOK
<1>7. PoolsPartition' /\ PlanConsistent' /\ PromptsKnown'
  BY <1>2 DEF EngineInv, PoolsPartition, PlanConsistent, PromptsKnown
<1>8. OnlyRunningHoldBlocks'
  <2>1. \A q \in Seqs : q # r => tables'[q] = tables[q] /\ hashes'[q] = hashes[q]
    BY <1>1 DEF EnsureShared, EnsureFresh, EngineInv, BMInv, BMTypeOK
  <2> QED
    BY <1>2, <1>4, <2>1 DEF EngineInv, OnlyRunningHoldBlocks
<1> QED
  BY <1>5, <1>6, <1>7, <1>8 DEF EngineInv

LEMMA RaiseOOMKeeps ==
  ASSUME EngineInv, NEW r \in Seqs, RaiseOOM(r)
  PROVE  EngineInv'
<1>1. /\ UNCHANGED <<bmVars, pools, request, status>>
      /\ UNCHANGED <<waiting, running, finished, rejected, added, prompt, maxTokens>>
      /\ UNCHANGED <<rank, cursor, gen, outputs>>
      /\ Return
  BY DEF RaiseOOM, pools, request, progress
<1>2. BMInv' /\ BMTypeOK' /\ PoolsPartition' /\ OnlyRunningHoldBlocks' /\ PromptsKnown'
  BY <1>1, PlanningKeeps
<1>3. EngineTypeOK' /\ PlanConsistent'
  BY <1>1, <1>2 DEF EngineInv, EngineTypeOK, PlanConsistent, Return
<1> QED
  BY <1>2, <1>3 DEF EngineInv

LEMMA ExecuteKeeps == EngineInv /\ Execute => EngineInv'
<1> SUFFICES ASSUME EngineInv, Execute PROVE EngineInv'
  OBVIOUS
<1> DEFINE completes == {r \in schedPrefill : PrefillEnd(r) = Len(prompt[r])}
<1>1. /\ status' = [r \in Seqs |-> IF r \in completes THEN "RUNNING" ELSE status[r]]
      /\ gen' = [r \in Seqs |-> IF r \in completes THEN 1
                                ELSE IF r \in schedDecode THEN gen[r] + 1
                                ELSE gen[r]]
      /\ cursor' = [r \in Seqs |-> IF r \in schedPrefill THEN PrefillEnd(r)
                                   ELSE cursor[r]]
      /\ outputs' \subseteq outputs \cup finishedGroups
      /\ Return
      /\ UNCHANGED <<bmVars, tables, hashes>>
      /\ UNCHANGED <<waiting, running, finished, rejected, added, prompt, maxTokens, rank>>
  BY DEF Execute, bmVars, pools, request
<1>2. \A r \in completes : r \in schedPrefill
  OBVIOUS
<1> HIDE DEF completes
<1>3. BMInv' /\ BMTypeOK'
  BY <1>1, BMInvUnchanged DEF EngineInv
<1>4. \A r \in completes : r \in running /\ status[r] \in Live
  BY <1>2 DEF EngineInv, PlanConsistent, Live
<1>5. \A r \in Seqs : status'[r] = IF r \in completes THEN "RUNNING" ELSE status[r]
  BY <1>1
<1>6. cursor' \in [Seqs -> Nat] /\ gen' \in [Seqs -> Nat]
  <2>1. \A r \in Seqs : cursor[r] \in Nat /\ gen[r] \in Nat /\ Len(prompt[r]) \in Nat
    BY PoolsAreRequests DEF EngineInv, EngineTypeOK
  <2>2. \A r \in Seqs : PrefillEnd(r) \in Nat
    BY <2>1, EngineAssumption DEF PrefillEnd, Smaller
  <2> QED
    BY <1>1, <2>1, <2>2
<1>7. EngineTypeOK'
  <2>1. status' \in [Seqs -> {"NONE"} \cup Live \cup Ended]
    BY <1>1 DEF EngineInv, EngineTypeOK, Live
  <2>2. outputs' \in SUBSET Seqs
    BY <1>1 DEF EngineInv, EngineTypeOK
  <2> QED
    BY <1>1, <1>3, <1>6, <2>1, <2>2 DEF EngineInv, EngineTypeOK, Return
<1>8. PoolsPartition'
  <2>1. \A r \in Seqs : r \in running <=> status'[r] \in Live
    BY <1>4, <1>5 DEF EngineInv, PoolsPartition, Live
  <2>2. \A r \in Seqs : r \notin running \cup (finished \ rejected) => status'[r] = "NONE"
    BY <1>4, <1>5 DEF EngineInv, PoolsPartition
  <2> QED
    BY <1>1, <2>1, <2>2 DEF EngineInv, PoolsPartition
<1>9. OnlyRunningHoldBlocks' /\ PlanConsistent' /\ PromptsKnown'
  BY <1>1 DEF EngineInv, OnlyRunningHoldBlocks, PlanConsistent, PromptsKnown, Return
<1> QED
  BY <1>3, <1>7, <1>8, <1>9 DEF EngineInv

LEMMA NextKeepsEngineInv == EngineInv /\ [EngineNext]_engineVars => EngineInv'
<1> SUFFICES ASSUME EngineInv, [EngineNext]_engineVars PROVE EngineInv'
  OBVIOUS
<1>1. CASE UNCHANGED engineVars
  <2>1. UNCHANGED <<bmVars, pools, request, status>>
    BY <1>1 DEF engineVars
  <2>2. BMInv' /\ BMTypeOK' /\ PoolsPartition' /\ OnlyRunningHoldBlocks' /\ PromptsKnown'
    BY <2>1, PlanningKeeps
  <2>3. EngineTypeOK' /\ PlanConsistent'
    BY <1>1, <2>2 DEF engineVars, pools, request, progress, budget, result,
                      EngineInv, EngineTypeOK, PlanConsistent
  <2> QED
    BY <2>2, <2>3 DEF EngineInv
<1>2. CASE Calls
  BY <1>2, AddRequestKeeps, CancelKeeps DEF Calls
<1>3. CASE Step
  BY <1>3, StartStepKeeps, PlanDecodeKeeps, StartAdmissionKeeps, ExecuteKeeps,
     TimeOutKeeps, FinishGroupKeeps, ContinuePrefillKeeps, IgnoreKeeps,
     RejectKeeps, AdmitKeeps, EnsureBlockKeeps, RaiseOOMKeeps DEF Step, Prepare
<1> QED
  BY <1>1, <1>2, <1>3 DEF EngineNext

LEMMA EngineInvHolds == EngineSpec => []EngineInv
  BY InitEstablishesEngineInv, NextKeepsEngineInv, PTL DEF EngineSpec

(* Every variable of the engine keeps its type. *)
THEOREM EngineTypeCorrect == EngineSpec => []EngineTypeOK
<1>1. EngineInv => EngineTypeOK
  BY DEF EngineInv
<1> QED
  BY <1>1, EngineInvHolds, PTL

(* No request is lost or counted in two pools, and a sequence is alive *)
(* exactly while its request is in the running pool.                    *)
THEOREM EnginePoolsPartition == EngineSpec => []PoolsPartition
<1>1. EngineInv => PoolsPartition
  BY DEF EngineInv
<1> QED
  BY <1>1, EngineInvHolds, PTL

(* However a request ends, nothing of it stays in the block manager. *)
THEOREM EngineReleasesBlocks == EngineSpec => []OnlyRunningHoldBlocks
<1>1. EngineInv => OnlyRunningHoldBlocks
  BY DEF EngineInv
<1> QED
  BY <1>1, EngineInvHolds, PTL

(* The engine uses the block manager so that its counts stay exact. *)
THEOREM EngineRefCountsExact == EngineSpec => []RefCountsExact
<1>1. EngineInv => RefCountsExact
  BY DEF EngineInv, BMInv
<1> QED
  BY <1>1, EngineInvHolds, PTL

-----------------------------------------------------------------------------
(* No action reads or writes a request that has ended: each one's guard    *)
(* asks for a request that waits, runs or was scheduled, and cancelling an  *)
(* ended one finds no live sequence.                                        *)
LEMMA EndedUntouched ==
  ASSUME EngineInv, EngineNext, NEW r \in finished \cup rejected
  PROVE  /\ status'[r] = status[r] /\ gen'[r] = gen[r] /\ cursor'[r] = cursor[r]
         /\ finished \subseteq finished' /\ rejected \subseteq rejected'
<1> DEFINE Kept == /\ status'[r] = status[r] /\ gen'[r] = gen[r]
                   /\ cursor'[r] = cursor[r]
                   /\ finished \subseteq finished' /\ rejected \subseteq rejected'
<1>1. /\ r \in Seqs /\ r \notin waiting \cup running
      /\ status[r] \notin Live
      /\ r \notin schedPrefill /\ r \notin schedDecode
  <2>1. r \in Seqs /\ r \notin waiting \cup running
    BY DEF EngineInv, EngineTypeOK, PoolsPartition
  <2> QED
    BY <2>1 DEF EngineInv, PoolsPartition, PlanConsistent
<1>2. status \in [Seqs -> {"NONE"} \cup Live \cup Ended] /\ cursor \in [Seqs -> Nat]
  BY DEF EngineInv, EngineTypeOK
<1>3. ASSUME NEW q \in Seqs, NEW how, EndSequence(q, how)
      PROVE  status'[r] = status[r]
  BY <1>1, <1>2, <1>3 DEF EndSequence
<1>4. CASE Calls
  <2>1. CASE \E p \in Prompts, m \in MaxTokensValues : AddRequest(p, m)
    BY <2>1 DEF AddRequest, progress
  <2>2. ASSUME NEW q \in Seqs, Cancel(q) PROVE Kept
    BY <2>2, <1>3 DEF Cancel, progress
  <2> QED
    BY <1>4, <2>1, <2>2 DEF Calls
<1>5. CASE StartStep \/ PlanDecode \/ StartAdmission
  BY <1>5 DEF StartStep, PlanDecode, StartAdmission, pools, progress
<1>6. CASE Execute
  <2>1. UNCHANGED <<finished, rejected>>
    BY <1>6 DEF Execute, pools
  <2>2. status'[r] = status[r] /\ gen'[r] = gen[r] /\ cursor'[r] = cursor[r]
    BY <1>1, <1>6 DEF Execute
  <2> QED
    BY <2>1, <2>2
<1>7. ASSUME NEW q \in Seqs, TimeOut(q) \/ FinishGroup(q)
      PROVE  Kept
  BY <1>7, <1>3 DEF TimeOut, FinishGroup, progress
<1>8. ASSUME NEW q \in Seqs, \/ ContinuePrefill(q) \/ Ignore(q) \/ Reject(q)
                             \/ EnsureBlock(q) \/ RaiseOOM(q)
      PROVE  Kept
  BY <1>8 DEF ContinuePrefill, Ignore, Reject, EnsureBlock, RaiseOOM, pools, progress
<1>9. ASSUME NEW q \in Seqs, Admit(q) PROVE Kept
  <2>1. q \in waiting
    BY <1>9 DEF Admit, Oldest, EngineInv, PlanConsistent
  <2>2. q # r
    BY <1>1, <2>1
  <2>3. /\ status' = [status EXCEPT ![q] = "PREFILL"]
        /\ UNCHANGED <<finished, rejected, gen>>
        /\ \E c : cursor' = [cursor EXCEPT ![q] = c]
    BY <1>9 DEF Admit
  <2> QED
    BY <1>1, <1>2, <2>2, <2>3
<1> QED
  BY <1>4, <1>5, <1>6, <1>7, <1>8, <1>9 DEF EngineNext, Step, Prepare

LEMMA EndedStays ==
  ASSUME EngineInv, EngineInv', EngineNext, NEW r \in finished \cup rejected
  PROVE  /\ status'[r] = status[r] /\ gen'[r] = gen[r]
         /\ cursor'[r] = cursor[r] /\ tables'[r] = <<>>
         /\ r \in finished => r \in finished'
         /\ r \in rejected => r \in rejected'
<1>1. /\ status'[r] = status[r] /\ gen'[r] = gen[r] /\ cursor'[r] = cursor[r]
      /\ finished \subseteq finished' /\ rejected \subseteq rejected'
  BY EndedUntouched
<1>2. r \in Seqs /\ r \notin running'
  BY <1>1 DEF EngineInv, EngineTypeOK, PoolsPartition
<1> QED
  BY <1>1, <1>2 DEF EngineInv, OnlyRunningHoldBlocks

(* What has ended stays ended, whatever is called or done later. *)
THEOREM EngineEndedStaysEnded == EngineSpec => EndedStaysEnded
<1> DEFINE Untouched == \A r \in finished \cup rejected :
             /\ status'[r] = status[r] /\ gen'[r] = gen[r] /\ cursor'[r] = cursor[r]
             /\ tables'[r] = <<>>
             /\ r \in finished => r \in finished'
             /\ r \in rejected => r \in rejected'
<1>1. EngineInv /\ EngineInv' /\ [EngineNext]_engineVars => [Untouched]_engineVars
  BY EndedStays
<1> QED
  BY <1>1, EngineInvHolds, PTL DEF EngineSpec, EndedStaysEnded

-----------------------------------------------------------------------------
(***************************************************************************)
(* What Scheduler.schedule() owes every request that runs, for any number  *)
(* of requests, any prompts and any configuration: no budget is overdrawn, *)
(* a request that was let in is never ignored again, every forward pass    *)
(* advances it, and it ends with exactly the tokens it asked for.          *)
(***************************************************************************)

-----------------------------------------------------------------------------
(* Tokens generated. *)

(* Tokens are generated only after the prefill, a decode is scheduled only *)
(* while tokens are missing, and a request finishes when none is.           *)
OutputInv ==
  /\ \A r \in Seqs : status[r] \in {"NONE", "PREFILL"} => gen[r] = 0
  /\ \A r \in Seqs : gen[r] <= maxTokens[r] \/ (maxTokens[r] = 0 /\ gen[r] = 1)
  /\ \A r \in Seqs : status[r] = "FINISHED" => gen[r] >= maxTokens[r]
  /\ \A r \in schedDecode : gen[r] < maxTokens[r]

LEMMA InitEstablishesOutputInv == EngineInit => OutputInv
  BY DEF EngineInit, OutputInv

LEMMA MaxTokensType ==
  ASSUME EngineInv, NEW r \in Seqs
  PROVE  maxTokens[r] \in Nat /\ gen[r] \in Nat
<1>1. maxTokens[r] \in MaxTokensValues \cup {0} /\ gen[r] \in Nat
  BY DEF EngineInv, EngineTypeOK
<1>2. \A m \in MaxTokensValues \cup {0} : m \in Nat
  BY EngineAssumption
<1> QED
  BY <1>1, <1>2

LEMMA NextKeepsOutputInv ==
  ASSUME EngineInv, EngineInv', OutputInv, [EngineNext]_engineVars
  PROVE  OutputInv'
<1>1. /\ status \in [Seqs -> {"NONE"} \cup Live \cup Ended]
      /\ maxTokens \in [Seqs -> MaxTokensValues \cup {0}]
      /\ gen \in [Seqs -> Nat]
      /\ schedDecode \subseteq Seqs
  BY DEF EngineInv, EngineTypeOK
<1>2. \A r \in Seqs : maxTokens[r] \in Nat /\ gen[r] \in Nat
  BY MaxTokensType
<1>3. CASE UNCHANGED <<status, gen, maxTokens>> /\ schedDecode' \subseteq schedDecode
  BY <1>3 DEF OutputInv
<1>4. ASSUME NEW p \in Prompts, NEW m \in MaxTokensValues, AddRequest(p, m)
      PROVE  OutputInv'
  <2>1. /\ maxTokens' = [maxTokens EXCEPT ![added + 1] = m]
        /\ UNCHANGED <<status, gen, schedDecode>>
        /\ pc = "idle"
    BY <1>4 DEF AddRequest, progress, result
  <2>2. m \in Nat /\ added + 1 \in Seqs /\ added + 1 \notin 1 .. added
    BY <1>4, EngineAssumption DEF AddRequest, EngineInv, EngineTypeOK
  <2>3. status[added + 1] = "NONE"
    BY <2>2 DEF EngineInv, PoolsPartition
  <2>4. gen[added + 1] = 0 /\ schedDecode = {}
    BY <2>1, <2>2, <2>3 DEF OutputInv, EngineInv, PlanConsistent
  <2> QED
    BY <1>1, <2>1, <2>2, <2>3, <2>4 DEF OutputInv
<1>5. ASSUME NEW r \in Seqs, NEW how \in Ended, EndSequence(r, how),
             UNCHANGED <<gen, maxTokens, schedDecode>>,
             how = "FINISHED" => gen[r] >= maxTokens[r]
      PROVE  OutputInv'
  <2>1. status' = [status EXCEPT ![r] = how] \/ status' = status
    BY <1>5 DEF EndSequence
  <2> QED
    BY <1>1, <1>5, <2>1 DEF OutputInv, Ended
<1>6. ASSUME NEW r \in Seqs, Cancel(r) \/ TimeOut(r) \/ FinishGroup(r)
      PROVE  OutputInv'
  <2>1. /\ UNCHANGED <<gen, maxTokens, schedDecode>>
        /\ \/ EndSequence(r, "CANCELLED")
           \/ EndSequence(r, "TIMEOUT")
           \/ EndSequence(r, "FINISHED") /\ gen[r] >= maxTokens[r]
    BY <1>6 DEF Cancel, TimeOut, FinishGroup, FirstAdmitted, Complete, progress,
                request, result
  <2> QED
    BY <1>5, <2>1 DEF Ended
<1>7. CASE PlanDecode
  <2>1. /\ UNCHANGED <<status, gen, maxTokens>>
        /\ schedDecode' = {r \in running : status[r] = "RUNNING"}
        /\ \A r \in running : ~ (gen[r] >= maxTokens[r])
    BY <1>7 DEF PlanDecode, Complete, progress, request
  <2>2. running \subseteq Seqs
    BY DEF EngineInv, EngineTypeOK
  <2> QED
    BY <1>2, <2>1, <2>2 DEF OutputInv
<1>8. CASE Execute
  <2> DEFINE completes == {r \in schedPrefill : PrefillEnd(r) = Len(prompt[r])}
  <2>1. /\ status' = [r \in Seqs |-> IF r \in completes THEN "RUNNING" ELSE status[r]]
        /\ gen' = [r \in Seqs |-> IF r \in completes THEN 1
                                  ELSE IF r \in schedDecode THEN gen[r] + 1
                                  ELSE gen[r]]
        /\ schedDecode' = {} /\ maxTokens' = maxTokens
    BY <1>8 DEF Execute, Return, request
  <2>2. \A r \in completes : status[r] = "PREFILL"
    BY DEF EngineInv, PlanConsistent
  <2>3. \A r \in schedDecode : status[r] = "RUNNING"
    BY DEF EngineInv, PlanConsistent
  <2> HIDE DEF completes
  <2> QED
    BY <1>2, <2>1, <2>2, <2>3 DEF OutputInv
<1>9. ASSUME NEW r \in Seqs, Admit(r)
      PROVE  OutputInv'
  <2>1. /\ status' = [status EXCEPT ![r] = "PREFILL"]
        /\ UNCHANGED <<gen, maxTokens, schedDecode>>
        /\ r \in todo /\ pc = "admit"
    BY <1>9 DEF Admit, Oldest, request
  <2>2. r \in waiting
    BY <2>1 DEF EngineInv, PlanConsistent
  <2>3. status[r] = "NONE"
    BY <2>2 DEF EngineInv, PoolsPartition
  <2> QED
    BY <1>1, <2>1, <2>3 DEF OutputInv
<1>10. CASE \/ StartStep \/ StartAdmission \/ UNCHANGED engineVars
            \/ \E r \in Seqs : \/ ContinuePrefill(r) \/ Ignore(r) \/ Reject(r)
                               \/ EnsureBlock(r) \/ RaiseOOM(r)
  <2>1. UNCHANGED <<status, gen, maxTokens>> /\ schedDecode' \subseteq schedDecode
    BY <1>10 DEF StartStep, StartAdmission, engineVars, ContinuePrefill, Ignore,
                 Reject, EnsureBlock, RaiseOOM, Return, progress, request, result
  <2> QED
    BY <1>3, <2>1
<1> QED
  BY <1>4, <1>6, <1>7, <1>8, <1>9, <1>10 DEF EngineNext, Step, Prepare, Calls

-----------------------------------------------------------------------------
(* Loads.  A sum over a set of requests is the size of a set of claims:    *)
(* each request claims as many tokens as the next step computes for it.    *)

Need(r) == IF status[r] = "PREFILL" THEN NextChunk(r) ELSE 1

Needs == [r \in Seqs |-> Need(r)]

Claims(f, S) == {c \in Seqs \X (1 .. MaxPrefillChunkSize) : c[1] \in S /\ c[2] <= f[c[1]]}

Load(f, S) == Cardinality(Claims(f, S))

LEMMA ClaimsFinite ==
  ASSUME NEW f, NEW S
  PROVE  IsFiniteSet(Claims(f, S)) /\ Load(f, S) \in Nat
<1>1. IsFiniteSet(Seqs)
  BY SeqsFinite
<1>2. IsFiniteSet(1 .. MaxPrefillChunkSize)
  BY FS_Interval, EngineAssumption, 1 \in Int, MaxPrefillChunkSize \in Int
<1>3. IsFiniteSet(Seqs \X (1 .. MaxPrefillChunkSize))
  BY <1>1, <1>2, FS_Product
<1>4. Claims(f, S) \in SUBSET (Seqs \X (1 .. MaxPrefillChunkSize))
  BY DEF Claims
<1> QED
  BY <1>3, <1>4, FS_Subset, FS_CardinalityType DEF Load

(* Fewer requests with smaller needs are a smaller load. *)
LEMMA LoadMonotone ==
  ASSUME NEW f, NEW g, NEW S, NEW T, S \subseteq T,
         \A r \in S : r \in Seqs => f[r] \in Int /\ g[r] \in Int /\ f[r] <= g[r]
  PROVE  Load(f, S) <= Load(g, T)
<1>1. Claims(f, S) \subseteq Claims(g, T)
  <2> SUFFICES ASSUME NEW c \in Claims(f, S) PROVE c \in Claims(g, T)
    OBVIOUS
  <2>1. /\ c \in Seqs \X (1 .. MaxPrefillChunkSize)
        /\ c[1] \in S /\ c[1] \in Seqs /\ c[2] \in Int /\ c[2] <= f[c[1]]
    BY DEF Claims
  <2>2. c[1] \in T /\ c[2] <= g[c[1]]
    BY <2>1
  <2> QED
    BY <2>1, <2>2 DEF Claims
<1> QED
  BY <1>1, ClaimsFinite, FS_Subset DEF Load

(* One more request adds what it needs. *)
LEMMA LoadAdd ==
  ASSUME NEW f, NEW S, NEW r \in Seqs, r \notin S,
         NEW n \in Nat, f[r] = n, n <= MaxPrefillChunkSize
  PROVE  Load(f, S \cup {r}) = Load(f, S) + n
<1> DEFINE Own == {r} \X (1 .. n)
<1>1. Claims(f, S \cup {r}) = Claims(f, S) \cup Own
  <2>1. \A c \in Claims(f, S \cup {r}) : c \in Claims(f, S) \cup Own
    BY DEF Claims
  <2>2. \A c \in Claims(f, S) : c \in Claims(f, S \cup {r})
    BY DEF Claims
  <2>3. ASSUME NEW c \in Own PROVE c \in Claims(f, S \cup {r})
    <3>1. /\ c = <<c[1], c[2]>> /\ c[1] = r /\ c[2] \in 1 .. n
      OBVIOUS
    <3>2. c[2] \in 1 .. MaxPrefillChunkSize /\ c[2] <= n
      BY <3>1, EngineAssumption
    <3>3. c \in Seqs \X (1 .. MaxPrefillChunkSize)
      BY <3>1, <3>2
    <3> QED
      BY <3>1, <3>2, <3>3 DEF Claims
  <2> QED
    BY <2>1, <2>2, <2>3
<1>2. Claims(f, S) \cap Own = {}
  BY DEF Claims
<1>3. IsFiniteSet(Own) /\ Cardinality(Own) = n
  <2>1. IsFiniteSet({r}) /\ Cardinality({r}) = 1
    BY FS_Singleton
  <2>2. IsFiniteSet(1 .. n) /\ Cardinality(1 .. n) = n
    BY FS_Interval, 1 \in Int, n \in Int
  <2>3. 1 * n = n
    OBVIOUS
  <2> QED
    BY <2>1, <2>2, <2>3, FS_Product
<1> HIDE DEF Own
<1>4. Cardinality(Claims(f, S) \cap Own) = 0
  BY <1>2, FS_EmptySet
<1>5. Cardinality(Claims(f, S)) \in Nat
  BY ClaimsFinite DEF Load
<1>6. Cardinality(Claims(f, S) \cup Own) =
        Cardinality(Claims(f, S)) + Cardinality(Own) - Cardinality(Claims(f, S) \cap Own)
  BY <1>3, ClaimsFinite, FS_Union
<1>7. Cardinality(Claims(f, S) \cup Own) = Cardinality(Claims(f, S)) + n
  BY <1>3, <1>4, <1>5, <1>6
<1> QED
  BY <1>1, <1>7 DEF Load

(* Requests that need one token each. *)
LEMMA LoadOfDecodes ==
  ASSUME NEW f, NEW S \in SUBSET Seqs, \A r \in S : f[r] = 1
  PROVE  Load(f, S) = Cardinality(S)
<1>1. Claims(f, S) = S \X {1}
  <2>1. 1 \in 1 .. MaxPrefillChunkSize
    BY EngineAssumption
  <2> QED
    BY <2>1 DEF Claims
<1>2. IsFiniteSet(S) /\ Cardinality(S) \in Nat
  BY SeqsFinite
<1>3. IsFiniteSet({1}) /\ Cardinality({1}) = 1
  BY FS_Singleton
<1> QED
  BY <1>1, <1>2, <1>3, FS_Product DEF Load

(* The load of two disjoint sets. *)
LEMMA LoadUnion ==
  ASSUME NEW f, NEW S, NEW T, S \cap T = {}
  PROVE  Load(f, S \cup T) = Load(f, S) + Load(f, T)
<1>1. /\ Claims(f, S \cup T) = Claims(f, S) \cup Claims(f, T)
      /\ Claims(f, S) \cap Claims(f, T) = {}
  BY DEF Claims
<1>2. /\ IsFiniteSet(Claims(f, S)) /\ IsFiniteSet(Claims(f, T))
      /\ Cardinality(Claims(f, S)) \in Nat /\ Cardinality(Claims(f, T)) \in Nat
  BY ClaimsFinite DEF Load
<1>3. Cardinality(Claims(f, S) \cap Claims(f, T)) = 0
  BY <1>1, FS_EmptySet
<1>4. Cardinality(Claims(f, S) \cup Claims(f, T)) =
        Cardinality(Claims(f, S)) + Cardinality(Claims(f, T))
          - Cardinality(Claims(f, S) \cap Claims(f, T))
  BY <1>2, FS_Union
<1> QED
  BY <1>1, <1>2, <1>3, <1>4 DEF Load

-----------------------------------------------------------------------------
(* Budgets. *)

Prefilling == {r \in running : status[r] = "PREFILL"}

CursorInv == \A r \in Prefilling : cursor[r] < Len(prompt[r])

(* What runs fits in a step: this outlives the step that admitted it.  *)
(* A request's need never grows, and admission looks at all the others. *)
LoadInv ==
  /\ Cardinality(running) <= MaxNumSeqs
  /\ Load(Needs, running) <= MaxNumBatchedTokens
  /\ Load(Needs, Prefilling) <= MaxNumPrefillTokens

Planned == schedDecode \cup schedPrefill

(* Within schedule(), the budgets bound what may still be taken, and what *)
(* phase 4 has still to visit fits in them.                                *)
BudgetInv ==
  /\ 0 <= seqBudget /\ 0 <= prefillBudget /\ prefillBudget <= tokenBudget
  /\ pc \in {"continue", "admit"} =>
       /\ running = Planned \cup (IF pc = "continue" THEN todo ELSE {})
       /\ Cardinality(Planned) + seqBudget <= MaxNumSeqs
       /\ Load(Needs, Planned) + tokenBudget <= MaxNumBatchedTokens
       /\ Load(Needs, schedPrefill) + prefillBudget <= MaxNumPrefillTokens
  /\ pc = "continue" =>
       /\ todo \cap Planned = {}
       /\ Cardinality(todo) <= seqBudget
       /\ Load(Needs, todo) <= prefillBudget

SchedInv == EngineInv /\ OutputInv /\ CursorInv /\ LoadInv /\ BudgetInv

NeedTypeOK ==
  \A r \in running :
    /\ r \in Seqs /\ Needs[r] = Need(r)
    /\ Need(r) \in Nat /\ 1 <= Need(r) /\ Need(r) <= MaxPrefillChunkSize
    /\ status[r] = "PREFILL" => Need(r) = NextChunk(r)
    /\ status[r] = "RUNNING" => Need(r) = 1

LEMMA NeedType == EngineInv /\ CursorInv => NeedTypeOK
<1> SUFFICES ASSUME EngineInv, CursorInv, NEW r \in running
             PROVE  /\ r \in Seqs /\ Needs[r] = Need(r)
                    /\ Need(r) \in Nat /\ 1 <= Need(r) /\ Need(r) <= MaxPrefillChunkSize
                    /\ status[r] = "PREFILL" => Need(r) = NextChunk(r)
                    /\ status[r] = "RUNNING" => Need(r) = 1
  BY DEF NeedTypeOK
<1>1. r \in Seqs /\ Len(prompt[r]) \in Nat /\ cursor[r] \in Nat
  BY PoolsAreRequests DEF EngineInv, EngineTypeOK
<1>2. status[r] = "PREFILL" => cursor[r] < Len(prompt[r])
  BY DEF CursorInv, Prefilling
<1>3. MaxPrefillChunkSize \in Nat /\ MaxPrefillChunkSize >= 1
  BY EngineAssumption
<1> QED
  BY <1>1, <1>2, <1>3 DEF Needs, Need, NextChunk, Smaller

LEMMA NeedTypeNext == (EngineInv /\ CursorInv => NeedTypeOK)'
  BY NeedType, PTL

LEMMA LimitsType ==
  /\ MaxNumSeqs \in Nat \ {0} /\ MaxNumBatchedTokens \in Nat \ {0}
  /\ MaxNumPrefillTokens \in Nat \ {0} /\ MaxPrefillChunkSize \in Nat \ {0}
  BY EngineAssumption

LEMMA BudgetsType ==
  ASSUME EngineInv
  PROVE  /\ tokenBudget \in Int /\ seqBudget \in Int /\ prefillBudget \in Int
         /\ running \in SUBSET Seqs /\ todo \in SUBSET Seqs
         /\ schedPrefill \in SUBSET Seqs /\ schedDecode \in SUBSET Seqs
         /\ Planned \in SUBSET Seqs
         /\ \A r \in schedPrefill : r \in running /\ status[r] = "PREFILL"
         /\ \A r \in schedDecode : r \in running /\ status[r] = "RUNNING"
         /\ \A r \in running : status[r] \in Live
         /\ Prefilling \in SUBSET Seqs
  BY DEF EngineInv, EngineTypeOK, PlanConsistent, PoolsPartition, Planned, Prefilling

(* Requests leave and needs shrink: whatever runs still fits in a step. *)
LEMMA LoadShrinks ==
  ASSUME EngineInv, CursorInv, LoadInv, EngineInv', CursorInv',
         running' \subseteq running, Prefilling' \subseteq Prefilling,
         \A r \in running' : Need(r)' <= Need(r)
  PROVE  LoadInv'
<1>1. NeedTypeOK /\ NeedTypeOK'
  BY NeedType, NeedTypeNext
<1>2. \A r \in running' : /\ r \in Seqs /\ Needs'[r] = Need(r)' /\ Needs[r] = Need(r)
                           /\ Need(r)' \in Int /\ Need(r) \in Int
  BY <1>1 DEF NeedTypeOK
<1>3. Load(Needs', running') <= Load(Needs, running)
  BY <1>2, LoadMonotone
<1>4. Load(Needs', Prefilling') <= Load(Needs, Prefilling)
  <2>1. Prefilling' \subseteq running'
    BY DEF Prefilling
  <2> QED
    BY <1>2, <2>1, LoadMonotone
<1>5. Cardinality(running') <= Cardinality(running)
  BY SeqsFinite, BudgetsType, FS_Subset
<1>6. /\ Load(Needs', running') \in Nat /\ Load(Needs, running) \in Nat
      /\ Load(Needs', Prefilling') \in Nat /\ Load(Needs, Prefilling) \in Nat
      /\ Cardinality(running') \in Nat /\ Cardinality(running) \in Nat
  BY ClaimsFinite, SeqsFinite, BudgetsType
<1> QED
  BY <1>3, <1>4, <1>5, <1>6, LimitsType DEF LoadInv, Load, Claims

(* Between steps, before schedule() plans, and when a step raises: nothing *)
(* of a request that goes on running changes.                              *)
LEMMA OutsidePlanKeeps ==
  ASSUME SchedInv, EngineInv', pc' \in {"idle", "begin"},
         running' \subseteq running,
         \A r \in running' : /\ status'[r] = status[r] /\ prompt'[r] = prompt[r]
                             /\ cursor'[r] = cursor[r],
         \/ UNCHANGED <<tokenBudget, seqBudget, prefillBudget>>
         \/ tokenBudget' = 0 /\ seqBudget' = 0 /\ prefillBudget' = 0
  PROVE  CursorInv' /\ LoadInv' /\ BudgetInv'
<1>1. Prefilling' \subseteq Prefilling
  BY DEF Prefilling
<1>2. CursorInv'
  BY <1>1 DEF SchedInv, CursorInv, Prefilling
<1>3. \A r \in running' : Need(r)' = Need(r)
  BY DEF Need, NextChunk
<1>4. \A r \in running' : Need(r) \in Nat
  BY NeedType DEF SchedInv, NeedTypeOK
<1>5. LoadInv'
  BY <1>1, <1>2, <1>3, <1>4, LoadShrinks DEF SchedInv
<1>6. BudgetInv'
  BY DEF SchedInv, BudgetInv
<1> QED
  BY <1>2, <1>5, <1>6

(* Requests, plan and budgets stay as they are, and phase 5 goes on. *)
LEMMA PlanKept ==
  ASSUME SchedInv, EngineInv',
         UNCHANGED <<running, status, prompt, cursor, schedPrefill, schedDecode>>,
         UNCHANGED <<tokenBudget, seqBudget, prefillBudget>>,
         \/ UNCHANGED <<pc, todo>>
         \/ pc = "admit" /\ pc' = "admit"
         \/ pc = "continue" /\ todo = {} /\ pc' = "admit"
  PROVE  CursorInv' /\ LoadInv' /\ BudgetInv'
<1>1. Prefilling' = Prefilling /\ Needs' = Needs /\ Planned' = Planned
  BY DEF Prefilling, Needs, Need, NextChunk, Planned
<1>2. /\ Load(Needs, running)' = Load(Needs, running)
      /\ Load(Needs, Prefilling)' = Load(Needs, Prefilling)
      /\ Load(Needs, Planned)' = Load(Needs, Planned)
      /\ Load(Needs, schedPrefill)' = Load(Needs, schedPrefill)
  BY <1>1 DEF Load, Claims
<1>3. todo' = todo => Load(Needs, todo)' = Load(Needs, todo)
  BY <1>1 DEF Load, Claims
<1>4. CursorInv'
  BY <1>1 DEF SchedInv, CursorInv
<1>5. LoadInv'
  BY <1>2 DEF SchedInv, LoadInv
<1>6. BudgetInv'
  BY <1>1, <1>2, <1>3 DEF SchedInv, BudgetInv
<1> QED
  BY <1>4, <1>5, <1>6

(* Phases 2 and 3.  What runs fits in the budgets, so what is left after   *)
(* the decodes is enough for the next chunk of every prefill.               *)
LEMMA PlanDecodeKeepsBudgets ==
  ASSUME SchedInv, EngineInv', PlanDecode
  PROVE  CursorInv' /\ LoadInv' /\ BudgetInv'
<1> DEFINE D == {r \in running : status[r] = "RUNNING"}
<1>1. /\ UNCHANGED <<running, status, prompt, cursor, schedPrefill>>
      /\ schedPrefill = {} /\ pc' = "continue"
      /\ schedDecode' = D /\ todo' = Prefilling
      /\ tokenBudget' = MaxNumBatchedTokens - Cardinality(D)
      /\ seqBudget' = MaxNumSeqs - Cardinality(D)
      /\ prefillBudget' = Smaller(tokenBudget', MaxNumPrefillTokens)
  BY DEF PlanDecode, Scheduling, pools, request, progress, Prefilling, SchedInv,
         EngineInv, PlanConsistent
<1>2. /\ running = D \cup Prefilling /\ D \cap Prefilling = {}
      /\ D \in SUBSET Seqs /\ Prefilling \in SUBSET Seqs
  BY BudgetsType DEF SchedInv, Prefilling, Live
<1>3. Prefilling' = Prefilling /\ Needs' = Needs /\ Planned' = D
  BY <1>1 DEF Prefilling, Needs, Need, NextChunk, Planned
<1>4. Load(Needs, D) = Cardinality(D)
  <2>1. \A r \in D : Needs[r] = 1
    BY NeedType DEF SchedInv, NeedTypeOK
  <2> QED
    BY <1>2, <2>1, LoadOfDecodes
<1>5. Load(Needs, running) = Load(Needs, D) + Load(Needs, Prefilling)
  BY <1>2, LoadUnion
<1> HIDE DEF D
<1>6. /\ IsFiniteSet(D) /\ IsFiniteSet(Prefilling)
      /\ Cardinality(D) \in Nat /\ Cardinality(Prefilling) \in Nat
      /\ Load(Needs, Prefilling) \in Nat
  BY <1>2, SeqsFinite, ClaimsFinite
<1>7. Cardinality(running) = Cardinality(D) + Cardinality(Prefilling)
  <2>1. Cardinality(D \cap Prefilling) = 0
    BY <1>2, FS_EmptySet
  <2>2. Cardinality(D \cup Prefilling) =
          Cardinality(D) + Cardinality(Prefilling) - Cardinality(D \cap Prefilling)
    BY <1>6, FS_Union
  <2> QED
    BY <1>2, <1>6, <2>1, <2>2
<1>8. /\ Cardinality(D) + Cardinality(Prefilling) <= MaxNumSeqs
      /\ Cardinality(D) + Load(Needs, Prefilling) <= MaxNumBatchedTokens
      /\ Load(Needs, Prefilling) <= MaxNumPrefillTokens
  BY <1>4, <1>5, <1>7 DEF SchedInv, LoadInv
<1>9. /\ 0 <= seqBudget' /\ 0 <= prefillBudget' /\ prefillBudget' <= tokenBudget'
      /\ Cardinality(Prefilling) <= seqBudget'
      /\ Load(Needs, Prefilling) <= prefillBudget'
      /\ prefillBudget' <= MaxNumPrefillTokens /\ prefillBudget' \in Int
      /\ Cardinality(D) + seqBudget' <= MaxNumSeqs
      /\ Cardinality(D) + tokenBudget' <= MaxNumBatchedTokens
  BY <1>1, <1>6, <1>8, LimitsType DEF Smaller
<1>10. Load(Needs, {}) = 0
  BY FS_EmptySet DEF Load, Claims
<1>11. CursorInv' /\ LoadInv'
  BY <1>1, <1>3 DEF SchedInv, CursorInv, LoadInv, Load, Claims
<1>12. /\ Load(Needs, Planned)' = Cardinality(D)
       /\ Load(Needs, schedPrefill)' = 0
       /\ Load(Needs, todo)' = Load(Needs, Prefilling)
  BY <1>1, <1>3, <1>4, <1>10 DEF Load, Claims
<1>13. BudgetInv'
  BY <1>1, <1>2, <1>3, <1>9, <1>12 DEF BudgetInv
<1> QED
  BY <1>11, <1>13

(* Phase 4 has room for every group it visits. *)
LEMMA NextChunkFits ==
  ASSUME SchedInv, pc = "continue", NEW r \in todo
  PROVE  /\ Fits(NextChunk(r))
         /\ Need(r) = NextChunk(r) /\ Need(r) \in Nat
         /\ Needs[r] = Need(r) /\ Need(r) <= MaxPrefillChunkSize
         /\ Load(Needs, todo) = Load(Needs, todo \ {r}) + Need(r)
         /\ Cardinality(todo) = Cardinality(todo \ {r}) + 1
<1>1. r \in running /\ status[r] = "PREFILL" /\ r \in Seqs
  BY BudgetsType DEF SchedInv, EngineInv, PlanConsistent
<1>2. /\ Need(r) = NextChunk(r) /\ Need(r) \in Nat
      /\ Needs[r] = Need(r) /\ Need(r) <= MaxPrefillChunkSize
  BY <1>1, NeedType DEF SchedInv, NeedTypeOK
<1>3. Load(Needs, todo) = Load(Needs, todo \ {r}) + Need(r)
  <2>1. todo = (todo \ {r}) \cup {r} /\ r \notin todo \ {r}
    OBVIOUS
  <2> QED
    BY <1>1, <1>2, <2>1, LoadAdd
<1>4. /\ IsFiniteSet(todo) /\ Cardinality(todo \ {r}) \in Nat /\ Cardinality(todo) \in Nat
      /\ Load(Needs, todo \ {r}) \in Nat
  <2>1. todo \in SUBSET Seqs /\ todo \ {r} \in SUBSET Seqs
    BY BudgetsType DEF SchedInv
  <2> QED
    BY <2>1, SeqsFinite, ClaimsFinite
<1>5. Cardinality(todo) = Cardinality(todo \ {r}) + 1
  <2>1. Cardinality(todo \ {r}) = Cardinality(todo) - 1
    BY <1>4, FS_RemoveElement
  <2> QED
    BY <1>4, <2>1
<1>6. Cardinality(todo) <= seqBudget /\ Load(Needs, todo) <= prefillBudget
  BY DEF SchedInv, BudgetInv
<1>7. seqBudget \in Int /\ prefillBudget \in Int
  BY BudgetsType DEF SchedInv
<1>8. seqBudget > 0 /\ Need(r) <= prefillBudget
  BY <1>2, <1>3, <1>4, <1>5, <1>6, <1>7
<1> QED
  BY <1>2, <1>3, <1>5, <1>8 DEF Fits

LEMMA ContinuePrefillKeepsBudgets ==
  ASSUME SchedInv, EngineInv', NEW r \in Seqs, ContinuePrefill(r)
  PROVE  CursorInv' /\ LoadInv' /\ BudgetInv'
<1>1. /\ UNCHANGED <<running, status, prompt, cursor, schedDecode, pc>>
      /\ pc = "continue" /\ r \in todo /\ todo' = todo \ {r}
  BY DEF ContinuePrefill, FirstAdmitted, pools, request, progress
<1>2. /\ Fits(NextChunk(r))
      /\ Need(r) = NextChunk(r) /\ Need(r) \in Nat
      /\ Needs[r] = Need(r) /\ Need(r) <= MaxPrefillChunkSize
      /\ Load(Needs, todo) = Load(Needs, todo \ {r}) + Need(r)
      /\ Cardinality(todo) = Cardinality(todo \ {r}) + 1
  BY <1>1, NextChunkFits
<1>3. /\ schedPrefill' = schedPrefill \cup {r}
      /\ tokenBudget' = tokenBudget - Need(r)
      /\ prefillBudget' = prefillBudget - Need(r)
      /\ seqBudget' = seqBudget - 1
  BY <1>2 DEF ContinuePrefill, Take
<1>4. Prefilling' = Prefilling /\ Needs' = Needs /\ Planned' = Planned \cup {r}
  BY <1>1, <1>3 DEF Prefilling, Needs, Need, NextChunk, Planned
<1>5. r \notin Planned /\ r \notin schedPrefill
  BY <1>1 DEF SchedInv, BudgetInv, Planned
<1>6. /\ Load(Needs, Planned \cup {r}) = Load(Needs, Planned) + Need(r)
      /\ Load(Needs, schedPrefill \cup {r}) = Load(Needs, schedPrefill) + Need(r)
  BY <1>2, <1>5, LoadAdd
<1>7. /\ Cardinality(Planned \cup {r}) = Cardinality(Planned) + 1
      /\ Cardinality(Planned) \in Nat
  BY <1>5, BudgetsType, SeqsFinite, FS_AddElement DEF SchedInv
<1>8. /\ tokenBudget \in Int /\ seqBudget \in Int /\ prefillBudget \in Int
      /\ Load(Needs, Planned) \in Nat /\ Load(Needs, schedPrefill) \in Nat
      /\ Load(Needs, todo \ {r}) \in Nat /\ Cardinality(todo \ {r}) \in Nat
  <2>1. todo \ {r} \in SUBSET Seqs
    BY BudgetsType DEF SchedInv
  <2> QED
    BY <2>1, BudgetsType, ClaimsFinite, SeqsFinite DEF SchedInv
<1>9. /\ 0 <= seqBudget /\ 0 <= prefillBudget /\ prefillBudget <= tokenBudget
      /\ running = Planned \cup todo
      /\ Cardinality(Planned) + seqBudget <= MaxNumSeqs
      /\ Load(Needs, Planned) + tokenBudget <= MaxNumBatchedTokens
      /\ Load(Needs, schedPrefill) + prefillBudget <= MaxNumPrefillTokens
      /\ todo \cap Planned = {}
      /\ Cardinality(todo) <= seqBudget
      /\ Load(Needs, todo) <= prefillBudget
  BY <1>1 DEF SchedInv, BudgetInv
<1>10. /\ Load(Needs, Planned)' = Load(Needs, Planned) + Need(r)
       /\ Load(Needs, schedPrefill)' = Load(Needs, schedPrefill) + Need(r)
       /\ Load(Needs, todo)' = Load(Needs, todo \ {r})
  BY <1>1, <1>3, <1>4, <1>6 DEF Load, Claims
<1>11. /\ 0 <= seqBudget' /\ 0 <= prefillBudget' /\ prefillBudget' <= tokenBudget'
       /\ Cardinality(Planned') + seqBudget' <= MaxNumSeqs
       /\ Load(Needs, Planned)' + tokenBudget' <= MaxNumBatchedTokens
       /\ Load(Needs, schedPrefill)' + prefillBudget' <= MaxNumPrefillTokens
       /\ Cardinality(todo') <= seqBudget'
       /\ Load(Needs, todo)' <= prefillBudget'
  <2>1. Cardinality(Planned') = Cardinality(Planned) + 1
    BY <1>4, <1>7
  <2>2. Cardinality(todo') = Cardinality(todo \ {r})
    BY <1>1
  <2> QED
    BY <1>2, <1>3, <1>7, <1>8, <1>9, <1>10, <2>1, <2>2, LimitsType
<1>12. running' = Planned' \cup todo' /\ todo' \cap Planned' = {}
  BY <1>1, <1>4, <1>9
<1>13. BudgetInv'
  BY <1>1, <1>11, <1>12 DEF BudgetInv
<1>14. CursorInv' /\ LoadInv'
  BY <1>1, <1>4 DEF SchedInv, CursorInv, LoadInv, Load, Claims
<1> QED
  BY <1>13, <1>14

(* The chunk a request is charged for when it is let in covers each chunk  *)
(* it will need later.                                                      *)
LEMMA FirstChunkCoversNeed ==
  ASSUME EngineInv, NEW r \in Seqs, NEW p, p = prompt[r], Len(p) \in Nat \ {0},
         NEW k \in Nat
  PROVE  /\ FirstChunk(p, k) \in Nat /\ FirstCursor(p, k) \in Nat
         /\ FirstCursor(p, k) < Len(p)
         /\ Smaller(Len(p) - FirstCursor(p, k), MaxPrefillChunkSize) <= FirstChunk(p, k)
         /\ Smaller(Len(p) - FirstCursor(p, k), MaxPrefillChunkSize)
              \in 1 .. MaxPrefillChunkSize
<1> DEFINE n == Len(p)
<1>1. n \in Nat /\ n >= 1 /\ MaxPrefillChunkSize \in Nat /\ MaxPrefillChunkSize >= 1
  BY EngineAssumption
<1>2. k * BlockSize \in Nat
  BY BlockManagerAssumption
<1>3. CachedTokens(p, k) \in Nat /\ CachedTokens(p, k) <= n
  BY <1>1, <1>2 DEF CachedTokens, Smaller
<1>4. Uncached(p, k) \in Nat /\ Uncached(p, k) = n - CachedTokens(p, k)
  BY <1>1, <1>3 DEF Uncached
<1> HIDE DEF n
<1>5. CASE Uncached(p, k) = 0
  <2>1. /\ FirstChunk(p, k) = Smaller(MaxPrefillChunkSize, n)
        /\ FirstCursor(p, k) = n - FirstChunk(p, k)
    BY <1>5 DEF FirstChunk, FirstCursor, n
  <2>2. /\ FirstChunk(p, k) \in Nat /\ FirstChunk(p, k) >= 1
        /\ FirstChunk(p, k) <= n /\ FirstChunk(p, k) <= MaxPrefillChunkSize
    BY <1>1, <2>1 DEF Smaller
  <2>3. /\ FirstCursor(p, k) \in Nat /\ FirstCursor(p, k) < n
        /\ n - FirstCursor(p, k) = FirstChunk(p, k)
    BY <1>1, <2>1, <2>2
  <2> QED
    BY <1>1, <2>2, <2>3 DEF n, Smaller
<1>6. CASE Uncached(p, k) # 0
  <2>1. /\ \/ FirstChunk(p, k) = Smaller(Uncached(p, k), MaxPrefillChunkSize)
           \/ FirstChunk(p, k) = Uncached(p, k)
        /\ FirstCursor(p, k) = CachedTokens(p, k)
    BY <1>6 DEF FirstChunk, FirstCursor
  <2>2. /\ FirstCursor(p, k) \in Nat /\ FirstCursor(p, k) < n
        /\ n - FirstCursor(p, k) = Uncached(p, k)
    BY <1>1, <1>3, <1>4, <1>6, <2>1
  <2>3. /\ FirstChunk(p, k) \in Nat
        /\ Smaller(Uncached(p, k), MaxPrefillChunkSize) <= FirstChunk(p, k)
        /\ Smaller(Uncached(p, k), MaxPrefillChunkSize) \in 1 .. MaxPrefillChunkSize
    BY <1>1, <1>4, <1>6, <2>1 DEF Smaller
  <2> QED
    BY <2>2, <2>3 DEF n
<1> QED
  BY <1>5, <1>6

LEMMA AdmitKeepsBudgets ==
  ASSUME SchedInv, EngineInv', NEW r \in Seqs, Admit(r)
  PROVE  CursorInv' /\ LoadInv' /\ BudgetInv'
<1> DEFINE p == prompt[r]
<1>1. PICK k \in 0 .. Len(p) :
         /\ Fits(FirstChunk(p, k)) /\ Take(r, FirstChunk(p, k))
         /\ cursor' = [cursor EXCEPT ![r] = FirstCursor(p, k)]
  BY DEF Admit
<1>2. /\ UNCHANGED <<prompt, schedDecode, pc>> /\ pc = "admit" /\ r \in todo
      /\ status' = [status EXCEPT ![r] = "PREFILL"]
      /\ running' = running \cup {r}
  BY DEF Admit, Oldest, request
<1>3. r \in waiting /\ r \notin running /\ Len(p) \in Nat \ {0}
  BY <1>2, PoolsAreRequests DEF SchedInv, EngineInv, PlanConsistent, PoolsPartition
<1> DEFINE chunk == FirstChunk(p, k)
           need == Smaller(Len(p) - FirstCursor(p, k), MaxPrefillChunkSize)
<1>4. /\ chunk \in Nat /\ FirstCursor(p, k) \in Nat /\ FirstCursor(p, k) < Len(p)
      /\ need <= chunk /\ need \in Nat /\ need <= MaxPrefillChunkSize
  <2>1. k \in Nat
    BY <1>3
  <2>2. EngineInv
    BY DEF SchedInv
  <2>3. /\ chunk \in Nat /\ FirstCursor(p, k) \in Nat /\ FirstCursor(p, k) < Len(p)
        /\ need <= chunk /\ need \in 1 .. MaxPrefillChunkSize
    BY <1>3, <2>1, <2>2, FirstChunkCoversNeed
  <2> HIDE DEF p, chunk, need
  <2> QED
    BY <2>3, LimitsType
<1>5. /\ status'[r] = "PREFILL" /\ cursor'[r] = FirstCursor(p, k)
      /\ \A q \in Seqs : q # r => status'[q] = status[q] /\ cursor'[q] = cursor[q]
  BY <1>1, <1>2 DEF SchedInv, EngineInv, EngineTypeOK
<1>6. Need(r)' = need /\ Needs'[r] = need
  BY <1>2, <1>5 DEF Needs, Need, NextChunk
<1>7. CursorInv'
  BY <1>2, <1>4, <1>5, BudgetsType DEF SchedInv, CursorInv, Prefilling
<1>8. /\ schedPrefill' = schedPrefill \cup {r}
      /\ tokenBudget' = tokenBudget - chunk
      /\ prefillBudget' = prefillBudget - chunk
      /\ seqBudget' = seqBudget - 1
      /\ seqBudget > 0 /\ chunk <= prefillBudget
  BY <1>1 DEF Take, Fits
<1> HIDE DEF p, chunk, need
<1>9. Planned' = Planned \cup {r} /\ running = Planned /\ running' = Planned'
  BY <1>2, <1>8 DEF Planned, SchedInv, BudgetInv
<1>10. r \notin Planned /\ r \notin schedPrefill
  BY <1>3, <1>9 DEF Planned
<1>11. \A q \in Planned : /\ q \in Seqs => /\ Needs[q] \in Int /\ Needs'[q] \in Int
                                           /\ Needs'[q] <= Needs[q]
  <2> SUFFICES ASSUME NEW q \in Planned
               PROVE  /\ Needs[q] \in Int /\ Needs'[q] \in Int /\ Needs'[q] <= Needs[q]
    OBVIOUS
  <2>1. q \in running /\ q # r
    BY <1>9, <1>10
  <2>2. q \in Seqs /\ Needs[q] = Need(q) /\ Need(q) \in Nat
    BY <2>1, NeedType DEF SchedInv, NeedTypeOK
  <2>3. Needs'[q] = Need(q)
    BY <1>2, <1>5, <2>1, <2>2 DEF Needs, Need, NextChunk
  <2> QED
    BY <2>2, <2>3
<1>12. Load(Needs', Planned) <= Load(Needs, Planned)
  BY <1>11, LoadMonotone
<1>13. Load(Needs', schedPrefill) <= Load(Needs, schedPrefill)
  BY <1>11, LoadMonotone DEF Planned
<1>14. /\ Load(Needs', Planned \cup {r}) = Load(Needs', Planned) + need
       /\ Load(Needs', schedPrefill \cup {r}) = Load(Needs', schedPrefill) + need
  BY <1>4, <1>6, <1>10, LoadAdd
<1>15. /\ Cardinality(Planned \cup {r}) = Cardinality(Planned) + 1
       /\ Cardinality(Planned) \in Nat
  BY <1>10, BudgetsType, SeqsFinite, FS_AddElement DEF SchedInv
<1>16. /\ tokenBudget \in Int /\ seqBudget \in Int /\ prefillBudget \in Int
       /\ Load(Needs, Planned) \in Nat /\ Load(Needs, schedPrefill) \in Nat
       /\ Load(Needs', Planned) \in Nat /\ Load(Needs', schedPrefill) \in Nat
  BY BudgetsType, ClaimsFinite DEF SchedInv
<1>17. /\ 0 <= seqBudget /\ 0 <= prefillBudget /\ prefillBudget <= tokenBudget
       /\ Cardinality(Planned) + seqBudget <= MaxNumSeqs
       /\ Load(Needs, Planned) + tokenBudget <= MaxNumBatchedTokens
       /\ Load(Needs, schedPrefill) + prefillBudget <= MaxNumPrefillTokens
  BY <1>2 DEF SchedInv, BudgetInv
<1>18. /\ Load(Needs, Planned)' = Load(Needs', Planned) + need
       /\ Load(Needs, schedPrefill)' = Load(Needs', schedPrefill) + need
       /\ Load(Needs, running)' = Load(Needs, Planned)'
  BY <1>8, <1>9, <1>14 DEF Load, Claims
<1>19. /\ 0 <= seqBudget' /\ 0 <= prefillBudget' /\ prefillBudget' <= tokenBudget'
       /\ Cardinality(Planned \cup {r}) + seqBudget' <= MaxNumSeqs
       /\ Load(Needs, Planned)' + tokenBudget' <= MaxNumBatchedTokens
       /\ Load(Needs, schedPrefill)' + prefillBudget' <= MaxNumPrefillTokens
  <2>1. Load(Needs, Planned)' <= Load(Needs, Planned) + chunk
    BY <1>4, <1>12, <1>16, <1>18
  <2>2. Load(Needs, schedPrefill)' <= Load(Needs, schedPrefill) + chunk
    BY <1>4, <1>13, <1>16, <1>18
  <2>3. Load(Needs, Planned)' \in Nat /\ Load(Needs, schedPrefill)' \in Nat
    BY <1>4, <1>16, <1>18
  <2>4. /\ Load(Needs, Planned)' + tokenBudget' <= MaxNumBatchedTokens
        /\ Load(Needs, schedPrefill)' + prefillBudget' <= MaxNumPrefillTokens
    <3>1. /\ Load(Needs, Planned)' + (tokenBudget - chunk) <= MaxNumBatchedTokens
          /\ Load(Needs, schedPrefill)' + (prefillBudget - chunk) <= MaxNumPrefillTokens
      <4> DEFINE all == Load(Needs, Planned)
                 pre == Load(Needs, schedPrefill)
                 newAll == Load(Needs, Planned)'
                 newPre == Load(Needs, schedPrefill)'
      <4>1. /\ all \in Int /\ newAll \in Int /\ newAll <= all + chunk
            /\ all + tokenBudget <= MaxNumBatchedTokens
        BY <1>16, <1>17, <2>1, <2>3
      <4>2. /\ pre \in Int /\ newPre \in Int /\ newPre <= pre + chunk
            /\ pre + prefillBudget <= MaxNumPrefillTokens
        BY <1>16, <1>17, <2>2, <2>3
      <4> HIDE DEF all, pre, newAll, newPre
      <4>3. /\ newAll + (tokenBudget - chunk) <= MaxNumBatchedTokens
            /\ newPre + (prefillBudget - chunk) <= MaxNumPrefillTokens
        BY <1>4, <1>16, <4>1, <4>2, LimitsType
      <4> QED
        BY <4>3 DEF newAll, newPre
    <3> QED
      BY <1>8, <3>1
  <2>5. Cardinality(Planned \cup {r}) + seqBudget' <= MaxNumSeqs
    <3>1. MaxNumSeqs \in Int /\ seqBudget' = seqBudget - 1
      BY <1>8, LimitsType
    <3> QED
      BY <1>15, <1>16, <1>17, <3>1
  <2> QED
    BY <1>4, <1>8, <1>16, <1>17, <2>4, <2>5
<1>20. BudgetInv'
  BY <1>2, <1>9, <1>19 DEF BudgetInv
<1>21. Prefilling' = schedPrefill'
  BY <1>9 DEF Planned, Prefilling, EngineInv, PlanConsistent
<1>22. LoadInv'
  <2>1. Load(Needs, Prefilling)' = Load(Needs, schedPrefill)'
    BY <1>21 DEF Load, Claims
  <2>2. /\ Load(Needs, Planned)' \in Nat /\ Load(Needs, schedPrefill)' \in Nat
        /\ seqBudget' \in Int /\ prefillBudget' \in Int /\ tokenBudget' \in Int
        /\ Cardinality(Planned \cup {r}) \in Nat
    BY <1>4, <1>8, <1>15, <1>16, <1>18
  <2>3. /\ Cardinality(Planned \cup {r}) <= MaxNumSeqs
        /\ Load(Needs, Planned)' <= MaxNumBatchedTokens
        /\ Load(Needs, schedPrefill)' <= MaxNumPrefillTokens
    <3> DEFINE all == Load(Needs, Planned)'
               pre == Load(Needs, schedPrefill)'
               seqs == Cardinality(Planned \cup {r})
    <3>1. /\ all \in Int /\ all + tokenBudget' <= MaxNumBatchedTokens
          /\ pre \in Int /\ pre + prefillBudget' <= MaxNumPrefillTokens
          /\ seqs \in Int /\ seqs + seqBudget' <= MaxNumSeqs
      BY <1>19, <2>2
    <3>2. /\ tokenBudget' \in Int /\ seqBudget' \in Int /\ prefillBudget' \in Int
          /\ 0 <= seqBudget' /\ 0 <= prefillBudget' /\ prefillBudget' <= tokenBudget'
      BY <1>19, <2>2
    <3> HIDE DEF all, pre, seqs
    <3>3. /\ MaxNumSeqs \in Int /\ MaxNumBatchedTokens \in Int
          /\ MaxNumPrefillTokens \in Int /\ 0 <= tokenBudget'
      BY <3>2, LimitsType
    <3>4. \A used \in Int, left \in Int, limit \in Int :
            used + left <= limit /\ 0 <= left => used <= limit
      OBVIOUS
    <3>5. all <= MaxNumBatchedTokens
      BY <3>1, <3>2, <3>3, <3>4
    <3>6. pre <= MaxNumPrefillTokens
      BY <3>1, <3>2, <3>3, <3>4
    <3>7. seqs <= MaxNumSeqs
      BY <3>1, <3>2, <3>3, <3>4
    <3> QED
      BY <3>5, <3>6, <3>7 DEF all, pre, seqs
  <2> QED
    BY <1>9, <1>18, <2>1, <2>3 DEF LoadInv
<1> QED
  BY <1>7, <1>20, <1>22

(* The forward pass: a chunk later no request needs more than before. *)
LEMMA ExecuteKeepsBudgets ==
  ASSUME SchedInv, EngineInv', Execute
  PROVE  CursorInv' /\ LoadInv' /\ BudgetInv'
<1> DEFINE completes == {r \in schedPrefill : PrefillEnd(r) = Len(prompt[r])}
<1>1. /\ status' = [r \in Seqs |-> IF r \in completes THEN "RUNNING" ELSE status[r]]
      /\ cursor' = [r \in Seqs |-> IF r \in schedPrefill THEN PrefillEnd(r)
                                   ELSE cursor[r]]
      /\ UNCHANGED <<running, prompt>>
      /\ Return
  BY DEF Execute, pools, request
<1>2. running \subseteq Seqs /\ \A r \in schedPrefill : status[r] = "PREFILL"
  BY BudgetsType DEF SchedInv
<1>3. ASSUME NEW r \in running
      PROVE  /\ Len(prompt[r]) \in Nat /\ cursor[r] \in Nat
             /\ PrefillEnd(r) = Smaller(cursor[r] + MaxPrefillChunkSize, Len(prompt[r]))
             /\ status[r] = "PREFILL" => cursor[r] < Len(prompt[r])
  <2>1. r \in Seqs /\ EngineInv /\ cursor \in [Seqs -> Nat]
    BY <1>2 DEF SchedInv, EngineInv, EngineTypeOK
  <2> QED
    BY <2>1, PoolsAreRequests DEF SchedInv, CursorInv, Prefilling, PrefillEnd
<1>4. ASSUME NEW r \in running, status'[r] = "PREFILL"
      PROVE  status[r] = "PREFILL" /\ cursor'[r] < Len(prompt[r]) /\ cursor'[r] \in Nat
             /\ cursor'[r] >= cursor[r]
  <2>1. r \notin completes /\ status[r] = "PREFILL" /\ r \in Seqs
    BY <1>1, <1>2, <1>4
  <2>2. CASE r \in schedPrefill
    BY <1>1, <1>3, <2>1, <2>2, LimitsType DEF Smaller
  <2>3. CASE r \notin schedPrefill
    BY <1>1, <1>3, <2>1, <2>3
  <2> QED
    BY <2>1, <2>2, <2>3
<1> HIDE DEF completes
<1>5. Prefilling' \subseteq Prefilling
  BY <1>1, <1>4 DEF Prefilling
<1>6. CursorInv'
  BY <1>1, <1>4 DEF CursorInv, Prefilling
<1>7. ASSUME NEW r \in running PROVE Need(r)' <= Need(r)
  <2>1. Need(r) \in Nat /\ 1 <= Need(r)
    BY NeedType DEF SchedInv, NeedTypeOK
  <2>2. CASE status'[r] = "PREFILL"
    <3>1. /\ Need(r)' = Smaller(Len(prompt[r]) - cursor'[r], MaxPrefillChunkSize)
          /\ Need(r) = Smaller(Len(prompt[r]) - cursor[r], MaxPrefillChunkSize)
      BY <1>1, <1>4, <2>2 DEF Need, NextChunk
    <3> QED
      BY <1>3, <1>4, <2>2, <3>1, LimitsType DEF Smaller
  <2>3. CASE status'[r] # "PREFILL"
    BY <2>1, <2>3 DEF Need
  <2> QED
    BY <2>2, <2>3
<1>8. LoadInv'
  <2>1. /\ EngineInv /\ CursorInv /\ LoadInv /\ running' \subseteq running
        /\ \A r \in running' : Need(r)' <= Need(r)
    BY <1>1, <1>7 DEF SchedInv
  <2> QED
    BY <1>5, <1>6, <2>1, LoadShrinks
<1>9. BudgetInv'
  BY <1>1 DEF BudgetInv, Return
<1> QED
  BY <1>6, <1>8, <1>9

LEMMA NextKeepsBudgets ==
  ASSUME SchedInv, EngineInv', [EngineNext]_engineVars
  PROVE  CursorInv' /\ LoadInv' /\ BudgetInv'
<1>1. CASE UNCHANGED engineVars
  BY <1>1, PlanKept DEF engineVars, pools, request, progress, budget, result
<1>2. ASSUME NEW p \in Prompts, NEW m \in MaxTokensValues, AddRequest(p, m)
      PROVE  CursorInv' /\ LoadInv' /\ BudgetInv'
  <2>1. /\ prompt' = [prompt EXCEPT ![added + 1] = p]
        /\ UNCHANGED <<running, status, cursor, tokenBudget, seqBudget, prefillBudget>>
        /\ pc' = "idle"
    BY <1>2 DEF AddRequest, progress, budget
  <2>2. \A r \in running : r \in 1 .. added
    BY DEF SchedInv, EngineInv, PoolsPartition
  <2>3. added + 1 \notin 1 .. added
    BY DEF SchedInv, EngineInv, EngineTypeOK
  <2>4. \A r \in running : prompt'[r] = prompt[r]
    BY <2>1, <2>2, <2>3 DEF SchedInv, EngineInv, EngineTypeOK
  <2> QED
    BY <2>1, <2>4, OutsidePlanKeeps
<1>3. ASSUME NEW r \in Seqs, Cancel(r) \/ TimeOut(r) \/ FinishGroup(r)
      PROVE  CursorInv' /\ LoadInv' /\ BudgetInv'
  <2>1. /\ \E how : EndSequence(r, how)
        /\ running' = running \ {r}
        /\ UNCHANGED <<prompt, cursor, tokenBudget, seqBudget, prefillBudget>>
        /\ pc' \in {"idle", "begin"}
    BY <1>3 DEF Cancel, TimeOut, FinishGroup, Scheduling, request, progress, budget
  <2>2. \A q \in running' : status'[q] = status[q]
    BY <2>1 DEF EndSequence, SchedInv, EngineInv, EngineTypeOK
  <2> QED
    BY <2>1, <2>2, OutsidePlanKeeps
<1>4. CASE StartStep \/ \E r \in Seqs : RaiseOOM(r)
  BY <1>4, OutsidePlanKeeps
     DEF StartStep, RaiseOOM, Return, pools, request, progress, budget
<1>5. CASE \/ StartAdmission
           \/ \E r \in Seqs : Ignore(r) \/ Reject(r) \/ EnsureBlock(r)
  BY <1>5, PlanKept
     DEF StartAdmission, Ignore, Reject, EnsureBlock, pools, request, progress,
         budget, result
<1> QED
  BY <1>1, <1>2, <1>3, <1>4, <1>5, PlanDecodeKeepsBudgets, ContinuePrefillKeepsBudgets,
     AdmitKeepsBudgets, ExecuteKeepsBudgets
     DEF EngineNext, Step, Prepare, Calls

LEMMA InitEstablishesSchedInv == EngineInit => SchedInv
<1> SUFFICES ASSUME EngineInit PROVE SchedInv
  OBVIOUS
<1>1. EngineInv /\ OutputInv
  BY InitEstablishesEngineInv, InitEstablishesOutputInv
<1>2. running = {} /\ Prefilling = {} /\ pc = "idle"
      /\ tokenBudget = 0 /\ seqBudget = 0 /\ prefillBudget = 0
  BY DEF EngineInit, Prefilling
<1>3. Load(Needs, {}) = 0 /\ Cardinality({}) = 0
  BY FS_EmptySet DEF Load, Claims
<1>4. CursorInv /\ LoadInv /\ BudgetInv
  BY <1>2, <1>3, LimitsType DEF CursorInv, LoadInv, BudgetInv
<1> QED
  BY <1>1, <1>4 DEF SchedInv

LEMMA NextKeepsSchedInv == SchedInv /\ [EngineNext]_engineVars => SchedInv'
<1> SUFFICES ASSUME SchedInv, [EngineNext]_engineVars PROVE SchedInv'
  OBVIOUS
<1>1. EngineInv'
  BY NextKeepsEngineInv DEF SchedInv
<1>2. OutputInv'
  BY <1>1, NextKeepsOutputInv DEF SchedInv
<1> QED
  BY <1>1, <1>2, NextKeepsBudgets DEF SchedInv

LEMMA SchedInvHolds == EngineSpec => []SchedInv
  BY InitEstablishesSchedInv, NextKeepsSchedInv, PTL DEF EngineSpec

(* A finished request has exactly the tokens it asked for, or one if it asked *)
(* for none.                                                                 *)
THEOREM EngineFinishedOutputComplete == EngineSpec => []FinishedOutputComplete
<1>1. SchedInv => FinishedOutputComplete
  <2> SUFFICES ASSUME SchedInv, NEW r \in Seqs
               PROVE  /\ status[r] = "FINISHED" /\ maxTokens[r] > 0 => gen[r] = maxTokens[r]
                      /\ gen[r] <= maxTokens[r] \/ (maxTokens[r] = 0 /\ gen[r] = 1)
    BY DEF FinishedOutputComplete
  <2> QED
    BY MaxTokensType DEF SchedInv, OutputInv
<1> QED
  BY <1>1, SchedInvHolds, PTL

(* No step takes on more tokens, prefill tokens or sequences than the *)
(* configuration allows.                                               *)
THEOREM EngineBudgetsNeverOverdrawn == EngineSpec => []BudgetsNeverOverdrawn
<1>1. SchedInv => BudgetsNeverOverdrawn
  BY BudgetsType DEF SchedInv, BudgetInv, BudgetsNeverOverdrawn
<1> QED
  BY <1>1, SchedInvHolds, PTL

(* A request that was let in is scheduled in every step. *)
THEOREM EngineRunningNeverIgnored == EngineSpec => []RunningNeverIgnored
<1>1. SchedInv => RunningNeverIgnored
  BY NextChunkFits DEF RunningNeverIgnored
<1> QED
  BY <1>1, SchedInvHolds, PTL

LEMMA ExecuteAdvances ==
  ASSUME SchedInv, Execute, NEW r \in running
  PROVE  \/ gen'[r] = gen[r] + 1
         \/ status'[r] = "PREFILL" /\ cursor'[r] = cursor[r] + MaxPrefillChunkSize
<1> DEFINE completes == {q \in schedPrefill : PrefillEnd(q) = Len(prompt[q])}
<1>1. /\ status' = [q \in Seqs |-> IF q \in completes THEN "RUNNING" ELSE status[q]]
      /\ gen' = [q \in Seqs |-> IF q \in completes THEN 1
                                ELSE IF q \in schedDecode THEN gen[q] + 1
                                ELSE gen[q]]
      /\ cursor' = [q \in Seqs |-> IF q \in schedPrefill THEN PrefillEnd(q)
                                   ELSE cursor[q]]
      /\ pc = "admit"
  BY DEF Execute, Executing
<1>2. r \in Seqs /\ (r \in schedDecode \/ r \in schedPrefill)
  BY <1>1, BudgetsType DEF SchedInv, BudgetInv, Planned
<1>3. CASE r \in schedDecode
  <2>1. r \notin completes
    BY <1>3, BudgetsType DEF SchedInv
  <2> QED
    BY <1>1, <1>2, <1>3, <2>1
<1>4. CASE r \in completes
  <2>1. gen[r] = 0
    BY <1>2, <1>4, BudgetsType DEF SchedInv, OutputInv
  <2> QED
    BY <1>1, <1>2, <1>4, <2>1
<1>5. CASE r \in schedPrefill /\ r \notin completes
  <2>1. PrefillEnd(r) = cursor[r] + MaxPrefillChunkSize
    BY <1>5 DEF PrefillEnd, Smaller
  <2>2. status[r] = "PREFILL"
    BY <1>5, BudgetsType DEF SchedInv
  <2> QED
    BY <1>1, <1>2, <1>5, <2>1, <2>2
<1> QED
  BY <1>2, <1>3, <1>4, <1>5

(* Every forward pass advances every request that runs. *)
THEOREM EngineEveryRunningAdvances == EngineSpec => EveryRunningAdvances
<1>1. SchedInv /\ [EngineNext]_engineVars =>
        [Execute => \A r \in running :
           \/ gen'[r] = gen[r] + 1
           \/ status'[r] = "PREFILL" /\ cursor'[r] = cursor[r] + MaxPrefillChunkSize]_engineVars
  BY ExecuteAdvances
<1> QED
  BY <1>1, SchedInvHolds, PTL DEF EngineSpec, EveryRunningAdvances

=============================================================================
