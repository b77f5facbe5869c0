----------------------------- MODULE EngineCore -----------------------------
(***************************************************************************)
(* The engine loop: RequestQueue (sequence_group.py), Scheduler.schedule() *)
(* (scheduler.py), EngineCore.step(), cancel_request(), _check_timeouts()  *)
(* (engine_core.py) and LLMEngine (engine.py), on top of BlockManager.     *)
(*                                                                         *)
(* The engine is single-threaded: its caller interleaves add_request(),    *)
(* cancel_request() and step() in any order.  A step is a run of small     *)
(* actions, each with at most one call into BlockManager; `pc' says which  *)
(* loop of schedule() or step() is under way and `todo' the groups it has  *)
(* still to visit.  The step's locals are reset when it ends or raises.    *)
(* Where nothing happens between two loops they share a value of pc.       *)
(*                                                                         *)
(* A request, its SequenceGroup and its one Sequence are one thing here:   *)
(* its number.  Numbers are given in order of arrival, so the `waiting'    *)
(* dict iterates in the order of the numbers; `running' iterates in the    *)
(* order of admission, kept in `rank'.                                     *)
(***************************************************************************)
EXTENDS BlockManager

CONSTANTS
  MaxRequests,             \* bound: the number of requests ever added
  MaxTokensValues,         \* the values of max_new_tokens
  MaxNumSeqs,              \* Config.max_num_seqs
  MaxNumBatchedTokens,     \* Config.max_num_batched_tokens
  MaxNumPrefillTokens,     \* Config.max_num_prefill_tokens
  MaxPrefillChunkSize,     \* Config.max_prefill_chunk_size
  ChunkedPrefillEnabled,   \* Config.chunked_prefill_enabled
  StaticBatchMode          \* Config.static_batch_mode

(* The assertions of Config.__post_init__, and AdmissionControl's refusal *)
(* of an empty prompt.                                                     *)
ASSUME EngineAssumption ==
  /\ MaxRequests \in Nat
  /\ Seqs = 1 .. MaxRequests
  /\ MaxTokensValues \subseteq Nat
  /\ MaxNumSeqs \in Nat \ {0}
  /\ MaxNumBatchedTokens \in Nat \ {0}
  /\ MaxNumPrefillTokens \in Nat \ {0}
  /\ MaxPrefillChunkSize \in Nat \ {0}
  /\ ChunkedPrefillEnabled \in BOOLEAN
  /\ StaticBatchMode \in BOOLEAN
  /\ \A p \in Prompts : Len(p) > 0

(* BlockManager's bound on positions leaves room for every request. *)
ASSUME PositionsAssumption ==
  \A p \in Prompts, m \in MaxTokensValues \cup {0} : Len(p) + m <= MaxPosition

VARIABLES
  added,       \* LLMEngine._seq_group_count
  waiting,     \* the four pools of RequestQueue
  running,
  finished,
  rejected,
  prompt,      \* prompt_token_ids
  maxTokens,   \* sampling_params.max_tokens
  status,      \* Sequence.status; "NONE" before the sequence is created
  rank,        \* order of admission; 0 before it
  cursor,      \* Sequence.prefill_cursor
  gen,         \* num_generated_tokens, the length of output_token_ids
  outputs      \* the keys of LLMEngine._outputs

VARIABLES
  pc,              \* "idle" between steps; "begin": time-outs, phases 1 to 3;
                   \* "continue": phase 4; "admit": phase 5 and the execution
  todo,            \* the groups the current loop has still to visit
  tokenBudget,     \* remaining_token_budget
  seqBudget,       \* remaining_seq_budget
  prefillBudget,   \* prefill_budget
  schedPrefill,    \* ScheduleResult.scheduled_prefill_groups
  schedDecode,     \* ScheduleResult.scheduled_decode_groups
  finishedGroups   \* ScheduleResult.finished_groups

pools == <<waiting, running, finished, rejected>>
request == <<added, prompt, maxTokens>>
progress == <<cursor, gen>>
budget == <<tokenBudget, seqBudget, prefillBudget>>
result == <<schedPrefill, schedDecode, finishedGroups>>

engineVars == <<bmVars, pools, request, status, rank, progress, outputs,
                pc, todo, budget, result>>

Live == {"PREFILL", "RUNNING"}
Ended == {"FINISHED", "CANCELLED", "TIMEOUT"}

Oldest(r, S) == r \in S /\ \A q \in S : r <= q
FirstAdmitted(r, S) == r \in S /\ \A q \in S : rank[r] <= rank[q]

EngineInit ==
  /\ BMInit
  /\ added = 0
  /\ waiting = {} /\ running = {} /\ finished = {} /\ rejected = {}
  /\ prompt = [r \in Seqs |-> <<>>]
  /\ maxTokens = [r \in Seqs |-> 0]
  /\ status = [r \in Seqs |-> "NONE"]
  /\ rank = [r \in Seqs |-> 0]
  /\ cursor = [r \in Seqs |-> 0]
  /\ gen = [r \in Seqs |-> 0]
  /\ outputs = {}
  /\ pc = "idle" /\ todo = {}
  /\ tokenBudget = 0 /\ seqBudget = 0 /\ prefillBudget = 0
  /\ schedPrefill = {} /\ schedDecode = {} /\ finishedGroups = {}

(* The step is over: its locals are gone. *)
Return ==
  /\ pc' = "idle" /\ todo' = {}
  /\ tokenBudget' = 0 /\ seqBudget' = 0 /\ prefillBudget' = 0
  /\ schedPrefill' = {} /\ schedDecode' = {} /\ finishedGroups' = {}

-----------------------------------------------------------------------------
(* Calls between steps. *)

AddRequest(p, m) ==
  /\ pc = "idle" /\ added < MaxRequests
  /\ added' = added + 1
  /\ prompt' = [prompt EXCEPT ![added'] = p]
  /\ maxTokens' = [maxTokens EXCEPT ![added'] = m]
  /\ waiting' = waiting \cup {added'}
  /\ UNCHANGED <<bmVars, running, finished, rejected, status, rank, progress,
                 outputs, pc, todo, budget, result>>

(* Mutants of EndSequence: the blocks are not freed; the references are    *)
(* dropped but the table stays; an ended sequence is ended again.          *)
EndSequenceLeaks(r, how) ==
  IF status[r] \in Live
  THEN status' = [status EXCEPT ![r] = how] /\ UNCHANGED bmVars
  ELSE UNCHANGED <<status, bmVars>>

EndSequenceKeepsTable(r, how) ==
  IF status[r] \in Live
  THEN /\ status' = [status EXCEPT ![r] = how]
       /\ Free(tables[r]) /\ UNCHANGED <<tables, hashes, cache>>
  ELSE UNCHANGED <<status, bmVars>>

EndSequenceAgain(r, how) ==
  IF status[r] # "NONE"
  THEN status' = [status EXCEPT ![r] = how] /\ FreeSeq(r)
  ELSE UNCHANGED <<status, bmVars>>

(* A sequence that exists and has not ended gets its last status and gives *)
(* up its blocks; a group without one has nothing to end.                   *)
EndSequence(r, how) ==
  IF status[r] \in Live
  THEN status' = [status EXCEPT ![r] = how] /\ FreeSeq(r)
  ELSE UNCHANGED <<status, bmVars>>

(* Mutant of Cancel: a waiting request is not removed from its pool. *)
CancelLeavesWaiting(r) ==
  /\ pc = "idle" /\ r \in waiting \cup running \cup finished \cup rejected
  /\ EndSequence(r, "CANCELLED")
  /\ running' = running \ {r}
  /\ finished' = finished \cup {r}
  /\ UNCHANGED <<waiting, rejected, request, rank, progress, outputs, pc, todo,
                 budget, result>>

(* cancel_request(): any request ever added is found in some pool. *)
Cancel(r) ==
  /\ pc = "idle" /\ r \in waiting \cup running \cup finished \cup rejected
  /\ EndSequence(r, "CANCELLED")
  /\ running' = running \ {r}
  /\ waiting' = waiting \ {r}
  /\ finished' = finished \cup {r}
  /\ UNCHANGED <<rejected, request, rank, progress, outputs, pc, todo, budget, result>>

-----------------------------------------------------------------------------
(* _check_timeouts().  Arrival times grow with the request's number, so the *)
(* overdue requests are the unfinished ones up to some number; those that   *)
(* run are ended first.                                                     *)

StartStep ==
  /\ pc = "idle"
  /\ \E k \in 0 .. MaxRequests : todo' = {r \in waiting \cup running : r <= k}
  /\ pc' = "begin"
  /\ UNCHANGED <<bmVars, pools, request, status, rank, progress, outputs, budget, result>>

TimeOut(r) ==
  /\ pc = "begin"
  /\ \/ FirstAdmitted(r, todo \cap running)
     \/ todo \cap running = {} /\ Oldest(r, todo)
  /\ EndSequence(r, "TIMEOUT")
  /\ running' = running \ {r}
  /\ waiting' = waiting \ {r}
  /\ finished' = finished \cup {r}
  /\ todo' = todo \ {r}
  /\ UNCHANGED <<rejected, request, rank, progress, outputs, pc, budget, result>>

-----------------------------------------------------------------------------
(* Scheduler.schedule(). *)

Scheduling == pc = "begin" /\ todo = {}

(* Mutant of Complete: one token too many. *)
CompleteLate == {r \in running : gen[r] > maxTokens[r]}

Complete == {r \in running : gen[r] >= maxTokens[r]}

(* Phase 1, for one group that has all its tokens. *)
FinishGroup(r) ==
  /\ Scheduling /\ FirstAdmitted(r, Complete)
  /\ EndSequence(r, "FINISHED")
  /\ running' = running \ {r}
  /\ finished' = finished \cup {r}
  /\ finishedGroups' = finishedGroups \cup {r}
  /\ UNCHANGED <<waiting, rejected, request, rank, progress, outputs, pc, todo,
                 budget, schedPrefill, schedDecode>>

(* Mutant of PlanDecode: prefill groups are charged here and in phase 4. *)
PlanDecodeChargesAll ==
  /\ Scheduling /\ Complete = {}
  /\ schedDecode' = {r \in running : status[r] = "RUNNING"}
  /\ tokenBudget' = MaxNumBatchedTokens - Cardinality(schedDecode')
  /\ seqBudget' = MaxNumSeqs - Cardinality(running)
  /\ prefillBudget' = Smaller(tokenBudget', MaxNumPrefillTokens)
  /\ todo' = {r \in running : status[r] = "PREFILL"}
  /\ pc' = "continue"
  /\ UNCHANGED <<bmVars, pools, request, status, rank, progress, outputs,
                 schedPrefill, finishedGroups>>

(* Phases 2 and 3: decode groups are taken first, one token each. *)
PlanDecode ==
  /\ Scheduling /\ Complete = {}
  /\ schedDecode' = {r \in running : status[r] = "RUNNING"}
  /\ tokenBudget' = MaxNumBatchedTokens - Cardinality(schedDecode')
  /\ seqBudget' = MaxNumSeqs - Cardinality(schedDecode')
  /\ prefillBudget' = Smaller(tokenBudget', MaxNumPrefillTokens)
  /\ todo' = {r \in running : status[r] = "PREFILL"}
  /\ pc' = "continue"
  /\ UNCHANGED <<bmVars, pools, request, status, rank, progress, outputs,
                 schedPrefill, finishedGroups>>

(* The chunk a mid-prefill group needs, and gets when it is executed. *)
NextChunk(r) == Smaller(Len(prompt[r]) - cursor[r], MaxPrefillChunkSize)

Take(r, n) ==
  /\ schedPrefill' = schedPrefill \cup {r}
  /\ tokenBudget' = tokenBudget - n
  /\ prefillBudget' = prefillBudget - n
  /\ seqBudget' = seqBudget - 1

(* Mutants of Fits: no look at the sequences, or at the tokens; or one *)
(* token of the budget is never used.                                   *)
FitsTokens(n) == n <= prefillBudget
FitsSeqs(n) == seqBudget > 0
FitsStrictly(n) == seqBudget > 0 /\ n < prefillBudget

Fits(n) == seqBudget > 0 /\ n <= prefillBudget

(* Phase 4, for one group: scheduled, or ignored until the next step. *)
ContinuePrefill(r) ==
  /\ pc = "continue" /\ FirstAdmitted(r, todo)
  /\ todo' = todo \ {r}
  /\ IF Fits(NextChunk(r))
     THEN Take(r, NextChunk(r))
     ELSE UNCHANGED <<budget, schedPrefill>>
  /\ UNCHANGED <<bmVars, pools, request, status, rank, progress, outputs, pc,
                 schedDecode, finishedGroups>>

StartAdmission ==
  /\ pc = "continue" /\ todo = {}
  /\ todo' = IF StaticBatchMode /\ running # {} THEN {} ELSE waiting
  /\ pc' = "admit"
  /\ UNCHANGED <<bmVars, pools, request, status, rank, progress, outputs, budget, result>>

(* The tokens of the prompt p that a match of k blocks leaves to compute, *)
(* and the chunk its first step needs: all but the cached ones, or the    *)
(* end of the prompt once more when every token is cached.                *)
Uncached(p, k) == Len(p) - CachedTokens(p, k)

FirstChunk(p, k) ==
  IF Uncached(p, k) = 0 THEN Smaller(MaxPrefillChunkSize, Len(p))
  ELSE IF ChunkedPrefillEnabled THEN Smaller(Uncached(p, k), MaxPrefillChunkSize)
  ELSE Uncached(p, k)

(* Mutant of FirstCursor: the last cached block is computed again, also *)
(* when there is none.                                                   *)
FirstCursorBlockBack(p, k) == CachedTokens(p, k) - BlockSize

FirstCursor(p, k) ==
  IF Uncached(p, k) = 0 THEN Len(p) - FirstChunk(p, k) ELSE CachedTokens(p, k)

(* Phase 5, the next waiting group: ignored in this step ... *)
Ignore(r) ==
  /\ pc = "admit" /\ Oldest(r, todo)
  /\ \/ seqBudget <= 0
     \/ \E k \in 0 .. Len(prompt[r]) :
          /\ Matches(prompt[r], k)
          /\ FirstChunk(prompt[r], k) > prefillBudget
          /\ Uncached(prompt[r], k) <= MaxNumBatchedTokens
  /\ todo' = todo \ {r}
  /\ UNCHANGED <<bmVars, pools, request, status, rank, progress, outputs, pc,
                 budget, result>>

(* ... or rejected for good ... *)
Reject(r) ==
  /\ pc = "admit" /\ Oldest(r, todo)
  /\ seqBudget > 0
  /\ \E k \in 0 .. Len(prompt[r]) :
       /\ Matches(prompt[r], k)
       /\ FirstChunk(prompt[r], k) > prefillBudget
       /\ Uncached(prompt[r], k) > MaxNumBatchedTokens
  /\ waiting' = waiting \ {r}
  /\ rejected' = rejected \cup {r}
  /\ todo' = todo \ {r}
  /\ UNCHANGED <<bmVars, running, finished, request, status, rank, progress,
                 outputs, pc, budget, result>>

(* ... or admitted. *)
Admit(r) ==
  /\ pc = "admit" /\ Oldest(r, todo)
  /\ \E k \in 0 .. Len(prompt[r]) :
       /\ Matches(prompt[r], k)
       /\ Fits(FirstChunk(prompt[r], k))
       /\ Take(r, FirstChunk(prompt[r], k))
       /\ cursor' = [cursor EXCEPT ![r] = FirstCursor(prompt[r], k)]
  /\ AllocateForSeq(r, prompt[r])
  /\ status' = [status EXCEPT ![r] = "PREFILL"]
  /\ rank' = [rank EXCEPT ![r] = Cardinality({q \in Seqs : rank[q] > 0}) + 1]
  /\ waiting' = waiting \ {r}
  /\ running' = running \cup {r}
  /\ todo' = todo \ {r}
  /\ UNCHANGED <<finished, rejected, request, gen, outputs, pc, schedDecode,
                 finishedGroups>>

-----------------------------------------------------------------------------
(* EngineCore.step() after schedule(): blocks first, then the model. *)

Executing == pc = "admit" /\ todo = {}

(* The positions whose KV the step writes: a chunk of the prompt, or the *)
(* position of the last generated token.                                  *)
PrefillEnd(r) == Smaller(cursor[r] + MaxPrefillChunkSize, Len(prompt[r]))

(* Mutants of Due: a decode asks one position too far; only the end of a *)
(* chunk is asked for.                                                    *)
DueAhead(r) == IF r \in schedPrefill
               THEN cursor[r] .. PrefillEnd(r) - 1
               ELSE {Len(prompt[r]) + gen[r]}

DueEndOnly(r) == IF r \in schedPrefill
                 THEN {PrefillEnd(r) - 1}
                 ELSE {Len(prompt[r]) + gen[r] - 1}

Due(r) == IF r \in schedPrefill
          THEN cursor[r] .. PrefillEnd(r) - 1
          ELSE {Len(prompt[r]) + gen[r] - 1}

Uncovered(r) == {pos \in Due(r) : Missing(r, pos)}

(* The call of ensure_block() that comes next and finds its block missing: *)
(* prefill sequences first, each kind in the order of admission, and the   *)
(* positions of one sequence upwards.                                      *)
NextToEnsure(r, pos) ==
  /\ Executing
  /\ LET pending(S) == {q \in S : Uncovered(q) # {}}
     IN  \/ FirstAdmitted(r, pending(schedPrefill))
         \/ pending(schedPrefill) = {} /\ FirstAdmitted(r, pending(schedDecode))
  /\ Oldest(pos, Uncovered(r))

EnsureBlock(r) ==
  /\ \E pos \in Uncovered(r) :
       /\ NextToEnsure(r, pos)
       /\ \/ EnsureShared(r, pos, Len(prompt[r]))
          \/ EnsureFresh(r, pos, Len(prompt[r]))
  /\ UNCHANGED <<pools, request, status, rank, progress, outputs, pc, todo,
                 budget, result>>

(* RuntimeError("OOM") leaves step(): what it scheduled and what it found *)
(* finished are lost with its locals.                                     *)
RaiseOOM(r) ==
  /\ \E pos \in Uncovered(r) :
       NextToEnsure(r, pos) /\ OutOfBlocks(r, pos, Len(prompt[r]))
  /\ Return
  /\ UNCHANGED <<bmVars, pools, request, status, rank, progress, outputs>>

(* One forward pass.  A prefill that reaches the end of its prompt samples *)
(* the first token; the cursor moves by a chunk; a decode adds a token.    *)
(* The step returns, and LLMEngine.step() captures the outputs of the      *)
(* groups that phase 1 found finished.                                     *)
Execute ==
  LET completes == {r \in schedPrefill : PrefillEnd(r) = Len(prompt[r])}
  IN  /\ Executing
      /\ \A r \in schedPrefill \cup schedDecode : Uncovered(r) = {}
      /\ status' = [r \in Seqs |-> IF r \in completes THEN "RUNNING" ELSE status[r]]
      /\ gen' = [r \in Seqs |-> IF r \in completes THEN 1
                                ELSE IF r \in schedDecode THEN gen[r] + 1
                                ELSE gen[r]]
      /\ cursor' = [r \in Seqs |-> IF r \in schedPrefill THEN PrefillEnd(r)
                                   ELSE cursor[r]]
      /\ outputs' = outputs \cup {r \in finishedGroups : status[r] = "FINISHED"}
      /\ Return
      /\ UNCHANGED <<bmVars, pools, request, rank>>

-----------------------------------------------------------------------------

(* Everything a step does before its forward pass. *)
Prepare ==
  \/ StartStep \/ PlanDecode \/ StartAdmission
  \/ \E r \in Seqs :
       \/ TimeOut(r) \/ FinishGroup(r) \/ ContinuePrefill(r)
       \/ Ignore(r) \/ Reject(r) \/ Admit(r)
       \/ EnsureBlock(r) \/ RaiseOOM(r)

Step == Prepare \/ Execute

Calls ==
  \/ \E p \in Prompts, m \in MaxTokensValues : AddRequest(p, m)
  \/ \E r \in Seqs : Cancel(r)

EngineNext == Step \/ Calls

EngineSpec == EngineInit /\ [][EngineNext]_engineVars

(* run_until_done() and the serving layer's loops call step() again and *)
(* again, and nothing can keep a step that has begun from going on.      *)
FairEngineSpec == EngineSpec /\ WF_engineVars(Step)

-----------------------------------------------------------------------------
(* Properties. *)

EngineTypeOK ==
  /\ BMTypeOK
  /\ added \in 0 .. MaxRequests
  /\ waiting \in SUBSET Seqs /\ running \in SUBSET Seqs
  /\ finished \in SUBSET Seqs /\ rejected \in SUBSET Seqs
  /\ prompt \in [Seqs -> Prompts \cup {<<>>}]
  /\ maxTokens \in [Seqs -> MaxTokensValues \cup {0}]
  /\ status \in [Seqs -> {"NONE"} \cup Live \cup Ended]
  /\ rank \in [Seqs -> Nat]
  /\ cursor \in [Seqs -> Nat] /\ gen \in [Seqs -> Nat]
  /\ outputs \in SUBSET Seqs
  /\ pc \in {"idle", "begin", "continue", "admit"}
  /\ todo \in SUBSET Seqs
  /\ tokenBudget \in Int /\ seqBudget \in Int /\ prefillBudget \in Int
  /\ schedPrefill \in SUBSET Seqs /\ schedDecode \in SUBSET Seqs
  /\ finishedGroups \in SUBSET Seqs

(* Every request added is in exactly one pool (a rejected one that is then *)
(* cancelled is in two), and its sequence is alive exactly while it runs.  *)
PoolsPartition ==
  /\ waiting \cup running \cup finished \cup rejected = 1 .. added
  /\ waiting \cap running = {}
  /\ (waiting \cup running) \cap (finished \cup rejected) = {}
  /\ \A r \in Seqs : r \in running <=> status[r] \in Live
  /\ \A r \in Seqs : r \notin running \cup (finished \ rejected) => status[r] = "NONE"

(* Blocks are held only by requests that run: whichever way a request ends *)
(* - with all its tokens, cancelled, timed out, between two steps or after *)
(* one that raised - nothing of it stays behind in the block manager.      *)
OnlyRunningHoldBlocks ==
  \A r \in Seqs : r \notin running => tables[r] = <<>> /\ hashes[r] = <<>>

(* The tokens of r whose KV has been written (or is shared). *)
KVLen(r) == IF status[r] = "PREFILL" THEN cursor[r] ELSE Len(prompt[r]) + gen[r] - 1

(* A table covers every position written so far and goes no further than   *)
(* the prompt and the token generated last, also after a step that raised  *)
(* OOM half-way: nothing is lost and nothing is allocated ahead of need.   *)
TablesFitSequences ==
  \A r \in running :
    /\ KVLen(r) <= Len(tables[r]) * BlockSize
    /\ Len(tables[r]) <= BlocksFor(Len(prompt[r]) + gen[r])

(* ensure_block() is never asked for a block beyond the next one of the    *)
(* table: its loop, which would give every block it adds the hash of the   *)
(* position asked for, runs once.                                          *)
BlocksAddedInOrder ==
  \A r \in Seqs : \A pos \in Uncovered(r) :
    NextToEnsure(r, pos) => pos \div BlockSize = Len(tables[r])

(* What a step takes on never exceeds max_num_batched_tokens,              *)
(* max_num_seqs and max_num_prefill_tokens, whatever was admitted before.  *)
BudgetsNeverOverdrawn ==
  tokenBudget >= 0 /\ seqBudget >= 0 /\ prefillBudget >= 0

(* A group that runs is never ignored: phase 4 always has room for the     *)
(* next chunk of every group that phase 5 let in.                          *)
RunningNeverIgnored ==
  pc = "continue" => \A r \in todo : FirstAdmitted(r, todo) => Fits(NextChunk(r))

(* So each forward pass advances every running request: a decode by one    *)
(* token, a prefill by its chunk, to its first token if that was the last. *)
EveryRunningAdvances ==
  [][Execute =>
       \A r \in running :
         \/ gen'[r] = gen[r] + 1
         \/ status'[r] = "PREFILL" /\ cursor'[r] = cursor[r] + MaxPrefillChunkSize]_engineVars

(* A finished request has exactly the tokens it asked for; but as the      *)
(* count is compared only before a step, one that asked for none has one.  *)
FinishedOutputComplete ==
  \A r \in Seqs :
    /\ status[r] = "FINISHED" /\ maxTokens[r] > 0 => gen[r] = maxTokens[r]
    /\ gen[r] <= maxTokens[r] \/ (maxTokens[r] = 0 /\ gen[r] = 1)

(* What has ended stays ended: no later step or call touches a finished   *)
(* request's tokens, status or (absent) blocks, or takes it out of its     *)
(* pool; and a rejected one is never admitted.                             *)
EndedStaysEnded ==
  [][\A r \in finished \cup rejected :
       /\ status'[r] = status[r] /\ gen'[r] = gen[r] /\ cursor'[r] = cursor[r]
       /\ tables'[r] = <<>>
       /\ r \in finished => r \in finished'
       /\ r \in rejected => r \in rejected']_engineVars

(* get_outputs() has the text of every request that finished. *)
FinishedOutputCaptured ==
  pc = "idle" => \A r \in Seqs : status[r] = "FINISHED" => r \in outputs

(* Every request added leaves the engine in the end. *)
EveryRequestEnds ==
  \A r \in Seqs : r \in waiting \cup running ~> r \in finished \cup rejected

=============================================================================
