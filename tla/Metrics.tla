------------------------------ MODULE Metrics ------------------------------
(***************************************************************************)
(* The engine with MetricsCollector (engine/metrics.py) and the counters   *)
(* of StageProfiler: what record_step() and register_sequence() have seen, *)
(* next to what really happened.                                           *)
(*                                                                         *)
(* A step that raises never reaches record_step() and never registers the  *)
(* sequences it finished.                                                  *)
(***************************************************************************)
EXTENDS EngineCore

VARIABLES
  registered,   \* how often each sequence is in _finished_seqs
  plan,         \* the ScheduleResult's total_prefill_tokens so far
  prefilled,    \* the sum of _timeline_prefill
  seen,         \* the sequences whose first_scheduled_time is set
  queueTimes,   \* the profiler's _total_requests
  start         \* history: where the prefill of a sequence began

metrics == <<registered, prefilled, seen, queueTimes>>
metricsVars == <<engineVars, metrics, plan, start>>

MetricsInit ==
  /\ EngineInit
  /\ registered = [r \in Seqs |-> 0]
  /\ plan = 0 /\ prefilled = 0
  /\ seen = {} /\ queueTimes = 0
  /\ start = [r \in Seqs |-> 0]

-----------------------------------------------------------------------------
(* Ends outside schedule(). *)

(* Mutant of RegisterEnded: also a sequence that had ended before. *)
RegisterAlways(r) == registered' = [registered EXCEPT ![r] = @ + 1]

(* register_sequence() for a sequence that is ended now. *)
RegisterEnded(r) ==
  registered' = [registered EXCEPT ![r] = IF status[r] \in Live THEN @ + 1 ELSE @]

(* A time-out or a cancellation registers what it ends. *)
EndOutside(r) ==
  /\ TimeOut(r) \/ Cancel(r)
  /\ RegisterEnded(r)
  /\ UNCHANGED <<plan, prefilled, seen, queueTimes, start>>

-----------------------------------------------------------------------------
(* The token count of schedule(). *)

PlannedContinue(r) ==
  /\ ContinuePrefill(r)
  /\ plan' = plan + (IF Fits(NextChunk(r)) THEN NextChunk(r) ELSE 0)
  /\ UNCHANGED <<metrics, start>>

PlannedAdmit(r) ==
  /\ Admit(r)
  /\ \E k \in 0 .. Len(prompt[r]) :
       Matches(prompt[r], k) /\ plan' = plan + FirstChunk(prompt[r], k)
  /\ start' = [start EXCEPT ![r] = cursor'[r]]
  /\ UNCHANGED metrics

-----------------------------------------------------------------------------
(* The end of step(). *)

(* Mutant of NewlyScheduled: every chunk is a first one. *)
EveryScheduled == schedPrefill

(* The sequences scheduled for the first time: their time in the queue is  *)
(* recorded before any block is asked for.                                 *)
NewlyScheduled == schedPrefill \ seen

RecordWaiting ==
  /\ seen' = seen \cup schedPrefill
  /\ queueTimes' = queueTimes + Cardinality(NewlyScheduled)

RecordedExecute ==
  /\ Execute /\ RecordWaiting
  /\ registered' = [r \in Seqs |-> IF r \in finishedGroups THEN registered[r] + 1
                                   ELSE registered[r]]
  /\ prefilled' = prefilled + plan
  /\ plan' = 0
  /\ UNCHANGED start

(* Mutant of UnrecordedRaise: what was planned is kept for the next step. *)
RaiseKeepsPlan(r) ==
  /\ RaiseOOM(r) /\ RecordWaiting
  /\ UNCHANGED <<registered, plan, prefilled, start>>

(* A step that raises reaches neither record_step() nor register_sequence(). *)
UnrecordedRaise(r) ==
  /\ RaiseOOM(r) /\ RecordWaiting
  /\ plan' = 0
  /\ UNCHANGED <<registered, prefilled, start>>

Unmeasured == UNCHANGED <<metrics, plan, start>>

MetricsNext ==
  \/ RecordedExecute
  \/ (StartStep \/ PlanDecode \/ StartAdmission) /\ Unmeasured
  \/ \E p \in Prompts, m \in MaxTokensValues : AddRequest(p, m) /\ Unmeasured
  \/ \E r \in Seqs :
       \/ EndOutside(r)
       \/ PlannedContinue(r) \/ PlannedAdmit(r) \/ UnrecordedRaise(r)
       \/ (FinishGroup(r) \/ Ignore(r) \/ Reject(r) \/ EnsureBlock(r)) /\ Unmeasured

MetricsSpec == MetricsInit /\ [][MetricsNext]_metricsVars

-----------------------------------------------------------------------------
(* Properties. *)

(* Every sequence that ends is registered once: by the way it ended -      *)
(* finished, cancelled or timed out - and by no later call about it.       *)
EndedRegisteredOnce ==
  pc = "idle" => \A r \in Seqs : registered[r] = IF status[r] \in Ended THEN 1 ELSE 0

(* The positions of each sequence's prompt that the engine has computed. *)
Computed == UNION {{r} \X (start[r] .. cursor[r] - 1) : r \in Seqs}

(* The prefill tokens that the scheduler plans and reports are those that  *)
(* the engine computes: two places that work out a chunk agree, and what a *)
(* step that raised planned is neither computed nor reported.              *)
PlannedIsComputed == pc = "idle" => prefilled = Cardinality(Computed)

(* Each request's time in the queue is recorded once, at its first step,   *)
(* also if that step raises.                                               *)
QueueTimeOnce == pc = "idle" => queueTimes = Cardinality({r \in Seqs : rank[r] > 0})

=============================================================================
