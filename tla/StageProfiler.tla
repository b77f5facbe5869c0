---------------------------- MODULE StageProfiler ----------------------------
(***************************************************************************)
(* StageProfiler (engine/stage_profiler.py) as EngineCore.step() and the   *)
(* block manager use it.  Stages nest: a step opens engine_step_total and  *)
(* inside it scheduler_step, executor_forward and metrics_update, while    *)
(* the block manager and the queue add durations of their own.  What the   *)
(* step does is left out: only when stages open, close, raise and record.  *)
(*                                                                         *)
(* Durations are counted in some unit of the clock, exactly; what report() *)
(* rounds - totals to 0.01 ms, percentages to 0.1 - is rounded here too.   *)
(***************************************************************************)
EXTENDS Integers, Sequences, FiniteSets

CONSTANTS
  Instants,    \* the readings of the clock that occur, which starts at 0
  Grain,       \* the clock's units in 0.01 ms
  MaxRecords,  \* bound on the durations that are kept at a time
  MaxSteps,    \* bound on the number of steps
  MaxResets,   \* bound on the calls of reset()
  MaxQueue     \* bound on the requests that wait at a time

ASSUME ProfilerAssumption ==
  /\ Instants \subseteq Nat
  /\ Grain \in Nat \ {0}
  /\ {MaxRecords, MaxSteps, MaxResets, MaxQueue} \subseteq Nat

(* _STAGES; the engine records none as "prefill" or "decode". *)
Stages == <<"request_queue_waiting", "scheduler_step", "kv_cache_allocation",
            "prefix_cache_lookup", "prefill", "decode", "executor_forward",
            "kv_cache_release", "metrics_update", "engine_step_total">>
StageNames == {Stages[i] : i \in DOMAIN Stages}

VARIABLES
  clock,
  at,        \* the place in step(): "idle", "timeouts", "schedule", "blocks",
             \* "forward", "after", "metrics"
  opened,    \* the start time in each open record(); -1 if it is not open
  records,   \* _records: the number and the sum of the durations, by key
  steps,     \* _total_engine_steps
  resets,    \* the number of calls of reset()
  queue      \* the arrival times of the requests that wait

vars == <<clock, at, opened, records, steps, resets, queue>>

NoRecords == [count |-> 0, total |-> 0]

Init ==
  /\ clock = 0 /\ at = "idle" /\ steps = 0 /\ resets = 0 /\ queue = <<>>
  /\ opened = [s \in StageNames |-> -1]
  /\ records = [s \in StageNames |-> NoRecords]

-----------------------------------------------------------------------------
(* The profiler's methods. *)

Of(recs, stage) == IF stage \in DOMAIN recs THEN recs[stage] ELSE NoRecords

(* _records.setdefault(stage, []).append(duration), for one of them. *)
Longer(stage, duration) ==
  [count |-> Of(records, stage).count + 1, total |-> Of(records, stage).total + duration]

Add(stage, duration) ==
  records' = [s \in DOMAIN records \cup {stage} |->
                IF s = stage THEN Longer(s, duration) ELSE records[s]]

Open(stage) == opened' = [opened EXCEPT ![stage] = clock]

(* The `finally' of each record() that is left: by the way, or by an *)
(* exception that goes through them all.                              *)
Close(stages) ==
  /\ records' = [s \in DOMAIN records \cup stages |->
                   IF s \in stages THEN Longer(s, clock - opened[s]) ELSE records[s]]
  /\ opened' = [s \in StageNames |-> IF s \in stages THEN -1 ELSE opened[s]]

(* record_raw() of an operation that takes a duration d. *)
RecordRaw(stage, d) == clock' = clock + d /\ Add(stage, d)

(* reset(): every stage is looked up, then all keys go.  A stage that has *)
(* no key, as after an earlier reset(), raises: those before it are clear, *)
(* nothing else is.                                                        *)
Reset ==
  /\ at = "idle" /\ resets < MaxResets /\ resets' = resets + 1
  /\ IF StageNames \subseteq DOMAIN records
     THEN records' = [s \in {} |-> NoRecords] /\ steps' = 0
     ELSE \E i \in DOMAIN Stages :
            /\ Stages[i] \notin DOMAIN records
            /\ \A j \in 1 .. i - 1 : Stages[j] \in DOMAIN records
            /\ records' = [s \in DOMAIN records |->
                             IF \E j \in 1 .. i - 1 : s = Stages[j] THEN NoRecords
                             ELSE records[s]]
            /\ UNCHANGED steps
  /\ UNCHANGED <<clock, at, opened, queue>>

-----------------------------------------------------------------------------
(* The engine. *)

Tick ==
  /\ clock' \in {t \in Instants : t > clock}
  /\ UNCHANGED <<at, opened, records, steps, resets, queue>>

Arrive ==
  /\ at = "idle" /\ Len(queue) < MaxQueue
  /\ queue' = Append(queue, clock)
  /\ UNCHANGED <<clock, at, opened, records, steps, resets>>

EnterStep ==
  /\ at = "idle" /\ steps < MaxSteps /\ at' = "timeouts"
  /\ Open("engine_step_total")
  /\ steps' = steps + 1
  /\ UNCHANGED <<clock, records, resets, queue>>

(* BlockManager.free(): for a request that is cancelled between two steps, *)
(* is overdue or has finished.                                             *)
Release(d) ==
  /\ at \in {"idle", "timeouts", "schedule"}
  /\ RecordRaw("kv_cache_release", d)
  /\ UNCHANGED <<at, opened, steps, resets, queue>>

EnterSchedule ==
  /\ at = "timeouts" /\ at' = "schedule"
  /\ Open("scheduler_step")
  /\ UNCHANGED <<clock, records, steps, resets, queue>>

Lookup(d) ==
  /\ at = "schedule" /\ RecordRaw("prefix_cache_lookup", d)
  /\ UNCHANGED <<at, opened, steps, resets, queue>>

LeaveSchedule ==
  /\ at = "schedule" /\ at' = "blocks"
  /\ Close({"scheduler_step"})
  /\ UNCHANGED <<clock, steps, resets, queue>>

(* The time in the queue of a request that was admitted. *)
Dequeue ==
  /\ at = "blocks" /\ queue # <<>>
  /\ Add("request_queue_waiting", clock - Head(queue))
  /\ queue' = Tail(queue)
  /\ UNCHANGED <<clock, at, opened, steps, resets>>

AllocateBlock(d) ==
  /\ at = "blocks" /\ RecordRaw("kv_cache_allocation", d)
  /\ UNCHANGED <<at, opened, steps, resets, queue>>

(* Mutant of Raise: the stages are left without their records. *)
RaiseUnrecorded ==
  /\ at \in {"blocks", "forward"} /\ at' = "idle"
  /\ opened' = [s \in StageNames |-> -1]
  /\ UNCHANGED <<clock, records, steps, resets, queue>>

(* OOM in ensure_block(), or an exception of the executor. *)
Raise ==
  /\ at \in {"blocks", "forward"} /\ at' = "idle"
  /\ Close({s \in StageNames : opened[s] >= 0})
  /\ UNCHANGED <<clock, steps, resets, queue>>

EnterForward ==
  /\ at = "blocks" /\ at' = "forward"
  /\ Open("executor_forward")
  /\ UNCHANGED <<clock, records, steps, resets, queue>>

LeaveForward ==
  /\ at = "forward" /\ at' = "after"
  /\ Close({"executor_forward"})
  /\ UNCHANGED <<clock, steps, resets, queue>>

(* With nothing scheduled there is no forward pass. *)
EnterMetrics ==
  /\ at \in {"blocks", "after"} /\ at' = "metrics"
  /\ Open("metrics_update")
  /\ UNCHANGED <<clock, records, steps, resets, queue>>

LeaveStep ==
  /\ at = "metrics" /\ at' = "idle"
  /\ Close({"metrics_update", "engine_step_total"})
  /\ UNCHANGED <<clock, steps, resets, queue>>

Durations == {t - clock : t \in {u \in Instants : u >= clock}}

Next ==
  \/ Tick \/ Arrive \/ Reset
  \/ EnterStep \/ EnterSchedule \/ LeaveSchedule \/ Dequeue \/ Raise
  \/ EnterForward \/ LeaveForward \/ EnterMetrics \/ LeaveStep
  \/ \E d \in Durations : Release(d) \/ Lookup(d) \/ AllocateBlock(d)

(* The sum of a number of each stage. *)
OverStages(n) ==
  LET sum[i \in 0 .. Len(Stages)] == IF i = 0 THEN 0 ELSE sum[i - 1] + n[Stages[i]]
  IN  sum[Len(Stages)]

Few == OverStages([s \in StageNames |-> Of(records', s).count]) <= MaxRecords

Spec == Init /\ [][Next /\ Few]_vars

-----------------------------------------------------------------------------
(* report() and _print_bottleneck_hint(). *)

Total(s) == Of(records, s).total

(* percent_of_total is relative to engine_step_total, or to everything when *)
(* no step has been recorded.                                               *)
Base ==
  IF Of(records, "engine_step_total").count > 0 THEN Total("engine_step_total")
  ELSE OverStages([s \in StageNames |-> Total(s)])

(* round() of n / d: a half goes to the even neighbour. *)
RoundTo(n, d) ==
  LET twice == 2 * (n % d)
  IN  IF twice > d \/ (twice = d /\ (n \div d) % 2 = 1)
      THEN (n \div d) + 1 ELSE n \div d

(* total_ms, in 0.01 ms, and percent_of_total, in 0.1. *)
TotalMs(s) == RoundTo(Total(s), Grain)
Percent(s) == IF Total(s) = 0 \/ Base = 0 THEN 0 ELSE RoundTo(1000 * Total(s), Base)

(* The places in _STAGES of the stages with a record. *)
Recorded == {i \in DOMAIN Stages : Of(records, Stages[i]).count > 0}

(* report() sorts by total_ms and the hint sorts that by percent_of_total, *)
(* both as rounded and both keeping the order of what they find equal.     *)
TopStage ==
  LET pct == [i \in Recorded |-> Percent(Stages[i])]
      ms == [i \in Recorded |-> TotalMs(Stages[i])]
      Precedes(i, j) ==
        \/ pct[i] > pct[j]
        \/ pct[i] = pct[j] /\ ms[i] > ms[j]
        \/ pct[i] = pct[j] /\ ms[i] = ms[j] /\ i < j
  IN  Stages[CHOOSE i \in Recorded : \A j \in Recorded \ {i} : Precedes(i, j)]

(* The hint is about the top stage, if there is a text for it. *)
Hint ==
  LET top == TopStage
  IN  IF Recorded = {} \/ Percent(top) < 300 \/ top = "engine_step_total" THEN "none"
      ELSE top

-----------------------------------------------------------------------------
(* Properties. *)

(* The stages of which every record falls inside a step. *)
InStep == {"scheduler_step", "kv_cache_allocation", "prefix_cache_lookup",
           "executor_forward", "metrics_update"}

(* A stage inside the steps "dominates" for the hint, which has its texts *)
(* for 30 per cent and more, only if report() shows it with 100.0 per cent *)
(* and the very total of engine_step_total: that one is listed with what   *)
(* it consists of, is never smaller and has no text, so a scheduler that   *)
(* takes most of every step is not pointed out.                            *)
HintedStageFillsSteps ==
  at = "idle" /\ Hint \in InStep =>
    Percent(Hint) = 1000 /\ TotalMs(Hint) = TotalMs("engine_step_total")

=============================================================================
