# mini-vLLM in TLA+

A specification of the mini-vLLM continuous-batching lab (`mini_vllm/`,
`serving/`): the modules are translated from the Python source, TLC checks them
on small instances, and TLAPS proves the main safety properties for every value
of the constants. `PROJECT.json` maps each definition to the lines it models and
lists runs, mutants, findings, hazards and theorems.

## 1. Inventory

The program is single-threaded. Its hard behaviours come from calls that
interleave *between* steps (add, cancel, time-out, several streams driving one
engine), from a step that raises half-way, and from state shared between
requests: KV blocks, budgets, the prefix cache.

| component (source) | state | operations | what makes it correct | modules |
|---|---|---|---|---|
| Block allocator (`cache/allocator.py`) | free list, reference counts | `allocate`, `free`, `increment_ref` | a block is free iff nobody refers to it | BlockAllocator |
| Block manager, block tables, prefix cache (`cache/manager.py`, `block_table.py`, `prefix_cache.py`) | a table and block hashes per sequence; hash -> block | `probe_prefix_cache`, `allocate_for_seq`, `ensure_block`, `ensure_block_by_ids`, `free` | counts = table entries; nothing lost, nothing handed out twice; a cached block holds what its hash says | BlockManager, BlockOwnership |
| Request queue, sequences (`sequence/`) | pools waiting, running, finished, rejected; status, prefill cursor, tokens | `add`, `mark_*`, `get_by_id` | every request in exactly one place, alive iff running | EngineCore |
| Scheduler (`scheduler/scheduler.py`) | none between steps; budgets and result within one | `schedule()`: six phases | budgets kept; admitted requests always advance; nobody starves | EngineCore |
| Engine core, LLM engine (`engine/engine_core.py`, `engine/engine.py`) | the output dictionary, the request counter | `add_request`, `cancel_request`, `step`, `run_until_done`, `_check_timeouts` | blocks given back however a request ends; consistent after OOM; outputs complete; every request ends | EngineCore |
| Input builder (`engine/input_builder.py`) | none | `build` | every computed position has its own slot; samples go to their sequence | InputBuilder |
| KV pool, cache read and write, runner (`cache/pool.py`, `cache_write.py`, `cache_read.py`, `model_runner/`, `executor/paged_executor.py`) | the contents of every slot | the forward pass | a position is read as the request's own prefix wrote it | PagedKV |
| Attention backends (`attention/`) | none | prefill, decode, cache write | causal attention over the sequence's own positions, the same in both | PagedAttention |
| Fake executor (`executor/executor.py`) | a list per block, the simulation state | `execute`, `prepare_block`, `release_block` | lists follow the allocator; each position written once | FakeKV |
| Qwen executor (`executor/qwen_executor.py`) | `past_key_values`, a list per block | `prefill`, `decode`, `cleanup_sequence` | the model is fed each position once, in order; its mask fits its cache | LegacyExecutor |
| Serving API, streams, cancellation (`serving/api_server.py`, `stream_manager.py`, `request_cancel.py`) | finished set, active streams, tracking ids | `generate`, `generate_stream`, `poll_stream`, `generate_stream_safe`, `_abort`, `cancel` | each stream sees its tokens in order; slots and requests given back | Serving |
| Admission control (`serving/admission_control.py`) | none | `check` | what is let in can be served | Admission |
| Rate limiter (`serving/rate_limiter.py`) | two sliding windows | `check`, `record` | limits respected, nobody refused without reason | RateLimiter |
| Metrics (`engine/metrics.py`) | counters, finished sequences | `record_step`, `register_sequence` | counters agree with what happened | Metrics |
| Stage profiler (`engine/stage_profiler.py`) | durations by stage | `record`, `record_raw`, `reset`, `report` | what it shows of the steps adds up whatever raised or reset it; when it hints | StageProfiler |
| Model layers, weights; endpoints, SSE text; benchmarks, scripts, tests | - | - | see section 6 | - |

Interaction: `LLMEngine.step()` calls `EngineCore.step()`, which times requests
out, calls `Scheduler.schedule()` (which probes and fills tables through the
block manager and moves groups between pools), then `ensure_block()` for every
position it will compute, then the input builder and the executor, and then
writes sampled tokens back. The block manager's allocator tells the executor of
every block by callback. The serving layer calls `add_request`, `step` and
`cancel_request` from any number of open streams, behind admission control and
the rate limiter. `PROJECT.json` lists the hazards line by line.

## 2. Modules

    BlockAllocator            free list and reference counts
      BlockManager            + block tables, hashes, prefix cache
        LegacyExecutor        + past_key_values and lists, prefill() and decode()
        EngineCore            + pools, scheduler, step, cancel, time-outs, OOM
          Metrics             + the collector's counters
          FakeKV              + the fake executor's lists (callbacks and execute())
          InputBuilder        + the packed batch, as operators
            PagedKV           + what each slot of the KV pool holds
              PagedAttention  + what each query attends to, in both backends
                Executors     PagedAttention and FakeKV under the same steps
          Admission           + the gate in front of add_request()
            Serving           + streams, polls, aborts, generate()
    BlockOwnership            abstract: which table entries hold which block
    RateLimiter, StageProfiler   on their own, with a clock

    MCBlockManager, MCEngineCore, MCMetrics, MCExecutors, MCPagedKV,
    MCServing, MCLegacyExecutor                 instances for TLC

    BlockManagerProofs        counts, ownership of blocks
      EngineCoreProofs        pools, ends, budgets, progress, outputs
        TablesProofs          tables; engine => block manager; enough blocks
          ServingProofs       (with Serving) streams, slots, admission
          KVProofs            (with Executors) KV contents, batches, attention
          MetricsProofs       (with Metrics and StageProfiler)
      LegacyProofs            (with LegacyExecutor)
    RateLimiterProofs         (with RateLimiter)

### BlockAllocator, BlockManager, BlockOwnership

`free` and `ref` are the allocator's two lists; `tables[s]` is the list of
physical blocks of sequence `s`, `hashes[s]` its precomputed block hashes,
`cache` the dictionary of `PrefixCache`. A token is abstract. The hash of a
block is the tuple of its own tokens, so that it depends on exactly what the
code hashes (this block's tokens, the last block possibly partial, nothing
before it); hash collisions are left out.

`AllocateForSeq` is `allocate_for_seq()`; `EnsureShared`, `EnsureFresh` and
`OutOfBlocks` are the three outcomes of one iteration of the loop in
`ensure_block()`; `FreeSeq` is `free()`. `Matches(p, k)` says that a probe of
prompt `p` finds its first `k` blocks; the code accepts an entry when the block
has a reference, and so does the model. On its own, `BMNext` allows any order of
these calls; `EngineCore` uses the same actions. A `promptLen` of 0 is
`ensure_block_by_ids()`, which does not look at the cache.

`BlockOwnership` is the promise without counts and lists: blocks have sets of
holders (table entries), and a content key has the block last *granted* under
it. A block is granted, and may become known under a key, only when nobody holds
it; a block that is held gains holders only when it is known (*share*); a
sequence *leaves* all its blocks at once. `BlockManager` implements it under the
mapping `holders[b] = References(b)`, `known = cache`.

### EngineCore

A request, its `SequenceGroup` and its single `Sequence` are one number, given
in order of arrival. `waiting`, `running`, `finished`, `rejected` are the pools
(the insertion order of `waiting` is the order of the numbers, that of `running`
is kept in `rank`); `status`, `cursor`, `gen` are the sequence's fields;
`outputs` is the key set of `LLMEngine._outputs`. A step is cut into small
actions, each with at most one call into the block manager:

| `pc` | actions | code |
|---|---|---|
| `idle` | `AddRequest`, `Cancel`, `StartStep` | calls between steps; which requests are overdue |
| `begin` | `TimeOut`, then `FinishGroup`, `PlanDecode` | `_check_timeouts()`, phases 1 to 3 |
| `continue` | `ContinuePrefill`, `StartAdmission` | phase 4, one mid-prefill group at a time |
| `admit` | `Ignore`, `Reject`, `Admit` | phase 5, one waiting group at a time |
| `admit` | `EnsureBlock` or `RaiseOOM`, then `Execute` | the rest of `step()`; back to `idle` |

`Return` resets the step's locals: `ScheduleResult` and budgets are gone after
the step, also when it raised. `Execute` is the forward pass as far as the
engine sees it: a decode and a completed prefill sample one token each, cursors
advance by a chunk, and `LLMEngine.step()` stores the finished texts. Token
values do not influence scheduling (there is no end-of-sequence token in this
code), so only their number is kept.

Time is not modelled: `StartStep` picks any prefix of the arrival order as
overdue, which covers every clock and every `request_timeout_s`.

`MaxPosition` bounds the positions asked of the block manager; `PositionsAssumption`
says that the engine's requests stay within it, so in the engine it cuts nothing
off.

### InputBuilder, PagedKV, PagedAttention

`InputBuilder` computes, from the state in which `step()` calls `build()`
(`Building`: the whole step is scheduled and its blocks are in place), the packed
rows, slots, padded block tables, sample indices and attention groups, then what
the consumers make of them: the runner's renumbered decode group, the executor's
list of sampled sequences and the engine's assignment of tokens (`AppliedTokens`).
A row is the pair of a sequence and a position. Three helpers say what the code's loops
over lists do, in a form that can be reasoned about: `InOrder(S, key)` (the members of a
set by increasing key: the order of the schedule), `Select(list, I)` (a comprehension's
`if`) and `StartOf(lengths, i)` (a running offset). The rows are joined by
`Lists!FlattenSeq`.

`PagedKV` adds one variable, `kv[b][o]`: the tokens that the last write to that
slot was computed from (`Context`), or `Nothing`. Greedy decoding makes generated
tokens a function of the prompt, so their number names them. `KVAfterWrite` is
the loop of `write_to_paged_cache()`: the last writer of a slot wins. Allocation
and release leave `kv` alone, as the paged executor's callbacks do.

`PagedAttention` follows one layer's query rows through the reference backend
(gather from the cache, causal mask by position) and through the Triton path
(prefix from the cache block by block, the chunk's own keys from the projections, decode by
walking the blocks, whole ones and the last). The result of a row is the sequence
of contents attended to; numerics are left out. `CacheWriteAccepted` is the
duplicate check of `triton_cache_write()`.

### FakeKV, Executors, LegacyExecutor

`FakeKV` keeps, per block, the length of the fake executor's list or `Absent`,
and the keys of `_sim_state`. `Callbacks` reads from `free` and `free'` which
blocks a call handed out or took back: the code's callbacks fire for exactly those.
`Executors` runs it and the paged executor under the same steps of the engine.

`LegacyExecutor` is `QwenExecutor.prefill()`/`decode()` with a caller of its own
(external: the engine calls `execute()` only, yet the class is complete and
documented). A call runs the model first and asks for blocks afterwards, one
position at a time (`calling`, `pending`), so OOM can stop it between the two. Two
history variables: `skipped`, the prompt tokens before a sequence's first chunk, which a
prefix hit lets the executor leave out, and `raised`, the sequences of which a call
raised.

### Admission, Serving

`Admission` is `check()` as an operator over the engine's state, and `GatedAdd`.
`Serving` is the layer around the *real* engine, not an abstraction of it.
`stage` is the place in a call (`free` between calls), `caller` its request,
`reply` what the last step returned. A poll is `Poll`, then the actions of the
engine's step (`InStep`), `StepReturns` or `StepRaises`, time-outs once more
(`ExpireAfterStep`), and one of `ReportFinished`, `DeliverToken`,
`DeliverNothing`; `generate()` is `Generate`, steps until the engine is empty
(`StepAgain`), `GenerateReturns` or `GenerateFails`. `Finally` is the `finally`
block of `generate_stream_safe()` with `_abort()` in it. Between calls any client
may do anything. A request's tracking id and engine id are its number. Two history
variables: `failed`, the requests whose `generate()` let an exception through, and
`missed`, those that a step of *somebody else's* call found finished.

### Metrics, RateLimiter, StageProfiler

`Metrics` records, next to every action of the engine, what `register_sequence()`
and `record_step()` were told; `start` is the cursor a request was admitted with, so that
`Computed` is the set of prompt positions computed. `RateLimiter` keeps its two counters
as sets of events (the time, the number of the request and, for tokens, which token of
it): the code stores one event per token and only ever counts and purges them. Each
counter call reads the clock by itself, so `Check` has two readings, `Record` one for the
request and one for each token, and the clock may move between any two. `refusal`,
`accepted` and `start` are history variables.

`StageProfiler` keeps the number and the sum of the durations of each stage, exactly, in
some unit of the clock (`Grain` of them are 0.01 ms), and rounds where `report()` does:
`TotalMs` to 0.01 ms, `Percent` to 0.1, a half to the even neighbour. `TopStage` sorts
by what was rounded, and leaves equals in the order of `report()` and of `_STAGES`, so
that a near-tie goes to the earlier stage. `RateLimiter` and `StageProfiler` do not touch
the engine's state and have modules of their own.


## 3. Runs

| run | instance | what it shows |
|---|---|---|
| `block_manager` | 2 sequences, 3 blocks of 2 tokens, positions 0..4, 4 prompts over 2 tokens | `RefCountsExact` under any calls; the refinement `ImplementsOwnership` |
| `engine_steps` | 3 requests, prompts of 1, 2, 4 tokens that share blocks, 2 sequences, budgets of 5 tokens and 4 for prefill, chunk 3, 9 blocks | pools, budgets, progress and registrations when blocks suffice |
| `engine_out_of_blocks` | 2 requests, 2 blocks, `max_tokens` 0, 1, 3 | the same engine when nearly every step can raise OOM: blocks, tables, tokens, counters; `BMSpec`: every engine step is a legal use of the block manager |
| `engine_whole_prompts` | chunked prefill off, static batches, prompts of 1, 3, 7 tokens, budget 6, chunk 2, 2 blocks | progress in the other mode; OOM; rejection |
| `engine_liveness` | fair steps, prompts of 1 and 3 tokens | `EveryRequestEnds` |
| `kv_private` | no prefix caching, 3 requests, prompts of 1, 2, 4 tokens, 3 blocks of 2, chunk 3 | KV contents, both attention backends, sampling and the fake executor's lists |
| `serving` | 2 requests of any kind of call, prompts of 1 and 2 tokens, `max_tokens` 1, 3, 6, 3 blocks, 2 slots, time-outs and `cancel()` | streams, slots, orphans, admission, `generate()`, and the end of polled streams under fairness |
| `rate_limiter` | window 3, limits 3 and 4, sizes 1 and 3, clock to 5 | both windows and the refusals, with the clock moving inside the calls |
| `profiler` | 2 steps, 2 resets, 8 durations kept at a time, one request waiting, the clock at 0, 2000 or 2001 units, 3 of which are 0.01 ms | what a hinted stage must show, near-ties by rounding included |
| `legacy` | 3 sequences, prompts of 1 and 6 tokens, 3 blocks of 3, chunk 2 | the legacy executor's lists, history and mask, also after prefix hits |
| `kv_stale_hit`, `lost_output` | see section 5 | two statements of the docs that the code does not keep |

Why the bounds are enough. Blocks of two tokens, chunks of three and prompts of
up to four make chunk ends, block ends and cursors fall apart in every way:
chunks that end inside a block, blocks shared in full or in part, a prompt whose
second block repeats its first, a prompt that is cached entirely and whose cursor
is put back. Three requests over two sequence slots give a waiting request while
one decodes and one is mid-prefill, or both are mid-prefill. Nine blocks are enough for all (so OOM does
not hide the other properties), two are never enough for two long requests; three
in `kv_private` let blocks change hands and steps raise. Two
requests are enough for `serving`'s hazards, which are between a stream and
*another* call: its step finishing, expiring or delivering to the first. The
sliding window is shorter than the clock, so events leave it, and one size is
larger than what is left of the token limit. The
profiler's readings differ by 2000 or by one unit, so that totals differ by less than
what `report()` shows, and percentages come to 100.0 without being whole; eight durations
are a step with each of its stages, and records left by an earlier step, a reset or the
calls between steps. Six tokens in blocks of three and chunks of two
give a sequence that hits one block two chunks more, the second of them with a past.

What is cut off, all by constants: `MaxRequests` (requests ever added; with `Seqs`, the
numbers they can have), `MaxTokensValues` (hence generated tokens), `Prompts`,
`MaxPosition` (positions asked of the block manager on its own), `MaxTime` (the rate
limiter's clock), `Sizes` (its requests), `Instants` (the profiler's clock readings),
`MaxRecords` (the durations it keeps at a time), `MaxSteps`, `MaxResets`, `MaxQueue` (its
steps, resets and requests waiting), `MaxGen` and `MaxPast` (tokens generated and the
length of `past_key_values` in `LegacyExecutor`). These bounds are part of the
specifications, so the theorems have them too, for every value.

The properties, and what would break them.

*Engine*

* `PoolsPartition`: every request in exactly one pool, alive iff running (a
  rejected request that is cancelled is, in the code too, in two pools).
* `OnlyRunningHoldBlocks`: no blocks or hashes after any of the four ends.
* `TablesFitSequences`: a table covers every position written and is never ahead
  of need, also after a step that raised in the middle.
* `BlocksAddedInOrder`: `ensure_block()` is never asked for more than one
  missing block; its loop would register the wrong hash if it were.
* `BudgetsNeverOverdrawn`, `RunningNeverIgnored`, `EveryRunningAdvances`: phase 4
  has a branch for a group that does not fit, but with these budgets it is never
  taken. A group admitted once always fits later, because every step starts from
  the full budget, decodes and chunks of running groups never need more than the
  step that admitted the last of them had, and a later chunk is never longer
  than the first.
* `FinishedOutputComplete`: a finished request has exactly the tokens it asked for
  (`max_tokens = 0` aside, which generates one: section 5).
* `EndedStaysEnded`: no call or step touches what has ended.
* `EveryRequestEnds`: each request added reaches `finished` or `rejected`.
* `EndedRegisteredOnce`, `PlannedIsComputed`, `QueueTimeOnce`: the metrics count each
  end once, the scheduled prefill tokens are the computed ones, and time in the
  queue is taken once, also across steps that raise.

*KV contents* (`~ EnablePrefixCaching`; with caching, see `kv_stale_hit`)

* `KVIntact`: every position a running request has computed still holds what that
  request's own prefix wrote, across chunks, OOM, other requests, reuse of blocks.
* `BlocksExclusive`: no block in two places of tables; `SlotsDistinct`: no
  duplicate slot in a batch, so the Triton write accepts it.
* `RefIsCausal`, `GPUIsCausal`: through tables, groups, masks and the two ways to
  read the chunk, each query attends to its own positions up to its own.
* `TokensGoToTheirSequences`: a sampled token goes to the sequence whose last
  row it was computed at.
* `ListsMirrorAllocator`, `ListsHoldWrittenPositions`, `DecodesKnowTheirToken`: the
  fake executor's lists, by callback and write, and its memory of last tokens.
* For the legacy executor also `PastIsHistory`: between calls the model's cache has each
  position from the first chunk on once, in order, also with prefix hits and shared
  blocks; and `MaskCoversPast`: the mask of a later chunk is as long as that and the
  chunk, and longer by exactly what a hit skipped. So mask and cache disagree after a hit
  and only then (section 5). Both set aside the sequences of which a call raised: the
  model was fed those tokens already and is fed them again. `decode()` passes no mask.

*Serving*

* `DeliveredInOrder`: whoever's step produced them, a stream's tokens come in order
  without gaps. (The *last* ones may be missing: section 5.)
* `SlotsMatchOpenStreams`, `NoOrphans`: the slots and the requests held when no call is
  under way are those of clients that still poll and those of the `generate()` calls that
  let an exception through, which nothing gives back (section 5). A stream that is closed
  and a `generate()` that returned leave neither.
* `GenerateReturnsText`: `generate()` shares the engine with streams and with what
  failed calls left behind and still returns its text.
* `LoneRequestFits`: the estimate of `check()` is enough for a request once it runs
  alone. (With others it is not: nothing is set aside, and steps raise.)
* `StreamsEnd`: a stream that is polled on is told its end, unless its request was found
  finished by a step of somebody else's call, was cancelled, was rejected by the
  scheduler, or timed out, in its own poll or another's (section 5).
* `RequestsPerWindow`, `OneRequestOver`, `RefusedOnlyWhenFull`: no window holds more
  requests than the limit; tokens exceed it by at most one request.
* `HintedStageFillsSteps`: after exceptions and half-done resets too, a stage inside the
  steps is hinted at only if the report shows it with 100.0 per cent and the very total
  of the steps: as the steps themselves are listed, have no text and are never smaller,
  a stage that takes 30 to 99.9 per cent is not pointed out (section 5).

**Fairness.** `FairEngineSpec` adds weak fairness of `Step` only:
`run_until_done()` and the stream loops call `step()` again and again, and a step
that has begun goes on until it returns or raises. Nothing makes callers add or
cancel. Since `StartStep` may always choose that no request is overdue,
`EveryRequestEnds` does not lean on time-outs. It holds for a first chunk that fits
the budgets and enough blocks; the finite number of requests means that
endless arrivals, under which a large request could be overtaken for ever, are
outside it (section 5).

`FairServingSpec` adds weak fairness of `InCall` (the thread runs a call to its end)
and of `Poll(r)` for each stream (`generate_stream_safe()` is a loop over
`poll_stream()`; a client iterates it, or closes it). Nothing makes clients close,
cancel or call.

`serving`, `rate_limiter`, `profiler` and `legacy` switch the deadlock check off:
when the last request is served, or the clock, the steps or the positions are at
their bound, nobody need do anything. In the other runs a step can always be
started.

## 4. Proofs

All theorems are for any number of requests, sequences and blocks, any prompts, block
size and configuration. They rest on the named assumptions `NumBlocksAssumption`,
`BlockManagerAssumption`, `MaxPositionAssumption`, `EngineAssumption`,
`PositionsAssumption`, `AdmissionAssumption`, `ServingAssumption`, `AbsentAssumption`,
`LegacyAssumption`, `RateAssumption` and `ProfilerAssumption`: sizes and limits positive
as `Config.__post_init__` asserts, clock readings natural numbers, prompts not empty as `AdmissionControl.check()` demands,
the bound on positions no smaller than what a request can reach, and a missing
dictionary key is neither a number nor a list. Each safety property and action property
of a passing run is stated by a theorem.

### Blocks: BlockManagerProofs

`BMTypeCorrect` and `BMRefCountsExact`. The inductive invariant `BMInv` is types, exact
counts, `FreeIffUnreferenced` (the allocator's own `check_invariants()`) and finiteness
of the reference sets, without which a cardinality says nothing. The pivot is
`ReplaceTable` / `CountsFollowTable`: when one sequence's table is replaced, the
references to a block change by the difference of its occurrences in the two tables.
Each operation is then one lemma: `allocate_for_seq` adds the occurrences of the shared
prefix (a block may occur twice in it), `ensure_block` adds one, `free` removes those of
the table.

`BMImplementsOwnership` is the refinement, step by step under
`holders[b] = References(b)`; `BMBlocksExclusive`: without caching a table is only ever
extended by a free block, and by `BMInv` no table mentions a free block.

### Engine: EngineCoreProofs, TablesProofs

`EngineTypeCorrect`, `EnginePoolsPartition`, `EngineReleasesBlocks`,
`EngineRefCountsExact` and `EngineEndedStaysEnded`. The inductive invariant `EngineInv`
adds to the stated properties `PlanConsistent` (the groups a step has still to visit are
in the pool the loop walks over, and what it scheduled still runs; without it `Admit`
could revive a request that has ended) and `PromptsKnown` (an added request has one of
the prompts). There is one lemma per action; the ways to end a request share
`RetireKeeps`, the actions that leave blocks and pools alone share `PlanningKeeps`.

`EngineFinishedOutputComplete`, `EngineBudgetsNeverOverdrawn`,
`EngineRunningNeverIgnored`, `EngineEveryRunningAdvances`. That a running request always
fits is an argument about *sums* over the running requests. So a sum is the cardinality
of a set of *claims*: a request owns one pair `<<r, i>>` per token it may take in a
step, and the load of the engine is the number of claims. `SchedInv` adds to
`EngineInv` the inductive facts: tokens and cursors per status (`OutputInv`,
`CursorInv`), the load of all running requests fits the budgets (`LoadInv`: admission is
the only action that adds claims and it checks the budget, and a claim never grows), and
what is left of a step's budget covers the claims of the requests it has still to visit
(`BudgetInv`). A request that does not fit would need more claims than there are.

`EngineTablesFitSequences` and `EngineBlocksAddedInOrder` follow from `TablesInv` (a
table covers what is written, and no more than the positions due in this step, up to the
next one to ensure). `EngineImplementsBlockManager`: each action of the engine is an
action of `BlockManager` or leaves its variables alone, where the positions asked of
`ensure_block()` must be shown to be within reach; hence `EngineImplementsOwnership` and
`EngineBlocksExclusive` by composing refinements.

`EngineNeverRaises` and `EngineOutputsCaptured` say when the loss that `lost_output`
shows cannot happen. Their hypothesis `EnoughBlocks` is about the configuration: the pool
holds `max_num_seqs` tables of the largest request. Suppose a step needs a block and none
is free (`BlockLeft`). By exact counts every block is some place of some table; the
places of all running tables, less the one about to be filled, are fewer than the blocks:
a contradiction, also when blocks are shared. Without raises a group found finished is
in `outputs` when the step returns (`OutputsInv`).

### Serving: ServingProofs

`ServingDeliversInOrder`, `ServingSlotsMatchOpenStreams`, `ServingNoOrphans`,
`ServingGenerateReturnsText`. The serving layer needs little of the engine: `Drains` sums
it up (while no call adds one, no request enters the engine, none leaves `finished`, and
no token is taken back). On top, `ServingInv` has the place in the call (`CallInv`), what
slots and books mean (`StreamInv`: the slots are those of open streams, of failed calls and
of the `generate()` under way), the position each stream reads next (`DeliveryInv`),
and that the request of a `generate()` is in the engine, has its text in `outputs`, was
rejected or expired (`GenerateInv`).

`ServingLoneRequestFits`. Suppose a request alone in the engine is out of blocks. Then no
block is free, by exact counts each is in a table, and only this one holds any: its table
maps onto the pool, so it is at least as long as the pool is large. But `TablesInv`
bounds it by the need `check()` computed, which was no more than the pool, and it lacks
one block still.

The serving layer times requests out after a step as well, in a place where the engine on
its own never does, so its steps are not those of `EngineSpec` and the engine's theorems do not carry over by
themselves. `AdmissionInv` contains `TablesInv`, and `ExpireKeepsTables` shows that this
extra action keeps it. Hence `ServingKeepsEngineSound` (pools, blocks, counts, tables,
budgets, outputs), `ServingEveryRunningAdvances`, `ServingEndedStaysEnded`,
`ServingImplementsBlockManager` and, composed, `ServingImplementsOwnership`: the whole
stack implements the abstract ownership of blocks.

### KV contents and attention: KVProofs

`ExecutorsImplementEngine`: with both executors the engine takes the steps it takes
alone. `ExecutorsKVIntact`, `ExecutorsListsMirrorAllocator`, `ExecutorsListsHoldWritten`
and `ExecutorsDecodesKnowTheirToken` follow from `KVInv`, which adds exclusive ownership
to `TablesInv`: then a slot has one position (`SlotOfOne`), a step's writes go to due
positions only, each by its only writer, and whatever a call does to the tables it does
not touch the slots of positions already computed. For the fake executor's lists, the
positions of a step that fall into a block are counted by a set, `AppendsTo`, and the
length of a list is the number of its owner's written positions in the block.

`ExecutorsTokensGoToTheirSequences`, `ExecutorsSlotsDistinct`, `ExecutorsRefIsCausal`
and `ExecutorsGPUIsCausal` are about the batch of every forward pass. They need one more
inductive fact, `RanksInv` (no two admitted requests have the same rank, so that a set of
them has one order), and then a theory of packed lists, built up from the least-number
principle:

1. *Lists.* `InOrder` lists every member of a set once (`InOrderType`); `Select` of a
   prefix is the prefix (`SelectPrefix`); `StartOf` is a sum that grows by each length
   (`StartOfStep`, `StartOfMonotone`), so that every index lies in exactly one part
   (`StartOfLocates`, `StartOfUnique`); a flattened list has the j-th entry of its i-th
   part at `StartOf(lengths, i) + j` (`FlattenType`).
2. *The batch.* Row `TokenOffset(i) + j` is the j-th position that the i-th sequence
   computes, and there is no other row (`BatchRows`, `PlaceInBatch`). Hence the slots of
   a batch are distinct when blocks are exclusive, and the row of each sample index is
   the last position of its sequence (`TokensReachSequences`): the k-th sample index and
   the k-th sampled sequence are selected by the same set of places.
3. *The backends' view.* The offsets that the backends sum up from the attention groups
   are the builder's (`OffsetsAgree`), so a row belongs to the prefill or decode whose
   it is (`RowCases`); a row of the padded tensor, with its padding removed, is the
   sequence's table (`TensorRow`).
4. *What is read.* A position read through the table is what the sequence's own prefix
   wrote, now or in an earlier step (`ReadThroughTable`). The reference backend gathers
   all of it and masks (`RefComputesCausal`). The GPU backend joins the cached prefix and
   the chunk's own keys, masked at `cached + j` (`GPUPrefillCausal`), or walks the blocks
   of a decode, all but the last of them whole: `WalkType` shows that the lengths it
   reads add up to the sequence, whatever it leaves over the block size
   (`GPUDecodeCausal`).

The last two, like `KVIntact`, are claimed for `~ EnablePrefixCaching` only; with caching
they are false (`kv_stale_hit`). `TokensGoToTheirSequences` is claimed for both.

### Legacy executor: LegacyProofs

`LegacyListsMirrorAllocator`, `LegacyRefCountsExact`, `LegacyPastIsHistory`,
`LegacyMaskCoversPast`. `LegacyInv`: a call in progress has the positions before its
target to visit in a row, and the table has the blocks of those it has visited
(`CallInv`); a table covers what is computed (`CoverInv`); and the model's cache of a
sequence for which no call raised is the positions from `skipped` to what it has
computed, or is about to have (`HistoryInv`). That a chunk's start is the cursor whenever
there is a past is part of it: only before the first chunk can the cursor be at the end
of the prompt. `RangeOfPositions` joins what was fed and what is fed next.

### Rate limiter, metrics, profiler: RateLimiterProofs, MetricsProofs

`RateRequestsPerWindow`, `RateOneRequestOver`, `RateRefusedOnlyWhenFull`. `RateInv` says
that a counter holds only what was recorded and at least what is not yet old
(`CountersKept`: it may be purged at any time, or not), and that between `check()` and
`record()` there is room, however the clock moves (`RoomWhenAsked`: a later window holds
no more of what was recorded before). A window that ends before the last record is one
of an earlier state; one that ends at it lies in what `check()` counted, and the request
itself.

`MetricsImplementEngine`: the collector only watches. `MetricsQueueTimeOnce` from
`QueueInv` (the requests ever admitted are those whose time was recorded and those this
step takes on, which a raising step keeps as seen). `MetricsPlannedIsComputed` from
`TokensInv`, again by counting sets of positions: those the step under way is going to
compute and those computed. Its hypothesis `PromptsInChunks` is that chunked prefill is
on, or no prompt is longer than a chunk (section 5). `MetricsRegisterOnce` is under the
hypothesis that no step raises after it found a group finished (`RaisesLoseNothing`),
which `MetricsRegisterOnceEnough` derives from `EnoughBlocks`; without it the property
is false, for the reason `lost_output` shows.

`ProfilerHintedStageFillsSteps`: `NestInv` says that no stage inside the steps has taken
longer than the steps, what is still open included. An exception closes what is open at
once, so it keeps this; a `reset()` that stops half-way removes the records of the stages
before the missing key, the total of the steps being last of all. The rest is about
`report()`. `RoundTo` is monotone (`RoundedOrdered`) and exact on whole numbers
(`RoundedWhole`), so that what is shown of a stage inside the steps is no more than what
is shown of the steps, whose percentage is 1000. The sort has a first element
(`TopIsLargest`), which is shown with at least what the steps are shown with; if it is
inside the steps, with exactly that. The theorem is for any set of clock readings, any
`Grain` and any of the bounds.

### Only model-checked

Liveness under fairness (`EveryRequestEnds`, `StreamsEnd`) is out of this prover's reach.
So are theorems that quantify over an operator, the library's induction theorems among
them: where an argument is by induction, as for the running sums and packed lists above,
it is made by hand, from a least counterexample (`NatMin`), and a recursive function is
first shown to exist. The two violation runs show what is not true. `RefIsCausal`
and `GPUIsCausal` are neither checked nor claimed with prefix caching on.

## 5. What the code does differently from its documentation

With a run that shows it:

* `kv_stale_hit`: a cache entry is accepted when its block has a reference, also
  when the block was freed and taken again for other tokens, though
  `docs/PrefixCache.md:468` and `docs/INTERVIEW_QA.md:458` say that stale entries
  are handled by that very check.
* `lost_output`: a group finished by phase 1 is named only in the step's result;
  if `ensure_block()` raises OOM later in the same step, its text never reaches
  `get_outputs()` (`engine.py:34`).

Met while modelling, visible in the definitions, without a run of their own:

* A prompt that does not fit what is left of this step's budget is rejected for
  good if it is also longer than `max_num_batched_tokens` (`scheduler.py:202`),
  though `docs/Design_Notes.md:136` says long prompts are not rejected but split. In
  an empty engine the same prompt is admitted.
* With `max_prefill_chunk_size > max_num_prefill_tokens` (no assertion of
  `config.py` excludes it) a long prompt is ignored in every step
  (`scheduler.py:201`).
* Phase 5 goes on past a request that does not fit (`scheduler.py:208`), so
  admission is not first come, first served (`docs/INTERVIEW_QA.md:251,602`,
  `docs/VLLM_Mapping.md:45`).
* Completion is tested before a step, so `max_tokens = 0` generates one token
  (`sampling_params.py:7`).
* A stream is given one token per poll and is closed by the step that finishes its
  request, so tokens it had not caught up with are never delivered
  (`api_server.py:206`; `docs/Serving_Production_Problems.md:226,246` say none is
  missed).
* A stream learns of its end from `finished_groups` of a step it made itself
  (`api_server.py:193`). If another call's step finds its request finished, or the
  request is cancelled, or it times out, in whoever's step or in `_check_timeouts()` of
  its own poll, no poll ever reports it: the loop of `generate_stream_safe()` goes on,
  and the slot stays taken, until the client leaves. `StreamsEnd` names these cases.
* A `generate(stream=True)` whose step raises keeps its slot for good
  (`api_server.py:127`), and any `generate()` that raises leaves its request in the
  engine, where other calls' steps go on with it. `SlotsMatchOpenStreams` and `NoOrphans`
  name both.
* After a prefix hit the legacy executor's mask of a later chunk counts the cached tokens, of which the
  model's own cache has nothing (`qwen_executor.py:365`), though the comment at line 357
  says that it covers existing and new tokens: it is longer than both together.
* The hint of the profiler has texts that say a stage "dominates" from 30 per cent on
  (`stage_profiler.py:223`), but it looks at the top of a list that contains
  `engine_step_total`, which has 100 per cent and no text. A stage inside the steps is
  hinted at only when it is shown with 100.0 per cent and the same total as the steps.
* The token limit is compared with what was recorded before, without the size of
  the request at hand (`rate_limiter.py:65`): `OneRequestOver` says what is left.
* `EndedRegisteredOnce` needs steps that do not raise after a finish: such a step
  never registers the sequence, for the reason of `lost_output`. It is checked
  where blocks suffice, and proved under just that hypothesis.
* With chunked prefill off, the scheduler charges and reports the whole uncached
  prompt, while the engine still computes at most `max_prefill_chunk_size` tokens of
  it per step: `PlannedIsComputed` is checked with chunked prefill on, and proved
  for configurations in which the two agree (`PromptsInChunks`).
* A second `reset()` of the profiler looks up keys that the first one removed and
  raises half-way (`stage_profiler.py`): `Reset` models it.

## 6. Not modelled

* Model layers, weight loading, model configuration: tensor code without state
  between calls. Of the attention kernels only what they read is modelled, not
  softmax, head grouping or floating point.
* How many blocks the pool gets from free GPU memory: arithmetic done once at
  construction. Workers: they construct the executor.
* Means, deviations and percentiles in `report()`: arithmetic on wall-clock floats.
* Endpoints and SSE formatting, tracing, printing, response objects, error texts.
* Benchmarks, examples, debugging and test-generation scripts.
* Hash collisions, and the values of tokens: nothing in the scheduler depends on
  them (there is no end-of-sequence token in this code).
* Wall-clock time in the engine: overdue requests are any prefix of the arrival
  order, which covers every clock and every `request_timeout_s`.
* `FakeModelExecutor.prefill()`/`decode()`, which nothing calls, and the shared flags
  of block-table entries, which only they read.

## 7. What could come next

The plan of this project is done. Further steps that would add something: a
version of the prefix cache that hashes the whole prefix and drops an entry with its
block, to show `KVIntact` for it with caching on; a stream that catches up before it
closes, to show full delivery; a reservation in admission control, to extend
`LoneRequestFits` to several requests.
