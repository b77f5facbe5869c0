------------------------------- MODULE FakeKV -------------------------------
(***************************************************************************)
(* The engine with FakeModelExecutor (executor/executor.py), the default.  *)
(* Its KV cache is a dict of lists: the allocator's callbacks create and   *)
(* delete a block's list, execute() appends a key and a value per token.   *)
(* A list does not know positions, so only the number of tokens in it      *)
(* matters.  Token values are left out.  Executors composes this with the  *)
(* engine's steps.                                                         *)
(***************************************************************************)
EXTENDS EngineCore

CONSTANT Absent   \* a block that is no key of _kv_cache

ASSUME AbsentAssumption == Absent \notin Nat

VARIABLES
  stored,    \* _kv_cache: the number of tokens in each block's list
  simState   \* the keys of _sim_state

fakeVars == <<stored, simState>>

FakeInit == stored = [b \in Blocks |-> Absent] /\ simState = {}

(* Mutant of Callbacks: the list of a block that is allocated again is    *)
(* kept.                                                                   *)
CallbacksKeepList ==
  /\ stored' = [b \in Blocks |-> IF stored[b] = Absent /\ ~ free'[b] THEN 0 ELSE stored[b]]
  /\ UNCHANGED simState

(* on_allocate and on_free, called for every block that leaves or enters   *)
(* the free list.  cleanup_sequence() does nothing.                        *)
Callbacks ==
  /\ stored' = [b \in Blocks |->
                  IF free[b] /\ ~ free'[b] THEN 0
                  ELSE IF ~ free[b] /\ free'[b] THEN Absent
                  ELSE stored[b]]
  /\ UNCHANGED simState

(* _simulate_kv_write() for every position of the step that falls into b. *)
AppendsTo(b) ==
  UNION {{<<r, pos>> : pos \in {p \in Due(r) : tables[r][p \div BlockSize + 1] = b}} :
           r \in schedPrefill \cup schedDecode}

(* Mutant of RunFake: a decode writes both the token it reads and its own. *)
RunFakeTwice ==
  /\ stored' = [b \in Blocks |->
                  IF AppendsTo(b) = {} THEN stored[b]
                  ELSE stored[b] + Cardinality(AppendsTo(b))
                         + Cardinality({t \in AppendsTo(b) : t[1] \in schedDecode})]
  /\ simState' = simState \cup {r \in Seqs : gen'[r] # gen[r]}

(* Mutant of RunFake: only a decode remembers its token. *)
RunFakeForgets ==
  /\ stored' = [b \in Blocks |->
                  IF AppendsTo(b) = {} THEN stored[b]
                  ELSE stored[b] + Cardinality(AppendsTo(b))]
  /\ simState' = simState \cup schedDecode

(* execute(): a write per token; a sequence that samples is remembered    *)
(* with its last token.                                                    *)
RunFake ==
  /\ stored' = [b \in Blocks |->
                  IF AppendsTo(b) = {} THEN stored[b]
                  ELSE stored[b] + Cardinality(AppendsTo(b))]
  /\ simState' = simState \cup {r \in Seqs : gen'[r] # gen[r]}

-----------------------------------------------------------------------------
(* Properties. *)

(* The executor has a list for exactly the blocks in use: no append meets  *)
(* a missing block, and no released block's tokens are seen by its next    *)
(* tenant.                                                                 *)
ListsMirrorAllocator ==
  \A b \in Blocks : stored[b] \in Nat <=> ~ free[b]

(* Without prefix caching each block's list has one entry for each         *)
(* position of its owner that has been computed: chunks, retries after     *)
(* OOM and reuse neither repeat nor skip a write.                          *)
ListsHoldWrittenPositions ==
  ~ EnablePrefixCaching =>
    \A r \in running : \A i \in DOMAIN tables[r] :
      stored[tables[r][i]] =
        Cardinality({p \in 0 .. KVLen(r) - 1 : p \div BlockSize + 1 = i})

(* A decode finds the last token of its sequence in _sim_state: the       *)
(* default of 42 is never used.                                            *)
DecodesKnowTheirToken == schedDecode \subseteq simState

=============================================================================
