----------------------------- MODULE Executors -----------------------------
(***************************************************************************)
(* Both executors under the same steps of the engine: the paged one with   *)
(* its KV pool and attention backends, and the fake one with its lists.    *)
(* Each is told of every block by the allocator's callbacks and runs each  *)
(* step; they do not see each other, so what holds here of one holds of it *)
(* alone.                                                                  *)
(***************************************************************************)
EXTENDS PagedAttention, FakeKV

executorsVars == <<pagedVars, fakeVars>>

ExecutorsInit == PagedInit /\ FakeInit

ExecutorsNext ==
  \/ Execute /\ kv' = KVAfterWrite /\ RunFake
  \/ (Prepare \/ Calls) /\ UNCHANGED kv /\ Callbacks

ExecutorsSpec == ExecutorsInit /\ [][ExecutorsNext]_executorsVars

=============================================================================
