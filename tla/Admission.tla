----------------------------- MODULE Admission -----------------------------
(***************************************************************************)
(* AdmissionControl (serving/admission_control.py) in front of the engine: *)
(* every request passes check() before add_request().  The check looks at  *)
(* the engine as it is now; nothing is set aside for what it lets in.      *)
(***************************************************************************)
EXTENDS EngineCore

CONSTANTS
  MaxModelLen,   \* Config.max_model_len
  MaxQueueLen    \* Config.max_queue_len

ASSUME AdmissionAssumption ==
  MaxModelLen \in Nat /\ MaxQueueLen \in Nat \ {0}

(* Mutant of NeededBlocks: what will be generated is forgotten. *)
PromptBlocks(p, m) == (Len(p) + BlockSize - 1) \div BlockSize

(* The blocks of the prompt and everything the request may generate. *)
NeededBlocks(p, m) == (Len(p) + m + BlockSize - 1) \div BlockSize

(* _block_watermark_pct = 0.2 *)
WatermarkBlocks == (NumBlocks * 20) \div 100

NumFree == Cardinality(FreeBlocks)

(* check(): the first failing test names the error. *)
Check(p, m) ==
  IF Len(p) = 0 \/ Len(p) > MaxModelLen THEN "PROMPT_TOO_LONG"
  ELSE IF Cardinality(waiting) >= MaxQueueLen THEN "QUEUE_OVERFLOW"
  ELSE IF NumFree - NeededBlocks(p, m) < WatermarkBlocks THEN "BLOCK_EXHAUSTED"
  ELSE "OK"

(* add_request() behind the gate. *)
GatedAdd(p, m) == Check(p, m) = "OK" /\ AddRequest(p, m)

-----------------------------------------------------------------------------
(* Properties. *)

(* The call of ensure_block() that would raise OOM for r. *)
RunsOut(r) ==
  \E pos \in Uncovered(r) : NextToEnsure(r, pos) /\ OutOfBlocks(r, pos, Len(prompt[r]))

(* A request that has the engine to itself - because it came alone or      *)
(* because the others have ended - is never out of blocks, however full    *)
(* the pool was when it was let in: the estimate of check() covers every   *)
(* position the request will ever write.                                   *)
LoneRequestFits ==
  \A r \in Seqs : waiting \cup running = {r} => ~ RunsOut(r)

=============================================================================
