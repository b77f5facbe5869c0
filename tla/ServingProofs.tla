---------------------------- MODULE ServingProofs ----------------------------
(***************************************************************************)
(* What the serving layer promises its clients, for any number of clients  *)
(* and any interleaving of their polls, disconnects, cancels, time-outs    *)
(* and failed steps: tokens come in order, slots and requests are held by  *)
(* open streams and by calls that raised only, and what admission control  *)
(* lets in fits the pool.                                                  *)
(***************************************************************************)
EXTENDS Serving, TablesProofs

ServingTypeOK ==
  /\ kind \in [Seqs -> {"none"} \cup Kinds]
  /\ open \in SUBSET Seqs /\ active \in SUBSET Seqs /\ done \in SUBSET Seqs
  /\ failed \in SUBSET Seqs
  /\ count \in [Seqs -> Nat] /\ got \in [Seqs -> Seq(Nat)]
  /\ stage \in {"free", "stepping", "replied", "raised"}

(* The engine is between two steps unless a call is stepping it; the call  *)
(* under way is that of a request added, and of an open stream when it is a *)
(* poll.                                                                    *)
CallInv ==
  /\ stage # "stepping" => pc = "idle"
  /\ stage # "free" => caller \in 1 .. added
  /\ stage # "free" /\ kind[caller] = "stream" => caller \in open
  /\ stage = "replied" => kind[caller] = "stream"
  /\ stage # "free" => kind[caller] # "none"
  /\ pc = "idle" => finishedGroups = {}
  /\ pc = "begin" /\ ~ RequestsExpire => todo = {}

(* Only streams are open and only calls of generate() fail; what is       *)
(* reported or taken down as finished has left the engine.                  *)
StreamInv ==
  /\ \A r \in Seqs : r \notin 1 .. added => kind[r] = "none"
  /\ \A r \in open : kind[r] = "stream"
  /\ \A r \in failed : kind[r] \in {"generate", "generateStream"}
  /\ done \subseteq finished /\ finishedGroups \subseteq finished
  /\ reply.finished \subseteq finished

(* The request whose generate() is under way. *)
Generating == IF stage # "free" /\ kind[caller] # "stream" THEN {caller} ELSE {}

(* Slots and room in the engine are taken by open streams, by failed calls *)
(* and by the generate() under way, which has not failed.                   *)
RoomInv ==
  /\ active = open \cup {r \in failed \cup Generating : kind[r] = "generateStream"}
  /\ waiting \cup running \subseteq open \cup failed \cup Generating
  /\ Generating \cap failed = {}

(* While a stream is open the position it will read next is the number of  *)
(* tokens its client got.                                                   *)
DeliveryInv ==
  /\ \A r \in Seqs : r \notin 1 .. added => count[r] = 0 /\ got[r] = <<>>
  /\ \A r \in Seqs : \A i \in 1 .. Len(got[r]) : got[r][i] = i
  /\ \A r \in Seqs : Len(got[r]) <= gen[r]
  /\ \A r \in open : count[r] = Len(got[r])

(* Where the request of a generate() that is stepping can be. *)
Accounted(r) ==
  \/ r \in waiting \cup running \cup rejected \cup outputs
  \/ RequestsExpire /\ r \in finished /\ status[r] # "FINISHED"
  \/ r \in finishedGroups /\ status[r] = "FINISHED"

GenerateInv == stage = "stepping" /\ kind[caller] # "stream" => Accounted(caller)

EngineSafe == EngineInv /\ OutputInv

ServingInv ==
  /\ EngineSafe
  /\ ServingTypeOK
  /\ CallInv
  /\ StreamInv
  /\ RoomInv
  /\ DeliveryInv
  /\ GenerateInv

LEMMA InitEstablishesServingInv == ServingInit => ServingInv
<1> SUFFICES ASSUME ServingInit PROVE ServingInv
  OBVIOUS
<1>1. EngineSafe
  BY InitEstablishesEngineInv, InitEstablishesOutputInv DEF ServingInit, EngineSafe
<1>2. ServingTypeOK
  BY DEF ServingInit, ServingTypeOK
<1>3. /\ gen = [r \in Seqs |-> 0] /\ pc = "idle" /\ finishedGroups = {} /\ finished = {}
      /\ waiting = {} /\ running = {}
  BY DEF ServingInit, EngineInit
<1>4. CallInv /\ GenerateInv
  BY <1>3 DEF ServingInit, CallInv, GenerateInv
<1>5. StreamInv /\ RoomInv
  BY <1>3 DEF ServingInit, StreamInv, RoomInv, Generating, NoReply
<1>6. DeliveryInv
  <2>1. \A r \in Seqs : got[r] = <<>> /\ count[r] = 0 /\ gen[r] = 0 /\ Len(got[r]) = 0
    BY <1>3 DEF ServingInit
  <2> QED
    BY <2>1 DEF ServingInit, DeliveryInv
<1> QED
  BY <1>1, <1>2, <1>4, <1>5, <1>6 DEF ServingInv

-----------------------------------------------------------------------------
(* What the engine does to the requests when no request is added. *)

(* Nothing enters the engine, nothing leaves the finished pool and no      *)
(* token is taken back.                                                     *)
Drains ==
  /\ waiting' \cup running' \subseteq waiting \cup running
  /\ finished \subseteq finished' /\ added' = added
  /\ \A r \in Seqs : gen[r] <= gen'[r]

LEMMA GenType == ASSUME EngineInv, NEW r \in Seqs PROVE gen[r] \in Nat
  BY DEF EngineInv, EngineTypeOK

LEMMA StepDrains ==
  ASSUME EngineSafe, Step
  PROVE  Drains /\ finishedGroups' \subseteq finishedGroups \cup finished'
<1>1. EngineInv
  BY DEF EngineSafe
<1>2. \A r \in Seqs : gen[r] \in Nat /\ gen[r] <= gen[r]
  BY <1>1, GenType
<1>3. CASE StartStep \/ PlanDecode \/ StartAdmission
  BY <1>2, <1>3
     DEF StartStep, PlanDecode, StartAdmission, pools, request, progress, result, Drains
<1>4. ASSUME NEW q \in Seqs, TimeOut(q) \/ FinishGroup(q)
      PROVE  Drains /\ finishedGroups' \subseteq finishedGroups \cup finished'
  BY <1>2, <1>4 DEF TimeOut, FinishGroup, progress, request, result, Drains
<1>5. ASSUME NEW q \in Seqs, ContinuePrefill(q) \/ Ignore(q) \/ Reject(q) \/ EnsureBlock(q)
      PROVE  Drains /\ finishedGroups' \subseteq finishedGroups \cup finished'
  BY <1>2, <1>5
     DEF ContinuePrefill, Ignore, Reject, EnsureBlock, pools, request, progress,
         result, Drains
<1>6. ASSUME NEW q \in Seqs, RaiseOOM(q)
      PROVE  Drains /\ finishedGroups' \subseteq finishedGroups \cup finished'
  BY <1>2, <1>6 DEF RaiseOOM, Return, pools, request, progress, Drains
<1>7. ASSUME NEW q \in Seqs, Admit(q)
      PROVE  Drains /\ finishedGroups' \subseteq finishedGroups \cup finished'
  <2>1. q \in waiting
    BY <1>1, <1>7 DEF Admit, Oldest, EngineInv, PlanConsistent
  <2>2. /\ waiting' = waiting \ {q} /\ running' = running \cup {q}
        /\ UNCHANGED <<finished, request, gen, finishedGroups>>
    BY <1>7 DEF Admit
  <2> QED
    BY <1>2, <2>1, <2>2 DEF Drains, request
<1>8. CASE Execute
  <2> DEFINE completes == {r \in schedPrefill : PrefillEnd(r) = Len(prompt[r])}
  <2>1. /\ gen' = [r \in Seqs |-> IF r \in completes THEN 1
                                  ELSE IF r \in schedDecode THEN gen[r] + 1
                                  ELSE gen[r]]
        /\ UNCHANGED <<waiting, running, finished, added>>
        /\ finishedGroups' = {}
    BY <1>8 DEF Execute, Return, pools, request
  <2>2. \A r \in completes : r \in Seqs => gen[r] = 0
    BY <1>1 DEF EngineSafe, OutputInv, EngineInv, PlanConsistent
  <2> HIDE DEF completes
  <2>3. \A r \in Seqs : gen[r] <= gen'[r]
    BY <1>2, <2>1, <2>2
  <2> QED
    BY <2>1, <2>3 DEF Drains
<1> QED
  BY <1>3, <1>4, <1>5, <1>6, <1>7, <1>8 DEF Step, Prepare

LEMMA EngineSafeKept ==
  ASSUME EngineSafe, [EngineNext]_engineVars
  PROVE  EngineSafe'
<1>1. EngineInv'
  BY NextKeepsEngineInv DEF EngineSafe
<1> QED
  BY <1>1, NextKeepsOutputInv DEF EngineSafe

LEMMA CancelDrains ==
  ASSUME EngineSafe, NEW r \in Seqs, Cancel(r)
  PROVE  /\ EngineSafe' /\ Drains
         /\ finished' = finished \cup {r} /\ r \notin waiting' \cup running'
         /\ UNCHANGED <<pc, todo, finishedGroups, gen>>
<1>1. EngineNext
  BY DEF EngineNext, Calls
<1>2. EngineSafe'
  BY <1>1, EngineSafeKept
<1>3. \A q \in Seqs : gen[q] \in Nat
  BY GenType DEF EngineSafe
<1>4. /\ waiting' = waiting \ {r} /\ running' = running \ {r}
      /\ finished' = finished \cup {r} /\ added' = added
      /\ UNCHANGED <<pc, todo, finishedGroups, gen>>
  BY DEF Cancel, request, progress, result
<1> QED
  BY <1>2, <1>3, <1>4 DEF Drains

(* The time-outs of poll_stream(), after the step: as RetireKeeps says. *)
LEMMA ExpireDrains ==
  ASSUME EngineSafe, pc = "idle", NEW r \in Seqs, ExpireAfterStep(r)
  PROVE  EngineSafe' /\ Drains
<1>1. /\ EndSequence(r, "TIMEOUT") /\ "TIMEOUT" \in Ended
      /\ r \in waiting \cup running
      /\ running' = running \ {r} /\ waiting' = waiting \ {r}
      /\ finished' = finished \cup {r} /\ rejected' = rejected
      /\ UNCHANGED <<request, rank, cursor, gen, outputs, pc, todo>>
      /\ UNCHANGED <<tokenBudget, seqBudget, prefillBudget>>
      /\ UNCHANGED <<schedPrefill, schedDecode, finishedGroups>>
  BY DEF ExpireAfterStep, Oldest, progress, budget, result, Ended
<1>2. EngineInv /\ OutputInv
  BY DEF EngineSafe
<1>3. /\ BMInv' /\ BMTypeOK' /\ PoolsPartition'
      /\ OnlyRunningHoldBlocks' /\ PromptsKnown'
      /\ status' \in [Seqs -> {"NONE"} \cup Live \cup Ended]
  BY <1>1, <1>2, RetireKeeps
<1>4. EngineTypeOK'
  BY <1>1, <1>2, <1>3 DEF EngineInv, EngineTypeOK, request
<1>5. PlanConsistent'
  BY <1>1, <1>2 DEF EngineInv, PlanConsistent
<1>6. EngineInv'
  BY <1>3, <1>4, <1>5 DEF EngineInv
<1>7. OutputInv'
  <2>1. status' = [status EXCEPT ![r] = "TIMEOUT"] \/ status' = status
    BY <1>1 DEF EndSequence
  <2>2. status \in [Seqs -> {"NONE"} \cup Live \cup Ended] /\ maxTokens' = maxTokens
    BY <1>1, <1>2 DEF EngineInv, EngineTypeOK, request
  <2> QED
    BY <1>1, <1>2, <2>1, <2>2 DEF OutputInv
<1>8. \A q \in Seqs : gen[q] \in Nat
  BY <1>2, GenType
<1> QED
  BY <1>1, <1>6, <1>7, <1>8 DEF EngineSafe, Drains, request

-----------------------------------------------------------------------------
(* An engine step, or a cancelled or expired request, under the streams. *)

LEMMA DrainsKeepsStreams ==
  ASSUME ServingInv, Drains, EngineSafe',
         finishedGroups' \subseteq finishedGroups \cup finished',
         reply'.finished \subseteq finished',
         UNCHANGED <<kind, open, active, done, count, got, failed>>,
         UNCHANGED Generating
  PROVE  StreamInv' /\ RoomInv' /\ DeliveryInv'
<1>1. StreamInv' /\ RoomInv'
  <2>1. StreamInv'
    BY DEF ServingInv, StreamInv, Drains
  <2>2. RoomInv'
    BY DEF ServingInv, RoomInv, Drains
  <2> QED
    BY <2>1, <2>2
<1>2. \A r \in Seqs : Len(got[r]) <= gen'[r]
  <2> SUFFICES ASSUME NEW r \in Seqs PROVE Len(got[r]) <= gen'[r]
    OBVIOUS
  <2>1. gen[r] \in Nat /\ gen'[r] \in Nat
    BY DEF ServingInv, EngineSafe, EngineInv, EngineTypeOK
  <2>2. Len(got[r]) \in Nat
    BY DEF ServingInv, ServingTypeOK
  <2>3. Len(got[r]) <= gen[r] /\ gen[r] <= gen'[r]
    BY DEF ServingInv, DeliveryInv, Drains
  <2> QED
    BY <2>1, <2>2, <2>3
<1>3. DeliveryInv'
  BY <1>2 DEF ServingInv, DeliveryInv, Drains
<1> QED
  BY <1>1, <1>3

(* A request of a generate() stays accounted for through a step. *)
LEMMA StepKeepsAccounted ==
  ASSUME EngineSafe, Step, NEW r \in Seqs, Accounted(r),
         pc = "begin" /\ ~ RequestsExpire => todo = {},
         finishedGroups \subseteq finished,
         ~ \E q \in Seqs : RaiseOOM(q)
  PROVE  Accounted(r)'
<1>1. EngineInv
  BY DEF EngineSafe
<1>2. status \in [Seqs -> {"NONE"} \cup Live \cup Ended]
  BY <1>1 DEF EngineInv, EngineTypeOK
<1>3. ASSUME r \in finished \cup rejected
      PROVE  status'[r] = status[r] /\ finished \subseteq finished' /\ rejected \subseteq rejected'
  BY <1>1, <1>3, EndedUntouched DEF EngineNext
<1>4. outputs \subseteq outputs'
  BY DEF Step, Prepare, StartStep, PlanDecode, StartAdmission, TimeOut, FinishGroup,
         ContinuePrefill, Ignore, Reject, Admit, EnsureBlock, RaiseOOM, Execute
<1>5. CASE r \in rejected \cup outputs
  BY <1>3, <1>4, <1>5 DEF Accounted
<1>6. CASE RequestsExpire /\ r \in finished /\ status[r] # "FINISHED"
  BY <1>3, <1>6 DEF Accounted
<1>7. CASE r \in finishedGroups /\ status[r] = "FINISHED"
  <2>1. status'[r] = status[r]
    BY <1>3, <1>7
  <2>2. CASE Execute
    <3>1. r \in outputs'
      BY <1>7, <2>2 DEF Execute
    <3> QED
      BY <3>1 DEF Accounted
  <2>3. CASE ~ Execute
    <3>1. finishedGroups \subseteq finishedGroups'
      BY <2>3 DEF Step, Prepare, StartStep, PlanDecode, StartAdmission, TimeOut,
                  FinishGroup, ContinuePrefill, Ignore, Reject, Admit, EnsureBlock,
                  result
    <3> QED
      BY <1>7, <2>1, <3>1 DEF Accounted
  <2> QED
    BY <2>2, <2>3
<1>8. CASE r \in waiting \cup running
  <2>1. CASE UNCHANGED <<waiting, running>>
    BY <1>8, <2>1 DEF Accounted
  <2>2. ASSUME NEW q \in Seqs, TimeOut(q)
        PROVE  Accounted(r)'
    <3>1. /\ q \in todo /\ pc = "begin" /\ EndSequence(q, "TIMEOUT")
          /\ waiting' = waiting \ {q} /\ running' = running \ {q}
          /\ finished' = finished \cup {q}
      BY <2>2 DEF TimeOut, Oldest, FirstAdmitted
    <3>2. CASE q # r
      BY <1>8, <3>1, <3>2 DEF Accounted
    <3>3. CASE q = r
      <4>1. status[r] \notin Live => status[r] = "NONE"
        BY <1>1, <1>8 DEF EngineInv, PoolsPartition
      <4>2. status'[r] \in {"TIMEOUT", "NONE"}
        BY <1>2, <3>1, <3>3, <4>1 DEF EndSequence
      <4> QED
        BY <3>1, <3>3, <4>2 DEF Accounted
    <3> QED
      BY <3>2, <3>3
  <2>3. ASSUME NEW q \in Seqs, FinishGroup(q)
        PROVE  Accounted(r)'
    <3>1. /\ q \in running /\ EndSequence(q, "FINISHED")
          /\ waiting' = waiting /\ running' = running \ {q}
          /\ finishedGroups' = finishedGroups \cup {q}
      BY <2>3 DEF FinishGroup, FirstAdmitted, Complete
    <3>2. CASE q # r
      BY <1>8, <3>1, <3>2 DEF Accounted
    <3>3. CASE q = r
      <4>1. status[r] \in Live
        BY <1>1, <3>1, <3>3 DEF EngineInv, PoolsPartition
      <4>2. status'[r] = "FINISHED"
        BY <1>2, <3>1, <3>3, <4>1 DEF EndSequence
      <4> QED
        BY <3>1, <3>3, <4>2 DEF Accounted
    <3> QED
      BY <3>2, <3>3
  <2>4. ASSUME NEW q \in Seqs, Reject(q)
        PROVE  Accounted(r)'
    <3>1. waiting' = waiting \ {q} /\ running' = running /\ rejected' = rejected \cup {q}
      BY <2>4 DEF Reject
    <3> QED
      BY <1>8, <3>1 DEF Accounted
  <2>5. ASSUME NEW q \in Seqs, Admit(q)
        PROVE  Accounted(r)'
    <3>1. waiting' = waiting \ {q} /\ running' = running \cup {q}
      BY <2>5 DEF Admit
    <3> QED
      BY <1>8, <3>1 DEF Accounted
  <2> QED
    BY <2>1, <2>2, <2>3, <2>4, <2>5
       DEF Step, Prepare, StartStep, PlanDecode, StartAdmission, ContinuePrefill,
           Ignore, EnsureBlock, Execute, pools
<1> QED
  BY <1>5, <1>6, <1>7, <1>8 DEF Accounted

LEMMA PcOfStep ==
  ASSUME Step
  PROVE  /\ StartStep => pc = "idle" /\ pc' = "begin"
         /\ pc = "idle" => StartStep
         /\ Execute => pc' = "idle" /\ finishedGroups' = {}
         /\ ~ StartStep /\ pc' = "begin" => pc = "begin" /\ todo' \subseteq todo
  BY DEF Step, Prepare, StartStep, PlanDecode, StartAdmission, TimeOut, FinishGroup,
         ContinuePrefill, Ignore, Reject, Admit, EnsureBlock, RaiseOOM, Execute,
         Scheduling, Executing, Return, NextToEnsure

-----------------------------------------------------------------------------
(* One lemma per group of actions. *)

(* A step of the engine changes nothing of a stream. *)
LEMMA StepKeepsStreams ==
  ASSUME ServingInv, Step, UNCHANGED <<kind, open, active, done, count, got, failed>>,
         UNCHANGED Generating,
         reply' = reply \/ reply'.finished \subseteq finishedGroups
  PROVE  EngineSafe' /\ StreamInv' /\ RoomInv' /\ DeliveryInv' /\ added' = added
<1>1. EngineSafe' /\ Drains /\ finishedGroups' \subseteq finishedGroups \cup finished'
  BY EngineSafeKept, StepDrains DEF ServingInv, EngineNext
<1>2. reply'.finished \subseteq finished'
  BY <1>1 DEF ServingInv, StreamInv, Drains
<1> QED
  BY <1>1, <1>2, DrainsKeepsStreams DEF Drains

LEMMA PollKeepsServingInv ==
  ASSUME ServingInv, NEW r \in Seqs, Poll(r)
  PROVE  ServingInv'
<1>1. /\ stage = "free" /\ r \in open /\ StartStep
      /\ todo' = {} \/ RequestsExpire
      /\ stage' = "stepping" /\ caller' = r
      /\ UNCHANGED <<kind, open, active, done, count, got, reply, failed>>
  BY DEF Poll, BeginStep, books, stream, history
<1>2. Step
  BY <1>1 DEF Step, Prepare
<1>3. kind[r] = "stream" /\ UNCHANGED Generating
  BY <1>1 DEF ServingInv, StreamInv, Generating
<1>4. EngineSafe' /\ StreamInv' /\ RoomInv' /\ DeliveryInv' /\ added' = added
  BY <1>1, <1>2, <1>3, StepKeepsStreams
<1>5. pc' = "begin"
  BY <1>1, <1>2, PcOfStep
<1>6. r \in 1 .. added
  BY <1>3 DEF ServingInv, StreamInv
<1>7. CallInv' /\ GenerateInv'
  BY <1>1, <1>3, <1>4, <1>5, <1>6 DEF CallInv, GenerateInv
<1> QED
  BY <1>1, <1>4, <1>7 DEF ServingInv, ServingTypeOK

(* The steps of a call under way. *)
LEMMA EngineStepKeepsServingInv ==
  ASSUME ServingInv, StepAgain \/ InStep \/ StepReturns \/ StepRaises
  PROVE  ServingInv'
<1>1. /\ stage = "stepping" /\ caller' = caller /\ Step
      /\ UNCHANGED <<kind, open, active, done, count, got, failed>>
      /\ UNCHANGED Generating
      /\ reply' = reply \/ reply'.finished \subseteq finishedGroups
  <2>1. /\ stage = "stepping" /\ caller' = caller /\ Step /\ stage' # "free"
        /\ UNCHANGED <<kind, open, active, done, count, got, failed>>
        /\ reply' = reply \/ reply'.finished \subseteq finishedGroups
    BY DEF StepAgain, InStep, StepReturns, StepRaises, BeginStep, Step, Prepare,
           books, stream, call, history
  <2> QED
    BY <2>1 DEF Generating
<1>2. EngineSafe' /\ StreamInv' /\ RoomInv' /\ DeliveryInv' /\ added' = added
  BY <1>1, StepKeepsStreams
<1>3. /\ stage' \in {"stepping", "replied", "raised"}
      /\ stage' # "stepping" => pc' = "idle"
      /\ stage' = "replied" => kind[caller] = "stream"
      /\ stage' = "stepping" => ~ \E q \in Seqs : RaiseOOM(q)
  <2>1. CASE StepAgain
    BY <1>1, <2>1 DEF StepAgain, BeginStep, StartStep, RaiseOOM, NextToEnsure, Executing, call
  <2>2. CASE InStep
    BY <1>1, <2>2 DEF InStep, RaiseOOM, Return, call
  <2>3. CASE StepReturns
    BY <1>1, <2>3 DEF StepReturns, Execute, RaiseOOM, NextToEnsure, FirstAdmitted, Oldest, Return
  <2>4. CASE StepRaises
    BY <2>4 DEF StepRaises, RaiseOOM, Return
  <2> QED
    BY <2>1, <2>2, <2>3, <2>4
<1>4. /\ pc' = "idle" => finishedGroups' = {}
      /\ pc' = "begin" /\ ~ RequestsExpire => todo' = {}
  <2>1. CASE StepAgain
    BY <2>1 DEF StepAgain, BeginStep, StartStep
  <2>2. CASE InStep
    <3>1. ~ StartStep
      BY <2>2 DEF InStep, StartStep
    <3> QED
      BY <1>1, <2>2, <3>1, PcOfStep DEF InStep, ServingInv, CallInv
  <2>3. CASE StepReturns \/ StepRaises
    BY <2>3 DEF StepReturns, StepRaises, Execute, RaiseOOM, Return
  <2> QED
    BY <2>1, <2>2, <2>3
<1>5. CallInv'
  BY <1>1, <1>2, <1>3, <1>4 DEF ServingInv, CallInv
<1>6. GenerateInv'
  <2> SUFFICES ASSUME stage' = "stepping", kind[caller] # "stream"
               PROVE  Accounted(caller)'
    BY <1>1 DEF GenerateInv
  <2>1. Accounted(caller) /\ caller \in Seqs
    BY <1>1, EngineAssumption
       DEF ServingInv, GenerateInv, CallInv, EngineSafe, EngineInv, EngineTypeOK
  <2>2. \A q \in Seqs : Accounted(q) => Accounted(q)'
    BY <1>1, <1>3, StepKeepsAccounted DEF ServingInv, CallInv, StreamInv
  <2> QED
    BY <1>1, <2>1, <2>2 DEF Accounted
<1> QED
  BY <1>1, <1>2, <1>3, <1>5, <1>6 DEF ServingInv, ServingTypeOK

(* A call that passes the gates. *)
LEMMA GatedKeepsServingInv ==
  ASSUME ServingInv, NEW p \in Prompts, NEW m \in MaxTokensValues,
         OpenStream(p, m) \/ Generate(p, m)
  PROVE  ServingInv'
<1> DEFINE n == added + 1
<1>1. PICK k \in Kinds :
        /\ stage = "free" /\ AddRequest(p, m)
        /\ kind' = [kind EXCEPT ![added'] = k]
        /\ active' = IF k = "generate" THEN active ELSE active \cup {added'}
        /\ UNCHANGED <<done, count, got, reply, failed>>
        /\ \/ k = "stream" /\ open' = open \cup {added'} /\ UNCHANGED <<stage, caller>>
           \/ k # "stream" /\ open' = open /\ stage' = "stepping" /\ caller' = added'
  BY "generate" # "stream", "generateStream" # "stream"
     DEF OpenStream, Generate, Gated, GatedAdd, history
<1>2. EngineSafe'
  BY <1>1, EngineSafeKept DEF ServingInv, EngineNext, Calls
<1>3. /\ added' = n /\ waiting' = waiting \cup {n} /\ pc = "idle"
      /\ UNCHANGED <<running, finished, gen, pc, finishedGroups>>
  BY <1>1 DEF AddRequest, progress, result
<1>4. n \in Seqs /\ n \notin 1 .. added /\ 1 .. n = (1 .. added) \cup {n}
  BY <1>1, EngineAssumption
     DEF AddRequest, ServingInv, EngineSafe, EngineInv, EngineTypeOK
<1> HIDE DEF n
<1>5. kind \in [Seqs -> {"none"} \cup Kinds] /\ kind[n] = "none"
  BY <1>4 DEF ServingInv, ServingTypeOK, StreamInv
<1>6. kind'[n] = k /\ \A r \in Seqs : r # n => kind'[r] = kind[r]
  BY <1>1, <1>3, <1>4, <1>5
<1>7. n \notin open /\ n \notin failed
  BY <1>5 DEF ServingInv, StreamInv
<1>8. ServingTypeOK'
  BY <1>1, <1>3, <1>4, <1>5 DEF ServingInv, ServingTypeOK
<1>9. CallInv'
  <2>1. k # "none"
    BY ServingAssumption
  <2> QED
    BY <1>1, <1>3, <1>4, <1>5, <1>6, <2>1 DEF ServingInv, CallInv
<1>10. StreamInv' /\ RoomInv'
  <2>1. k \in {"stream", "generate", "generateStream"}
    BY ServingAssumption
  <2>2. /\ open \subseteq Seqs /\ failed \subseteq Seqs /\ Generating = {}
        /\ Generating' = IF k = "stream" THEN {} ELSE {n}
    BY <1>1, <1>3, <1>6 DEF ServingInv, ServingTypeOK, Generating
  <2>3. StreamInv'
    <3>1. \A r \in Seqs : r \notin 1 .. added' => kind'[r] = "none"
      BY <1>3, <1>4, <1>6 DEF ServingInv, StreamInv
    <3>2. \A r \in open' : kind'[r] = "stream"
      BY <1>1, <1>3, <1>6, <1>7, <2>2 DEF ServingInv, StreamInv
    <3>3. \A r \in failed' : kind'[r] \in {"generate", "generateStream"}
      BY <1>1, <1>6, <1>7, <2>2 DEF ServingInv, StreamInv
    <3> QED
      BY <1>1, <1>3, <3>1, <3>2, <3>3 DEF ServingInv, StreamInv
  <2>4. active' = open' \cup {r \in failed' \cup Generating' : kind'[r] = "generateStream"}
    <3>1. {r \in failed : kind'[r] = "generateStream"}
            = {r \in failed : kind[r] = "generateStream"}
      BY <1>6, <1>7, <2>2
    <3>2. active = open \cup {r \in failed : kind[r] = "generateStream"}
      BY <2>2 DEF ServingInv, RoomInv
    <3>3. CASE k = "stream"
      BY <1>1, <1>3, <2>2, <3>1, <3>2, <3>3
    <3>4. CASE k = "generate"
      BY <1>1, <1>3, <1>6, <2>2, <3>1, <3>2, <3>4
    <3>5. CASE k = "generateStream"
      BY <1>1, <1>3, <1>6, <2>2, <3>1, <3>2, <3>5
    <3> QED
      BY <2>1, <3>3, <3>4, <3>5
  <2>5. waiting' \cup running' \subseteq open' \cup failed' \cup Generating'
    BY <1>1, <1>3, <2>2 DEF ServingInv, RoomInv
  <2> QED
    BY <1>1, <1>7, <2>2, <2>3, <2>4, <2>5 DEF RoomInv
<1>11. DeliveryInv'
  <2>1. \A r \in Seqs : r \notin 1 .. added' => count'[r] = 0 /\ got'[r] = <<>>
    BY <1>1, <1>3, <1>4 DEF ServingInv, DeliveryInv
  <2>2. \A r \in open' : count'[r] = Len(got'[r])
    <3>1. count[n] = 0 /\ Len(got[n]) = 0
      BY <1>4 DEF ServingInv, DeliveryInv
    <3> QED
      BY <1>1, <1>3, <3>1 DEF ServingInv, DeliveryInv
  <2> QED
    BY <1>1, <1>3, <2>1, <2>2 DEF ServingInv, DeliveryInv
<1>12. GenerateInv'
  BY <1>1, <1>3 DEF ServingInv, CallInv, GenerateInv, Accounted
<1> QED
  BY <1>2, <1>8, <1>9, <1>10, <1>11, <1>12 DEF ServingInv

(* The calls that leave the engine alone. *)
LEMMA HangupKeepsServingInv ==
  ASSUME ServingInv, GenerateReturns \/ GenerateFails \/ DeliverNothing
  PROVE  ServingInv'
<1>1. /\ UNCHANGED <<engineVars, kind, open, done, count, got>> /\ Hangup
      /\ pc = "idle" /\ stage # "free"
      /\ \/ /\ kind[caller] # "stream" /\ active' = active \ {caller}
            /\ failed' = failed /\ waiting \cup running = {}
         \/ /\ kind[caller] # "stream" /\ active' = active
            /\ failed' = failed \cup {caller}
         \/ kind[caller] = "stream" /\ UNCHANGED <<active, failed>>
  BY DEF GenerateReturns, GenerateFails, DeliverNothing, stream, books, history,
         ServingInv, CallInv
<1>2. EngineSafe'
  BY <1>1, EngineSafeKept DEF ServingInv
<1>3. /\ UNCHANGED <<pc, todo, finishedGroups, added, waiting, running, finished, gen>>
      /\ stage' = "free" /\ reply'.finished = {}
  BY <1>1 DEF engineVars, pools, progress, result, request, Hangup, NoReply
<1>4. CallInv' /\ GenerateInv'
  BY <1>1, <1>3 DEF ServingInv, CallInv, GenerateInv
<1>5. caller \in Seqs /\ kind[caller] \in Kinds
  <2>1. caller \in 1 .. added /\ 1 .. added \subseteq Seqs
    BY <1>1, EngineAssumption DEF ServingInv, CallInv, EngineSafe, EngineInv, EngineTypeOK
  <2> QED
    BY <1>1, <2>1 DEF ServingInv, ServingTypeOK, CallInv
<1>6. ServingTypeOK'
  BY <1>1, <1>3, <1>5 DEF ServingInv, ServingTypeOK
<1>7. StreamInv'
  <2>1. \A r \in failed' : kind[r] \in {"generate", "generateStream"}
    BY <1>1, <1>5, ServingAssumption DEF ServingInv, StreamInv
  <2> QED
    BY <1>1, <1>3, <2>1 DEF ServingInv, StreamInv
<1>8. RoomInv'
  <2>1. /\ Generating' = {}
        /\ Generating = IF kind[caller] = "stream" THEN {} ELSE {caller}
    BY <1>1, <1>3 DEF Generating
  <2>2. kind[caller] # "stream" => caller \notin open
    BY DEF ServingInv, StreamInv
  <2>3. active' = open \cup {r \in failed' : kind[r] = "generateStream"}
    BY <1>1, <2>1, <2>2 DEF ServingInv, RoomInv
  <2>4. waiting \cup running \subseteq open \cup failed'
    BY <1>1, <2>1 DEF ServingInv, RoomInv
  <2> QED
    BY <1>1, <1>3, <2>1, <2>3, <2>4 DEF RoomInv
<1>9. DeliveryInv'
  BY <1>1, <1>3 DEF ServingInv, DeliveryInv
<1> QED
  BY <1>2, <1>4, <1>6, <1>7, <1>8, <1>9 DEF ServingInv

LEMMA ReportFinishedKeepsServingInv ==
  ASSUME ServingInv, ReportFinished
  PROVE  ServingInv'
<1>1. /\ stage = "replied" /\ caller \in finished
      /\ count' = [count EXCEPT ![caller] = gen[caller]]
      /\ done' = done \cup {caller}
      /\ active' = active \ {caller} /\ open' = open \ {caller}
      /\ UNCHANGED <<engineVars, kind, got, failed>> /\ Hangup
  BY DEF ReportFinished, ServingInv, StreamInv, history
<1>2. EngineSafe'
  BY <1>1, EngineSafeKept DEF ServingInv
<1>3. /\ UNCHANGED <<pc, todo, finishedGroups, added, waiting, running, finished, gen>>
      /\ stage' = "free" /\ reply'.finished = {}
  BY <1>1 DEF engineVars, pools, progress, result, request, Hangup, NoReply
<1>4. /\ caller \in Seqs /\ caller \in 1 .. added /\ gen[caller] \in Nat
      /\ caller \notin waiting \cup running /\ kind[caller] = "stream"
  BY <1>1, GenType
     DEF ServingInv, CallInv, EngineSafe, EngineInv, EngineTypeOK, PoolsPartition
<1>5. CallInv' /\ GenerateInv'
  BY <1>1, <1>3 DEF ServingInv, CallInv, GenerateInv
<1>6. ServingTypeOK'
  BY <1>1, <1>3, <1>4 DEF ServingInv, ServingTypeOK
<1>7. StreamInv' /\ RoomInv'
  <2>1. StreamInv'
    BY <1>1, <1>3, <1>4 DEF ServingInv, StreamInv
  <2>2. Generating = {} /\ Generating' = {} /\ caller \notin failed
    BY <1>1, <1>3, <1>4 DEF Generating, ServingInv, StreamInv
  <2>3. RoomInv'
    BY <1>1, <1>3, <1>4, <2>2 DEF ServingInv, RoomInv
  <2> QED
    BY <2>1, <2>3
<1>8. DeliveryInv'
  <2>1. \A r \in Seqs : r # caller => count'[r] = count[r]
    BY <1>1 DEF ServingInv, ServingTypeOK
  <2>2. open \subseteq Seqs
    BY DEF ServingInv, ServingTypeOK
  <2> QED
    BY <1>1, <1>3, <1>4, <2>1, <2>2 DEF ServingInv, DeliveryInv
<1> QED
  BY <1>2, <1>5, <1>6, <1>7, <1>8 DEF ServingInv

(* The token delivered is the one after those its client got, and it has  *)
(* been generated.                                                         *)
LEMMA DeliverTokenKeepsServingInv ==
  ASSUME ServingInv, DeliverToken
  PROVE  ServingInv'
<1>1. /\ stage = "replied" /\ count[caller] < gen[caller]
      /\ got' = [got EXCEPT ![caller] = Append(@, count[caller] + 1)]
      /\ count' = [count EXCEPT ![caller] = count[caller] + 1]
      /\ UNCHANGED <<engineVars, kind, open, active, done, failed>> /\ Hangup
  BY DEF DeliverToken, Undelivered, NextToken, books, history
<1>2. EngineSafe'
  BY <1>1, EngineSafeKept DEF ServingInv
<1>3. /\ UNCHANGED <<pc, todo, finishedGroups, added, waiting, running, finished, gen>>
      /\ stage' = "free" /\ reply'.finished = {}
  BY <1>1 DEF engineVars, pools, progress, result, request, Hangup, NoReply
<1>4. /\ caller \in open /\ caller \in Seqs /\ caller \in 1 .. added
      /\ gen[caller] \in Nat /\ count[caller] \in Nat
  BY <1>1, GenType DEF ServingInv, CallInv, ServingTypeOK, EngineSafe
<1>5. CallInv' /\ GenerateInv'
  BY <1>1, <1>3 DEF ServingInv, CallInv, GenerateInv
<1>6. ServingTypeOK'
  BY <1>1, <1>3, <1>4 DEF ServingInv, ServingTypeOK
<1>7. StreamInv' /\ RoomInv'
  <2>1. StreamInv'
    BY <1>1, <1>3 DEF ServingInv, StreamInv
  <2>2. UNCHANGED Generating
    BY <1>1, <1>3 DEF Generating, ServingInv, CallInv
  <2>3. RoomInv'
    BY <1>1, <1>3, <2>2 DEF ServingInv, RoomInv
  <2> QED
    BY <2>1, <2>3
<1>8. DeliveryInv'
  <2>1. got \in [Seqs -> Seq(Nat)] /\ count \in [Seqs -> Nat] /\ open \subseteq Seqs
    BY DEF ServingInv, ServingTypeOK
  <2>2. /\ \A r \in Seqs : r # caller => count'[r] = count[r] /\ got'[r] = got[r]
        /\ count'[caller] = count[caller] + 1
        /\ got'[caller] = Append(got[caller], count[caller] + 1)
    BY <1>1, <1>4, <2>1
  <2>3. count[caller] = Len(got[caller])
    BY <1>4 DEF ServingInv, DeliveryInv
  <2>4. /\ Len(got'[caller]) = Len(got[caller]) + 1
        /\ got'[caller][Len(got[caller]) + 1] = Len(got[caller]) + 1
        /\ \A i \in 1 .. Len(got[caller]) : got'[caller][i] = got[caller][i]
    BY <1>4, <2>1, <2>2, <2>3
  <2>5. \A i \in 1 .. Len(got'[caller]) : got'[caller][i] = i
    <3>1. \A i \in 1 .. Len(got[caller]) : got[caller][i] = i
      BY <1>4 DEF ServingInv, DeliveryInv
    <3>2. Len(got[caller]) \in Nat
      BY <1>4, <2>1
    <3>3. 1 .. Len(got'[caller]) = (1 .. Len(got[caller])) \cup {Len(got[caller]) + 1}
      BY <2>4, <3>2
    <3> QED
      BY <2>4, <3>1, <3>3
  <2>6. Len(got'[caller]) <= gen[caller]
    BY <1>1, <1>4, <2>3, <2>4
  <2>7. \A r \in Seqs : /\ r \notin 1 .. added' => count'[r] = 0 /\ got'[r] = <<>>
                        /\ Len(got'[r]) <= gen'[r]
                        /\ \A i \in 1 .. Len(got'[r]) : got'[r][i] = i
    BY <1>3, <1>4, <2>2, <2>5, <2>6 DEF ServingInv, DeliveryInv
  <2>8. \A r \in open' : count'[r] = Len(got'[r])
    BY <1>1, <2>1, <2>2, <2>3, <2>4 DEF ServingInv, DeliveryInv
  <2> QED
    BY <2>7, <2>8 DEF DeliveryInv
<1> QED
  BY <1>2, <1>5, <1>6, <1>7, <1>8 DEF ServingInv

(* The end of a stream, whether its client left or its step raised: its   *)
(* request is out of the engine before its slot is given back.             *)
LEMMA FinallyKeepsServingInv ==
  ASSUME ServingInv, NEW r \in open, Finally(r), pc = "idle", Generating = {}
  PROVE  ServingInv'
<1>1. /\ done' = done \cup {r} /\ active' = active \ {r} /\ open' = open \ {r}
      /\ UNCHANGED <<kind, count, got, failed>> /\ Hangup
      /\ IF r \in done THEN UNCHANGED engineVars ELSE Cancel(r)
  BY DEF Finally, Abort, history
<1>2. r \in Seqs /\ stage' = "free" /\ reply'.finished = {}
  BY <1>1 DEF ServingInv, ServingTypeOK, Hangup, NoReply
<1>3. /\ EngineSafe' /\ Drains /\ finishedGroups' = finishedGroups /\ pc' = pc
      /\ r \in finished' /\ r \notin waiting' \cup running'
  <2>1. CASE r \in done
    <3>1. UNCHANGED engineVars /\ EngineSafe'
      BY <1>1, <2>1, EngineSafeKept DEF ServingInv
    <3>2. r \in finished /\ r \notin waiting \cup running
      BY <2>1 DEF ServingInv, StreamInv, EngineSafe, EngineInv, PoolsPartition
    <3>3. \A q \in Seqs : gen[q] \in Nat
      BY GenType DEF ServingInv, EngineSafe
    <3> QED
      BY <3>1, <3>2, <3>3 DEF engineVars, pools, progress, result, request, Drains
  <2>2. CASE r \notin done
    BY <1>1, <1>2, <2>2, CancelDrains DEF ServingInv
  <2> QED
    BY <2>1, <2>2
<1>4. CallInv' /\ GenerateInv'
  BY <1>1, <1>2, <1>3 DEF ServingInv, CallInv, GenerateInv
<1>5. ServingTypeOK'
  BY <1>1, <1>2 DEF ServingInv, ServingTypeOK
<1>6. StreamInv' /\ RoomInv'
  <2>1. StreamInv'
    BY <1>1, <1>2, <1>3 DEF ServingInv, StreamInv, Drains
  <2>2. Generating' = {} /\ r \notin failed
    BY <1>2 DEF Generating, ServingInv, StreamInv
  <2>3. RoomInv'
    BY <1>1, <1>3, <2>2 DEF ServingInv, RoomInv, Drains
  <2> QED
    BY <2>1, <2>3
<1>7. DeliveryInv'
  <2>1. \A q \in Seqs : Len(got[q]) <= gen'[q]
    <3> SUFFICES ASSUME NEW q \in Seqs PROVE Len(got[q]) <= gen'[q]
      OBVIOUS
    <3>1. gen[q] \in Nat /\ gen'[q] \in Nat /\ Len(got[q]) \in Nat
      BY <1>3 DEF ServingInv, ServingTypeOK, EngineSafe, EngineInv, EngineTypeOK
    <3>2. Len(got[q]) <= gen[q] /\ gen[q] <= gen'[q]
      BY <1>3 DEF ServingInv, DeliveryInv, Drains
    <3> QED
      BY <3>1, <3>2
  <2> QED
    BY <1>1, <1>3, <2>1 DEF ServingInv, DeliveryInv, Drains
<1> QED
  BY <1>3, <1>4, <1>5, <1>6, <1>7 DEF ServingInv

(* cancel() and the time-outs after a step. *)
LEMMA RetiredKeepsServingInv ==
  ASSUME ServingInv, NEW r \in Seqs, ServerCancel(r) \/ ExpireAfterStep(r)
  PROVE  ServingInv'
<1>1. /\ UNCHANGED <<kind, open, active, done, count, got, stage, caller, reply, failed>>
      /\ stage # "stepping" /\ pc = "idle" /\ UNCHANGED Generating
  BY DEF ServerCancel, ExpireAfterStep, books, stream, call, history, ServingInv, CallInv,
         Generating
<1>2. EngineSafe' /\ Drains /\ UNCHANGED <<pc, finishedGroups>>
  <2>1. CASE ServerCancel(r)
    BY <2>1, CancelDrains DEF ServerCancel, ServingInv
  <2>2. CASE ExpireAfterStep(r)
    BY <1>1, <2>2, ExpireDrains DEF ExpireAfterStep, ServingInv, result
  <2> QED
    BY <2>1, <2>2
<1>3. reply'.finished \subseteq finished'
  BY <1>1, <1>2 DEF ServingInv, StreamInv, Drains
<1>4. StreamInv' /\ RoomInv' /\ DeliveryInv'
  BY <1>1, <1>2, <1>3, DrainsKeepsStreams
<1>5. CallInv' /\ GenerateInv' /\ ServingTypeOK'
  BY <1>1, <1>2 DEF ServingInv, CallInv, GenerateInv, ServingTypeOK, Drains
<1> QED
  BY <1>2, <1>4, <1>5 DEF ServingInv

LEMMA NextKeepsServingInv == ServingInv /\ [ServingNext]_servingVars => ServingInv'
<1> SUFFICES ASSUME ServingInv, [ServingNext]_servingVars PROVE ServingInv'
  OBVIOUS
<1>1. CASE UNCHANGED servingVars
  <2>1. /\ UNCHANGED engineVars
        /\ UNCHANGED <<kind, open, active, done, count, got, stage, caller, reply, failed>>
    BY <1>1 DEF servingVars, books, stream, call, history
  <2>2. /\ UNCHANGED <<added, waiting, running, finished, rejected, outputs, status>>
        /\ UNCHANGED <<gen, pc, todo, finishedGroups>>
    BY <2>1 DEF engineVars, pools, progress, result, request
  <2>3. EngineSafe'
    BY <2>1, EngineSafeKept DEF ServingInv
  <2>4. CallInv' /\ GenerateInv' /\ ServingTypeOK'
    BY <2>1, <2>2 DEF ServingInv, CallInv, GenerateInv, Accounted, ServingTypeOK
  <2>5. StreamInv' /\ RoomInv'
    BY <2>1, <2>2 DEF ServingInv, StreamInv, RoomInv, Generating
  <2>6. DeliveryInv'
    BY <2>1, <2>2 DEF ServingInv, DeliveryInv
  <2> QED
    BY <2>3, <2>4, <2>5, <2>6 DEF ServingInv
<1>2. CASE InCall
  <2>1. CASE StreamFails
    <3>1. caller \in open /\ Finally(caller) /\ pc = "idle" /\ Generating = {}
      BY <2>1 DEF StreamFails, Generating, ServingInv, CallInv
    <3> QED
      BY <3>1, FinallyKeepsServingInv
  <2> QED
    BY <1>2, <2>1, EngineStepKeepsServingInv, HangupKeepsServingInv,
       ReportFinishedKeepsServingInv, DeliverTokenKeepsServingInv DEF InCall
<1>3. CASE \E p \in Prompts, m \in MaxTokensValues : OpenStream(p, m) \/ Generate(p, m)
  BY <1>3, GatedKeepsServingInv
<1>4. ASSUME NEW r \in Seqs, Close(r)
      PROVE  ServingInv'
  BY <1>4, FinallyKeepsServingInv DEF Close, Generating, ServingInv, CallInv
<1> QED
  BY <1>1, <1>2, <1>3, <1>4, PollKeepsServingInv, RetiredKeepsServingInv DEF ServingNext

LEMMA ServingInvHolds == ServingSpec => []ServingInv
  BY InitEstablishesServingInv, NextKeepsServingInv, PTL DEF ServingSpec

-----------------------------------------------------------------------------
(* The theorems. *)

(* However polls interleave, a client is given its tokens in order, each  *)
(* once, and never one that has not been generated.                        *)
THEOREM ServingDeliversInOrder == ServingSpec => []DeliveredInOrder
<1>1. ServingInv => DeliveredInOrder
  <2> SUFFICES ASSUME ServingInv, NEW r \in Seqs
               PROVE  /\ got[r] = [i \in 1 .. Len(got[r]) |-> i]
                      /\ Len(got[r]) <= gen[r]
    BY DEF DeliveredInOrder
  <2>1. got[r] \in Seq(Nat)
    BY DEF ServingInv, ServingTypeOK
  <2>2. \A i \in 1 .. Len(got[r]) : got[r][i] = i
    BY DEF ServingInv, DeliveryInv
  <2>3. Len(got[r]) <= gen[r]
    BY DEF ServingInv, DeliveryInv
  <2>4. got[r] = [i \in 1 .. Len(got[r]) |-> got[r][i]]
    BY <2>1
  <2> QED
    BY <2>2, <2>3, <2>4
<1> QED
  BY <1>1, ServingInvHolds, PTL

(* Between calls, the slots taken are those of the open streams and of     *)
(* the generate(stream=True) calls that raised, no more and no fewer.       *)
THEOREM ServingSlotsMatchOpenStreams == ServingSpec => []SlotsMatchOpenStreams
<1>1. ServingInv => SlotsMatchOpenStreams
  BY DEF ServingInv, RoomInv, Generating, SlotsMatchOpenStreams
<1> QED
  BY <1>1, ServingInvHolds, PTL

(* Between calls, what is in the engine was asked for by an open stream or *)
(* by a generate() that raised.                                             *)
THEOREM ServingNoOrphans == ServingSpec => []NoOrphans
<1>1. ServingInv => NoOrphans
  BY DEF ServingInv, RoomInv, Generating, NoOrphans
<1> QED
  BY <1>1, ServingInvHolds, PTL

(* generate() returns a text unless its request was rejected or timed out, *)
(* whatever else was in the engine.                                         *)
THEOREM ServingGenerateReturnsText == ServingSpec => GenerateReturnsText
<1>1. ServingInv /\ [ServingNext]_servingVars =>
        [GenerateReturns =>
           /\ \/ caller \in outputs \cup rejected
              \/ RequestsExpire /\ caller \in finished /\ status[caller] # "FINISHED"
           /\ waiting' \cup running' = {}]_servingVars
  <2> SUFFICES ASSUME ServingInv, GenerateReturns
               PROVE  /\ \/ caller \in outputs \cup rejected
                         \/ /\ RequestsExpire /\ caller \in finished
                            /\ status[caller] # "FINISHED"
                      /\ waiting' \cup running' = {}
    OBVIOUS
  <2>1. /\ waiting \cup running = {} /\ UNCHANGED <<waiting, running>>
        /\ stage = "stepping" /\ pc = "idle" /\ kind[caller] # "stream"
    BY DEF GenerateReturns, engineVars, pools
  <2>2. Accounted(caller) /\ finishedGroups = {}
    BY <2>1 DEF ServingInv, GenerateInv, CallInv
  <2> QED
    BY <2>1, <2>2 DEF Accounted
<1> QED
  BY <1>1, ServingInvHolds, PTL DEF ServingSpec, GenerateReturnsText

-----------------------------------------------------------------------------
(***************************************************************************)
(* What AdmissionControl.check() is worth, for any pool and any            *)
(* interleaving of calls: its estimate covers all a request will need, so  *)
(* a request that has the engine to itself never runs out of blocks.       *)
(***************************************************************************)

(* The whole pool would do for each request let in. *)
FitsPool ==
  \A r \in 1 .. added : BlocksFor(Len(prompt[r]) + maxTokens[r]) <= NumBlocks

AdmissionInv == ServingInv /\ TablesInv /\ FitsPool

LEMMA PoolSize == IsFiniteSet(Blocks) /\ Cardinality(Blocks) = NumBlocks
<1>1. 0 \in Int /\ NumBlocks - 1 \in Int /\ 0 <= NumBlocks - 1
  BY NumBlocksAssumption
<1> QED
  BY <1>1, FS_Interval, NumBlocksAssumption DEF Blocks

(* Both estimates count the same blocks, and the free ones are no more     *)
(* than the pool.                                                           *)
LEMMA CheckedFits ==
  ASSUME EngineInv, NEW p \in Prompts, NEW m \in MaxTokensValues, Check(p, m) = "OK"
  PROVE  BlocksFor(Len(p) + m) <= NumBlocks
<1>1. NeededBlocks(p, m) = BlocksFor(Len(p) + m) /\ NeededBlocks(p, m) \in Nat
  <2>1. Len(p) + m \in Nat
    BY PoolsAreRequests, EngineAssumption
  <2> QED
    BY <2>1, BlocksForType DEF NeededBlocks, BlocksFor
<1>2. WatermarkBlocks \in Nat
  BY NumBlocksAssumption DEF WatermarkBlocks
<1>3. NumFree \in Nat /\ NumFree <= NumBlocks
  <2>1. FreeBlocks \in SUBSET Blocks
    BY DEF FreeBlocks
  <2> QED
    BY <2>1, PoolSize, FS_Subset, FS_CardinalityType DEF NumFree
<1>4. ~ (NumFree - NeededBlocks(p, m) < WatermarkBlocks)
  BY DEF Check
<1> QED
  BY <1>1, <1>2, <1>3, <1>4, NumBlocksAssumption

(* Alone, a request that is out of blocks would hold them all: more than   *)
(* it can ever need.                                                        *)
LEMMA AloneFits ==
  ASSUME TablesInv, FitsPool, NEW r \in Seqs, waiting \cup running = {r}
  PROVE  ~ RunsOut(r)
<1> SUFFICES ASSUME NEW pos \in Uncovered(r), NextToEnsure(r, pos),
                    OutOfBlocks(r, pos, Len(prompt[r]))
             PROVE  FALSE
  BY DEF RunsOut
<1>1. /\ r \in running /\ pos \in Nat /\ pos < Len(prompt[r]) + gen[r]
      /\ pos \div BlockSize = Len(tables[r])
  BY NextBlockFollows
<1>2. /\ Len(prompt[r]) \in Nat \ {0} /\ gen[r] \in Nat
      /\ tables[r] \in Seq(Blocks) /\ Len(tables[r]) \in Nat
      /\ status[r] = "PREFILL" => gen[r] = 0
  BY <1>1, RunningTypes DEF TablesInv
<1>3. maxTokens[r] \in Nat /\ gen[r] <= maxTokens[r]
  <2>1. maxTokens[r] \in Nat
    BY MaxTokensType DEF TablesInv, SchedInv
  <2>2. r \in schedPrefill \cup schedDecode
    BY DEF NextToEnsure, FirstAdmitted
  <2>3. r \in schedDecode => gen[r] < maxTokens[r]
    BY DEF TablesInv, SchedInv, OutputInv
  <2>4. r \in schedPrefill => gen[r] = 0
    BY <1>2, BudgetsType DEF TablesInv, SchedInv
  <2> QED
    BY <1>2, <2>1, <2>2, <2>3, <2>4
<1>4. Len(tables[r]) + 1 <= NumBlocks
  <2>1. Len(prompt[r]) + maxTokens[r] \in Nat /\ pos < Len(prompt[r]) + maxTokens[r]
    BY <1>1, <1>2, <1>3
  <2>2. pos \div BlockSize + 1 <= BlocksFor(Len(prompt[r]) + maxTokens[r])
    BY <1>1, <2>1, BlocksForCovers
  <2>3. r \in 1 .. added
    BY <1>1 DEF TablesInv, SchedInv, EngineInv, PoolsPartition
  <2>4. BlocksFor(Len(prompt[r]) + maxTokens[r]) <= NumBlocks
    BY <2>3 DEF FitsPool
  <2>5. BlocksFor(Len(prompt[r]) + maxTokens[r]) \in Nat
    BY <2>1, BlocksForType
  <2> QED
    BY <1>1, <1>2, <2>2, <2>4, <2>5, NumBlocksAssumption
<1>5. ASSUME NEW b \in Blocks
      PROVE  \E i \in 1 .. Len(tables[r]) : tables[r][i] = b
  <2>1. ~ free[b]
    BY DEF OutOfBlocks, FreeBlocks
  <2>2. References(b) # {}
    BY <2>1 DEF TablesInv, SchedInv, EngineInv, BMInv, RefCountsExact
  <2>3. PICK h : h \in References(b)
    BY <2>2
  <2>4. PICK s \in Seqs : \E i \in DOMAIN tables[s] : h = <<s, i>> /\ tables[s][i] = b
    BY <2>3, IsReference
  <2>5. s \in running
    BY <2>4 DEF TablesInv, SchedInv, EngineInv, OnlyRunningHoldBlocks
  <2>6. s = r
    BY <2>5
  <2> QED
    BY <1>2, <2>4, <2>6
<1>6. tables[r] \in Surjection(1 .. Len(tables[r]), Blocks)
  BY <1>2, <1>5 DEF Surjection
<1>7. IsFiniteSet(1 .. Len(tables[r])) /\ Cardinality(1 .. Len(tables[r])) <= Len(tables[r])
  <2> DEFINE n == Len(tables[r])
  <2>1. 1 \in Int /\ n \in Int /\ n \in Nat
    BY <1>2
  <2> HIDE DEF n
  <2>2. IsFiniteSet(1 .. n) /\ Cardinality(1 .. n) <= n
    BY <2>1, FS_Interval
  <2> QED
    BY <2>2 DEF n
<1>8. NumBlocks <= Cardinality(1 .. Len(tables[r]))
  BY <1>6, <1>7, FS_Surjection, PoolSize
<1> QED
  BY <1>2, <1>4, <1>7, <1>8, FS_CardinalityType, NumBlocksAssumption

-----------------------------------------------------------------------------

(* The time-outs after a step, too, leave the others as they were. *)
LEMMA ExpireKeepsTables ==
  ASSUME TablesInv, EngineSafe', pc = "idle", NEW r \in Seqs, ExpireAfterStep(r)
  PROVE  TablesInv'
<1>1. /\ EndSequence(r, "TIMEOUT") /\ running' = running \ {r}
      /\ UNCHANGED <<prompt, cursor, gen, pc, tokenBudget, seqBudget, prefillBudget>>
  BY DEF ExpireAfterStep, request, progress, budget
<1>2. /\ status \in [Seqs -> {"NONE"} \cup Live \cup Ended]
      /\ tables \in [Seqs -> Seq(Blocks)] /\ running \subseteq Seqs
  BY DEF TablesInv, SchedInv, EngineInv, EngineTypeOK, BMInv, BMTypeOK
<1>3. \A q \in running' : status'[q] = status[q] /\ tables'[q] = tables[q]
  BY <1>1, <1>2 DEF EndSequence, FreeSeq, bmVars
<1>4. CursorInv' /\ LoadInv' /\ BudgetInv'
  BY <1>1, <1>3, OutsidePlanKeeps DEF TablesInv, EngineSafe
<1>5. TablesFitSequences'
  BY <1>1, <1>3, TablesKept
<1> QED
  BY <1>4, <1>5 DEF TablesInv, SchedInv, EngineSafe

(* Every action of the serving layer is at most one of the engine, and     *)
(* only a call that passed the gate adds a request.                         *)
LEMMA ServingStepsOfEngine ==
  ASSUME ServingInv, [ServingNext]_servingVars
  PROVE  \/ \E p \in Prompts, m \in MaxTokensValues :
              Check(p, m) = "OK" /\ AddRequest(p, m)
         \/ [EngineNext]_engineVars /\ UNCHANGED request
         \/ pc = "idle" /\ \E r \in Seqs : ExpireAfterStep(r)
<1>1. ASSUME NEW r \in Seqs, Cancel(r)
      PROVE  EngineNext /\ UNCHANGED request
  BY <1>1 DEF EngineNext, Calls, Cancel
<1>2. ASSUME Step PROVE EngineNext /\ UNCHANGED request
  BY <1>2 DEF EngineNext, Step, Prepare, StartStep, PlanDecode, StartAdmission, TimeOut,
              FinishGroup, ContinuePrefill, Ignore, Reject, Admit, EnsureBlock, RaiseOOM,
              Execute
<1>3. CASE UNCHANGED servingVars
  BY <1>3 DEF servingVars, engineVars
<1>4. CASE InCall
  <2>1. CASE StepAgain \/ InStep \/ StepReturns \/ StepRaises
    BY <1>2, <2>1 DEF StepAgain, InStep, StepReturns, StepRaises, BeginStep, Step, Prepare
  <2>2. CASE StreamFails
    <3>1. caller \in Seqs
      BY <2>2 DEF StreamFails, ServingInv, CallInv, ServingTypeOK
    <3> QED
      BY <1>1, <2>2, <3>1 DEF StreamFails, Finally, Abort, engineVars
  <2> QED
    BY <1>4, <2>1, <2>2
       DEF InCall, GenerateReturns, GenerateFails, ReportFinished, DeliverToken,
           DeliverNothing, engineVars
<1>5. CASE \E p \in Prompts, m \in MaxTokensValues : OpenStream(p, m) \/ Generate(p, m)
  BY <1>5 DEF OpenStream, Generate, Gated, GatedAdd
<1>6. ASSUME NEW r \in Seqs, Poll(r) \/ Close(r) \/ ServerCancel(r)
      PROVE  [EngineNext]_engineVars /\ UNCHANGED request
  BY <1>1, <1>2, <1>6
     DEF Poll, BeginStep, Step, Prepare, Close, Finally, Abort, ServerCancel, engineVars
<1>7. ASSUME NEW r \in Seqs, ExpireAfterStep(r) PROVE pc = "idle"
  BY <1>7 DEF ExpireAfterStep, ServingInv, CallInv
<1> QED
  BY <1>3, <1>4, <1>5, <1>6, <1>7 DEF ServingNext

LEMMA NextKeepsAdmissionInv ==
  AdmissionInv /\ [ServingNext]_servingVars => AdmissionInv'
<1> SUFFICES ASSUME AdmissionInv, [ServingNext]_servingVars PROVE AdmissionInv'
  OBVIOUS
<1>1. ServingInv'
  BY NextKeepsServingInv DEF AdmissionInv
<1>2. ASSUME NEW p \in Prompts, NEW m \in MaxTokensValues,
             Check(p, m) = "OK", AddRequest(p, m)
      PROVE  TablesInv' /\ FitsPool'
  <2>1. TablesInv'
    BY <1>2, NextKeepsTablesInv DEF AdmissionInv, EngineNext, Calls
  <2>2. /\ added' = added + 1
        /\ prompt' = [prompt EXCEPT ![added + 1] = p]
        /\ maxTokens' = [maxTokens EXCEPT ![added + 1] = m]
    BY <1>2 DEF AddRequest
  <2>3. /\ added + 1 \in Seqs /\ 1 .. added + 1 = (1 .. added) \cup {added + 1}
        /\ added + 1 \notin 1 .. added /\ 1 .. added \subseteq Seqs
    BY <1>2, EngineAssumption
       DEF AddRequest, AdmissionInv, TablesInv, SchedInv, EngineInv, EngineTypeOK
  <2>4. BlocksFor(Len(p) + m) <= NumBlocks
    BY <1>2, CheckedFits DEF AdmissionInv, TablesInv, SchedInv
  <2>5. /\ prompt'[added + 1] = p /\ maxTokens'[added + 1] = m
        /\ \A r \in 1 .. added : prompt'[r] = prompt[r] /\ maxTokens'[r] = maxTokens[r]
    BY <2>2, <2>3 DEF AdmissionInv, TablesInv, SchedInv, EngineInv, EngineTypeOK
  <2>6. \A r \in 1 .. added + 1 : BlocksFor(Len(prompt'[r]) + maxTokens'[r]) <= NumBlocks
    BY <2>3, <2>4, <2>5 DEF AdmissionInv, FitsPool
  <2>7. FitsPool'
    BY <2>2, <2>6 DEF FitsPool, BlocksFor
  <2> QED
    BY <2>1, <2>7
<1>3. ASSUME [EngineNext]_engineVars, UNCHANGED request
      PROVE  TablesInv' /\ FitsPool'
  BY <1>3, NextKeepsTablesInv DEF AdmissionInv, FitsPool, request
<1>4. ASSUME NEW r \in Seqs, ExpireAfterStep(r), pc = "idle"
      PROVE  TablesInv' /\ FitsPool'
  BY <1>1, <1>4, ExpireKeepsTables
     DEF AdmissionInv, ServingInv, ExpireAfterStep, FitsPool, request
<1>5. TablesInv' /\ FitsPool'
  <2>1. \/ \E p \in Prompts, m \in MaxTokensValues :
             Check(p, m) = "OK" /\ AddRequest(p, m)
        \/ [EngineNext]_engineVars /\ UNCHANGED request
        \/ pc = "idle" /\ \E r \in Seqs : ExpireAfterStep(r)
    BY ServingStepsOfEngine DEF AdmissionInv
  <2>2. CASE \E p \in Prompts, m \in MaxTokensValues :
               Check(p, m) = "OK" /\ AddRequest(p, m)
    BY <1>2, <2>2
  <2>3. CASE [EngineNext]_engineVars /\ UNCHANGED request
    BY <1>3, <2>3
  <2>4. CASE pc = "idle" /\ \E r \in Seqs : ExpireAfterStep(r)
    BY <1>4, <2>4
  <2> QED
    BY <2>1, <2>2, <2>3, <2>4
<1> QED
  BY <1>1, <1>5 DEF AdmissionInv

LEMMA AdmissionInvHolds == ServingSpec => []AdmissionInv
<1>1. ServingInit => AdmissionInv
  <2> SUFFICES ASSUME ServingInit PROVE AdmissionInv
    OBVIOUS
  <2>1. EngineInit
    BY DEF ServingInit
  <2>2. ServingInv /\ SchedInv
    BY <2>1, InitEstablishesServingInv, InitEstablishesSchedInv
  <2>3. TablesFitSequences /\ FitsPool
    BY <2>1 DEF EngineInit, TablesFitSequences, FitsPool
  <2> QED
    BY <2>2, <2>3 DEF AdmissionInv, TablesInv
<1> QED
  BY <1>1, NextKeepsAdmissionInv, PTL DEF ServingSpec

(* A request that has the engine to itself is never out of blocks, however *)
(* full the pool was when it came.                                          *)
THEOREM ServingLoneRequestFits == ServingSpec => []LoneRequestFits
<1>1. AdmissionInv => LoneRequestFits
  BY AloneFits DEF AdmissionInv, LoneRequestFits
<1> QED
  BY <1>1, AdmissionInvHolds, PTL

(* Below the serving layer, whose calls abort, cancel and time requests    *)
(* out also outside of step(), the engine stays what it is on its own: no   *)
(* request is lost, what has ended holds no block, tables fit, budgets are  *)
(* kept and every running request has its turn.                             *)
THEOREM ServingKeepsEngineSound ==
  ServingSpec => [](/\ PoolsPartition /\ OnlyRunningHoldBlocks /\ RefCountsExact
                    /\ TablesFitSequences /\ BlocksAddedInOrder
                    /\ BudgetsNeverOverdrawn /\ RunningNeverIgnored
                    /\ FinishedOutputComplete)
<1>1. AdmissionInv => /\ PoolsPartition /\ OnlyRunningHoldBlocks /\ RefCountsExact
                      /\ TablesFitSequences /\ BlocksAddedInOrder
                      /\ BudgetsNeverOverdrawn /\ RunningNeverIgnored
                      /\ FinishedOutputComplete
  <2> SUFFICES ASSUME AdmissionInv
               PROVE  /\ PoolsPartition /\ OnlyRunningHoldBlocks /\ RefCountsExact
                      /\ TablesFitSequences /\ BlocksAddedInOrder
                      /\ BudgetsNeverOverdrawn /\ RunningNeverIgnored
                      /\ FinishedOutputComplete
    OBVIOUS
  <2>1. TablesInv /\ SchedInv /\ EngineInv
    BY DEF AdmissionInv, TablesInv, SchedInv
  <2>2. PoolsPartition /\ OnlyRunningHoldBlocks /\ RefCountsExact
    BY <2>1 DEF EngineInv, BMInv
  <2>3. TablesFitSequences /\ BlocksAddedInOrder
    BY <2>1, NextBlockFollows DEF TablesInv, BlocksAddedInOrder
  <2>4. BudgetsNeverOverdrawn
    BY <2>1, BudgetsType DEF SchedInv, BudgetInv, BudgetsNeverOverdrawn
  <2>5. RunningNeverIgnored
    BY <2>1, NextChunkFits DEF RunningNeverIgnored
  <2>6. FinishedOutputComplete
    BY <2>1, MaxTokensType DEF SchedInv, OutputInv, FinishedOutputComplete
  <2> QED
    BY <2>2, <2>3, <2>4, <2>5, <2>6
<1> QED
  BY <1>1, AdmissionInvHolds, PTL

(* Whoever's poll makes a step, its forward pass advances every request    *)
(* that runs, those of other clients' streams too.                          *)
THEOREM ServingEveryRunningAdvances == ServingSpec => EveryRunningAdvances
<1>1. AdmissionInv /\ [ServingNext]_servingVars =>
        [Execute => \A r \in running :
           \/ gen'[r] = gen[r] + 1
           \/ status'[r] = "PREFILL" /\ cursor'[r] = cursor[r] + MaxPrefillChunkSize]_engineVars
  BY ExecuteAdvances DEF AdmissionInv, TablesInv
<1> QED
  BY <1>1, AdmissionInvHolds, PTL DEF ServingSpec, EveryRunningAdvances

(* No client's call, abort or time-out touches a request that has ended.   *)
THEOREM ServingEndedStaysEnded == ServingSpec => EndedStaysEnded
<1> DEFINE Untouched == \A r \in finished \cup rejected :
             /\ status'[r] = status[r] /\ gen'[r] = gen[r] /\ cursor'[r] = cursor[r]
             /\ tables'[r] = <<>>
             /\ r \in finished => r \in finished'
             /\ r \in rejected => r \in rejected'
<1>1. AdmissionInv /\ AdmissionInv' /\ [ServingNext]_servingVars => [Untouched]_engineVars
  <2> SUFFICES ASSUME AdmissionInv, AdmissionInv', [ServingNext]_servingVars,
                      ~ UNCHANGED engineVars
               PROVE  Untouched
    OBVIOUS
  <2>1. EngineInv /\ EngineInv'
    BY DEF AdmissionInv, TablesInv, SchedInv
  <2>2. CASE \E p \in Prompts, m \in MaxTokensValues : AddRequest(p, m)
    BY <2>1, <2>2, EndedStays DEF EngineNext, Calls
  <2>3. CASE [EngineNext]_engineVars
    BY <2>1, <2>3, EndedStays
  <2>4. ASSUME NEW q \in Seqs, ExpireAfterStep(q) PROVE Untouched
    <3>1. /\ EndSequence(q, "TIMEOUT") /\ gen' = gen /\ cursor' = cursor
          /\ finished' = finished \cup {q} /\ rejected' = rejected
      BY <2>4 DEF ExpireAfterStep, progress
    <3> SUFFICES ASSUME NEW r \in finished \cup rejected
                 PROVE  status'[r] = status[r] /\ tables'[r] = <<>>
      BY <3>1
    <3>2. /\ r \in Seqs /\ r \notin waiting \cup running /\ r \notin running'
          /\ status[r] \notin Live /\ status \in [Seqs -> {"NONE"} \cup Live \cup Ended]
      <4>1. r \in Seqs /\ r \notin waiting \cup running
        BY <2>1 DEF EngineInv, EngineTypeOK, PoolsPartition
      <4>2. running' = running \ {q}
        BY <2>4 DEF ExpireAfterStep
      <4> QED
        BY <2>1, <4>1, <4>2 DEF EngineInv, EngineTypeOK, PoolsPartition
    <3>3. status'[r] = status[r]
      BY <3>1, <3>2 DEF EndSequence
    <3> QED
      BY <2>1, <3>2, <3>3 DEF EngineInv, OnlyRunningHoldBlocks
  <2> QED
    BY <2>2, <2>3, <2>4, ServingStepsOfEngine DEF AdmissionInv
<1> QED
  BY <1>1, AdmissionInvHolds, PTL DEF ServingSpec, EndedStaysEnded

(* And every call it makes into the engine, the time-outs after a step     *)
(* included, is a legal use of the block manager ...                        *)
THEOREM ServingImplementsBlockManager == ServingSpec => BMSpec
<1>1. ServingInit => BMInit
  BY DEF ServingInit, EngineInit
<1>2. AdmissionInv /\ [ServingNext]_servingVars => [BMNext]_bmVars
  <2> SUFFICES ASSUME AdmissionInv, [ServingNext]_servingVars PROVE [BMNext]_bmVars
    OBVIOUS
  <2>1. TablesInv
    BY DEF AdmissionInv
  <2>2. CASE \E p \in Prompts, m \in MaxTokensValues : AddRequest(p, m)
    BY <2>1, <2>2, EngineStepsAreManagerSteps DEF EngineNext, Calls
  <2>3. CASE [EngineNext]_engineVars
    BY <2>1, <2>3, EngineStepsAreManagerSteps
  <2>4. ASSUME NEW r \in Seqs, ExpireAfterStep(r) PROVE [BMNext]_bmVars
    BY <2>4 DEF ExpireAfterStep, EndSequence, BMNext
  <2> QED
    BY <2>2, <2>3, <2>4, ServingStepsOfEngine DEF AdmissionInv
<1> QED
  BY <1>1, <1>2, AdmissionInvHolds, PTL DEF ServingSpec, BMSpec

(* ... so that the whole stack implements the ownership of blocks.         *)
THEOREM ServingImplementsOwnership == ServingSpec => ImplementsOwnership
  BY ServingImplementsBlockManager, BMImplementsOwnership, PTL

=============================================================================
