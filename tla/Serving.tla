------------------------------ MODULE Serving ------------------------------
(***************************************************************************)
(* ServingLayer (serving/api_server.py) with StreamManager and             *)
(* CancelManager around the real engine.                                   *)
(*                                                                         *)
(* Everything runs in one thread: a poll runs one step of the shared       *)
(* engine, for all requests, and looks in the result of that step for its  *)
(* own; generate() runs the engine until it is empty.  Between two calls   *)
(* the client may poll any stream, close one, cancel or open another.      *)
(*                                                                         *)
(* A request's tracking id and its engine id are both its number.          *)
(***************************************************************************)
EXTENDS Admission, Sequences

CONSTANTS
  Kinds,            \* calls the clients make: "stream" (generate_stream),
                    \* "generate" and "generateStream" (generate(stream=True))
  MaxStreams,       \* Config.max_num_streams
  RequestsExpire,   \* whether time-outs are reached
  ServerCancels     \* whether cancel() is called

ASSUME ServingAssumption ==
  /\ Kinds \subseteq {"stream", "generate", "generateStream"}
  /\ MaxStreams \in Nat \ {0}
  /\ RequestsExpire \in BOOLEAN /\ ServerCancels \in BOOLEAN

VARIABLES
  kind,       \* the call that made the request; "none" before it
  open,       \* the streams whose client still polls
  active,     \* StreamManager._active
  done,       \* ServingLayer._finished_requests
  cancelled,  \* CancelManager._cancelled
  count,      \* gen_count of a stream
  got,        \* the indices of the tokens its client was given
  stage,      \* "free" between calls; in a call: "stepping" the engine,
              \* "replied" or "raised" when step() came back
  caller,     \* the request whose call is under way
  reply       \* what the last step returned, for the caller to look through

(* What properties need to know of the past; no action reads it. *)
VARIABLES
  failed,     \* the requests whose generate() let an exception through
  missed      \* the requests finished by a step of somebody else's call

books == <<active, done, cancelled>>
stream == <<open, count, got>>
call == <<stage, caller, reply>>
history == <<failed, missed>>
servingVars == <<engineVars, kind, books, stream, call, history>>

NoReply == [finished |-> {}, decode |-> {}]

ServingInit ==
  /\ EngineInit
  /\ kind = [r \in Seqs |-> "none"]
  /\ open = {} /\ active = {} /\ done = {} /\ cancelled = {}
  /\ count = [r \in Seqs |-> 0]
  /\ got = [r \in Seqs |-> <<>>]
  /\ stage = "free" /\ caller = 0 /\ reply = NoReply
  /\ failed = {} /\ missed = {}

(* The call returns to its client. *)
Hangup == stage' = "free" /\ caller' = 0 /\ reply' = NoReply

-----------------------------------------------------------------------------
(* Calls that begin with the gates; a refused one changes nothing here.    *)

Gated(p, m, k) ==
  /\ stage = "free" /\ k \in Kinds
  /\ k # "generate" => Cardinality(active) < MaxStreams
  /\ GatedAdd(p, m)
  /\ kind' = [kind EXCEPT ![added'] = k]
  /\ active' = IF k = "generate" THEN active ELSE active \cup {added'}
  /\ UNCHANGED <<done, cancelled, count, got, reply, history>>

(* generate_stream(): the client gets the ids it polls with. *)
OpenStream(p, m) ==
  /\ Gated(p, m, "stream")
  /\ open' = open \cup {added'}
  /\ UNCHANGED <<stage, caller>>

(* generate(): the call goes on until the engine is empty. *)
Generate(p, m) ==
  /\ \E k \in {"generate", "generateStream"} : Gated(p, m, k)
  /\ stage' = "stepping" /\ caller' = added'
  /\ UNCHANGED open

-----------------------------------------------------------------------------
(* The engine, driven by a call. *)

BeginStep == StartStep /\ (todo' = {} \/ RequestsExpire)

(* poll_stream(): one step. *)
Poll(r) ==
  /\ stage = "free" /\ r \in open
  /\ BeginStep
  /\ stage' = "stepping" /\ caller' = r
  /\ UNCHANGED <<kind, books, stream, reply, history>>

(* The loop of run_until_done(). *)
StepAgain ==
  /\ stage = "stepping" /\ waiting \cup running # {}
  /\ BeginStep
  /\ UNCHANGED <<kind, books, stream, call, history>>

(* Schedules and allocates: all of a step but its beginning and its end. *)
InStep ==
  /\ stage = "stepping" /\ pc # "idle" /\ Prepare /\ pc' # "idle"
  /\ missed' = missed \cup (finishedGroups' \ (finishedGroups \cup {caller}))
  /\ UNCHANGED <<kind, books, stream, call, failed>>

(* Mutant of StepReturns: the groups found finished are read too late. *)
StepReturnsLate ==
  /\ stage = "stepping" /\ Execute
  /\ IF kind[caller] = "stream"
     THEN stage' = "replied"
          /\ reply' = [finished |-> finishedGroups', decode |-> schedDecode]
     ELSE UNCHANGED <<stage, reply>>
  /\ UNCHANGED <<kind, books, stream, caller, history>>

StepReturns ==
  /\ stage = "stepping" /\ Execute
  /\ IF kind[caller] = "stream"
     THEN stage' = "replied"
          /\ reply' = [finished |-> finishedGroups, decode |-> schedDecode]
     ELSE UNCHANGED <<stage, reply>>
  /\ UNCHANGED <<kind, books, stream, caller, history>>

StepRaises ==
  /\ stage = "stepping" /\ \E r \in Seqs : RaiseOOM(r)
  /\ stage' = "raised"
  /\ UNCHANGED <<kind, books, stream, caller, reply, history>>

(* Mutant of GenerateReturns: as soon as one step is over. *)
GenerateReturnsEarly ==
  /\ stage = "stepping" /\ pc = "idle" /\ kind[caller] # "stream"
  /\ active' = active \ {caller}
  /\ Hangup
  /\ UNCHANGED <<engineVars, kind, done, cancelled, stream, history>>

(* Mutant of GenerateReturns: the slot of generate(stream=True) is kept. *)
GenerateKeepsSlot ==
  /\ stage = "stepping" /\ pc = "idle" /\ kind[caller] # "stream"
  /\ waiting \cup running = {}
  /\ Hangup
  /\ UNCHANGED <<engineVars, kind, books, stream, history>>

(* generate() finds the engine empty and looks its text up. *)
GenerateReturns ==
  /\ stage = "stepping" /\ pc = "idle" /\ kind[caller] # "stream"
  /\ waiting \cup running = {}
  /\ active' = active \ {caller}
  /\ Hangup
  /\ UNCHANGED <<engineVars, kind, done, cancelled, stream, history>>

(* ... or lets the exception through: neither the slot nor the request is  *)
(* given back.                                                             *)
GenerateFails ==
  /\ stage = "raised" /\ kind[caller] # "stream"
  /\ failed' = failed \cup {caller}
  /\ Hangup
  /\ UNCHANGED <<engineVars, kind, books, stream, missed>>

-----------------------------------------------------------------------------
(* poll_stream() after its step. *)

(* _check_timeouts() once more: the oldest requests are the overdue ones. *)
ExpireAfterStep(r) ==
  /\ stage = "replied" /\ RequestsExpire /\ Oldest(r, waiting \cup running)
  /\ EndSequence(r, "TIMEOUT")
  /\ running' = running \ {r}
  /\ waiting' = waiting \ {r}
  /\ finished' = finished \cup {r}
  /\ UNCHANGED <<rejected, request, rank, progress, outputs, pc, todo, budget,
                 result, kind, books, stream, call, history>>

(* The caller is among the groups the step found finished: the client is   *)
(* told the number of tokens, its slot and its name are given back.        *)
ReportFinished ==
  /\ stage = "replied" /\ caller \in reply.finished
  /\ count' = [count EXCEPT ![caller] = gen[caller]]
  /\ done' = done \cup {caller}
  /\ active' = active \ {caller}
  /\ open' = open \ {caller}
  /\ Hangup
  /\ UNCHANGED <<engineVars, kind, cancelled, got, history>>

(* Mutant of NextToken: the newest token. *)
NewestToken(r) == gen[r]

(* output_token_ids[gen_count], counted from 1. *)
NextToken(r) == count[r] + 1

Undelivered ==
  caller \in reply.decode /\ status[caller] \in Live /\ count[caller] < gen[caller]

(* One token of the caller's, if the step decoded it ... *)
DeliverToken ==
  /\ stage = "replied" /\ caller \notin reply.finished /\ Undelivered
  /\ got' = [got EXCEPT ![caller] = Append(@, NextToken(caller))]
  /\ count' = [count EXCEPT ![caller] = NextToken(caller)]
  /\ Hangup
  /\ UNCHANGED <<engineVars, kind, books, open, history>>

(* ... or nothing. *)
DeliverNothing ==
  /\ stage = "replied" /\ caller \notin reply.finished /\ ~ Undelivered
  /\ Hangup
  /\ UNCHANGED <<engineVars, kind, books, stream, history>>

-----------------------------------------------------------------------------
(* The end of a stream that did not finish, and cancel(). *)

(* Mutant of Abort: the request is only taken down as finished. *)
AbortMarksOnly(r) ==
  /\ done' = done \cup {r}
  /\ UNCHANGED <<engineVars, cancelled>>

(* _abort() *)
Abort(r) ==
  /\ done' = done \cup {r}
  /\ IF r \in done
     THEN UNCHANGED <<engineVars, cancelled>>
     ELSE Cancel(r) /\ cancelled' = cancelled \cup {r}

(* The finally block of generate_stream_safe(). *)
Finally(r) ==
  /\ Abort(r)
  /\ active' = active \ {r}
  /\ open' = open \ {r}
  /\ Hangup
  /\ UNCHANGED <<kind, count, got, history>>

(* The client disconnects ... *)
Close(r) == stage = "free" /\ r \in open /\ Finally(r)

(* ... or its own step raised. *)
StreamFails == stage = "raised" /\ kind[caller] = "stream" /\ Finally(caller)

ServerCancel(r) ==
  /\ stage = "free" /\ ServerCancels
  /\ Cancel(r)
  /\ cancelled' = cancelled \cup {r}
  /\ UNCHANGED <<kind, active, done, stream, call, history>>

-----------------------------------------------------------------------------

InCall ==
  \/ StepAgain \/ InStep \/ StepReturns \/ StepRaises
  \/ GenerateReturns \/ GenerateFails
  \/ ReportFinished \/ DeliverToken \/ DeliverNothing \/ StreamFails

ServingNext ==
  \/ InCall
  \/ \E p \in Prompts, m \in MaxTokensValues : OpenStream(p, m) \/ Generate(p, m)
  \/ \E r \in Seqs :
       Poll(r) \/ ExpireAfterStep(r) \/ Close(r) \/ ServerCancel(r)

ServingSpec == ServingInit /\ [][ServingNext]_servingVars

(* A call that has begun goes on, and a client iterates its stream to the  *)
(* end unless it closes it.                                                *)
FairServingSpec ==
  /\ ServingSpec
  /\ WF_servingVars(InCall)
  /\ \A r \in Seqs : WF_servingVars(Poll(r))

-----------------------------------------------------------------------------
(* Properties. *)

(* However the steps of other clients' polls come between its own, a       *)
(* client gets its tokens in order, none twice and none left out before    *)
(* the last it got.                                                        *)
DeliveredInOrder ==
  \A r \in Seqs : /\ got[r] = [i \in 1 .. Len(got[r]) |-> i]
                  /\ Len(got[r]) <= gen[r]

(* Between two calls the slots taken are those of the streams whose clients *)
(* still poll, and those of the generate(stream=True) calls that raised,    *)
(* which nothing gives back: disconnects and exceptions give a stream's     *)
(* slot back, a generate() that returns gives its own back, and none is     *)
(* given back early.                                                        *)
SlotsMatchOpenStreams ==
  stage = "free" => active = open \cup {r \in failed : kind[r] = "generateStream"}

(* Between two calls every request in the engine is that of a stream whose *)
(* client still polls, or was left there by a generate() that raised: a     *)
(* stream that is closed or a generate() that returned leaves nothing,      *)
(* whoever's step finished its request and whatever that step raised.       *)
NoOrphans == stage = "free" => waiting \cup running \subseteq open \cup failed

(* generate() returns the text of its request, with whatever streams and   *)
(* leftovers of failed calls it had to share the engine, unless the         *)
(* scheduler rejected the request or it timed out; and it leaves an empty   *)
(* engine behind.                                                           *)
GenerateReturnsText ==
  [][GenerateReturns =>
       /\ \/ caller \in outputs \cup rejected
          \/ RequestsExpire /\ caller \in finished /\ status[caller] # "FINISHED"
       /\ waiting' \cup running' = {}]_servingVars

(* A client that keeps polling its stream comes to its end, unless its     *)
(* request ended in one of the ways poll_stream() never looks for: it was   *)
(* found finished by a step of somebody else's call, cancelled, timed out   *)
(* (by whoever's poll, its own too), or rejected by the scheduler.  A       *)
(* request that its own polls finish is always reported.                    *)
StreamsEnd ==
  \A r \in Seqs :
    r \in open ~> \/ r \notin open
                  \/ r \in missed \cup rejected
                  \/ r \in finished /\ status[r] # "FINISHED"

=============================================================================
