---------------------------- MODULE RateLimiter ----------------------------
(***************************************************************************)
(* RateLimiter and SlidingWindowCounter (serving/rate_limiter.py) as       *)
(* ServingLayer uses them: check() before the stream gate, record() once   *)
(* the engine has the request.  Every call of a counter reads the clock by *)
(* itself: one check() reads it twice, a record() once and then once for   *)
(* each token, and it may have moved on between any two of them.           *)
(*                                                                         *)
(* A counter keeps a list of times.  Only its length and the age of its    *)
(* entries matter, so it is a set of events here: a time with the number   *)
(* of the request, and of the token, that keeps equal times apart.         *)
(***************************************************************************)
EXTENDS Integers, Sequences, FiniteSets

CONSTANTS
  Window,    \* seconds a counter looks back
  RpmLimit,
  TpmLimit,
  Sizes,     \* total_tokens of the requests
  MaxTime    \* bound on the clock

ASSUME RateAssumption ==
  /\ Window \in Nat \ {0} /\ RpmLimit \in Nat \ {0} /\ TpmLimit \in Nat \ {0}
  /\ Sizes \subseteq Nat /\ MaxTime \in Nat

VARIABLES
  now,
  rpm,       \* SlidingWindowCounter._events of the two counters
  tpm,
  asked,     \* the requests between check() and record(): at most one, <<size>>
  accepted,  \* history: of every request recorded the time and those of its tokens
  refusal    \* the last answer of check(): "none", "RPM" or "TPM"

vars == <<now, rpm, tpm, asked, accepted, refusal>>

Init ==
  /\ now = 0 /\ rpm = {} /\ tpm = {}
  /\ asked = <<>>
  /\ accepted = <<>> /\ refusal = "none"

(* Mutants of Purged: an event leaves a second early; or never. *)
PurgedEarly(events, t) == {e \in events : e[1] > t - Window + 1}
PurgedNever(events, t) == events

(* _purge(t): an event that is Window seconds old is outside the window. *)
Purged(events, t) == {e \in events : e[1] > t - Window}

Tick ==
  /\ now < MaxTime /\ now' = now + 1
  /\ refusal' = "none"
  /\ UNCHANGED <<rpm, tpm, asked, accepted>>

(* check(): the tokens are looked at only if the requests are within their *)
(* limit, and by a clock read after that; the size of this request is not. *)
Check(n) ==
  /\ asked = <<>>
  /\ rpm' = Purged(rpm, now)
  /\ IF Cardinality(rpm') >= RpmLimit
     THEN refusal' = "RPM" /\ UNCHANGED <<now, tpm, asked>>
     ELSE /\ now' \in now .. MaxTime
          /\ tpm' = Purged(tpm, now')
          /\ IF Cardinality(tpm') >= TpmLimit
             THEN refusal' = "TPM" /\ UNCHANGED asked
             ELSE asked' = <<n>> /\ refusal' = "none"
  /\ UNCHANGED accepted

(* The readings of the clock, one after the other, for n tokens. *)
Readings(n) ==
  {times \in [1 .. n -> now .. MaxTime] : \A j, k \in 1 .. n : j <= k => times[j] <= times[k]}

(* Mutant of TokenEvents: one event for the request. *)
OneEvent(i, times) == {<<now, i, 1>>}

TokenEvents(i, times) == {<<times[k], i, k>> : k \in DOMAIN times}

(* record(): request number i, then each of its tokens. *)
Record ==
  /\ asked # <<>> /\ asked' = <<>>
  /\ \E times \in Readings(asked[1]) :
       LET i == Len(accepted) + 1
       IN  /\ rpm' = rpm \cup {<<now, i>>}
           /\ tpm' = tpm \cup TokenEvents(i, times)
           /\ accepted' = Append(accepted, [time |-> now, tokens |-> times])
           /\ now' = IF asked[1] = 0 THEN now ELSE times[asked[1]]
  /\ refusal' = "none"

(* The stream gate refuses or the engine raises: nothing is recorded. *)
Drop ==
  /\ asked # <<>> /\ asked' = <<>>
  /\ refusal' = "none"
  /\ UNCHANGED <<now, rpm, tpm, accepted>>

(* Reading rpm_count or tpm_count purges as well. *)
ReadRpmCount ==
  /\ rpm' = Purged(rpm, now)
  /\ UNCHANGED <<now, tpm, asked, accepted, refusal>>

ReadTpmCount ==
  /\ tpm' = Purged(tpm, now)
  /\ UNCHANGED <<now, rpm, asked, accepted, refusal>>

Next ==
  \/ Tick \/ Record \/ Drop \/ ReadRpmCount \/ ReadTpmCount
  \/ \E n \in Sizes : Check(n)

Spec == Init /\ [][Next]_vars

-----------------------------------------------------------------------------
(* Properties. *)

InWindow(time, t) == time > t - Window /\ time <= t

(* The requests, and the tokens, recorded in the window that ends at t. *)
Within(t) == {i \in DOMAIN accepted : InWindow(accepted[i].time, t)}

Tokens == UNION {{i} \X DOMAIN accepted[i].tokens : i \in DOMAIN accepted}

TokensWithin(t) == {c \in Tokens : InWindow(accepted[c[1]].tokens[c[2]], t)}

(* No window, wherever it is laid, holds more requests than the limit:     *)
(* also when the clock moves on inside check() or record() or between      *)
(* them, and when a counter is read or purged in between.                  *)
RequestsPerWindow == \A t \in 0 .. now : Cardinality(Within(t)) <= RpmLimit

(* What is over the token limit in a window is one request: in a window    *)
(* with a token of a request, the tokens of those recorded before it were  *)
(* below the limit, although each token has a time of its own.             *)
OneRequestOver ==
  \A t \in 0 .. now : \A d \in TokensWithin(t) :
    Cardinality({c \in TokensWithin(t) : c[1] < d[1]}) < TpmLimit

(* A request is refused only if the last minute is really used up: an old  *)
(* event never counts against a client, whenever the clock is read.        *)
RefusedOnlyWhenFull ==
  /\ refusal = "RPM" => Cardinality(Within(now)) >= RpmLimit
  /\ refusal = "TPM" => Cardinality(TokensWithin(now)) >= TpmLimit

=============================================================================
