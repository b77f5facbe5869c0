-------------------------- MODULE RateLimiterProofs --------------------------
(***************************************************************************)
(* The rate limiter for any limits, window, sizes and clock readings: what *)
(* the two counters promise of every window.                               *)
(***************************************************************************)
EXTENDS RateLimiter, FiniteSetTheorems, SequenceTheorems, TLAPS

Entry == [time : Nat, tokens : Seq(Nat)]

RateTypeOK ==
  /\ now \in Nat
  /\ accepted \in Seq(Entry)
  /\ asked = <<>> \/ \E n \in Sizes : asked = <<n>>
  /\ IsFiniteSet(Tokens)

TokenTime(c) == accepted[c[1]].tokens[c[2]]

(* The clock never goes back, so what is recorded is not of the future. *)
TimesPast ==
  /\ \A i \in DOMAIN accepted : accepted[i].time <= now
  /\ \A c \in Tokens : TokenTime(c) <= now

(* A counter has lost only what is outside the window already, and has *)
(* nothing that was not recorded.                                        *)
Recorded == {<<accepted[i].time, i>> : i \in DOMAIN accepted}

RecordedTokens == {<<TokenTime(c), c[1], c[2]>> : c \in Tokens}

CountersKept ==
  /\ Purged(Recorded, now) \subseteq rpm /\ rpm \subseteq Recorded
  /\ Purged(RecordedTokens, now) \subseteq tpm /\ tpm \subseteq RecordedTokens

(* Between check() and record() the window that ends now has room. *)
RoomWhenAsked ==
  asked # <<>> => /\ Cardinality(Within(now)) < RpmLimit
                  /\ Cardinality(TokensWithin(now)) < TpmLimit

RateInv ==
  /\ RateTypeOK
  /\ TimesPast
  /\ CountersKept
  /\ RoomWhenAsked
  /\ RequestsPerWindow
  /\ OneRequestOver
  /\ RefusedOnlyWhenFull

-----------------------------------------------------------------------------
(* Requests and tokens of a window. *)

LEMMA IsToken ==
  ASSUME NEW c
  PROVE  c \in Tokens <=>
           \E i \in DOMAIN accepted : \E k \in DOMAIN accepted[i].tokens : c = <<i, k>>
  BY DEF Tokens

LEMMA TimesAreNumbers ==
  ASSUME RateTypeOK
  PROVE  /\ \A i \in DOMAIN accepted : accepted[i].time \in Nat /\ accepted[i].tokens \in Seq(Nat)
         /\ \A c \in Tokens : /\ TokenTime(c) \in Nat /\ c[1] \in DOMAIN accepted
                              /\ c = <<c[1], c[2]>>
<1>1. \A i \in DOMAIN accepted : accepted[i].time \in Nat /\ accepted[i].tokens \in Seq(Nat)
  <2>1. \A i \in DOMAIN accepted : accepted[i] \in Entry
    BY DEF RateTypeOK
  <2> QED
    BY <2>1 DEF Entry
<1>2. ASSUME NEW c \in Tokens
      PROVE  TokenTime(c) \in Nat /\ c[1] \in DOMAIN accepted /\ c = <<c[1], c[2]>>
  <2>1. PICK i \in DOMAIN accepted : \E k \in DOMAIN accepted[i].tokens : c = <<i, k>>
    BY IsToken
  <2>2. PICK k \in DOMAIN accepted[i].tokens : c = <<i, k>>
    BY <2>1
  <2>3. accepted[i].tokens \in Seq(Nat)
    BY <1>1
  <2>4. accepted[i].tokens[k] \in Nat
    BY <2>3
  <2> QED
    BY <2>2, <2>4 DEF TokenTime
<1> QED
  BY <1>1, <1>2

LEMMA WindowsAre ==
  ASSUME NEW t
  PROVE  /\ Within(t) \in SUBSET DOMAIN accepted /\ TokensWithin(t) \in SUBSET Tokens
         /\ \A i \in DOMAIN accepted :
              i \in Within(t) <=> accepted[i].time > t - Window /\ accepted[i].time <= t
         /\ \A c \in Tokens :
              c \in TokensWithin(t) <=> TokenTime(c) > t - Window /\ TokenTime(c) <= t
  BY DEF Within, TokensWithin, InWindow, TokenTime

LEMMA SmallerWindow ==
  ASSUME RateTypeOK,
         NEW S \in SUBSET DOMAIN accepted, NEW R \in SUBSET S,
         NEW V \in SUBSET Tokens, NEW U \in SUBSET V
  PROVE  /\ IsFiniteSet(S) /\ IsFiniteSet(V)
         /\ Cardinality(R) \in Nat /\ Cardinality(S) \in Nat
         /\ Cardinality(U) \in Nat /\ Cardinality(V) \in Nat
         /\ Cardinality(R) <= Cardinality(S)
         /\ Cardinality(U) <= Cardinality(V)
<1>1. IsFiniteSet(DOMAIN accepted)
  <2>1. DOMAIN accepted = 1 .. Len(accepted) /\ Len(accepted) \in Nat
    BY DEF RateTypeOK
  <2> QED
    BY <2>1, FS_Interval
<1>2. IsFiniteSet(S) /\ IsFiniteSet(V)
  BY <1>1, FS_Subset DEF RateTypeOK
<1> QED
  BY <1>2, FS_Subset, FS_CardinalityType

LEMMA SmallerPart ==
  ASSUME RateTypeOK, NEW V \in SUBSET Tokens, NEW U \in SUBSET V, Cardinality(V) < TpmLimit
  PROVE  Cardinality(U) < TpmLimit
<1>1. /\ Cardinality(U) \in Nat /\ Cardinality(V) \in Nat
      /\ Cardinality(U) <= Cardinality(V)
  BY SmallerWindow
<1> QED
  BY <1>1, RateAssumption

LEMMA CutoffMovesOn ==
  ASSUME NEW s \in Int, NEW t \in Int, s <= t
  PROVE  \A m \in Nat : m > t - Window => m > s - Window
  BY RateAssumption

(* As the clock moves on, the window that ends with it loses but does not *)
(* gain.                                                                   *)
LEMMA WindowMovesOn ==
  ASSUME RateTypeOK, TimesPast, NEW t \in Nat, now <= t
  PROVE  /\ Within(t) \subseteq Within(now) /\ TokensWithin(t) \subseteq TokensWithin(now)
         /\ Cardinality(Within(t)) \in Nat /\ Cardinality(TokensWithin(t)) \in Nat
         /\ Cardinality(Within(now)) \in Nat /\ Cardinality(TokensWithin(now)) \in Nat
         /\ Cardinality(Within(t)) <= Cardinality(Within(now))
         /\ Cardinality(TokensWithin(t)) <= Cardinality(TokensWithin(now))
<1>1. \A m \in Nat : m > t - Window => m > now - Window
  BY CutoffMovesOn DEF RateTypeOK
<1>2. Within(t) \subseteq Within(now)
  BY <1>1, TimesAreNumbers, WindowsAre DEF TimesPast
<1>3. TokensWithin(t) \subseteq TokensWithin(now)
  BY <1>1, TimesAreNumbers, WindowsAre DEF TimesPast
<1> QED
  BY <1>2, <1>3, WindowsAre, SmallerWindow

(* What a counter purged at t holds is as much as the window that ends at t. *)
LEMMA CountersCountWindow ==
  ASSUME RateTypeOK, TimesPast, CountersKept, NEW t \in Nat, now <= t
  PROVE  /\ Cardinality(Purged(rpm, t)) = Cardinality(Within(t))
         /\ Cardinality(Purged(tpm, t)) = Cardinality(TokensWithin(t))
<1>1. \A m \in Nat : m > t - Window => m > now - Window
  BY CutoffMovesOn DEF RateTypeOK
<1>2. IsFiniteSet(Within(t)) /\ IsFiniteSet(TokensWithin(t))
  BY WindowsAre, SmallerWindow
<1>3. Cardinality(Purged(rpm, t)) = Cardinality(Within(t))
  <2> DEFINE P == Purged(rpm, t)
             W == Within(t)
             f == [i \in W |-> <<accepted[i].time, i>>]
  <2>1. \A i \in DOMAIN accepted :
          /\ accepted[i].time \in Nat
          /\ i \in W <=> accepted[i].time > t - Window
    <3>1. \A i \in DOMAIN accepted : accepted[i].time \in Nat /\ accepted[i].time <= t
      BY TimesAreNumbers DEF TimesPast, RateTypeOK
    <3> QED
      BY <3>1, WindowsAre
  <2>2. P = {e \in Recorded : e[1] > t - Window}
    <3>1. \A e \in Recorded : e[1] \in Nat
      BY <2>1 DEF Recorded
    <3>2. \A e \in Recorded : e[1] > t - Window => e \in rpm
      BY <1>1, <3>1 DEF CountersKept, Purged
    <3> QED
      BY <3>2 DEF CountersKept, Purged
  <2>3. \A e : e \in P <=> \E i \in W : e = <<accepted[i].time, i>>
    <3>1. W \in SUBSET DOMAIN accepted
      BY WindowsAre
    <3> QED
      BY <2>1, <2>2, <3>1 DEF Recorded
  <2> HIDE DEF P, W
  <2>4. f \in Bijection(W, P)
    <3>1. f \in [W -> P]
      BY <2>3
    <3>2. \A i, j \in W : f[i] = f[j] => i = j
      OBVIOUS
    <3>3. \A e \in P : \E i \in W : f[i] = e
      BY <2>3
    <3> HIDE DEF f
    <3> QED
      BY <3>1, <3>2, <3>3 DEF Bijection, Injection, IsInjective, Surjection
  <2>5. ExistsBijection(W, P)
    BY <2>4 DEF ExistsBijection
  <2> QED
    BY <1>2, <2>5, FS_Bijection DEF P, W
<1>4. Cardinality(Purged(tpm, t)) = Cardinality(TokensWithin(t))
  <2> DEFINE P == Purged(tpm, t)
             W == TokensWithin(t)
             g == [c \in W |-> <<TokenTime(c), c[1], c[2]>>]
  <2>1. \A c \in Tokens :
          /\ TokenTime(c) \in Nat /\ c = <<c[1], c[2]>>
          /\ c \in W <=> TokenTime(c) > t - Window
    <3>1. \A c \in Tokens : TokenTime(c) \in Nat /\ TokenTime(c) <= t /\ c = <<c[1], c[2]>>
      BY TimesAreNumbers DEF TimesPast, RateTypeOK
    <3> QED
      BY <3>1, WindowsAre
  <2>2. P = {e \in RecordedTokens : e[1] > t - Window}
    <3>1. \A e \in RecordedTokens : e[1] \in Nat
      BY <2>1 DEF RecordedTokens
    <3>2. \A e \in RecordedTokens : e[1] > t - Window => e \in tpm
      BY <1>1, <3>1 DEF CountersKept, Purged
    <3> QED
      BY <3>2 DEF CountersKept, Purged
  <2>3. W \in SUBSET Tokens
    BY WindowsAre
  <2> HIDE DEF P, W
  <2>4. ASSUME NEW e
        PROVE  e \in P <=> \E c \in W : e = <<TokenTime(c), c[1], c[2]>>
    <3>1. ASSUME e \in P PROVE \E c \in W : e = <<TokenTime(c), c[1], c[2]>>
      <4>1. PICK c \in Tokens : e = <<TokenTime(c), c[1], c[2]>> /\ e[1] > t - Window
        BY <2>2, <3>1 DEF RecordedTokens
      <4>2. c \in W
        BY <2>1, <4>1
      <4> QED
        BY <4>1, <4>2
    <3>2. ASSUME NEW c \in W, e = <<TokenTime(c), c[1], c[2]>> PROVE e \in P
      <4>1. c \in Tokens /\ TokenTime(c) > t - Window
        BY <2>1, <2>3
      <4>2. e \in RecordedTokens /\ e[1] > t - Window
        BY <3>2, <4>1 DEF RecordedTokens
      <4> QED
        BY <2>2, <4>2
    <3> QED
      BY <3>1, <3>2
  <2>5. g \in Bijection(W, P)
    <3>1. g \in [W -> P]
      BY <2>4
    <3>2. \A c, d \in W : g[c] = g[d] => c = d
      BY <2>1, <2>3
    <3>3. \A e \in P : \E c \in W : g[c] = e
      BY <2>4
    <3> HIDE DEF g
    <3> QED
      BY <3>1, <3>2, <3>3 DEF Bijection, Injection, IsInjective, Surjection
  <2>6. ExistsBijection(W, P)
    BY <2>5 DEF ExistsBijection
  <2> QED
    BY <1>2, <2>6, FS_Bijection DEF P, W
<1> QED
  BY <1>3, <1>4

-----------------------------------------------------------------------------
(* The actions. *)

LEMMA InitEstablishesRateInv == Init => RateInv
<1> SUFFICES ASSUME Init PROVE RateInv
  OBVIOUS
<1> USE DEF Init
<1>1. DOMAIN accepted = {} /\ Tokens = {}
  BY DEF Tokens
<1>2. \A t : Within(t) = {} /\ TokensWithin(t) = {}
  BY <1>1 DEF Within, TokensWithin
<1>3. RpmLimit \in Nat \ {0} /\ TpmLimit \in Nat \ {0} /\ Cardinality({}) = 0
  BY RateAssumption, FS_EmptySet
<1>4. RateTypeOK /\ TimesPast
  <2>1. accepted \in Seq(Entry)
    OBVIOUS
  <2>2. IsFiniteSet(Tokens)
    BY <1>1, FS_EmptySet
  <2> QED
    BY <1>1, <2>1, <2>2 DEF RateTypeOK, TimesPast
<1>5. CountersKept
  <2>1. Recorded = {} /\ RecordedTokens = {}
    BY <1>1 DEF Recorded, RecordedTokens
  <2> QED
    BY <2>1 DEF CountersKept, Purged
<1>6. RoomWhenAsked /\ RequestsPerWindow /\ OneRequestOver /\ RefusedOnlyWhenFull
  <2>1. \A t : Cardinality(Within(t)) <= RpmLimit
    <3>1. \A t : Cardinality(Within(t)) = 0
      BY <1>2, <1>3
    <3>2. 0 <= RpmLimit
      BY <1>3
    <3> QED
      BY <3>1, <3>2
  <2>2. RoomWhenAsked /\ RefusedOnlyWhenFull
    BY DEF RoomWhenAsked, RefusedOnlyWhenFull
  <2> QED
    BY <1>2, <2>1, <2>2 DEF RequestsPerWindow, OneRequestOver
<1> QED
  BY <1>4, <1>5, <1>6 DEF RateInv

(* What stays true when nothing is recorded, however far the clock moves. *)
LEMMA ClockMovesOn ==
  ASSUME RateInv, accepted' = accepted, now' \in Nat, now <= now',
         asked' = <<>> \/ \E n \in Sizes : asked' = <<n>>
  PROVE  /\ RateTypeOK' /\ TimesPast' /\ RequestsPerWindow' /\ OneRequestOver'
         /\ \A t : Within(t)' = Within(t) /\ TokensWithin(t)' = TokensWithin(t)
<1>1. /\ RateTypeOK /\ TimesPast /\ now \in Nat
      /\ RpmLimit \in Nat /\ TpmLimit \in Nat
  BY RateAssumption DEF RateInv, RateTypeOK
<1>2. Tokens' = Tokens /\ \A c : TokenTime(c)' = TokenTime(c)
  BY DEF Tokens, TokenTime
<1>3. \A t : Within(t)' = Within(t) /\ TokensWithin(t)' = TokensWithin(t)
  BY <1>2 DEF Within, TokensWithin
<1>4. RateTypeOK'
  BY <1>1, <1>2 DEF RateTypeOK
<1>5. TimesPast'
  <2>1. \A m \in Nat : m <= now => m <= now'
    BY <1>1
  <2> QED
    BY <1>1, <1>2, <2>1, TimesAreNumbers DEF TimesPast
<1>6. RequestsPerWindow'
  <2> SUFFICES ASSUME NEW t \in 0 .. now' PROVE Cardinality(Within(t)) <= RpmLimit
    BY <1>3 DEF RequestsPerWindow
  <2>1. CASE t <= now
    BY <1>1, <2>1 DEF RateInv, RequestsPerWindow
  <2>2. CASE now <= t
    <3>1. Cardinality(Within(now)) <= RpmLimit
      BY <1>1 DEF RateInv, RequestsPerWindow
    <3>2. /\ Cardinality(Within(t)) \in Nat /\ Cardinality(Within(now)) \in Nat
          /\ Cardinality(Within(t)) <= Cardinality(Within(now))
      BY <1>1, <2>2, WindowMovesOn
    <3> QED
      BY <1>1, <3>1, <3>2
  <2> QED
    BY <1>1, <2>1, <2>2
<1>7. OneRequestOver'
  <2> SUFFICES ASSUME NEW t \in 0 .. now', NEW d \in TokensWithin(t)
               PROVE  Cardinality({c \in TokensWithin(t) : c[1] < d[1]}) < TpmLimit
    BY <1>3 DEF OneRequestOver
  <2>1. CASE t <= now
    <3>1. t \in 0 .. now
      BY <1>1, <2>1
    <3>2. OneRequestOver
      BY DEF RateInv
    <3> QED
      BY <3>1, <3>2 DEF OneRequestOver
  <2>2. CASE now <= t
    <3> DEFINE U == {c \in TokensWithin(t) : c[1] < d[1]}
               V == {c \in TokensWithin(now) : c[1] < d[1]}
    <3>1. TokensWithin(t) \subseteq TokensWithin(now) /\ TokensWithin(now) \subseteq Tokens
      BY <1>1, <2>2, WindowMovesOn, WindowsAre
    <3>2. Cardinality(V) < TpmLimit
      BY <1>1, <3>1 DEF RateInv, OneRequestOver
    <3>3. U \in SUBSET V /\ V \in SUBSET Tokens
      BY <3>1
    <3> HIDE DEF U, V
    <3>4. /\ Cardinality(U) <= Cardinality(V)
          /\ Cardinality(U) \in Nat /\ Cardinality(V) \in Nat
      BY <1>1, <3>3, SmallerWindow
    <3>5. Cardinality(U) < TpmLimit
      BY <1>1, <3>2, <3>4
    <3> QED
      BY <3>5 DEF U
  <2> QED
    BY <1>1, <2>1, <2>2
<1> QED
  BY <1>3, <1>4, <1>5, <1>6, <1>7

(* Purging, now or a little later, loses nothing that a window to come *)
(* could hold.                                                          *)
LEMMA PurgedKept ==
  ASSUME RateInv, accepted' = accepted, now' \in Nat, now <= now',
         NEW t \in now .. now', NEW u \in now .. now',
         rpm' = rpm \/ rpm' = Purged(rpm, t), tpm' = tpm \/ tpm' = Purged(tpm, u)
  PROVE  CountersKept'
<1>1. /\ RateTypeOK /\ CountersKept /\ now \in Nat /\ Window \in Nat
  BY RateAssumption DEF RateInv, RateTypeOK
<1>2. Recorded' = Recorded /\ RecordedTokens' = RecordedTokens
  BY DEF Recorded, RecordedTokens, Tokens, TokenTime
<1>3. /\ \A e \in Recorded : e[1] \in Nat
      /\ \A e \in RecordedTokens : e[1] \in Nat
  BY <1>1, TimesAreNumbers DEF Recorded, RecordedTokens
<1>4. \A m \in Nat : m > now' - Window => m > now - Window /\ m > t - Window /\ m > u - Window
  <2>1. /\ now \in Int /\ now' \in Int /\ t \in Int /\ u \in Int
        /\ t <= now' /\ u <= now'
    BY <1>1
  <2> QED
    BY <2>1, CutoffMovesOn
<1>5. Purged(Recorded, now') \subseteq rpm' /\ rpm' \subseteq Recorded
  BY <1>1, <1>3, <1>4 DEF CountersKept, Purged
<1>6. Purged(RecordedTokens, now') \subseteq tpm' /\ tpm' \subseteq RecordedTokens
  BY <1>1, <1>3, <1>4 DEF CountersKept, Purged
<1>7. \A E : Purged(E, now)' = Purged(E', now')
  BY DEF Purged
<1> QED
  BY <1>2, <1>5, <1>6 DEF CountersKept, Purged

(* Every step but record(). *)
LEMMA NothingRecordedKeeps ==
  ASSUME RateInv,
         Tick \/ Drop \/ ReadRpmCount \/ ReadTpmCount \/ UNCHANGED vars
  PROVE  RateInv'
<1>1. /\ now \in Nat /\ RateTypeOK /\ TimesPast
      /\ RpmLimit \in Nat /\ TpmLimit \in Nat
  BY RateAssumption DEF RateInv, RateTypeOK
<1>2. /\ accepted' = accepted /\ now' \in Nat /\ now <= now'
      /\ asked' = <<>> \/ asked' = asked
      /\ refusal' = "none" \/ (refusal' = refusal /\ now' = now)
      /\ rpm' = rpm \/ rpm' = Purged(rpm, now)
      /\ tpm' = tpm \/ tpm' = Purged(tpm, now)
  BY <1>1 DEF Tick, Drop, ReadRpmCount, ReadTpmCount, vars
<1>3. /\ RateTypeOK' /\ TimesPast' /\ RequestsPerWindow' /\ OneRequestOver'
      /\ \A t : Within(t)' = Within(t) /\ TokensWithin(t)' = TokensWithin(t)
  BY <1>1, <1>2, ClockMovesOn DEF RateTypeOK
<1>4. CountersKept'
  BY <1>1, <1>2, PurgedKept
<1>5. Within(now)' = Within(now') /\ TokensWithin(now)' = TokensWithin(now')
  BY <1>2 DEF Within, TokensWithin, Tokens
<1>6. /\ Cardinality(Within(now')) \in Nat /\ Cardinality(TokensWithin(now')) \in Nat
      /\ Cardinality(Within(now)) \in Nat /\ Cardinality(TokensWithin(now)) \in Nat
      /\ Cardinality(Within(now')) <= Cardinality(Within(now))
      /\ Cardinality(TokensWithin(now')) <= Cardinality(TokensWithin(now))
  BY <1>1, <1>2, WindowMovesOn
<1>7. RoomWhenAsked'
  BY <1>1, <1>2, <1>5, <1>6 DEF RateInv, RoomWhenAsked
<1>8. RefusedOnlyWhenFull'
  BY <1>2, <1>5 DEF RateInv, RefusedOnlyWhenFull
<1> QED
  BY <1>3, <1>4, <1>7, <1>8 DEF RateInv

LEMMA CheckKeeps ==
  ASSUME RateInv, NEW n \in Sizes, Check(n)
  PROVE  RateInv'
<1>1. /\ RateTypeOK /\ TimesPast /\ CountersKept /\ now \in Nat
      /\ RpmLimit \in Nat /\ TpmLimit \in Nat
  BY RateAssumption DEF RateInv, RateTypeOK
<1>2. /\ asked = <<>> /\ rpm' = Purged(rpm, now) /\ accepted' = accepted
      /\ tpm' = Purged(tpm, now') \/ tpm' = tpm
      /\ now' \in Nat /\ now <= now'
      /\ asked' = <<>> \/ asked' = <<n>>
  <2>1. now' = now \/ now' \in now .. MaxTime
    BY DEF Check
  <2> QED
    BY <1>1, <2>1, RateAssumption DEF Check
<1>3. /\ Cardinality(Purged(rpm, now)) = Cardinality(Within(now))
      /\ Cardinality(Purged(tpm, now')) = Cardinality(TokensWithin(now'))
  BY <1>1, <1>2, CountersCountWindow
<1>4. /\ Cardinality(Within(now')) \in Nat /\ Cardinality(TokensWithin(now')) \in Nat
      /\ Cardinality(Within(now)) \in Nat
      /\ Cardinality(Within(now')) <= Cardinality(Within(now))
  BY <1>1, <1>2, WindowMovesOn
<1>5. RateTypeOK' /\ TimesPast' /\ RequestsPerWindow' /\ OneRequestOver'
  BY <1>1, <1>2, ClockMovesOn
<1>6. CountersKept'
  <2>1. now \in now .. now' /\ now' \in now .. now'
    BY <1>1, <1>2
  <2> QED
    BY <1>2, <2>1, PurgedKept
<1>7. Within(now)' = Within(now') /\ TokensWithin(now)' = TokensWithin(now')
  BY <1>2 DEF Within, TokensWithin, Tokens
<1>8. RoomWhenAsked' /\ RefusedOnlyWhenFull'
  <2>1. CASE Cardinality(rpm') >= RpmLimit
    <3>1. refusal' = "RPM" /\ asked' = asked /\ now' = now
      BY <2>1 DEF Check
    <3> QED
      BY <1>2, <1>3, <1>7, <2>1, <3>1 DEF RoomWhenAsked, RefusedOnlyWhenFull
  <2>2. CASE ~ (Cardinality(rpm') >= RpmLimit)
    <3>1. tpm' = Purged(tpm, now')
      BY <2>2 DEF Check
    <3>2. CASE Cardinality(tpm') >= TpmLimit
      <4>1. refusal' = "TPM" /\ asked' = asked
        BY <2>2, <3>2 DEF Check
      <4> QED
        BY <1>2, <1>3, <1>7, <3>1, <3>2, <4>1 DEF RoomWhenAsked, RefusedOnlyWhenFull
    <3>3. CASE ~ (Cardinality(tpm') >= TpmLimit)
      <4>1. refusal' = "none"
        BY <2>2, <3>3 DEF Check
      <4>2. Cardinality(Within(now')) < RpmLimit /\ Cardinality(TokensWithin(now')) < TpmLimit
        BY <1>1, <1>2, <1>3, <1>4, <2>2, <3>1, <3>3
      <4> QED
        BY <1>7, <4>1, <4>2 DEF RoomWhenAsked, RefusedOnlyWhenFull
    <3> QED
      BY <3>2, <3>3
  <2> QED
    BY <2>1, <2>2
<1> QED
  BY <1>5, <1>6, <1>8 DEF RateInv

(* A request is recorded: the window that ends as record() begins had room *)
(* for it, and no earlier window can hold it or a token of it.              *)
LEMMA RecordKeeps ==
  ASSUME RateInv, Record
  PROVE  RateInv'
<1>0. PICK i, n : i = Len(accepted) + 1 /\ n = asked[1]
  OBVIOUS
<1>1. PICK times \in Readings(n) :
        /\ asked # <<>> /\ asked' = <<>> /\ refusal' = "none"
        /\ rpm' = rpm \cup {<<now, i>>}
        /\ tpm' = tpm \cup TokenEvents(i, times)
        /\ accepted' = Append(accepted, [time |-> now, tokens |-> times])
        /\ now' = IF n = 0 THEN now ELSE times[n]
  BY <1>0 DEF Record
<1>2. /\ RateTypeOK /\ TimesPast /\ CountersKept /\ now \in Nat
      /\ RpmLimit \in Nat \ {0} /\ TpmLimit \in Nat \ {0} /\ Window \in Nat \ {0}
      /\ Cardinality(Within(now)) < RpmLimit
      /\ Cardinality(TokensWithin(now)) < TpmLimit
  BY <1>1, RateAssumption DEF RateInv, RateTypeOK, RoomWhenAsked
<1>3. n \in Nat
  <2>1. PICK m \in Sizes : asked = <<m>>
    BY <1>1, <1>2 DEF RateTypeOK
  <2>2. n = m
    BY <1>0, <2>1
  <2> QED
    BY <2>2, RateAssumption
<1>4. /\ times \in [1 .. n -> Nat] /\ times \in Seq(Nat) /\ DOMAIN times = 1 .. n
      /\ now' \in Nat /\ now <= now'
      /\ \A k \in 1 .. n : times[k] \in Nat /\ now <= times[k] /\ times[k] <= now'
  <2>1. /\ times \in [1 .. n -> now .. MaxTime] /\ MaxTime \in Nat
        /\ \A j, k \in 1 .. n : j <= k => times[j] <= times[k]
    BY RateAssumption DEF Readings
  <2>2. \A k \in 1 .. n : times[k] \in Nat /\ now <= times[k]
    BY <1>2, <2>1
  <2>3. n # 0 => n \in 1 .. n
    BY <1>3
  <2>4. now' \in Nat /\ now <= now'
    BY <1>1, <1>2, <2>2, <2>3
  <2>5. \A k \in 1 .. n : times[k] <= now'
    <3> SUFFICES ASSUME NEW k \in 1 .. n PROVE times[k] <= now'
      OBVIOUS
    <3>1. n # 0 /\ k <= n
      BY <1>3
    <3> QED
      BY <1>1, <2>1, <2>3, <3>1
  <2>6. times \in [1 .. n -> Nat] /\ DOMAIN times = 1 .. n
    BY <2>1, <2>2
  <2>7. times \in Seq(Nat)
    BY <1>3, <2>6, SeqDef
  <2> QED
    BY <2>2, <2>4, <2>5, <2>6, <2>7
<1> DEFINE new == [time |-> now, tokens |-> times]
<1>5. new.time = now /\ new.tokens = times /\ new \in Entry
  BY <1>2, <1>4 DEF Entry
<1> HIDE DEF new
<1>6. /\ Len(accepted) \in Nat /\ DOMAIN accepted = 1 .. Len(accepted)
      /\ DOMAIN accepted' = DOMAIN accepted \cup {i} /\ i \notin DOMAIN accepted
      /\ i \in Nat /\ accepted'[i] = new
      /\ \A j \in DOMAIN accepted : accepted'[j] = accepted[j] /\ j < i /\ j \in Nat
      /\ accepted' \in Seq(Entry)
  <2>1. accepted' = Append(accepted, new) /\ accepted \in Seq(Entry)
    BY <1>1, <1>2 DEF new, RateTypeOK
  <2> QED
    BY <1>0, <1>5, <2>1
<1> DEFINE N == {<<i, k>> : k \in 1 .. n}
<1>7. Tokens' = Tokens \cup N
  <2>1. ASSUME NEW c
        PROVE  c \in Tokens' <=> c \in Tokens \/ c \in N
    <3>1. c \in Tokens' <=> \E j \in DOMAIN accepted' :
                               \E k \in DOMAIN accepted'[j].tokens : c = <<j, k>>
      BY DEF Tokens
    <3> QED
      BY <1>4, <1>5, <1>6, <3>1, IsToken
  <2> QED
    BY <2>1
<1>8. /\ \A c \in Tokens : /\ TokenTime(c)' = TokenTime(c)
                           /\ c[1] \in DOMAIN accepted /\ TokenTime(c) \in Nat
      /\ \A k \in 1 .. n : TokenTime(<<i, k>>)' = times[k]
      /\ \A j \in DOMAIN accepted : accepted[j].time \in Nat
  <2>1. \A c \in Tokens : TokenTime(c) \in Nat /\ c[1] \in DOMAIN accepted
    BY <1>2, TimesAreNumbers
  <2>2. \A j \in DOMAIN accepted : accepted[j].time \in Nat
    BY <1>2, TimesAreNumbers
  <2>3. \A c \in Tokens : TokenTime(c)' = TokenTime(c)
    BY <1>6, <2>1 DEF TokenTime
  <2>4. ASSUME NEW k \in 1 .. n PROVE TokenTime(<<i, k>>)' = times[k]
    <3>1. <<i, k>>[1] = i /\ <<i, k>>[2] = k /\ accepted'[i].tokens = times
      BY <1>5, <1>6
    <3> QED
      BY <3>1 DEF TokenTime
  <2> QED
    BY <2>1, <2>2, <2>3, <2>4
<1>9. RateTypeOK' /\ TimesPast'
  <2>1. IsFiniteSet(N)
    <3>1. N = {i} \X (1 .. n) /\ 1 \in Int /\ n \in Int
      BY <1>3
    <3>2. IsFiniteSet({i}) /\ IsFiniteSet(1 .. n)
      BY <3>1, FS_Singleton, FS_Interval
    <3> HIDE DEF N
    <3> QED
      BY <3>1, <3>2, FS_Product
  <2>2. IsFiniteSet(Tokens')
    <3> HIDE DEF N
    <3> QED
      BY <1>2, <1>7, <2>1, FS_Union DEF RateTypeOK
  <2>3. \A m \in Nat : m <= now => m <= now'
    BY <1>2, <1>4
  <2>4. \A j \in DOMAIN accepted' : accepted'[j].time <= now'
    BY <1>2, <1>4, <1>5, <1>6, <1>8, <2>3 DEF TimesPast
  <2>5. \A c \in Tokens' : TokenTime(c)' <= now'
    <3>1. \A c \in Tokens : TokenTime(c)' <= now'
      BY <1>2, <1>8, <2>3 DEF TimesPast
    <3>2. \A c \in N : TokenTime(c)' <= now'
      BY <1>4, <1>8
    <3> HIDE DEF N
    <3> QED
      BY <1>7, <3>1, <3>2
  <2>6. TimesPast'
    BY <2>4, <2>5 DEF TimesPast
  <2> QED
    BY <1>1, <1>4, <1>6, <2>2, <2>6 DEF RateTypeOK
<1>10. CountersKept'
  <2>1. Recorded' = Recorded \cup {<<now, i>>}
    BY <1>5, <1>6 DEF Recorded
  <2>2. RecordedTokens' = RecordedTokens \cup TokenEvents(i, times)
    <3> DEFINE E(c) == <<TokenTime(c)', c[1], c[2]>>
    <3>1. {E(c) : c \in Tokens} = RecordedTokens
      BY <1>8 DEF RecordedTokens
    <3>2. {E(c) : c \in N} = TokenEvents(i, times)
      <4>1. \A k \in 1 .. n : E(<<i, k>>) = <<times[k], i, k>>
        BY <1>8
      <4> HIDE DEF E
      <4>2. {E(c) : c \in N} = {<<times[k], i, k>> : k \in 1 .. n}
        BY <4>1
      <4> QED
        BY <1>4, <4>2 DEF TokenEvents
    <3>3. RecordedTokens' = {E(c) : c \in Tokens \cup N}
      BY <1>7 DEF RecordedTokens
    <3> HIDE DEF E, N
    <3> QED
      BY <3>1, <3>2, <3>3
  <2>3. /\ \A e \in Recorded : e[1] \in Nat
        /\ \A e \in RecordedTokens : e[1] \in Nat
    BY <1>8 DEF Recorded, RecordedTokens
  <2>4. \A m \in Nat : m > now' - Window => m > now - Window
    <3>1. now \in Int /\ now' \in Int /\ now <= now'
      BY <1>2, <1>4
    <3> QED
      BY <3>1, CutoffMovesOn
  <2>5. Purged(Recorded', now') \subseteq rpm' /\ rpm' \subseteq Recorded'
    BY <1>1, <1>2, <2>1, <2>3, <2>4 DEF CountersKept, Purged
  <2>6. Purged(RecordedTokens', now') \subseteq tpm' /\ tpm' \subseteq RecordedTokens'
    BY <1>1, <1>2, <2>2, <2>3, <2>4 DEF CountersKept, Purged
  <2> QED
    BY <2>5, <2>6 DEF CountersKept, Purged
<1>11. RoomWhenAsked' /\ RefusedOnlyWhenFull'
  BY <1>1 DEF RoomWhenAsked, RefusedOnlyWhenFull
<1>12. /\ \A t \in Nat : t < now => Within(t)' = Within(t)
       /\ \A t \in Nat : now <= t => Within(t)' \subseteq Within(now) \cup {i}
  <2>1. \A t : Within(t)' = {j \in DOMAIN accepted' : InWindow(accepted'[j].time, t)}
    BY DEF Within
  <2>2. ASSUME NEW t \in Nat, t < now PROVE Within(t)' = Within(t)
    <3>1. ~ (now <= t)
      BY <1>2, <2>2
    <3> QED
      BY <1>5, <1>6, <3>1 DEF Within, InWindow
  <2>3. ASSUME NEW t \in Nat, now <= t PROVE Within(t)' \subseteq Within(t) \cup {i}
    BY <1>6 DEF Within
  <2>4. \A t \in Nat : now <= t => Within(t) \subseteq Within(now)
    BY <1>2, WindowMovesOn
  <2> QED
    BY <2>2, <2>3, <2>4
<1>13. RequestsPerWindow'
  <2> SUFFICES ASSUME NEW t \in 0 .. now' PROVE Cardinality(Within(t)') <= RpmLimit
    BY DEF RequestsPerWindow
  <2>1. CASE t < now
    BY <1>2, <1>12, <2>1 DEF RateInv, RequestsPerWindow
  <2>2. CASE now <= t
    <3> DEFINE W == Within(now)
               R == Within(t)'
    <3>1. IsFiniteSet(W) /\ Cardinality(W) \in Nat /\ i \notin W
      BY <1>2, <1>6, WindowsAre, SmallerWindow
    <3>2. R \subseteq W \cup {i}
      BY <1>12, <2>2
    <3>3. Cardinality(W) < RpmLimit
      BY <1>2
    <3> HIDE DEF W, R
    <3>4. IsFiniteSet(W \cup {i}) /\ Cardinality(W \cup {i}) = Cardinality(W) + 1
      BY <3>1, FS_AddElement
    <3>5. Cardinality(R) <= Cardinality(W \cup {i}) /\ Cardinality(R) \in Nat
      BY <3>2, <3>4, FS_Subset, FS_CardinalityType
    <3>6. Cardinality(R) <= RpmLimit
      BY <1>2, <3>1, <3>3, <3>4, <3>5
    <3> QED
      BY <3>6 DEF R
  <2> QED
    BY <1>2, <2>1, <2>2
<1>14. OneRequestOver'
  <2> SUFFICES ASSUME NEW t \in 0 .. now', NEW d \in TokensWithin(t)'
               PROVE  Cardinality({c \in TokensWithin(t)' : c[1] < d[1]}) < TpmLimit
    BY DEF OneRequestOver
  <2> DEFINE R == {c \in TokensWithin(t)' : c[1] < d[1]}
             S == {c \in TokensWithin(t) : c[1] < d[1]}
             V == {c \in TokensWithin(now) : c[1] < d[1]}
  <2>1. /\ \A c \in Tokens : c \in TokensWithin(t)' <=> c \in TokensWithin(t)
        /\ \A k \in 1 .. n : <<i, k>> \in TokensWithin(t)' => now <= t
        /\ TokensWithin(t)' \subseteq Tokens \cup N
        /\ TokensWithin(t) \subseteq Tokens /\ TokensWithin(now) \subseteq Tokens
    <3>1. TokensWithin(t)' = {c \in Tokens' : InWindow(TokenTime(c)', t)}
      BY DEF TokensWithin, TokenTime
    <3>2. TokensWithin(t) = {c \in Tokens : InWindow(TokenTime(c), t)}
      BY DEF TokensWithin, TokenTime
    <3>3. \A k \in 1 .. n : <<i, k>> \in TokensWithin(t)' => times[k] <= t
      <4>1. \A c \in TokensWithin(t)' : TokenTime(c)' <= t
        BY <3>1 DEF InWindow
      <4> QED
        BY <1>8, <4>1
    <3>4. \A k \in 1 .. n : times[k] <= t => now <= t
      BY <1>2, <1>4
    <3>5. \A c \in Tokens : c \in TokensWithin(t)' <=> c \in TokensWithin(t)
      <4> HIDE DEF N
      <4> QED
        BY <1>7, <1>8, <3>1, <3>2
    <3> QED
      BY <1>7, <3>1, <3>3, <3>4, <3>5, WindowsAre
  <2>2. R \subseteq S
    <3>1. \A k \in 1 .. n : <<i, k>>[1] = i
      OBVIOUS
    <3>2. d[1] <= i /\ d[1] \in Nat
      BY <1>6, <1>8, <2>1, <3>1
    <3>3. \A c \in N : ~ (c[1] < d[1])
      BY <1>6, <3>1, <3>2
    <3> QED
      BY <2>1, <3>3
  <2>3. CASE d \in Tokens /\ t <= now
    <3>1. Cardinality(S) < TpmLimit
      BY <1>2, <2>1, <2>3 DEF RateInv, OneRequestOver
    <3> QED
      BY <1>2, <2>1, <2>2, <3>1, SmallerPart
  <2>4. CASE now <= t
    <3>1. TokensWithin(t) \subseteq TokensWithin(now)
      BY <1>2, <2>4, WindowMovesOn
    <3>2. R \subseteq TokensWithin(now)
      BY <2>2, <3>1
    <3> QED
      BY <1>2, <2>1, <3>2, SmallerPart
  <2> QED
    BY <1>2, <2>1, <2>3, <2>4
<1> QED
  BY <1>9, <1>10, <1>11, <1>13, <1>14 DEF RateInv

LEMMA NextKeepsRateInv == RateInv /\ [Next]_vars => RateInv'
  BY NothingRecordedKeeps, RecordKeeps, CheckKeeps DEF Next

LEMMA RateInvHolds == Spec => []RateInv
  BY InitEstablishesRateInv, NextKeepsRateInv, PTL DEF Spec

(* No window of the clock holds more requests than the limit. *)
THEOREM RateRequestsPerWindow == Spec => []RequestsPerWindow
<1>1. RateInv => RequestsPerWindow
  BY DEF RateInv
<1> QED
  BY <1>1, RateInvHolds, PTL

(* Whatever the sizes, a window is over its tokens by one request at most. *)
THEOREM RateOneRequestOver == Spec => []OneRequestOver
<1>1. RateInv => OneRequestOver
  BY DEF RateInv
<1> QED
  BY <1>1, RateInvHolds, PTL

(* Nobody is refused for what has left the window. *)
THEOREM RateRefusedOnlyWhenFull == Spec => []RefusedOnlyWhenFull
<1>1. RateInv => RefusedOnlyWhenFull
  BY DEF RateInv
<1> QED
  BY <1>1, RateInvHolds, PTL

=============================================================================
