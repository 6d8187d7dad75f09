----------------------------- MODULE FetchingProofs -----------------------------
(***************************************************************************)
(* Theorems about Fetching, for any number of tasks and hosts, intervals,  *)
(* retries and redirects.                                                  *)
(***************************************************************************)
EXTENDS Fetching, TLAPS

Steps == {"idle", "pacing", "check", "next", "send", "backoff"}
Bounded == [step: Steps, host: Host \cup {Nobody}, at: Host \cup {Nobody},
            hops: 0..MaxRequests, attempt: 0..MaxRetries]

------------------------------------------------------------------------------
(* Types and limits.                                                       *)

\* What a task in this step of its fetch has at hand; another redirect is within
\* the limit.
Fits(p) ==
    /\ p.step = "idle" => p = Idle
    /\ p.step # "idle" => p.host \in Host
    /\ p.step \in {"check", "next", "send"} => p.at \in Host
    /\ p.step \in {"check", "send"} => p.hops < MaxRequests

Limited == FetchTypeOK /\ \A t \in Fetcher : Fits(fetch[t])

LEMMA IdleFits == Idle \in Bounded /\ Fits(Idle) /\ Idle.step = "idle"
  BY FetchingAssumption DEF Idle, Bounded, Fits, Steps

LEMMA InitLimited == FetchInit => Limited
<1> SUFFICES ASSUME FetchInit PROVE Limited
  OBVIOUS
<1>1. fetch \in [Fetcher -> Bounded] /\ \A t \in Fetcher : fetch[t] = Idle
  BY IdleFits DEF FetchInit
<1>2. /\ slot \in [Host -> Int] /\ (\A h \in Host : slot[h] >= -Forgotten)
      /\ wait \in [Fetcher -> Nat]
  BY FetchingAssumption DEF FetchInit, Forgotten
<1> QED
  BY <1>1, <1>2, IdleFits DEF FetchInit, Limited, FetchTypeOK, Checking, Bounded, Steps

\* A task may go on to any step that fits, if it does not walk away from a lookup.
LEMMA MoveLimited ==
    ASSUME Limited, NEW t \in Fetcher, NEW p \in Bounded, Fits(p),
           fetch' = [fetch EXCEPT ![t] = p],
           asking' = asking, asking # t \/ p.step \in {"check", "next"},
           UNCHANGED <<verdict, late, stale>>,
           slot' \in [Host -> Int], \A h \in Host : slot'[h] >= -Forgotten,
           wait' \in [Fetcher -> Nat]
    PROVE  Limited'
<1>1. fetch \in [Fetcher -> Bounded]
  BY DEF Limited, FetchTypeOK, Bounded, Steps
<1>2. /\ fetch' \in [Fetcher -> Bounded] /\ fetch'[t] = p
      /\ \A u \in Fetcher \ {t} : fetch'[u] = fetch[u]
  BY <1>1
<1>3. \A u \in Fetcher : Fits(fetch'[u])
  BY <1>2 DEF Limited
<1>4. asking' # Nobody => Checking(asking)'
  BY <1>2 DEF Limited, FetchTypeOK, Checking
<1> QED
  BY <1>2, <1>3, <1>4 DEF Limited, FetchTypeOK, Fits, Checking, Bounded, Steps

\* The records that the steps of a fetch lead to.
LEMMA NextFits ==
    ASSUME NEW p \in Bounded, Fits(p), p.step # "idle"
    PROVE  /\ LET q == [p EXCEPT !.step = "check", !.at = p.host, !.hops = 0]
              IN q \in Bounded /\ Fits(q) /\ q.step = "check"
           /\ p.step = "check" =>
                LET q == [p EXCEPT !.step = "send"] IN q \in Bounded /\ Fits(q)
           /\ p.step = "next" /\ p.hops < MaxRequests =>
                LET q == [p EXCEPT !.step = "check"] IN q \in Bounded /\ Fits(q) /\ q.step = "check"
           /\ p.step = "send" => \A h \in Host :
                LET q == [p EXCEPT !.step = "next", !.at = h, !.hops = @ + 1]
                IN q \in Bounded /\ Fits(q) /\ q.step = "next"
           /\ p.attempt < MaxRetries =>
                LET q == [p EXCEPT !.step = "backoff", !.attempt = @ + 1]
                IN q \in Bounded /\ Fits(q)
           /\ LET q == [p EXCEPT !.step = "pacing"] IN q \in Bounded /\ Fits(q)
<1>1. /\ p.host \in Host /\ p.hops \in 0..MaxRequests /\ p.attempt \in 0..MaxRetries
      /\ MaxRequests \in Nat \ {0} /\ MaxRetries \in Nat
  BY FetchingAssumption DEF Bounded, Fits
<1>2. p.step = "send" => p.hops + 1 \in 0..MaxRequests
  BY <1>1 DEF Fits
<1>3. p.attempt < MaxRetries => p.attempt + 1 \in 0..MaxRetries
  BY <1>1
<1>4. LET q == [p EXCEPT !.step = "check", !.at = p.host, !.hops = 0]
      IN q \in Bounded /\ Fits(q) /\ q.step = "check"
  <2>1. ASSUME NEW at \in Host, NEW hops \in 0..MaxRequests, hops < MaxRequests
        PROVE  LET q == [p EXCEPT !.step = "check", !.at = at, !.hops = hops]
               IN q \in Bounded /\ Fits(q) /\ q.step = "check"
    BY <1>1, <2>1 DEF Bounded, Fits, Steps
  <2>2. 0 \in 0..MaxRequests /\ 0 < MaxRequests
    BY <1>1
  <2> QED
    BY <1>1, <2>1, <2>2
<1>5. ASSUME p.step = "check" PROVE LET q == [p EXCEPT !.step = "send"] IN q \in Bounded /\ Fits(q)
  BY <1>1, <1>5 DEF Bounded, Fits, Steps
<1>6. ASSUME p.step = "next", p.hops < MaxRequests
      PROVE  LET q == [p EXCEPT !.step = "check"] IN q \in Bounded /\ Fits(q) /\ q.step = "check"
  BY <1>1, <1>6 DEF Bounded, Fits, Steps
<1>7. ASSUME p.step = "send", NEW h \in Host
      PROVE  LET q == [p EXCEPT !.step = "next", !.at = h, !.hops = @ + 1]
             IN q \in Bounded /\ Fits(q) /\ q.step = "next"
  BY <1>1, <1>2, <1>7 DEF Bounded, Fits, Steps
<1>8. ASSUME p.attempt < MaxRetries
      PROVE  LET q == [p EXCEPT !.step = "backoff", !.attempt = @ + 1] IN q \in Bounded /\ Fits(q)
  BY <1>1, <1>3, <1>8 DEF Bounded, Fits, Steps
<1>9. LET q == [p EXCEPT !.step = "pacing"] IN q \in Bounded /\ Fits(q)
  BY <1>1 DEF Bounded, Fits, Steps
<1> QED
  BY <1>4, <1>5, <1>6, <1>7, <1>8, <1>9

LEMMA ReserveType ==
    ASSUME Limited, NEW t \in Fetcher, NEW h \in Host, Reserve(t, h)
    PROVE  /\ slot' \in [Host -> Int] /\ \A g \in Host : slot'[g] >= -Forgotten
           /\ wait' \in [Fetcher -> Nat]
<1>1. PICK interval \in MinInterval..MaxInterval :
        /\ slot' = [slot EXCEPT ![h] = Later(0, slot[h] + interval)]
        /\ wait' = [wait EXCEPT ![t] = Later(0, slot[h] + interval)]
  BY DEF Reserve
<1>2. interval \in Int /\ slot[h] \in Int /\ MaxInterval \in Nat
  BY <1>1, FetchingAssumption DEF Limited, FetchTypeOK
<1>3. Later(0, slot[h] + interval) \in Nat
  BY <1>2 DEF Later
<1> QED
  BY <1>1, <1>2, <1>3 DEF Limited, FetchTypeOK, Forgotten

\* The fields of FetchTypeOK that a step of one fetch takes from the state before.
LEMMA FetchFacts ==
    ASSUME Limited, NEW t \in Fetcher
    PROVE  /\ fetch[t] \in Bounded /\ Fits(fetch[t])
           /\ fetch \in [Fetcher -> Bounded]
           /\ slot \in [Host -> Int] /\ \A h \in Host : slot[h] >= -Forgotten
           /\ wait \in [Fetcher -> Nat]
  BY DEF Limited, FetchTypeOK, Bounded, Steps

\* A verdict, known or looked up, lets the fetch go on or ends it.
LEMMA DecidedMoves ==
    ASSUME Limited, NEW t \in Fetcher, Checking(t), NEW result, Decided(t, result)
    PROVE  \E p \in Bounded : Fits(p) /\ fetch' = [fetch EXCEPT ![t] = p]
<1>1. fetch[t] \in Bounded /\ Fits(fetch[t]) /\ fetch \in [Fetcher -> Bounded]
  BY FetchFacts
<1>2. CASE EndFetch(t)
  BY <1>2, IdleFits DEF EndFetch
<1>3. CASE fetch[t].step = "check" /\ fetch' = [fetch EXCEPT ![t].step = "send"]
  BY <1>1, <1>3, NextFits
<1>4. CASE /\ fetch[t].step = "next" /\ fetch[t].hops < MaxRequests
           /\ fetch' = [fetch EXCEPT ![t].step = "check"]
  BY <1>1, <1>4, NextFits
<1> QED
  BY <1>2, <1>3, <1>4 DEF Decided, Passes, Checking

LEMMA LookupLimited == ASSUME Limited, NEW t \in Fetcher, Lookup(t) PROVE Limited'
<1>1. Checking(t) /\ fetch[t].at \in Host /\ fetch \in [Fetcher -> Bounded]
  BY FetchFacts, FetchingAssumption DEF Lookup, Limited, FetchTypeOK
<1>2. PICK p \in Bounded : Fits(p) /\ fetch' = [fetch EXCEPT ![t] = p]
  BY <1>1, DecidedMoves DEF Lookup
<1>3. /\ verdict' \in [Host -> {"unknown", "safe", "unsafe"}] /\ stale' \subseteq Host
      /\ late' \subseteq Fetcher /\ asking' = Nobody /\ UNCHANGED <<slot, wait>>
  BY <1>1 DEF Lookup, Limited, FetchTypeOK
<1>4. fetch' \in [Fetcher -> Bounded] /\ \A u \in Fetcher : Fits(fetch'[u])
  BY <1>1, <1>2 DEF Limited
<1> QED
  BY <1>3, <1>4 DEF Limited, FetchTypeOK, Fits, Checking, Bounded, Steps

LEMMA CancelLimited == ASSUME Limited, NEW t \in Fetcher, CancelFetch(t) PROVE Limited'
<1>1. fetch \in [Fetcher -> Bounded]
  BY FetchFacts
<1>2. /\ fetch' = [fetch EXCEPT ![t] = Idle]
      /\ asking' = IF asking = t THEN Nobody ELSE asking
  BY DEF CancelFetch, EndFetch
<1>3. fetch' \in [Fetcher -> Bounded] /\ \A u \in Fetcher : Fits(fetch'[u])
  BY <1>1, <1>2, IdleFits DEF Limited
<1>4. asking' # Nobody => Checking(asking)'
  BY <1>1, <1>2 DEF Limited, FetchTypeOK, Checking
<1>5. /\ wait' \in [Fetcher -> Nat] /\ late' \subseteq Fetcher /\ UNCHANGED <<slot, verdict, stale>>
      /\ asking' \in Fetcher \cup {Nobody}
  BY <1>2 DEF CancelFetch, Limited, FetchTypeOK
<1> QED
  BY <1>3, <1>4, <1>5 DEF Limited, FetchTypeOK, Fits, Checking, Bounded, Steps

LEMMA FailsLimited == ASSUME Limited, NEW t \in Fetcher, Fails(t) PROVE Limited'
<1>1. /\ fetch[t] \in Bounded /\ Fits(fetch[t]) /\ fetch \in [Fetcher -> Bounded]
      /\ slot \in [Host -> Int] /\ \A h \in Host : slot[h] >= -Forgotten
      /\ wait \in [Fetcher -> Nat] /\ fetch[t].step = "send"
  BY FetchFacts DEF Fails
<1>2. asking # t /\ UNCHANGED <<slot, verdict, asking, late, stale>>
  BY <1>1, FetchingAssumption DEF Fails, Limited, FetchTypeOK, Checking
<1>3. CASE EndFetch(t) /\ UNCHANGED wait
  BY <1>1, <1>2, <1>3, IdleFits, MoveLimited DEF EndFetch
<1>4. CASE /\ fetch[t].attempt < MaxRetries
           /\ fetch' = [fetch EXCEPT ![t].step = "backoff", ![t].attempt = @ + 1]
           /\ \E jitter \in 0..Backoff : wait' = [wait EXCEPT ![t] = Delay(fetch[t].attempt, jitter)]
  <2> DEFINE p == [fetch[t] EXCEPT !.step = "backoff", !.attempt = @ + 1]
  <2>1. p \in Bounded /\ Fits(p) /\ fetch' = [fetch EXCEPT ![t] = p]
    BY <1>1, <1>4, NextFits
  <2>2. PICK jitter \in 0..Backoff : wait' = [wait EXCEPT ![t] = Delay(fetch[t].attempt, jitter)]
    BY <1>4
  <2>3. fetch[t].attempt \in Nat /\ Backoff \in Nat /\ jitter \in Nat
    BY <1>1, FetchingAssumption DEF Bounded
  <2>4. ASSUME NEW n \in Nat, NEW b \in Nat, NEW j \in Nat PROVE b * 2 ^ n + j \in Int
    BY <2>4, Z3
  <2>5. Delay(fetch[t].attempt, jitter) \in Nat
    BY <2>3, <2>4 DEF Delay, Later
  <2>6. wait' \in [Fetcher -> Nat]
    BY <1>1, <2>2, <2>5
  <2> QED
    BY <1>1, <1>2, <2>1, <2>6, MoveLimited
<1> QED
  BY <1>3, <1>4 DEF Fails

LEMMA FetcherLimited ==
    ASSUME Limited, NEW t \in Fetcher,
           FetchStep(t) \/ CancelFetch(t) \/ \E h \in Source : StartFetch(t, h)
    PROVE  Limited'
<1>1. /\ fetch[t] \in Bounded /\ Fits(fetch[t]) /\ fetch \in [Fetcher -> Bounded]
      /\ slot \in [Host -> Int] /\ \A h \in Host : slot[h] >= -Forgotten
      /\ wait \in [Fetcher -> Nat]
  BY FetchFacts
<1>2. ~Checking(t) => asking # t
  BY FetchingAssumption DEF Limited, FetchTypeOK
<1>3. ASSUME NEW h \in Source, StartFetch(t, h) PROVE Limited'
  <2> DEFINE p == [Idle EXCEPT !.step = "pacing", !.host = h]
  <2>1. p \in Bounded /\ Fits(p) /\ h \in Host
    <3>1. h \in Host /\ Idle \in Bounded
      BY FetchingAssumption, IdleFits
    <3>2. p \in Bounded /\ p.step = "pacing" /\ p.host = h
      BY <3>1 DEF Bounded, Steps
    <3> QED
      BY <3>1, <3>2 DEF Fits
  <2>2. fetch' = [fetch EXCEPT ![t] = p] /\ asking # t
    BY <1>2, <1>3, IdleFits DEF StartFetch, Checking
  <2> QED
    BY <1>3, <2>1, <2>2, ReserveType, MoveLimited DEF StartFetch
<1>4. CASE Retry(t)
  <2>1. /\ fetch' = [fetch EXCEPT ![t].step = "pacing"] /\ asking # t /\ fetch[t].host \in Host
        /\ Reserve(t, fetch[t].host) /\ fetch[t].step = "backoff"
    BY <1>1, <1>2, <1>4 DEF Retry, Checking, Fits
  <2> DEFINE p == [fetch[t] EXCEPT !.step = "pacing"]
  <2>2. p \in Bounded /\ Fits(p) /\ fetch' = [fetch EXCEPT ![t] = p]
    BY <1>1, <2>1, NextFits
  <2> QED
    BY <1>4, <2>1, <2>2, ReserveType, MoveLimited DEF Retry
<1>5. CASE Paced(t)
  <2> DEFINE p == [fetch[t] EXCEPT !.step = "check", !.at = fetch[t].host, !.hops = 0]
  <2>1. fetch[t].step = "pacing" /\ fetch' = [fetch EXCEPT ![t] = p] /\ asking # t
    BY <1>1, <1>2, <1>5 DEF Paced, Checking
  <2>2. p \in Bounded /\ Fits(p)
    BY <1>1, <2>1, NextFits
  <2> QED
    BY <1>1, <1>5, <2>1, <2>2, MoveLimited DEF Paced
<1>6. CASE CheckCached(t)
  <2>1. PICK p \in Bounded : Fits(p) /\ fetch' = [fetch EXCEPT ![t] = p]
    BY <1>6, DecidedMoves DEF CheckCached
  <2> QED
    BY <1>1, <1>6, <2>1, MoveLimited DEF CheckCached
<1>7. CASE TakeLookup(t)
  BY <1>7 DEF TakeLookup, Limited, FetchTypeOK, Checking
<1>8. CASE Answered(t)
  BY <1>1, <1>2, <1>8, IdleFits, MoveLimited DEF Answered, EndFetch, Checking
<1>9. ASSUME NEW h \in Host, Redirected(t, h) PROVE Limited'
  <2> DEFINE p == [fetch[t] EXCEPT !.step = "next", !.at = h, !.hops = @ + 1]
  <2>1. p \in Bounded /\ Fits(p) /\ p.step = "next" /\ fetch' = [fetch EXCEPT ![t] = p]
    BY <1>1, <1>9, NextFits DEF Redirected
  <2> QED
    BY <1>1, <1>9, <2>1, MoveLimited DEF Redirected
<1> QED
  BY <1>3, <1>4, <1>5, <1>6, <1>7, <1>8, <1>9, LookupLimited, FailsLimited, CancelLimited DEF FetchStep

LEMMA TickLimited == ASSUME Limited, Tick PROVE Limited'
<1>1. /\ slot \in [Host -> Int] /\ wait \in [Fetcher -> Nat] /\ MaxInterval \in Nat
  BY FetchingAssumption DEF Limited, FetchTypeOK
<1>2. /\ slot' \in [Host -> Int] /\ \A h \in Host : slot'[h] >= -Forgotten
      /\ wait' \in [Fetcher -> Nat]
  BY <1>1 DEF Tick, Later, Forgotten
<1> QED
  BY <1>2 DEF Tick, Limited, FetchTypeOK, Checking

LEMMA LimitedStep == ASSUME Limited, [FetchNext]_fetchVars PROVE Limited'
<1>1. CASE UNCHANGED fetchVars
  BY <1>1 DEF fetchVars, Limited, FetchTypeOK, Checking
<1>2. CASE ClearVerdicts
  BY <1>2 DEF ClearVerdicts, Cleared, Limited, FetchTypeOK, Checking
<1> QED
  BY <1>1, <1>2, TickLimited, FetcherLimited DEF FetchNext

LEMMA LimitedHolds == FetchSpec => []Limited
  BY InitLimited, LimitedStep, PTL DEF FetchSpec

\* Whatever servers and resolvers answer, a fetch stays within max_retries and
\* the limit of redirects, and only a task that checks a host holds the lock of
\* the verdicts (retry_async, _execute_with_redirect_guard).
THEOREM TypeCorrect == FetchSpec => []FetchTypeOK
<1>1. Limited => FetchTypeOK
  BY DEF Limited
<1> QED
  BY <1>1, LimitedHolds, PTL

------------------------------------------------------------------------------
(* The steps of a fetch are in order.                                      *)

LEMMA NextPrecedes ==
    ASSUME NEW p \in Bounded, p.step # "idle"
    PROVE  /\ p.step = "pacing" =>
                Precedes(p, [p EXCEPT !.step = "check", !.at = p.host, !.hops = 0])
           /\ p.step = "check" => Precedes(p, [p EXCEPT !.step = "send"])
           /\ p.step = "next" => Precedes(p, [p EXCEPT !.step = "check"])
           /\ p.step = "send" => \A h \in Host :
                Precedes(p, [p EXCEPT !.step = "next", !.at = h, !.hops = @ + 1])
           /\ Precedes(p, [p EXCEPT !.step = "backoff", !.attempt = @ + 1])
           /\ p.step = "backoff" => Precedes(p, [p EXCEPT !.step = "pacing"])
<1>1. p.hops \in Int /\ p.attempt \in Int
  BY FetchingAssumption DEF Bounded
<1>2. ASSUME p.step = "pacing", NEW at, NEW hops
      PROVE  Precedes(p, [p EXCEPT !.step = "check", !.at = at, !.hops = hops])
  BY <1>1, <1>2 DEF Bounded, Precedes, Sleeping, Checked
<1>3. p.step = "check" => Precedes(p, [p EXCEPT !.step = "send"])
  BY <1>1 DEF Bounded, Precedes, Sleeping, Checked
<1>4. p.step = "next" => Precedes(p, [p EXCEPT !.step = "check"])
  BY <1>1 DEF Bounded, Precedes, Sleeping, Checked
<1>5. ASSUME p.step = "send", NEW h \in Host
      PROVE  Precedes(p, [p EXCEPT !.step = "next", !.at = h, !.hops = @ + 1])
  BY <1>1, <1>5 DEF Bounded, Precedes, Sleeping, Checked
<1>6. Precedes(p, [p EXCEPT !.step = "backoff", !.attempt = @ + 1])
  BY <1>1 DEF Bounded, Precedes
<1>7. p.step = "backoff" => Precedes(p, [p EXCEPT !.step = "pacing"])
  BY <1>1 DEF Bounded, Precedes, Sleeping, Checked
<1> QED
  BY <1>2, <1>3, <1>4, <1>5, <1>6, <1>7

\* A task moves only in its own steps, and forwards.
LEMMA FetcherAdvances ==
    ASSUME Limited, NEW t \in Fetcher,
           FetchStep(t) \/ CancelFetch(t) \/ \E h \in Source : StartFetch(t, h)
    PROVE  /\ \A u \in Fetcher \ {t} : fetch'[u] = fetch[u]
           /\ fetch[t] # Idle /\ fetch'[t] \notin {fetch[t], Idle} => Precedes(fetch[t], fetch'[t])
<1>1. /\ fetch[t] \in Bounded /\ Fits(fetch[t]) /\ fetch \in [Fetcher -> Bounded]
  BY FetchFacts
<1>2. CASE CancelFetch(t) \/ Answered(t) \/ \E h \in Source : StartFetch(t, h)
  BY <1>1, <1>2 DEF CancelFetch, Answered, EndFetch, StartFetch
<1>3. CASE Retry(t)
  BY <1>1, <1>3, NextPrecedes DEF Retry
<1>4. CASE Paced(t)
  <2>1. /\ fetch[t].step = "pacing"
        /\ fetch' = [fetch EXCEPT ![t] = [@ EXCEPT !.step = "check", !.at = fetch[t].host, !.hops = 0]]
    BY <1>1, <1>4 DEF Paced
  <2> QED
    BY <1>1, <2>1, NextPrecedes
<1>5. CASE CheckCached(t) \/ Lookup(t)
  <2>1. EndFetch(t) \/ Passes(t)
    BY <1>5 DEF CheckCached, Lookup, Decided
  <2> QED
    BY <1>1, <2>1, NextPrecedes DEF Passes, EndFetch
<1>6. CASE TakeLookup(t)
  BY <1>6 DEF TakeLookup
<1>7. ASSUME NEW h \in Host, Redirected(t, h)
      PROVE  /\ \A u \in Fetcher \ {t} : fetch'[u] = fetch[u]
             /\ Precedes(fetch[t], fetch'[t])
  <2> DEFINE p == [fetch[t] EXCEPT !.step = "next", !.at = h, !.hops = @ + 1]
  <2>1. fetch[t].step = "send" /\ fetch' = [fetch EXCEPT ![t] = p]
    BY <1>1, <1>7 DEF Redirected
  <2>2. Precedes(fetch[t], p)
    BY <1>1, <2>1, NextPrecedes
  <2> HIDE DEF p
  <2> QED
    BY <1>1, <2>1, <2>2
<1>8. CASE Fails(t)
  BY <1>1, <1>8, NextPrecedes DEF Fails, EndFetch
<1> QED
  BY <1>2, <1>3, <1>4, <1>5, <1>6, <1>7, <1>8 DEF FetchStep

\* No fetch comes back to where it was: what remains of FetchEnds is that each
\* single step is taken, which is what FetchFairness says.
THEOREM FetchAdvances == FetchSpec => Advances
<1> DEFINE Forwards == \A t \in Fetcher : fetch[t] # Idle /\ fetch'[t] \notin {fetch[t], Idle} =>
                          Precedes(fetch[t], fetch'[t])
<1>1. ASSUME Limited, [FetchNext]_fetchVars PROVE Forwards
  <2>1. CASE UNCHANGED fetchVars \/ ClearVerdicts \/ Tick
    BY <2>1 DEF fetchVars, ClearVerdicts, Cleared, Tick
  <2>2. CASE \E t \in Fetcher : \/ FetchStep(t) \/ CancelFetch(t)
                               \/ \E h \in Source : StartFetch(t, h)
    <3>1. PICK t \in Fetcher : \/ FetchStep(t) \/ CancelFetch(t)
                               \/ \E h \in Source : StartFetch(t, h)
      BY <2>2
    <3> QED
      BY <1>1, <3>1, FetcherAdvances
  <2> QED
    BY <1>1, <2>1, <2>2 DEF FetchNext
<1>2. Limited /\ [FetchNext]_fetchVars => [Forwards]_fetchVars
  BY <1>1
<1> QED
  BY <1>2, LimitedHolds, PTL DEF FetchSpec, Advances

------------------------------------------------------------------------------
(* The spacing of requests.                                                *)

Progress == [step: {"idle", "pacing", "check", "next", "send", "backoff"},
             host: Host \cup {Nobody}, at: Host \cup {Nobody}, hops: Nat, attempt: Nat]

\* What a task that sleeps has reserved is not after the last reservation of its
\* host.
Within(t) ==
    fetch[t].step = "pacing" =>
        wait[t] \in Nat /\ (wait[t] > 0 => wait[t] <= slot[fetch[t].host])

Spaced ==
    /\ slot \in [Host -> Int]
    /\ wait = [t \in Fetcher |-> wait[t]]
    /\ fetch \in [Fetcher -> Progress]
    /\ \A t \in Fetcher : fetch[t].step # "idle" => fetch[t].host \in Host
    /\ \A t \in Fetcher : Within(t)
    /\ SlotsApart

LEMMA IdleType == Idle \in Progress /\ Idle.step = "idle"
  BY DEF Idle, Progress

LEMMA InitSpaced == FetchInit => Spaced
<1> SUFFICES ASSUME FetchInit PROVE Spaced
  OBVIOUS
<1>1. \A t \in Fetcher : fetch[t] = Idle
  BY DEF FetchInit
<1>2. fetch \in [Fetcher -> Progress] /\ \A t \in Fetcher : fetch[t].step = "idle"
  BY <1>1, IdleType DEF FetchInit
<1>3. slot \in [Host -> Int] /\ wait = [t \in Fetcher |-> wait[t]]
  BY FetchingAssumption DEF FetchInit, Forgotten
<1> QED
  BY <1>2, <1>3 DEF Spaced, Within, SlotsApart, Pacing

\* A step that reserves nothing makes nobody sleep for a host.
LEMMA QuietSpaced ==
    ASSUME Spaced, slot' = slot, NEW t \in Fetcher, NEW p \in Progress,
           fetch' = [fetch EXCEPT ![t] = p], p.step # "pacing",
           p.step # "idle" => p.host \in Host,
           wait' = [u \in Fetcher |-> wait'[u]], \A u \in Fetcher \ {t} : wait'[u] = wait[u]
    PROVE  Spaced'
<1>1. fetch' \in [Fetcher -> Progress] /\ fetch'[t] = p /\ \A u \in Fetcher \ {t} : fetch'[u] = fetch[u]
  BY DEF Spaced
<1>2. \A u \in Fetcher : fetch'[u].step = "pacing" => u # t
  BY <1>1
<1>3. \A u \in Fetcher : Within(u)'
  BY <1>1, <1>2 DEF Spaced, Within
<1>4. SlotsApart'
  BY <1>1, <1>2 DEF Spaced, SlotsApart, Pacing
<1>5. \A u \in Fetcher : fetch'[u].step # "idle" => fetch'[u].host \in Host
  BY <1>1 DEF Spaced
<1> QED
  BY <1>1, <1>3, <1>4, <1>5 DEF Spaced

LEMMA Changed ==
    ASSUME NEW p \in Progress
    PROVE  /\ \A step \in {"check", "next", "send", "backoff", "pacing"} :
                /\ [p EXCEPT !.step = step] \in Progress
                /\ [p EXCEPT !.step = step].step = step
                /\ [p EXCEPT !.step = step].host = p.host
           /\ \A h \in Host : /\ [p EXCEPT !.step = "next", !.at = h, !.hops = @ + 1] \in Progress
                              /\ [p EXCEPT !.step = "next", !.at = h, !.hops = @ + 1].step = "next"
                              /\ [p EXCEPT !.step = "next", !.at = h, !.hops = @ + 1].host = p.host
           /\ /\ [p EXCEPT !.step = "check", !.at = p.host, !.hops = 0] \in Progress
              /\ [p EXCEPT !.step = "check", !.at = p.host, !.hops = 0].step = "check"
              /\ [p EXCEPT !.step = "check", !.at = p.host, !.hops = 0].host = p.host
           /\ /\ [p EXCEPT !.step = "backoff", !.attempt = @ + 1] \in Progress
              /\ [p EXCEPT !.step = "backoff", !.attempt = @ + 1].step = "backoff"
              /\ [p EXCEPT !.step = "backoff", !.attempt = @ + 1].host = p.host
<1>1. p.hops + 1 \in Nat /\ p.attempt + 1 \in Nat /\ p.host \in Host \cup {Nobody}
  BY DEF Progress
<1>2. ASSUME NEW step \in {"check", "next", "send", "backoff", "pacing"}
      PROVE  /\ [p EXCEPT !.step = step] \in Progress
             /\ [p EXCEPT !.step = step].step = step
             /\ [p EXCEPT !.step = step].host = p.host
  BY DEF Progress
<1>3. ASSUME NEW h \in Host, NEW hops \in Nat
      PROVE  /\ [p EXCEPT !.step = "next", !.at = h, !.hops = hops] \in Progress
             /\ [p EXCEPT !.step = "next", !.at = h, !.hops = hops].step = "next"
             /\ [p EXCEPT !.step = "next", !.at = h, !.hops = hops].host = p.host
  BY DEF Progress
<1>4. ASSUME NEW host \in Host \cup {Nobody}
      PROVE  /\ [p EXCEPT !.step = "check", !.at = host, !.hops = 0] \in Progress
             /\ [p EXCEPT !.step = "check", !.at = host, !.hops = 0].step = "check"
             /\ [p EXCEPT !.step = "check", !.at = host, !.hops = 0].host = p.host
  BY DEF Progress
<1>5. ASSUME NEW attempt \in Nat
      PROVE  /\ [p EXCEPT !.step = "backoff", !.attempt = attempt] \in Progress
             /\ [p EXCEPT !.step = "backoff", !.attempt = attempt].step = "backoff"
             /\ [p EXCEPT !.step = "backoff", !.attempt = attempt].host = p.host
  BY DEF Progress
<1>6. ASSUME NEW h \in Host
      PROVE  /\ [p EXCEPT !.step = "next", !.at = h, !.hops = p.hops + 1] \in Progress
             /\ [p EXCEPT !.step = "next", !.at = h, !.hops = p.hops + 1].step = "next"
             /\ [p EXCEPT !.step = "next", !.at = h, !.hops = p.hops + 1].host = p.host
  BY <1>1, <1>3
<1>7. /\ [p EXCEPT !.step = "backoff", !.attempt = p.attempt + 1] \in Progress
      /\ [p EXCEPT !.step = "backoff", !.attempt = p.attempt + 1].step = "backoff"
      /\ [p EXCEPT !.step = "backoff", !.attempt = p.attempt + 1].host = p.host
  BY <1>1, <1>5
<1>8. /\ [p EXCEPT !.step = "check", !.at = p.host, !.hops = 0] \in Progress
      /\ [p EXCEPT !.step = "check", !.at = p.host, !.hops = 0].step = "check"
      /\ [p EXCEPT !.step = "check", !.at = p.host, !.hops = 0].host = p.host
  BY <1>1, <1>4
<1> QED
  BY <1>2, <1>6, <1>7, <1>8

LEMMA PassSpaced ==
    ASSUME Spaced, NEW t \in Fetcher, fetch[t].step # "idle", UNCHANGED <<slot, wait>>,
           Passes(t) \/ EndFetch(t)
    PROVE  Spaced'
<1>1. fetch[t] \in Progress /\ fetch[t].host \in Host /\ fetch \in [Fetcher -> Progress]
  BY DEF Spaced
<1>2. \/ fetch' = [fetch EXCEPT ![t] = Idle]
      \/ fetch' = [fetch EXCEPT ![t] = [fetch[t] EXCEPT !.step = "send"]]
      \/ fetch' = [fetch EXCEPT ![t] = [fetch[t] EXCEPT !.step = "check"]]
  BY <1>1 DEF Passes, EndFetch
<1>3. wait' = [u \in Fetcher |-> wait'[u]]
  BY DEF Spaced
<1> QED
  BY <1>1, <1>2, <1>3, IdleType, Changed, QuietSpaced

LEMMA ReserveSpaced ==
    ASSUME Spaced, NEW t \in Fetcher, NEW h \in Host, NEW p \in Progress,
           p.step = "pacing", p.host = h, fetch' = [fetch EXCEPT ![t] = p],
           fetch[t].step # "pacing", Reserve(t, h)
    PROVE  Spaced'
<1>1. PICK interval \in MinInterval..MaxInterval :
        /\ slot' = [slot EXCEPT ![h] = Later(0, slot[h] + interval)]
        /\ wait' = [wait EXCEPT ![t] = Later(0, slot[h] + interval)]
  BY DEF Reserve
<1> DEFINE start == Later(0, slot[h] + interval)
<1>2. /\ interval \in Int /\ MinInterval \in Nat /\ interval >= MinInterval /\ MinInterval >= 1
      /\ slot[h] \in Int
  BY <1>1, FetchingAssumption DEF Spaced
<1>3. start \in Nat /\ (start > 0 => start >= slot[h] + MinInterval) /\ start >= slot[h]
  BY <1>2 DEF Later
<1>4. /\ slot' = [slot EXCEPT ![h] = start] /\ wait' = [wait EXCEPT ![t] = start]
  BY <1>1
<1> HIDE DEF start
<1>5. /\ slot' \in [Host -> Int] /\ slot'[h] = start
      /\ \A g \in Host \ {h} : slot'[g] = slot[g]
      /\ fetch' \in [Fetcher -> Progress] /\ fetch'[t] = p
      /\ \A u \in Fetcher \ {t} : fetch'[u] = fetch[u]
  BY <1>3, <1>4 DEF Spaced
<1>6. wait'[t] = start /\ \A u \in Fetcher \ {t} : wait'[u] = wait[u]
  BY <1>4 DEF Spaced
<1>7. wait' = [u \in Fetcher |-> wait'[u]]
  BY <1>4 DEF Spaced
<1>8. \A u \in Fetcher : Within(u)'
  <2>1. ASSUME NEW u \in Fetcher, fetch'[u].step = "pacing"
        PROVE  wait'[u] \in Nat /\ (wait'[u] > 0 => wait'[u] <= slot'[fetch'[u].host])
    <3>1. CASE u = t
      BY <1>3, <1>5, <1>6, <3>1
    <3>2. CASE u # t
      <4>1. /\ fetch'[u] = fetch[u] /\ wait'[u] = wait[u] /\ fetch[u].host \in Host
            /\ wait[u] \in Nat /\ (wait[u] > 0 => wait[u] <= slot[fetch[u].host])
        BY <1>5, <1>6, <2>1, <3>2 DEF Spaced, Within
      <4>2. slot[fetch[u].host] <= slot'[fetch[u].host] /\ slot[fetch[u].host] \in Int
        BY <1>2, <1>3, <1>5, <4>1 DEF Spaced
      <4> QED
        BY <1>5, <4>1, <4>2
    <3> QED
      BY <3>1, <3>2
  <2> QED
    BY <2>1 DEF Within
<1>9. ASSUME NEW g \in Host, NEW u \in Fetcher, Pacing(u, g)', Pacing(t, g)', u # t
      PROVE  wait'[t] - wait'[u] >= MinInterval
  <2>1. g = h /\ start > 0 /\ fetch[u].step = "pacing" /\ fetch[u].host = h /\ wait[u] > 0
    BY <1>5, <1>6, <1>9 DEF Pacing
  <2>2. wait[u] \in Nat /\ wait[u] <= slot[h]
    BY <2>1 DEF Spaced, Within
  <2> QED
    BY <1>2, <1>3, <1>6, <1>9, <2>1, <2>2
<1>10. SlotsApart'
  <2>1. ASSUME NEW g \in Host, NEW u \in Fetcher, NEW v \in Fetcher,
               Pacing(u, g)', Pacing(v, g)', u # v
        PROVE  wait'[u] - wait'[v] \notin -MinInterval + 1 .. MinInterval - 1
    <3>1. wait'[u] \in Nat /\ wait'[v] \in Nat
      BY <1>8, <2>1 DEF Within, Pacing
    <3>2. CASE u = t
      BY <1>2, <1>9, <2>1, <3>1, <3>2
    <3>3. CASE v = t
      <4>1. wait'[v] - wait'[u] >= MinInterval
        BY <1>9, <2>1, <3>3
      <4> QED
        BY <1>2, <3>1, <4>1
    <3>4. CASE u # t /\ v # t
      <4>1. Pacing(u, g) /\ Pacing(v, g) /\ wait'[u] = wait[u] /\ wait'[v] = wait[v]
        BY <1>5, <1>6, <2>1, <3>4 DEF Pacing
      <4> QED
        BY <2>1, <4>1 DEF Spaced, SlotsApart
    <3> QED
      BY <3>2, <3>3, <3>4
  <2> QED
    BY <2>1 DEF SlotsApart
<1>11. \A u \in Fetcher : fetch'[u].step # "idle" => fetch'[u].host \in Host
  BY <1>5 DEF Spaced
<1> QED
  BY <1>5, <1>7, <1>8, <1>10, <1>11 DEF Spaced

LEMMA TickSpaced == ASSUME Spaced, Tick PROVE Spaced'
<1>1. /\ wait' = [t \in Fetcher |-> Later(0, wait[t] - 1)]
      /\ slot' = [h \in Host |-> Later(-Forgotten, slot[h] - 1)] /\ fetch' = fetch
  BY DEF Tick
<1>2. MaxInterval \in Nat /\ MinInterval \in Nat
  BY FetchingAssumption
<1>3. \A h \in Host : slot'[h] = Later(-Forgotten, slot[h] - 1) /\ slot[h] \in Int
  BY <1>1 DEF Spaced
<1>4. \A h \in Host : slot'[h] \in Int /\ slot'[h] >= slot[h] - 1
  BY <1>2, <1>3 DEF Later, Forgotten
<1>5. \A t \in Fetcher : wait'[t] = Later(0, wait[t] - 1)
  BY <1>1
<1>6. ASSUME NEW t \in Fetcher, fetch[t].step = "pacing"
      PROVE  /\ wait[t] \in Nat /\ wait'[t] \in Nat
             /\ wait'[t] > 0 => wait[t] > 0 /\ wait'[t] = wait[t] - 1
             /\ wait'[t] > 0 => wait'[t] <= slot'[fetch[t].host]
  <2>1. wait[t] \in Nat /\ (wait[t] > 0 => wait[t] <= slot[fetch[t].host]) /\ fetch[t].host \in Host
    BY <1>6 DEF Spaced, Within
  <2>2. wait'[t] \in Nat /\ (wait'[t] > 0 => wait[t] > 0 /\ wait'[t] = wait[t] - 1)
    BY <1>5, <2>1 DEF Later
  <2> QED
    BY <1>3, <1>4, <2>1, <2>2
<1>7. \A t \in Fetcher : Within(t)'
  BY <1>1, <1>6 DEF Within
<1>8. SlotsApart'
  <2>1. ASSUME NEW g \in Host, NEW u \in Fetcher, NEW v \in Fetcher,
               Pacing(u, g)', Pacing(v, g)', u # v
        PROVE  wait'[u] - wait'[v] \notin -MinInterval + 1 .. MinInterval - 1
    <3>1. /\ Pacing(u, g) /\ Pacing(v, g) /\ wait'[u] = wait[u] - 1 /\ wait'[v] = wait[v] - 1
          /\ wait[u] \in Nat /\ wait[v] \in Nat
      BY <1>1, <1>6, <2>1 DEF Pacing
    <3>2. wait'[u] - wait'[v] = wait[u] - wait[v]
      BY <3>1
    <3>3. wait[u] - wait[v] \notin -MinInterval + 1 .. MinInterval - 1
      BY <2>1, <3>1 DEF Spaced, SlotsApart
    <3> QED
      BY <3>2, <3>3
  <2> QED
    BY <2>1 DEF SlotsApart
<1>9. slot' \in [Host -> Int] /\ wait' = [t \in Fetcher |-> wait'[t]]
  BY <1>1, <1>4
<1> QED
  BY <1>1, <1>7, <1>8, <1>9 DEF Spaced

LEMMA FetcherSpaced ==
    ASSUME Spaced, NEW t \in Fetcher,
           FetchStep(t) \/ CancelFetch(t) \/ \E h \in Source : StartFetch(t, h)
    PROVE  Spaced'
<1>1. fetch \in [Fetcher -> Progress] /\ fetch[t] \in Progress /\ wait = [u \in Fetcher |-> wait[u]]
  BY DEF Spaced
<1>2. ASSUME NEW h \in Source, StartFetch(t, h) PROVE Spaced'
  <2> DEFINE p == [Idle EXCEPT !.step = "pacing", !.host = h]
  <2>1. p \in Progress /\ p.step = "pacing" /\ p.host = h /\ h \in Host
    BY FetchingAssumption DEF Idle, Progress
  <2>2. fetch' = [fetch EXCEPT ![t] = p] /\ fetch[t].step # "pacing" /\ Reserve(t, h)
    BY <1>2, IdleType DEF StartFetch
  <2> QED
    BY <2>1, <2>2, ReserveSpaced
<1>3. CASE Retry(t)
  <2> DEFINE p == [fetch[t] EXCEPT !.step = "pacing"]
  <2>1. fetch[t].host \in Host /\ fetch[t].step # "pacing" /\ Reserve(t, fetch[t].host)
    BY <1>3 DEF Retry, Spaced
  <2>2. p \in Progress /\ p.step = "pacing" /\ p.host = fetch[t].host
    BY <1>1, Changed
  <2>3. fetch' = [fetch EXCEPT ![t] = p]
    BY <1>1, <1>3 DEF Retry
  <2> QED
    BY <2>1, <2>2, <2>3, ReserveSpaced
<1>4. CASE Paced(t)
  <2> DEFINE p == [fetch[t] EXCEPT !.step = "check", !.at = fetch[t].host, !.hops = 0]
  <2>1. /\ fetch' = [fetch EXCEPT ![t] = p] /\ UNCHANGED <<slot, wait>> /\ fetch[t].host \in Host
    BY <1>1, <1>4 DEF Paced, Spaced
  <2>2. p \in Progress /\ p.step = "check" /\ p.host = fetch[t].host
    <3>1. fetch[t] \in Progress
      BY <1>1
    <3> QED
      BY <3>1, Changed
  <2> QED
    BY <1>1, <2>1, <2>2, QuietSpaced
<1>5. CASE CheckCached(t) \/ Lookup(t)
  <2>1. fetch[t].step # "idle" \/ asking = t
    BY <1>5 DEF CheckCached, Checking, Lookup
  <2>2. UNCHANGED <<slot, wait>> /\ (Passes(t) \/ EndFetch(t))
    BY <1>5 DEF CheckCached, Lookup, Decided
  <2>3. CASE fetch[t].step # "idle"
    BY <2>2, <2>3, PassSpaced
  <2>4. CASE fetch[t].step = "idle"
    <3>1. EndFetch(t)
      BY <2>2, <2>4 DEF Passes
    <3> QED
      BY <1>1, <2>2, <3>1, IdleType, QuietSpaced DEF EndFetch
  <2> QED
    BY <2>3, <2>4
<1>6. CASE TakeLookup(t)
  BY <1>6 DEF TakeLookup, Spaced, Within, SlotsApart, Pacing
<1>7. CASE Answered(t)
  BY <1>7, PassSpaced DEF Answered
<1>8. ASSUME NEW h \in Host, Redirected(t, h) PROVE Spaced'
  <2> DEFINE p == [fetch[t] EXCEPT !.step = "next", !.at = h, !.hops = @ + 1]
  <2>1. /\ fetch' = [fetch EXCEPT ![t] = p] /\ UNCHANGED <<slot, wait>> /\ fetch[t].host \in Host
    BY <1>1, <1>8 DEF Redirected, Spaced
  <2>2. p \in Progress /\ p.step = "next" /\ p.host = fetch[t].host
    <3>1. fetch[t] \in Progress
      BY <1>1
    <3> QED
      BY <3>1, Changed
  <2> QED
    BY <1>1, <2>1, <2>2, QuietSpaced
<1>9. CASE Fails(t)
  <2>1. CASE EndFetch(t) /\ UNCHANGED <<slot, wait>>
    BY <1>9, <2>1, PassSpaced DEF Fails
  <2>2. CASE ~(EndFetch(t) /\ UNCHANGED <<slot, wait>>)
    <3> DEFINE p == [fetch[t] EXCEPT !.step = "backoff", !.attempt = @ + 1]
    <3>1. fetch' = [fetch EXCEPT ![t] = p] /\ slot' = slot /\ fetch[t].host \in Host
      BY <1>1, <1>9, <2>2 DEF Fails, Spaced
    <3>2. \E left : wait' = [wait EXCEPT ![t] = left]
      BY <1>9, <2>2 DEF Fails
    <3>3. wait' = [u \in Fetcher |-> wait'[u]] /\ \A u \in Fetcher \ {t} : wait'[u] = wait[u]
      BY <1>1, <3>2
    <3>4. p \in Progress /\ p.step = "backoff" /\ p.host = fetch[t].host
      <4>1. fetch[t] \in Progress
        BY <1>1
      <4> QED
        BY <4>1, Changed
    <3> QED
      BY <3>1, <3>3, <3>4, QuietSpaced
  <2> QED
    BY <2>1, <2>2
<1>10. CASE CancelFetch(t)
  <2>1. wait' = [u \in Fetcher |-> wait'[u]] /\ \A u \in Fetcher \ {t} : wait'[u] = wait[u]
    BY <1>1, <1>10 DEF CancelFetch
  <2>2. fetch' = [fetch EXCEPT ![t] = Idle] /\ slot' = slot
    BY <1>10 DEF CancelFetch, EndFetch
  <2> QED
    BY <2>1, <2>2, IdleType, QuietSpaced
<1> QED
  BY <1>2, <1>3, <1>4, <1>5, <1>6, <1>7, <1>8, <1>9, <1>10 DEF FetchStep

LEMMA SpacedStep == ASSUME Spaced, [FetchNext]_fetchVars PROVE Spaced'
<1>1. CASE UNCHANGED fetchVars \/ ClearVerdicts
  BY <1>1 DEF fetchVars, ClearVerdicts, Cleared, Spaced, Within, SlotsApart, Pacing
<1> QED
  BY <1>1, TickSpaced, FetcherSpaced DEF FetchNext

\* However many tasks fetch from one host, retry and are cancelled, no two of
\* those that sleep are due within MIN_SEND_INTERVAL (_apply_request_pacing).
THEOREM RequestsApart == FetchSpec => []SlotsApart
<1>1. Spaced => SlotsApart
  BY DEF Spaced
<1> QED
  BY <1>1, InitSpaced, SpacedStep, PTL DEF FetchSpec

------------------------------------------------------------------------------
(* The cache of verdicts.                                                  *)

\* No lookup straddles a clearing of the cache, for both hold its lock.
Fresh == late = {} /\ stale = {}

\* A verdict in the cache is from a lookup that began after the cache was cleared,
\* whichever lookups a refresh overtakes (_safe_hostname_lock).
THEOREM VerdictsFresh == FetchSpec => []VerdictFresh
<1>1. FetchInit => Fresh
  BY DEF FetchInit, Fresh
<1>2. Fresh /\ [FetchNext]_fetchVars => Fresh'
  BY DEF Fresh, fetchVars, FetchNext, FetchStep, Paced, Retry, CheckCached, TakeLookup, Lookup,
     Answered, Fails, Redirected, CancelFetch, StartFetch, ClearVerdicts, Cleared, Tick
<1>3. Fresh => VerdictFresh
  BY DEF Fresh, VerdictFresh
<1> QED
  BY <1>1, <1>2, <1>3, PTL DEF FetchSpec
==============================================================================
