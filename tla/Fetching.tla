------------------------------- MODULE Fetching -------------------------------
(***************************************************************************)
(* Requests to the servers of blueprints.  _async_fetch_content spaces the *)
(* requests to one host by reserving the next send time, follows redirects *)
(* by hand with a check of every host on the way, and is tried again by    *)
(* retry_async after errors that may pass.  The verdict on a host is kept  *)
(* until the next refresh, behind a lock that is held during the lookup.   *)
(*                                                                         *)
(* Times are relative to now and in units of half a second: wait[t] is     *)
(* what is left of a sleep, slot[h] how far ahead the last reservation of  *)
(* h is.  A slot of -Forgotten is so old that it delays nobody, like one   *)
(* that _apply_request_pacing has dropped from its table.                  *)
(***************************************************************************)
EXTENDS Integers, FiniteSets

CONSTANTS
    Fetcher,       \* tasks that may fetch at the same time
    Host,          \* the hosts that requests go to
    Source,        \* those that the URLs of blueprints name
    MinInterval,   \* MIN_SEND_INTERVAL
    MaxInterval,   \* MAX_SEND_INTERVAL
    Backoff,       \* RETRY_BACKOFF
    MaxRetries,    \* MAX_RETRIES
    MaxRequests,   \* requests in a chain of redirects (20)
    VerdictLimit,  \* MAX_HOSTNAME_CACHE_SIZE
    Horizon,       \* bound: reservations this far ahead are not cancelled
    Nobody         \* no task, no host

ASSUME FetchingAssumption ==
    /\ {MinInterval, MaxInterval, MaxRequests} \subseteq Nat \ {0}
    /\ MinInterval <= MaxInterval
    /\ {Backoff, MaxRetries, VerdictLimit, Horizon} \subseteq Nat
    /\ Source \subseteq Host
    /\ Nobody \notin Fetcher /\ Nobody \notin Host

VARIABLES
    slot,     \* _last_request_times, relative to now
    wait,     \* what is left of the sleep of a task
    fetch,    \* where each task is in its fetch
    verdict,  \* _safe_hostname_cache
    asking,   \* the task that holds _safe_hostname_lock
    late,     \* history: tasks whose lookup began before the cache was cleared
    stale     \* history: hosts whose verdict is from such a lookup

fetchVars == <<slot, wait, fetch, verdict, asking, late, stale>>

Forgotten == MaxInterval
Idle == [step |-> "idle", host |-> Nobody, at |-> Nobody, hops |-> 0, attempt |-> 0]

FetchInit ==
    /\ slot = [h \in Host |-> -Forgotten]
    /\ wait = [t \in Fetcher |-> 0]
    /\ fetch = [t \in Fetcher |-> Idle]
    /\ verdict = [h \in Host |-> "unknown"]
    /\ asking = Nobody
    /\ late = {}
    /\ stale = {}

------------------------------------------------------------------------------
(* _apply_request_pacing.                                                  *)

Later(a, b) == IF a > b THEN a ELSE b

\* Mutation: the time of the reservation is stored, not the time reserved.
ReserveNow(t, h) ==
    \E interval \in MinInterval..MaxInterval :
        /\ slot' = [slot EXCEPT ![h] = 0]
        /\ wait' = [wait EXCEPT ![t] = Later(0, slot[h] + interval)]

\* Under the lock, which is never held across an await.
Reserve(t, h) ==
    \E interval \in MinInterval..MaxInterval :
        LET start == Later(0, slot[h] + interval)
        IN /\ slot' = [slot EXCEPT ![h] = start]
           /\ wait' = [wait EXCEPT ![t] = start]

StartFetch(t, h) ==
    /\ fetch[t] = Idle
    /\ fetch' = [fetch EXCEPT ![t] = [Idle EXCEPT !.step = "pacing", !.host = h]]
    /\ Reserve(t, h)
    /\ UNCHANGED <<verdict, asking, late, stale>>

\* The sleep is over: the chain of requests starts at the URL of the fetch.
Paced(t) ==
    /\ fetch[t].step = "pacing" /\ wait[t] = 0
    /\ fetch' = [fetch EXCEPT ![t].step = "check", ![t].at = fetch[t].host, ![t].hops = 0]
    /\ UNCHANGED <<slot, wait, verdict, asking, late, stale>>

------------------------------------------------------------------------------
(* _is_safe_url, for the URL to request ("check") or redirected to ("next"). *)

EndFetch(t) == fetch' = [fetch EXCEPT ![t] = Idle]

\* Mutation: a chain of redirects is followed however long it gets.
PassesUncut(t) ==
    CASE fetch[t].step = "check" -> fetch' = [fetch EXCEPT ![t].step = "send"]
      [] fetch[t].step = "next" -> fetch' = [fetch EXCEPT ![t].step = "check"]
      [] OTHER -> EndFetch(t)

\* A host that passes is requested; one that a redirect names passes twice, and
\* the chain is cut after MaxRequests.
Passes(t) ==
    CASE fetch[t].step = "check" -> fetch' = [fetch EXCEPT ![t].step = "send"]
      [] fetch[t].step = "next" /\ fetch[t].hops < MaxRequests ->
            fetch' = [fetch EXCEPT ![t].step = "check"]
      [] OTHER -> EndFetch(t)

\* A BlueprintFetchPolicyError is not tried again.
Decided(t, result) == IF result = "safe" THEN Passes(t) ELSE EndFetch(t)

Checking(t) == fetch[t].step \in {"check", "next"}

CheckCached(t) ==
    /\ Checking(t) /\ asking # t
    /\ verdict[fetch[t].at] # "unknown"
    /\ Decided(t, verdict[fetch[t].at])
    /\ UNCHANGED <<slot, wait, verdict, asking, late, stale>>

TakeLookup(t) ==
    /\ Checking(t) /\ asking = Nobody
    /\ verdict[fetch[t].at] = "unknown"
    /\ asking' = t
    /\ UNCHANGED <<slot, wait, fetch, verdict, late, stale>>

Cached == {h \in Host : verdict[h] # "unknown"}

\* The resolver answers with public addresses only, or with others, or fails, or
\* takes too long: only the first is safe.  A full cache keeps no more verdicts.
Lookup(t) ==
    /\ asking = t
    /\ asking' = Nobody
    /\ late' = late \ {t}
    /\ \E result \in {"safe", "unsafe"} :
          /\ Decided(t, result)
          /\ IF Cardinality(Cached) < VerdictLimit
               THEN /\ verdict' = [verdict EXCEPT ![fetch[t].at] = result]
                    /\ stale' = IF t \in late THEN stale \cup {fetch[t].at} ELSE stale
               ELSE UNCHANGED <<verdict, stale>>
    /\ UNCHANGED <<slot, wait>>

Cleared ==
    /\ verdict' = [h \in Host |-> "unknown"]
    /\ late' = {asking} \ {Nobody}
    /\ stale' = {}
    /\ UNCHANGED <<slot, wait, fetch, asking>>

\* Mutation: the cache is cleared without its lock.
ClearVerdictsUnlocked == Cleared

\* A background refresh begins.
ClearVerdicts == asking = Nobody /\ Cleared

------------------------------------------------------------------------------
(* _async_get_bounded_response, _execute_with_redirect_guard, retry_async.  *)

\* Content, a 304, an error status that does not pass (4xx), a body that is too
\* long, no UTF-8 or nothing its provider can read: the fetch ends.
Answered(t) ==
    /\ fetch[t].step = "send"
    /\ EndFetch(t)
    /\ UNCHANGED <<slot, wait, verdict, asking, late, stale>>

\* Mutation: redirects are not counted.
RedirectedUncounted(t, h) ==
    /\ fetch[t].step = "send"
    /\ fetch' = [fetch EXCEPT ![t].step = "next", ![t].at = h]
    /\ UNCHANGED <<slot, wait, verdict, asking, late, stale>>

Redirected(t, h) ==
    /\ fetch[t].step = "send"
    /\ fetch' = [fetch EXCEPT ![t].step = "next", ![t].at = h, ![t].hops = @ + 1]
    /\ UNCHANGED <<slot, wait, verdict, asking, late, stale>>

\* Mutation: errors are retried as often as they occur.
FailsUncounted(t) ==
    /\ fetch[t].step = "send"
    /\ fetch' = [fetch EXCEPT ![t].step = "backoff"]
    /\ wait' = [wait EXCEPT ![t] = Backoff]
    /\ UNCHANGED <<slot, verdict, asking, late, stale>>

\* asyncio.sleep of a delay that is not positive is over at once.
Delay(attempt, jitter) == Later(0, Backoff * 2 ^ attempt + jitter)

\* An error that may pass: 429, 408, 425, 5xx, a redirect to nowhere, or no
\* connection, because each validated address failed or none is left when
\* SafeAsyncNetworkBackend resolves the host again.
Fails(t) ==
    /\ fetch[t].step = "send"
    /\ IF fetch[t].attempt < MaxRetries
         THEN /\ fetch' = [fetch EXCEPT ![t].step = "backoff", ![t].attempt = @ + 1]
              /\ \E jitter \in 0..Backoff :
                    wait' = [wait EXCEPT ![t] = Delay(fetch[t].attempt, jitter)]
         ELSE /\ EndFetch(t)
              /\ UNCHANGED wait
    /\ UNCHANGED <<slot, verdict, asking, late, stale>>

\* The whole function runs again, and reserves again.
Retry(t) ==
    /\ fetch[t].step = "backoff" /\ wait[t] = 0
    /\ fetch' = [fetch EXCEPT ![t].step = "pacing"]
    /\ Reserve(t, fetch[t].host)
    /\ UNCHANGED <<verdict, asking, late, stale>>

\* A worker is cancelled where it waits; what it has reserved stays reserved.
\* Horizon only bounds how far reservations pile up.
CancelFetch(t) ==
    /\ fetch[t] # Idle
    /\ slot[fetch[t].host] <= Horizon
    /\ EndFetch(t)
    /\ wait' = [wait EXCEPT ![t] = 0]
    /\ asking' = IF asking = t THEN Nobody ELSE asking
    /\ late' = late \ {t}
    /\ UNCHANGED <<slot, verdict, stale>>

------------------------------------------------------------------------------
Tick ==
    /\ wait' = [t \in Fetcher |-> Later(0, wait[t] - 1)]
    /\ slot' = [h \in Host |-> Later(-Forgotten, slot[h] - 1)]
    /\ UNCHANGED <<fetch, verdict, asking, late, stale>>

FetchStep(t) ==
    \/ Paced(t) \/ Retry(t)
    \/ CheckCached(t) \/ TakeLookup(t) \/ Lookup(t)
    \/ Answered(t) \/ Fails(t)
    \/ \E h \in Host : Redirected(t, h)

FetchNext ==
    \/ \E t \in Fetcher : FetchStep(t) \/ CancelFetch(t) \/ \E h \in Source : StartFetch(t, h)
    \/ ClearVerdicts
    \/ Tick

\* Time passes, sleeps end, and the resolver and the servers answer or time out.
\* The lock of the cache is handed on in the order of its waiters, so that a
\* fetch that wants it gets it although it is not free all the time.
FetchFairness ==
    /\ WF_fetchVars(Tick)
    /\ \A t \in Fetcher : SF_fetchVars(FetchStep(t))

FetchSpec == FetchInit /\ [][FetchNext]_fetchVars /\ FetchFairness

------------------------------------------------------------------------------
(* Properties.                                                             *)

\* The variables have their types; attempts and redirects stay within their
\* limits, and whoever asks for a verdict waits for one.
FetchTypeOK ==
    /\ slot \in [Host -> Int] /\ \A h \in Host : slot[h] >= -Forgotten
    /\ wait \in [Fetcher -> Nat]
    /\ fetch \in [Fetcher -> [step: {"idle", "pacing", "check", "next", "send", "backoff"},
                              host: Host \cup {Nobody}, at: Host \cup {Nobody},
                              hops: 0..MaxRequests, attempt: 0..MaxRetries]]
    /\ \A t \in Fetcher : fetch[t].step = "idle" => fetch[t] = Idle
    /\ \A t \in Fetcher : fetch[t].step # "idle" => fetch[t].host \in Host
    /\ \A t \in Fetcher : Checking(t) \/ fetch[t].step = "send" => fetch[t].at \in Host
    /\ verdict \in [Host -> {"unknown", "safe", "unsafe"}]
    /\ asking \in Fetcher \cup {Nobody}
    /\ asking # Nobody => Checking(asking)
    /\ late \subseteq Fetcher /\ stale \subseteq Host

\* The order of the steps of one fetch: by attempt, then its two sleeps, then
\* the requests of the chain, each behind the checks of its host.
Sleeping == [backoff |-> 0, pacing |-> 1, next |-> 2, check |-> 2, send |-> 2]
Checked == [backoff |-> 0, pacing |-> 0, next |-> 0, check |-> 1, send |-> 2]
Precedes(p, q) ==
    \/ p.attempt < q.attempt
    \/ p.attempt = q.attempt /\ Sleeping[p.step] < Sleeping[q.step]
    \/ /\ p.attempt = q.attempt /\ Sleeping[p.step] = Sleeping[q.step]
       /\ \/ p.hops < q.hops
          \/ p.hops = q.hops /\ Checked[p.step] < Checked[q.step]

\* No answer, redirect, error or verdict takes a fetch back to where it was: with
\* the bounds of FetchTypeOK, it is made of finitely many steps, whatever servers
\* and resolvers answer (max_retries and the length of a chain of redirects).
Advances ==
    [][\A t \in Fetcher : fetch[t] # Idle /\ fetch'[t] \notin {fetch[t], Idle} =>
            Precedes(fetch[t], fetch'[t])]_fetchVars

Pacing(t, h) == fetch[t].step = "pacing" /\ fetch[t].host = h /\ wait[t] > 0

\* However many tasks start, retry or are cancelled while others sleep, no two
\* of them are due at one host within MIN_SEND_INTERVAL.
SlotsApart ==
    \A h \in Host : \A t, u \in {v \in Fetcher : Pacing(v, h)} :
        t # u => wait[t] - wait[u] \notin -MinInterval + 1 .. MinInterval - 1

\* A cached verdict is from a lookup that began after the last refresh cleared
\* the cache: a host that was not to be resolved then gets another chance.
VerdictFresh == stale = {}

\* Redirects that go round in a circle, errors that never pass, a lock that is
\* never free for long: every fetch ends.
FetchEnds == \A t \in Fetcher : fetch[t].step # "idle" ~> fetch[t].step = "idle"
==============================================================================
