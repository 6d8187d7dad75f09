--------------------------- MODULE ReloadReconcile ---------------------------
(***************************************************************************)
(* From a committed blueprint file to the reload of its domain.  Home      *)
(* Assistant goes on running the old blueprint until <domain>.reload reads *)
(* the files again, so the coordinator reloads the domain of every file it *)
(* changed, and keeps the domains whose reload failed in                   *)
(* _pending_reload_domains, in memory and in the metadata store, until a   *)
(* later refresh retries them.                                             *)
(*                                                                         *)
(* Two kinds of tasks change files: calls (install, import, restore,       *)
(* update_all, the repair flows), which commit and then reconcile; and the *)
(* background refresh, whose workers commit auto-updates and which         *)
(* reconciles once for all of them.  Each action is the code between two   *)
(* awaits.                                                                 *)
(*                                                                         *)
(* async_reload_services calls the service without blocking=True: Home     *)
(* Assistant starts a task for it and async_call returns at once, so the   *)
(* files are read, or the service fails, at some later time (external).    *)
(***************************************************************************)
EXTENDS FiniteSets

CONSTANTS
    Domain,       \* ALLOWED_RELOAD_DOMAINS
    Call,         \* service calls and user flows; each may be made again
    Refresh,      \* background refresh tasks alive at the same time
    Item,         \* blueprints a refresh finds an automatic update for
    DomainOf,     \* the domain each of them belongs to
    Free

ASSUME TaskAssumption == Call \cap Refresh = {} /\ Free \notin Call \cup Refresh
ASSUME DomainOfAssumption == DomainOf \in [Item -> Domain]

Task == Call \cup Refresh

VARIABLES
    stale,        \* domains with a file committed since HA last read their files
    pending,      \* _pending_reload_domains
    stored,       \* pending_reload_domains in the metadata store
    reloadLock,   \* _reload_lock
    refreshLock,  \* _refresh_lock
    current,      \* _background_task, or Free
    pc,           \* where each task is suspended
    owes,         \* updated_domains or the argument of the coming reconcile
    todo,         \* domains a reconcile still has to reload
    after,        \* where the task goes on after its reconcile
    item,         \* progress of each auto-update of each refresh
    orphans,      \* domains of files that a thread without a coroutine will commit
    services,     \* domains with a <domain>.reload task that has not read the files yet
    announced     \* history: stale domains that a reconcile has stored as pending

locks == <<reloadLock, refreshLock, current>>
reconcile == <<todo, after>>
reloads == <<services, announced>>
vars == <<stale, pending, stored, locks, pc, owes, reconcile, item, orphans, reloads>>

Init ==
    /\ stale = {}
    /\ pending = {}
    /\ stored = {}
    /\ reloadLock = Free
    /\ refreshLock = Free
    /\ current = Free
    /\ pc = [t \in Task |-> "idle"]
    /\ owes = [t \in Task |-> {}]
    /\ todo = [t \in Task |-> {}]
    /\ after = [t \in Task |-> "idle"]
    /\ item = [r \in Refresh |-> [i \in Item |-> "none"]]
    /\ orphans = {}
    /\ services = {}
    /\ announced = {}

Goto(t, from, to) ==
    /\ pc[t] = from
    /\ pc' = [pc EXCEPT ![t] = to]

------------------------------------------------------------------------------
(* async_reconcile_reload_services, called with owes[t].                   *)

Reconciling == {"wait", "announce", "reload", "conclude"}

\* Mutation: a domain becomes pending when it could not be reloaded.
EnterUnannounced(t) ==
    /\ reloadLock = Free
    /\ reloadLock' = t
    /\ Goto(t, "wait", "announce")
    /\ todo' = [todo EXCEPT ![t] = owes[t]]
    /\ owes' = [owes EXCEPT ![t] = {}]
    /\ UNCHANGED <<stale, pending, stored, refreshLock, current, after, item, orphans, reloads>>

\* Under the lock: the domains become pending before anything is awaited.
Enter(t) ==
    /\ reloadLock = Free
    /\ reloadLock' = t
    /\ Goto(t, "wait", "announce")
    /\ pending' = pending \cup owes[t]
    /\ todo' = [todo EXCEPT ![t] = owes[t]]
    /\ owes' = [owes EXCEPT ![t] = {}]
    /\ UNCHANGED <<stale, stored, refreshLock, current, after, item, orphans, reloads>>

\* The first _async_save_metadata(force=True) of the reconcile has written.
Announce(t) ==
    /\ Goto(t, "announce", "reload")
    /\ stored' = pending
    /\ announced' = announced \cup (stale \cap pending)
    /\ UNCHANGED <<stale, pending, locks, owes, reconcile, item, orphans, services>>

\* The next domain of the loop: its reload service is registered, so
\* async_call returns and the domain is pending no longer...
Request(t, d) ==
    /\ pc[t] = "reload" /\ d \in todo[t]
    /\ todo' = [todo EXCEPT ![t] = @ \ {d}]
    /\ services' = services \cup {d}
    /\ pending' = pending \ {d}
    /\ UNCHANGED <<stale, stored, locks, pc, owes, after, item, orphans, announced>>

\* Mutation: a domain without a reload service is taken for reloaded.
UnavailableForgotten(t, d) ==
    /\ pc[t] = "reload" /\ d \in todo[t]
    /\ todo' = [todo EXCEPT ![t] = @ \ {d}]
    /\ pending' = pending \ {d}
    /\ UNCHANGED <<stale, stored, locks, pc, owes, after, item, orphans, reloads>>

\* ... or it is not registered, or refuses the call: the domain stays pending.
Unavailable(t, d) ==
    /\ pc[t] = "reload" /\ d \in todo[t]
    /\ todo' = [todo EXCEPT ![t] = @ \ {d}]
    /\ UNCHANGED <<stale, pending, stored, locks, pc, owes, after, item, orphans, reloads>>

Requested(t) ==
    /\ todo[t] = {}
    /\ Goto(t, "reload", "conclude")
    /\ UNCHANGED <<stale, pending, stored, locks, owes, reconcile, item, orphans, reloads>>

\* The last save; the reconcile returns to its caller.
Conclude(t) ==
    /\ Goto(t, "conclude", after[t])
    /\ stored' = pending
    /\ reloadLock' = Free
    /\ UNCHANGED <<stale, pending, refreshLock, current, owes, reconcile, item, orphans, reloads>>

Reconcile(t) ==
    \/ Enter(t) \/ Announce(t) \/ Requested(t) \/ Conclude(t)
    \/ \E d \in Domain : Request(t, d) \/ Unavailable(t, d)

\* The task of the reload service reads the files of the domain...
ServiceReads(d) ==
    /\ d \in services
    /\ services' = services \ {d}
    /\ stale' = stale \ {d}
    /\ announced' = announced \ {d}
    /\ UNCHANGED <<pending, stored, locks, pc, owes, reconcile, item, orphans>>

\* ... or ends with an error, which Home Assistant logs.
ServiceFails(d) ==
    /\ d \in services
    /\ services' = services \ {d}
    /\ UNCHANGED <<stale, pending, stored, locks, pc, owes, reconcile, item, orphans, announced>>

------------------------------------------------------------------------------
(* Calls: async_install_blueprint with reload_services, async_restore_     *)
(* blueprint, the repair flows, and update_all, which commits several      *)
(* files before it reconciles once.                                        *)

\* The executor thread installs, restores or deletes a file.
CallBegin(c) ==
    /\ pc[c] \in {"idle", "bulk"}
    /\ pc' = [pc EXCEPT ![c] = "thread"]
    /\ UNCHANGED <<stale, pending, stored, locks, owes, reconcile, item, orphans, reloads>>

CallCommit(c, d) ==
    /\ Goto(c, "thread", "bulk")
    /\ stale' = stale \cup {d}
    /\ owes' = [owes EXCEPT ![c] = @ \cup {d}]
    /\ UNCHANGED <<pending, stored, locks, reconcile, item, orphans, reloads>>

\* The transaction is rejected or fails before its commit.
CallFail(c) ==
    /\ Goto(c, "thread", IF owes[c] = {} THEN "idle" ELSE "bulk")
    /\ UNCHANGED <<stale, pending, stored, locks, owes, reconcile, item, orphans, reloads>>

CallReconcile(c) ==
    /\ Goto(c, "bulk", "wait")
    /\ after' = [after EXCEPT ![c] = "idle"]
    /\ UNCHANGED <<stale, pending, stored, locks, owes, todo, item, orphans, reloads>>

\* async_fetch_blueprint on behalf of the call: with automatic updates on, it
\* installs the file itself (reload_services=False) and reports the domain
\* only in the local set that it discards.
FetchCommit(c, d) ==
    /\ Goto(c, "thread", IF owes[c] = {} THEN "idle" ELSE "bulk")
    /\ stale' = stale \cup {d}
    /\ UNCHANGED <<pending, stored, locks, owes, reconcile, item, orphans, reloads>>

------------------------------------------------------------------------------
(* _async_background_refresh.                                              *)

Alive(r) == pc[r] # "idle"

\* A scan is over: _start_background_refresh creates the task of the new
\* generation, here with no older task alive (Replace has the other case).
Start(r) ==
    /\ current = Free
    /\ ~Alive(r)
    /\ current' = r
    /\ pc' = [pc EXCEPT ![r] = "queued"]
    /\ UNCHANGED <<stale, pending, stored, reloadLock, refreshLock, owes, reconcile, item, orphans,
                   reloads>>

\* Mutation: the pending domains of earlier operations are not retried.
LockOnly(r) ==
    /\ refreshLock = Free
    /\ refreshLock' = r
    /\ Goto(r, "queued", "dispatch")
    /\ UNCHANGED <<stale, pending, stored, reloadLock, current, owes, reconcile, item, orphans,
                   reloads>>

\* Under the refresh lock: _async_retry_pending_reloads comes first.
Lock(r) ==
    /\ refreshLock = Free
    /\ refreshLock' = r
    /\ Goto(r, "queued", IF pending = {} THEN "dispatch" ELSE "wait")
    /\ owes' = [owes EXCEPT ![r] = pending]
    /\ after' = [after EXCEPT ![r] = "dispatch"]
    /\ UNCHANGED <<stale, pending, stored, reloadLock, current, todo, item, orphans,
                   reloads>>

Dispatch(r) ==
    /\ Goto(r, "dispatch", "join")
    /\ item' = [item EXCEPT ![r] = [i \in Item |-> "queued"]]
    /\ UNCHANGED <<stale, pending, stored, locks, owes, reconcile, orphans, reloads>>

\* A worker takes an item: there is nothing to install, or its thread starts.
ItemBegin(r, i) ==
    /\ item[r][i] = "queued"
    /\ \E next \in {"thread", "settled"} : item' = [item EXCEPT ![r][i] = next]
    /\ UNCHANGED <<stale, pending, stored, locks, pc, owes, reconcile, orphans, reloads>>

\* The file is committed; the worker saves the metadata before it reports.
ItemCommit(r, i) ==
    /\ item[r][i] = "thread"
    /\ item' = [item EXCEPT ![r][i] = "saving"]
    /\ stale' = stale \cup {DomainOf[i]}
    /\ UNCHANGED <<pending, stored, locks, pc, owes, reconcile, orphans, reloads>>

ItemFail(r, i) ==
    /\ item[r][i] = "thread"
    /\ item' = [item EXCEPT ![r][i] = "settled"]
    /\ UNCHANGED <<stale, pending, stored, locks, pc, owes, reconcile, orphans, reloads>>

\* updated_domains.add; the save wrote the pending domains along.
ItemReport(r, i) ==
    /\ item[r][i] = "saving"
    /\ item' = [item EXCEPT ![r][i] = "settled"]
    /\ owes' = [owes EXCEPT ![r] = @ \cup {DomainOf[i]}]
    /\ stored' = pending
    /\ UNCHANGED <<stale, pending, locks, pc, reconcile, orphans, reloads>>

ItemStep(r, i) == ItemBegin(r, i) \/ ItemCommit(r, i) \/ ItemFail(r, i) \/ ItemReport(r, i)

\* queue.join returned; the sentinels stop the workers.
Joined(r) ==
    /\ Goto(r, "join", "gather")
    /\ \A i \in Item : item[r][i] = "settled"
    /\ UNCHANGED <<stale, pending, stored, locks, owes, reconcile, item, orphans, reloads>>

\* Mutation: an automatic update is not followed by a reconcile.
GatheredOnly(r) ==
    /\ Goto(r, "gather", "end")
    /\ stored' = pending
    /\ UNCHANGED <<stale, pending, locks, owes, reconcile, item, orphans, reloads>>

\* _async_handle_notifications reconciles if a blueprint was updated; without
\* one the refresh only saves its metadata.
Gathered(r) ==
    /\ Goto(r, "gather", IF owes[r] = {} THEN "end" ELSE "wait")
    /\ after' = [after EXCEPT ![r] = "end"]
    /\ stored' = IF owes[r] = {} THEN pending ELSE stored
    /\ UNCHANGED <<stale, pending, locks, owes, todo, item, orphans, reloads>>

\* The task is over: the refresh lock and _background_task are free again.
End(r) ==
    /\ Goto(r, "end", "idle")
    /\ refreshLock' = IF refreshLock = r THEN Free ELSE refreshLock
    /\ current' = IF current = r THEN Free ELSE current
    /\ owes' = [owes EXCEPT ![r] = {}]
    /\ item' = [item EXCEPT ![r] = [i \in Item |-> "none"]]
    /\ UNCHANGED <<stale, pending, stored, reloadLock, reconcile, orphans, reloads>>

RefreshStep(r) ==
    \/ Lock(r) \/ Dispatch(r) \/ Joined(r) \/ Gathered(r) \/ End(r)
    \/ \E i \in Item : ItemStep(r, i)

------------------------------------------------------------------------------
(* Cancellation.                                                           *)

\* What a cancelled reconcile holds is released; what is pending stays so.
Release(t) == reloadLock' = IF reloadLock = t THEN Free ELSE reloadLock
Forget(t) ==
    /\ owes' = [owes EXCEPT ![t] = {}]
    /\ todo' = [todo EXCEPT ![t] = {}]

\* A newer scan cancels the background task and starts its own.  CancelledError
\* is raised where the task is suspended: at queue.join it is caught, in the
\* gather after it, in a reconcile or before the dispatch it ends the task.
Replace(r, n) ==
    /\ current = r /\ Alive(r)
    /\ ~Alive(n)
    /\ current' = n
    /\ LET to == CASE pc[r] = "queued" -> "idle"
                   [] pc[r] = "join" -> "cancelling"
                   [] OTHER -> "end"
       IN pc' = [pc EXCEPT ![r] = to, ![n] = "queued"]
    /\ IF pc[r] = "join" THEN UNCHANGED <<reloadLock, owes, todo>>
       ELSE Release(r) /\ Forget(r)
    /\ UNCHANGED <<stale, pending, stored, refreshLock, after, item, orphans, reloads>>

\* The handler runs one turn of the event loop later and cancels the workers:
\* the threads they wait for go on, the saves they wait for no longer matter.
CancelWorkers(r) ==
    /\ Goto(r, "cancelling", "collect")
    /\ orphans' = orphans \cup {DomainOf[i] : i \in {j \in Item : item[r][j] = "thread"}}
    /\ item' = [item EXCEPT ![r] = [i \in Item |-> "settled"]]
    /\ UNCHANGED <<stale, pending, stored, locks, owes, reconcile, reloads>>

\* What the workers had reported is reconciled behind asyncio.shield.
Collected(r) ==
    /\ Goto(r, "collect", IF owes[r] = {} THEN "end" ELSE "wait")
    /\ after' = [after EXCEPT ![r] = "end"]
    /\ UNCHANGED <<stale, pending, stored, locks, owes, todo, item, orphans, reloads>>

\* The script or the flow that made the call is stopped.
CancelCall(c) ==
    /\ pc[c] # "idle"
    /\ pc' = [pc EXCEPT ![c] = "idle"]
    /\ Release(c)
    /\ Forget(c)
    /\ \E d \in Domain : orphans' = IF pc[c] = "thread" THEN orphans \cup {d} ELSE orphans
    /\ UNCHANGED <<stale, pending, stored, refreshLock, current, after, item, reloads>>

\* A thread nobody waits for commits its file, or fails.
OrphanEnds(d) ==
    /\ d \in orphans
    /\ orphans' = orphans \ {d}
    /\ stale' \in {stale, stale \cup {d}}
    /\ UNCHANGED <<pending, stored, locks, pc, owes, reconcile, item, reloads>>

------------------------------------------------------------------------------

(* async_unload_entry and async_setup: the new coordinator starts from the *)
(* store.  Only an entry without running tasks is unloaded here.           *)

\* Mutation: the new coordinator does not look into the store.
ReloadEntryBlank ==
    /\ \A t \in Task : pc[t] = "idle"
    /\ pending' = {}
    /\ UNCHANGED <<stale, stored, locks, pc, owes, reconcile, item, orphans, reloads>>

ReloadEntry ==
    /\ \A t \in Task : pc[t] = "idle"
    /\ pending' = stored
    /\ UNCHANGED <<stale, stored, locks, pc, owes, reconcile, item, orphans, reloads>>

------------------------------------------------------------------------------

CallEnds(c) == CallFail(c) \/ \E d \in Domain : CallCommit(c, d)
CallStep(c) == CallBegin(c) \/ CallEnds(c) \/ CallReconcile(c) \/ Reconcile(c)

Next ==
    \/ \E c \in Call : CallStep(c)
    \/ \E r \in Refresh : Start(r) \/ RefreshStep(r) \/ Reconcile(r)
    \/ \E d \in Domain : ServiceReads(d)

Interruption ==
    \/ \E r, n \in Refresh : Replace(r, n)
    \/ \E r \in Refresh : CancelWorkers(r) \/ Collected(r)
    \/ \E c \in Call : CancelCall(c)
    \/ \E d \in Domain : OrphanEnds(d)
    \/ ReloadEntry

\* Refreshes that run to their end, calls that are not stopped, services that
\* do their work once they are called.
Spec == Init /\ [][Next]_vars

\* The same with cancelled refreshes and calls and a reloaded entry,
SpecInterrupted == Init /\ [][Next \/ Interruption]_vars

\* with forced fetches that update automatically,
SpecFetch == Init /\ [][Next \/ \E c \in Call, d \in Domain : FetchCommit(c, d)]_vars

\* and with reload services that fail.
SpecFailing == Init /\ [][Next \/ \E d \in Domain : ServiceFails(d)]_vars

\* Refreshes recur on a timer and run to their end.  A thread ends, and a call
\* changes finitely many files before it reconciles.  asyncio.Lock serves its
\* waiters in order.  A service that is looked for again and again is
\* registered some day.
SpecFair ==
    /\ Spec
    /\ WF_vars(\E r \in Refresh : Start(r))
    /\ \A r \in Refresh : WF_vars(RefreshStep(r))
    /\ \A t \in Task : WF_vars(Reconcile(t)) /\ SF_vars(Enter(t))
    /\ \A c \in Call : WF_vars(CallEnds(c)) /\ SF_vars(CallReconcile(c))
    /\ \A d \in Domain : SF_vars(\E t \in Task : Request(t, d)) /\ WF_vars(ServiceReads(d))

------------------------------------------------------------------------------
(* Properties.                                                             *)

TypeOK ==
    /\ {stale, pending, stored, orphans, services, announced} \subseteq SUBSET Domain
    /\ reloadLock \in Task \cup {Free}
    /\ {refreshLock, current} \subseteq Refresh \cup {Free}
    /\ pc \in [Task -> Reconciling \cup {"idle", "thread", "bulk", "queued", "dispatch", "join",
                                         "gather", "cancelling", "collect", "end"}]
    /\ owes \in [Task -> SUBSET Domain]
    /\ todo \in [Task -> SUBSET Domain]
    /\ after \in [Task -> {"idle", "dispatch", "end"}]
    /\ item \in [Refresh -> [Item -> {"none", "queued", "thread", "saving", "settled"}]]

\* A worker that has committed its file and will report the domain.
Reporting(d) == \E r \in Refresh, i \in Item : item[r][i] = "saving" /\ DomainOf[i] = d

\* "Automatically reloads relevant automation, script, or template domains
\* after an update" (README.md:52): a domain whose files changed since Home
\* Assistant last read them is pending, its reload service is running, or a
\* task that is alive still owes the reload.
StaleIsOwed ==
    \A d \in stale :
        d \in pending \cup services \/ Reporting(d) \/ \E t \in Task : d \in owes[t]

\* "Reload domains while durably retaining failures for later retry"
\* (coordinator.py:2669): from the first save of a reconcile on, a stale domain
\* is pending or its service is running, whatever is cancelled, unavailable or
\* restarted, until its files are read.
AnnouncedKept == announced \subseteq pending \cup services

\* The reloads that somebody is going to make, and those of them that outlive
\* every task: a new coordinator finds them in the store, or Home Assistant is
\* already at it.
Owed == {d \in Domain : \/ d \in pending \cup services \/ Reporting(d)
                        \/ \E t \in Task : d \in owes[t]}
Kept == (pending \cap stored) \cup services

Ledger == INSTANCE ReloadLedger WITH owed <- Owed, kept <- Kept

\* Every step of the reconciliation is a step of the ledger or changes nothing
\* in it: a domain is owed from the step that changes its files to the step that
\* reads them, through every lock, save and retry in between.
ImplementsLedger == Ledger!Spec

\* With cancellations and reloads of the entry: what is lost is what was owed and
\* not kept, and the files of orphaned threads; what is kept is never lost.
ImplementsLossyLedger == Ledger!SpecLossy

\* Every changed domain is read again, however often its reload service was
\* not there when a reconcile looked for it.
StaleIsReloaded == \A d \in Domain : d \in stale ~> d \notin stale
==============================================================================
