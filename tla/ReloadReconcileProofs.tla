------------------------ MODULE ReloadReconcileProofs ------------------------
(***************************************************************************)
(* Theorems about ReloadReconcile, for all sets of calls, refreshes,       *)
(* blueprints and domains: its state stays of its type, what is announced  *)
(* is kept, and it implements the ledger of ReloadLedger, without losses   *)
(* if no task is stopped.                                                  *)
(***************************************************************************)
EXTENDS ReloadReconcile, TLAPS

NextInterrupted == Next \/ Interruption

------------------------------------------------------------------------------
(* Type correctness.                                                       *)

LEMMA InitType == Init => TypeOK
  BY DEF Init, TypeOK, Task, Reconciling

\* The steps of a reconcile keep the types.
LEMMA ReconcileType == ASSUME TypeOK, NEW t \in Task, Reconcile(t) PROVE TypeOK'
<1> USE DEF TypeOK, Goto, Reconciling, locks, reconcile, reloads
<1>1. CASE Enter(t)
  BY <1>1 DEF Enter
<1>2. CASE Announce(t)
  BY <1>2 DEF Announce
<1>3. CASE Requested(t)
  BY <1>3 DEF Requested
<1>4. CASE Conclude(t)
  BY <1>4 DEF Conclude
<1>5. CASE \E d \in Domain : Request(t, d)
  BY <1>5 DEF Request
<1>6. CASE \E d \in Domain : Unavailable(t, d)
  BY <1>6 DEF Unavailable
<1> QED
  BY <1>1, <1>2, <1>3, <1>4, <1>5, <1>6 DEF Reconcile

\* So do those of a call outside of its reconcile.
LEMMA CallType ==
    ASSUME TypeOK, NEW c \in Call, CallBegin(c) \/ CallEnds(c) \/ CallReconcile(c)
    PROVE  TypeOK'
<1> USE DEF TypeOK, Goto, Reconciling, locks, reconcile, reloads, Task
<1>1. CASE CallBegin(c)
  BY <1>1 DEF CallBegin
<1>2. CASE CallFail(c)
  BY <1>2 DEF CallFail
<1>3. CASE \E d \in Domain : CallCommit(c, d)
  BY <1>3 DEF CallCommit
<1>4. CASE CallReconcile(c)
  BY <1>4 DEF CallReconcile
<1> QED
  BY <1>1, <1>2, <1>3, <1>4 DEF CallEnds

\* The workers of a refresh.
LEMMA ItemType == ASSUME TypeOK, NEW r \in Refresh, NEW i \in Item, ItemStep(r, i) PROVE TypeOK'
<1> USE DEF TypeOK, locks, reconcile, reloads
<1>1. CASE ItemBegin(r, i)
  BY <1>1 DEF ItemBegin
<1>2. CASE ItemCommit(r, i)
  BY <1>2, DomainOfAssumption DEF ItemCommit
<1>3. CASE ItemFail(r, i)
  BY <1>3 DEF ItemFail
<1>4. CASE ItemReport(r, i)
  BY <1>4, DomainOfAssumption DEF ItemReport, Task
<1> QED
  BY <1>1, <1>2, <1>3, <1>4 DEF ItemStep

\* The task of a refresh.
LEMMA RefreshType == ASSUME TypeOK, NEW r \in Refresh, Start(r) \/ RefreshStep(r) PROVE TypeOK'
<1> USE DEF TypeOK, Goto, Reconciling, locks, reconcile, reloads, Task
<1>1. CASE Start(r)
  BY <1>1 DEF Start
<1>2. CASE Lock(r)
  BY <1>2 DEF Lock
<1>3. CASE Dispatch(r)
  BY <1>3 DEF Dispatch
<1>4. CASE Joined(r)
  BY <1>4 DEF Joined
<1>5. CASE Gathered(r)
  BY <1>5 DEF Gathered
<1>6. CASE End(r)
  BY <1>6 DEF End
<1>7. CASE \E i \in Item : ItemStep(r, i)
  BY <1>7, ItemType
<1> QED
  BY <1>1, <1>2, <1>3, <1>4, <1>5, <1>6, <1>7 DEF RefreshStep

LEMMA NextType == ASSUME TypeOK, [Next]_vars PROVE TypeOK'
<1>1. CASE \E c \in Call : CallStep(c)
  BY <1>1, CallType, ReconcileType DEF CallStep, Task
<1>2. CASE \E r \in Refresh : Start(r) \/ RefreshStep(r) \/ Reconcile(r)
  BY <1>2, RefreshType, ReconcileType DEF Task
<1>3. CASE \E d \in Domain : ServiceReads(d)
  BY <1>3 DEF TypeOK, ServiceReads, locks, reconcile
<1>4. CASE UNCHANGED vars
  BY <1>4 DEF TypeOK, vars, locks, reconcile, reloads
<1> QED
  BY <1>1, <1>2, <1>3, <1>4 DEF Next

\* And what interrupts them.
LEMMA InterruptionType == ASSUME TypeOK, Interruption PROVE TypeOK'
<1> USE DEF TypeOK, Goto, Reconciling, Release, Forget, locks, reconcile, reloads, Task
<1>1. CASE \E r, n \in Refresh : Replace(r, n)
  <2>1. PICK r \in Refresh, n \in Refresh : Replace(r, n)
    BY <1>1
  <2>2. pc' \in [Task -> Reconciling \cup {"idle", "thread", "bulk", "queued", "dispatch", "join",
                                          "gather", "cancelling", "collect", "end"}]
    BY <2>1 DEF Replace
  <2>3. /\ owes' \in [Task -> SUBSET Domain]
        /\ todo' \in [Task -> SUBSET Domain]
        /\ reloadLock' \in Task \cup {Free}
    BY <2>1 DEF Replace
  <2> QED
    BY <2>1, <2>2, <2>3 DEF Replace
<1>2. CASE \E r \in Refresh : CancelWorkers(r)
  BY <1>2, DomainOfAssumption DEF CancelWorkers
<1>3. CASE \E r \in Refresh : Collected(r)
  BY <1>3 DEF Collected
<1>4. CASE \E c \in Call : CancelCall(c)
  BY <1>4 DEF CancelCall
<1>5. CASE \E d \in Domain : OrphanEnds(d)
  BY <1>5 DEF OrphanEnds
<1>6. CASE ReloadEntry
  BY <1>6 DEF ReloadEntry
<1> QED
  BY <1>1, <1>2, <1>3, <1>4, <1>5, <1>6 DEF Interruption

\* Whatever is cancelled or replaced, every task is in one of its segments and
\* every set of domains is one.
THEOREM TypeCorrect == SpecInterrupted => []TypeOK
<1>1. TypeOK /\ [NextInterrupted]_vars => TypeOK'
  BY NextType, InterruptionType DEF NextInterrupted
<1> QED
  BY <1>1, InitType, PTL DEF SpecInterrupted, NextInterrupted

------------------------------------------------------------------------------
(* What has been announced stays so.                                       *)

\* Both copies of the pending domains cover the announced ones: the entry may be
\* reloaded from the store at any time.
Remembered == announced \subseteq (pending \cap stored) \cup services

\* A reconcile, the only one to shrink what is pending, keeps it.
LEMMA ReconcileRemembers == ASSUME Remembered, NEW t \in Task, Reconcile(t) PROVE Remembered'
<1> USE DEF Remembered, locks, reconcile, reloads
<1>1. CASE Enter(t)
  BY <1>1 DEF Enter
<1>2. CASE Announce(t)
  BY <1>2 DEF Announce
<1>3. CASE Requested(t)
  BY <1>3 DEF Requested
<1>4. CASE Conclude(t)
  BY <1>4 DEF Conclude
<1>5. CASE \E d \in Domain : Request(t, d)
  BY <1>5 DEF Request
<1>6. CASE \E d \in Domain : Unavailable(t, d)
  BY <1>6 DEF Unavailable
<1> QED
  BY <1>1, <1>2, <1>3, <1>4, <1>5, <1>6 DEF Reconcile

\* Calls do not touch it, refreshes only store what is pending.
LEMMA CallRemembers ==
    ASSUME Remembered, NEW c \in Call, CallBegin(c) \/ CallEnds(c) \/ CallReconcile(c)
    PROVE  Remembered'
  BY DEF Remembered, CallBegin, CallEnds, CallFail, CallCommit, CallReconcile, reloads

LEMMA RefreshRemembers ==
    ASSUME Remembered, NEW r \in Refresh, Start(r) \/ RefreshStep(r)
    PROVE  Remembered'
<1> USE DEF Remembered, locks, reconcile, reloads
<1>1. CASE Start(r) \/ Lock(r) \/ Dispatch(r) \/ Joined(r) \/ End(r)
  BY <1>1 DEF Start, Lock, Dispatch, Joined, End
<1>2. CASE Gathered(r)
  BY <1>2 DEF Gathered
<1>3. CASE \E i \in Item : ItemStep(r, i)
  BY <1>3 DEF ItemStep, ItemBegin, ItemCommit, ItemFail, ItemReport
<1> QED
  BY <1>1, <1>2, <1>3 DEF RefreshStep

LEMMA InterruptionRemembers == ASSUME Remembered, Interruption PROVE Remembered'
<1> USE DEF Remembered, locks, reconcile, reloads
<1>1. CASE \E r, n \in Refresh : Replace(r, n)
  BY <1>1 DEF Replace
<1>2. CASE \E r \in Refresh : CancelWorkers(r) \/ Collected(r)
  BY <1>2 DEF CancelWorkers, Collected
<1>3. CASE \E c \in Call : CancelCall(c)
  BY <1>3 DEF CancelCall
<1>4. CASE \E d \in Domain : OrphanEnds(d)
  BY <1>4 DEF OrphanEnds
<1>5. CASE ReloadEntry
  BY <1>5 DEF ReloadEntry
<1> QED
  BY <1>1, <1>2, <1>3, <1>4, <1>5 DEF Interruption

LEMMA RememberedStep == ASSUME Remembered, [NextInterrupted]_vars PROVE Remembered'
<1>1. CASE \E c \in Call : CallStep(c)
  BY <1>1, CallRemembers, ReconcileRemembers DEF CallStep, Task
<1>2. CASE \E r \in Refresh : Start(r) \/ RefreshStep(r) \/ Reconcile(r)
  BY <1>2, RefreshRemembers, ReconcileRemembers DEF Task
<1>3. CASE \E d \in Domain : ServiceReads(d)
  BY <1>3 DEF Remembered, ServiceReads
<1>4. CASE Interruption
  BY <1>4, InterruptionRemembers
<1>5. CASE UNCHANGED vars
  BY <1>5 DEF Remembered, vars, reloads
<1> QED
  BY <1>1, <1>2, <1>3, <1>4, <1>5 DEF Next, NextInterrupted

\* From the first save of a reconcile on, a stale domain is pending or being
\* reloaded, through cancellations and reloads of the config entry
\* (async_reconcile_reload_services).
THEOREM Announced == SpecInterrupted => []AnnouncedKept
<1>1. Init => Remembered
  BY DEF Init, Remembered
<1>2. Remembered => AnnouncedKept
  BY DEF Remembered, AnnouncedKept
<1> QED
  BY <1>1, <1>2, RememberedStep, PTL DEF SpecInterrupted, NextInterrupted

------------------------------------------------------------------------------
(* Who may owe what.                                                       *)

\* Workers are only active while their refresh waits for them or is about to
\* cancel them, and no task owes anything outside of the segments that lead to a
\* reconcile: nothing is lost when the next refresh takes its place.
Refreshing ==
    /\ \A r \in Refresh, i \in Item :
          item[r][i] \in {"queued", "thread", "saving"} => pc[r] \in {"join", "cancelling"}
    /\ \A r \in Refresh : pc[r] = "cancelling" => current # r
    /\ \A t \in Task :
          pc[t] \in {"idle", "queued", "announce", "reload", "conclude", "dispatch", "end"}
             => owes[t] = {}

\* The holder of the lock of reconciles is the only one to reload, and what it is
\* going to reload is pending.
Holding ==
    /\ \A t \in Task : pc[t] \in {"announce", "reload", "conclude"} => reloadLock = t
    /\ \A t \in Task : todo[t] # {} => pc[t] \in {"announce", "reload"}
    /\ \A t \in Task : todo[t] \subseteq pending

Sound == TypeOK /\ Refreshing /\ Holding

LEMMA ReconcileSound == ASSUME Sound, NEW t \in Task, Reconcile(t)
                        PROVE  Refreshing' /\ Holding'
<1> USE TaskAssumption
    DEF Sound, TypeOK, Refreshing, Holding, Goto, Task, locks, reconcile, reloads
<1>1. CASE Enter(t)
  BY <1>1 DEF Enter
<1>2. CASE Announce(t)
  BY <1>2 DEF Announce
<1>3. CASE Requested(t)
  BY <1>3 DEF Requested
<1>4. CASE Conclude(t)
  BY <1>4 DEF Conclude
<1>5. CASE \E d \in Domain : Request(t, d)
  BY <1>5 DEF Request
<1>6. CASE \E d \in Domain : Unavailable(t, d)
  BY <1>6 DEF Unavailable
<1> QED
  BY <1>1, <1>2, <1>3, <1>4, <1>5, <1>6 DEF Reconcile

LEMMA CallSound ==
    ASSUME Sound, NEW c \in Call, CallBegin(c) \/ CallEnds(c) \/ CallReconcile(c)
    PROVE  Refreshing' /\ Holding'
<1> USE TaskAssumption
    DEF Sound, TypeOK, Refreshing, Holding, Goto, Task, locks, reconcile, reloads
<1>1. CASE CallBegin(c)
  BY <1>1 DEF CallBegin
<1>2. CASE CallFail(c)
  BY <1>2 DEF CallFail
<1>3. CASE \E d \in Domain : CallCommit(c, d)
  BY <1>3 DEF CallCommit
<1>4. CASE CallReconcile(c)
  BY <1>4 DEF CallReconcile
<1> QED
  BY <1>1, <1>2, <1>3, <1>4 DEF CallEnds

LEMMA ItemSound ==
    ASSUME Sound, NEW r \in Refresh, NEW i \in Item, ItemStep(r, i)
    PROVE  Refreshing' /\ Holding'
<1> USE DomainOfAssumption
    DEF Sound, TypeOK, Refreshing, Holding, Task, locks, reconcile, reloads
<1>1. CASE ItemBegin(r, i)
  BY <1>1 DEF ItemBegin
<1>2. CASE ItemCommit(r, i)
  BY <1>2 DEF ItemCommit
<1>3. CASE ItemFail(r, i)
  BY <1>3 DEF ItemFail
<1>4. CASE ItemReport(r, i)
  BY <1>4 DEF ItemReport
<1> QED
  BY <1>1, <1>2, <1>3, <1>4 DEF ItemStep

LEMMA RefreshSound ==
    ASSUME Sound, NEW r \in Refresh, Start(r) \/ RefreshStep(r)
    PROVE  Refreshing' /\ Holding'
<1> USE TaskAssumption
    DEF Sound, TypeOK, Refreshing, Holding, Goto, Task, locks, reconcile, reloads
<1>1. CASE Start(r)
  BY <1>1 DEF Start, Alive
<1>2. CASE Lock(r)
  BY <1>2 DEF Lock
<1>3. CASE Dispatch(r)
  BY <1>3 DEF Dispatch
<1>4. CASE Joined(r)
  BY <1>4 DEF Joined
<1>5. CASE Gathered(r)
  BY <1>5 DEF Gathered
<1>6. CASE End(r)
  BY <1>6 DEF End
<1>7. CASE \E i \in Item : ItemStep(r, i)
  BY <1>7, ItemSound
<1> QED
  BY <1>1, <1>2, <1>3, <1>4, <1>5, <1>6, <1>7 DEF RefreshStep

LEMMA InterruptionSound == ASSUME Sound, Interruption PROVE Refreshing' /\ Holding'
<1> USE TaskAssumption
    DEF Sound, TypeOK, Refreshing, Holding, Goto, Task, Release, Forget, locks, reconcile, reloads
<1>1. ASSUME NEW r \in Refresh, NEW n \in Refresh, Replace(r, n)
      PROVE  Refreshing' /\ Holding'
  <2>1. r # n /\ pc[r] # "idle" /\ pc[n] = "idle" /\ current = r /\ current' = n
    BY <1>1 DEF Replace, Alive
  <2>2. /\ pc'[r] = CASE pc[r] = "queued" -> "idle" [] pc[r] = "join" -> "cancelling" [] OTHER -> "end"
        /\ pc'[n] = "queued" /\ \A t \in Task \ {r, n} : pc'[t] = pc[t]
        /\ item' = item /\ pending' = pending
    BY <1>1, <2>1 DEF Replace
  <2>3. /\ \A t \in Task \ {r} : owes'[t] = owes[t] /\ todo'[t] = todo[t]
        /\ pc[r] # "join" => owes'[r] = {} /\ todo'[r] = {}
        /\ pc[r] = "join" => owes' = owes /\ todo' = todo
        /\ reloadLock' # reloadLock => reloadLock = r
    BY <1>1 DEF Replace
  <2>4. \A i \in Item : item[r][i] \in {"queued", "thread", "saving"} => pc'[r] = "cancelling"
    BY <2>1, <2>2
  <2>5. Refreshing'
    BY <2>1, <2>2, <2>3, <2>4
  <2>6. Holding'
    BY <2>1, <2>2, <2>3
  <2> QED
    BY <2>5, <2>6
<1>2. CASE \E r \in Refresh : CancelWorkers(r)
  BY <1>2 DEF CancelWorkers
<1>3. CASE \E r \in Refresh : Collected(r)
  BY <1>3 DEF Collected
<1>4. CASE \E c \in Call : CancelCall(c)
  BY <1>4 DEF CancelCall
<1>5. CASE \E d \in Domain : OrphanEnds(d)
  BY <1>5 DEF OrphanEnds
<1>6. CASE ReloadEntry
  BY <1>6 DEF ReloadEntry
<1> QED
  BY <1>1, <1>2, <1>3, <1>4, <1>5, <1>6 DEF Interruption

LEMMA InitSound == Init => Sound
  BY InitType DEF Init, Task, Sound, Refreshing, Holding

LEMMA SoundStep == ASSUME Sound, [NextInterrupted]_vars PROVE Sound'
<1>1. TypeOK'
  BY NextType, InterruptionType DEF Sound, NextInterrupted
<1>2. CASE \E c \in Call : CallStep(c)
  BY <1>1, <1>2, CallSound, ReconcileSound DEF CallStep, Task, Sound
<1>3. CASE \E r \in Refresh : Start(r) \/ RefreshStep(r) \/ Reconcile(r)
  BY <1>1, <1>3, RefreshSound, ReconcileSound DEF Task, Sound
<1>4. CASE \E d \in Domain : ServiceReads(d)
  BY <1>1, <1>4 DEF Sound, Refreshing, Holding, ServiceReads, locks, reconcile
<1>5. CASE Interruption
  BY <1>1, <1>5, InterruptionSound DEF Sound
<1>6. CASE UNCHANGED vars
  BY <1>1, <1>6 DEF Sound, Refreshing, Holding, vars, locks, reconcile, reloads
<1> QED
  BY <1>2, <1>3, <1>4, <1>5, <1>6 DEF Next, NextInterrupted

------------------------------------------------------------------------------
(* The reconciliation implements the ledger.                               *)

LEMMA KeptOwed == ASSUME TypeOK PROVE Kept \subseteq Owed
  BY DEF TypeOK, Kept, Owed

\* A step that changes no file and reads none may only keep more.
LEMMA Keeping ==
    ASSUME TypeOK, TypeOK', UNCHANGED stale, Kept \subseteq Kept',
           \A d \in Domain : d \in Owed' <=> d \in Owed
    PROVE  Ledger!Next
<1>1. Owed' = Owed
  BY DEF Owed
<1>2. Kept' \subseteq Owed'
  BY KeptOwed DEF TypeOK, Kept, Owed
<1> QED
  BY <1>1, <1>2 DEF Ledger!Next, Ledger!Keep

LEMMA Changing ==
    ASSUME NEW d \in Domain, stale' = stale \cup {d}, UNCHANGED <<pending, stored, services>>,
           \A e \in Domain : e \in Owed' <=> e \in Owed \/ e = d
    PROVE  Ledger!Next
<1>1. Owed' = Owed \cup {d}
  BY DEF Owed
<1> QED
  BY <1>1 DEF Ledger!Next, Ledger!Change, Kept

LEMMA ReconcileKeeps == ASSUME Sound, TypeOK', NEW t \in Task, Reconcile(t) PROVE Ledger!Next
<1> SUFFICES /\ UNCHANGED stale /\ Kept \subseteq Kept'
             /\ \A d \in Domain : d \in Owed' <=> d \in Owed
  BY Keeping DEF Sound
<1> USE DEF Sound, TypeOK, Refreshing, Holding, Owed, Kept, Reporting, Goto, Task, locks, reconcile,
            reloads
<1>1. CASE Enter(t)
  BY <1>1 DEF Enter
<1>2. CASE Announce(t)
  BY <1>2 DEF Announce
<1>3. CASE Requested(t)
  BY <1>3 DEF Requested
<1>4. CASE Conclude(t)
  BY <1>4 DEF Conclude
<1>5. CASE \E d \in Domain : Request(t, d)
  BY <1>5 DEF Request
<1>6. CASE \E d \in Domain : Unavailable(t, d)
  BY <1>6 DEF Unavailable
<1> QED
  BY <1>1, <1>2, <1>3, <1>4, <1>5, <1>6 DEF Reconcile

LEMMA CallKeeps ==
    ASSUME Sound, TypeOK', NEW c \in Call, CallBegin(c) \/ CallEnds(c) \/ CallReconcile(c)
    PROVE  Ledger!Next
<1> USE DEF Sound, TypeOK, Goto, Task, locks, reconcile, reloads
<1>1. CASE CallBegin(c) \/ CallFail(c) \/ CallReconcile(c)
  <2>1. UNCHANGED <<stale, pending, stored, owes, item, services>>
    BY <1>1 DEF CallBegin, CallFail, CallReconcile
  <2> QED
    BY <2>1, Keeping DEF Owed, Kept, Reporting
<1>2. ASSUME NEW d \in Domain, CallCommit(c, d) PROVE Ledger!Next
  <2>1. \A e \in Domain : e \in Owed' <=> e \in Owed \/ e = d
    BY <1>2 DEF CallCommit, Owed, Reporting
  <2> QED
    BY <1>2, <2>1, Changing DEF CallCommit
<1> QED
  BY <1>1, <1>2 DEF CallEnds

LEMMA ItemKeeps ==
    ASSUME Sound, TypeOK', NEW r \in Refresh, NEW i \in Item, ItemStep(r, i)
    PROVE  Ledger!Next
<1> USE DomainOfAssumption DEF Sound, TypeOK, Task, locks, reconcile, reloads
<1>1. CASE ItemBegin(r, i) \/ ItemFail(r, i)
  <2>1. UNCHANGED <<stale, pending, stored, owes, services>>
    BY <1>1 DEF ItemBegin, ItemFail
  <2>2. \A q \in Refresh, j \in Item : item'[q][j] = "saving" <=> item[q][j] = "saving"
    BY <1>1 DEF ItemBegin, ItemFail
  <2>3. \A d \in Domain : Reporting(d)' <=> Reporting(d)
    BY <2>2 DEF Reporting
  <2> QED
    BY <2>1, <2>3, Keeping DEF Owed, Kept
<1>2. CASE ItemCommit(r, i)
  <2>1. UNCHANGED <<pending, stored, owes, services>> /\ stale' = stale \cup {DomainOf[i]}
    BY <1>2 DEF ItemCommit
  <2>2. \A d \in Domain : Reporting(d)' <=> Reporting(d) \/ d = DomainOf[i]
    BY <1>2 DEF ItemCommit, Reporting
  <2> QED
    BY <2>1, <2>2, Changing DEF Owed
<1>3. CASE ItemReport(r, i)
  <2>1. UNCHANGED <<stale, pending, services>> /\ stored' = pending
    BY <1>3 DEF ItemReport
  <2>2. \A d \in Domain : Reporting(d)' \/ d = DomainOf[i] <=> Reporting(d)
    BY <1>3 DEF ItemReport, Reporting
  <2>3. \A d : (\E t \in Task : d \in owes'[t]) <=> (\E t \in Task : d \in owes[t]) \/ d = DomainOf[i]
    BY <1>3 DEF ItemReport
  <2>4. \A d \in Domain : d \in Owed' <=> d \in Owed
    BY <2>1, <2>2, <2>3 DEF Owed
  <2> QED
    BY <2>1, <2>4, Keeping DEF Kept
<1> QED
  BY <1>1, <1>2, <1>3 DEF ItemStep

LEMMA RefreshKeeps ==
    ASSUME Sound, TypeOK', NEW r \in Refresh, Start(r) \/ RefreshStep(r)
    PROVE  Ledger!Next
<1>1. CASE \E i \in Item : ItemStep(r, i)
  BY <1>1, ItemKeeps
<1>2. CASE Start(r) \/ Lock(r) \/ Dispatch(r) \/ Joined(r) \/ Gathered(r) \/ End(r)
  <2> USE DEF Sound, TypeOK, Refreshing, Owed, Kept, Reporting, Goto, Task, locks, reconcile, reloads
  <2> SUFFICES /\ UNCHANGED stale /\ Kept \subseteq Kept'
               /\ \A d \in Domain : d \in Owed' <=> d \in Owed
    BY Keeping
  <2>1. CASE Start(r)
    BY <2>1 DEF Start
  <2>2. CASE Lock(r)
    BY <2>2 DEF Lock
  <2>3. CASE Dispatch(r)
    BY <2>3 DEF Dispatch
  <2>4. CASE Joined(r)
    BY <2>4 DEF Joined
  <2>5. CASE Gathered(r)
    BY <2>5 DEF Gathered
  <2>6. CASE End(r)
    BY <2>6 DEF End
  <2> QED
    BY <1>2, <2>1, <2>2, <2>3, <2>4, <2>5, <2>6
<1> QED
  BY <1>1, <1>2 DEF RefreshStep

LEMMA NextKeeps == ASSUME Sound, Next PROVE Ledger!Next
<1>1. TypeOK'
  BY NextType DEF Sound
<1>2. CASE \E c \in Call : CallStep(c)
  BY <1>1, <1>2, CallKeeps, ReconcileKeeps DEF CallStep, Task
<1>3. CASE \E r \in Refresh : Start(r) \/ RefreshStep(r) \/ Reconcile(r)
  BY <1>1, <1>3, RefreshKeeps, ReconcileKeeps DEF Task
<1>4. ASSUME NEW d \in Domain, ServiceReads(d) PROVE Ledger!Next
  <2>1. /\ d \in services /\ services' = services \ {d} /\ stale' = stale \ {d}
        /\ UNCHANGED <<pending, stored, owes, item>>
    BY <1>4 DEF ServiceReads
  <2>2. d \in Owed
    BY <2>1 DEF Owed
  <2>3. Owed' \in {Owed, Owed \ {d}}
    BY <2>1 DEF Owed, Reporting
  <2>4. Kept' \in {Kept, Kept \ {d}}
    BY <2>1 DEF Kept
  <2> QED
    BY <2>1, <2>2, <2>3, <2>4 DEF Ledger!Next, Ledger!Read
<1> QED
  BY <1>2, <1>3, <1>4 DEF Next

LEMMA StutterKeeps == ASSUME UNCHANGED vars PROVE UNCHANGED Ledger!vars
  BY DEF vars, reloads, Ledger!vars, Owed, Kept, Reporting

LEMMA InitLedger == Init => Ledger!Init
  BY DEF Init, Ledger!Init, Owed, Kept, Reporting

\* The reconciliation implements the ledger: from the step that commits a file to
\* the step that reads it, the domain is owed (async_reconcile_reload_services,
\* _async_background_refresh).
THEOREM Refinement == Spec => ImplementsLedger
<1>1. Sound /\ [Next]_vars => Sound'
  BY SoundStep DEF NextInterrupted
<1>2. Sound /\ [Next]_vars => [Ledger!Next]_Ledger!vars
  BY NextKeeps, StutterKeeps
<1> QED
  BY <1>1, <1>2, InitSound, InitLedger, PTL DEF Spec, ImplementsLedger, Ledger!Spec

LEMMA InterruptionLoses == ASSUME Sound, Interruption PROVE Ledger!Loss
<1>1. TypeOK'
  BY InterruptionType DEF Sound
<1>2. CASE \/ \E r, n \in Refresh : Replace(r, n)
           \/ \E r \in Refresh : CancelWorkers(r) \/ Collected(r)
           \/ \E c \in Call : CancelCall(c)
  <2>1. /\ UNCHANGED <<stale, pending, stored, services>>
        /\ \A t \in Task : owes'[t] \subseteq owes[t]
    BY <1>2 DEF Replace, CancelWorkers, Collected, CancelCall, Forget, Task, Sound, TypeOK, reloads, reconcile
  <2>2. \A d \in Domain : Reporting(d)' => Reporting(d)
    BY <1>2 DEF Replace, CancelWorkers, Collected, CancelCall, Reporting, Sound, TypeOK
  <2>3. Kept' = Kept
    BY <2>1 DEF Kept
  <2>4. Owed' \subseteq Owed
    BY <2>1, <2>2 DEF Owed
  <2>5. Kept \subseteq Owed'
    BY <1>1, <2>1 DEF TypeOK, Kept, Owed
  <2> QED
    BY <2>1, <2>3, <2>4, <2>5 DEF Ledger!Loss, Ledger!Forget
<1>3. ASSUME NEW d \in Domain, OrphanEnds(d) PROVE Ledger!Loss
  <2>1. UNCHANGED Owed /\ UNCHANGED Kept /\ stale' \in {stale, stale \cup {d}}
    BY <1>3 DEF OrphanEnds, Owed, Kept, Reporting, reloads
  <2>2. Kept \subseteq Owed
    BY KeptOwed DEF Sound
  <2> QED
    BY <2>1, <2>2 DEF Ledger!Loss, Ledger!Forget, Ledger!Unseen
<1>4. CASE ReloadEntry
  <2>1. /\ \A t \in Task : pc[t] = "idle" /\ owes[t] = {}
        /\ pending' = stored /\ UNCHANGED <<stale, stored, owes, item, services>>
    BY <1>4 DEF ReloadEntry, Sound, Refreshing, reloads
  <2>2. \A d : ~Reporting(d)
    BY <2>1 DEF Reporting, Sound, Refreshing, Task
  <2>3. Owed' = stored \cup services /\ Kept' = stored \cup services
    <3>1. Kept' = stored \cup services /\ stored \cup services \subseteq Domain
      BY <2>1 DEF Kept, Sound, TypeOK
    <3>2. \A d \in Domain : ~Reporting(d)' /\ \A t \in Task : d \notin owes'[t]
      BY <2>1, <2>2 DEF Reporting
    <3>3. \A d \in Domain : d \in Owed' <=> d \in stored \cup services
      BY <2>1, <3>2 DEF Owed
    <3>4. Owed' \subseteq Domain
      BY DEF Owed
    <3> QED
      BY <3>1, <3>3, <3>4
  <2>4. Kept \subseteq Kept' /\ Kept' \subseteq Domain
    BY <2>3 DEF Kept, Sound, TypeOK
  <2> QED
    BY <2>1, <2>3, <2>4 DEF Ledger!Loss, Ledger!Restart
<1> QED
  BY <1>2, <1>3, <1>4 DEF Interruption

\* Cancelled tasks and a reloaded entry lose only what is owed and not kept, and
\* the files of orphaned threads (_start_background_refresh, async_unload_entry).
THEOREM LossyRefinement == SpecInterrupted => ImplementsLossyLedger
<1>1. Sound /\ [NextInterrupted]_vars => [Ledger!Next \/ Ledger!Loss]_Ledger!vars
  BY NextKeeps, InterruptionLoses, StutterKeeps DEF NextInterrupted
<1> QED
  BY <1>1, InitSound, SoundStep, InitLedger, PTL
     DEF SpecInterrupted, NextInterrupted, ImplementsLossyLedger, Ledger!SpecLossy

\* With refreshes that run to their end and calls that are not stopped, every
\* domain with changed files is pending, being reloaded, or owed by a task
\* (async_reconcile_reload_services, _async_background_refresh): the ledger
\* strikes out no domain that is stale.
THEOREM StaleOwed == Spec => []StaleIsOwed
<1>1. stale \subseteq Owed /\ [Ledger!Next]_Ledger!vars => (stale \subseteq Owed)'
  BY DEF Ledger!Next, Ledger!Keep, Ledger!Change, Ledger!Read, Ledger!vars
<1>2. Init => stale \subseteq Owed
  BY DEF Init
<1>3. stale \subseteq Owed => StaleIsOwed
  BY DEF Owed, StaleIsOwed
<1>4. Sound /\ [Next]_vars => Sound' /\ [Ledger!Next]_Ledger!vars
  BY SoundStep, NextKeeps, StutterKeeps DEF NextInterrupted
<1> QED
  BY <1>1, <1>2, <1>3, <1>4, InitSound, PTL DEF Spec
==============================================================================
