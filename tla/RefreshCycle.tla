---------------------------- MODULE RefreshCycle ----------------------------
(***************************************************************************)
(* One tracked blueprint between its file, its entry in coordinator.data   *)
(* and its source on the network.  Scans replace the entry by what they    *)
(* read from disk and start a background refresh; the worker of a refresh  *)
(* asks the source, conditionally if it has an ETag, and writes what it    *)
(* learns into the entry, or installs it when automatic updates are on;    *)
(* calls of users fetch, preview, install and restore at any time.  Each   *)
(* action is the code between two awaits, so that every answer may be late.*)
(*                                                                         *)
(* Contents are the versions 0, 1, ... of the source and stand for their   *)
(* hashes; an ETag is the version it belongs to, and an answer may come    *)
(* without one.  The file transaction is the compare-and-swap              *)
(* of RevisionedFile, which FileStore implements.  A RefreshWorkItem       *)
(* belongs to the newest scan exactly if its refresh is the newest.        *)
(***************************************************************************)
EXTENDS Naturals

CONSTANTS
    Refresh,     \* background refresh tasks alive at the same time
    Call,        \* calls of users, each of which may be made again and again
    Operation,   \* what they ask for, of "update", "update_all", "restore", "preview"
    Versions,    \* bound: the last version the source publishes
    Untagged,    \* whether the source may answer without an ETag
    None,        \* no value in the entry
    Live,        \* a call that looks at the entry itself
    Free

ASSUME TaskAssumption == Refresh \cap Call = {} /\ Free \notin Refresh \cup Call
ASSUME OperationAssumption == Operation \subseteq {"update", "update_all", "restore", "preview"}
ASSUME VersionsAssumption == Versions \in Nat
ASSUME UntaggedAssumption == Untagged \in BOOLEAN
ASSUME NoneAssumption == None \notin Nat

Task == Refresh \cup Call
Version == 0 .. Versions

\* local_hash and local_file_hash, remote_hash, remote_content, etag, updatable;
\* history: whether the body was fetched for a preview.
Entry == [local : Version, remote : Version \cup {None}, body : Version \cup {None},
          etag : Version \cup {None}, offer : BOOLEAN, preview : BOOLEAN]

\* What a call uses of an entry that a scan has replaced.
Glance(e) == [local |-> e.local, body |-> e.body]

ASSUME LiveAssumption == Live \notin {Glance(e) : e \in Entry}

VARIABLES
    file,      \* the version in the blueprint file
    upstream,  \* the version the source serves
    entry,     \* coordinator.data[path]
    auto,      \* is_auto_update_enabled
    scan,      \* the version a scan has read and not delivered yet, or None
    newest,    \* the refresh of the newest scan: _refresh_generation
    lock,      \* the path lock
    pc,        \* where each task is suspended
    job,       \* its local variables
    orphans    \* installs in a thread nobody waits for: what over what

world == <<file, upstream>>
vars == <<world, entry, auto, scan, newest, lock, pc, job, orphans>>

\* op: what the task is for; fetch: whether a call is inside async_fetch_blueprint;
\* pre: the file it expects; sent: the ETag of its request, then the one that
\* goes with the answer; got: the content it brings; judged: whether that is an
\* update; kept: the ETag of the entry when its transaction was prepared; seen:
\* the entry it holds a reference to.
Idle == [op |-> "none", fetch |-> FALSE, pre |-> None, sent |-> None, got |-> None,
         judged |-> FALSE, kept |-> None, seen |-> Live]

Init ==
    /\ file = 0
    /\ upstream \in {0, 1} \cap Version
    /\ \E remote \in {None} \cup 0 .. upstream :
          entry = [local |-> 0, remote |-> remote, body |-> None,
                   etag |-> IF remote = 0 THEN remote ELSE None,
                   offer |-> remote \notin {None, 0}, preview |-> FALSE]
    /\ auto \in BOOLEAN
    /\ scan = None
    /\ newest = Free
    /\ lock = Free
    /\ pc = [t \in Task |-> "idle"]
    /\ job = [t \in Task |-> Idle]
    /\ orphans = {}

\* The entry that a call holds: the dictionary of the scan it began with.
Held(c) == IF job[c].seen = Live THEN Glance(entry) ELSE job[c].seen

\* info["local_hash"] of the task: its snapshot, or the dictionary as it is now.
Local(t) == IF t \in Refresh THEN job[t].pre ELSE Held(t).local

\* _is_current_refresh_item: direct work is always current.
Current(t) == t \in Refresh => newest = t /\ entry.local = job[t].pre

Goto(t, from, to) ==
    /\ pc[t] = from
    /\ pc' = [pc EXCEPT ![t] = to]

\* _async_update_blueprint_in_place returns.
Leave(t, from) ==
    /\ Goto(t, from, IF t \in Refresh THEN "idle" ELSE "fetched")
    /\ job' = [job EXCEPT ![t] = IF t \in Refresh THEN Idle ELSE [Idle EXCEPT !.op = job[t].op]]

------------------------------------------------------------------------------
(* Scans: _async_update_data.                                              *)

\* scan_blueprints reads the file in the executor.
ScanReads ==
    /\ scan = None
    /\ scan' = file
    /\ UNCHANGED <<world, entry, auto, newest, lock, pc, job, orphans>>

\* _merge_previous_data with _apply_ghost_update_detection.
Merged(new) ==
    LET differs == entry.remote # None /\ entry.remote # new
        ghost == differs /\ entry.body = new
    IN [local |-> new, remote |-> IF ghost THEN new ELSE entry.remote, body |-> entry.body,
        etag |-> entry.etag, offer |-> differs /\ ~ghost, preview |-> entry.preview]

\* The entry is a new dictionary: calls that hold the old one keep it as it was.
Detached == [c \in Call |-> IF /\ pc[c] \in {"ready", "sent", "served", "decide",
                                               "asked", "answered"}
                               /\ job[c].seen = Live
                            THEN [job[c] EXCEPT !.seen = Glance(entry)] ELSE job[c]]

\* The scan is delivered: its refresh is the newest, and no older item is current.
ScanEnds(r) ==
    /\ scan # None
    /\ pc[r] = "idle"
    /\ newest' = r
    /\ entry' = Merged(scan)
    /\ pc' = [pc EXCEPT ![r] = "queued"]
    /\ job' = [t \in Task |-> IF t = r THEN [Idle EXCEPT !.op = "refresh", !.pre = scan]
                              ELSE IF t \in Call THEN Detached[t] ELSE job[t]]
    /\ scan' = None
    /\ UNCHANGED <<world, auto, lock, orphans>>

------------------------------------------------------------------------------
(* The background refresh: the lock of the refreshes, and cancellation.    *)

\* The request for the blueprint, with the given ETag.
Ask(t, from, etag) ==
    /\ Goto(t, from, "sent")
    /\ job' = [job EXCEPT ![t] = [Idle EXCEPT !.op = job[t].op, !.fetch = t \in Call,
                                              !.pre = job[t].pre, !.seen = job[t].seen,
                                              !.sent = etag]]

\* Under _refresh_lock a worker takes the item, if it is still current,
\* and sends the ETag of a known remote_hash.
Take(r) ==
    /\ pc[r] = "queued"
    /\ \A s \in Refresh : pc[s] \in {"idle", "queued"}
    /\ \/ Current(r) /\ Ask(r, "queued", IF entry.remote # None THEN entry.etag ELSE None)
       \/ ~Current(r) /\ Leave(r, "queued")
    /\ UNCHANGED <<world, entry, auto, scan, newest, lock, orphans>>

\* A worker that was replaced is cancelled, at the latest after its next
\* steps; a thread it waits for goes on.
CancelWorker(r) ==
    /\ newest # r
    /\ pc[r] # "idle"
    /\ Leave(r, pc[r])
    /\ lock' = IF lock = r THEN Free ELSE lock
    /\ orphans' = IF pc[r] = "thread" THEN orphans \cup {<<job[r].got, job[r].pre>>} ELSE orphans
    /\ UNCHANGED <<world, entry, auto, scan, newest>>

\* Mutation: the thread replaces whatever file there is by now.
OrphanCommits(o) ==
    /\ o \in orphans
    /\ orphans' = orphans \ {o}
    /\ file' = o[1]
    /\ UNCHANGED <<upstream, entry, auto, scan, newest, lock, pc, job>>

\* Nobody hears whether the thread installs its content or fails.
OrphanEnds(o) ==
    /\ o \in orphans
    /\ orphans' = orphans \ {o}
    /\ file' \in {file} \cup (IF file = o[2] THEN {o[1]} ELSE {})
    /\ UNCHANGED <<upstream, entry, auto, scan, newest, lock, pc, job>>

------------------------------------------------------------------------------
(* BlueprintFileStore.transaction.                                         *)

\* async with transaction(real_path) takes a free lock without suspending the
\* task, and otherwise waits in line.
LockFree == lock = Free /\ \A t \in Task : pc[t] # "lock"

\* A task with this job comes to the lock; under it the entry is copied, and a
\* restore reads the revision of the file.
Prepared(j) ==
    [j EXCEPT !.kept = IF j.op = "restore" \/ j.sent # None THEN None ELSE entry.etag,
              !.pre = IF j.op = "restore" THEN file ELSE @]

Enter(t, from, j) ==
    /\ pc[t] = from
    /\ pc' = [pc EXCEPT ![t] = IF LockFree THEN "thread" ELSE "lock"]
    /\ lock' = IF LockFree THEN t ELSE lock
    /\ job' = [job EXCEPT ![t] = IF LockFree THEN Prepared(j) ELSE j]

------------------------------------------------------------------------------
(* _async_update_blueprint_in_place, by a worker or a direct fetch.        *)

\* The source answers with 304, which brings nothing, or with its version; an
\* answer without an ETag goes with the one of the request.
Serve(t) ==
    /\ Goto(t, "sent", "served")
    /\ \/ job[t].sent = upstream /\ job' = job
       \/ /\ job[t].sent # upstream
          /\ \E etag \in {upstream} \cup (IF Untagged THEN {job[t].sent} ELSE {}) :
                job' = [job EXCEPT ![t].sent = etag, ![t].got = upstream]
    /\ UNCHANGED <<world, entry, auto, scan, newest, lock, orphans>>

\* Mutation: the content that could not be confirmed stays.
FetchFailsKeepingBody(t) ==
    /\ Leave(t, "sent")
    /\ \E etag \in {entry.etag, None} :
          entry' = IF Current(t)
                   THEN [entry EXCEPT !.remote = None, !.etag = etag, !.offer = FALSE]
                   ELSE entry
    /\ UNCHANGED <<world, auto, scan, newest, lock, orphans>>

\* _update_error_state, with or without clear_etag.
FetchFails(t) ==
    /\ Leave(t, "sent")
    /\ \E etag \in {entry.etag, None} :
          entry' = IF Current(t)
                   THEN [entry EXCEPT !.remote = None, !.body = None, !.etag = etag, !.offer = FALSE,
                                      !.preview = FALSE]
                   ELSE entry
    /\ UNCHANGED <<world, auto, scan, newest, lock, orphans>>

Obsolete(t) ==
    /\ pc[t] \in {"served", "decide"}
    /\ ~Current(t)
    /\ Leave(t, pc[t])
    /\ UNCHANGED <<world, entry, auto, scan, newest, lock, orphans>>

\* _handle_not_modified_case: the known hash is compared again, and fetched
\* on demand for an automatic update.
NotModified(t) ==
    LET differs == entry.remote # None /\ entry.remote # Local(t) IN
    /\ pc[t] = "served" /\ job[t].got = None
    /\ Current(t)
    /\ entry' = [entry EXCEPT !.etag = job[t].sent,
                              !.offer = IF entry.remote = None THEN @ ELSE differs]
    /\ \/ /\ differs /\ auto
          /\ Goto(t, "served", "sent")
          /\ job' = [job EXCEPT ![t].sent = None]
       \/ /\ ~(differs /\ auto)
          /\ Leave(t, "served")
    /\ UNCHANGED <<world, auto, scan, newest, lock, orphans>>

\* Mutation: the ETag is stored with the answer, before the answer is dealt with.
JudgeStoringETag(t) ==
    /\ job[t].got # None
    /\ Current(t)
    /\ Goto(t, "served", "decide")
    /\ entry' = [entry EXCEPT !.etag = job[t].sent]
    /\ job' = [job EXCEPT ![t].judged = job[t].got # Local(t)]
    /\ UNCHANGED <<world, auto, scan, newest, lock, orphans>>

\* The content is valid; whether it is an update is settled before the risks
\* are looked for.
Judge(t) ==
    /\ job[t].got # None
    /\ Current(t)
    /\ Goto(t, "served", "decide")
    /\ job' = [job EXCEPT ![t].judged = job[t].got # Local(t)]
    /\ UNCHANGED <<world, entry, auto, scan, newest, lock, orphans>>

\* _update_coordinator_status_data for an invalid content, or the error state of
\* an unexpected exception...
ShowInvalid(t) ==
    /\ Current(t)
    /\ Leave(t, "decide")
    /\ \E etag \in {job[t].sent, None} :
          entry' = [entry EXCEPT !.remote = None, !.body = None, !.etag = etag, !.offer = FALSE,
                                 !.preview = FALSE]
    /\ UNCHANGED <<world, auto, scan, newest, lock, orphans>>

Shown(t) == [entry EXCEPT !.remote = job[t].got, !.etag = job[t].sent, !.offer = job[t].judged,
                          !.body = IF job[t].judged THEN job[t].got ELSE None,
                          !.preview = FALSE]

\* ... and for a valid one that is not installed.
Show(t) ==
    /\ Current(t)
    /\ ~(auto /\ job[t].judged)
    /\ Leave(t, "decide")
    /\ entry' = Shown(t)
    /\ UNCHANGED <<world, auto, scan, newest, lock, orphans>>

\* _handle_auto_update_step: the update is safe, and expects the scanned file...
AutoUpdate(t) ==
    /\ Current(t)
    /\ auto /\ job[t].judged
    /\ Enter(t, "decide", [job[t] EXCEPT !.pre = Local(t)])
    /\ UNCHANGED <<world, entry, auto, scan, newest, orphans>>

\* ... or it is blocked: the user is notified first.
Block(t) ==
    /\ Current(t)
    /\ auto /\ job[t].judged
    /\ Goto(t, "decide", "blocked")
    /\ UNCHANGED <<world, entry, auto, scan, newest, lock, job, orphans>>

Blocked(t) ==
    /\ Leave(t, "blocked")
    /\ entry' = Shown(t)
    /\ UNCHANGED <<world, auto, scan, newest, lock, orphans>>

UpdateInPlace(t) ==
    \/ Serve(t) \/ FetchFails(t) \/ Obsolete(t) \/ NotModified(t) \/ Judge(t)
    \/ ShowInvalid(t) \/ Show(t) \/ AutoUpdate(t) \/ Block(t) \/ Blocked(t)

------------------------------------------------------------------------------
(* async_install_blueprint and async_restore_blueprint.                    *)

\* A task inside the fetch installs automatically, otherwise for a user.
Automatic(t) == t \in Refresh \/ job[t].fetch

\* The task waited: the work item is checked again.
Acquire(t) ==
    /\ lock = Free
    /\ Current(t)
    /\ Goto(t, "lock", "thread")
    /\ lock' = t
    /\ job' = [job EXCEPT ![t] = Prepared(@)]
    /\ UNCHANGED <<world, entry, auto, scan, newest, orphans>>

\* BlueprintRefreshObsoleteError
TooLate(t) ==
    /\ lock = Free
    /\ ~Current(t)
    /\ Leave(t, "lock")
    /\ UNCHANGED <<world, entry, auto, scan, newest, lock, orphans>>

\* The executor replaces the file it expects, and backs it up.
Commit(t) ==
    /\ Goto(t, "thread", "finish")
    /\ file = job[t].pre
    /\ file' = job[t].got
    /\ UNCHANGED <<upstream, entry, auto, scan, newest, lock, job, orphans>>

\* The call that made the fetch or the transaction goes on.
Return(t, from) ==
    IF Automatic(t) THEN Leave(t, from)
    ELSE /\ Goto(t, from, "idle")
         /\ job' = [job EXCEPT ![t] = Idle]

\* FileRevisionMismatchError or OSError: an automatic update shows what it
\* could not install.
InstallFails(t) ==
    /\ pc[t] = "thread"
    /\ Return(t, "thread")
    /\ lock' = Free
    /\ entry' = IF Automatic(t)
                THEN [entry EXCEPT !.remote = job[t].got, !.body = job[t].got,
                                   !.etag = job[t].sent, !.offer = TRUE, !.preview = FALSE]
                ELSE entry
    /\ UNCHANGED <<world, auto, scan, newest, orphans>>

\* Mutation: a restore is recorded like an install, with the ETag of the entry.
FinishKeepingETag(t) ==
    /\ Return(t, "finish")
    /\ lock' = Free
    /\ entry' = [local |-> job[t].got, remote |-> job[t].got, body |-> None, offer |-> FALSE,
                 etag |-> IF job[t].sent # None THEN job[t].sent ELSE entry.etag,
                 preview |-> FALSE]
    /\ UNCHANGED <<world, auto, scan, newest, orphans>>

\* _build_installed_blueprint_metadata, or _async_finalize_blueprint_restore.
Finish(t) ==
    LET known == IF job[t].op = "restore" THEN None ELSE job[t].got IN
    /\ Return(t, "finish")
    /\ lock' = Free
    /\ entry' = [local |-> job[t].got, remote |-> known, body |-> None, offer |-> FALSE,
                 etag |-> IF job[t].sent # None THEN job[t].sent ELSE job[t].kept,
                 preview |-> FALSE]
    /\ UNCHANGED <<world, auto, scan, newest, orphans>>

Transaction(t) == Acquire(t) \/ TooLate(t) \/ Commit(t) \/ InstallFails(t) \/ Finish(t)

------------------------------------------------------------------------------
(* Calls: async_install of the entity, update_all, restore, and the        *)
(* difference that the entity shows.                                       *)

\* update_all lists the entries with an update before it installs the first;
\* the update entity and a restore go on at once, the latter with a backup of any
\* version.  The difference to an update whose content is not there is fetched.
Begin(c) ==
    /\ pc[c] = "idle"
    /\ \/ \E backup \in 0 .. upstream :
             /\ "restore" \in Operation
             /\ Enter(c, "idle", [Idle EXCEPT !.op = "restore", !.got = backup])
       \/ /\ "preview" \in Operation
          /\ entry.offer /\ entry.body = None /\ entry.remote # None
          /\ Goto(c, "idle", "asked")
          /\ job' = [job EXCEPT ![c] = [Idle EXCEPT !.op = "preview"]]
          /\ UNCHANGED lock
       \/ \E op \in Operation \cap {"update", "update_all"} :
             /\ entry.offer
             /\ Goto(c, "idle", "ready")
             /\ job' = [job EXCEPT ![c] = [Idle EXCEPT !.op = op]]
             /\ UNCHANGED lock
    /\ UNCHANGED <<world, entry, auto, scan, newest, orphans>>

\* The content to install is at hand, over the file that the entry describes now.
InstallBody(c, from, body) ==
    /\ body # None
    /\ Enter(c, from, [Idle EXCEPT !.op = job[c].op, !.got = body, !.pre = entry.local])

NothingToInstall(c, from) ==
    /\ Goto(c, from, "idle")
    /\ job' = [job EXCEPT ![c] = Idle]
    /\ UNCHANGED lock

\* update_all goes on with the entry it listed, the update entity looks it up.
Source(c) == IF job[c].op = "update" THEN entry ELSE Held(c)

\* The content is there, or has to be fetched; only the update entity sees that
\* there is nothing to do any more, or that the entry has an error by now.
Choose(c) ==
    /\ pc[c] = "ready"
    /\ \/ InstallBody(c, "ready", Source(c).body)
       \/ /\ Source(c).body = None
          /\ job[c].op = "update_all" \/ entry.offer
          /\ Ask(c, "ready", None)
          /\ UNCHANGED lock
       \/ /\ job[c].op = "update"
          /\ NothingToInstall(c, "ready")
    /\ UNCHANGED <<world, entry, auto, scan, newest, orphans>>

\* After the fetch the entry is looked up again, its error included.
Fetched(c) ==
    /\ pc[c] = "fetched"
    /\ \/ InstallBody(c, "fetched", entry.body)
       \/ /\ entry.body = None \/ job[c].op = "update"
          /\ NothingToInstall(c, "fetched")
    /\ UNCHANGED <<world, entry, auto, scan, newest, orphans>>

\* async_fetch_diff_content: the source answers...
PreviewAnswered(c) ==
    /\ Goto(c, "asked", "answered")
    /\ job' = [job EXCEPT ![c].got = upstream]
    /\ UNCHANGED <<world, entry, auto, scan, newest, lock, orphans>>

\* ... and once the answer is validated, the content, and nothing else, goes into
\* the entry that the call began with, whatever was stored there meanwhile;
\* after a scan nobody looks there.
PreviewStored(c) ==
    /\ Goto(c, "answered", "idle")
    /\ job' = [job EXCEPT ![c] = Idle]
    /\ entry' = IF job[c].seen = Live
                THEN [entry EXCEPT !.body = job[c].got, !.preview = TRUE]
                ELSE entry
    /\ UNCHANGED <<world, auto, scan, newest, lock, orphans>>

\* The request fails, or the content is not valid, which is an error of the entry.
PreviewFails(c) ==
    /\ pc[c] \in {"asked", "answered"}
    /\ NothingToInstall(c, pc[c])
    /\ UNCHANGED <<world, entry, auto, scan, newest, orphans>>

Preview(c) == PreviewAnswered(c) \/ PreviewStored(c) \/ PreviewFails(c)

CallStep(c) == Choose(c) \/ Fetched(c) \/ Preview(c)

------------------------------------------------------------------------------

\* The author of the blueprint publishes the next version.
Publish ==
    /\ upstream < Versions
    /\ upstream' = upstream + 1
    /\ UNCHANGED <<file, entry, auto, scan, newest, lock, pc, job, orphans>>

Next ==
    \/ Publish
    \/ ScanReads
    \/ \E r \in Refresh : ScanEnds(r) \/ Take(r) \/ CancelWorker(r)
    \/ \E o \in orphans : OrphanEnds(o)
    \/ \E t \in Task : UpdateInPlace(t) \/ Transaction(t)
    \/ \E c \in Call : Begin(c) \/ CallStep(c)

Spec == Init /\ [][Next]_vars

\* The event loop, the executor and the timeouts of the requests see to it that
\* every started task goes on; scans come at intervals.
FairSpec ==
    /\ Spec
    /\ WF_vars(ScanReads)
    /\ WF_vars(\E r \in Refresh : ScanEnds(r))
    /\ \A r \in Refresh : WF_vars(Take(r)) /\ WF_vars(CancelWorker(r))
    /\ \A t \in Task : WF_vars(UpdateInPlace(t)) /\ WF_vars(Transaction(t))
    /\ \A c \in Call : WF_vars(CallStep(c))
    /\ WF_vars(\E o \in orphans : OrphanEnds(o))
------------------------------------------------------------------------------

\* The segments and the local variables of a task.
Phase == {"idle", "queued", "sent", "served", "decide", "blocked", "lock",
          "thread", "finish", "ready", "fetched", "asked", "answered"}

Job == [op : {"none", "refresh"} \cup Operation, fetch : BOOLEAN,
        pre : Version \cup {None}, sent : Version \cup {None},
        got : Version \cup {None}, judged : BOOLEAN, kept : Version \cup {None},
        seen : [local : Version, body : Version \cup {None}] \cup {Live}]

TypeOK ==
    /\ {file, upstream} \subseteq Version
    /\ entry \in Entry
    /\ auto \in BOOLEAN
    /\ scan \in Version \cup {None}
    /\ newest \in Refresh \cup {Free}
    /\ lock \in Task \cup {Free}
    /\ pc \in [Task -> Phase]
    /\ job \in [Task -> Job]
    /\ orphans \subseteq Version \X Version

\* A 304 keeps the remote_hash, so that it must not confirm another version than
\* the known one: it would hide an update for good.  The ETag of the entry may be
\* older than its hash, because answers may have none, but through refreshes and
\* restores, late answers, replaced workers and failed installs it is never newer.
NotModifiedIsKnown ==
    \A r \in Refresh : pc[r] = "served" /\ job[r].got = None =>
        entry.remote \in {None, job[r].sent}

\* A background refresh, the thread of a cancelled one included, never puts an
\* older version in the place of a newer one, whatever users fetch and install
\* while its answer is on the way (_handle_auto_update_step expects the hash of
\* the file that was scanned before the request).
AutoNeverDowngrades ==
    [][(\E r \in Refresh : Commit(r)) \/ (\E o \in orphans : OrphanEnds(o)) => file' >= file]_vars

\* What the update entity installs is the version that the entry names as the
\* latest, although content and hash come from different answers, outlive scans
\* and failures, and are shown again by installs that failed (async_install of
\* the entity takes remote_content, latest_version is remote_hash); only what was
\* fetched for a preview can be another one, and no longer than until the next
\* answer or install puts content and hash in the entry together.
UserInstallsShown ==
    [][\A c \in Call :
          /\ job[c].op = "update"
          /\ pc[c] \in {"ready", "fetched"} /\ pc'[c] \in {"lock", "thread"}
          => job'[c].got = entry.remote \/ entry.preview]_vars

\* Once users leave the blueprint alone and each refresh is left to finish, the
\* entry shows the version that the source serves, or that it could not be read.
Calm ==
    /\ <>[][ScanReads => \A r \in Refresh : pc[r] = "idle"]_vars
    /\ <>[](\A c \in Call : pc[c] = "idle")

UpdateIsFound == Calm => <>[](entry.remote \in {None, upstream})
==============================================================================
