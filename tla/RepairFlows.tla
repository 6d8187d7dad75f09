----------------------------- MODULE RepairFlows -----------------------------
(***************************************************************************)
(* The repair flows of one blueprint: apply the modernized candidate and   *)
(* pin it, switch to a fork (or to the modernized fork), replace the URL   *)
(* of a withdrawn blueprint, stop tracking, delete, unpin.  A flow writes  *)
(* its URL into coordinator.data and the metadata before the install and   *)
(* takes it back if that fails, also after the file was replaced, but not  *)
(* if it is cancelled; around it scans rebuild the entry from the file,    *)
(* the background refresh asks the source of the file and decides whether  *)
(* a pin holds back its answer, the metadata are saved, files are edited   *)
(* and Home Assistant restarts.                                            *)
(*                                                                         *)
(* A blueprint is a text with the source_url inside it, and stands for its *)
(* hash.  Users work on one repair at a time.  The file transaction is the *)
(* compare-and-swap of RevisionedFile; saves are atomic here (overlapping   *)
(* ones are in MetadataStore), and so are scans (late ones, 304 answers    *)
(* and user updates are in RefreshCycle); automatic updates are on.  Each  *)
(* other action is the code between two awaits.                            *)
(***************************************************************************)
EXTENDS Naturals

CONSTANTS
    Text, Url,
    Home,        \* the URL of the blueprint at first
    First,       \* the texts that it may have then
    Severe,      \* texts with a severity: deprecation or breaking
    Breaking,    \* those that break
    Fix,         \* the modernized candidate of a text, or None
    Written,     \* what other processes make of the file: texts, or Gone
    Releases,    \* what authors publish later: <<URL, text, or Gone for a 404>>
    MaxEvents,   \* bound: writes of others and publications together
    MaxLosses,   \* bound: cancelled flows and installs that fail late together
    Gone,        \* no file, nothing served
    None

Blueprint == [text: Text, url: Url]
Persisted == [url: Url \cup {None}, remote: Blueprint \cup {None}, pinned: BOOLEAN,
              bad: Blueprint \cup {None}]
Entry == [url: Url \cup {None}, local: Blueprint \cup {Gone}, remote: Blueprint \cup {None},
          pinned: BOOLEAN, bad: Blueprint \cup {None}]
Item == [step: {"queued", "answered", "validating", "judged", "installed"},
         url: Url, local: Blueprint, text: Text \cup {None}, update: BOOLEAN, pinned: BOOLEAN]
Flow == [step: {"closed", "fix", "fork", "risks", "waiting", "prepared", "installed",
                "reloading"},
         kind: {"fix", "switch", "withdrawn", None},
         url: Url \cup {None}, text: Text \cup {None}, base: Blueprint \cup {Gone, None},
         known: BOOLEAN, entryUrl: Url \cup {None}, metaUrl: Url \cup {None},
         bad: Blueprint \cup {None}, final: Url \cup {None}]
Issue == [base: Blueprint, candidate: Text \cup {None}]

ASSUME TextAssumption == First \subseteq Text /\ Home \in Url /\ Breaking \subseteq Severe
ASSUME FixAssumption == Fix \in [Text -> Text \cup {None}]
ASSUME WorldAssumption == Written \subseteq Text \cup {Gone}
                           /\ Releases \subseteq Url \X (Text \cup {Gone})
ASSUME MarkerAssumption ==
    /\ {Gone, None} \cap (Text \cup Url \cup Blueprint) = {} /\ Gone # None
    /\ None \notin Persisted /\ None \notin Entry /\ None \notin Item
    /\ None \notin {"flow", "refresh", "fix", "switch", "withdrawn"}
ASSUME BoundAssumption == MaxEvents \in Nat /\ MaxLosses \in Nat

VARIABLES
    file,      \* the blueprint file
    serves,    \* what each URL serves
    entry,     \* coordinator.data[path]
    meta,      \* _persisted_metadata[relative_path]
    disk,      \* the same in the store
    tracked,   \* the filter options admit the blueprint
    first,     \* no scan since the start: not _first_update_done
    item,      \* the work of the newest background refresh
    lock,      \* who holds the path lock
    flow,      \* the open repair flow
    issues,    \* the repair issues of the blueprint
    events,    \* how many of them there were
    losses,    \* how many cancelled flows and late failures there were
    fixed,     \* history: the fix the user applied, while it is in force
    moved,     \* history: a flow gave the entry a URL that its install did not use
    orphans,   \* installs in a thread nobody waits for: what over what
    strayed    \* history: a flow was cancelled or failed late, and no scan was since

store == <<meta, disk>>
world == <<file, serves, tracked, events>>
history == <<fixed, moved>>
left == <<losses, orphans, strayed>>
vars == <<world, entry, store, first, item, lock, flow, issues, history, left>>

Unpinned(r) == [r EXCEPT !.pinned = FALSE, !.bad = None]
Blank == [url |-> None, remote |-> None, pinned |-> FALSE, bad |-> None]
Bare == [url |-> None, local |-> Gone, remote |-> None, pinned |-> FALSE, bad |-> None]

\* url, text, base: _pending_url, the content to install and the revision it
\* replaces; kind: what is installed; known, entryUrl, metaUrl: old_runtime_url,
\* has_persisted, old_persisted_url; bad: remote_h; final: the prepared source_url.
NoFlow == [step |-> "closed", kind |-> None, url |-> None, text |-> None, base |-> None,
           known |-> FALSE, entryUrl |-> None, metaUrl |-> None, bad |-> None, final |-> None]

Init ==
    /\ \E text \in First : /\ file = [text |-> text, url |-> Home]
                           /\ serves = [u \in Url |-> text]
    /\ entry = None
    /\ meta = None /\ disk = None
    /\ tracked = TRUE
    /\ first = TRUE
    /\ item = None
    /\ lock = None
    /\ flow = NoFlow
    /\ issues = [incompatible |-> None, withdrawn |-> FALSE]
    /\ events = 0
    /\ fixed = None /\ moved = FALSE
    /\ losses = 0 /\ orphans = {} /\ strayed = FALSE

------------------------------------------------------------------------------
(* Metadata.                                                               *)

\* The candidate of _async_save_metadata: the entry over what was persisted;
\* files that are gone are filtered out.
Candidate(e, m) ==
    IF file = Gone THEN None
    ELSE IF e = None THEN m
    ELSE [url |-> e.url, remote |-> e.remote, pinned |-> e.pinned, bad |-> e.bad]

SaveOf(e, m) == meta' = Candidate(e, m) /\ disk' = Candidate(e, m)

\* The saves of url_change_save and prune_save and of the end of a refresh.
Save ==
    /\ ~first
    /\ SaveOf(entry, meta)
    /\ UNCHANGED <<world, entry, first, item, lock, flow, issues, history, left>>

Recorded(m) == IF m = None THEN Blank ELSE m

Pending == flow.step \in {"waiting", "prepared", "installed", "reloading"}

------------------------------------------------------------------------------
(* Opening a flow and the forms before its install.                        *)

Goto(step) == flow' = [flow EXCEPT !.step = step]

calm == <<world, entry, store, first, item, lock, issues, history, left>>

\* async_create_fix_flow and async_step_init: a flow of an incompatible or of a
\* withdrawn blueprint is opened from its issue, or is showing a form.
Opens(kind) ==
    /\ ~first
    /\ \/ /\ flow.step = "closed"
          /\ IF kind = "withdrawn" THEN issues.withdrawn ELSE issues.incompatible # None
       \/ /\ kind = "withdrawn" /\ flow.step = "risks"
       \/ /\ kind = "incompatible" /\ flow.step = "fork"

\* A form waits for the user to confirm, to start anew or to close it.
FormShown == flow.step \in {"fix", "fork", "risks"}

Close ==
    /\ FormShown
    /\ flow' = NoFlow
    /\ UNCHANGED calm

\* async_step_auto_fix: the candidate and its base come with the issue.
ReviewFix ==
    /\ ~first /\ flow.step = "closed"
    /\ issues.incompatible # None /\ issues.incompatible.candidate # None
    /\ flow' = [NoFlow EXCEPT !.step = "fix", !.kind = "fix",
                              !.text = issues.incompatible.candidate,
                              !.base = issues.incompatible.base]
    /\ UNCHANGED calm

\* The user enters a URL the file does not have; what it serves is fetched, and
\* then the precondition is captured.
Fetched(u) == serves[u] # Gone /\ (file # Gone => file.url # u)

Shows(step, kind, u) ==
    flow' = [NoFlow EXCEPT !.step = step, !.kind = kind, !.url = u, !.text = serves[u],
                           !.base = file]

\* async_step_change_url of a withdrawn blueprint, whose file may be gone.
EnterReplacement(u) ==
    /\ Opens("withdrawn") /\ Fetched(u)
    /\ Shows("risks", "withdrawn", u)
    /\ UNCHANGED calm

\* async_step_change_url of an incompatible one: the fork needs a file to
\* replace, and is refused if it breaks.
EnterFork(u) ==
    /\ Opens("incompatible") /\ Fetched(u)
    /\ file # Gone /\ serves[u] \notin Breaking
    /\ Shows("fork", "switch", u)
    /\ UNCHANGED calm

\* async_step_confirm_fork, "auto_fix": the modernized fork instead of the fork.
ReviewFork ==
    /\ flow.step = "fork" /\ Fix[flow.text] # None
    /\ flow' = [flow EXCEPT !.step = "fix", !.kind = "fix", !.text = Fix[flow.text]]
    /\ UNCHANGED calm

------------------------------------------------------------------------------
(* The install of a flow.                                                  *)

\* _resolve_blueprint_metadata: the URL of the entry, else the one passed,
\* else the one in the content.
FinalUrl(e) ==
    IF e # None /\ e.url # None THEN e.url
    ELSE IF flow.url # None THEN flow.url
    ELSE flow.base.url

\* Mutation: the entry keeps the pending URL.
TakeBackMetadata ==
    /\ UNCHANGED entry
    /\ meta' = IF flow.kind = "withdrawn" \/ flow.url = None THEN meta
               ELSE IF flow.known /\ meta # None THEN [meta EXCEPT !.url = flow.metaUrl]
               ELSE IF flow.known THEN meta ELSE None

\* The except branches of _async_execute_auto_fix and _async_execute_fork_switch.
TakeBack ==
    IF flow.kind = "withdrawn" \/ flow.url = None
      THEN UNCHANGED <<entry, meta>>
      ELSE /\ entry' = IF flow.entryUrl # None
                         THEN [(IF entry = None THEN Bare ELSE entry) EXCEPT !.url = flow.entryUrl]
                       ELSE IF entry = None THEN None ELSE [entry EXCEPT !.url = None]
           /\ meta' = IF flow.known /\ meta # None THEN [meta EXCEPT !.url = flow.metaUrl]
                      ELSE IF flow.known THEN meta ELSE None

\* What the flow writes before it asks for the install; a fork switch creates
\* the entry if there is none.
Announced ==
    IF flow.kind = "withdrawn" \/ flow.url = None THEN [entry |-> entry, meta |-> meta]
    ELSE [entry |-> IF entry # None THEN [entry EXCEPT !.url = flow.url]
                    ELSE IF flow.kind = "switch" THEN [Bare EXCEPT !.url = flow.url] ELSE None,
          meta |-> [Recorded(meta) EXCEPT !.url = flow.url]]

\* _async_execute_auto_fix, _async_execute_fork_switch, _async_apply_new_url.
\* A free lock is taken, and the install prepared, without an await.
Confirm ==
    /\ FormShown
    /\ entry' = Announced.entry /\ meta' = Announced.meta
    /\ LET told == [flow EXCEPT
                !.known = meta # None,
                !.entryUrl = IF entry = None THEN None ELSE entry.url,
                !.metaUrl = Recorded(meta).url,
                !.bad = IF entry # None /\ entry.remote # None THEN entry.remote
                        ELSE Recorded(meta).remote]
       IN IF lock = None
            THEN /\ lock' = "flow"
                 /\ flow' = [told EXCEPT !.step = "prepared", !.final = FinalUrl(entry')]
            ELSE /\ flow' = [told EXCEPT !.step = "waiting"]
                 /\ UNCHANGED lock
    /\ UNCHANGED <<world, disk, first, item, issues, history, left>>

Prepare ==
    /\ flow.step = "waiting" /\ lock = None
    /\ lock' = "flow"
    /\ flow' = [flow EXCEPT !.step = "prepared", !.final = FinalUrl(entry)]
    /\ UNCHANGED <<world, entry, store, first, item, issues, history, left>>

New == [text |-> flow.text, url |-> flow.final]

\* BlueprintFileStore.install in the executor.
Install ==
    /\ flow.step = "prepared" /\ file = flow.base
    /\ file' = New
    /\ Goto("installed")
    /\ fixed' = None
    /\ UNCHANGED <<serves, tracked, events, entry, store, first, item, lock,
                   issues, moved, left>>

\* The metadata were pruned since: the rollback itself raises a KeyError.
RollbackFails == flow.url # None /\ flow.kind # "withdrawn" /\ flow.known /\ meta = None

\* The except branches also see what is raised after the file was replaced, by the
\* executor, a save, a listener of the coordinator or the reload of a service.
FailsLate ==
    /\ flow.step \in {"installed", "reloading"} /\ losses < MaxLosses
    /\ losses' = losses + 1
    /\ strayed' = TRUE

\* A changed file or an error of the file system, or a late one: an auto-fix is
\* aborted, a fork switch shows its form again, as any step does that ends in an
\* exception.
InstallFails ==
    /\ \/ flow.step = "prepared" /\ UNCHANGED <<losses, strayed>>
       \/ FailsLate
    /\ lock' = None
    /\ TakeBack
    /\ flow' = IF flow.kind = "fix" /\ ~RollbackFails THEN NoFlow
               ELSE [flow EXCEPT !.step = CASE flow.kind = "switch" -> "fork"
                                            [] flow.kind = "fix" -> "fix"
                                            [] OTHER -> "risks",
                                 !.known = FALSE, !.entryUrl = None, !.metaUrl = None,
                                 !.bad = None, !.final = None]
    /\ UNCHANGED <<world, disk, first, item, issues, history, orphans>>

\* A cancelled flow takes nothing back, and a thread it waits for goes on.
CancelFlow ==
    /\ Pending /\ losses < MaxLosses
    /\ losses' = losses + 1
    /\ lock' = IF lock = "flow" THEN None ELSE lock
    /\ orphans' = IF flow.step = "prepared" THEN orphans \cup {<<New, flow.base>>} ELSE orphans
    /\ strayed' = TRUE
    /\ flow' = NoFlow
    /\ UNCHANGED <<world, entry, store, first, item, issues, history>>

\* Nobody hears whether the thread installs its content or fails.
OrphanEnds(o) ==
    /\ o \in orphans
    /\ orphans' = orphans \ {o}
    /\ file' \in {file} \cup (IF file = o[2] THEN {o[1]} ELSE {})
    /\ fixed' = IF file' = file THEN fixed ELSE None
    /\ UNCHANGED <<serves, tracked, events, entry, store, first, item, lock, flow, issues,
                   moved, losses, strayed>>

\* _async_store_installed_blueprint_metadata; only the withdrawn flow saves.
Finalize ==
    /\ flow.step = "installed"
    /\ entry' = [(IF entry = None THEN Bare ELSE entry) EXCEPT
                    !.url = flow.final, !.local = New, !.remote = New]
    /\ IF flow.kind = "withdrawn" THEN SaveOf(entry', meta) ELSE UNCHANGED store
    /\ Goto("reloading")
    /\ UNCHANGED <<world, first, item, lock, issues, history, left>>

\* After the reload, with the release of the lock: async_pin_blueprint.
FinishFix ==
    /\ flow.step = "reloading" /\ flow.kind = "fix"
    /\ lock' = None
    /\ LET pin(r) == [r EXCEPT !.pinned = TRUE, !.bad = IF flow.bad # None THEN flow.bad ELSE @]
           m == pin(Recorded(meta))
           e == IF entry = None THEN None
                ELSE [entry EXCEPT !.pinned = TRUE,
                                   !.bad = IF flow.bad = None THEN m.bad ELSE flow.bad]
       IN entry' = e /\ SaveOf(e, m)
    /\ fixed' = IF file = New /\ entry # None THEN file ELSE None
    /\ flow' = NoFlow
    /\ issues' = [issues EXCEPT !.incompatible = None]
    /\ UNCHANGED <<world, first, item, moved, left>>

\* A fork is tracked from now on, and no pin of the old source holds.
FinishSwitch ==
    /\ flow.step = "reloading" /\ flow.kind = "switch"
    /\ lock' = None
    /\ LET m == Unpinned([Recorded(meta) EXCEPT !.url = flow.url])
           e == IF entry = None THEN None ELSE Unpinned([entry EXCEPT !.url = flow.url])
       IN entry' = e /\ SaveOf(e, m)
    /\ flow' = NoFlow
    /\ issues' = [issues EXCEPT !.incompatible = None]
    /\ moved' = (moved \/ flow.final # flow.url)
    /\ UNCHANGED <<world, first, item, fixed, left>>

\* _async_apply_new_url after the install.
FinishWithdrawn ==
    /\ flow.step = "reloading" /\ flow.kind = "withdrawn"
    /\ lock' = None
    /\ entry' = IF entry = None THEN None ELSE [entry EXCEPT !.url = flow.url]
    /\ flow' = NoFlow
    /\ issues' = [issues EXCEPT !.withdrawn = FALSE]
    /\ moved' = (moved \/ flow.final # flow.url)
    /\ UNCHANGED <<world, store, first, item, fixed, left>>

------------------------------------------------------------------------------
(* The other answers to an issue.                                          *)

\* _async_execute_stop_tracking.
StopTracking ==
    /\ Opens("withdrawn")
    /\ tracked' = FALSE
    /\ issues' = [issues EXCEPT !.withdrawn = FALSE]
    /\ flow' = NoFlow
    /\ UNCHANGED <<file, serves, events, entry, store, first, item, lock, history, left>>

\* _async_execute_delete, which does not take the path lock.
Delete ==
    /\ Opens("withdrawn") /\ flow.step = "closed"
    /\ file' = Gone
    /\ fixed' = None
    /\ issues' = [issues EXCEPT !.withdrawn = FALSE]
    /\ flow' = NoFlow
    /\ UNCHANGED <<serves, tracked, events, entry, store, first, item, lock, moved, left>>

\* async_step_unpin: async_unpin_blueprint and the end of the issue.
Unpin ==
    /\ Opens("incompatible") /\ flow.step = "closed" /\ Recorded(meta).pinned
    /\ LET e == IF entry = None THEN None ELSE Unpinned(entry)
       IN entry' = e /\ SaveOf(e, Unpinned(meta))
    /\ fixed' = None
    /\ flow' = NoFlow
    /\ issues' = [issues EXCEPT !.incompatible = None]
    /\ UNCHANGED <<world, first, item, lock, moved, left>>

------------------------------------------------------------------------------
(* Scans.                                                                  *)

\* Mutation: after a change of the URL the entry forgets its pin.
RebuiltUnpinned(new, prev, changed) ==
    [url |-> new.url, local |-> new,
     remote |-> IF changed THEN None
                ELSE IF prev # None THEN prev.remote
                ELSE IF first THEN Recorded(meta).remote ELSE None,
     pinned |-> FALSE, bad |-> None]

\* _async_initialize_results and _merge_previous_data.
Rebuilt(new, prev, changed) ==
    [url |-> new.url, local |-> new,
     remote |-> IF changed THEN None
                ELSE IF prev # None THEN prev.remote
                ELSE IF first THEN Recorded(meta).remote ELSE None,
     pinned |-> Recorded(meta).pinned \/ (prev # None /\ prev.pinned),
     bad |-> IF Recorded(meta).bad # None THEN Recorded(meta).bad
             ELSE IF prev # None THEN prev.bad ELSE None]

\* _handle_source_url_change: the URL before, of the entry or the metadata.
UrlChanged(new) ==
    LET before == IF entry # None THEN entry.url ELSE Recorded(meta).url
    IN before # None /\ before # new.url

\* A scan: new entry, new background refresh.  The filter leaves out untracked
\* files; metadata of a removed file are pruned, those of another URL dropped
\* until the next save.
Scan ==
    /\ first' = FALSE
    /\ moved' = (moved /\ Pending)
    /\ strayed' = (strayed /\ (Pending \/ orphans # {}))
    /\ IF file = Gone \/ ~tracked
         THEN /\ entry' = None
              /\ item' = None
              /\ meta' = IF file = Gone THEN None ELSE meta
         ELSE /\ entry' = Rebuilt(file, entry, UrlChanged(file))
              /\ item' = [step |-> "queued", url |-> file.url, local |-> file, text |-> None,
                          update |-> FALSE, pinned |-> FALSE]
              /\ meta' = IF UrlChanged(file) THEN None ELSE meta
    /\ lock' = IF lock = "refresh" THEN None ELSE lock
    /\ UNCHANGED <<world, disk, flow, issues, fixed, losses, orphans>>

------------------------------------------------------------------------------
(* The background refresh of the newest scan.                              *)

Current == entry # None /\ entry.url = item.url /\ entry.local = item.local

work == <<world, first, flow, fixed, moved, left>>

\* A worker whose item is no longer current returns.
Obsolete ==
    /\ item # None /\ item.step \in {"queued", "answered", "judged"} /\ ~Current
    /\ item' = None
    /\ UNCHANGED <<work, entry, store, lock, issues>>

\* The source answers, or not: 404 raises the withdrawn issue.
Answer ==
    /\ item # None /\ item.step = "queued" /\ Current
    /\ \/ /\ serves[item.url] # Gone
          /\ item' = [item EXCEPT !.step = "answered", !.text = serves[item.url]]
          /\ UNCHANGED <<entry, issues>>
       \/ /\ serves[item.url] = Gone
          /\ item' = None
          /\ entry' = [entry EXCEPT !.remote = None]
          /\ issues' = [issues EXCEPT !.withdrawn = TRUE]
       \/ /\ item' = None
          /\ entry' = [entry EXCEPT !.remote = None]
          /\ UNCHANGED issues
    /\ UNCHANGED <<work, store, lock>>

Remote == [text |-> item.text, url |-> item.url]

\* The pin as the worker sees it: its info comes from the scan, so it is the
\* one in the metadata.
HeldBack == Recorded(meta).pinned /\ Remote = Recorded(meta).bad

\* A fix is in force, and no scan has dropped its metadata since the last save.
Firm == fixed # None /\ entry.pinned = Recorded(meta).pinned

\* Mutation: a pin does not hold back anything.
JudgeUnpinned ==
    /\ item # None /\ item.step = "answered" /\ Current
    /\ item' = [item EXCEPT !.step = "judged", !.update = Remote # item.local,
                            !.pinned = Firm]
    /\ issues' = [issues EXCEPT !.withdrawn = FALSE]
    /\ UNCHANGED <<work, entry, store, lock>>

\* _process_blueprint_content up to the validation that a pin asks for.
Judge ==
    /\ item # None /\ item.step = "answered" /\ Current
    /\ LET update == Remote # item.local
           asks == update /\ Recorded(meta).pinned /\ ~HeldBack
       IN /\ item' = [item EXCEPT !.step = IF asks THEN "validating" ELSE "judged",
                                  !.update = update /\ ~HeldBack,
                                  !.pinned = Firm]
          /\ issues' = IF asks THEN issues ELSE [issues EXCEPT !.withdrawn = FALSE]
    /\ UNCHANGED <<work, entry, store, lock>>

\* The compatibility of an upstream version that a pin has to answer for: bad
\* ones are remembered, a good one ends the pin.  The entry is the one of now.
Validate ==
    /\ item # None /\ item.step = "validating"
    /\ LET bad == item.text \in Severe
           e == IF entry = None THEN None
                ELSE IF bad THEN [entry EXCEPT !.bad = Remote] ELSE Unpinned(entry)
           m == IF bad THEN [Recorded(meta) EXCEPT !.bad = Remote]
                ELSE IF meta = None THEN None ELSE Unpinned(meta)
       IN /\ entry' = e
          /\ SaveOf(e, m)
          /\ item' = [item EXCEPT !.step = "judged", !.update = ~bad]
          /\ issues' = [incompatible |-> IF bad THEN issues.incompatible ELSE None,
                        withdrawn |-> FALSE]
          /\ fixed' = IF bad THEN fixed ELSE None
    /\ UNCHANGED <<world, first, flow, moved, left, lock>>

\* There is no update, or risks hold it back: _update_coordinator_status_data.
Report ==
    /\ item # None /\ item.step = "judged" /\ Current
    /\ item' = None
    /\ entry' = [entry EXCEPT !.remote = Remote]
    /\ UNCHANGED <<work, store, lock, issues>>

\* The update is installed, under the lock and if the item is still current.
AutoStart ==
    /\ item # None /\ item.step = "judged" /\ item.update /\ Current
    /\ lock = None

AutoInstall ==
    /\ AutoStart /\ file = item.local
    /\ file' = Remote
    /\ lock' = "refresh"
    /\ item' = [item EXCEPT !.step = "installed"]
    /\ fixed' = None
    /\ UNCHANGED <<serves, tracked, events, entry, store, first, flow, issues, moved, left>>

\* The file has changed since it was scanned, or cannot be written.
AutoFails ==
    /\ AutoStart
    /\ item' = None
    /\ entry' = [entry EXCEPT !.remote = Remote]
    /\ UNCHANGED <<work, store, lock, issues>>

\* The entry follows the installed file, with the URL it was prepared with.
AutoFinalize ==
    /\ item # None /\ item.step = "installed"
    /\ LET e == [(IF entry = None THEN Bare ELSE entry) EXCEPT
                    !.url = item.url, !.local = Remote, !.remote = Remote]
       IN entry' = e /\ SaveOf(e, meta)
    /\ lock' = None
    /\ item' = None
    /\ UNCHANGED <<work, issues>>

RefreshStep ==
    \/ Obsolete \/ Answer \/ Judge \/ Validate \/ Report
    \/ AutoInstall \/ AutoFails \/ AutoFinalize

------------------------------------------------------------------------------
(* The rest of the world.                                                  *)

\* Others change the text of the file, or remove it; a source_url that they
\* change while a flow is open is left out.
Edit(t) ==
    /\ events < MaxEvents /\ file # Gone /\ t # file.text
    /\ events' = events + 1
    /\ file' = IF t = Gone THEN Gone ELSE [file EXCEPT !.text = t]
    /\ fixed' = None
    /\ UNCHANGED <<serves, tracked, entry, store, first, item, lock, flow,
                   issues, moved, left>>

Publish(u, t) ==
    /\ events < MaxEvents /\ t # serves[u]
    /\ events' = events + 1
    /\ serves' = [serves EXCEPT ![u] = t]
    /\ UNCHANGED <<file, tracked, entry, store, first, item, lock, flow, issues,
                   history, left>>

\* The post-update guard finds fault with the file (PostUpdateGuard).
RaiseIssue ==
    /\ ~first /\ file # Gone /\ issues.incompatible = None
    /\ file.text \in Severe
    /\ issues' = [issues EXCEPT !.incompatible =
          [base |-> file, candidate |-> Fix[file.text]]]
    /\ UNCHANGED <<world, entry, store, first, item, lock, flow, history, left>>

\* The process dies; issues of incompatible blueprints are not persistent.
Restart ==
    /\ ~first
    /\ entry' = None
    /\ meta' = disk
    /\ first' = TRUE
    /\ item' = None /\ lock' = None
    /\ flow' = NoFlow
    /\ issues' = [issues EXCEPT !.incompatible = None]
    /\ moved' = FALSE
    /\ orphans' = {} /\ strayed' = FALSE
    /\ UNCHANGED <<world, disk, fixed, losses>>

FlowStep ==
    \/ Close \/ ReviewFix \/ ReviewFork
    \/ \E u \in Url : EnterReplacement(u) \/ EnterFork(u)
    \/ Confirm \/ Prepare \/ Install \/ InstallFails \/ CancelFlow \/ Finalize
    \/ FinishFix \/ FinishSwitch \/ FinishWithdrawn
    \/ StopTracking \/ Delete \/ Unpin

Next ==
    \/ FlowStep
    \/ Scan \/ Save
    \/ RefreshStep
    \/ \E t \in Written : Edit(t)
    \/ \E r \in Releases : Publish(r[1], r[2])
    \/ RaiseIssue
    \/ \E o \in orphans : OrphanEnds(o)
    \/ Restart

Spec == Init /\ [][Next]_vars

------------------------------------------------------------------------------
(* Properties.                                                             *)

\* The variables have their types; a flow holds the lock between its
\* preparation and its end.
TypeOK ==
    /\ file \in Blueprint \cup {Gone}
    /\ serves \in [Url -> Text \cup {Gone}]
    /\ entry \in Entry \cup {None}
    /\ meta \in Persisted \cup {None} /\ disk \in Persisted \cup {None}
    /\ tracked \in BOOLEAN /\ first \in BOOLEAN /\ moved \in BOOLEAN
    /\ item \in Item \cup {None}
    /\ item # None => (item.step = "queued" \/ item.text \in Text)
    /\ lock \in {"flow", "refresh", None}
    /\ flow \in Flow
    /\ (lock = "flow") <=> flow.step \in {"prepared", "installed", "reloading"}
    /\ lock = "flow" => flow.text \in Text /\ flow.final \in Url
    /\ issues \in [incompatible: Issue \cup {None}, withdrawn: BOOLEAN]
    /\ events \in 0..MaxEvents /\ losses \in 0..MaxLosses
    /\ fixed \in Blueprint \cup {None}
    /\ orphans \subseteq Blueprint \X (Blueprint \cup {Gone})
    /\ strayed \in BOOLEAN
    /\ orphans # {} => strayed

\* Whatever a flow wrote before its install failed, in whatever scan, refresh
\* or save it fell: once it is over, an entry that shows the file as it is
\* follows the source_url in the file.  After a flow that was cancelled, or failed
\* when the file was replaced already, this takes a scan; before it the entry may
\* name one source and the file another.  Left out is an install that did not use
\* the URL of its flow (see UrlInFile): that of a withdrawn blueprint, or of a
\* fork whose flow waited for the lock while a scan replaced the entry.
SourceAgrees ==
    /\ ~Pending /\ ~moved /\ ~strayed
    /\ entry # None /\ file # Gone /\ entry.local = file
    => entry.url = file.url

\* A fix in force on a tracked blueprint is pinned in the store, so that no
\* crash lets go of it.
PinStored == fixed # None /\ tracked => disk # None /\ disk.pinned

\* An upstream version with a severity never replaces a fix, by an update that
\* was decided while the fix was in force (en.json:182, "automatically pin"),
\* unless a scan during the install of a fork has dropped the metadata with the
\* pin and no save has put it back from the entry.
PinHonoured ==
    [][AutoInstall /\ file = fixed /\ item.pinned => item.text \notin Severe]_vars

\* The entry of a repaired withdrawn blueprint has the URL that is in the file,
\* so that the next scan keeps it (repairs.py:326, "with new URL").
UrlInFile ==
    moved /\ entry # None /\ file # Gone /\ entry.local = file => entry.url = file.url
==============================================================================
