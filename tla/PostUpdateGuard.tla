--------------------------- MODULE PostUpdateGuard ---------------------------
(***************************************************************************)
(* The post-update compatibility guard.  After a start of Home Assistant   *)
(* (or on the service check_compatibility) it lists all blueprint files,   *)
(* inspects one after the other against the running version, raises or     *)
(* deletes a repair issue for each, and records the version as checked if  *)
(* nothing failed.  Meanwhile files are edited, users acknowledge and fix, *)
(* the check is switched off, the entry is unloaded and the process dies.  *)
(*                                                                         *)
(* A content stands for its own hash.  What an inspection finds depends on *)
(* the content and the version (Verdict), see Inspection for how it does.  *)
(* An issue is identified by its blueprint: files declare the domain of    *)
(* the directory they are in.  A service call does not outlive the         *)
(* coordinator it was made to.  Each action is the code between two awaits.*)
(***************************************************************************)
EXTENDS Naturals, Sequences, FiniteSets

CONSTANTS
    Blueprint,
    Content,
    Aside,       \* those behind a link, or in a directory without all permissions
    First,       \* the files at first
    Gone,        \* the file does not exist
    None,        \* no issue, no dismissal, no inspection, nobody
    MaxHa,       \* versions of Home Assistant, 1..MaxHa
    MaxInteg,    \* versions of the integration, 1..MaxInteg
    Verdict,     \* what a sound inspection finds
    MaxEdits     \* bound: changes of files

Severity == {"none", "deprecation", "breaking"}

Ha == 1..MaxHa
Integ == 1..MaxInteg

ASSUME AsideAssumption == Aside \subseteq Blueprint
ASSUME FirstAssumption == First \in [Blueprint -> Content]
ASSUME VerdictAssumption == Verdict \in [Content -> [Ha -> Severity]]
ASSUME ReleasesAssumption == MaxHa \in Nat \ {0} /\ MaxInteg \in Nat \ {0}
ASSUME EditsAssumption == MaxEdits \in Nat

Guard == {"startup", "service"}
Report == [content: Content, severity: {"deprecation", "breaking"}]
Inspection == [content: Content, hidden: BOOLEAN]
Dismissal == Content \X Ha

ASSUME MarkersAssumption ==
    /\ Gone \notin Content
    /\ None \notin Blueprint /\ None \notin Guard
    /\ None \notin Inspection /\ None \notin Dismissal

VARIABLES
    file,       \* the blueprint files
    ha, integ,  \* versions of Home Assistant and of the integration
    enabled,    \* the option check_compatibility
    up,         \* the entry is set up
    started,    \* async_at_started has called back
    last,       \* _last_ha_version and _last_integration_version, 0 for None
    stored,     \* the same in the metadata store
    dismissed,  \* dismissed_warning of each blueprint
    issue,      \* the issue of each blueprint
    queue,      \* runs that wait for _post_ha_update_lock
    holder,     \* the run that holds it
    stage,      \* where that run is
    listed,     \* all_blueprints: contents when they were read
    unread,     \* entries ahead with a scan_error
    todo,       \* blueprints the loop has not reached
    cur,        \* the blueprint being inspected
    hidden,     \* dismissed_data of that blueprint is in force
    failed,     \* has_failures
    found,      \* severity of the last report
    edits,      \* changes of files so far
    inspected,  \* history: the last complete inspection under these versions
    fresh,      \* history: files the scan of the running guard missed, or changed since
    changed,    \* history: files that of the last clean run missed, or changed since
    acked       \* history: what users acknowledged under this Home Assistant

world == <<file, ha, integ, enabled, up, started>>
versions == <<last, stored>>
run == <<listed, unread, todo, cur, hidden, failed, found, fresh>>
history == <<inspected, changed, acked>>
vars == <<world, versions, dismissed, issue, queue, holder, stage, run, edits, history>>

Unknown == [ha |-> 0, integ |-> 0]
Present == {b \in Blueprint : file[b] # Gone}

Idle ==
    /\ listed = [b \in Blueprint |-> Gone]
    /\ unread = {}
    /\ todo = {}
    /\ cur = None
    /\ hidden = FALSE
    /\ failed = FALSE
    /\ found = "none"
    /\ fresh = {}

Init ==
    /\ file = First
    /\ ha = 1 /\ integ = 1
    /\ enabled = TRUE
    /\ up = FALSE /\ started = FALSE
    /\ last = Unknown /\ stored = Unknown
    /\ dismissed = [b \in Blueprint |-> None]
    /\ issue = [b \in Blueprint |-> None]
    /\ queue = <<>> /\ holder = None /\ stage = "free"
    /\ Idle
    /\ edits = 0
    /\ inspected = [b \in Blueprint |-> None]
    /\ changed = Blueprint
    /\ acked = {}

------------------------------------------------------------------------------
(* async_run_post_update_compatibility_guard.                              *)

\* Every way out of a run resets its locals and frees the lock.
Leave ==
    /\ holder' = None
    /\ stage' = "free"
    /\ listed' = [b \in Blueprint |-> Gone]
    /\ unread' = {}
    /\ todo' = {}
    /\ cur' = None
    /\ hidden' = FALSE
    /\ failed' = FALSE
    /\ found' = "none"
    /\ fresh' = {}

\* async_schedule_post_update_compatibility_guard, called back once per setup.
Started ==
    /\ up /\ ~started
    /\ started' = TRUE
    /\ queue' = IF enabled THEN Append(queue, "startup") ELSE queue
    /\ UNCHANGED <<file, ha, integ, enabled, up, versions, dismissed, issue, holder,
                   stage, run, edits, history>>

\* The service check_compatibility forces a run, even if the check is disabled.
CallService ==
    /\ up /\ holder # "service" /\ \A i \in DOMAIN queue : queue[i] # "service"
    /\ queue' = Append(queue, "service")
    /\ UNCHANGED <<world, versions, dismissed, issue, holder, stage, run, edits, history>>

\* asyncio.Lock serves in order.
Acquire ==
    /\ holder = None /\ queue # <<>>
    /\ holder' = Head(queue)
    /\ queue' = Tail(queue)
    /\ stage' = "compare"
    /\ UNCHANGED <<world, versions, dismissed, issue, run, edits, history>>

\* async_check_ha_version_update; known: the integration's version was found.
ShouldRun(force, known) ==
    \/ force
    \/ last.ha = 0
    \/ last.ha # ha
    \/ (known /\ last.integ # integ)

Compare(known) ==
    /\ stage = "compare"
    /\ IF ShouldRun(holder = "service", known)
         THEN stage' = "scan" /\ UNCHANGED <<holder, run>>
         ELSE Leave
    /\ UNCHANGED <<world, versions, dismissed, issue, queue, edits, history>>

\* async_scan_all_local_blueprint_files: the executor reads every file it comes
\* across; a file that cannot be read is listed with a scan_error.  Links, and files
\* in a directory that cannot be listed, are missed without a word.
Scan(bad, missed) ==
    /\ stage = "scan"
    /\ stage' = "loop"
    /\ listed' = [b \in Blueprint |-> IF b \in missed THEN Gone ELSE file[b]]
    /\ unread' = bad
    /\ todo' = Present \ missed
    /\ fresh' = missed
    /\ UNCHANGED <<world, versions, dismissed, issue, queue, holder, cur, hidden, failed,
                   found, edits, history>>

\* Listing fails as a whole: the exception ends the run.
ScanFails ==
    /\ stage = "scan"
    /\ Leave
    /\ UNCHANGED <<world, versions, dismissed, issue, queue, edits, history>>

\* Mutation: a dismissal counts for every later content and version.
InForceForever(b) == dismissed[b] # None

InForce(b) == dismissed[b] = <<listed[b], ha>>

\* The loop reaches b; a dismissal of another content or version is cleared.
Pick(b) ==
    /\ stage = "loop" /\ b \in todo
    /\ todo' = todo \ {b}
    /\ unread' = unread \ {b}
    /\ IF b \in unread
         THEN /\ failed' = TRUE
              /\ UNCHANGED <<stage, cur, hidden, dismissed>>
         ELSE /\ stage' = "inspect"
              /\ cur' = b
              /\ hidden' = InForce(b)
              /\ dismissed' = IF InForce(b) THEN dismissed
                              ELSE [dismissed EXCEPT ![b] = None]
              /\ UNCHANGED failed
    /\ UNCHANGED <<world, versions, issue, queue, holder, listed, found, fresh, edits, history>>

Done(severity) ==
    /\ stage' = "loop"
    /\ cur' = None
    /\ hidden' = FALSE
    /\ found' = "none"
    /\ inspected' = [inspected EXCEPT ![cur] =
          [content |-> listed[cur], hidden |-> hidden /\ severity = "deprecation"]]

\* Mutation: the issue of a blueprint that became compatible stays.
InspectKeeping(severity) ==
    /\ stage = "inspect"
    /\ severity \in {Verdict[listed[cur]][ha], "breaking"}
    /\ IF severity = "none" \/ (severity = "deprecation" /\ hidden)
         THEN Done(severity)
         ELSE /\ stage' = "candidate"
              /\ found' = severity
              /\ UNCHANGED <<cur, hidden, inspected>>
    /\ UNCHANGED <<world, versions, dismissed, issue, queue, holder, listed, unread, todo,
                   failed, fresh, edits, changed, acked>>

\* The report of the current blueprint: no severity deletes its issue, a
\* deprecation that is dismissed is left alone, anything else goes on.  An
\* unexpected error of the validator is itself reported as breaking.
Inspect(severity) ==
    /\ stage = "inspect"
    /\ severity \in {Verdict[listed[cur]][ha], "breaking"}
    /\ IF severity = "none"
         THEN Done(severity) /\ issue' = [issue EXCEPT ![cur] = None]
         ELSE IF severity = "deprecation" /\ hidden
           THEN Done(severity) /\ UNCHANGED issue
           ELSE /\ stage' = "candidate"
                /\ found' = severity
                /\ UNCHANGED <<cur, hidden, inspected, issue>>
    /\ UNCHANGED <<world, versions, dismissed, queue, holder, listed, unread, todo, failed,
                   fresh, edits, changed, acked>>

\* The candidate of a fix is ready: _async_create_incompatibility_issue.
Raise ==
    /\ stage = "candidate"
    /\ issue' = [issue EXCEPT ![cur] =
          [content |-> listed[cur], severity |-> found]]
    /\ Done(found)
    /\ UNCHANGED <<world, versions, dismissed, queue, holder, listed, unread, todo, failed,
                   fresh, edits, changed, acked>>

\* Mutation: a blueprint that timed out is not a failure of the run.
InspectSkipped ==
    /\ stage \in {"inspect", "candidate"}
    /\ stage' = "loop"
    /\ cur' = None
    /\ hidden' = FALSE
    /\ found' = "none"
    /\ UNCHANGED <<world, versions, dismissed, issue, queue, holder, listed, unread, todo,
                   failed, fresh, edits, history>>

\* A timeout or an exception ends the inspection of one blueprint.
InspectFails ==
    /\ stage \in {"inspect", "candidate"}
    /\ failed' = TRUE
    /\ stage' = "loop"
    /\ cur' = None
    /\ hidden' = FALSE
    /\ found' = "none"
    /\ UNCHANGED <<world, versions, dismissed, issue, queue, holder, listed, unread, todo,
                   fresh, edits, history>>

\* Issues of blueprints that were not listed.
Obsolete == {b \in Blueprint : issue[b] # None /\ listed[b] = Gone}

Seen(unseen) == Present \ unseen

\* After the loop, without an await: obsolete issues are deleted, save those whose
\* file can be seen, and, if the run is clean, async_save_ha_version sets the version
\* in memory.  A file in a directory that cannot be searched is not seen.
Settle(unseen) ==
    /\ stage = "loop" /\ todo = {}
    /\ issue' = [b \in Blueprint |->
          IF ~failed /\ b \in Obsolete \ Seen(unseen) THEN None ELSE issue[b]]
    /\ IF failed \/ Obsolete \cap Seen(unseen) # {}
         THEN Leave /\ UNCHANGED <<last, changed>>
         ELSE /\ stage' = "record"
              /\ last' = [last EXCEPT !.ha = ha]
              /\ changed' = fresh
              /\ UNCHANGED <<holder, run>>
    /\ UNCHANGED <<world, stored, dismissed, queue, edits, inspected, acked>>

\* The version of the integration is known, or not: then it keeps its place.
Record(known) ==
    /\ stage = "record"
    /\ stage' = "save"
    /\ last' = [last EXCEPT !.integ = IF known THEN integ ELSE @]
    /\ UNCHANGED <<world, stored, dismissed, issue, queue, holder, run, edits, history>>

\* The save, which may fail without being noticed.
Save(written) ==
    /\ stage = "save"
    /\ stored' = IF written THEN last ELSE stored
    /\ Leave
    /\ UNCHANGED <<world, last, dismissed, issue, queue, edits, history>>

GuardStep ==
    \/ Acquire
    \/ \E known \in BOOLEAN : Compare(known) \/ Record(known) \/ Save(known)
    \/ \E missed \in SUBSET (Present \cap Aside) :
          \E bad \in SUBSET (Present \ missed) : Scan(bad, missed)
    \/ ScanFails
    \/ \E b \in Blueprint : Pick(b)
    \/ \E severity \in Severity : Inspect(severity)
    \/ Raise
    \/ InspectFails
    \/ \E unseen \in SUBSET Aside : Settle(unseen)

------------------------------------------------------------------------------
(* The rest of the integration, the user and Home Assistant.               *)

\* Every other save of the metadata carries the versions too.
OtherSave ==
    /\ up /\ stored # last
    /\ stored' = last
    /\ UNCHANGED <<world, last, dismissed, issue, queue, holder, stage, run, edits, history>>

\* A file is written or removed: by an update, a repair or a person.
Edit(b, c) ==
    /\ edits < MaxEdits
    /\ file[b] # c
    /\ edits' = edits + 1
    /\ file' = [file EXCEPT ![b] = c]
    /\ fresh' = IF stage \in {"loop", "inspect", "candidate"} THEN fresh \cup {b} ELSE fresh
    /\ changed' = changed \cup {b}
    /\ UNCHANGED <<ha, integ, enabled, up, started, versions, dismissed, issue, queue, holder,
                   stage, listed, unread, todo, cur, hidden, failed, found, inspected, acked>>

\* async_step_acknowledge, for the hash of the issue and the running version.
Acknowledge(b) ==
    /\ up /\ issue[b] # None /\ issue[b].severity = "deprecation"
    /\ dismissed' = [dismissed EXCEPT ![b] = <<issue[b].content, ha>>]
    /\ acked' = acked \cup {<<b, issue[b].content>>}
    /\ issue' = [issue EXCEPT ![b] = None]
    /\ UNCHANGED <<world, versions, queue, holder, stage, run, edits, inspected, changed>>

\* A repair flow that has installed something, or an upstream version without
\* complaints (_process_blueprint_content), deletes the issue.
Answer(b) ==
    /\ up /\ issue[b] # None
    /\ issue' = [issue EXCEPT ![b] = None]
    /\ UNCHANGED <<world, versions, dismissed, queue, holder, stage, run, edits, history>>

\* async_update_options: switching the check off clears the issues.
SwitchOff ==
    /\ up /\ enabled
    /\ enabled' = FALSE
    /\ issue' = [b \in Blueprint |-> None]
    /\ UNCHANGED <<file, ha, integ, up, started, versions, dismissed, queue, holder, stage, run,
                   edits, history>>

SwitchOn ==
    /\ up /\ ~enabled
    /\ enabled' = TRUE
    /\ UNCHANGED <<file, ha, integ, up, started, versions, dismissed, issue, queue, holder,
                   stage, run, edits, history>>

\* async_setup loads the versions, and clears the issues of a disabled check.
SetUp ==
    /\ ~up
    /\ up' = TRUE
    /\ last' = stored
    /\ issue' = IF enabled THEN issue ELSE [b \in Blueprint |-> None]
    /\ UNCHANGED <<file, ha, integ, enabled, started, stored, dismissed, queue, holder, stage,
                   run, edits, history>>

\* async_shutdown cancels the task, wherever it is; async_remove_entry also
\* deletes the issues.
Unload(removed) ==
    /\ up
    /\ holder # "service" /\ \A i \in DOMAIN queue : queue[i] # "service"
    /\ up' = FALSE
    /\ started' = FALSE
    /\ queue' = <<>>
    /\ Leave
    /\ issue' = IF removed THEN [b \in Blueprint |-> None] ELSE issue
    /\ UNCHANGED <<file, ha, integ, enabled, versions, dismissed, edits, history>>

\* Home Assistant stops or dies and starts again, perhaps as a newer version;
\* the issues are not persistent.
Restart(h, i) ==
    /\ h >= ha /\ i >= integ
    /\ ha' = h /\ integ' = i
    /\ up' = FALSE /\ started' = FALSE
    /\ last' = stored
    /\ issue' = [b \in Blueprint |-> None]
    /\ queue' = <<>>
    /\ Leave
    /\ inspected' = IF <<h, i>> = <<ha, integ>> THEN inspected ELSE [b \in Blueprint |-> None]
    /\ acked' = IF h = ha THEN acked ELSE {}
    /\ UNCHANGED <<file, enabled, stored, dismissed, edits, changed>>

Around ==
    \/ Started \/ CallService \/ OtherSave
    \/ \E b \in Blueprint : Acknowledge(b) \/ Answer(b)
    \/ \E b \in Blueprint, c \in Content \cup {Gone} : Edit(b, c)
    \/ SwitchOff \/ SwitchOn
    \/ SetUp
    \/ \E removed \in BOOLEAN : Unload(removed)
    \/ \E h \in Ha, i \in Integ : Restart(h, i)

Next == GuardStep \/ Around

Spec == Init /\ [][Next]_vars

------------------------------------------------------------------------------
(* Properties.                                                             *)

Recorded == [ha: 0..MaxHa, integ: 0..MaxInteg]

\* The variables have their types, and nothing but a held lock has a stage.
TypeOK ==
    /\ file \in [Blueprint -> Content \cup {Gone}]
    /\ ha \in Ha /\ integ \in Integ
    /\ enabled \in BOOLEAN /\ up \in BOOLEAN /\ started \in BOOLEAN
    /\ last \in Recorded /\ stored \in Recorded
    /\ dismissed \in [Blueprint -> Dismissal \cup {None}]
    /\ issue \in [Blueprint -> Report \cup {None}]
    /\ queue \in Seq(Guard)
    /\ holder \in Guard \cup {None}
    /\ stage \in {"free", "compare", "scan", "loop", "inspect", "candidate", "record", "save"}
    /\ (stage = "free") <=> (holder = None)
    /\ listed \in [Blueprint -> Content \cup {Gone}]
    /\ unread \subseteq Blueprint /\ todo \subseteq Blueprint
    /\ \A b \in todo : listed[b] \in Content
    /\ stage \in {"inspect", "candidate"} => cur \in Blueprint /\ listed[cur] \in Content
    /\ stage = "candidate" => found \in {"deprecation", "breaking"}
    /\ hidden \in BOOLEAN /\ failed \in BOOLEAN
    /\ edits \in 0..MaxEdits
    /\ inspected \in [Blueprint -> Inspection \cup {None}]
    /\ fresh \subseteq Blueprint /\ changed \subseteq Blueprint

\* The running version is recorded as checked.
Current(v) == v.ha = ha /\ v.integ = integ

InspectedNow(b) == inspected[b] # None /\ inspected[b].content = file[b]

\* A version is only recorded, in memory or in the store, when every blueprint
\* was inspected under it: whatever timed out, could not be read or was cut
\* short, each file that the scan of the last clean run listed and that has not
\* changed since was inspected as it is now (has_failures and completed_cleanly).
RecordedMeansInspected ==
    Current(last) \/ Current(stored) =>
        \A b \in Present \ changed : InspectedNow(b)

\* Once the version is recorded, no issue speaks of a removed blueprint or of
\* another content than the file has had since the last clean run; only behind
\* an acknowledged deprecation an older issue may stand.
IssuesAgree ==
    Current(last) =>
        \A b \in Blueprint \ changed :
            issue[b] # None =>
                issue[b].content = file[b] \/ dismissed[b] = <<file[b], ha>>

\* A deprecation is passed over in silence only if the user acknowledged it
\* for this very content under this very version of Home Assistant.
NothingHidden ==
    \A b \in Blueprint :
        inspected[b] # None /\ inspected[b].hidden =>
            <<b, inspected[b].content>> \in acked
==============================================================================
