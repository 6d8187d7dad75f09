------------------------------ MODULE Inspection ------------------------------
(***************************************************************************)
(* The inspection of an installed blueprint by Home Assistant's own        *)
(* validators (async_validate_local_blueprint_compatibility).  A validator *)
(* that meets something deprecated raises a repair issue as if the         *)
(* automation were really being set up.  While an inspection runs, under a *)
(* lock of the module, the function that raises issues is patched; at the  *)
(* end the issues that the inspecting task raised are taken back and       *)
(* become warnings of its report.  Other tasks raise, replace and delete   *)
(* issues all the time.                                                    *)
(*                                                                         *)
(* Validators are taken to raise issues in the task that called them.      *)
(***************************************************************************)
EXTENDS FiniteSets

CONSTANTS
    Inspector,  \* tasks that inspect blueprints
    Issue,      \* ids of issues
    Theirs,     \* what other tasks put into an issue
    Ours,       \* what a validator puts into an issue during an inspection
    Absent,     \* no such issue
    NoTask

ASSUME InspectionAssumption ==
    NoTask \notin Inspector /\ Ours # Absent /\ Ours \notin Theirs /\ Absent \notin Theirs

VARIABLES
    issues,     \* registry.issues
    holder,     \* the task that holds _DIAGNOSTICS_CAPTURE_LOCK, where the patch is set
    snapshot,   \* existing_issues_snapshot
    created,    \* created_issues
    report,     \* step and findings of each inspection
    expected,   \* history: the registry as it would be without inspections
    own,        \* history: issues that the inspecting task has raised
    touched,    \* history: issues that others changed during the inspection
    clashed     \* history: issues that both changed, and nobody has since

inspectionVars == <<issues, holder, snapshot, created, report, expected, own, touched, clashed>>

Report == [step: {"idle", "wait", "validate", "classify"}, errors: BOOLEAN, warnings: BOOLEAN,
           severity: {"none", "deprecation", "breaking"}]
NoReport == [step |-> "idle", errors |-> FALSE, warnings |-> FALSE, severity |-> "none"]

InspectionInit ==
    /\ issues = [i \in Issue |-> Absent]
    /\ holder = NoTask
    /\ snapshot = issues
    /\ created = {}
    /\ report = [p \in Inspector |-> NoReport]
    /\ expected = issues
    /\ own = {} /\ touched = {} /\ clashed = {}

------------------------------------------------------------------------------
\* No YAML, no mapping or no Blueprint: breaking, without any validator.
InspectUnreadable(p) ==
    /\ report[p].step = "idle"
    /\ report' = [report EXCEPT ![p] = [NoReport EXCEPT !.errors = TRUE, !.severity = "breaking"]]
    /\ UNCHANGED <<issues, holder, snapshot, created, expected, own, touched, clashed>>

\* Templates, minimum version, schema and Blueprint.validate; the consumers are
\* looked up and the lock is asked for.
InspectReadable(p) ==
    /\ report[p].step = "idle"
    /\ \E found \in BOOLEAN :
          report' = [report EXCEPT ![p] = [NoReport EXCEPT !.step = "wait", !.errors = found]]
    /\ UNCHANGED <<issues, holder, snapshot, created, expected, own, touched, clashed>>

EnterCapture(p) ==
    /\ report[p].step = "wait"
    /\ holder = NoTask
    /\ holder' = p
    /\ snapshot' = issues
    /\ created' = {}
    /\ report' = [report EXCEPT ![p].step = "validate"]
    /\ own' = {} /\ touched' = {}
    /\ UNCHANGED <<issues, expected, clashed>>

\* A validator raises an issue: _intercept_create_issue in the inspecting task.
ValidatorRaises(p, i) ==
    /\ holder = p
    /\ issues' = [issues EXCEPT ![i] = Ours]
    /\ created' = created \cup {i}
    /\ own' = own \cup {i}
    /\ UNCHANGED <<holder, snapshot, report, expected, touched, clashed>>

\* A validator calls report_usage, or what it returns has renamed or dropped
\* keys (diff_structural_configs).
ValidatorWarns(p) ==
    /\ holder = p
    /\ report' = [report EXCEPT ![p].warnings = TRUE]
    /\ UNCHANGED <<issues, holder, snapshot, created, expected, own, touched, clashed>>

\* A consumer is rejected, or the dummy inputs are for another reason than that
\* they are dummies.
ValidatorRejects(p) ==
    /\ holder = p
    /\ report' = [report EXCEPT ![p].errors = TRUE]
    /\ UNCHANGED <<issues, holder, snapshot, created, expected, own, touched, clashed>>

NewIssues == {i \in created : snapshot[i] = Absent /\ issues[i] # Absent}

\* The end of the capture, also after an exception.
LeaveCapture(p) ==
    /\ holder = p
    /\ issues' = [i \in Issue |-> IF i \in created THEN snapshot[i] ELSE issues[i]]
    /\ report' = [report EXCEPT ![p].step = "classify",
                                ![p].warnings = @ \/ NewIssues # {}]
    /\ holder' = NoTask
    /\ clashed' = clashed \cup (touched \cap own)
    /\ UNCHANGED <<snapshot, created, expected, own, touched>>

\* The task is cancelled: nothing is reported.
CancelInspection(p) ==
    /\ holder = p
    /\ issues' = [i \in Issue |-> IF i \in created THEN snapshot[i] ELSE issues[i]]
    /\ report' = [report EXCEPT ![p] = NoReport]
    /\ holder' = NoTask
    /\ clashed' = clashed \cup (touched \cap own)
    /\ UNCHANGED <<snapshot, created, expected, own, touched>>

Classify(p) ==
    /\ report[p].step = "classify"
    /\ report' = [report EXCEPT ![p].step = "idle",
                                ![p].severity = IF report[p].errors THEN "breaking"
                                                ELSE IF report[p].warnings THEN "deprecation"
                                                ELSE "none"]
    /\ UNCHANGED <<issues, holder, snapshot, created, expected, own, touched, clashed>>

------------------------------------------------------------------------------
(* Other tasks.                                                            *)

OtherChanges(i, content) ==
    /\ issues' = [issues EXCEPT ![i] = content]
    /\ expected' = [expected EXCEPT ![i] = content]
    /\ touched' = touched \cup {i}
    /\ clashed' = clashed \ {i}
    /\ UNCHANGED <<holder, snapshot, report, own>>

\* Mutation: whoever raises an issue during an inspection, it is recorded.
OtherRaisesRecorded(i, content) ==
    /\ OtherChanges(i, content)
    /\ created' = IF holder # NoTask THEN created \cup {i} ELSE created

\* _intercept_create_issue in another task only forwards.
OtherRaises(i, content) == OtherChanges(i, content) /\ UNCHANGED created

OtherDeletes(i) == OtherChanges(i, Absent) /\ UNCHANGED created

InspectionNext ==
    \/ \E p \in Inspector :
          \/ InspectUnreadable(p) \/ InspectReadable(p)
          \/ EnterCapture(p)
          \/ ValidatorWarns(p) \/ ValidatorRejects(p)
          \/ \E i \in Issue : ValidatorRaises(p, i)
          \/ LeaveCapture(p) \/ CancelInspection(p)
          \/ Classify(p)
    \/ \E i \in Issue : OtherDeletes(i) \/ \E content \in Theirs : OtherRaises(i, content)

------------------------------------------------------------------------------
(* Properties.                                                             *)

InspectionTypeOK ==
    /\ {issues, snapshot, expected} \subseteq [Issue -> Theirs \cup {Ours, Absent}]
    /\ holder \in Inspector \cup {NoTask}
    /\ created \subseteq Issue /\ own \subseteq Issue
    /\ touched \subseteq Issue /\ clashed \subseteq Issue
    /\ report \in [Inspector -> Report]
    /\ \A p \in Inspector : report[p].step = "validate" <=> holder = p

\* Between inspections the registry is as if there had been none: no issue of
\* an inspection stays, and nothing that other tasks raised, replaced or deleted
\* meanwhile is lost.  The exception is an issue that both changed during one
\* inspection: it is put back to what it was before.
RegistryUntouched ==
    \A i \in Issue :
        (holder = NoTask \/ i \notin own) /\ i \notin clashed => issues[i] = expected[i]
==============================================================================
