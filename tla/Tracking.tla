------------------------------- MODULE Tracking -------------------------------
(***************************************************************************)
(* Which blueprints are tracked.  The options of the config entry hold a   *)
(* filter mode and a selection.  They are changed by the options form,     *)
(* which is filled with what they were when it was opened and replaces     *)
(* them all, and by the repair of a withdrawn source, which takes one      *)
(* blueprint out of them.  A scan takes the options when it begins, reads  *)
(* the files in a thread and lists what it has found some time later.      *)
(***************************************************************************)
EXTENDS FiniteSets

CONSTANTS
    Blueprint,  \* relative paths under the blueprints folder
    Closed,     \* no form is open
    Never       \* no scan is in progress

ASSUME TrackingAssumption == Blueprint # {}

Mode == {"all", "whitelist", "blacklist"}
Options == [mode: Mode, selected: SUBSET Blueprint]

VARIABLES
    options,    \* filter_mode and selected_blueprints
    form,       \* the options shown by the open form
    usable,     \* files that are blueprints with a source_url
    scan,       \* the options of the scan in progress, what it has yet to read, what it found
    tracked,    \* the blueprints in the coordinator's data
    wanted,     \* history: what the user has asked to be tracked
    asked,      \* history: what was wanted when the scan in progress began
    steady      \* history: usable files that have not changed since

trackingVars == <<options, form, usable, scan, tracked, wanted, asked, steady>>

TrackingInit ==
    /\ options = [mode |-> "all", selected |-> {}]
    /\ form = Closed
    /\ usable \in SUBSET Blueprint
    /\ scan = Never
    /\ tracked = {}
    /\ wanted = Blueprint
    /\ asked = {} /\ steady = {}

------------------------------------------------------------------------------
(* Options.                                                                *)

OpenForm ==
    /\ form = Closed
    /\ form' = options
    /\ UNCHANGED <<options, usable, scan, tracked, wanted, asked, steady>>

\* What the user sees when the form is submitted is what the user wants.
SubmitForm(mode, selected) ==
    /\ form # Closed
    /\ form' = Closed
    /\ options' = [mode |-> mode, selected |-> selected]
    /\ wanted' = CASE mode = "whitelist" -> selected
                   [] mode = "blacklist" -> Blueprint \ selected
                   [] OTHER -> Blueprint
    /\ UNCHANGED <<usable, scan, tracked, asked, steady>>

\* The selection is left alone, also in a mode that does not look at it.
SubmitUnchanged == form # Closed /\ SubmitForm(form.mode, form.selected)

\* Mutation: an earlier selection becomes part of the blacklist.
WithoutKeeping(b) ==
    IF options.mode = "whitelist" THEN [options EXCEPT !.selected = @ \ {b}]
    ELSE [mode |-> "blacklist", selected |-> options.selected \cup {b}]

\* _async_execute_stop_tracking: from mode "all" a blacklist starts with this one.
Without(b) ==
    CASE options.mode = "whitelist" -> [options EXCEPT !.selected = @ \ {b}]
      [] options.mode = "blacklist" -> [options EXCEPT !.selected = @ \cup {b}]
      [] OTHER -> [mode |-> "blacklist", selected |-> {b}]

StopTracking(b) ==
    /\ options' = Without(b)
    /\ wanted' = wanted \ {b}
    /\ UNCHANGED <<form, usable, scan, tracked, asked, steady>>

------------------------------------------------------------------------------
(* Scans: at an interval, when the options have changed, after installs.   *)

\* should_include_blueprint
Included(b, chosen) ==
    CASE chosen.mode = "blacklist" -> b \notin chosen.selected
      [] chosen.mode = "whitelist" -> b \in chosen.selected
      [] OTHER -> TRUE

StartScan ==
    /\ scan = Never
    /\ scan' = [options |-> options, todo |-> Blueprint, found |-> {}]
    /\ asked' = wanted
    /\ steady' = usable
    /\ UNCHANGED <<options, form, usable, tracked, wanted>>

\* A file that is no blueprint, cannot be read or is a link is passed over.
ScanOne(b) ==
    /\ scan # Never /\ b \in scan.todo
    /\ scan' = [scan EXCEPT !.todo = @ \ {b},
                            !.found = IF b \in usable /\ Included(b, scan.options)
                                        THEN @ \cup {b} ELSE @]
    /\ UNCHANGED <<options, form, usable, tracked, wanted, asked, steady>>

ListFound ==
    /\ scan # Never /\ scan.todo = {}
    /\ tracked' = scan.found
    /\ scan' = Never
    /\ UNCHANGED <<options, form, usable, wanted, asked, steady>>

ChangeFile(b) ==
    /\ usable' \in {usable \cup {b}, usable \ {b}}
    /\ steady' = steady \ {b}
    /\ UNCHANGED <<options, form, scan, tracked, wanted, asked>>

TrackingNext ==
    \/ OpenForm \/ SubmitUnchanged
    \/ \E mode \in Mode, selected \in SUBSET Blueprint : SubmitForm(mode, selected)
    \/ \E b \in Blueprint : StopTracking(b) \/ ScanOne(b) \/ ChangeFile(b)
    \/ StartScan \/ ListFound

------------------------------------------------------------------------------
(* Properties.                                                             *)

TrackingTypeOK ==
    /\ options \in Options
    /\ form \in Options \cup {Closed}
    /\ usable \subseteq Blueprint
    /\ scan \in [options: Options, todo: SUBSET Blueprint, found: SUBSET Blueprint] \cup {Never}
    /\ tracked \subseteq Blueprint
    /\ wanted \subseteq Blueprint /\ asked \subseteq Blueprint /\ steady \subseteq Blueprint

\* After any sequence of forms and repairs, what a scan lists is what the user
\* wanted when it began, as far as the files are there: stopping one blueprint
\* stops that one and no other, in every mode and whatever was selected before.
TrackedAsWanted ==
    [][ListFound => asked \cap steady \subseteq tracked' /\ tracked' \subseteq asked]_trackingVars
==============================================================================
