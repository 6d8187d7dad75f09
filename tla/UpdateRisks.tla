------------------------------ MODULE UpdateRisks ------------------------------
(***************************************************************************)
(* May a new version of a blueprint be installed automatically?  The       *)
(* inputs it declares are compared with those of the installed file and    *)
(* with what the automations, scripts and templates that use the blueprint *)
(* pass to it; then Home Assistant's own validators see each of these      *)
(* consumers with the new version.  All this takes several awaits, while   *)
(* users change consumers and files.                                       *)
(*                                                                         *)
(* A version is its inputs schema: a function from the inputs it declares  *)
(* to whether they are mandatory and what their selector is (type and      *)
(* configuration, without presentation keys).                              *)
(***************************************************************************)
EXTENDS FiniteSets

CONSTANTS
    Input,      \* names of inputs
    Hidden,     \* those that _extract_inputs_schema skips: name, description, label, help
    Selector,   \* selectors with their configuration
    Schemas,    \* the schemas of the versions
    Consumer,   \* entities that may use the blueprint
    Broken,     \* a file whose schema cannot be extracted
    NoVersion,  \* no such file
    Unused,     \* an entity does not use the blueprint
    Unreadable  \* it does, with a configuration that is not loaded or no mapping

VARIABLES
    installed,  \* the file
    uses,       \* the inputs that each consumer passes
    step,       \* progress of the check
    candidate,  \* the version to install
    base,       \* the file as the last scan saw it
    captured,   \* configs: what readable consumers passed when the check began
    old,        \* old_content
    risks,      \* types of the risks found
    present     \* history: the consumers when the install was decided

riskVars ==
    <<installed, uses, step, candidate, base, captured, old, risks, present>>

Versions == Schemas \cup {Broken, NoVersion}
Use == SUBSET Input
RiskType == {"new_mandatory", "missing_input", "selector", "removed_input", "compatibility",
             "system_error", "validation_failed"}

ASSUME RisksAssumption ==
    /\ \A s \in Schemas : /\ DOMAIN s \subseteq Input
                          /\ s \in [DOMAIN s -> [mandatory: BOOLEAN, selector: Selector]]
    /\ Hidden \subseteq Input
    /\ Broken \notin Schemas /\ NoVersion \notin Schemas \cup {Broken}
    /\ \A use \in Use : use # Unused /\ use # Unreadable
    /\ Unused # Unreadable

RisksInit ==
    /\ installed = NoVersion
    /\ uses = [c \in Consumer |-> Unused]
    /\ step = "idle"
    /\ candidate = NoVersion
    /\ base = NoVersion
    /\ captured = [c \in Consumer |-> Unused]
    /\ old = NoVersion
    /\ risks = {}
    /\ present = {}

------------------------------------------------------------------------------
(* _detect_breaking_changes.                                               *)

Seen(schema) == DOMAIN schema \ Hidden
Mandatory(schema) == {k \in DOMAIN schema : schema[k].mandatory}

\* Mutation: some consumer uses the blueprint.
AffectedAnyhow(configs, k) == \E c \in Consumer : configs[c] # Unused

\* Some consumer passes the input.
Affected(configs, k) == \E c \in Consumer : configs[c] # Unused /\ k \in configs[c]

NewMandatory(before, after) ==
    \E k \in Mandatory(after) \cap Seen(after) : k \notin Mandatory(before) \cap Seen(before)

MissingInput(after, configs) ==
    \E c \in Consumer :
        configs[c] # Unused /\ ~(Mandatory(after) \cap Seen(after) \subseteq configs[c])

SelectorMismatch(before, after, configs) ==
    \E k \in Seen(before) \cap Seen(after) :
        before[k].selector # after[k].selector /\ Affected(configs, k)

RemovedInput(before, after, configs) ==
    \E k \in Seen(before) \ Seen(after) : Affected(configs, k)

Detected(before, after, configs) ==
    IF before = NoVersion THEN {}
    ELSE IF before = Broken THEN {"validation_failed"}
    ELSE (IF NewMandatory(before, after) THEN {"new_mandatory"} ELSE {})
         \cup (IF MissingInput(after, configs) THEN {"missing_input"} ELSE {})
         \cup (IF SelectorMismatch(before, after, configs) THEN {"selector"} ELSE {})
         \cup (IF RemovedInput(before, after, configs) THEN {"removed_input"} ELSE {})

------------------------------------------------------------------------------
(* _detect_risks_for_update.                                               *)

Captured == [c \in Consumer |->
                IF uses[c] = Unreadable THEN Unused ELSE uses[c]]

\* A validated remote version is judged, and the consumers are looked up...
CaptureConsumers(version) ==
    /\ step = "idle"
    /\ step' = "captured"
    /\ candidate' = version
    /\ base' = installed
    /\ captured' = Captured
    /\ risks' = {}
    /\ UNCHANGED <<installed, uses, old, present>>

\* ... or nobody is asked: a direct fetch goes on although its path has left
\* coordinator.data, and finds no risks.
NobodyAsked(version) ==
    /\ step = "idle"
    /\ step' = "decide"
    /\ candidate' = version
    /\ base' = installed
    /\ captured' = [c \in Consumer |-> Unused]
    /\ risks' = {}
    /\ UNCHANGED <<installed, uses, old, present>>

\* They cannot be determined.
LookupFails(version) ==
    /\ step = "idle"
    /\ step' = "decide"
    /\ candidate' = version
    /\ base' = installed
    /\ captured' = [c \in Consumer |-> Unused]
    /\ risks' = {"system_error"}
    /\ UNCHANGED <<installed, uses, old, present>>

\* The executor reads the installed file ...
ReadInstalled ==
    /\ step = "captured"
    /\ step' = "compared"
    /\ old' = installed
    /\ risks' = Detected(installed, candidate, captured)
    /\ UNCHANGED <<installed, uses, candidate, base, captured, present>>

\* ... or fails to.
ReadFails ==
    /\ step = "captured"
    /\ step' = "decide"
    /\ risks' = {"system_error"}
    /\ UNCHANGED <<installed, uses, candidate, base, captured, old, present>>

\* _async_validate_blueprint_consumers: a consumer without a mandatory input is
\* rejected by BlueprintInputs.validate; Home Assistant may also reject a
\* template, a consumer, a consumer without its optional inputs or, when there
\* are no consumers, the blueprint with dummy inputs, or fail to validate.
ValidateConsumers ==
    /\ step = "compared"
    /\ step' = "decide"
    /\ \E found \in {{}, {"compatibility"}, {"system_error"}, {"validation_failed"}} :
          /\ \A c \in Consumer :
                captured[c] # Unused /\ found = {} => Mandatory(candidate) \subseteq captured[c]
          /\ risks' = risks \cup found
    /\ UNCHANGED <<installed, uses, candidate, base, captured, old, present>>

------------------------------------------------------------------------------
(* _handle_auto_update_step.                                               *)

Users == {c \in Consumer : uses[c] # Unused}

\* Mutation: a blueprint in use is only protected from errors.
BreakingErrors(known) ==
    risks \cap {"system_error", "compatibility"} # {} \/ (risks # {} /\ ~known)

\* is_breaking; known says whether the consumers can be determined now.
Breaking(known) ==
    /\ risks # {}
    /\ ~known \/ Users # {} \/ risks \cap {"system_error", "compatibility"} # {}

Concluded ==
    /\ step' = "idle"
    /\ candidate' = NoVersion /\ base' = NoVersion /\ old' = NoVersion
    /\ captured' = [c \in Consumer |-> Unused]
    /\ risks' = {} /\ present' = {}

BlockUpdate ==
    /\ step = "decide"
    /\ \E known \in BOOLEAN : Breaking(known)
    /\ Concluded
    /\ UNCHANGED <<installed, uses>>

\* async_install_blueprint begins; the path lock and the executor come next.
DecideInstall ==
    /\ step = "decide"
    /\ \E known \in BOOLEAN : ~Breaking(known)
    /\ step' = "install"
    /\ present' = Users
    /\ UNCHANGED <<installed, uses, candidate, base, captured, old, risks>>

\* The install replaces only the file that the scan saw...
AutoUpdateFile ==
    /\ step = "install"
    /\ installed = base /\ base # NoVersion
    /\ installed' = candidate
    /\ Concluded
    /\ UNCHANGED uses

\* ... or there is another one, the work item is obsolete, or the disk fails.
UpdateRefused ==
    /\ step = "install"
    /\ Concluded
    /\ UNCHANGED <<installed, uses>>

------------------------------------------------------------------------------
(* Users.                                                                  *)

Configure(c, use) ==
    /\ uses' = [uses EXCEPT ![c] = use]
    /\ UNCHANGED <<installed, step, candidate, base, captured, old, risks, present>>

WriteFile(version) ==
    /\ installed' = version
    /\ UNCHANGED <<uses, step, candidate, base, captured, old, risks, present>>

RisksNext ==
    \/ \E version \in Schemas : CaptureConsumers(version) \/ NobodyAsked(version)
                                 \/ LookupFails(version)
    \/ ReadInstalled \/ ReadFails \/ ValidateConsumers
    \/ BlockUpdate \/ DecideInstall \/ AutoUpdateFile \/ UpdateRefused
    \/ \E c \in Consumer, use \in Use \cup {Unused, Unreadable} : Configure(c, use)
    \/ \E version \in Versions : WriteFile(version)

RisksSpec == RisksInit /\ [][RisksNext]_riskVars

------------------------------------------------------------------------------
(* Properties.                                                             *)

RisksTypeOK ==
    /\ installed \in Versions
    /\ uses \in [Consumer -> {Unused, Unreadable} \cup Use]
    /\ step \in {"idle", "captured", "compared", "decide", "install"}
    /\ candidate \in Schemas \cup {NoVersion}
    /\ step # "idle" => candidate \in Schemas
    /\ base \in Versions /\ old \in Versions
    /\ captured \in [Consumer -> {Unused} \cup Use]
    /\ risks \subseteq RiskType
    /\ present \subseteq Consumer

\* What a consumer passes still works with the new version: it gives all that
\* is mandatory, nothing that is gone, and nothing whose selector changed.
Fits(given, before, after) ==
    /\ Mandatory(after) \subseteq given
    /\ \A k \in given \cap Seen(before) :
          k \in DOMAIN after /\ after[k].selector = before[k].selector

\* An automatic update breaks no consumer that was looked up when the check began,
\* still used the blueprint when the install was decided and passes the same at the
\* commit, whatever failed or changed in between, provided that the version it
\* compared with is the one it replaces.  A consumer that is away at the decision
\* (automations are being reloaded) is not protected, nor is any when nobody was
\* asked; inputs with the name of a presentation key are not compared (Hidden).
SafeUpdate ==
    [][AutoUpdateFile /\ old = installed /\ installed \in Schemas =>
          \A c \in present :
              captured[c] # Unused /\ uses[c] = captured[c] =>
                  Fits(uses[c], installed, candidate)]_riskVars

\* The comparison blames no version wrongly: a risk found for an input that is
\* missing, gone or of another selector is one for a consumer who was looked up,
\* although the file that is compared was read later than the consumers.
RisksAreReal ==
    /\ step = "compared" /\ old \in Schemas
    /\ risks \cap {"missing_input", "selector", "removed_input"} # {}
    => \E c \in Consumer : captured[c] # Unused /\ ~Fits(captured[c], old, candidate)
==============================================================================
