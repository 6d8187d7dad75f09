----------------------------- MODULE SupportProofs -----------------------------
(***************************************************************************)
(* Theorems about Support and its six parts, for all sets of templates,    *)
(* validators, schemas, consumers, inspectors, issues, URLs, importers,    *)
(* blueprints, versions and viewers.  Each part has an inductive invariant *)
(* of its own; the parts meet in the theorems at the end.                  *)
(***************************************************************************)
EXTENDS Support, TLAPS

------------------------------------------------------------------------------
(* The judgement of an update.                                             *)

\* What the risks say of the version that was compared: all that the schemas and
\* the captured consumers give away, and none if nothing was found; an install
\* is decided with risks only while there are no consumers.
Judged ==
    /\ RisksTypeOK
    /\ step = "compared" => risks = Detected(old, candidate, captured)
    /\ step \in {"decide", "install"} /\ risks = {} =>
          /\ Detected(old, candidate, captured) = {}
          /\ \A c \in Consumer : captured[c] # Unused => Mandatory(candidate) \subseteq captured[c]
    /\ step = "install" /\ present # {} => risks = {}
    /\ step \notin {"compared", "decide", "install"} => old = NoVersion

\* The comparison overlooks nothing that a consumer passes.
LEMMA NothingDetected ==
    ASSUME NEW before \in Schemas, NEW after \in Schemas, NEW configs, NEW c \in Consumer,
           configs[c] # Unused, Detected(before, after, configs) = {},
           Mandatory(after) \subseteq configs[c]
    PROVE  Fits(configs[c], before, after)
<1>1. before # NoVersion /\ before # Broken
  BY RisksAssumption
<1>2. ~SelectorMismatch(before, after, configs) /\ ~RemovedInput(before, after, configs)
  BY <1>1 DEF Detected
<1>3. ASSUME NEW k \in configs[c] \cap Seen(before)
      PROVE  k \in DOMAIN after /\ after[k].selector = before[k].selector
  <2>1. Affected(configs, k)
    BY DEF Affected
  <2>2. k \in Seen(after)
    BY <1>2, <2>1 DEF RemovedInput
  <2> QED
    BY <1>2, <2>1, <2>2 DEF SelectorMismatch, Seen
<1> QED
  BY <1>3 DEF Fits

\* What it finds for an input that is missing, gone or changed is real.
LEMMA SomethingDetected ==
    ASSUME NEW before \in Schemas, NEW after \in Schemas, NEW configs,
           Detected(before, after, configs) \cap {"missing_input", "selector", "removed_input"} # {}
    PROVE  \E c \in Consumer : configs[c] # Unused /\ ~Fits(configs[c], before, after)
<1>1. before # NoVersion /\ before # Broken
  BY RisksAssumption
<1>2. \/ MissingInput(after, configs)
      \/ SelectorMismatch(before, after, configs)
      \/ RemovedInput(before, after, configs)
  BY <1>1 DEF Detected
<1>3. CASE MissingInput(after, configs)
  BY <1>3 DEF MissingInput, Fits
<1>4. CASE SelectorMismatch(before, after, configs)
  BY <1>4 DEF SelectorMismatch, Affected, Fits
<1>5. CASE RemovedInput(before, after, configs)
  BY <1>5 DEF RemovedInput, Affected, Fits, Seen
<1> QED
  BY <1>2, <1>3, <1>4, <1>5

LEMMA InitJudged == RisksInit => Judged
  BY DEF RisksInit, Judged, RisksTypeOK, Versions

LEMMA CaptureJudged ==
    ASSUME Judged, NEW version \in Schemas,
           CaptureConsumers(version) \/ NobodyAsked(version) \/ LookupFails(version)
    PROVE  Judged'
<1>1. Captured \in [Consumer -> {Unused} \cup Use]
  BY DEF Judged, RisksTypeOK, Captured
<1>2. CASE CaptureConsumers(version) \/ LookupFails(version)
  BY <1>1, <1>2 DEF Judged, RisksTypeOK, CaptureConsumers, LookupFails, RiskType
<1>3. CASE NobodyAsked(version)
  <2>1. Detected(old', candidate', captured') = {}
    BY <1>3 DEF Judged, NobodyAsked, Detected
  <2> QED
    BY <1>3, <2>1 DEF Judged, RisksTypeOK, NobodyAsked
<1> QED
  BY <1>2, <1>3

LEMMA ReadJudged ==
    ASSUME Judged, ReadInstalled
    PROVE  Judged'
<1>1. Detected(installed, candidate, captured) \subseteq RiskType
  BY DEF Detected, RiskType
<1>2. risks' = Detected(old', candidate', captured')
  BY DEF ReadInstalled
<1> QED
  BY <1>1, <1>2 DEF Judged, RisksTypeOK, ReadInstalled

LEMMA ValidateJudged ==
    ASSUME Judged, ValidateConsumers
    PROVE  Judged'
<1>1. PICK found \in {{}, {"compatibility"}, {"system_error"}, {"validation_failed"}} :
        /\ \A c \in Consumer :
              captured[c] # Unused /\ found = {} => Mandatory(candidate) \subseteq captured[c]
        /\ risks' = risks \cup found
  BY DEF ValidateConsumers
<1>2. RisksTypeOK'
  BY <1>1 DEF Judged, RisksTypeOK, ValidateConsumers, RiskType
<1>3. ASSUME risks' = {} PROVE found = {} /\ Detected(old, candidate, captured) = {}
  BY <1>1, <1>3 DEF Judged, ValidateConsumers
<1>4. UNCHANGED <<old, candidate, captured>> /\ step' = "decide"
  BY DEF ValidateConsumers
<1>5. Detected(old, candidate, captured)' = Detected(old, candidate, captured)
  BY <1>4 DEF Detected, NewMandatory, MissingInput, SelectorMismatch, RemovedInput, Affected
<1>6. Mandatory(candidate)' = Mandatory(candidate)
  BY <1>4 DEF Mandatory
<1> QED
  BY <1>1, <1>2, <1>3, <1>4, <1>5, <1>6 DEF Judged

\* With risks the install is decided only while there are no consumers.
LEMMA DecideJudged ==
    ASSUME Judged, DecideInstall
    PROVE  Judged'
<1>1. PICK known \in BOOLEAN : ~Breaking(known)
  BY DEF DecideInstall
<1>2. present' # {} => risks = {}
  BY <1>1 DEF DecideInstall, Breaking
<1>3. /\ UNCHANGED <<installed, uses, candidate, base, captured, old, risks>>
      /\ step = "decide" /\ step' = "install" /\ present' \subseteq Consumer
  BY DEF DecideInstall, Users
<1>4. Detected(old, candidate, captured)' = Detected(old, candidate, captured)
  BY <1>3 DEF Detected, NewMandatory, MissingInput, SelectorMismatch, RemovedInput, Affected
<1>5. Mandatory(candidate)' = Mandatory(candidate)
  BY <1>3 DEF Mandatory
<1> QED
  BY <1>2, <1>3, <1>4, <1>5 DEF Judged, RisksTypeOK

LEMMA JudgedStep == ASSUME Judged, [RisksNext]_riskVars PROVE Judged'
<1>1. CASE \E version \in Schemas :
              CaptureConsumers(version) \/ NobodyAsked(version) \/ LookupFails(version)
  BY <1>1, CaptureJudged
<1>2. CASE ReadInstalled \/ ValidateConsumers
  BY <1>2, ReadJudged, ValidateJudged
<1>3. CASE ReadFails
  BY <1>3 DEF Judged, RisksTypeOK, ReadFails, RiskType
<1>6. CASE DecideInstall
  BY <1>6, DecideJudged
<1>4. CASE BlockUpdate \/ UpdateRefused \/ AutoUpdateFile
  BY <1>4 DEF Judged, RisksTypeOK, BlockUpdate, UpdateRefused, AutoUpdateFile, Concluded, Versions
<1>5. ASSUME \/ \E c \in Consumer, use \in Use \cup {Unused, Unreadable} : Configure(c, use)
             \/ \E version \in Versions : WriteFile(version)
             \/ UNCHANGED riskVars
      PROVE  Judged'
  <2>1. UNCHANGED <<step, candidate, base, captured, old, risks, present>>
    BY <1>5 DEF Configure, WriteFile, riskVars
  <2>2. installed' \in Versions /\ uses' \in [Consumer -> {Unused, Unreadable} \cup Use]
    BY <1>5 DEF Judged, RisksTypeOK, Configure, WriteFile, riskVars
  <2>3. Detected(old, candidate, captured)' = Detected(old, candidate, captured)
    BY <2>1 DEF Detected, NewMandatory, MissingInput, SelectorMismatch, RemovedInput, Affected
  <2>4. Mandatory(candidate)' = Mandatory(candidate)
    BY <2>1 DEF Mandatory
  <2>5. RisksTypeOK'
    BY <2>1, <2>2 DEF Judged, RisksTypeOK
  <2> QED
    BY <2>1, <2>3, <2>4, <2>5 DEF Judged
<1> QED
  BY <1>1, <1>2, <1>3, <1>4, <1>5, <1>6 DEF RisksNext

\* An update that goes through although risks were found has no consumers left.
LEMMA SafeStep ==
    ASSUME Judged, AutoUpdateFile, old = installed, installed \in Schemas,
           NEW c \in present, captured[c] # Unused, uses[c] = captured[c]
    PROVE  Fits(uses[c], installed, candidate)
<1>1. candidate \in Schemas /\ step = "install" /\ c \in Consumer
  BY DEF Judged, RisksTypeOK, AutoUpdateFile
<1>2. risks = {}
  BY <1>1 DEF Judged
<1>3. /\ Detected(old, candidate, captured) = {}
      /\ Mandatory(candidate) \subseteq captured[c]
  BY <1>1, <1>2 DEF Judged
<1>4. Fits(captured[c], installed, candidate)
  BY <1>1, <1>3, NothingDetected
<1> QED
  BY <1>4

------------------------------------------------------------------------------
(* Template paths.                                                         *)

Scanning(v) == validation[v].step \in {"scan", "scanned"}

\* seen and unseen cover what is there now, and what the job in progress has read
\* unless it is overtaken; what was missing during a validation is in missed, also
\* if the validation learns of it from a cache filled by another.
Witnessed ==
    /\ PathsTypeOK
    /\ CacheFresh
    /\ ReportedMissing
    /\ Available(folder, loaded) \subseteq seen
    /\ Missing(folder, loaded) \subseteq unseen
    /\ scanner # NoPaths /\ ~overtaken /\ scanned # NoPaths =>
          scanned \subseteq seen /\ Template \ scanned \subseteq unseen
    /\ scanned # NoPaths => scanner # NoPaths
    /\ \A v \in Validator :
          /\ validation[v].step = "scan" => scanned = NoPaths
          /\ validation[v].step # "idle" /\ Imported \in Missing(folder, loaded) => v \in missed
          /\ Scanning(v) /\ validation[v].force /\ Imported \in unseen => v \in missed
          /\ validation[v].step = "scanned" /\ validation[v].force /\ Imported \notin scanned =>
                v \in missed

LEMMA InitWitnessed == PathsInit => Witnessed
  BY TemplatesAssumption
  DEF PathsInit, Witnessed, PathsTypeOK, CacheFresh, ReportedMissing, Available, Missing, Scanning,
      Resting

LEMMA OutsideWitnessed ==
    ASSUME Witnessed, Invalidate \/ \E dir \in SUBSET Template : WriteTemplates(dir) \/ LoadTemplates
    PROVE  Witnessed'
<1>1. CASE Invalidate
  BY <1>1
  DEF Witnessed, PathsTypeOK, CacheFresh, ReportedMissing, Available, Missing, Scanning,
      Invalidate, Dropped
<1>2. CASE \E dir \in SUBSET Template : WriteTemplates(dir) \/ LoadTemplates
  <2>1. PICK dir \in SUBSET Template, sources \in SUBSET Template : Changed(dir, sources)
    BY <1>2 DEF Witnessed, PathsTypeOK, WriteTemplates, LoadTemplates
  <2>2. Available(dir, sources) \subseteq Template /\ Missing(dir, sources) \subseteq Template
    BY DEF Available, Missing
  <2>3. /\ folder' = dir /\ loaded' = sources
        /\ seen' = seen \cup Available(dir, sources)
        /\ unseen' = unseen \cup Missing(dir, sources)
        /\ Imported \in Missing(dir, sources) =>
              missed' = {v \in Validator : validation[v].step # "idle"}
        /\ Imported \notin Missing(dir, sources) => missed' = missed
        /\ UNCHANGED <<cache, scanner, overtaken, scanned, validation>>
    BY <2>1 DEF Changed
  <2>4. PathsTypeOK'
    BY <2>2, <2>3 DEF Witnessed, PathsTypeOK
  <2>5. CacheFresh' /\ ReportedMissing'
    BY <2>3 DEF Witnessed, CacheFresh, ReportedMissing
  <2>6. /\ Available(folder, loaded)' \subseteq seen' /\ Missing(folder, loaded)' \subseteq unseen'
        /\ Missing(folder, loaded)' = Missing(dir, sources)
    BY <2>3 DEF Available, Missing
  <2> QED
    BY <2>3, <2>4, <2>5, <2>6 DEF Witnessed, Scanning
<1> QED
  BY <1>1, <1>2

\* A validation that starts, waits or ends has read nothing.
LEMMA RestWitnessed ==
    ASSUME Witnessed, NEW v \in Validator,
           \/ \E force \in BOOLEAN : StartValidation(v, force)
           \/ AskLock(v) \/ EndValidation(v) \/ ScanError(v)
    PROVE  Witnessed'
<1>1. CASE \E force \in BOOLEAN : StartValidation(v, force)
  BY <1>1
  DEF Witnessed, PathsTypeOK, CacheFresh, ReportedMissing, Available, Missing, Scanning,
      StartValidation, Resting
<1>2. CASE AskLock(v)
  BY <1>2, TemplatesAssumption
  DEF Witnessed, PathsTypeOK, CacheFresh, ReportedMissing, Available, Missing, Scanning, AskLock
<1>3. CASE EndValidation(v)
  BY <1>3, TemplatesAssumption
  DEF Witnessed, PathsTypeOK, CacheFresh, ReportedMissing, Available, Missing, Scanning,
      EndValidation, Resting
<1>4. CASE ScanError(v)
  BY <1>4, TemplatesAssumption
  DEF Witnessed, PathsTypeOK, CacheFresh, ReportedMissing, Available, Missing, Scanning, ScanError
<1> QED
  BY <1>1, <1>2, <1>3, <1>4

\* What a validation makes of some paths.
LEMMA MeetResult ==
    ASSUME PathsTypeOK, NEW v \in Validator, NEW paths, Meet(v, paths),
           validation[v].step \in {"ask", "lock", "scanned"}
    PROVE  \E phase \in {"fine", "missing", "ask"} :
              /\ \E force \in BOOLEAN :
                    validation' = [validation EXCEPT ![v] = [step |-> phase, force |-> force]]
              /\ phase = "missing" => validation[v].force /\ paths # NoPaths /\ Imported \notin paths
<1>1. validation[v].force \in BOOLEAN
  BY DEF PathsTypeOK
<1>2. [validation[v] EXCEPT !.step = "fine"] = [step |-> "fine", force |-> validation[v].force]
  BY DEF PathsTypeOK
<1>3. [validation[v] EXCEPT !.step = "missing"] = [step |-> "missing", force |-> validation[v].force]
  BY DEF PathsTypeOK
<1>4. CASE paths = NoPaths \/ Imported \in paths
  <2>1. validation' = [validation EXCEPT ![v] = [validation[v] EXCEPT !.step = "fine"]]
    BY <1>4 DEF Meet
  <2> QED
    BY <1>1, <1>2, <2>1
<1>5. CASE ~(paths = NoPaths \/ Imported \in paths) /\ validation[v].force
  <2>1. validation' = [validation EXCEPT ![v] = [validation[v] EXCEPT !.step = "missing"]]
    BY <1>5 DEF Meet
  <2> QED
    BY <1>1, <1>3, <1>5, <2>1
<1>6. CASE ~(paths = NoPaths \/ Imported \in paths) /\ ~validation[v].force
  <2>1. validation' = [validation EXCEPT ![v] = [step |-> "ask", force |-> TRUE]]
    BY <1>6 DEF Meet
  <2> QED
    BY <2>1
<1> QED
  BY <1>4, <1>5, <1>6

\* The loader or the cache answers without a job.
LEMMA AnswerWitnessed ==
    ASSUME Witnessed, NEW v \in Validator,
           AskLoader(v) \/ AskCache(v) \/ LockedCache(v) \/ LockedLoader(v)
    PROVE  Witnessed'
<1>1. PICK paths :
        /\ Meet(v, paths)
        /\ \/ paths = loaded /\ loaded # {} /\ cache' = loaded
           \/ ~validation[v].force /\ UNCHANGED cache
  BY DEF AskLoader, AskCache, LockedCache, LockedLoader
<1>2. /\ validation[v].step \in {"ask", "lock"}
      /\ UNCHANGED <<folder, loaded, scanner, overtaken, scanned, seen, unseen, missed>>
  BY DEF AskLoader, AskCache, LockedCache, LockedLoader
<1>3. PICK phase \in {"fine", "missing", "ask"}, force \in BOOLEAN :
        /\ validation' = [validation EXCEPT ![v] = [step |-> phase, force |-> force]]
        /\ phase = "missing" => validation[v].force /\ paths # NoPaths /\ Imported \notin paths
  BY <1>1, <1>2, MeetResult DEF Witnessed
<1>4. PathsTypeOK'
  BY <1>1, <1>2, <1>3 DEF Witnessed, PathsTypeOK
<1>5. CacheFresh'
  BY <1>1, <1>2 DEF Witnessed, PathsTypeOK, CacheFresh, Available, Missing
<1>6. phase = "missing" => v \in missed
  BY <1>1, <1>2, <1>3, TemplatesAssumption DEF Witnessed, Missing
<1>7. ReportedMissing'
  BY <1>2, <1>3, <1>6 DEF Witnessed, PathsTypeOK, ReportedMissing
<1>8. (Available(folder, loaded) = Available(folder, loaded)') /\ (Missing(folder, loaded) = Missing(folder, loaded)')
  BY <1>2 DEF Available, Missing
<1> QED
  BY <1>2, <1>3, <1>4, <1>5, <1>7, <1>8 DEF Witnessed, PathsTypeOK, Scanning

LEMMA ScanWitnessed ==
    ASSUME Witnessed, NEW v \in Validator, LockedScan(v) \/ ScanFolder(v)
    PROVE  Witnessed'
<1>1. CASE LockedScan(v)
  <2>1. /\ scanner = NoPaths /\ scanned = NoPaths /\ validation[v].step = "lock"
        /\ scanner' = v /\ validation' = [validation EXCEPT ![v].step = "scan"]
        /\ UNCHANGED <<folder, loaded, overtaken, scanned, missed>>
    BY <1>1 DEF LockedScan, Witnessed
  <2>2. \/ validation[v].force /\ cache' = NoPaths /\ seen' = Available(folder, loaded)
           /\ unseen' = Missing(folder, loaded)
        \/ ~validation[v].force /\ UNCHANGED <<cache, seen, unseen>>
    BY <1>1 DEF LockedScan
  <2>3. PathsTypeOK'
    BY <2>1, <2>2, TemplatesAssumption DEF Witnessed, PathsTypeOK, Available, Missing
  <2>4. CacheFresh' /\ ReportedMissing'
    BY <2>1, <2>2 DEF Witnessed, PathsTypeOK, CacheFresh, ReportedMissing
  <2>5. Available(folder, loaded)' = Available(folder, loaded) /\ Missing(folder, loaded)' = Missing(folder, loaded)
    BY <2>1 DEF Available, Missing
  <2> QED
    BY <2>1, <2>2, <2>3, <2>4, <2>5 DEF Witnessed, PathsTypeOK, Scanning
<1>2. CASE ScanFolder(v)
  BY <1>2, TemplatesAssumption
  DEF Witnessed, PathsTypeOK, CacheFresh, ReportedMissing, Available, Missing, Scanning, ScanFolder
<1> QED
  BY <1>1, <1>2

LEMMA DoneWitnessed ==
    ASSUME Witnessed, NEW v \in Validator, ScanDone(v)
    PROVE  Witnessed'
<1>1. /\ validation[v].step = "scanned" /\ scanner = v /\ scanned # NoPaths
      /\ scanner' = NoPaths /\ scanned' = NoPaths /\ overtaken' = FALSE
      /\ UNCHANGED <<folder, loaded, seen, unseen, missed>>
  BY DEF ScanDone, Witnessed, PathsTypeOK
<1>2. PICK paths :
        /\ Meet(v, paths)
        /\ \/ paths = scanned /\ (UNCHANGED cache \/ (~overtaken /\ cache' = scanned))
           \/ paths = cache /\ cache # NoPaths /\ UNCHANGED cache
  BY DEF ScanDone
<1>3. PICK phase \in {"fine", "missing", "ask"}, force \in BOOLEAN :
        /\ validation' = [validation EXCEPT ![v] = [step |-> phase, force |-> force]]
        /\ phase = "missing" => validation[v].force /\ paths # NoPaths /\ Imported \notin paths
  BY <1>1, <1>2, MeetResult DEF Witnessed
<1>4. PathsTypeOK'
  BY <1>1, <1>2, <1>3, TemplatesAssumption DEF Witnessed, PathsTypeOK
<1>5. CacheFresh'
  BY <1>1, <1>2, TemplatesAssumption DEF Witnessed, CacheFresh
<1>6. ASSUME phase = "missing" PROVE v \in missed
  <2>1. CASE paths = scanned
    BY <1>1, <1>3, <1>6, <2>1 DEF Witnessed
  <2>2. CASE paths = cache /\ cache # NoPaths
    BY <1>1, <1>3, <1>6, <2>2, TemplatesAssumption DEF Witnessed, CacheFresh, Scanning
  <2> QED
    BY <1>2, <2>1, <2>2
<1>7. ReportedMissing'
  BY <1>1, <1>3, <1>6 DEF Witnessed, PathsTypeOK, ReportedMissing
<1>8. Available(folder, loaded)' = Available(folder, loaded) /\ Missing(folder, loaded)' = Missing(folder, loaded)
  BY <1>1 DEF Available, Missing
<1> QED
  BY <1>1, <1>3, <1>4, <1>5, <1>7, <1>8 DEF Witnessed, PathsTypeOK, Scanning

LEMMA WitnessedStep == ASSUME Witnessed, [PathsNext]_pathVars PROVE Witnessed'
<1>1. CASE UNCHANGED pathVars
  BY <1>1
  DEF Witnessed, PathsTypeOK, CacheFresh, ReportedMissing, Available, Missing, Scanning, pathVars
<1>2. CASE PathsNext
  BY <1>2, OutsideWitnessed, RestWitnessed, AnswerWitnessed, ScanWitnessed, DoneWitnessed
  DEF PathsNext
<1> QED
  BY <1>1, <1>2

------------------------------------------------------------------------------
(* Inspections.                                                            *)

\* During an inspection the snapshot has what would be there without it, but for
\* issues that others have touched; the inspection knows all issues it has raised.
Restorable ==
    /\ InspectionTypeOK
    /\ RegistryUntouched
    /\ holder # NoTask =>
          /\ created = own
          /\ \A i \in Issue \ (touched \cup clashed) : snapshot[i] = expected[i]

LEMMA InitRestorable == InspectionInit => Restorable
  BY InspectionAssumption
  DEF InspectionInit, Restorable, InspectionTypeOK, RegistryUntouched, NoReport, Report

\* A step within an inspection changes its report and nothing else.
LEMMA ReportRestorable ==
    ASSUME Restorable, NEW p \in Inspector, NEW r \in Report,
           report' = [report EXCEPT ![p] = r], r.step = "validate" <=> report[p].step = "validate",
           UNCHANGED <<issues, holder, snapshot, created, expected, own, touched, clashed>>
    PROVE  Restorable'
  BY DEF Restorable, InspectionTypeOK, RegistryUntouched

LEMMA InspectorRestorable ==
    ASSUME Restorable, NEW p \in Inspector,
           \/ InspectUnreadable(p) \/ InspectReadable(p) \/ EnterCapture(p)
           \/ ValidatorWarns(p) \/ ValidatorRejects(p) \/ Classify(p)
           \/ \E i \in Issue : ValidatorRaises(p, i)
    PROVE  Restorable'
<1> USE DEF Report
<1>0. report[p] \in Report /\ (report[p].step = "validate" <=> holder = p)
  BY DEF Restorable, InspectionTypeOK
<1>1. CASE InspectUnreadable(p)
  BY <1>0, <1>1, ReportRestorable DEF InspectUnreadable, NoReport
<1>2. CASE InspectReadable(p)
  <2>1. PICK found \in BOOLEAN :
          report' = [report EXCEPT ![p] = [NoReport EXCEPT !.step = "wait", !.errors = found]]
    BY <1>2 DEF InspectReadable
  <2>2. [NoReport EXCEPT !.step = "wait", !.errors = found] \in Report
    BY DEF NoReport
  <2>3. [NoReport EXCEPT !.step = "wait", !.errors = found].step = "wait"
    BY DEF NoReport
  <2> QED
    BY <1>0, <1>2, <2>1, <2>2, <2>3, ReportRestorable DEF InspectReadable
<1>3. CASE EnterCapture(p)
  <2>1. InspectionTypeOK'
    BY <1>3, InspectionAssumption DEF Restorable, InspectionTypeOK, EnterCapture
  <2> QED
    BY <1>3, <2>1, InspectionAssumption DEF Restorable, RegistryUntouched, EnterCapture
<1>4. CASE ValidatorWarns(p)
  <2>1. [report[p] EXCEPT !.warnings = TRUE] \in Report
    BY <1>0
  <2>2. report' = [report EXCEPT ![p] = [report[p] EXCEPT !.warnings = TRUE]]
    BY <1>4 DEF ValidatorWarns
  <2> QED
    BY <1>0, <1>4, <2>1, <2>2, ReportRestorable DEF ValidatorWarns
<1>5. CASE ValidatorRejects(p)
  <2>1. [report[p] EXCEPT !.errors = TRUE] \in Report
    BY <1>0
  <2>2. report' = [report EXCEPT ![p] = [report[p] EXCEPT !.errors = TRUE]]
    BY <1>5 DEF ValidatorRejects
  <2> QED
    BY <1>0, <1>5, <2>1, <2>2, ReportRestorable DEF ValidatorRejects
<1>6. CASE Classify(p)
  <2>1. PICK severity \in {"none", "deprecation", "breaking"} :
          report' = [report EXCEPT ![p].step = "idle", ![p].severity = severity]
    BY <1>6 DEF Classify
  <2>2. [report[p] EXCEPT !.step = "idle", !.severity = severity] \in Report
    BY <1>0
  <2>3. report' = [report EXCEPT ![p] =
                      [report[p] EXCEPT !.step = "idle", !.severity = severity]]
    BY <2>1 DEF Restorable, InspectionTypeOK
  <2> QED
    BY <1>0, <1>6, <2>2, <2>3, ReportRestorable DEF Classify
<1>7. CASE \E i \in Issue : ValidatorRaises(p, i)
  BY <1>7, InspectionAssumption
  DEF Restorable, InspectionTypeOK, RegistryUntouched, ValidatorRaises
<1> QED
  BY <1>1, <1>2, <1>3, <1>4, <1>5, <1>6, <1>7

\* However an inspection ends, it puts back the snapshot of what it has raised.
LEMMA EndRestorable ==
    ASSUME Restorable, NEW p \in Inspector, LeaveCapture(p) \/ CancelInspection(p)
    PROVE  Restorable'
<1> USE DEF Report
<1>1. /\ holder = p /\ holder' = NoTask /\ p # NoTask
      /\ issues' = [i \in Issue |-> IF i \in created THEN snapshot[i] ELSE issues[i]]
      /\ clashed' = clashed \cup (touched \cap own)
      /\ UNCHANGED <<snapshot, created, expected, own, touched>>
  BY InspectionAssumption DEF LeaveCapture, CancelInspection
<1>2. PICK r \in Report : r.step # "validate" /\ report' = [report EXCEPT ![p] = r]
  <2>1. CASE CancelInspection(p)
    BY <2>1 DEF CancelInspection, NoReport
  <2>2. CASE LeaveCapture(p)
    <3>1. PICK warnings \in BOOLEAN :
            report' = [report EXCEPT ![p].step = "classify", ![p].warnings = warnings]
      BY <2>2 DEF LeaveCapture
    <3>2. report' = [report EXCEPT ![p] =
                        [report[p] EXCEPT !.step = "classify", !.warnings = warnings]]
      BY <3>1 DEF Restorable, InspectionTypeOK
    <3>3. [report[p] EXCEPT !.step = "classify", !.warnings = warnings] \in Report
      BY DEF Restorable, InspectionTypeOK
    <3> QED
      BY <3>2, <3>3 DEF Restorable, InspectionTypeOK
  <2> QED
    BY <2>1, <2>2
<1>3. InspectionTypeOK'
  BY <1>1, <1>2, InspectionAssumption DEF Restorable, InspectionTypeOK
<1>4. ASSUME NEW i \in Issue, i \notin clashed' PROVE issues'[i] = expected'[i]
  BY <1>1, <1>4 DEF Restorable, RegistryUntouched
<1> QED
  BY <1>1, <1>3, <1>4 DEF Restorable, RegistryUntouched

LEMMA OtherRestorable ==
    ASSUME Restorable, NEW i \in Issue, NEW content \in Theirs \cup {Absent},
           OtherChanges(i, content), UNCHANGED created
    PROVE  Restorable'
  BY InspectionAssumption DEF Restorable, InspectionTypeOK, RegistryUntouched, OtherChanges

LEMMA RestorableStep == ASSUME Restorable, [InspectionNext]_inspectionVars PROVE Restorable'
<1>1. CASE UNCHANGED inspectionVars
  BY <1>1 DEF Restorable, InspectionTypeOK, RegistryUntouched, inspectionVars
<1>2. CASE \E i \in Issue : OtherDeletes(i) \/ \E content \in Theirs : OtherRaises(i, content)
  BY <1>2, OtherRestorable DEF OtherDeletes, OtherRaises
<1>3. CASE \E p \in Inspector :
             \/ InspectUnreadable(p) \/ InspectReadable(p) \/ EnterCapture(p)
             \/ ValidatorWarns(p) \/ ValidatorRejects(p) \/ Classify(p)
             \/ \E i \in Issue : ValidatorRaises(p, i)
  BY <1>3, InspectorRestorable
<1>4. CASE \E p \in Inspector : LeaveCapture(p) \/ CancelInspection(p)
  BY <1>4, EndRestorable
<1> QED
  BY <1>1, <1>2, <1>3, <1>4 DEF InspectionNext

------------------------------------------------------------------------------
(* Imports.                                                                *)

\* An import that no user has misled since it began, and no other that was.
Undisturbed(i) == imports[i].step # "idle" /\ ~imports[i].edited

\* The file that is there keeps the source of this one.
Follows(file) == file # NoFile => target # NoFile /\ target.url = file.url

\* Where no user has interfered, what is listed and what a scan has read follow
\* the file, and an import that holds a revision either expects its own source or
\* will be refused.
Claimed ==
    /\ ImportTypeOK
    /\ scanFile.reading /\ ~scanFile.current => outside
    /\ ~outside /\ listed # NoUrl => target # NoFile /\ target.url = listed
    /\ scanFile.reading /\ scanFile.current => Follows(scanFile.file)
    /\ \A i \in Importer :
          /\ imports[i].step # "idle" => imports[i].url \in Url
          /\ imports[i].step \in {"fetched", "captured", "checked", "prepared"} =>
                imports[i].text \in Text
          /\ imports[i].step = "prepared" => imports[i].final \in Url
          /\ Undisturbed(i) => ~outside
          /\ Undisturbed(i) /\ imports[i].step \in {"captured", "checked", "prepared"} =>
                Follows(imports[i].expects)
          /\ Undisturbed(i) /\ imports[i].step \in {"checked", "prepared"} =>
                imports[i].expects = NoFile \/ imports[i].expects.url = imports[i].url
          /\ Undisturbed(i) /\ imports[i].step = "prepared" =>
                \/ imports[i].final = imports[i].url
                \/ target # NoFile /\ imports[i].expects = NoFile

LEMMA InitClaimed == ImportInit => Claimed
<1> SUFFICES ASSUME ImportInit PROVE Claimed
  OBVIOUS
<1>1. NoImport \in Call /\ NoImport.step = "idle"
  BY DEF NoImport, Call
<1>2. ImportTypeOK
  BY <1>1 DEF ImportInit, ImportTypeOK, NoScan
<1> QED
  BY <1>1, <1>2 DEF ImportInit, Claimed, Undisturbed, NoScan

\* Types of what the steps of an import write.
LEMMA Updated ==
    ASSUME NEW call \in Call
    PROVE  /\ \A file \in Content \cup {NoFile} :
                [call EXCEPT !.step = "captured", !.expects = file] \in Call
           /\ [call EXCEPT !.step = "checked"] \in Call
           /\ \A url \in Url : [call EXCEPT !.step = "prepared", !.final = url] \in Call
           /\ \A yes \in BOOLEAN : [call EXCEPT !.edited = yes] \in Call
  BY DEF Call

LEMMA BeginsClaimed ==
    ASSUME Claimed, NEW i \in Importer,
           (\E url \in Url, text \in Text : FetchImport(i, url, text)) \/ CaptureTarget(i)
    PROVE  Claimed'
<1>1. CASE \E url \in Url, text \in Text : FetchImport(i, url, text)
  <2>1. PICK url \in Url, text \in Text : FetchImport(i, url, text)
    BY <1>1
  <2> DEFINE call == [NoImport EXCEPT !.step = "fetched", !.url = url, !.text = text,
                                      !.edited = outside]
  <2>2. /\ imports' = [imports EXCEPT ![i] = call]
        /\ call \in Call /\ call.step = "fetched" /\ call.url = url /\ call.text = text
        /\ call.edited = outside
    BY <2>1 DEF FetchImport, NoImport, Call, Claimed, ImportTypeOK
  <2> HIDE DEF call
  <2>3. UNCHANGED <<target, listed, scanFile, outside>>
    BY <2>1 DEF FetchImport
  <2>4. ImportTypeOK'
    BY <2>2, <2>3 DEF Claimed, ImportTypeOK
  <2> QED
    BY <2>2, <2>3, <2>4 DEF Claimed, ImportTypeOK, Undisturbed, Follows
<1>2. CASE CaptureTarget(i)
  <2>1. ImportTypeOK'
    BY <1>2, Updated DEF Claimed, ImportTypeOK, CaptureTarget
  <2> QED
    BY <1>2, <2>1 DEF Claimed, ImportTypeOK, Undisturbed, Follows, CaptureTarget
<1> QED
  BY <1>1, <1>2

LEMMA ChecksClaimed ==
    ASSUME Claimed, NEW i \in Importer, CheckTarget(i) \/ PrepareImport(i)
    PROVE  Claimed'
<1>1. CASE CheckTarget(i)
  <2>1. ImportTypeOK'
    BY <1>1, Updated DEF Claimed, ImportTypeOK, CheckTarget
  <2>2. ASSUME Undisturbed(i)
        PROVE  imports[i].expects = NoFile \/ imports[i].expects.url = imports[i].url
    <3>1. imports[i].expects # NoFile =>
            target # NoFile /\ target.url = imports[i].expects.url
      BY <1>1, <2>2 DEF Claimed, CheckTarget, Follows
    <3>2. ~outside /\ imports[i].url \in Url
      BY <1>1, <2>2 DEF Claimed, CheckTarget
    <3>3. CASE listed # NoUrl
      BY <1>1, <3>1, <3>2, <3>3 DEF Claimed, CheckTarget, Taken, Existing
    <3>4. CASE listed = NoUrl
      BY <1>1, <3>1, <3>2, <3>4 DEF CheckTarget, Taken, Existing
    <3> QED
      BY <3>3, <3>4
  <2> QED
    BY <1>1, <2>1, <2>2 DEF Claimed, ImportTypeOK, Undisturbed, Follows, CheckTarget
<1>2. CASE PrepareImport(i)
  <2>1. PICK final \in Url :
          /\ imports' = [imports EXCEPT ![i].step = "prepared", ![i].final = final]
          /\ final = IF listed # NoUrl THEN listed ELSE imports[i].url
    BY <1>2 DEF PrepareImport, Claimed, ImportTypeOK
  <2>2. imports[i].step = "checked" /\ UNCHANGED <<target, listed, scanFile, outside>>
    BY <1>2 DEF PrepareImport
  <2>3. ImportTypeOK'
    BY <2>1, <2>2, Updated DEF Claimed, ImportTypeOK
  <2>4. ASSUME Undisturbed(i)
        PROVE  final = imports[i].url \/ (target # NoFile /\ imports[i].expects = NoFile)
    BY <2>1, <2>2, <2>4 DEF Claimed, Follows
  <2> QED
    BY <2>1, <2>2, <2>3, <2>4 DEF Claimed, ImportTypeOK, Undisturbed, Follows
<1> QED
  BY <1>1, <1>2

LEMMA EndsClaimed ==
    ASSUME Claimed, NEW i \in Importer, EndImport(i)
    PROVE  Claimed'
<1>1. ImportTypeOK'
  BY DEF Claimed, ImportTypeOK, EndImport, NoImport, Call
<1> QED
  BY <1>1 DEF Claimed, ImportTypeOK, Undisturbed, Follows, EndImport, NoImport

\* An undisturbed import replaces nothing but its own source.
LEMMA CommitOwns ==
    ASSUME Claimed, NEW i \in Importer, CommitImport(i), ~imports[i].edited
    PROVE  /\ target = NoFile \/ target.url = imports[i].url
           /\ imports[i].final = imports[i].url
<1>1. Undisturbed(i) /\ imports[i].step = "prepared" /\ target = imports[i].expects
  BY DEF CommitImport, Undisturbed
<1> QED
  BY <1>1 DEF Claimed

LEMMA CommitClaimed ==
    ASSUME Claimed, NEW i \in Importer, CommitImport(i)
    PROVE  Claimed'
<1>1. /\ imports[i].step = "prepared" /\ imports[i].final \in Url /\ imports[i].text \in Text
      /\ target' = [url |-> imports[i].final, text |-> imports[i].text]
      /\ target' \in Content /\ target' # NoFile /\ target'.url = imports[i].final
      /\ listed' = imports[i].final
      /\ outside' = (outside \/ imports[i].edited)
  BY NoFileAssumption DEF Claimed, CommitImport, Committed, Content
<1>2. /\ imports' \in [Importer -> Call]
      /\ imports'[i] = NoImport
      /\ \A j \in Importer \ {i} :
            /\ imports'[j].step = imports[j].step /\ imports'[j].url = imports[j].url
            /\ imports'[j].text = imports[j].text /\ imports'[j].final = imports[j].final
            /\ imports'[j].expects = imports[j].expects
            /\ imports'[j].edited <=>
                  imports[j].edited \/ (imports[j].step # "idle" /\ imports[i].edited)
  BY DEF Claimed, ImportTypeOK, CommitImport, Committed, NoImport, Call
<1>3. /\ scanFile' \in [reading: BOOLEAN, file: Content \cup {NoFile}, current: BOOLEAN]
      /\ scanFile'.reading = scanFile.reading /\ scanFile'.file = scanFile.file
      /\ scanFile'.current <=> scanFile.current /\ ~(scanFile.reading /\ imports[i].edited)
  BY DEF Claimed, ImportTypeOK, CommitImport, Committed
<1>4. ImportTypeOK'
  BY <1>1, <1>2, <1>3 DEF Claimed, ImportTypeOK
<1>5. ASSUME NEW file, Follows(file), ~imports[i].edited
      PROVE  Follows(file)'
  BY <1>1, <1>5, CommitOwns DEF Follows
<1>6. CASE imports[i].edited
  <2>1. outside' /\ \A j \in Importer : ~Undisturbed(j)'
    <3>1. outside'
      BY <1>1, <1>6
    <3>2. ASSUME NEW j \in Importer \ {i} PROVE ~Undisturbed(j)'
      BY <1>2, <1>6 DEF Undisturbed
    <3>3. ~Undisturbed(i)'
      BY <1>2 DEF Undisturbed, NoImport
    <3> QED
      BY <3>1, <3>2, <3>3
  <2> QED
    BY <1>1, <1>2, <1>3, <1>4, <1>6, <2>1 DEF Claimed, NoImport
<1>7. CASE ~imports[i].edited
  <2>1. /\ outside' = outside
        /\ \A j \in Importer \ {i} : Undisturbed(j)' <=> Undisturbed(j)
        /\ ~Undisturbed(i)'
    BY <1>1, <1>2, <1>7 DEF Undisturbed, NoImport, Claimed, ImportTypeOK
  <2>2. \A j \in Importer \ {i} : Follows(imports[j].expects) => Follows(imports[j].expects)'
    BY <1>2, <1>5, <1>7 DEF Follows
  <2>3. scanFile.reading /\ scanFile.current => Follows(scanFile.file)'
    BY <1>3, <1>5, <1>7 DEF Claimed, Follows
  <2> QED
    BY <1>1, <1>2, <1>3, <1>4, <1>7, <2>1, <2>2, <2>3 DEF Claimed, NoImport
<1> QED
  BY <1>6, <1>7

LEMMA AroundClaimed ==
    ASSUME Claimed,
           ScanReads \/ ScanLists \/ \E file \in Content \cup {NoFile} : UserWrites(file)
    PROVE  Claimed'
<1>1. CASE ScanReads
  <2>1. ImportTypeOK'
    BY <1>1 DEF Claimed, ImportTypeOK, ScanReads
  <2> QED
    BY <1>1, <2>1 DEF Claimed, ImportTypeOK, Undisturbed, Follows, ScanReads
<1>2. CASE ScanLists
  <2>1. ImportTypeOK'
    BY <1>2 DEF Claimed, ImportTypeOK, ScanLists, NoScan, Content
  <2> QED
    BY <1>2, <2>1 DEF Claimed, ImportTypeOK, Undisturbed, Follows, ScanLists, NoScan
<1>3. CASE \E file \in Content \cup {NoFile} : UserWrites(file)
  <2>1. PICK file \in Content \cup {NoFile} : UserWrites(file)
    BY <1>3
  <2>2. ImportTypeOK'
    <3>1. imports' \in [Importer -> Call]
      BY <2>1, Updated DEF Claimed, ImportTypeOK, UserWrites
    <3>2. scanFile' \in [reading: BOOLEAN, file: Content \cup {NoFile}, current: BOOLEAN]
      BY <2>1 DEF Claimed, ImportTypeOK, UserWrites
    <3> QED
      BY <2>1, <3>1, <3>2 DEF Claimed, ImportTypeOK, UserWrites
  <2>3. \A i \in Importer : ~Undisturbed(i)'
    BY <2>1 DEF Claimed, ImportTypeOK, UserWrites, Undisturbed, Call
  <2>4. outside' /\ ~(scanFile'.reading /\ scanFile'.current)
    BY <2>1 DEF Claimed, ImportTypeOK, UserWrites
  <2>5. \A i \in Importer : /\ imports'[i].step = imports[i].step /\ imports'[i].url = imports[i].url
                           /\ imports'[i].text = imports[i].text
                           /\ imports'[i].final = imports[i].final
    BY <2>1 DEF Claimed, ImportTypeOK, UserWrites, Call
  <2> QED
    BY <2>2, <2>3, <2>4, <2>5 DEF Claimed
<1> QED
  BY <1>1, <1>2, <1>3

LEMMA ClaimedStep == ASSUME Claimed, [ImportNext]_importVars PROVE Claimed'
<1>1. CASE UNCHANGED importVars
  BY <1>1 DEF Claimed, ImportTypeOK, Undisturbed, Follows, importVars
<1>2. CASE ImportNext
  BY <1>2, BeginsClaimed, ChecksClaimed, EndsClaimed, CommitClaimed, AroundClaimed
  DEF ImportNext, ConflictingImport, InvalidImport, RefuseImport
<1> QED
  BY <1>1, <1>2

\* Only the commit of an import both replaces the file and ends the import.
LEMMA OwnFileStep ==
    ASSUME Claimed, [ImportNext]_importVars, NEW i \in Importer, imports[i].step = "prepared",
           target' # target, imports'[i] = NoImport, ~imports[i].edited
    PROVE  /\ target = NoFile \/ target.url = imports[i].url
           /\ target'.url = imports[i].url
<1>1. CASE CommitImport(i)
  BY <1>1, CommitOwns DEF CommitImport
<1>2. ASSUME NEW j \in Importer, j # i, CommitImport(j) PROVE FALSE
  <2>1. imports'[i].step = "prepared"
    BY <1>2 DEF CommitImport, Committed, Claimed, ImportTypeOK, Call
  <2> QED
    BY <2>1 DEF NoImport
<1>3. ASSUME NEW file, UserWrites(file) PROVE FALSE
  <2>1. imports'[i].step = "prepared"
    BY <1>3 DEF UserWrites, Claimed, ImportTypeOK, Call
  <2> QED
    BY <2>1 DEF NoImport
<1>4. \/ \E j \in Importer : CommitImport(j)
      \/ \E file \in Content \cup {NoFile} : UserWrites(file)
  BY DEF ImportNext, importVars, FetchImport, CaptureTarget, CheckTarget, ConflictingImport,
      InvalidImport, EndImport, PrepareImport, RefuseImport, ScanReads, ScanLists
<1> QED
  BY <1>1, <1>2, <1>3, <1>4

------------------------------------------------------------------------------
(* Tracking.                                                               *)

Chosen(chosen) == {b \in Blueprint : Included(b, chosen)}

\* The options say what the user wants, and a scan works with those of its start;
\* so far it has found what was wanted then of the files that stayed there.
Faithful ==
    /\ TrackingTypeOK
    /\ wanted = Chosen(options)
    /\ steady \subseteq usable
    /\ scan # Never =>
          /\ asked = Chosen(scan.options)
          /\ scan.found \subseteq asked
          /\ (asked \cap steady) \ scan.todo \subseteq scan.found

LEMMA InitFaithful == TrackingInit => Faithful
  BY DEF TrackingInit, Faithful, TrackingTypeOK, Chosen, Included, Options, Mode

LEMMA OptionsFaithful ==
    ASSUME Faithful, NEW chosen \in Options, options' = chosen, wanted' = Chosen(chosen),
           form' \in Options \cup {Closed},
           UNCHANGED <<usable, scan, tracked, asked, steady>>
    PROVE  Faithful'
<1>1. wanted' \subseteq Blueprint
  BY DEF Chosen
<1> QED
  BY <1>1 DEF Faithful, TrackingTypeOK, Chosen, Included

\* Stopping one blueprint takes this one from what is chosen, in every mode.
LEMMA WithoutChosen ==
    ASSUME Faithful, NEW b \in Blueprint
    PROVE  Without(b) \in Options /\ Chosen(Without(b)) = Chosen(options) \ {b}
<1>1. options \in Options
  BY DEF Faithful, TrackingTypeOK
<1>2. CASE options.mode = "whitelist"
  BY <1>1, <1>2 DEF Without, Chosen, Included, Options, Mode
<1>3. CASE options.mode = "blacklist"
  BY <1>1, <1>3 DEF Without, Chosen, Included, Options, Mode
<1>4. CASE options.mode = "all"
  BY <1>1, <1>4 DEF Without, Chosen, Included, Options, Mode
<1> QED
  BY <1>1, <1>2, <1>3, <1>4 DEF Options, Mode

LEMMA FormFaithful ==
    ASSUME Faithful, NEW mode \in Mode, NEW selected \in SUBSET Blueprint,
           SubmitForm(mode, selected)
    PROVE  Faithful'
<1>1. [mode |-> mode, selected |-> selected] \in Options
  BY DEF Options
<1>2. wanted' = Chosen([mode |-> mode, selected |-> selected])
  BY DEF SubmitForm, Chosen, Included, Mode
<1> QED
  BY <1>1, <1>2, OptionsFaithful DEF SubmitForm

LEMMA FaithfulStep == ASSUME Faithful, [TrackingNext]_trackingVars PROVE Faithful'
<1>1. CASE UNCHANGED trackingVars \/ OpenForm
  BY <1>1 DEF Faithful, TrackingTypeOK, Chosen, Included, trackingVars, OpenForm
<1>2. CASE SubmitUnchanged
  BY <1>2, FormFaithful DEF SubmitUnchanged, Faithful, TrackingTypeOK, Options
<1>3. CASE \E mode \in Mode, selected \in SUBSET Blueprint : SubmitForm(mode, selected)
  BY <1>3, FormFaithful
<1>4. CASE \E b \in Blueprint : StopTracking(b)
  <2>1. PICK b \in Blueprint : StopTracking(b)
    BY <1>4
  <2>2. wanted' = Chosen(Without(b)) /\ Without(b) \in Options
    BY <2>1, WithoutChosen DEF StopTracking, Faithful
  <2> QED
    BY <2>1, <2>2, OptionsFaithful DEF StopTracking, Faithful, TrackingTypeOK
<1>5. CASE StartScan
  BY <1>5 DEF Faithful, TrackingTypeOK, Chosen, Included, StartScan
<1>6. CASE \E b \in Blueprint : ScanOne(b)
  <2>1. PICK b \in Blueprint : ScanOne(b)
    BY <1>6
  <2> DEFINE found == IF b \in usable /\ Included(b, scan.options)
                        THEN scan.found \cup {b} ELSE scan.found
             Progress == [options: Options, todo: SUBSET Blueprint, found: SUBSET Blueprint]
  <2>2. scan \in Progress
    BY <2>1 DEF ScanOne, Faithful, TrackingTypeOK
  <2>3. found \in SUBSET Blueprint
    BY <2>2
  <2>4. /\ scan' = [scan EXCEPT !.todo = @ \ {b}, !.found = found]
        /\ UNCHANGED <<options, form, usable, tracked, wanted, asked, steady>>
    BY <2>1 DEF ScanOne
  <2> HIDE DEF found
  <2>5. /\ scan' \in Progress /\ scan'.options = scan.options
        /\ scan'.todo = scan.todo \ {b} /\ scan'.found = found
    BY <2>2, <2>3, <2>4
  <2> HIDE DEF Progress
  <2>6. TrackingTypeOK'
    BY <2>4, <2>5 DEF Faithful, TrackingTypeOK, Progress
  <2>7. /\ asked = Chosen(scan.options) /\ scan.found \subseteq asked
        /\ (asked \cap steady) \ scan.todo \subseteq scan.found /\ steady \subseteq usable
    BY <2>1 DEF ScanOne, Faithful
  <2>8. scan.found \subseteq found /\ found \subseteq scan.found \cup {b}
    BY DEF found
  <2>9. found \subseteq asked
    BY <2>7 DEF found, Chosen
  <2>10. b \in asked \cap steady => b \in found
    BY <2>7 DEF found, Chosen
  <2>11. (asked \cap steady) \ (scan.todo \ {b}) \subseteq found
    BY <2>7, <2>8, <2>10
  <2>12. wanted' = Chosen(options)' /\ steady' \subseteq usable' /\ asked' = Chosen(scan.options)
    BY <2>4, <2>7 DEF Faithful, Chosen, Included
  <2>13. asked' = Chosen(scan'.options)
    BY <2>5, <2>12
  <2> QED
    BY <2>4, <2>5, <2>6, <2>9, <2>11, <2>12, <2>13 DEF Faithful, Chosen, Included
<1>7. CASE \E b \in Blueprint : ChangeFile(b)
  BY <1>7 DEF Faithful, TrackingTypeOK, Chosen, Included, ChangeFile
<1>8. CASE ListFound
  BY <1>8 DEF Faithful, TrackingTypeOK, Chosen, Included, ListFound
<1> QED
  BY <1>1, <1>2, <1>3, <1>4, <1>5, <1>6, <1>7, <1>8 DEF TrackingNext

LEMMA ListedStep ==
    ASSUME Faithful, ListFound
    PROVE  asked \cap steady \subseteq tracked' /\ tracked' \subseteq asked
  BY DEF Faithful, ListFound

------------------------------------------------------------------------------
(* Differences.                                                            *)

\* What a request or the cache has compared is what its hashes say, unless drift
\* was noticed.
Honest(v) ==
    /\ view[v].step \in {"fetch", "read"} /\ ~view[v].drift => disk = view[v].local
    /\ view[v].step = "fetch" /\ ~view[v].drift => origin = view[v].remote
    /\ view[v].step # "idle" /\ view[v].step # "fetch" /\ ~view[v].drift =>
          view[v].content = view[v].remote
    /\ view[v].step \in {"store", "show"} /\ ~view[v].drift => view[v].from = view[v].local
    /\ view[v].step # "idle" => view[v].local \in Version /\ view[v].remote \in Version
    /\ view[v].step \in {"read", "store", "show"} => view[v].content \in Version
    /\ view[v].step \in {"store", "show"} => view[v].from \in Version

Compared ==
    /\ DiffsTypeOK
    /\ entry.content # Nothing /\ ~mixed => entry.content = entry.remote
    /\ entry.diff # Nothing /\ ~entry.diff.drift =>
          entry.diff.from = entry.diff.local /\ entry.diff.to = entry.diff.remote
    /\ \A v \in Viewer : Honest(v)

LEMMA InitCompared == DiffsInit => Compared
<1> SUFFICES ASSUME DiffsInit PROVE Compared
  OBVIOUS
<1>1. NoView \in View /\ NoView.step = "idle"
  BY DEF NoView, View
<1>2. \A v \in Viewer : view[v] = NoView
  BY DEF DiffsInit
<1>3. DiffsTypeOK
  BY <1>1 DEF DiffsInit, DiffsTypeOK, Entry
<1>4. entry.content = Nothing /\ entry.diff = Nothing
  BY DEF DiffsInit
<1> QED
  BY <1>1, <1>2, <1>3, <1>4 DEF Compared, Honest

\* A step of one request leaves the others as honest as they were.
LEMMA RequestCompared ==
    ASSUME Compared, NEW v \in Viewer, NEW w \in View,
           view' = [view EXCEPT ![v] = w], UNCHANGED <<disk, origin, entry, mixed>>, Honest(v)'
    PROVE  Compared'
<1>1. DiffsTypeOK'
  BY DEF Compared, DiffsTypeOK
<1>2. \A u \in Viewer : Honest(u)'
  BY DEF Compared, DiffsTypeOK, Honest
<1> QED
  BY <1>1, <1>2 DEF Compared

\* A change of the file or the source is noticed by the requests it matters to.
LEMMA NoticedCompared ==
    ASSUME Compared, disk' \in Version, origin' \in Version,
           entry' \in Entry, mixed' \in BOOLEAN, view' = Noticed(disk', origin'),
           entry'.content # Nothing /\ ~mixed' => entry'.content = entry'.remote,
           entry'.diff # Nothing => entry'.diff = entry.diff
    PROVE  Compared'
<1>1. view \in [Viewer -> View]
  BY DEF Compared, DiffsTypeOK
<1>2. ASSUME NEW v \in Viewer
      PROVE  view'[v] \in View /\ Honest(v)'
  <2> DEFINE drift == \/ view[v].drift
                      \/ view[v].step \in {"fetch", "read"} /\ disk' # view[v].local
                      \/ view[v].step = "fetch" /\ origin' # view[v].remote
  <2>1. view'[v] = [view[v] EXCEPT !.drift = drift]
    BY DEF Noticed
  <2>2. view[v] \in View /\ drift \in BOOLEAN
    BY <1>1 DEF View
  <2>3. /\ view'[v] \in View /\ view'[v].drift = drift
        /\ view'[v].step = view[v].step /\ view'[v].local = view[v].local
        /\ view'[v].remote = view[v].remote /\ view'[v].content = view[v].content
        /\ view'[v].from = view[v].from
    BY <2>1, <2>2 DEF View
  <2>4. Honest(v)
    BY DEF Compared
  <2> QED
    BY <2>3, <2>4 DEF Honest
<1>3. view' \in [Viewer -> View]
  BY <1>2 DEF Noticed
<1>4. DiffsTypeOK'
  BY <1>3 DEF DiffsTypeOK
<1>5. entry'.diff # Nothing /\ ~entry'.diff.drift =>
          entry'.diff.from = entry'.diff.local /\ entry'.diff.to = entry'.diff.remote
  BY DEF Compared
<1> QED
  BY <1>2, <1>4, <1>5 DEF Compared

LEMMA ComparedStep == ASSUME Compared, [DiffsNext]_diffVars PROVE Compared'
<1> USE DiffsAssumption
<1>1. CASE UNCHANGED diffVars
  BY <1>1 DEF Compared, DiffsTypeOK, Honest, diffVars
<1>2. ASSUME NEW v \in Viewer, AskCached(v) PROVE Compared'
  <2> DEFINE w == [NoView EXCEPT !.step = "show", !.local = entry.local, !.remote = entry.remote,
                                 !.from = entry.diff.from, !.content = entry.diff.to,
                                 !.drift = entry.diff.drift]
  <2>1. view' = [view EXCEPT ![v] = w] /\ UNCHANGED <<disk, origin, entry, mixed>>
    BY <1>2 DEF AskCached
  <2>2. entry \in Entry /\ entry.diff \in Diff
    BY <1>2 DEF AskCached, CachedDiff, Compared, DiffsTypeOK, Entry
  <2>3. w \in View
    BY <2>2 DEF NoView, View, Entry, Diff
  <2>4. view'[v] = w
    BY <2>1 DEF Compared, DiffsTypeOK
  <2>5. entry.diff.local = entry.local /\ entry.diff.remote = entry.remote /\ entry.diff # Nothing
    BY <1>2 DEF AskCached, CachedDiff
  <2>6. ~entry.diff.drift => entry.diff.from = entry.local /\ entry.diff.to = entry.remote
    BY <2>5 DEF Compared
  <2>7. /\ w.step = "show" /\ w.local = entry.local /\ w.remote = entry.remote
        /\ w.from = entry.diff.from /\ w.content = entry.diff.to /\ w.drift = entry.diff.drift
    BY DEF NoView
  <2> HIDE DEF w
  <2>8. Honest(v)'
    BY <2>2, <2>4, <2>6, <2>7 DEF Honest, Entry, Diff
  <2> QED
    BY <2>1, <2>3, <2>8, RequestCompared
<1>3. ASSUME NEW v \in Viewer, Ask(v) PROVE Compared'
  <2> DEFINE drift == \/ disk # entry.local
                      \/ IF entry.content = Nothing THEN origin # entry.remote ELSE mixed
             phase == IF entry.content = Nothing THEN "fetch" ELSE "read"
             w == [NoView EXCEPT !.step = phase,
                                 !.local = entry.local, !.remote = entry.remote,
                                 !.content = entry.content, !.drift = drift]
  <2>1. view' = [view EXCEPT ![v] = w] /\ UNCHANGED <<disk, origin, entry, mixed>>
    BY <1>3 DEF Ask
  <2>2. entry \in Entry /\ mixed \in BOOLEAN
    BY DEF Compared, DiffsTypeOK
  <2>3. drift \in BOOLEAN /\ phase \in {"fetch", "read"}
    BY <2>2
  <2>4. entry.content # Nothing /\ ~mixed => entry.content = entry.remote
    BY DEF Compared
  <2>5. /\ phase = "fetch" <=> entry.content = Nothing
        /\ ~drift => disk = entry.local
        /\ entry.content = Nothing /\ ~drift => origin = entry.remote
        /\ entry.content # Nothing /\ ~drift => entry.content = entry.remote
    BY <2>2, <2>4
  <2> HIDE DEF drift, phase
  <2>6. /\ w \in View /\ w.step = phase /\ w.local = entry.local /\ w.remote = entry.remote
        /\ w.content = entry.content /\ w.drift = drift
    BY <2>2, <2>3 DEF NoView, View, Entry
  <2>7. view'[v] = w
    BY <2>1 DEF Compared, DiffsTypeOK
  <2> HIDE DEF w
  <2>8. Honest(v)'
    BY <2>1, <2>2, <2>3, <2>5, <2>6, <2>7 DEF Honest, Entry
  <2> QED
    BY <2>1, <2>6, <2>8, RequestCompared
<1>4. ASSUME NEW v \in Viewer, FetchForDiff(v) PROVE Compared'
  <2> DEFINE w == [view[v] EXCEPT !.step = "read", !.content = origin, !.live = TRUE]
  <2>1. /\ view \in [Viewer -> View] /\ view[v] \in View /\ entry \in Entry
        /\ origin \in Version /\ disk \in Version /\ view[v].step = "fetch"
    BY <1>4 DEF FetchForDiff, Compared, DiffsTypeOK
  <2>2. view' = [view EXCEPT ![v] = w] /\ UNCHANGED <<disk, origin>>
    BY <1>4, <2>1 DEF FetchForDiff
  <2>3. /\ w \in View /\ w.step = "read" /\ w.local = view[v].local /\ w.remote = view[v].remote
        /\ w.content = origin /\ w.drift = view[v].drift
    BY <2>1 DEF View
  <2>4. view'[v] = w /\ \A u \in Viewer \ {v} : view'[u] = view[u]
    BY <2>1, <2>2
  <2> HIDE DEF w
  <2>5. \A u \in Viewer : Honest(u)'
    BY <2>1, <2>2, <2>3, <2>4 DEF Honest, Compared
  <2>6. view' \in [Viewer -> View]
    BY <2>1, <2>2, <2>3
  <2>7. /\ entry' \in Entry /\ mixed' \in BOOLEAN /\ entry'.diff = entry.diff
        /\ entry'.content # Nothing /\ ~mixed' => entry'.content = entry'.remote
    <3>1. CASE view[v].live
      BY <1>4, <2>1, <3>1 DEF FetchForDiff, Entry
    <3>2. CASE ~view[v].live
      BY <1>4, <3>2 DEF FetchForDiff, Compared, DiffsTypeOK
    <3> QED
      BY <3>1, <3>2
  <2> QED
    BY <2>1, <2>2, <2>5, <2>6, <2>7 DEF Compared, DiffsTypeOK
<1>5. ASSUME NEW v \in Viewer, FailDiff(v) \/ EndNotes(v) PROVE Compared'
  <2>1. NoView \in View /\ NoView.step = "idle"
    BY DEF NoView, View
  <2>2. view' = [view EXCEPT ![v] = NoView] /\ UNCHANGED <<disk, origin, entry, mixed>>
    BY <1>5 DEF FailDiff, EndNotes
  <2>3. view'[v] = NoView
    BY <2>2 DEF Compared, DiffsTypeOK
  <2>4. Honest(v)'
    BY <2>1, <2>3 DEF Honest
  <2> QED
    BY <2>1, <2>2, <2>4, RequestCompared
<1>6. ASSUME NEW v \in Viewer, ReadForDiff(v) PROVE Compared'
  <2> DEFINE w == [view[v] EXCEPT !.step = "store", !.from = disk]
  <2>1. view[v] \in View /\ disk \in Version /\ view[v].step = "read"
    BY <1>6 DEF ReadForDiff, Compared, DiffsTypeOK
  <2>2. view' = [view EXCEPT ![v] = w] /\ UNCHANGED <<disk, origin, entry, mixed>>
    BY <1>6, <2>1 DEF ReadForDiff, Compared, DiffsTypeOK
  <2>3. /\ w \in View /\ w.step = "store" /\ w.local = view[v].local
        /\ w.remote = view[v].remote /\ w.content = view[v].content
        /\ w.from = disk /\ w.drift = view[v].drift
    BY <2>1 DEF View
  <2>4. view'[v] = w
    BY <2>2 DEF Compared, DiffsTypeOK
  <2> HIDE DEF w
  <2>5. Honest(v)'
    BY <2>1, <2>3, <2>4 DEF Honest, Compared
  <2> QED
    BY <2>2, <2>3, <2>5, RequestCompared
<1>7. ASSUME NEW v \in Viewer, StoreDiff(v) PROVE Compared'
  <2> DEFINE w == [view[v] EXCEPT !.step = "show"]
             diff == [local |-> view[v].local, remote |-> view[v].remote,
                      from |-> view[v].from, to |-> view[v].content, drift |-> view[v].drift]
  <2>1. /\ view \in [Viewer -> View] /\ view[v] \in View /\ entry \in Entry
        /\ view[v].step = "store" /\ Honest(v)
    BY <1>7 DEF StoreDiff, Compared, DiffsTypeOK
  <2>2. /\ view' = [view EXCEPT ![v] = w] /\ entry' = [entry EXCEPT !.diff = diff]
        /\ UNCHANGED <<disk, origin, mixed>>
    BY <1>7, <2>1 DEF StoreDiff
  <2>3. diff \in Diff
    BY <2>1 DEF Diff, Honest, View
  <2>4. /\ w \in View /\ w.step = "show" /\ w.local = view[v].local
        /\ w.remote = view[v].remote /\ w.content = view[v].content
        /\ w.from = view[v].from /\ w.drift = view[v].drift
    BY <2>1 DEF View
  <2>5. /\ entry' \in Entry /\ entry'.diff = diff /\ entry'.content = entry.content
        /\ entry'.remote = entry.remote
    BY <2>1, <2>2, <2>3 DEF Entry
  <2>6. ~diff.drift => diff.from = diff.local /\ diff.to = diff.remote
    BY <2>1 DEF Honest
  <2> HIDE DEF diff
  <2>7. view'[v] = w /\ \A u \in Viewer \ {v} : view'[u] = view[u]
    BY <2>1, <2>2
  <2> HIDE DEF w
  <2>8. \A u \in Viewer : Honest(u)'
    BY <2>1, <2>2, <2>4, <2>7 DEF Honest, Compared
  <2>9. view' \in [Viewer -> View]
    BY <2>1, <2>2, <2>4
  <2> QED
    BY <2>2, <2>5, <2>6, <2>8, <2>9 DEF Compared, DiffsTypeOK
<1>8. ASSUME NEW version \in Version, EditDisk(version) \/ Publish(version) PROVE Compared'
  BY <1>8, NoticedCompared DEF EditDisk, Publish, Compared, DiffsTypeOK
<1>9. ASSUME NEW kept \in {Nothing, entry.content}, Rescan(kept) PROVE Compared'
  <2>1. /\ view \in [Viewer -> View] /\ entry \in Entry /\ disk \in Version /\ mixed \in BOOLEAN
    BY DEF Compared, DiffsTypeOK
  <2>2. entry' \in Entry /\ mixed' \in BOOLEAN /\ UNCHANGED <<disk, origin>>
    BY <1>9, <2>1 DEF Rescan, Entry
  <2>3. entry'.diff = Nothing /\ (entry'.content # Nothing /\ ~mixed' => entry'.content = entry'.remote)
    BY <1>9, <2>1 DEF Rescan, Entry, Compared
  <2>4. ASSUME NEW v \in Viewer
        PROVE  view'[v] \in View /\ Honest(v)'
    <3>1. view'[v] = [view[v] EXCEPT !.live = view[v].step # "fetch"]
      BY <1>9 DEF Rescan
    <3>2. /\ view'[v] \in View /\ view'[v].drift = view[v].drift
          /\ view'[v].step = view[v].step /\ view'[v].local = view[v].local
          /\ view'[v].remote = view[v].remote /\ view'[v].content = view[v].content
          /\ view'[v].from = view[v].from
      BY <2>1, <3>1 DEF View
    <3> QED
      BY <2>2, <3>2 DEF Compared, Honest
  <2>5. view' \in [Viewer -> View]
    BY <1>9, <2>4 DEF Rescan
  <2> QED
    BY <2>1, <2>2, <2>3, <2>4, <2>5 DEF Compared, DiffsTypeOK
<1>10. CASE RefreshRemote
  <2>1. entry \in Entry /\ origin \in Version
    BY DEF Compared, DiffsTypeOK
  <2> DEFINE content == IF origin # entry.local THEN origin ELSE Nothing
  <2>2. /\ entry' = [entry EXCEPT !.remote = origin, !.content = content]
        /\ mixed' = FALSE /\ UNCHANGED <<disk, origin, view>>
    BY <1>10 DEF RefreshRemote
  <2>3. content \in Version \cup {Nothing} /\ (content # Nothing => content = origin)
    BY <2>1
  <2> HIDE DEF content
  <2>4. /\ entry' \in Entry /\ entry'.diff = entry.diff
        /\ entry'.content # Nothing => entry'.content = entry'.remote
    BY <2>1, <2>2, <2>3 DEF Entry
  <2>5. \A v \in Viewer : Honest(v)'
    BY <2>2 DEF Compared, Honest
  <2> QED
    BY <2>2, <2>4, <2>5 DEF Compared, DiffsTypeOK
<1>11. CASE InstallRemote
  <2>1. entry \in Entry /\ entry.content \in Version /\ origin \in Version
    BY <1>11 DEF InstallRemote, Compared, DiffsTypeOK, Entry
  <2>2. /\ entry' \in Entry /\ entry'.diff = Nothing /\ entry'.content = Nothing
        /\ disk' \in Version /\ origin' = origin /\ mixed' = FALSE
        /\ view' = Noticed(disk', origin')
    BY <1>11, <2>1 DEF InstallRemote, Entry, Noticed
  <2> QED
    BY <2>1, <2>2, NoticedCompared
<1> QED
  BY <1>1, <1>2, <1>3, <1>4, <1>5, <1>6, <1>7, <1>8, <1>9, <1>10, <1>11 DEF DiffsNext

------------------------------------------------------------------------------
(* The parts together: each invariant holds of its part, whichever moves.  *)

Invariant ==
    Judged /\ Witnessed /\ Restorable /\ Claimed /\ Faithful /\ Compared

LEMMA Started == Init => Invariant
  BY InitJudged, InitWitnessed, InitRestorable, InitClaimed, InitFaithful, InitCompared
     DEF Init, Invariant

\* A step of the whole is a step of every part, of all but one a stuttering one.
LEMMA PartsApart ==
    ASSUME [Next]_vars
    PROVE  /\ [PathsNext]_pathVars /\ [RisksNext]_riskVars
           /\ [InspectionNext]_inspectionVars /\ [ImportNext]_importVars
           /\ [TrackingNext]_trackingVars /\ [DiffsNext]_diffVars
  BY DEF Next, vars

LEMMA Kept == ASSUME Invariant, [Next]_vars PROVE Invariant'
  BY PartsApart, JudgedStep, WitnessedStep, RestorableStep, ClaimedStep, FaithfulStep,
     ComparedStep DEF Invariant

LEMMA InvariantHolds == Spec => []Invariant
  BY Started, Kept, PTL DEF Spec

\* The state of every part stays of its type in every behaviour of Support.
THEOREM TypeCorrect == Spec => []TypeOK
<1>1. Invariant => TypeOK
  BY DEF Invariant, Judged, Witnessed, Restorable, Claimed, Faithful, Compared, TypeOK
<1> QED
  BY <1>1, InvariantHolds, PTL

\* Whatever validations, reloads and invalidations overlap, the cache of template
\* paths says only what was so since it was last dropped (blueprint_validation.py).
THEOREM CacheIsFresh == Spec => []CacheFresh
<1>1. Invariant => CacheFresh
  BY DEF Invariant, Witnessed
<1> QED
  BY <1>1, InvariantHolds, PTL

\* A validation reports a template as missing only if it was missing at some time
\* while the validation ran (the forced second look of blueprint_validation.py).
THEOREM MissIsReal == Spec => []ReportedMissing
<1>1. Invariant => ReportedMissing
  BY DEF Invariant, Witnessed
<1> QED
  BY <1>1, InvariantHolds, PTL

\* An automatic update breaks no consumer that could be read when the check began,
\* still used the blueprint when the install was decided, behind the path lock and the
\* executor as it may commit, and passes the same by then
\* (_detect_risks_for_update, _handle_auto_update_step, async_install_blueprint).
THEOREM UpdatesAreSafe == Spec => SafeUpdate
<1>1. Invariant /\ [Next]_vars =>
        [AutoUpdateFile /\ old = installed /\ installed \in Schemas =>
            \A c \in present :
                captured[c] # Unused /\ uses[c] = captured[c] =>
                    Fits(uses[c], installed, candidate)]_riskVars
  BY SafeStep DEF Invariant
<1> QED
  BY <1>1, InvariantHolds, PTL DEF Spec, SafeUpdate

\* A risk for the input of a consumer is only found if that consumer would break
\* (_detect_breaking_changes).
THEOREM AlarmsAreReal == Spec => []RisksAreReal
<1>1. Judged => RisksAreReal
  BY RisksAssumption, SomethingDetected DEF Judged, RisksTypeOK, RisksAreReal
<1> QED
  BY <1>1, InvariantHolds, PTL DEF Invariant

\* Inspections leave the issue registry as others have made it, whatever else is
\* raised or deleted while one runs.
THEOREM RegistryKept == Spec => []RegistryUntouched
<1>1. Invariant => RegistryUntouched
  BY DEF Invariant, Restorable
<1> QED
  BY <1>1, InvariantHolds, PTL

\* An import replaces only an older version of what it imports, whichever imports
\* and scans overlap (async_import_blueprint).
THEOREM ImportsOwn == Spec => ImportsOwnFile
<1>1. Invariant /\ [Next]_vars =>
        [\A i \in Importer :
           /\ imports[i].step = "prepared"
           /\ target' # target
           /\ imports'[i] = NoImport
           /\ ~imports[i].edited
           => /\ target = NoFile \/ target.url = imports[i].url
              /\ target'.url = imports[i].url]_importVars
  BY PartsApart, OwnFileStep DEF Invariant
<1> QED
  BY <1>1, InvariantHolds, PTL DEF Spec, ImportsOwnFile

\* A scan lists what the user wanted when it began, after any sequence of options
\* forms and repairs that stop the tracking of one blueprint.
THEOREM TrackedAsChosen == Spec => TrackedAsWanted
<1>1. Invariant /\ [Next]_vars =>
        [ListFound => asked \cap steady \subseteq tracked' /\ tracked' \subseteq asked]_trackingVars
  BY ListedStep DEF Invariant
<1> QED
  BY <1>1, InvariantHolds, PTL DEF Spec, TrackedAsWanted

\* Release notes compare the installed version with the offered one, whatever
\* scan, refresh or install replaces the entry meanwhile (async_get_git_diff).
THEOREM NotesShowOffer == Spec => []ShowsOffered
<1>1. Compared => ShowsOffered
  BY DEF Compared, Honest, ShowsOffered
<1> QED
  BY <1>1, InvariantHolds, PTL DEF Invariant
==============================================================================
