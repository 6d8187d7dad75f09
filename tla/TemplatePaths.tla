----------------------------- MODULE TemplatePaths -----------------------------
(***************************************************************************)
(* Does the custom template that a blueprint imports exist?  Validations   *)
(* ask for the available paths: those of Home Assistant's loader if it has *)
(* any, else a cached scan of the disk.  The cache is filled behind a lock *)
(* by an executor job, and dropped with no lock by every scan, every       *)
(* refresh and every call of a reload service; a generation counter keeps  *)
(* an overtaken job from filling it.  A validation that misses a template  *)
(* is repeated with fresh paths.                                           *)
(*                                                                         *)
(* One counter value matters: that of the job in progress.  `overtaken'    *)
(* says that it is no longer the current one.                              *)
(***************************************************************************)
EXTENDS FiniteSets

CONSTANTS
    Template,   \* custom templates, by relative path
    Imported,   \* the one that the validated blueprints import
    Validator,  \* tasks that may be validating at the same time
    NoPaths     \* the cache is empty; no path set; nobody

ASSUME TemplatesAssumption ==
    /\ Imported \in Template
    /\ NoPaths \notin Validator /\ \A dir \in SUBSET Template : NoPaths # dir

VARIABLES
    folder,     \* templates on disk
    loaded,     \* sources of Home Assistant's loader
    cache,      \* _custom_template_paths_cache
    scanner,    \* the task that holds _custom_template_paths_lock
    overtaken,  \* the generation has changed since its job began
    scanned,    \* what its job has read
    validation, \* progress of each validation
    seen,       \* history: templates that were available since the cache was dropped
    unseen,     \* history: templates that were missing since the cache was dropped
    missed      \* history: validations during which the imported template was missing

pathVars == <<folder, loaded, cache, scanner, overtaken, scanned, validation, seen, unseen, missed>>

Resting == [step |-> "idle", force |-> FALSE]

\* A template may be on disk and not yet loaded, or loaded and gone from disk:
\* then it is both available and missing.
Available(dir, sources) == dir \cup sources
Missing(dir, sources) == {x \in Template : x \notin dir \/ (sources # {} /\ x \notin sources)}

PathsInit ==
    /\ folder = {}
    /\ loaded = {}
    /\ cache = NoPaths
    /\ scanner = NoPaths
    /\ overtaken = FALSE
    /\ scanned = NoPaths
    /\ validation = [v \in Validator |-> Resting]
    /\ seen = Available(folder, loaded)
    /\ unseen = Missing(folder, loaded)
    /\ missed = {}

------------------------------------------------------------------------------
(* invalidate_custom_template_paths_cache, and what happens outside.       *)

Dropped ==
    /\ cache' = NoPaths
    /\ overtaken' = (scanner # NoPaths)
    /\ seen' = Available(folder, loaded)
    /\ unseen' = Missing(folder, loaded)

\* A scan, a refresh or a call of reload_custom_templates begins.
Invalidate ==
    /\ Dropped
    /\ UNCHANGED <<folder, loaded, scanner, scanned, validation, missed>>

Changed(dir, sources) ==
    /\ folder' = dir
    /\ loaded' = sources
    /\ seen' = seen \cup Available(dir, sources)
    /\ unseen' = unseen \cup Missing(dir, sources)
    /\ missed' = IF Imported \in Missing(dir, sources)
                   THEN {v \in Validator : validation[v].step # "idle"}
                   ELSE missed
    /\ UNCHANGED <<cache, scanner, overtaken, scanned, validation>>

\* The user writes and removes templates; Home Assistant loads them.
WriteTemplates(dir) == Changed(dir, loaded)
LoadTemplates == Changed(folder, folder)

------------------------------------------------------------------------------
(* _async_validate_with_fresh_template_fallback.                           *)

\* async_get_git_diff goes straight for fresh paths.
StartValidation(v, force) ==
    /\ validation[v] = Resting
    /\ validation' = [validation EXCEPT ![v] = [step |-> "ask", force |-> force]]
    /\ missed' = IF Imported \in Missing(folder, loaded) THEN missed \cup {v} ELSE missed \ {v}
    /\ UNCHANGED <<folder, loaded, cache, scanner, overtaken, scanned, seen, unseen>>

\* Mutation: what the cache does not have is reported missing.
MeetUnrepeated(v, paths) ==
    validation' = [validation EXCEPT ![v].step =
                      IF paths = NoPaths \/ Imported \in paths THEN "fine" ELSE "missing"]

\* The validation with these paths.  A miss is repeated with fresh ones; without
\* any paths the import is taken for good.
Meet(v, paths) ==
    validation' = [validation EXCEPT ![v] =
        IF paths = NoPaths \/ Imported \in paths THEN [@ EXCEPT !.step = "fine"]
        ELSE IF @.force THEN [@ EXCEPT !.step = "missing"]
        ELSE [step |-> "ask", force |-> TRUE]]

\* async_get_custom_template_paths up to its lock.
AskLoader(v) ==
    /\ validation[v].step = "ask"
    /\ loaded # {}
    /\ cache' = loaded
    /\ Meet(v, loaded)
    /\ UNCHANGED <<folder, loaded, scanner, overtaken, scanned, seen, unseen, missed>>

AskCache(v) ==
    /\ validation[v].step = "ask"
    /\ loaded = {} /\ cache # NoPaths /\ ~validation[v].force
    /\ Meet(v, cache)
    /\ UNCHANGED <<folder, loaded, cache, scanner, overtaken, scanned, seen, unseen, missed>>

AskLock(v) ==
    /\ validation[v].step = "ask"
    /\ loaded = {} /\ (cache = NoPaths \/ validation[v].force)
    /\ validation' = [validation EXCEPT ![v].step = "lock"]
    /\ UNCHANGED <<folder, loaded, cache, scanner, overtaken, scanned, seen, unseen, missed>>

\* Somebody has filled the cache meanwhile ...
LockedCache(v) ==
    /\ validation[v].step = "lock" /\ scanner = NoPaths
    /\ cache # NoPaths /\ ~validation[v].force
    /\ Meet(v, cache)
    /\ UNCHANGED <<folder, loaded, cache, scanner, overtaken, scanned, seen, unseen, missed>>

\* ... or the loader has sources by now (async_extract_custom_template_paths) ...
LockedLoader(v) ==
    /\ validation[v].step = "lock" /\ scanner = NoPaths
    /\ cache = NoPaths \/ validation[v].force
    /\ loaded # {}
    /\ cache' = loaded
    /\ Meet(v, loaded)
    /\ UNCHANGED <<folder, loaded, scanner, overtaken, scanned, seen, unseen, missed>>

\* ... or a job is started.
LockedScan(v) ==
    /\ validation[v].step = "lock" /\ scanner = NoPaths
    /\ cache = NoPaths \/ validation[v].force
    /\ loaded = {}
    /\ scanner' = v
    /\ validation' = [validation EXCEPT ![v].step = "scan"]
    /\ IF validation[v].force
         THEN /\ cache' = NoPaths
              /\ seen' = Available(folder, loaded)
              /\ unseen' = Missing(folder, loaded)
         ELSE UNCHANGED <<cache, seen, unseen>>
    /\ UNCHANGED <<folder, loaded, overtaken, scanned, missed>>

\* It reads the disk at some time.
ScanFolder(v) ==
    /\ validation[v].step = "scan"
    /\ scanned' = folder
    /\ validation' = [validation EXCEPT ![v].step = "scanned"]
    /\ UNCHANGED <<folder, loaded, cache, scanner, overtaken, seen, unseen, missed>>

\* Mutation: the result is kept although the cache was dropped meanwhile.
ScanDoneAnyway(v) ==
    /\ validation[v].step = "scanned"
    /\ cache' = scanned
    /\ Meet(v, scanned)
    /\ scanner' = NoPaths /\ scanned' = NoPaths /\ overtaken' = FALSE
    /\ UNCHANGED <<folder, loaded, seen, unseen, missed>>

\* Back on the event loop.
ScanDone(v) ==
    /\ validation[v].step = "scanned"
    /\ IF ~overtaken
         THEN cache' = scanned /\ Meet(v, scanned)
         ELSE /\ Meet(v, IF cache # NoPaths THEN cache ELSE scanned)
              /\ UNCHANGED cache
    /\ scanner' = NoPaths /\ scanned' = NoPaths /\ overtaken' = FALSE
    /\ UNCHANGED <<folder, loaded, seen, unseen, missed>>

\* An OSError: without paths the import is taken for good; the retry of a miss
\* leaves the first answer, which nothing has confirmed.
ScanError(v) ==
    /\ validation[v].step = "scan"
    /\ validation' = [validation EXCEPT ![v].step =
                       IF validation[v].force THEN "unknown" ELSE "fine"]
    /\ scanner' = NoPaths /\ overtaken' = FALSE
    /\ UNCHANGED <<folder, loaded, cache, scanned, seen, unseen, missed>>

EndValidation(v) ==
    /\ validation[v].step \in {"fine", "missing", "unknown"}
    /\ validation' = [validation EXCEPT ![v] = Resting]
    /\ UNCHANGED <<folder, loaded, cache, scanner, overtaken, scanned, seen, unseen, missed>>

PathsNext ==
    \/ Invalidate
    \/ \E dir \in SUBSET Template : WriteTemplates(dir)
    \/ LoadTemplates
    \/ \E v \in Validator :
          \/ \E force \in BOOLEAN : StartValidation(v, force)
          \/ AskLoader(v) \/ AskCache(v) \/ AskLock(v)
          \/ LockedCache(v) \/ LockedLoader(v) \/ LockedScan(v)
          \/ ScanFolder(v) \/ ScanDone(v) \/ ScanError(v)
          \/ EndValidation(v)

------------------------------------------------------------------------------
(* Properties.                                                             *)

PathsTypeOK ==
    /\ folder \subseteq Template /\ loaded \subseteq Template
    /\ cache \in (SUBSET Template) \cup {NoPaths}
    /\ scanner \in Validator \cup {NoPaths}
    /\ overtaken => scanner # NoPaths
    /\ scanned \in (SUBSET Template) \cup {NoPaths}
    /\ validation \in [Validator -> [step: {"idle", "ask", "lock", "scan", "scanned", "fine",
                                            "missing", "unknown"},
                                     force: BOOLEAN]]
    /\ \A v \in Validator :
          /\ (validation[v].step \in {"scan", "scanned"}) <=> (scanner = v)
          /\ validation[v].step = "scanned" => scanned # NoPaths
    /\ seen \subseteq Template /\ unseen \subseteq Template
    /\ missed \subseteq Validator

\* Whatever jobs, reloads and invalidations overlapped, the cache says nothing
\* of a template that was not so at some time since the cache was last dropped.
CacheFresh ==
    cache # NoPaths => cache \subseteq seen /\ Template \ cache \subseteq unseen

\* A validation reports a missing template only if it was missing at some time
\* during that validation, from the disk or from the loader, and never because
\* another task has cached an older state ("retrying with fresh paths").  A retry
\* that cannot read the disk confirms nothing and is left out.
ReportedMissing == \A v \in Validator : validation[v].step = "missing" => v \in missed
==============================================================================
