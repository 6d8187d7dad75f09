# Blueprints Updater: formal models

This directory holds TLA+ models of the Home Assistant integration in
`custom_components/blueprints_updater` (paths below are relative to it), the
TLC configurations that check them, and TLAPS proofs.

The integration scans the blueprint files of a Home Assistant installation,
looks for newer versions at the `source_url` of each, and installs them: on
request, or automatically if the new version passes a compatibility check. It
runs as coroutines on one event loop plus executor threads for file work; all
state is in one coordinator object, in the blueprint files with their numbered
backups, and in one metadata file.

## 1. Inventory

| component | state | operations | hard part |
|---|---|---|---|
| **File store** `file_store.py`, `coordinator.py:3439-3548, 3928-4131` | the file, `.bak.1 ..`, one `asyncio.Lock` per path | install, restore, rotate, delete | threads outlive their coroutine; errors and crashes in a rotation; outside writers |
| **Reload reconciliation** `coordinator.py:2650-3034` | `_pending_reload_domains`, its copy in the store, `_reload_lock` | reconcile, retry, reload | several tasks owe reloads; services missing or failing; cancellation between commit and report |
| **Metadata store** `coordinator.py:2440-2642` | `_persisted_metadata`, the store file | save, pin, unpin, dismiss, prune | overlapping saves, each with a snapshot taken before an await |
| **Local scan and merge** `coordinator.py:1638-2056` | `data`, `_refresh_generation` | scan, merge, prune | entries replaced while others write to them |
| **Background refresh** `coordinator.py:2280-2437` | `_background_task`, `_refresh_lock`, queue | start, replace, cancel, work | generations, ownership of results, cancellation |
| **Update decision** `coordinator.py:2058-2278, 5230-5770` | fields of one entry | content processing, 304, ghost updates | agreement of hash, pin and stored content |
| **Automatic update** `coordinator.py:5773-6010` | entry, `updated_domains`, blocked lists | install or block | results that arrive after a newer scan |
| **Post-update guard** `coordinator.py:6900-7568` | recorded versions, issues, dismissals | check after an update of Home Assistant | partial inspection, timeouts, entries that change meanwhile |
| **Repair flows** `repairs.py` | flow state, issues | delete, patch, fork, roll back | several steps with rollback, cancelled in the middle |
| **Fetching** `coordinator.py:6020-6520`, `network.py` | pacing reservations, hostname cache | fetch, retry, redirect | spacing of concurrent requests |
| **Validation** `blueprint_validation.py`, `coordinator.py:1407-1530` | cache of template paths, patched issue registry | analysis of YAML and templates, inspection | caches and patches shared by overlapping validations |
| **Update risks** `coordinator.py:4200-4800` | none | compare schemas and consumers | everything may change between its awaits |
| **Import** `coordinator.py:3205-3390` | none of its own | `import_blueprint` | decides from a list, installs after more awaits |
| **Release notes** `update.py`, `coordinator.py:4880-5230` | `_cached_git_diff` of an entry | differences for an update | entry, file and source change meanwhile |
| **Providers** `providers.py` | none | URL and response formats | pure string processing |
| **Entities and setup** `update.py`, `__init__.py`, `config_flow.py` | registrations, options | services, `update_all`, filter and selection | forms and repairs write the same options |

How they interact. Setup creates the coordinator, which loads the metadata
store and scans. Every scan replaces `data`, raises the generation and starts a
background refresh, whose workers fetch, decide, and install through the file
store; then domains are reloaded, the metadata is saved and entities are
notified. Entities, services and repair flows call install, restore, fetch, pin
and delete on the same coordinator at any time. They share `data`,
`_persisted_metadata`, `_pending_reload_domains`, the locks and the files.

What correctness means, per component:

- file store: a file is only replaced if it is the one the caller expected, also
  where mutations of one path overlap; it was backed up before; no other backup
  is lost wherever a rotation stops; every call ends;
- reload: a domain whose files changed is reloaded in the end, and until then
  somebody owes the reload, across cancellation, failure and restart;
- metadata: an acknowledged decision of the user is stored, and what is shown
  is the last decision;
- refresh: a result is only applied to the entry it was computed for, and the
  newest scan is the one that gets refreshed;
- decision: an update is offered if and only if the remote content is valid,
  differs, and is not pinned away;
- guard: a Home Assistant version is only recorded as checked when every
  blueprint that was found was inspected;
- repair flows: once a flow is over, entry and file agree on the source, at once or,
  if it was cancelled or failed late, from the next scan on; a pinned fix is not
  overwritten;
- fetching: requests to a host stay apart, no verdict outlives the refresh that
  wants it gone, every fetch ends;
- validation: what is cached or captured for one validation never makes another
  report what was not so;
- update risks: an update that is judged safe breaks no consumer that was there when
  it was judged and when it was decided;
- import: it replaces nothing but an older version of what it imports;
- tracking: what a scan lists is what the user chose;
- release notes: the difference shown is the one to the version on offer.

## 2. Modules

| part | module | checked through | theorems |
|---|---|---|---|
| file store | `FileStore`, abstract: `RevisionedFile` | `MCFileStore` | `FileStoreProofs` |
| reload reconciliation | `ReloadReconcile`, abstract: `ReloadLedger` | `MCReloadReconcile` | `ReloadReconcileProofs` |
| metadata store | `MetadataStore`, abstract: `DecisionRegister` | `MCMetadataStore` | `MetadataStoreProofs` |
| scan, refresh, decision, install | `RefreshCycle` | `MCRefreshCycle` | `RefreshCycleProofs` |
| post-update guard | `PostUpdateGuard` | `MCPostUpdateGuard` | `PostUpdateGuardProofs` |
| repair flows | `RepairFlows` | `MCRepairFlows` | `RepairFlowsProofs` |
| fetching | `Fetching` | itself | `FetchingProofs` |
| smaller parts | `TemplatePaths`, `UpdateRisks`, `Inspection`, `Import`, `Tracking`, `Diffs`, composed by `Support` | `MCSupport` | `SupportProofs` |

Every action is the code between two awaits, or one file-system operation of a
thread; anything can happen in between. What is checked in one module is assumed
in its simplest form by the others: the compare-and-swap of `RevisionedFile` is the
file transaction of `RefreshCycle`, `RepairFlows` and `Import`; a save is one step
except in `MetadataStore` and `PostUpdateGuard`.

`FileStore` is one blueprint path, its backups and a fixed set of calls.
Variables: `target`, `backup` (the disk), `lock`, and per call `pc`, `pre` (the
`FileRevisionPrecondition`), `ident` (the identity of the first verification),
`temp` and `copy` (temporary files), `slot` (loop variable of the rotation).
Every action is one file-system operation of `install` or `rotate_backups`, or
one segment of the calling coroutine; anything can happen in between. `Cancel`
is a cancelled task: the lock goes at once, the thread stays. A `Commit` that links
the temporary file may still end in an error, when its second name cannot be removed.
`DeleteTarget` and `DeleteBackups` are `remove_blueprint_and_backups`, which
`repairs.py` runs without the lock, and which goes on over whatever it cannot
remove. File contents stand for their own hashes. `(device, inode,
size, mtime)` is a stamp that each write renews. `raced` is a history variable:
the calls whose file changed after their second verification, a window that
`os.replace` leaves open. `prior` holds the backups when the last rotation began.

`RevisionedFile` is what callers may assume of the file store: one register
replaced by compare-and-swap, each call answered once. It knows no locks,
threads or backups. `FileStore` implements it behind the lock
(`ImplementsRevisionedFile`, a refinement mapping by `INSTANCE ... WITH`).

`ReloadReconcile` goes from a committed file to the reload of its domain. `stale`
is the ground truth (domains with a file Home Assistant has not read again);
`pending`, `stored`, the locks and `owes` (`updated_domains`, or the argument of
the coming reconcile) are the code's. Actions are the code between two awaits of
`async_reconcile_reload_services`, of the calls that commit files, and of
`_async_background_refresh` with its workers, `Replace` being the newer scan that
cancels it. The reload service is external: `async_reload_services` calls it
without `blocking=True`, so `Request` only starts it, and `ServiceReads` or
`ServiceFails` happen later. `announced` is a history variable.

`ReloadLedger` is what the rest may assume of it: a change is entered in the step that
makes it, only a reading of the files strikes it out, and part of the ledger is kept
through cancellations (`Forget`) and a new coordinator (`Restart`). The mapping is
`Owed` (pending, being reloaded, or owed by a live task) and `Kept` (pending and
stored, or being reloaded). `Next` of the ledger covers behaviours in which no task is
stopped (`ImplementsLedger`), `Loss` the others (`ImplementsLossyLedger`).

`MetadataStore` is the life of one user decision per blueprint (pin, or dismissed
warning) in its three places: `data`, `persisted`, `store`. `Save` takes the
snapshot, `Submit` enters Home Assistant's `Store.async_save` (external: a write
lock with a line of waiters, where a later payload replaces one not yet taken),
`Written` and `Covered` replace the persisted metadata by the snapshot.
`ScanFiles`, `CheckFiles`, `ScanEnds` are the three segments of a scan. A scan that
finds another `source_url` drops the metadata of the blueprint (`dropped`), while its
entry may keep the fields; the decision is then `void`. The save that such a scan
starts, or one that prunes, is `Forced`.

`DecisionRegister` is what users may assume of it as long as saves do not overlap: one
copy of a flag in memory, one that outlives restarts, decisions that are `open`
until their call has returned, which a restart may lose, and blueprints that are
`void`, of which nothing is promised until the next decision. Entries, scans, prunes and
the saves of others are not seen at all (`BehavesAsRegister`).

`RefreshCycle` is one blueprint between its file, its entry in `data` and its source.
Contents are the versions the source publishes and stand for their hashes. An ETag is
the version it belongs to; a 200 may come without one (`Untagged`), and then the code
keeps that of the request, or of the entry, beside the new hash (`coordinator.py:5992`,
`3680`). `entry` has the fields that decide about updates (`local` for `local_hash` and
`local_file_hash`, `remote` for `remote_hash`, `body` for `remote_content`, `etag`,
`offer` for `updatable`); `newest` is the refresh of the current generation, and
`Current` the test of a `RefreshWorkItem`. `ScanReads` and `ScanEnds` are the two ends
of a scan; `UpdateInPlace` has the segments of `_async_update_blueprint_in_place` (the
source answers at `Serve`, the answer is used later), `Transaction` those of an install
or a restore under the path lock, `CallStep` the update entity, `update_all` and the
preview of a difference (`async_fetch_diff_content`), which puts the content that the
source serves by now into the entry and leaves hash and ETag as they were. The file
transaction itself is one `Commit` that compares and swaps, as `RevisionedFile` allows.
A scan replaces the dictionary of the entry: `seen` is what a call still holds of the
old one. `orphans` are installs whose worker was cancelled while its thread ran. The
field `preview` of an entry is history: its content came from a preview.

`PostUpdateGuard` follows one run of the guard at a time, behind `_post_ha_update_lock`
with its `queue` of waiters, from the comparison of versions (`Compare`) over the
listing of the files (`Scan`), one `Pick` and `Inspect` per blueprint, to the end of the
issues of removed files (`Obsolete`), the record in memory (`Record`) and in the store
(`Save`). `Leave` is the release of the lock on every way out. What lies `Aside`, behind
a link or in a directory that cannot be listed, a scan misses without a word. Around it
files are edited, users acknowledge an issue or fix the blueprint, the option is
switched, the entry is unloaded and set up, and the process restarts with the same or
another version of Home Assistant. `inspected`, `fresh`, `changed` and `acked` are
history variables.

`RepairFlows` is one blueprint with its entry, its metadata in memory and on disk, one
open flow and the work of the newest refresh. `Confirm`, `Prepare`, `Install`,
`InstallFails`, `Finalize` and the three `Finish` actions are the segments of
`_async_execute_auto_fix`, `_async_execute_fork_switch` and `_async_apply_new_url`;
`TakeBack` is their rollback. `FailsLate` is an exception after the file was replaced,
which the same handler takes for a failed install; `CancelFlow` takes nothing back and
may leave a thread behind, whose install ends in `OrphanEnds`. The refresh is cut where
a flow can come between (`Answer`, `Judge`, `Validate`, `AutoInstall`, `AutoFinalize`).
`fixed`, `moved` and `strayed` (a flow was cancelled or failed late, and no scan was
since) are history variables.

`Fetching` has the pacing of requests (`Reserve`, `Paced`), the check of every host
(`CheckCached`, `TakeLookup`, `Lookup` under `_safe_hostname_lock`), redirects
(`Redirected`), retries (`Fails`, `Retry`), cancellation, and the refresh that clears
the verdicts. Time is relative to now, so that nothing grows: `Tick` is half a second.

`Support` composes six parts that share no state, each in behaviours of its own:
`part` says which one moves. Their product would tell nothing more and be too large.

- `TemplatePaths`: which custom templates exist, from the loader or from a cache that
  an executor job fills behind a lock and that is dropped without it.
- `UpdateRisks`: schemas and consumers of `async_detect_risks_for_update`, with
  the awaits between reading the consumers, the file and the validators, those between
  the decision (`DecideInstall`) and the commit, and the direct fetch whose path has
  left `data`, which asks nobody (`NobodyAsked`).
- `Inspection`: the patched issue registry of
  `async_validate_local_blueprint_compatibility`, and its restoration.
- `Import`: `import_blueprint` from the fetched content to the install.
- `Tracking`: filter mode and selection, in the options form, the repair and the scan.
- `Diffs`: `async_get_git_diff`, its cache in the entry and the fetch it may start.

The `MC` modules give TLC initial values, tables and symmetry. Every task (`Txn`,
`Call`, `Refresh`, `Saver`, `Fetcher`, ...) is a model value; symmetry is used where
tasks are interchangeable, never with liveness. Operators whose comment begins with
*Mutation* are plausible bugs, used to test that each property can fail; no
specification contains them.

## 3. Runs

| run | checks | instance |
|---|---|---|
| `FileStore_locked` | `NoLostInstall`, `BackupBeforeReplace`, `NewestSurvive`, `ImplementsRevisionedFile`: with the lock as intended | 2 calls (each install or restore), 3 backup numbers of which 2 are within the limit, 1 outside write, 1 crash |
| `FileStore_unlocked` | `CommitIsExpected` and `EveryCallEnds` with cancelled coroutines and the unlocked deletion | 2 calls, 1 backup |
| `ReloadReconcile_complete` | `StaleIsOwed`, `ImplementsLedger`, `StaleIsReloaded` without cancellation | 1 call, 1 refresh, 2 blueprints of 2 domains |
| `ReloadReconcile_interrupted` | `AnnouncedKept`, `ImplementsLossyLedger` with replaced refreshes, cancelled calls, orphaned threads, a reloaded entry | 1 call, 2 refreshes, 2 domains, 1 blueprint with an update |
| `MetadataStore_decisions` | `DecisionStored`, `DecisionShown`, `BehavesAsRegister` while saves do not overlap, `RestAgrees`, `PinEndsStored` in all behaviours | 2 saving tasks; 2 blueprints in behaviours with serial saves, 1 in the others |
| `RefreshCycle_restores` | `NotModifiedIsKnown`, `UpdateIsFound` with scans, refreshes and restores | 2 refreshes, 1 call, 2 versions, answers with and without ETag |
| `RefreshCycle_updates` | `AutoNeverDowngrades`, `UserInstallsShown` while users fetch, look at differences and install | 2 refreshes, 1 call, 3 versions |
| `PostUpdateGuard_checks` | `RecordedMeansInspected`, `IssuesAgree`, `NothingHidden` | 2 blueprints of which 1 lies aside, 2 contents, 2 versions of Home Assistant, 1 edit; startup and service runs |
| `RepairFlows_repairs` | `SourceAgrees`, `PinStored`, `PinHonoured` | 3 texts, 2 URLs, 1 write or publication, any number of flows, scans, refreshes and restarts; 1 cancelled flow or late failure, if the first text has no candidate |
| `RepairFlows_withdrawn` | `UrlInFile` fails: section 5 | the same, without losses |
| `Fetching_requests` | `FetchTypeOK`, `SlotsApart`, `VerdictFresh`, `Advances`, `FetchEnds` | 2 tasks, 2 hosts of which blueprints name 1, intervals of 1 to 2 ticks, 2 requests per try, 2 tries |
| `Support_parts` | `CacheFresh`, `ReportedMissing`, `SafeUpdate`, `RisksAreReal`, `RegistryUntouched`, `ImportsOwnFile`, `TrackedAsWanted`, `ShowsOffered` | 2 templates and 2 validators; 4 schemas and 1 consumer; 2 inspectors and 2 issues; 2 URLs and 2 importers; 2 blueprints; 3 versions and 1 viewer |

The type invariants are theorems (`TypeCorrect` in each proof module), so the runs check
only that of `Fetching`: its bounds are what makes `Advances` come to an end. The
two specifications of the file store differ in what may be interrupted: what
`SpecUnlocked` satisfies, `Spec` does.

Bounds. Two tasks of a kind are enough for every conflict over one path, lock or cache:
locks, preconditions and generations are pairwise. With `Slots` = 3 and `Limit` = 2 a
rotation drops, shifts and removes stale backups, and the contents of the backups are
distinct, so a lost one is seen. `EditLimit`, `CrashLimit`, `MaxEdits` and `MaxEvents`
bound the environment; nothing else is counted, so that the runs are exhaustive without
bounds on how often a flow, a scan, a refresh, a save or a restart happens. In
`ReloadReconcile` two refreshes are the most that are alive at once in a way that
differs (a running one and its replacement). In `RefreshCycle` two versions make every
disagreement of ETag, hash and source possible, and an older version over a newer one
takes three, since an update is never what the scan has seen. An answer without ETag
matters where ETags are compared, in the first of its runs; `Untagged` is `FALSE` in the
other one, whose properties speak of contents and hashes alone (the theorems hold with
either). In `PostUpdateGuard` the version of the integration is constant in the run, and
the same properties also hold with two of them. In `RepairFlows` the three texts are a
deprecated one, its modernized candidate and a later deprecated one of the author; the
event is either of them lost, or the later one published, or the source withdrawn, or
the fork modernized. The blueprint begins with the first text or with the last, which
has no candidate. Losses (`MaxLosses`, cancelled flows and late failures) are followed
in the behaviours that begin with the last text (the constraint `LossesWithoutFixes`):
there forks are what moves the source, and no fix is pinned. With losses `PinStored` and
`PinHonoured` are proved, for any number of them, and so is `SourceAgrees`. In
`Fetching` a sleep lasts up to two intervals and a backoff, which covers two
reservations in a row with both ends of the interval; `Horizon` and `VerdictLimit` say
how often requests start and verdicts are cleared ahead of time.

`CHECK_DEADLOCK FALSE` stands where a system really comes to rest: the runs of
`RepairFlows`, in which a blueprint that is gone leaves nothing to do.

Fairness. The event loop runs every ready coroutine and the executor every job
that was submitted, so the steps of a task are weakly fair. `asyncio.Lock` serves
waiters in order: with each call made once, weak fairness suffices in
`FileStore`; in `ReloadReconcile`, where the lock is taken again and again,
entering it is strongly fair. A registered reload service that is looked for
again and again is found some day (strong fairness of `Request`); without that
assumption a domain may stay pending for ever, which the code accepts. In
`MetadataStore`, refreshes save repeatedly (strong fairness of `Save`). In
`RefreshCycle` every started step and every scan comes in the end (timeouts end
requests), and `UpdateIsFound` is only stated of behaviours in which users stop
and scans, which are hours apart, do not interrupt refreshes for ever (`Calm`). In
`Fetching` time passes (weak fairness of `Tick`), and the steps of a fetch are
strongly fair, since the lock of the verdicts is served in order while requests and
lookups end by their timeouts.

## 4. Proofs

`FileStoreProofs` proves, for any number of calls, contents, backups, outside
writes and crashes, from the named assumptions of `FileStore`:

| theorem | of | states |
|---|---|---|
| `TypeCorrect` | `SpecUnlocked` | `TypeOK`, and what a call carries through its segments |
| `CompareAndSwap` | `SpecUnlocked` | `CommitIsExpected` |
| `InstallsKept` | `Spec` | `NoLostInstall` |
| `BackedUp` | `Spec` | `BackupBeforeReplace` |
| `BackupsSurvive` | `Spec` | `NewestSurvive` |
| `Refinement` | `Spec` | `ImplementsRevisionedFile` |

The invariants, in the order in which they rest on each other:

- `Carried`: a content to write exists from the moment it is needed, the temporary
  file from its write to the commit, and the loop variable stays below the limit.
  Without it not even `TypeOK` is inductive (`ShiftBackup` writes `slot + 1`).
- `LockInv`: whoever is in a segment of a transaction holds the lock. It is what
  `Cancel` breaks, and the reason why what follows is proved of `Spec` only.
- `Stamped`: no stamp is newer than the clock, so a write always changes the
  identity, and a file with an old identity has its old content.
- `Undisturbed`: since the first verification of the lock holder, no other call
  wrote the file.
- `Preserved`: the backups so far in a rotation, position by position against
  `prior` and the loop variable; `Shifting` is its consequence after a rotation
  that was left.
- `Answered`: a call that installed is past its commit, so it answers once.

`Safe` is the conjunction of the first four and `TypeOK`; the backup theorems add
`Preserved` or `Shifting`. The refinement has one lemma per step of the register
(`RegisterStep`): `Commit` is `Swap`, `Edit` is `Outside`, every way to fail is
`Refuse`, `Call` and `CapturePrecondition` are `Prepare`, all else stutters.

`ReloadReconcileProofs` does so for any number of calls, refreshes, blueprints and
domains, from the named assumptions of `ReloadReconcile`:

| theorem | of | states |
|---|---|---|
| `TypeCorrect` | `SpecInterrupted` | `TypeOK` |
| `Announced` | `SpecInterrupted` | `AnnouncedKept` |
| `StaleOwed` | `Spec` | `StaleIsOwed` |
| `Refinement` | `Spec` | `ImplementsLedger` |
| `LossyRefinement` | `SpecInterrupted` | `ImplementsLossyLedger` |

- `Remembered`: what was announced is pending *and* stored, or being reloaded.
  `AnnouncedKept` asks for less, but a reload of the entry puts the stored domains in
  the place of the pending ones, so both have to cover what was announced.
- `Refreshing`: workers are active only while their refresh waits for them, and
  outside of the segments that lead to a reconcile a refresh owes nothing.
  Otherwise its next start, which clears what it owes, could lose a domain.
- `Holding`: only the holder of the lock of reconciles reloads, and what it is going to
  reload is pending. With it, whatever another task strikes out is what was read.

`Sound` is `Refreshing`, `Holding` and `TypeOK`; it survives cancellations too, since a
cancelled refresh is no longer the current one. The refinements map each action:
commits are `Change` (those of orphaned threads `Unseen`), an announcement is `Keep`,
`ServiceReads` is `Read`, every other step leaves the ledger alone or keeps more,
`Replace`, `CancelCall` and what they lead to are `Forget`, `ReloadEntry` is `Restart`.
`StaleOwed` is a corollary, of `Spec` only: `Unseen` and `Forget` are what breaks it.

`RefreshCycleProofs`, for any number of refreshes, calls and versions, from the
named assumptions of `RefreshCycle`:

| theorem | of | states |
|---|---|---|
| `TypeCorrect` | `Spec` | `TypeOK` |
| `NeverDowngrades` | `Spec` | `AutoNeverDowngrades` |
| `InstallsShown` | `Spec` | `UserInstallsShown` |
| `ConfirmedIsKnown` | `Spec`, if `OnlyRestores` | `NotModifiedIsKnown` |

- `Provenance`: whatever a task carries has been published. From `decide` to
  `finish` it carries a content, without which `TypeOK` is not inductive. A refresh
  remembers a file that was scanned before the source answered, so that what it
  brings is not older; the same holds of the threads it leaves behind. `Move`,
  `LeaveSound`, `AskSound` and `EnterSound` reduce the actions to the one task that
  moves; scans and versions have lemmas of their own.
- `BodyShown`: the content that an entry holds is that of the hash it shows, through
  scans, late answers, failed requests and failed installs, unless a preview has
  put it there. The update entity installs the one and names the other as the latest
  version.
- `Matching`: the ETag of the entry is not newer than its hash (`Trailing`), however
  many answers had none; a worker asks with an ETag that is not newer than the hash it
  would confirm, and leaves none that is newer than what it brings (`Confirmable`); no
  other worker runs (`Alone`), the content on offer is that of the known hash (so that a
  scan changes neither), and calls restore. A 304 says that the source has the version
  of the ETag; the hash lies between the two, so it is this version. The premise
  `OnlyRestores` is needed: section 5.

`MetadataStoreProofs`, for any number of blueprints and saving tasks:

| theorem | of | states |
|---|---|---|
| `TypeCorrect` | `Spec` | `TypeOK` |
| `DecisionIsStored` | `Spec` | `DecisionStored` |
| `DecisionIsShown` | `Spec` | `DecisionShown` |
| `Refinement` | `Spec` | `BehavesAsRegister` |
| `RestIsAgreement` | `Spec` | `RestAgrees` |

- `Typed` adds to `TypeOK` the line before the write lock (`Ordered`): each writer
  stands in it once, and a payload waits while somebody is in line.
- `Agreed`, while saves do not overlap: at most one save is in progress (`Alone`), and
  for each blueprint on disk whose decision stands (`Standing`: no scan has dropped its
  metadata since) the flag in memory is that of the entry, of what the save
  carries from the snapshot to the disk, of the store unless a call is open, and of the
  last decision unless a restart cut it short (`Carried`). The refinement needs the
  memory in that role, not the decision: what is lost in a restart was never decided.
  A pin is `Decide`, `Written` is `Persist`, a scan that drops metadata is `Renounce`,
  and every other step of a save or a scan stutters.
- `Settling`, however saves overlap: what waits is the snapshot of the last in line, or
  else what is being written, or else what is in the store. Since each writer leaves its
  own snapshot in memory when it leaves the line, the last one leaves both copies equal.
  Nothing is assumed about the order in which saves begin or end.

`PostUpdateGuardProofs`, for any blueprints, contents, verdicts, versions and
numbers of edits:

| theorem | of | states |
|---|---|---|
| `TypeCorrect` | `Spec` | `TypeOK` |
| `RecordIsComplete` | `Spec` | `RecordedMeansInspected` |
| `IssuesAreCurrent` | `Spec` | `IssuesAgree` |
| `SilenceIsAcknowledged` | `Spec` | `NothingHidden` |

- `Framed`: versions only grow, and the store is never ahead of the memory.
- `Looped`: what the loop has passed was inspected as it was listed, if nothing
  failed, and what the scan did not miss and has not changed since is listed as it is.
- `Complete` carries both over the record: it is what `RecordedMeansInspected` and
  `IssuesAgree` say, already while the record is being written.
- `Silent`: a dismissal in force was acknowledged under this version.

`RepairFlowsProofs`, for any texts, URLs, candidates, releases and numbers of
events, cancelled flows and late failures:

| theorem | of | states |
|---|---|---|
| `TypeCorrect` | `Spec` | `TypeOK` |
| `SourceFollows` | `Spec` | `SourceAgrees` |
| `PinIsStored` | `Spec` | `PinStored` |
| `PinIsHonoured` | `Spec` | `PinHonoured` |

- `Carried`: flows and refreshes have what their next steps need; without it an
  install could have no URL, and `TypeOK` would not be inductive.
- `Listed`: unless a flow has `strayed`, a tracked file has an entry. A scan during the
  install of a fork rebuilds the entry while the flow has announced its URL, and only
  the entry it replaces says that the URL to take back is that of the file.
- `Sourced`: the URL of the file is that of the entry, or, while a flow has put its own
  there, the one to take back, or after an install the one of the flow or the item that
  wrote the file. `SourceAgrees` is its first case. A flow that is cancelled or fails
  late suspends it; the next scan with no flow and no thread left restores it.
- `Pinned`: the pin of a fix in force is in the store and in the entry, or after a
  restart in the metadata. `PinStored` says only the first; the next save takes its pin
  from the entry.
- `Judged`: an update decided over a pinned fix has no severity, because a pin that does
  not hold it back asks for a validation.

`FetchingProofs`, for any number of tasks and hosts, intervals, retries and requests:

| theorem | of | states |
|---|---|---|
| `TypeCorrect` | `FetchSpec` | `FetchTypeOK` |
| `FetchAdvances` | `FetchSpec` | `Advances` |
| `RequestsApart` | `FetchSpec` | `SlotsApart` |
| `VerdictsFresh` | `FetchSpec` | `VerdictFresh` |

- `Limited`: a fetch in progress has a host, a request has an address and stays below the
  number of requests in a chain, which is what keeps `hops` in its bounds.
- `Precedes`: attempts, then sleeps, then redirects, then checks of a host, each within
  bounds of `FetchTypeOK`. A fetch that is not over moves up in this order or stands
  still, so that `FetchEnds` is left with fairness alone.
- `Spaced`: who sleeps was given a time not after the last reservation of its host
  (`Within`), so that the next reservation is an interval after it, whoever is cancelled.
- `Fresh`: no lookup straddles a clearing, since both hold the lock.

`SupportProofs`, for any number of tasks and values of each part:

| theorem | of | states |
|---|---|---|
| `TypeCorrect` | `Spec` | `TypeOK` |
| `CacheIsFresh`, `MissIsReal` | `Spec` | `CacheFresh`, `ReportedMissing` |
| `UpdatesAreSafe`, `AlarmsAreReal` | `Spec` | `SafeUpdate`, `RisksAreReal` |
| `RegistryKept` | `Spec` | `RegistryUntouched` |
| `ImportsOwn` | `Spec` | `ImportsOwnFile` |
| `TrackedAsChosen` | `Spec` | `TrackedAsWanted` |
| `NotesShowOffer` | `Spec` | `ShowsOffered` |

- One invariant per part, and `PartsApart`: a step of the whole is a step or a stutter
  of every part.
- `Witnessed` (template paths): the cache, and what a job that was not overtaken has
  read, was so since the cache was dropped.
- `Judged` (risks): what the check has captured so far, compared with the file as it was
  read, explains every risk not found, and each risk found (`AlarmsAreReal`); an install
  is decided with risks only while there are no consumers.
- `Restorable` (inspection): the registry differs from what it would be without
  inspections only in the issues to be put back.
- `Claimed` (import): a call that goes on was allowed to take what it expects.
- `Faithful` (tracking): options agree with what was wanted, at the form and the scan too.
- `Compared` (differences): a request holds the hashes of an entry, and contents that
  belong to them unless it has drifted.

Assumptions on constants are named in the modules, and they are the only ones: markers
such as `None` are no values of the sets they are added to, bounds are natural numbers,
and what the environment writes and publishes is of the type it has. TLC evaluates
them in every run with the values of its `.cfg`.

Only model-checked: liveness (`EveryCallEnds`, `StaleIsReloaded`, `PinEndsStored`,
`UpdateIsFound`, `FetchEnds`), which needs fairness and is beyond the prover. What the
safety part of it rests on is proved: `FetchAdvances` for `FetchEnds`, `StaleOwed` for
`StaleIsReloaded` (a domain that is not read again is owed by somebody at every moment),
`ConfirmedIsKnown` for `UpdateIsFound` (no 304 hides an update).

## 5. Known divergences

One run shows a disagreement of the code with its own comment.
`_async_apply_new_url` hands the new URL of a withdrawn blueprint to the install
("with new URL", `repairs.py:326`), but `_resolve_blueprint_metadata` prefers the URL
of the cached entry (`coordinator.py:3797`): the file is written with the old URL, and
the new one, put into the entry in memory only (`repairs.py:338`), is taken back by the
next scan (`RepairFlows_withdrawn`).

Other properties are stated only where the code keeps them.

File store and reloads:

- The transaction is to "serialize every mutation of one canonical blueprint path"
  (`file_store.py:65`), but a coroutine that is cancelled leaves it (`file_store.py:68`)
  while its thread still mutates the path, and the next call enters; the repair flow
  deletes without the lock (`repairs.py:400`). So nothing claims that mutations do not
  overlap, and what needs the lock is stated of `Spec`. The compare-and-swap limits the
  damage: `CommitIsExpected` holds of `SpecUnlocked`.
- `StaleIsOwed` does not hold of `SpecInterrupted`: a refresh that is replaced between a
  worker's commit and its report (`coordinator.py:2411`) forgets the domain.
- A fetch that updates automatically on behalf of a user forgets its domain
  (`coordinator.py:3390`), and a reload service that fails after the non-blocking call is
  counted as done (`coordinator.py:3031`). Both are actions of `ReloadReconcile`, outside
  of the specifications that are checked or after the point the property speaks of.

Metadata:

- A save that began before a pin and ends after it removes the pin, and an unpin comes
  back in the same way (`coordinator.py:2533`): `DecisionStored`, `DecisionShown` and
  `BehavesAsRegister` are stated of behaviours with `serial` saves. `PinEndsStored` and
  `RestAgrees` say what is left without.
- A scan that sees another `source_url` drops the pin and the dismissal of the blueprint
  from the metadata (`coordinator.py:2164`). Its entry keeps the fields, and a later
  save takes them from there; but if a filter hides the blueprint and shows it again
  while the save that the scan has forced is in flight, the pin is gone. The decision
  counts as `void`, and none of the three properties speaks of it before the next one.

Refresh and update:

- An ETag does not always belong to the hash beside it: a 200 without one keeps that of
  the request (`coordinator.py:5992`), an install without one that of the entry (`3680`).
  It is then older than the hash, which costs a request and hides nothing as long as the
  source moves forward. A source that goes back to the version of that ETag answers 304
  and confirms the newer hash; publications only move forward in the model.
- `NotModifiedIsKnown` does not hold once `Operation` contains `"update"` or `"preview"`:
  a user's install keeps the ETag that the entry has at the moment it gets the lock, a
  direct fetch that is late writes an older hash, and a scan may take the hash of
  previewed content for the local one. The ETag can then be newer than the hash.
- The content that a preview has stored can be newer than the version the entry names,
  and the update entity installs it under that name (`coordinator.py:5071`,
  `update.py:479-506`): `UserInstallsShown` excepts it, and says that nothing else does so
  and that the next answer or install ends it.
- `UserInstallsShown` is about the update entity. `update_all` installs the content
  that it listed, whatever the entry shows by then (`__init__.py:377`).
- `AutoNeverDowngrades` is not true of calls: a direct fetch has no
  `RefreshWorkItem`, judges a late answer against the live entry and expects the
  live hash (`coordinator.py:3390`); `update_all` installs what it listed before a
  scan (`__init__.py:377`); a blocked update writes its answer without asking
  whether it is current (`coordinator.py:5848`) and so puts it on offer.

Post-update guard:

- Links and directories that cannot be listed are passed over in silence
  (`coordinator.py:6566-6575`), and a version is recorded although their blueprints were
  not inspected. `RecordedMeansInspected` speaks of what the scan has listed.
- An acknowledgement that comes while the same blueprint is being inspected is
  overridden; behind an acknowledged deprecation an older issue may stand.
- An edited file is not inspected again until the next run, which an edit does not start.
- A running guard goes on raising issues after the check was switched off.
- Issues are not persistent: they are gone after a restart under the same version, which
  is recorded as checked.

Repair flows:

- A scan while a fork's flow waits for the path lock replaces the entry, and the install
  uses the old URL; the same scan sees a changed URL and drops the metadata with the pin,
  until a save puts it back from the entry. `moved` and `Firm` mark these cases.
- An exception after the file was replaced (`coordinator.py:3754-3771`) reaches the same
  handler as a failed install (`repairs.py:646`, `987`), which takes the URL back although
  the file has the new one; a cancelled flow takes nothing back although the file may
  have the old one. `SourceAgrees` holds again after the next scan (`strayed`).
- A crash between the install of a fix (`repairs.py:609`) and its pin (`669`) leaves the
  fix without a pin: a fix counts as in force from `FinishFix` on.
- A rollback writes its old URL over one that a scan has set since, and raises a
  `KeyError` if the metadata were pruned meanwhile (`RollbackFails`,
  `repairs.py:619-666`, `988-1012`).
- An automatic update that was decided before the pin was set replaces the fix: the pin is
  not asked again under the lock. `PinHonoured` speaks of later decisions.
- The precondition of a fork is captured after its content was fetched and shown.

Smaller parts:

- Fetching: a name that cannot be resolved for the moment is a policy error, cached as
  unsafe until the next refresh and not retried, unlike one at connect time; reservations
  are spaced, not the sending.
- Template paths: the cache is dropped when a reload is asked for, before Home Assistant
  has reloaded; a loader that becomes empty leaves its last sources cached.
- Update risks: inputs named like presentation keys are skipped (`coordinator.py:377`);
  consumers that cannot be read, or that change during the check, are not covered. Nor is
  a consumer that is away when the install is decided (`coordinator.py:5744`), for example
  while automations are being reloaded, and is back when the file is replaced, behind the
  path lock and the executor; nor any, when the path has left `data` during a direct
  fetch (`5662`, `5717`) and the install goes on without risks.
- Inspection: an issue that both the inspection and others changed is put back to what it
  was before.
- Import: the list is believed over a file that was edited since.
- Tracking: an options form opened before a repair and submitted after it brings the
  selection back (the user is taken to want what the form shows); a refresh that is asked
  for while a scan runs is dropped by Home Assistant's debouncer.
- Differences: the fetch for a difference stores content newer than the hash (`mixed`).

## 6. Not modelled

- `FileStore`: other paths (they share nothing but the temporary directory);
  the rejection of directories and symbolic links; file modes.
- `ReloadReconcile`: exceptions between the commit of a file and its report; a task
  cancelled twice; an entry that is unloaded while tasks run. A save is one step
  that stores the pending domains of the moment it ends: saves are written in the
  order in which they took their payload, and whoever holds the reload lock is the
  only one to change the pending domains.
- `RefreshCycle`: blueprints that appear or vanish, files edited outside, a source that
  goes back to an earlier version, `Last-Modified`, cancelled calls (their threads are
  part of `FileStore`), and scans that overlap; pins and changed source URLs are in
  `RepairFlows`. An entry is updated and its lock released in one step, although a save
  of the metadata lies between them.
- `MetadataStore`: fields derived from the network; writes that the store refuses;
  a blueprint file that is removed and comes back.
- `PostUpdateGuard`: a service call that outlives its coordinator.
- `RepairFlows`: two flows open at once; scans and saves in segments; a source URL that
  is edited while a flow is open; the reason of a pin; the hash recorded as bad when a
  fork is fixed is that of the old source.
- `Fetching`: which addresses are public, decoding and size limits of bodies.
- `Inspection`: validators that raise issues in tasks of their own.
- The queue of a refresh over several blueprints and its notifications; entities and
  their attributes; options other than the filter.
- Providers and the analysis of YAML, of Jinja and of modernized candidates have no
  state. Their results are inputs of the models, free within their types; what they
  compute over Home Assistant's schemas is string processing that a model checker does
  not reach.
