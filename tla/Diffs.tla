--------------------------------- MODULE Diffs ---------------------------------
(***************************************************************************)
(* The differences that the release notes of an update show.  They are     *)
(* computed in a thread from the file and the remote content, which may    *)
(* have to be fetched first, and are kept in the blueprint's entry under   *)
(* the hashes that the entry had when they were asked for.  The entry, the *)
(* file and the source change while a request for notes waits.             *)
(*                                                                         *)
(* One blueprint; a version stands for a content and for its hash.         *)
(***************************************************************************)
EXTENDS FiniteSets

CONSTANTS
    Version,    \* contents
    Viewer,     \* requests for release notes
    Nothing     \* no content, hash or difference

ASSUME DiffsAssumption == Nothing \notin Version

VARIABLES
    disk,       \* the file
    origin,     \* what its source serves
    entry,      \* data[path]: local_hash, remote_hash, remote_content, _cached_git_diff
    mixed,      \* history: remote_content may not be what remote_hash says
    view        \* progress of each request, with what it has taken from the entry

diffVars == <<disk, origin, entry, mixed, view>>

\* from and to are what was compared; drift: it was not what the hashes say, for
\* the file or the source changed and the entry did not know.
Diff == [local: Version, remote: Version, from: Version, to: Version, drift: BOOLEAN]
Entry == [local: Version, remote: Version, content: Version \cup {Nothing},
          diff: Diff \cup {Nothing}]
View == [step: {"idle", "fetch", "read", "store", "show"},
         local: Version \cup {Nothing}, remote: Version \cup {Nothing},
         content: Version \cup {Nothing}, live: BOOLEAN,
         from: Version \cup {Nothing}, drift: BOOLEAN]
NoView == [step |-> "idle", local |-> Nothing, remote |-> Nothing, content |-> Nothing,
           live |-> TRUE, from |-> Nothing, drift |-> FALSE]

DiffsInit ==
    /\ disk \in Version /\ origin = disk
    /\ entry = [local |-> disk, remote |-> origin, content |-> Nothing, diff |-> Nothing]
    /\ mixed = FALSE
    /\ view = [v \in Viewer |-> NoView]

Updatable == entry.remote # entry.local

------------------------------------------------------------------------------
(* async_get_git_diff.                                                     *)

\* Mutation: a difference is kept by the file's hash alone.
CachedDiffByLocal(local, remote) == entry.diff # Nothing /\ entry.diff.local = local

\* get_cached_git_diff
CachedDiff(local, remote) ==
    entry.diff # Nothing /\ entry.diff.local = local /\ entry.diff.remote = remote

AskCached(v) ==
    /\ view[v] = NoView
    /\ Updatable
    /\ CachedDiff(entry.local, entry.remote)
    /\ view' = [view EXCEPT ![v] =
                   [NoView EXCEPT !.step = "show", !.local = entry.local, !.remote = entry.remote,
                                  !.from = entry.diff.from, !.content = entry.diff.to,
                                  !.drift = entry.diff.drift]]
    /\ UNCHANGED <<disk, origin, entry, mixed>>

Ask(v) ==
    /\ view[v] = NoView
    /\ Updatable
    /\ ~CachedDiff(entry.local, entry.remote)
    /\ view' = [view EXCEPT ![v] =
                   [NoView EXCEPT !.step = IF entry.content = Nothing THEN "fetch" ELSE "read",
                                  !.local = entry.local, !.remote = entry.remote,
                                  !.content = entry.content,
                                  !.drift = \/ disk # entry.local
                                            \/ IF entry.content = Nothing
                                                 THEN origin # entry.remote ELSE mixed]]
    /\ UNCHANGED <<disk, origin, entry, mixed>>

\* async_fetch_diff_content writes to the entry it began with, which a scan may
\* have replaced.
FetchForDiff(v) ==
    /\ view[v].step = "fetch"
    /\ view' = [view EXCEPT ![v].step = "read", ![v].content = origin, ![v].live = TRUE]
    /\ IF view[v].live
         THEN /\ entry' = [entry EXCEPT !.content = origin]
              /\ mixed' = (origin # entry.remote)
         ELSE UNCHANGED <<entry, mixed>>
    /\ UNCHANGED <<disk, origin>>

\* The request, the validation or the thread fails.
FailDiff(v) ==
    /\ view[v].step \in {"fetch", "read"}
    /\ view' = [view EXCEPT ![v] = NoView]
    /\ UNCHANGED <<disk, origin, entry, mixed>>

\* read_and_diff
ReadForDiff(v) ==
    /\ view[v].step = "read"
    /\ view' = [view EXCEPT ![v].step = "store", ![v].from = disk]
    /\ UNCHANGED <<disk, origin, entry, mixed>>

\* set_cached_git_diff, in the entry there is now, under the hashes taken then.
StoreDiff(v) ==
    /\ view[v].step = "store"
    /\ entry' = [entry EXCEPT !.diff =
                    [local |-> view[v].local, remote |-> view[v].remote,
                     from |-> view[v].from, to |-> view[v].content, drift |-> view[v].drift]]
    /\ view' = [view EXCEPT ![v].step = "show"]
    /\ UNCHANGED <<disk, origin, mixed>>

EndNotes(v) ==
    /\ view[v].step = "show"
    /\ view' = [view EXCEPT ![v] = NoView]
    /\ UNCHANGED <<disk, origin, entry, mixed>>

------------------------------------------------------------------------------
(* What happens meanwhile.                                                 *)

\* Requests under way whose file or source is no longer what they took it for.
Noticed(file, served) ==
    [v \in Viewer |->
        [view[v] EXCEPT !.drift =
            \/ @
            \/ view[v].step \in {"fetch", "read"} /\ file # view[v].local
            \/ view[v].step = "fetch" /\ served # view[v].remote]]

EditDisk(version) ==
    /\ disk' = version
    /\ view' = Noticed(version, origin)
    /\ UNCHANGED <<origin, entry, mixed>>

Publish(version) ==
    /\ origin' = version
    /\ view' = Noticed(disk, version)
    /\ UNCHANGED <<disk, entry, mixed>>

\* A scan replaces the entry; content is kept, and lost in a restart.
Rescan(kept) ==
    /\ entry' = [local |-> disk, remote |-> entry.remote, content |-> kept, diff |-> Nothing]
    /\ mixed' = (mixed /\ kept # Nothing)
    /\ view' = [v \in Viewer |-> [view[v] EXCEPT !.live = view[v].step # "fetch"]]
    /\ UNCHANGED <<disk, origin>>

\* A refresh has fetched the source: the entry is updated in place.
RefreshRemote ==
    /\ entry' = [entry EXCEPT !.remote = origin,
                              !.content = IF origin # entry.local THEN origin ELSE Nothing]
    /\ mixed' = FALSE
    /\ UNCHANGED <<disk, origin, view>>

\* An install, which forgets the difference.
InstallRemote ==
    /\ Updatable /\ entry.content # Nothing
    /\ disk' = entry.content
    /\ entry' = [local |-> entry.content, remote |-> entry.content,
                 content |-> Nothing, diff |-> Nothing]
    /\ mixed' = FALSE
    /\ view' = Noticed(entry.content, origin)
    /\ UNCHANGED <<origin>>

DiffsNext ==
    \/ \E v \in Viewer :
          \/ AskCached(v) \/ Ask(v) \/ FetchForDiff(v) \/ FailDiff(v)
          \/ ReadForDiff(v) \/ StoreDiff(v) \/ EndNotes(v)
    \/ \E version \in Version : EditDisk(version) \/ Publish(version)
    \/ \E kept \in {Nothing, entry.content} : Rescan(kept)
    \/ RefreshRemote \/ InstallRemote

------------------------------------------------------------------------------
(* Properties.                                                             *)

DiffsTypeOK ==
    /\ disk \in Version /\ origin \in Version
    /\ entry \in Entry
    /\ mixed \in BOOLEAN
    /\ view \in [Viewer -> View]

\* The notes of an update show the changes from the version that is installed
\* to the one that the entry offers, from the cache or not, unless the file or
\* the source had changed behind the entry's back while they were compared.
ShowsOffered ==
    \A v \in Viewer :
        view[v].step = "show" /\ ~view[v].drift =>
            view[v].from = view[v].local /\ view[v].content = view[v].remote
==============================================================================
