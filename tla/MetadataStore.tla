---------------------------- MODULE MetadataStore ----------------------------
(***************************************************************************)
(* Where a user's decision about a blueprint lives.  Pinning a blueprint   *)
(* or dismissing its warning is recorded three times: in the coordinator's *)
(* data (shown by the entities, rebuilt by every scan), in                 *)
(* _persisted_metadata (memory) and in the metadata store (disk).          *)
(* _async_save_metadata merges the first two, drops what is no longer on   *)
(* disk in an executor job, hands the result to Store.async_save and, when *)
(* that returns, makes it _persisted_metadata.  Any number of tasks may be *)
(* in the middle of a save.                                                *)
(*                                                                         *)
(* One flag per blueprint stands for the fields pinned, pinned_reason,     *)
(* pinned_at, upstream_incompatible_hash and dismissed_warning, which are  *)
(* set, cleared, merged and saved in the same way.  Each action is the     *)
(* code between two awaits.                                                *)
(***************************************************************************)
EXTENDS Sequences, FiniteSets

CONSTANTS
    Path,      \* blueprints, by relative path
    Saver,     \* tasks that may be saving metadata at the same time
    Nothing,   \* no payload waits to be written
    Forced     \* the purpose of a save that a scan begins

Flags == [Path -> {"clear", "set"}]

ASSUME NothingAssumption ==
    Nothing \notin Flags /\ {Nothing, Forced} \cap Path = {} /\ Nothing # Forced

VARIABLES
    disk,       \* blueprints whose file exists
    data,       \* the flag in self.data; "absent": no such key, "hidden": no such entry
    persisted,  \* the flag in _persisted_metadata
    store,      \* the flag in the file of the metadata store
    pc,         \* progress of each save
    snap,       \* its candidate_metadata, then its final_metadata
    out,        \* what it writes to the store
    user,       \* the blueprint whose decision a save belongs to, Forced or Nothing
    line,       \* tasks inside Store.async_save, in the order of its write lock
    waiting,    \* the payload that the next of them will write
    scan,       \* progress of _async_update_data
    listed,     \* blueprints the scan found
    gone,       \* blueprints whose metadata it prunes
    decision,   \* history: the last decision of the user, "open" if it was cut short,
                \* "void" if a scan has dropped its metadata since
    serial      \* whether, in this behaviour, one save ends before the next begins

memory == <<data, persisted>>
saves == <<pc, snap, out, user, line, waiting>>
scanning == <<scan, listed, gone>>
vars == <<disk, memory, store, saves, scanning, decision, serial>>

Blank == [p \in Path |-> "clear"]

Init ==
    /\ disk \in SUBSET Path
    /\ data = [p \in Path |-> "hidden"]
    /\ persisted = Blank
    /\ store = Blank
    /\ pc = [s \in Saver |-> "idle"]
    /\ snap = [s \in Saver |-> Blank]
    /\ out = [s \in Saver |-> Blank]
    /\ user = [s \in Saver |-> Nothing]
    /\ line = <<>>
    /\ waiting = Nothing
    /\ scan = "idle"
    /\ listed = {}
    /\ gone = {}
    /\ decision = Blank
    /\ serial \in BOOLEAN

------------------------------------------------------------------------------
(* _async_save_metadata.                                                   *)

\* Mutations: blueprints without an entry are not saved; the entries are not
\* merged in.
CandidateShown(mem, entries) ==
    [p \in Path |-> IF entries[p] \in {"clear", "set"} THEN entries[p] ELSE "clear"]
CandidatePersisted(mem, entries) == [p \in DOMAIN entries |-> mem[p]]

\* A field that the entry of self.data has replaces the persisted one.
Candidate(mem, entries) ==
    [p \in Path |-> IF entries[p] \in {"clear", "set"} THEN entries[p] ELSE mem[p]]

\* The save starts with these contents of the memory, up to its first await.
Begin(s, mem, entries, who) ==
    /\ pc[s] = "idle"
    /\ pc' = [pc EXCEPT ![s] = "filter"]
    /\ snap' = [snap EXCEPT ![s] = Candidate(mem, entries)]
    /\ user' = [user EXCEPT ![s] = who]
    /\ UNCHANGED <<out, line, waiting>>

\* A worker, the refresh or a reconcile saves what there is.
Save(s) ==
    /\ Begin(s, persisted, data, Nothing)
    /\ UNCHANGED <<disk, memory, store, scanning, decision>>

OnDisk(flags) == [p \in Path |-> IF p \in disk THEN flags[p] ELSE "clear"]

\* The task leaves _async_save_metadata.
Finish(s) ==
    /\ pc' = [pc EXCEPT ![s] = "idle"]
    /\ snap' = [snap EXCEPT ![s] = Blank]
    /\ out' = [out EXCEPT ![s] = Blank]
    /\ user' = [user EXCEPT ![s] = Nothing]

\* Mutation: a forced save that changes nothing in memory ends as well.
SkipForced(s) ==
    /\ pc[s] = "filter"
    /\ OnDisk(snap[s]) = persisted
    /\ Finish(s)
    /\ UNCHANGED <<disk, memory, store, line, waiting, scanning, decision>>

\* The executor has filtered; without force, a save that changes nothing ends.
Skip(s) ==
    /\ pc[s] = "filter"
    /\ user[s] = Nothing
    /\ OnDisk(snap[s]) = persisted
    /\ Finish(s)
    /\ UNCHANGED <<disk, memory, store, line, waiting, scanning, decision>>

\* Otherwise Store.async_save: the payload replaces one that still waits, and
\* the task takes the write lock or a place in its line (external).
Submit(s) ==
    /\ pc[s] = "filter"
    /\ snap' = [snap EXCEPT ![s] = OnDisk(@)]
    /\ line' = Append(line, s)
    /\ IF line = <<>>
         THEN /\ pc' = [pc EXCEPT ![s] = "write"]
              /\ out' = [out EXCEPT ![s] = snap'[s]]
              /\ UNCHANGED waiting
         ELSE /\ pc' = [pc EXCEPT ![s] = "queue"]
              /\ waiting' = snap'[s]
              /\ UNCHANGED out
    /\ UNCHANGED <<disk, memory, store, user, scanning, decision>>

\* The next in line writes what waits...
Take(s) ==
    /\ line # <<>> /\ Head(line) = s
    /\ pc[s] = "queue" /\ waiting # Nothing
    /\ pc' = [pc EXCEPT ![s] = "write"]
    /\ out' = [out EXCEPT ![s] = waiting]
    /\ waiting' = Nothing
    /\ UNCHANGED <<disk, memory, store, snap, user, line, scanning, decision>>

\* ... or finds that somebody else wrote it.
Covered(s) ==
    /\ line # <<>> /\ Head(line) = s
    /\ pc[s] = "queue" /\ waiting = Nothing
    /\ persisted' = snap[s]
    /\ line' = Tail(line)
    /\ Finish(s)
    /\ UNCHANGED <<disk, data, store, waiting, scanning, decision>>

\* Mutation: the memory is left as it is.
WrittenOnly(s) ==
    /\ pc[s] = "write"
    /\ store' = out[s]
    /\ line' = Tail(line)
    /\ Finish(s)
    /\ UNCHANGED <<disk, memory, waiting, scanning, decision>>

Written(s) ==
    /\ pc[s] = "write"
    /\ store' = out[s]
    /\ persisted' = snap[s]
    /\ line' = Tail(line)
    /\ Finish(s)
    /\ UNCHANGED <<disk, data, waiting, scanning, decision>>

SaveStep(s) == Skip(s) \/ Submit(s) \/ Take(s) \/ Covered(s) \/ Written(s)

------------------------------------------------------------------------------
(* async_pin_blueprint, async_unpin_blueprint, async_set_dismissed_warning *)

Pin(s, p) ==
    /\ p \in disk
    /\ persisted' = [persisted EXCEPT ![p] = "set"]
    /\ data' = [data EXCEPT ![p] = IF @ = "hidden" THEN @ ELSE "set"]
    /\ decision' = [decision EXCEPT ![p] = "set"]
    /\ Begin(s, persisted', data', p)
    /\ UNCHANGED <<disk, store, scanning>>

\* Mutation: only the metadata is cleared.
UnpinMetadata(s, p) ==
    /\ p \in disk
    /\ persisted' = [persisted EXCEPT ![p] = "clear"]
    /\ decision' = [decision EXCEPT ![p] = "clear"]
    /\ Begin(s, persisted', data, p)
    /\ UNCHANGED <<disk, data, store, scanning>>

\* The keys are removed, not set to None.
Unpin(s, p) ==
    /\ p \in disk
    /\ persisted' = [persisted EXCEPT ![p] = "clear"]
    /\ data' = [data EXCEPT ![p] = IF @ = "hidden" THEN @ ELSE "absent"]
    /\ decision' = [decision EXCEPT ![p] = "clear"]
    /\ Begin(s, persisted', data', p)
    /\ UNCHANGED <<disk, store, scanning>>

------------------------------------------------------------------------------
(* _async_update_data: _async_initialize_results and _merge_previous_data. *)

\* The executor lists the files that the scan filter of the options selects.
ScanFiles(selected) ==
    /\ scan = "idle"
    /\ scan' = "listed"
    /\ listed' = disk \cap selected
    /\ UNCHANGED <<disk, memory, store, saves, gone, decision>>

\* _async_prune_stale_metadata looks for the files the scan did not list.
CheckFiles ==
    /\ scan = "listed"
    /\ scan' = "checked"
    /\ gone' = Path \ (listed \cup disk)
    /\ UNCHANGED <<disk, memory, store, saves, listed, decision>>

Pruned == [p \in Path |-> IF p \in gone THEN "clear" ELSE persisted[p]]

\* A listed blueprint is pinned if the metadata or the old entry says so.
Merged(mem) ==
    [p \in Path |->
        CASE p \notin listed -> "hidden"
          [] p \in listed /\ "set" \in {mem[p], data[p]} -> "set"
          [] OTHER -> "clear"]

\* The entries when the scan ends, without those it prunes.
Shown == [p \in Path |-> IF p \in gone THEN "hidden" ELSE data[p]]

\* The blueprints whose source_url is compared with the one before: that of the
\* entry or, if there is no entry at all, of the metadata.
Comparable == {p \in listed : Shown[p] # "hidden" \/ \A q \in Path : Shown[q] = "hidden"}

\* _handle_source_url_change, _invalidate_blueprint_metadata: the metadata of a
\* blueprint with another source are dropped, unless it is pinned by hand; its
\* entry keeps the fields.  A task is created that saves what was pruned or
\* compared, before the entries are replaced; several of them begin with the same
\* flags and are one here.
ScanEnds ==
    /\ scan = "checked"
    /\ scan' = "idle"
    /\ listed' = {}
    /\ gone' = {}
    /\ \E dropped \in SUBSET Comparable :
          /\ persisted' = [p \in Path |-> IF p \in dropped THEN "clear" ELSE Pruned[p]]
          /\ decision' = [p \in Path |-> IF p \in dropped THEN "void" ELSE decision[p]]
          /\ \/ dropped = {} /\ UNCHANGED saves
             \/ /\ gone \cup Comparable # {}
                /\ \E s \in Saver :
                      Begin(s, persisted',
                            [p \in Path |-> IF p \in dropped /\ Shown[p] = "hidden"
                                              THEN Pruned[p] ELSE Shown[p]], Forced)
    /\ data' = Merged(Pruned)
    /\ UNCHANGED <<disk, store>>

ScanStep == CheckFiles \/ ScanEnds

------------------------------------------------------------------------------
(* The environment.                                                        *)

\* A blueprint file is removed from outside, once and for all.
Remove(p) ==
    /\ p \in disk
    /\ disk' = disk \ {p}
    /\ UNCHANGED <<memory, store, saves, scanning, decision>>

\* Home Assistant dies and comes back: async_setup reads the store.  Decisions
\* that were not acknowledged yet may be lost.
Restart ==
    /\ persisted' = store
    /\ data' = [p \in Path |-> "hidden"]
    /\ pc' = [s \in Saver |-> "idle"]
    /\ snap' = [s \in Saver |-> Blank]
    /\ out' = [s \in Saver |-> Blank]
    /\ user' = [s \in Saver |-> Nothing]
    /\ line' = <<>>
    /\ waiting' = Nothing
    /\ scan' = "idle"
    /\ listed' = {}
    /\ gone' = {}
    /\ decision' = [p \in Path |->
                      IF decision[p] # "void" /\ \E s \in Saver : user[s] = p THEN "open"
                      ELSE decision[p]]
    /\ UNCHANGED <<disk, store>>

Saving == \E s \in Saver : pc[s] # "idle"
Starting == \E s \in Saver : pc[s] = "idle" /\ pc'[s] # "idle"

Step ==
    \/ \E s \in Saver : Save(s) \/ SaveStep(s) \/ \E p \in Path : Pin(s, p) \/ Unpin(s, p)
    \/ \E selected \in SUBSET Path : ScanFiles(selected)
    \/ ScanStep
    \/ Restart
    \/ \E p \in Path : Remove(p)

\* Saves begin at any time, several at once, unless the behaviour is serial.
Next ==
    /\ Step
    /\ serial /\ Starting => ~Saving
    /\ UNCHANGED serial

Spec == Init /\ [][Next]_vars

\* The executor and the store finish their jobs; refreshes save again and again.
Fairness ==
    /\ \A s \in Saver : WF_vars(SaveStep(s) /\ UNCHANGED serial)
    /\ SF_vars(\E s \in Saver : Save(s) /\ UNCHANGED serial)

------------------------------------------------------------------------------
(* Properties.                                                             *)

TypeOK ==
    /\ disk \subseteq Path
    /\ data \in [Path -> {"clear", "set", "absent", "hidden"}]
    /\ {persisted, store} \subseteq Flags
    /\ pc \in [Saver -> {"idle", "filter", "queue", "write"}]
    /\ snap \in [Saver -> Flags]
    /\ out \in [Saver -> Flags]
    /\ user \in [Saver -> Path \cup {Nothing, Forced}]
    /\ line \in Seq(Saver)
    /\ waiting \in Flags \cup {Nothing}
    /\ scan \in {"idle", "listed", "checked"}
    /\ listed \subseteq Path
    /\ gone \subseteq Path
    /\ decision \in [Path -> {"clear", "set", "open", "void"}]
    /\ serial \in BOOLEAN

\* The calls that carry a decision about p have returned.
Acknowledged(p) == decision[p] \in {"clear", "set"} /\ \A s \in Saver : user[s] # p

\* "Pin a blueprint locally, persisting reason and incompatible upstream hash"
\* (coordinator.py:2548): once the call has returned, a restart finds the
\* decision, whether scans show the blueprint or not.  The exception is a decision
\* about a blueprint that has another source_url since: its metadata are dropped, and
\* whether the fields of its entry put them back depends on the scans that follow.
DecisionStored ==
    serial => \A p \in disk : Acknowledged(p) => store[p] = decision[p]

\* What the entities show, once they show anything, is the last decision.
DecisionShown ==
    serial => \A p \in disk :
                  decision[p] \in {"clear", "set"} /\ data[p] \in {"clear", "set"} =>
                      data[p] = decision[p]

\* Blueprints with metadata that no scan has dropped since the last decision.
Standing == {p \in disk : decision[p] # "void"}

\* The register that a user may rely on: see DecisionRegister.
Register == INSTANCE DecisionRegister WITH
    present <- disk,
    void <- disk \ Standing,
    memory <- [p \in Standing |-> persisted[p]],
    durable <- [p \in Standing |-> store[p]],
    open <- {p \in Standing : \E s \in Saver : user[s] = p}

\* As long as saves do not overlap, every step is one of the register: scans,
\* prunes and the saves of others change neither copy of a decision.
BehavesAsRegister ==
    /\ serial => Register!Init
    /\ [][serial => Register!Next]_(Register!vars)

\* However saves overlap, replace each other's payloads and end in another order
\* than they began: once nobody is inside Store.async_save, a restart would read
\* what the memory holds, save for the decisions, and the metadata dropped by a
\* scan, whose saves have not come that far.
RestAgrees ==
    line = <<>> =>
        \A p \in disk : \/ persisted[p] = store[p]
                        \/ \E s \in Saver : user[s] = p /\ pc[s] = "filter"
                        \/ /\ decision[p] = "void"
                           /\ \E s \in Saver : user[s] = Forced /\ pc[s] = "filter"

\* However saves overlap, a pin of a blueprint that scans show wins in the end:
\* every save that starts after it carries it.
PinEndsStored ==
    \A p \in Path :
        <>[](p \in disk /\ decision[p] = "set" /\ data[p] = "set") => <>[](store[p] = "set")
==============================================================================
