------------------------------ MODULE FileStore ------------------------------
(***************************************************************************)
(* BlueprintFileStore (file_store.py) together with the coroutines of the  *)
(* coordinator that call it: one canonical blueprint path, its numbered    *)
(* backups, and the install and restore transactions that mutate it.       *)
(*                                                                         *)
(* A transaction is a coroutine that holds the per-path asyncio lock while *)
(* an executor thread runs BlueprintFileStore.install.  Each action below  *)
(* is one segment of that code between two points where another thread,    *)
(* an external editor or a crash can intervene, that is, one file-system   *)
(* operation.  File contents stand for their own hashes; the identity      *)
(* (device, inode, size, mtime) that _verify_current_revision compares is  *)
(* a stamp that every write of the file renews.                            *)
(***************************************************************************)
EXTENDS Integers, FiniteSets

CONSTANTS
    Txn,          \* the install and restore calls, each made once
    Content,      \* contents a blueprint file can have
    Incoming,     \* those that installs and the Editor bring
    NoFile,       \* what an absent file reads as; as a precondition: missing()
    Unchecked,    \* the precondition None: last writer wins
    Free,         \* the lock has no holder
    Editor,       \* whoever writes the file without this integration
    Slots,        \* highest backup number ever configured
    Limit,        \* get_max_backups now; lower than Slots after a change of options
    InitBackups,  \* the backups a run can start with
    EditLimit,    \* bound: writes and deletions by the Editor
    CrashLimit    \* bound: process crashes

\* An existing file: its content, the stamp of its last write, who wrote it.
File == [content : Content, stamp : Nat, by : Txn \cup {Editor}]

ASSUME NoFileAssumption == NoFile \notin Content \cup File
ASSUME IncomingAssumption == Incoming \subseteq Content
ASSUME UncheckedAssumption == Unchecked \notin Content \cup {NoFile}
ASSUME FreeAssumption == Free \notin Txn
ASSUME EditorAssumption == Editor \notin Txn
ASSUME LimitAssumption == Slots \in Nat /\ Limit \in 1 .. Slots
ASSUME BackupsAssumption == InitBackups \subseteq [1 .. Slots -> Content \cup {NoFile}]
ASSUME BoundAssumption == EditLimit \in Nat /\ CrashLimit \in Nat

VARIABLES
    target,    \* the blueprint file: content, stamp and writer, or NoFile
    backup,    \* backup number -> content or NoFile
    clock,     \* the last stamp given
    lock,      \* holder of the per-path asyncio.Lock
    pc,        \* next segment of each transaction
    op,        \* which call each transaction is
    pre,       \* its FileRevisionPrecondition
    new,       \* the content it installs
    keeps,     \* its create_backup argument
    ident,     \* the identity its first verification returned
    temp,      \* its temporary file
    copy,      \* its temporary copy for the newest backup
    slot,      \* loop variable of rotate_backups
    outcome,   \* how it ended
    orphan,    \* transactions whose coroutine was cancelled under a running thread
    deleter,   \* progress of the repair flow that deletes the blueprint
    prior,     \* history: the backups when the last rotation began
    raced,     \* history: transactions whose target another writer changed after verify2
    edits, crashes

disk == <<target, backup, clock>>
locals == <<op, pre, new, keeps, ident, slot>>
history == <<prior, raced>>
environment == <<orphan, deleter, edits, crashes>>
vars == <<disk, lock, pc, locals, temp, copy, outcome, history, environment>>

None == 0       \* no identity: the first verification saw no file

Rotating == {"stale", "copy", "compare", "oldest", "shift", "publish"}
\* Segments run by the executor thread: cancelling the coroutine does not stop them.
Threaded == {"write", "verify1", "verify2", "commit"} \cup Rotating
\* Segments between the check of the precondition and the replacement.
Mutating == {"verify2", "commit"} \cup Rotating

Reading(f) == IF f = NoFile THEN NoFile ELSE f.content
Identity(f) == IF f = NoFile THEN None ELSE f.stamp

Init ==
    /\ target \in {NoFile} \cup {[content |-> c, stamp |-> 1, by |-> Editor] : c \in Incoming}
    /\ backup \in InitBackups
    /\ clock = 1
    /\ lock = Free
    /\ pc = [t \in Txn |-> "idle"]
    /\ op \in [Txn -> {"install", "restore"}]
    /\ pre = [t \in Txn |-> Unchecked]
    /\ new = [t \in Txn |-> NoFile]
    /\ keeps = [t \in Txn |-> TRUE]
    /\ ident = [t \in Txn |-> None]
    /\ temp = [t \in Txn |-> NoFile]
    /\ copy = [t \in Txn |-> NoFile]
    /\ slot = [t \in Txn |-> 0]
    /\ outcome = [t \in Txn |-> "none"]
    /\ orphan = {}
    /\ deleter = "idle"
    /\ prior = backup
    /\ raced = {}
    /\ edits = 0
    /\ crashes = 0

------------------------------------------------------------------------------
(* Calls and the per-path lock.                                            *)

Goto(t, from, to) ==
    /\ pc[t] = from
    /\ pc' = [pc EXCEPT ![t] = to]

\* The thread is over: its temporary files are removed by the finally blocks.
Leave(t, how) ==
    /\ temp' = [temp EXCEPT ![t] = NoFile]
    /\ copy' = [copy EXCEPT ![t] = NoFile]
    /\ outcome' = [outcome EXCEPT ![t] = how]

\* A call of async_install_blueprint or async_restore_blueprint reaches the
\* lock.  An install brings its content and the revision it was prepared
\* against: the file as the caller knew it, or nothing.
Call(t) ==
    /\ Goto(t, "idle", "waiting")
    /\ \/ /\ op[t] = "install"
          /\ \E c \in Incoming, b \in BOOLEAN, p \in {Reading(target), Unchecked} :
                /\ new' = [new EXCEPT ![t] = c]
                /\ keeps' = [keeps EXCEPT ![t] = b]
                /\ pre' = [pre EXCEPT ![t] = p]
       \/ /\ op[t] = "restore"
          /\ UNCHANGED <<new, keeps, pre>>
    /\ UNCHANGED <<disk, lock, op, ident, slot, temp, copy, outcome, history, environment>>

\* Mutation: the lock is created anew for every transaction.
AcquireAnother(t) ==
    /\ lock' = t
    /\ Goto(t, "waiting", IF op[t] = "install" THEN "write" ELSE "capture")
    /\ UNCHANGED <<disk, locals, temp, copy, outcome, history, environment>>

\* async with self._file_store.transaction(real_path)
Acquire(t) ==
    /\ lock = Free
    /\ lock' = t
    /\ Goto(t, "waiting", IF op[t] = "install" THEN "write" ELSE "capture")
    /\ UNCHANGED <<disk, locals, temp, copy, outcome, history, environment>>

\* Under the lock, before any mutation: the refresh item is obsolete, the
\* request is not valid, or its content does not have the announced hash.
Refuse(t) ==
    /\ lock = Free
    /\ Goto(t, "waiting", "done")
    /\ outcome' = [outcome EXCEPT ![t] = "refused"]
    /\ UNCHANGED <<disk, lock, locals, temp, copy, history, environment>>

\* Mutation: the lock is only released when the install succeeded.
ReturnHolding(t) ==
    /\ Goto(t, "return", "done")
    /\ lock' = IF lock = t /\ outcome[t] = "installed" THEN Free ELSE lock
    /\ orphan' = orphan \ {t}
    /\ UNCHANGED <<disk, locals, temp, copy, outcome, history, deleter, edits, crashes>>

\* The executor job is over and the coroutine leaves the transaction; the
\* thread of a cancelled coroutine has no lock left to release.
Return(t) ==
    /\ Goto(t, "return", "done")
    /\ lock' = IF lock = t THEN Free ELSE lock
    /\ orphan' = orphan \ {t}
    /\ UNCHANGED <<disk, locals, temp, copy, outcome, history, deleter, edits, crashes>>

------------------------------------------------------------------------------
(* _async_prepare_blueprint_restore, under the lock.                       *)

CapturePrecondition(t) ==
    /\ Goto(t, "capture", "read")
    /\ pre' = [pre EXCEPT ![t] = Reading(target)]
    /\ UNCHANGED <<disk, lock, op, new, keeps, ident, slot, temp, copy, outcome, history,
                   environment>>

ReadBackup(t) ==
    \E v \in 1 .. Limit :
        /\ backup[v] # NoFile
        /\ Goto(t, "read", "write")
        /\ new' = [new EXCEPT ![t] = backup[v]]
        /\ UNCHANGED <<disk, lock, op, pre, keeps, ident, slot, temp, copy, outcome, history,
                       environment>>

\* The requested backup does not exist, or its content is not a valid blueprint.
RejectBackup(t) ==
    /\ Goto(t, "read", "return")
    /\ outcome' = [outcome EXCEPT ![t] = "refused"]
    /\ UNCHANGED <<disk, lock, locals, temp, copy, history, environment>>

------------------------------------------------------------------------------
(* BlueprintFileStore.install, in the executor thread.                     *)

WriteTemp(t) ==
    /\ Goto(t, "write", "verify1")
    /\ temp' = [temp EXCEPT ![t] = new[t]]
    /\ UNCHANGED <<disk, lock, locals, copy, outcome, history, environment>>

\* Mutation: the first verification looks at existence only.
ExpectedToExist(t) == pre[t] = Unchecked \/ (pre[t] = NoFile <=> target = NoFile)

\* The first _verify_current_revision compares contents...
Expected(t) == pre[t] \in {Unchecked, Reading(target)}

\* Mutation: a call without a precondition is installed without a backup.
VerifyNoBackup(t) ==
    /\ Expected(t)
    /\ Goto(t, "verify1",
            IF keeps[t] /\ pre[t] \notin {NoFile, Unchecked} THEN "stale" ELSE "verify2")
    /\ ident' = [ident EXCEPT ![t] = Identity(target)]
    /\ UNCHANGED <<disk, lock, op, pre, new, keeps, slot, temp, copy, outcome, history,
                   environment>>

Verify(t) ==
    /\ Expected(t)
    /\ Goto(t, "verify1", IF keeps[t] /\ pre[t] # NoFile THEN "stale" ELSE "verify2")
    /\ ident' = [ident EXCEPT ![t] = Identity(target)]
    /\ UNCHANGED <<disk, lock, op, pre, new, keeps, slot, temp, copy, outcome, history,
                   environment>>

Mismatch(t) ==
    /\ Goto(t, "verify1", "return")
    /\ ~Expected(t)
    /\ Leave(t, "mismatch")
    /\ UNCHANGED <<disk, lock, locals, history, environment>>

\* ... the second one identities: a file that exists must be the one the
\* first saw, if it saw one; without a precondition it may have disappeared.
Unmoved(t) ==
    CASE pre[t] = NoFile    -> target = NoFile
      [] pre[t] = Unchecked -> ident[t] = None \/ Identity(target) \in {None, ident[t]}
      [] OTHER              -> Identity(target) = ident[t]

\* Mutation: no second verification after the rotation.
VerifyOnce(t) ==
    /\ Goto(t, "verify2", "commit")
    /\ UNCHANGED <<disk, lock, locals, temp, copy, outcome, history, environment>>

VerifyAgain(t) ==
    /\ Unmoved(t)
    /\ Goto(t, "verify2", "commit")
    /\ UNCHANGED <<disk, lock, locals, temp, copy, outcome, history, environment>>

MismatchAgain(t) ==
    /\ Goto(t, "verify2", "return")
    /\ ~Unmoved(t)
    /\ Leave(t, "mismatch")
    /\ UNCHANGED <<disk, lock, locals, history, environment>>

\* A write by `who` between another transaction's last check and its commit.
Race(who) == raced' = raced \cup {t \in Txn \ {who} : pc[t] = "commit"}

\* os.link for a file that must not exist, os.replace otherwise.  After a
\* link the temporary file is a second name that os.remove takes away: if that
\* raises an OSError, the call fails although the file is installed.
Commit(t) ==
    /\ Goto(t, "commit", "return")
    /\ pre[t] = NoFile => target = NoFile
    /\ clock' = clock + 1
    /\ target' = [content |-> temp[t], stamp |-> clock + 1, by |-> t]
    /\ Race(t)
    /\ \/ Leave(t, "installed")
       \/ /\ pre[t] = NoFile
          /\ outcome' = [outcome EXCEPT ![t] = "error"]
          /\ UNCHANGED <<temp, copy>>
    /\ UNCHANGED <<backup, lock, locals, prior, environment>>

\* os.link raised FileExistsError.
LinkRefused(t) ==
    /\ Goto(t, "commit", "return")
    /\ pre[t] = NoFile /\ target # NoFile
    /\ Leave(t, "mismatch")
    /\ UNCHANGED <<disk, lock, locals, history, environment>>

\* An OSError in any segment before the commit: nothing is rolled back but
\* the temporary files.
Fail(t) ==
    /\ pc[t] \in Threaded
    /\ pc' = [pc EXCEPT ![t] = "return"]
    /\ Leave(t, "error")
    /\ UNCHANGED <<disk, lock, locals, history, environment>>

------------------------------------------------------------------------------
(* rotate_backups.                                                         *)

\* Nothing to rotate without a file; otherwise the backups above the limit
\* are removed, those that cannot be are left with a warning.
RemoveStale(t) ==
    /\ \/ /\ target = NoFile
          /\ Goto(t, "stale", "verify2")
          /\ UNCHANGED <<backup, prior>>
       \/ /\ target # NoFile
          /\ Goto(t, "stale", "copy")
          /\ \E gone \in SUBSET (Limit + 1 .. Slots) :
                backup' = [v \in 1 .. Slots |-> IF v \in gone THEN NoFile ELSE backup[v]]
          /\ prior' = backup
    /\ UNCHANGED <<target, clock, lock, locals, temp, copy, outcome, raced, environment>>

CopyCurrent(t) ==
    /\ target # NoFile
    /\ Goto(t, "copy", "compare")
    /\ copy' = [copy EXCEPT ![t] = target.content]
    /\ UNCHANGED <<disk, lock, locals, temp, outcome, history, environment>>

CompareCopy(t) ==
    /\ Goto(t, "compare", "oldest")
    /\ copy[t] = Reading(target)
    /\ UNCHANGED <<disk, lock, locals, temp, copy, outcome, history, environment>>

\* Mutation: the shift loop ends one backup early.
DropAndPublish(t) ==
    /\ Goto(t, "oldest", IF Limit <= 2 THEN "publish" ELSE "shift")
    /\ backup' = [backup EXCEPT ![Limit] = NoFile]
    /\ slot' = [slot EXCEPT ![t] = Limit - 1]
    /\ UNCHANGED <<target, clock, lock, op, pre, new, keeps, ident, temp, copy, outcome, history,
                   environment>>

DropOldest(t) ==
    /\ Goto(t, "oldest", IF Limit = 1 THEN "publish" ELSE "shift")
    /\ backup' = [backup EXCEPT ![Limit] = NoFile]
    /\ slot' = [slot EXCEPT ![t] = Limit - 1]
    /\ UNCHANGED <<target, clock, lock, op, pre, new, keeps, ident, temp, copy, outcome, history,
                   environment>>

\* os.replace(.bak.v, .bak.v+1), or nothing if .bak.v does not exist.
ShiftBackup(t) ==
    LET v == slot[t] IN
    /\ Goto(t, "shift", IF v = 1 THEN "publish" ELSE "shift")
    /\ backup' = IF backup[v] = NoFile THEN backup
                 ELSE [backup EXCEPT ![v + 1] = backup[v], ![v] = NoFile]
    /\ slot' = [slot EXCEPT ![t] = v - 1]
    /\ UNCHANGED <<target, clock, lock, op, pre, new, keeps, ident, temp, copy, outcome, history,
                   environment>>

PublishBackup(t) ==
    /\ Goto(t, "publish", "verify2")
    /\ backup' = [backup EXCEPT ![1] = copy[t]]
    /\ copy' = [copy EXCEPT ![t] = NoFile]
    /\ UNCHANGED <<target, clock, lock, locals, temp, outcome, history, environment>>

------------------------------------------------------------------------------
(* The environment: an external editor and crashes of the process.         *)

Edit ==
    /\ edits < EditLimit
    /\ edits' = edits + 1
    /\ \/ /\ clock' = clock + 1
          /\ \E c \in Incoming : target' = [content |-> c, stamp |-> clock + 1, by |-> Editor]
       \/ /\ target' = NoFile
          /\ UNCHANGED clock
    /\ target' # target
    /\ Race(Editor)
    /\ UNCHANGED <<backup, lock, pc, locals, temp, copy, outcome, prior, orphan, deleter, crashes>>

\* Every thread and every lock dies; the disk, temporary files included, stays.
Crash ==
    LET running == {t \in Txn : pc[t] \notin {"idle", "done"}} IN
    /\ crashes < CrashLimit
    /\ running # {}
    /\ crashes' = crashes + 1
    /\ pc' = [t \in Txn |-> IF t \in running THEN "done" ELSE pc[t]]
    /\ outcome' = [t \in Txn |-> IF t \in running /\ outcome[t] = "none" THEN "crashed"
                                  ELSE outcome[t]]
    /\ lock' = Free
    /\ orphan' = {}
    /\ deleter' = IF deleter = "idle" THEN "idle" ELSE "done"
    /\ UNCHANGED <<disk, locals, temp, copy, history, edits>>

------------------------------------------------------------------------------
(* What the lock does not stop.                                            *)

\* The task of the coroutine is cancelled by a new scan, an unload or a
\* script that stops: `async with` releases the lock at once, but the
\* executor thread it was waiting for goes on.
Cancel(t) ==
    /\ pc[t] \notin {"idle", "done"}
    /\ t \notin orphan
    /\ lock' = IF lock = t THEN Free ELSE lock
    /\ \/ /\ pc[t] \in Threaded
          /\ orphan' = orphan \cup {t}
          /\ UNCHANGED <<pc, outcome>>
       \/ /\ pc[t] \notin Threaded \ {"write"}    \* no thread yet, or no longer
          /\ pc' = [pc EXCEPT ![t] = "done"]
          /\ outcome' = [outcome EXCEPT ![t] = IF @ = "none" THEN "cancelled" ELSE @]
          /\ UNCHANGED orphan
    /\ UNCHANGED <<disk, locals, temp, copy, history, deleter, edits, crashes>>

\* remove_blueprint_and_backups, called by the repair flow without the lock:
\* first the file, then the backups found in one scan.  What cannot be
\* removed is logged and stays, the file included, and the rest goes on.
DeleteTarget ==
    /\ deleter = "idle"
    /\ deleter' = "backups"
    /\ target' \in {NoFile, target}
    /\ IF target' # target THEN Race(Editor) ELSE UNCHANGED raced
    /\ UNCHANGED <<backup, clock, lock, pc, locals, temp, copy, outcome, prior, orphan, edits,
                   crashes>>

DeleteBackups ==
    /\ deleter = "backups"
    /\ deleter' = "done"
    /\ \E left \in SUBSET (1 .. Slots) :
          backup' = [v \in 1 .. Slots |-> IF v \in left THEN backup[v] ELSE NoFile]
    /\ UNCHANGED <<target, clock, lock, pc, locals, temp, copy, outcome, history, orphan, edits,
                   crashes>>

------------------------------------------------------------------------------

Restore(t) == CapturePrecondition(t) \/ ReadBackup(t) \/ RejectBackup(t)

Rotate(t) ==
    \/ RemoveStale(t) \/ CopyCurrent(t) \/ CompareCopy(t)
    \/ DropOldest(t) \/ ShiftBackup(t) \/ PublishBackup(t)

Install(t) ==
    \/ WriteTemp(t) \/ Verify(t) \/ Mismatch(t) \/ Rotate(t)
    \/ VerifyAgain(t) \/ MismatchAgain(t) \/ Commit(t) \/ LinkRefused(t) \/ Fail(t)

Progress(t) == Acquire(t) \/ Refuse(t) \/ Restore(t) \/ Install(t) \/ Return(t)

\* Every transaction has ended and the environment has nothing left to do.
Ended ==
    /\ \A t \in Txn : pc[t] = "done"
    /\ UNCHANGED vars

Next == Edit \/ Crash \/ Ended \/ \E t \in Txn : Call(t) \/ Progress(t)

\* The lock as it is meant: no coroutine cancelled under its thread, no unlocked deletion.
Spec == Init /\ [][Next]_vars

\* The lock as it is: tasks are cancelled, and the repair flow deletes the blueprint.
Deletion == DeleteTarget \/ DeleteBackups
SpecUnlocked == Init /\ [][Next \/ Deletion \/ \E t \in Txn : Cancel(t)]_vars

\* The executor runs every submitted job and the event loop every ready
\* coroutine; asyncio.Lock wakes its waiters in order, and each call is made
\* once, so weak fairness of every transaction is enough.
SpecFair == SpecUnlocked /\ \A t \in Txn : WF_vars(Progress(t))

------------------------------------------------------------------------------
(* Properties.                                                             *)

Phases == {"idle", "waiting", "capture", "read", "return", "done"} \cup Threaded
Outcomes == {"none", "refused", "mismatch", "installed", "error", "crashed", "cancelled"}

\* The type of the state of BlueprintFileStore and of its callers.
TypeOK ==
    /\ target \in File \cup {NoFile}
    /\ backup \in [1 .. Slots -> Content \cup {NoFile}]
    /\ clock \in Nat
    /\ lock \in Txn \cup {Free}
    /\ pc \in [Txn -> Phases]
    /\ op \in [Txn -> {"install", "restore"}]
    /\ pre \in [Txn -> Content \cup {NoFile, Unchecked}]
    /\ new \in [Txn -> Content \cup {NoFile}]
    /\ keeps \in [Txn -> BOOLEAN]
    /\ ident \in [Txn -> Nat]
    /\ temp \in [Txn -> Content \cup {NoFile}]
    /\ copy \in [Txn -> Content \cup {NoFile}]
    /\ slot \in [Txn -> 0 .. Slots]
    /\ outcome \in [Txn -> Outcomes]
    /\ orphan \subseteq Txn
    /\ deleter \in {"idle", "backups", "done"}
    /\ prior \in [1 .. Slots -> Content \cup {NoFile}]
    /\ raced \subseteq Txn
    /\ edits \in 0 .. EditLimit
    /\ crashes \in 0 .. CrashLimit

\* Compare-and-swap (file_store.py:317-343): what a transaction is about to
\* replace is the very file its precondition describes, unless somebody wrote
\* it after the last check, in the one window the file system leaves open.
CommitIsExpected ==
    \A t \in Txn : pc[t] = "commit" /\ t \notin raced =>
        CASE pre[t] = NoFile    -> target = NoFile
          [] pre[t] = Unchecked -> TRUE
          [] OTHER -> target # NoFile /\ target.content = pre[t] /\ target.stamp = ident[t]

\* An install or a restore with a precondition never replaces what another
\* call of this integration wrote after it looked: that window is only open
\* to the outside.
NoLostInstall ==
    \A t \in Txn : pc[t] = "commit" /\ pre[t] \notin {NoFile, Unchecked} =>
        (target # NoFile /\ target.by \in Txn => target.stamp = ident[t])

\* "A requested backup is verified before the active blueprint is replaced"
\* (README.md:124): at the moment of the replacement, backup 1 holds the
\* content about to be replaced; a restore can therefore be undone.
BackupBeforeReplace ==
    \A t \in Txn :
        pc[t] = "commit" /\ t \notin raced /\ keeps[t] /\ ident[t] # None /\ target # NoFile =>
            backup[1] = target.content

\* However far rotate_backups got, at a crash or an error in the middle
\* included, only the oldest backup within the limit can be gone: every other
\* one is where it was or one number higher.
NewestSurvive ==
    \A v \in 1 .. Limit - 1 : prior[v] # NoFile => prior[v] \in {backup[v], backup[v + 1]}

\* Every call ends and leaves the transaction, whatever is cancelled or fails.
EveryCallEnds == \A t \in Txn : pc[t] = "waiting" ~> pc[t] = "done"

\* The register the callers may rely on: see RevisionedFile.
Revision == INSTANCE RevisionedFile WITH
    file <- Reading(target),
    writer <- IF target = NoFile THEN Editor ELSE target.by,
    expected <- pre,
    answer <- [t \in Txn |-> IF outcome[t] \in {"none", "installed"} THEN outcome[t]
                             ELSE "refused"]

\* Behind the lock, every step of the file store, crashes and outside edits
\* included, is a step of the compare-and-swap register or changes nothing.
ImplementsRevisionedFile == Revision!Spec
==============================================================================
