--------------------------- MODULE FileStoreProofs ---------------------------
(***************************************************************************)
(* Theorems about FileStore, for every set of calls, every number of       *)
(* backups and every bound.  What holds whatever is cancelled or deleted   *)
(* is proved of SpecUnlocked, what needs the lock is proved of Spec.       *)
(***************************************************************************)
EXTENDS FileStore, TLAPS

\* What a transaction carries through its segments: a content to write, a
\* temporary file to install, a backup number within the limit.
Carried ==
    \A t \in Txn :
        /\ pc[t] = "write" \/ (pc[t] = "waiting" /\ op[t] = "install") => new[t] \in Content
        /\ pc[t] \in Mutating \cup {"verify1"} => temp[t] \in Content
        /\ pc[t] = "shift" => slot[t] \in 1 .. Limit - 1

NextUnlocked == Next \/ Deletion \/ \E t \in Txn : Cancel(t)

------------------------------------------------------------------------------
(* Type correctness.                                                       *)

LEMMA ReadingType ==
    ASSUME NEW f \in File \cup {NoFile}
    PROVE  Reading(f) \in Content \cup {NoFile} /\ Identity(f) \in Nat
  BY DEF Reading, Identity, File, None

LEMMA InitType == Init => TypeOK
<1> SUFFICES ASSUME Init PROVE TypeOK
  OBVIOUS
<1>1. target \in File \cup {NoFile}
  BY IncomingAssumption DEF Init, File
<1>2. backup \in [1 .. Slots -> Content \cup {NoFile}] /\ prior = backup
  BY BackupsAssumption DEF Init
<1>3. slot \in [Txn -> 0 .. Slots] /\ edits \in 0 .. EditLimit /\ crashes \in 0 .. CrashLimit
  BY LimitAssumption, BoundAssumption DEF Init
<1>4. ident \in [Txn -> Nat] /\ clock \in Nat
  BY DEF Init, None
<1>5. /\ pc \in [Txn -> Phases]
      /\ outcome \in [Txn -> Outcomes]
      /\ pre \in [Txn -> Content \cup {NoFile, Unchecked}]
      /\ new \in [Txn -> Content \cup {NoFile}]
      /\ temp \in [Txn -> Content \cup {NoFile}]
      /\ copy \in [Txn -> Content \cup {NoFile}]
  BY DEF Init, Phases, Outcomes
<1>6. /\ lock \in Txn \cup {Free}
      /\ op \in [Txn -> {"install", "restore"}]
      /\ keeps \in [Txn -> BOOLEAN]
      /\ orphan \subseteq Txn
      /\ deleter \in {"idle", "backups", "done"}
      /\ raced \subseteq Txn
  BY DEF Init
<1> QED
  BY <1>1, <1>2, <1>3, <1>4, <1>5, <1>6 DEF TypeOK

\* The transactions keep the types.
LEMMA CallType == ASSUME TypeOK, NEW t \in Txn, Call(t) PROVE TypeOK'
<1>1. Reading(target) \in Content \cup {NoFile}
  BY ReadingType DEF TypeOK
<1>2. CASE op[t] = "install"
  <2>1. PICK c \in Incoming, b \in BOOLEAN, p \in {Reading(target), Unchecked} :
          /\ new' = [new EXCEPT ![t] = c]
          /\ keeps' = [keeps EXCEPT ![t] = b]
          /\ pre' = [pre EXCEPT ![t] = p]
    BY <1>2 DEF Call
  <2>2. c \in Content /\ p \in Content \cup {NoFile, Unchecked}
    BY <1>1, IncomingAssumption
  <2> QED
    BY <2>1, <2>2 DEF TypeOK, Call, Goto, Phases, disk, history, environment
<1>3. CASE op[t] = "restore"
  BY <1>3 DEF TypeOK, Call, Goto, Phases, disk, history, environment
<1> QED
  BY <1>2, <1>3 DEF TypeOK

LEMMA LockType == ASSUME TypeOK, NEW t \in Txn, Acquire(t) \/ Refuse(t) \/ Return(t) PROVE TypeOK'
  BY DEF TypeOK, Acquire, Refuse, Return, Goto, Phases, Threaded, Outcomes,
         disk, locals, history, environment

LEMMA RestoreType == ASSUME TypeOK, NEW t \in Txn, Restore(t) PROVE TypeOK'
<1>1. CASE CapturePrecondition(t)
  <2>1. pre' \in [Txn -> Content \cup {NoFile, Unchecked}]
    BY <1>1, ReadingType DEF TypeOK, CapturePrecondition
  <2> QED
    BY <1>1, <2>1 DEF TypeOK, CapturePrecondition, Goto, Phases, disk, history, environment
<1>2. CASE ReadBackup(t)
  <2>1. new' \in [Txn -> Content \cup {NoFile}]
    BY <1>2, LimitAssumption DEF TypeOK, ReadBackup
  <2> QED
    BY <1>2, <2>1 DEF TypeOK, ReadBackup, Goto, Phases, Threaded, disk, history, environment
<1>3. CASE RejectBackup(t)
  BY <1>3 DEF TypeOK, RejectBackup, Goto, Phases, Outcomes, disk, locals, history, environment
<1> QED
  BY <1>1, <1>2, <1>3 DEF Restore

LEMMA RotateType == ASSUME TypeOK, Carried, NEW t \in Txn, Rotate(t) PROVE TypeOK'
<1> USE DEF Goto, Phases, Threaded, Rotating, disk, locals, history, environment
<1>1. CASE RemoveStale(t)
  <2>1. /\ backup' \in [1 .. Slots -> Content \cup {NoFile}]
        /\ prior' \in [1 .. Slots -> Content \cup {NoFile}]
    BY <1>1 DEF TypeOK, RemoveStale
  <2> QED
    BY <1>1, <2>1 DEF TypeOK, RemoveStale
<1>2. CASE CopyCurrent(t)
  BY <1>2 DEF TypeOK, CopyCurrent, File
<1>3. CASE CompareCopy(t)
  BY <1>3 DEF TypeOK, CompareCopy
<1>4. CASE DropOldest(t)
  <2>1. slot' \in [Txn -> 0 .. Slots]
    BY <1>4, LimitAssumption DEF TypeOK, DropOldest
  <2> QED
    BY <1>4, <2>1 DEF TypeOK, DropOldest
<1>5. CASE ShiftBackup(t)
  <2>0. slot[t] \in 1 .. Limit - 1 /\ slot[t] + 1 \in 1 .. Slots
    BY <1>5, LimitAssumption DEF Carried, ShiftBackup
  <2>1. slot' \in [Txn -> 0 .. Slots]
    BY <1>5, <2>0, LimitAssumption DEF TypeOK, ShiftBackup
  <2>2. backup' \in [1 .. Slots -> Content \cup {NoFile}]
    <3>1. CASE backup[slot[t]] = NoFile
      BY <1>5, <3>1 DEF TypeOK, ShiftBackup
    <3>2. CASE backup[slot[t]] # NoFile
      <4>1. backup' = [backup EXCEPT ![slot[t] + 1] = backup[slot[t]], ![slot[t]] = NoFile]
        BY <1>5, <3>2 DEF ShiftBackup
      <4>2. backup[slot[t]] \in Content \cup {NoFile}
        BY <2>0, LimitAssumption DEF TypeOK
      <4> QED
        BY <4>1, <4>2 DEF TypeOK
    <3> QED
      BY <3>1, <3>2
  <2> QED
    BY <1>5, <2>1, <2>2 DEF TypeOK, ShiftBackup
<1>6. CASE PublishBackup(t)
  BY <1>6 DEF TypeOK, PublishBackup
<1> QED
  BY <1>1, <1>2, <1>3, <1>4, <1>5, <1>6 DEF Rotate

LEMMA InstallType == ASSUME TypeOK, Carried, NEW t \in Txn, Install(t) PROVE TypeOK'
<1> USE DEF Goto, Phases, Threaded, Rotating, Outcomes, Leave, disk, locals, history, environment
<1>1. CASE WriteTemp(t)
  BY <1>1 DEF TypeOK, WriteTemp
<1>2. CASE Verify(t)
  <2>1. ident' \in [Txn -> Nat]
    BY <1>2, ReadingType DEF TypeOK, Verify
  <2> QED
    BY <1>2, <2>1 DEF TypeOK, Verify
<1>3. CASE Mismatch(t) \/ MismatchAgain(t) \/ LinkRefused(t) \/ Fail(t)
  BY <1>3 DEF TypeOK, Mismatch, MismatchAgain, LinkRefused, Fail
<1>4. CASE VerifyAgain(t)
  BY <1>4 DEF TypeOK, VerifyAgain
<1>5. CASE Commit(t)
  <2>1. temp[t] \in Content
    BY <1>5 DEF Carried, Commit, Mutating
  <2>2. target' \in File
    BY <1>5, <2>1 DEF TypeOK, Commit, File
  <2>3. /\ outcome' \in [Txn -> Outcomes]
        /\ temp' \in [Txn -> Content \cup {NoFile}]
        /\ copy' \in [Txn -> Content \cup {NoFile}]
    BY <1>5 DEF TypeOK, Commit
  <2> QED
    BY <1>5, <2>2, <2>3 DEF TypeOK, Commit, Race
<1>6. CASE Rotate(t)
  BY <1>6, RotateType
<1> QED
  BY <1>1, <1>2, <1>3, <1>4, <1>5, <1>6 DEF Install

\* The environment keeps the types.
LEMMA EnvironmentType ==
    ASSUME TypeOK, Edit \/ Crash \/ Deletion \/ \E t \in Txn : Cancel(t)
    PROVE  TypeOK'
<1> USE DEF Phases, Race, disk, locals, history, environment
<1>1. CASE Edit
  <2>1. target' \in File \cup {NoFile} /\ clock' \in Nat
    BY <1>1, IncomingAssumption DEF TypeOK, Edit, File
  <2>2. edits' \in 0 .. EditLimit
    BY <1>1, BoundAssumption DEF TypeOK, Edit
  <2> QED
    BY <1>1, <2>1, <2>2 DEF TypeOK, Edit
<1>2. CASE Crash
  <2>1. crashes' \in 0 .. CrashLimit
    BY <1>2, BoundAssumption DEF TypeOK, Crash
  <2> QED
    BY <1>2, <2>1 DEF TypeOK, Crash, Outcomes
<1>3. CASE DeleteTarget
  BY <1>3 DEF TypeOK, DeleteTarget
<1>4. CASE DeleteBackups
  BY <1>4 DEF TypeOK, DeleteBackups
<1>5. ASSUME NEW t \in Txn, Cancel(t) PROVE TypeOK'
  BY <1>5 DEF TypeOK, Cancel, Outcomes
<1> QED
  BY <1>1, <1>2, <1>3, <1>4, <1>5 DEF Deletion

LEMMA NextType == ASSUME TypeOK, Carried, [NextUnlocked]_vars PROVE TypeOK'
<1>1. CASE UNCHANGED vars
  BY <1>1 DEF TypeOK, vars, disk, locals, history, environment
<1>2. CASE NextUnlocked
  BY <1>1, <1>2, CallType, LockType, RestoreType, InstallType, EnvironmentType
     DEF NextUnlocked, Next, Progress, Ended
<1> QED
  BY <1>1, <1>2

\* A transaction carries what its segments need.
LEMMA CarriedStep == ASSUME TypeOK, Carried, [NextUnlocked]_vars PROVE Carried'
<1> USE DEF Goto, Mutating, Rotating
<1> SUFFICES ASSUME NEW u \in Txn
             PROVE  /\ pc'[u] = "write" \/ (pc'[u] = "waiting" /\ op'[u] = "install")
                         => new'[u] \in Content
                    /\ pc'[u] \in Mutating \cup {"verify1"} => temp'[u] \in Content
                    /\ pc'[u] = "shift" => slot'[u] \in 1 .. Limit - 1
  BY DEF Carried
<1> DEFINE Holds == /\ pc'[u] = "write" \/ (pc'[u] = "waiting" /\ op'[u] = "install")
                         => new'[u] \in Content
                    /\ pc'[u] \in Mutating \cup {"verify1"} => temp'[u] \in Content
                    /\ pc'[u] = "shift" => slot'[u] \in 1 .. Limit - 1
<1>1. ASSUME NEW t \in Txn, Call(t) PROVE Holds
  <2>1. pc[t] = "idle" /\ pc' = [pc EXCEPT ![t] = "waiting"]
    BY <1>1 DEF Call
  <2>2. UNCHANGED <<op, temp, slot>> /\ \A x \in Txn \ {t} : new'[x] = new[x]
    BY <1>1 DEF Call, TypeOK
  <2>3. op[t] = "install" => new'[t] \in Content
    BY <1>1, IncomingAssumption DEF Call, TypeOK
  <2> QED
    BY <2>1, <2>2, <2>3 DEF TypeOK, Carried
<1>2. ASSUME NEW t \in Txn, Acquire(t) \/ Refuse(t) \/ Return(t) PROVE Holds
  BY <1>2 DEF Acquire, Refuse, Return, TypeOK, Carried, locals
<1>3. ASSUME NEW t \in Txn, Restore(t) PROVE Holds
  BY <1>3, LimitAssumption
     DEF Restore, CapturePrecondition, ReadBackup, RejectBackup, TypeOK, Carried, locals
<1>4. ASSUME NEW t \in Txn,
             Mismatch(t) \/ MismatchAgain(t) \/ Commit(t) \/ LinkRefused(t) \/ Fail(t)
      PROVE  Holds
  BY <1>4 DEF Mismatch, MismatchAgain, Commit, LinkRefused, Fail, Leave, TypeOK, Carried,
              locals, Threaded
<1>5. ASSUME NEW t \in Txn, WriteTemp(t) \/ Verify(t) \/ VerifyAgain(t) PROVE Holds
  BY <1>5 DEF WriteTemp, Verify, VerifyAgain, TypeOK, Carried, locals
<1>6. ASSUME NEW t \in Txn,
             RemoveStale(t) \/ CopyCurrent(t) \/ CompareCopy(t) \/ PublishBackup(t)
      PROVE  Holds
  BY <1>6 DEF RemoveStale, CopyCurrent, CompareCopy, PublishBackup, TypeOK, Carried, locals
<1>7. ASSUME NEW t \in Txn, DropOldest(t) PROVE Holds
  BY <1>7, LimitAssumption DEF DropOldest, TypeOK, Carried
<1>8. ASSUME NEW t \in Txn, ShiftBackup(t) PROVE Holds
  BY <1>8, LimitAssumption DEF ShiftBackup, TypeOK, Carried
<1>9. CASE Edit \/ Crash \/ Deletion
  BY <1>9 DEF Edit, Crash, Deletion, DeleteTarget, DeleteBackups, TypeOK, Carried, locals
<1>10. ASSUME NEW t \in Txn, Cancel(t) PROVE Holds
  BY <1>10 DEF Cancel, TypeOK, Carried, locals
<1>11. CASE UNCHANGED vars
  BY <1>11 DEF vars, locals, Carried
<1> QED
  BY <1>1, <1>2, <1>3, <1>4, <1>5, <1>6, <1>7, <1>8, <1>9, <1>10, <1>11
     DEF NextUnlocked, Next, Progress, Install, Rotate, Ended

\* Whatever is cancelled, deleted or crashes, the state of the file store and
\* of its callers has its type.
THEOREM TypeCorrect == SpecUnlocked => [](TypeOK /\ Carried)
<1>1. Init => TypeOK /\ Carried
  <2> SUFFICES ASSUME Init PROVE Carried
    BY InitType
  <2> QED
    BY DEF Init, Carried, Mutating, Rotating
<1>2. TypeOK /\ Carried /\ [NextUnlocked]_vars => (TypeOK /\ Carried)'
  BY NextType, CarriedStep
<1> QED
  BY <1>1, <1>2, PTL DEF SpecUnlocked, NextUnlocked

------------------------------------------------------------------------------
(* The per-path lock.                                                      *)

\* Inside `async with transaction`, that is, from the lock to its release.
Held == {"capture", "read", "return"} \cup Threaded

LockInv ==
    /\ \A t \in Txn : pc[t] \in Held => lock = t
    /\ deleter = "idle"

LEMMA LockStep == ASSUME TypeOK, LockInv, [Next]_vars PROVE LockInv'
<1> USE DEF Goto, Held, Threaded, Rotating
<1>1. ASSUME NEW t \in Txn, Call(t) PROVE LockInv'
  BY <1>1 DEF Call, TypeOK, LockInv, environment
<1>2. ASSUME NEW t \in Txn, Acquire(t) \/ Refuse(t) \/ Return(t) PROVE LockInv'
  BY <1>2, FreeAssumption DEF Acquire, Refuse, Return, TypeOK, LockInv, environment
<1>3. ASSUME NEW t \in Txn, Restore(t) PROVE LockInv'
  BY <1>3 DEF Restore, CapturePrecondition, ReadBackup, RejectBackup, TypeOK, LockInv,
              environment
<1>4. ASSUME NEW t \in Txn,
             WriteTemp(t) \/ Verify(t) \/ Mismatch(t) \/ VerifyAgain(t) \/ MismatchAgain(t)
      PROVE  LockInv'
  BY <1>4 DEF WriteTemp, Verify, Mismatch, VerifyAgain, MismatchAgain, TypeOK, LockInv,
              environment
<1>5. ASSUME NEW t \in Txn, Commit(t) \/ LinkRefused(t) \/ Fail(t) PROVE LockInv'
  BY <1>5 DEF Commit, LinkRefused, Fail, TypeOK, LockInv, environment
<1>6. ASSUME NEW t \in Txn, Rotate(t) PROVE LockInv'
  BY <1>6 DEF Rotate, RemoveStale, CopyCurrent, CompareCopy, DropOldest, ShiftBackup,
              PublishBackup, TypeOK, LockInv, environment
<1>7. CASE Edit
  BY <1>7 DEF Edit, LockInv
<1>8. CASE Crash
  BY <1>8 DEF Crash, TypeOK, LockInv
<1>9. CASE UNCHANGED vars
  BY <1>9 DEF vars, LockInv, environment
<1> QED
  BY <1>1, <1>2, <1>3, <1>4, <1>5, <1>6, <1>7, <1>8, <1>9
     DEF Next, Progress, Install, Ended

LEMMA InitLock == Init => LockInv
BY DEF Init, LockInv, Held, Threaded, Rotating

------------------------------------------------------------------------------
(* Compare-and-swap.                                                       *)

\* Stamps only grow, and the file that has the identity a transaction saw
\* has the content it saw.
Stamped ==
    /\ target # NoFile => target.stamp \in 1 .. clock
    /\ \A t \in Txn : ident[t] <= clock
    /\ \A t \in Txn : pc[t] \in Mutating /\ pre[t] \notin {NoFile, Unchecked} =>
          /\ ident[t] # None
          /\ (target # NoFile /\ target.stamp = ident[t] => target.content = pre[t])

LEMMA StampedStep ==
    ASSUME TypeOK, Stamped, [NextUnlocked]_vars
    PROVE  Stamped'
<1> USE DEF Goto, Mutating, Rotating
<1>1. ASSUME NEW t \in Txn, Call(t) \/ CapturePrecondition(t) PROVE Stamped'
  BY <1>1 DEF Call, CapturePrecondition, TypeOK, Stamped, disk
<1>2. ASSUME NEW t \in Txn, Acquire(t) \/ Refuse(t) \/ Return(t) PROVE Stamped'
  BY <1>2 DEF Acquire, Refuse, Return, TypeOK, Stamped, disk, locals
<1>3. ASSUME NEW t \in Txn, ReadBackup(t) \/ RejectBackup(t) PROVE Stamped'
  BY <1>3 DEF ReadBackup, RejectBackup, TypeOK, Stamped, disk, locals
<1>4. ASSUME NEW t \in Txn,
             WriteTemp(t) \/ Mismatch(t) \/ VerifyAgain(t) \/ MismatchAgain(t)
               \/ LinkRefused(t) \/ Fail(t)
      PROVE  Stamped'
  BY <1>4 DEF WriteTemp, Mismatch, VerifyAgain, MismatchAgain, LinkRefused, Fail, TypeOK,
              Stamped, disk, locals
<1>5. ASSUME NEW t \in Txn, Verify(t) PROVE Stamped'
  <2>1. ident' = [ident EXCEPT ![t] = Identity(target)] /\ UNCHANGED <<target, clock, pre>>
    BY <1>5 DEF Verify, disk
  <2>2. Identity(target) <= clock
    BY DEF Stamped, Identity, None, TypeOK
  <2>3. pre[t] \notin {NoFile, Unchecked} =>
          /\ Identity(target) # None
          /\ target # NoFile => target.content = pre[t]
    BY <1>5 DEF Verify, Expected, Reading, Identity, None, Stamped
  <2>4. \A u \in Txn \ {t} : pc'[u] = pc[u] /\ ident'[u] = ident[u]
    BY <1>5, <2>1 DEF Verify, TypeOK
  <2> QED
    BY <2>1, <2>2, <2>3, <2>4 DEF Stamped, TypeOK
<1>6. ASSUME NEW t \in Txn, Rotate(t) PROVE Stamped'
  BY <1>6 DEF Rotate, RemoveStale, CopyCurrent, CompareCopy, DropOldest, ShiftBackup,
              PublishBackup, TypeOK, Stamped, disk, locals
<1>7. ASSUME NEW t \in Txn, Commit(t) PROVE Stamped'
  <2>1. target'.stamp = clock + 1 /\ clock' = clock + 1 /\ UNCHANGED <<ident, pre>>
    BY <1>7 DEF Commit, locals
  <2>2. \A u \in Txn : pc'[u] \in Mutating => pc[u] \in Mutating
    BY <1>7 DEF Commit, TypeOK
  <2>3. \A u \in Txn : ident'[u] <= clock /\ ident'[u] \in Nat
    BY <2>1 DEF Stamped, TypeOK
  <2> QED
    BY <2>1, <2>2, <2>3 DEF Stamped, TypeOK
<1>8. CASE Edit
  <2>1. UNCHANGED <<ident, pre, pc>> /\ clock' \in {clock, clock + 1}
    BY <1>8 DEF Edit, locals
  <2>2. target' # NoFile => target'.stamp = clock + 1 /\ clock' = clock + 1
    BY <1>8 DEF Edit
  <2>3. \A u \in Txn : ident'[u] <= clock /\ ident'[u] \in Nat
    BY <2>1 DEF Stamped, TypeOK
  <2> QED
    BY <2>1, <2>2, <2>3 DEF Stamped, TypeOK
<1>9. CASE Crash \/ Deletion
  BY <1>9 DEF Crash, Deletion, DeleteTarget, DeleteBackups, TypeOK, Stamped, disk, locals
<1>10. ASSUME NEW t \in Txn, Cancel(t) PROVE Stamped'
  BY <1>10 DEF Cancel, TypeOK, Stamped, disk, locals
<1>11. CASE UNCHANGED vars
  BY <1>11 DEF vars, disk, locals, Stamped
<1> QED
  BY <1>1, <1>2, <1>3, <1>4, <1>5, <1>6, <1>7, <1>8, <1>9, <1>10, <1>11
     DEF NextUnlocked, Next, Progress, Restore, Install, Ended

\* Only the second verification lets a transaction commit, and every later
\* write of the file by somebody else is recorded in raced.
LEMMA CommitStep ==
    ASSUME TypeOK, Stamped, CommitIsExpected, [NextUnlocked]_vars
    PROVE  CommitIsExpected'
<1> USE DEF Goto
<1> DEFINE Fine(u) == CASE pre[u] = NoFile    -> target = NoFile
                        [] pre[u] = Unchecked -> TRUE
                        [] OTHER -> /\ target # NoFile
                                    /\ target.content = pre[u]
                                    /\ target.stamp = ident[u]
<1>1. ASSUME UNCHANGED <<target, raced>>,
             \A u \in Txn : pc'[u] = "commit" =>
                pc[u] = "commit" /\ pre'[u] = pre[u] /\ ident'[u] = ident[u]
      PROVE  CommitIsExpected'
  BY <1>1 DEF CommitIsExpected
<1>2. ASSUME NEW t \in Txn, Call(t) \/ Acquire(t) \/ Refuse(t) \/ Return(t) \/ Restore(t)
      PROVE  CommitIsExpected'
  BY <1>1, <1>2 DEF Call, Acquire, Refuse, Return, Restore, CapturePrecondition, ReadBackup,
                    RejectBackup, TypeOK, disk, locals, history
<1>3. ASSUME NEW t \in Txn,
             WriteTemp(t) \/ Verify(t) \/ Mismatch(t) \/ MismatchAgain(t)
               \/ LinkRefused(t) \/ Fail(t)
      PROVE  CommitIsExpected'
  BY <1>1, <1>3 DEF WriteTemp, Verify, Mismatch, MismatchAgain, LinkRefused, Fail, TypeOK,
                    disk, locals, history
<1>4. ASSUME NEW t \in Txn, Rotate(t) PROVE CommitIsExpected'
  BY <1>1, <1>4 DEF Rotate, RemoveStale, CopyCurrent, CompareCopy, DropOldest, ShiftBackup,
                    PublishBackup, TypeOK, disk, locals, history
<1>5. ASSUME NEW t \in Txn, VerifyAgain(t) PROVE CommitIsExpected'
  <2>1. Fine(t)
    <3>1. pre[t] \notin {NoFile, Unchecked} =>
            /\ ident[t] # None
            /\ (target # NoFile /\ target.stamp = ident[t] => target.content = pre[t])
      BY <1>5 DEF VerifyAgain, Stamped, Mutating
    <3> QED
      BY <1>5, <3>1 DEF VerifyAgain, Unmoved, Identity, None
  <2>2. UNCHANGED <<target, raced, pre, ident>> /\ \A u \in Txn \ {t} : pc'[u] = pc[u]
    BY <1>5 DEF VerifyAgain, TypeOK, disk, locals, history
  <2> QED
    BY <2>1, <2>2 DEF CommitIsExpected
<1>6. ASSUME NEW t \in Txn, Commit(t) PROVE CommitIsExpected'
  BY <1>6 DEF Commit, Race, TypeOK, CommitIsExpected
<1>7. CASE Edit \/ DeleteTarget
  <2>1. CASE target' # target
    BY <1>7, <2>1, EditorAssumption DEF Edit, DeleteTarget, Race, CommitIsExpected
  <2>2. CASE target' = target
    BY <1>1, <1>7, <2>2 DEF Edit, DeleteTarget, locals
  <2> QED
    BY <2>1, <2>2
<1>8. CASE Crash \/ DeleteBackups \/ \E t \in Txn : Cancel(t)
  BY <1>1, <1>8 DEF Crash, DeleteBackups, Cancel, TypeOK, disk, locals, history
<1>9. CASE UNCHANGED vars
  BY <1>1, <1>9 DEF vars, disk, locals, history
<1> QED
  BY <1>2, <1>3, <1>4, <1>5, <1>6, <1>7, <1>8, <1>9
     DEF NextUnlocked, Next, Progress, Install, Deletion, Ended

\* Whatever is cancelled, deleted or crashes, a call only replaces the very
\* revision it was prepared against, but for writes after its last check
\* (file_store.py:218-261, 321-343).
THEOREM CompareAndSwap == SpecUnlocked => []CommitIsExpected
<1>1. Init => Stamped /\ CommitIsExpected
  BY DEF Init, Stamped, CommitIsExpected, Mutating, Rotating, None
<1>2. TypeOK /\ Stamped /\ CommitIsExpected /\ [NextUnlocked]_vars
        => (Stamped /\ CommitIsExpected)'
  BY StampedStep, CommitStep
<1> QED
  BY <1>1, <1>2, TypeCorrect, PTL DEF SpecUnlocked, NextUnlocked

------------------------------------------------------------------------------
(* What the lock adds to the compare-and-swap.                             *)

\* From its first verification to its commit, a transaction can only lose the
\* file it saw to the outside.
Undisturbed ==
    \A t \in Txn : pc[t] \in Mutating /\ pre[t] \notin {NoFile, Unchecked} =>
        (target # NoFile /\ target.by \in Txn => target.stamp = ident[t])

LEMMA UndisturbedStep ==
    ASSUME TypeOK, LockInv, Undisturbed, [Next]_vars
    PROVE  Undisturbed'
<1> USE DEF Goto, Mutating, Rotating
<1>1. ASSUME UNCHANGED target,
             \A u \in Txn : pc'[u] \in Mutating =>
                pc[u] \in Mutating /\ pre'[u] = pre[u] /\ ident'[u] = ident[u]
      PROVE  Undisturbed'
  BY <1>1 DEF Undisturbed
<1>2. ASSUME NEW t \in Txn, Call(t) \/ Acquire(t) \/ Refuse(t) \/ Return(t) \/ Restore(t)
      PROVE  Undisturbed'
  BY <1>1, <1>2 DEF Call, Acquire, Refuse, Return, Restore, CapturePrecondition, ReadBackup,
                    RejectBackup, TypeOK, disk, locals
<1>3. ASSUME NEW t \in Txn,
             WriteTemp(t) \/ Mismatch(t) \/ VerifyAgain(t) \/ MismatchAgain(t)
               \/ LinkRefused(t) \/ Fail(t)
      PROVE  Undisturbed'
  BY <1>1, <1>3 DEF WriteTemp, Mismatch, VerifyAgain, MismatchAgain, LinkRefused, Fail,
                    TypeOK, disk, locals
<1>4. ASSUME NEW t \in Txn, Rotate(t) PROVE Undisturbed'
  BY <1>1, <1>4 DEF Rotate, RemoveStale, CopyCurrent, CompareCopy, DropOldest, ShiftBackup,
                    PublishBackup, TypeOK, disk, locals
<1>5. ASSUME NEW t \in Txn, Verify(t) PROVE Undisturbed'
  BY <1>5 DEF Verify, Identity, TypeOK, Undisturbed, disk
<1>6. ASSUME NEW t \in Txn, Commit(t) PROVE Undisturbed'
  <2>1. \A u \in Txn : pc'[u] \notin Mutating
    BY <1>6 DEF Commit, TypeOK, LockInv, Held, Threaded
  <2> QED
    BY <2>1 DEF Undisturbed
<1>7. CASE Edit
  BY <1>7, EditorAssumption DEF Edit, Undisturbed, locals
<1>8. CASE Crash
  BY <1>1, <1>8 DEF Crash, TypeOK, disk, locals
<1>9. CASE UNCHANGED vars
  BY <1>1, <1>9 DEF vars, disk, locals
<1> QED
  BY <1>2, <1>3, <1>4, <1>5, <1>6, <1>7, <1>8, <1>9 DEF Next, Progress, Install, Ended

\* The inductive invariant of the file store behind its lock.
Safe == TypeOK /\ Carried /\ LockInv /\ Stamped /\ Undisturbed

LEMMA SafeInvariant == Spec => []Safe
<1>1. Init => Safe
  <2> SUFFICES ASSUME Init PROVE Carried /\ Stamped /\ Undisturbed
    BY InitType, InitLock DEF Safe
  <2> QED
    BY DEF Init, Carried, Stamped, Undisturbed, Mutating, Rotating, None
<1>2. Safe /\ [Next]_vars => Safe'
  BY NextType, CarriedStep, LockStep, StampedStep, UndisturbedStep DEF Safe, NextUnlocked
<1> QED
  BY <1>1, <1>2, PTL DEF Spec

\* No install and no restore is lost to another one prepared before it.
THEOREM InstallsKept == Spec => []NoLostInstall
<1>1. Safe => NoLostInstall
  BY DEF Safe, Undisturbed, NoLostInstall, Mutating
<1> QED
  BY <1>1, SafeInvariant, PTL

------------------------------------------------------------------------------
(* Backups.                                                                *)

\* The copy a rotation makes is the file as it was first verified, or the
\* second verification will see that the file has changed.
Preserved ==
    \A t \in Txn : keeps[t] /\ ident[t] # None /\ target # NoFile /\ target.stamp = ident[t] =>
        /\ pc[t] \in {"compare", "oldest", "shift", "publish"} => copy[t] = target.content
        /\ pc[t] = "verify2" => backup[1] = target.content

LEMMA PreservedStep == ASSUME Safe, Preserved, [Next]_vars PROVE Preserved'
<1> USE DEF Goto
<1> DEFINE Copying == {"compare", "oldest", "shift", "publish", "verify2"}
<1>0. TypeOK /\ LockInv /\ Stamped
  BY DEF Safe
<1>1. ASSUME UNCHANGED <<target, backup>>,
             \A u \in Txn : pc'[u] \in Copying =>
                pc[u] = pc'[u] /\ keeps'[u] = keeps[u] /\ ident'[u] = ident[u] /\ copy'[u] = copy[u]
      PROVE  Preserved'
  BY <1>1 DEF Preserved
<1>2. ASSUME NEW t \in Txn, Call(t) \/ Acquire(t) \/ Refuse(t) \/ Return(t) \/ Restore(t)
      PROVE  Preserved'
  BY <1>0, <1>1, <1>2 DEF Call, Acquire, Refuse, Return, Restore, CapturePrecondition,
                          ReadBackup, RejectBackup, TypeOK, disk, locals
<1>3. ASSUME NEW t \in Txn,
             WriteTemp(t) \/ Mismatch(t) \/ VerifyAgain(t) \/ MismatchAgain(t)
               \/ LinkRefused(t) \/ Fail(t)
      PROVE  Preserved'
  BY <1>0, <1>1, <1>3 DEF WriteTemp, Mismatch, VerifyAgain, MismatchAgain, LinkRefused, Fail,
                          Leave, TypeOK, disk, locals
<1>4. ASSUME NEW t \in Txn, Verify(t) PROVE Preserved'
  <2>1. CASE keeps[t] /\ pre[t] # NoFile
    <3>1. pc' = [pc EXCEPT ![t] = "stale"] /\ UNCHANGED <<target, backup, keeps, copy>>
      BY <1>4, <2>1 DEF Verify, disk
    <3>2. \A u \in Txn \ {t} : ident'[u] = ident[u]
      BY <1>0, <1>4 DEF Verify, TypeOK
    <3> QED
      BY <1>0, <3>1, <3>2 DEF Preserved, TypeOK
  <2>2. CASE keeps[t] /\ pre[t] = NoFile
    <3>1. Identity(target) = None
      BY <1>0, <1>4, <2>2, NoFileAssumption, UncheckedAssumption
         DEF Verify, Expected, Reading, Identity, TypeOK, File
    <3>2. ident'[t] = None /\ \A u \in Txn \ {t} : ident'[u] = ident[u] /\ pc'[u] = pc[u]
      BY <1>0, <1>4, <3>1 DEF Verify, TypeOK
    <3> QED
      BY <1>4, <3>2 DEF Preserved, Verify, disk
  <2>3. CASE ~keeps[t]
    <3>1. \A u \in Txn \ {t} : ident'[u] = ident[u] /\ pc'[u] = pc[u]
      BY <1>0, <1>4 DEF Verify, TypeOK
    <3> QED
      BY <1>4, <2>3, <3>1 DEF Preserved, Verify, disk
  <2> QED
    BY <2>1, <2>2, <2>3
<1>5. ASSUME NEW t \in Txn, Rotate(t) PROVE Preserved'
  <2>0. /\ \A u \in Txn \ {t} : pc[u] \notin Copying /\ pc'[u] = pc[u]
        /\ UNCHANGED <<target, keeps, ident>>
    BY <1>0, <1>5 DEF Rotate, RemoveStale, CopyCurrent, CompareCopy, DropOldest, ShiftBackup,
                      PublishBackup, TypeOK, LockInv, Held, Threaded, Rotating, disk, locals
  <2> SUFFICES ASSUME keeps[t], ident[t] # None, target # NoFile, target.stamp = ident[t]
               PROVE  /\ pc'[t] \in {"compare", "oldest", "shift", "publish"}
                           => copy'[t] = target.content
                      /\ pc'[t] = "verify2" => backup'[1] = target.content
    BY <2>0 DEF Preserved
  <2>1. CASE RemoveStale(t) \/ CopyCurrent(t)
    BY <1>0, <2>1 DEF RemoveStale, CopyCurrent, TypeOK, disk
  <2>2. CASE CompareCopy(t) \/ DropOldest(t) \/ ShiftBackup(t)
    BY <1>0, <2>2 DEF CompareCopy, DropOldest, ShiftBackup, TypeOK, disk, Preserved
  <2>3. CASE PublishBackup(t)
    <3>1. 1 \in 1 .. Slots
      BY LimitAssumption
    <3> QED
      BY <1>0, <2>3, <3>1 DEF PublishBackup, TypeOK, Preserved
  <2> QED
    BY <1>5, <2>1, <2>2, <2>3 DEF Rotate
<1>6. ASSUME NEW t \in Txn, Commit(t) PROVE Preserved'
  <2>1. \A u \in Txn : pc'[u] \notin Copying
    BY <1>0, <1>6 DEF Commit, TypeOK, LockInv, Held, Threaded, Rotating
  <2> QED
    BY <2>1 DEF Preserved
<1>7. CASE Edit
  <2>1. target' # NoFile => target'.stamp = clock + 1
    BY <1>7 DEF Edit
  <2>2. \A u \in Txn : ident'[u] # clock + 1
    BY <1>0, <1>7 DEF Edit, Stamped, TypeOK, locals
  <2> QED
    BY <2>1, <2>2 DEF Preserved
<1>8. CASE Crash
  BY <1>0, <1>1, <1>8 DEF Crash, TypeOK, disk, locals
<1>9. CASE UNCHANGED vars
  BY <1>1, <1>9 DEF vars, disk, locals
<1> QED
  BY <1>2, <1>3, <1>4, <1>5, <1>6, <1>7, <1>8, <1>9 DEF Next, Progress, Install, Ended

LEMMA BackupStep ==
    ASSUME Safe, Preserved, BackupBeforeReplace, [Next]_vars
    PROVE  BackupBeforeReplace'
<1> USE DEF Goto
<1>0. TypeOK /\ LockInv /\ Stamped
  BY DEF Safe
<1>1. ASSUME UNCHANGED <<target, raced>>,
             \A u \in Txn : pc'[u] = "commit" =>
                /\ pc[u] = "commit" /\ keeps'[u] = keeps[u] /\ ident'[u] = ident[u]
                /\ UNCHANGED backup
      PROVE  BackupBeforeReplace'
  BY <1>1 DEF BackupBeforeReplace
<1>2. ASSUME NEW t \in Txn, Call(t) \/ Acquire(t) \/ Refuse(t) \/ Return(t) \/ Restore(t)
      PROVE  BackupBeforeReplace'
  BY <1>0, <1>1, <1>2 DEF Call, Acquire, Refuse, Return, Restore, CapturePrecondition,
                          ReadBackup, RejectBackup, TypeOK, disk, locals, history
<1>3. ASSUME NEW t \in Txn,
             WriteTemp(t) \/ Verify(t) \/ Mismatch(t) \/ MismatchAgain(t)
               \/ LinkRefused(t) \/ Fail(t)
      PROVE  BackupBeforeReplace'
  BY <1>0, <1>1, <1>3 DEF WriteTemp, Verify, Mismatch, MismatchAgain, LinkRefused, Fail, TypeOK,
                          disk, locals, history
<1>4. ASSUME NEW t \in Txn, Rotate(t) PROVE BackupBeforeReplace'
  <2>1. \A u \in Txn : pc'[u] # "commit"
    BY <1>0, <1>4 DEF Rotate, RemoveStale, CopyCurrent, CompareCopy, DropOldest, ShiftBackup,
                      PublishBackup, TypeOK, LockInv, Held, Threaded, Rotating
  <2> QED
    BY <2>1 DEF BackupBeforeReplace
<1>5. ASSUME NEW t \in Txn, VerifyAgain(t) PROVE BackupBeforeReplace'
  <2>1. ident[t] # None /\ target # NoFile => target.stamp = ident[t]
    BY <1>0, <1>5 DEF VerifyAgain, Unmoved, Identity, TypeOK, File, None, Stamped
  <2>2. keeps[t] /\ ident[t] # None /\ target # NoFile => backup[1] = target.content
    BY <1>5, <2>1 DEF VerifyAgain, Preserved
  <2>3. \A u \in Txn \ {t} : pc'[u] = pc[u]
    BY <1>0, <1>5 DEF VerifyAgain, TypeOK
  <2> QED
    BY <1>5, <2>2, <2>3 DEF VerifyAgain, BackupBeforeReplace, disk, locals, history
<1>6. ASSUME NEW t \in Txn, Commit(t) PROVE BackupBeforeReplace'
  <2>1. \A u \in Txn : pc'[u] # "commit"
    BY <1>0, <1>6 DEF Commit, TypeOK, LockInv, Held, Threaded
  <2> QED
    BY <2>1 DEF BackupBeforeReplace
<1>7. CASE Edit
  BY <1>7, EditorAssumption DEF Edit, Race, BackupBeforeReplace, locals
<1>8. CASE Crash
  BY <1>0, <1>1, <1>8 DEF Crash, TypeOK, disk, locals, history
<1>9. CASE UNCHANGED vars
  BY <1>1, <1>9 DEF vars, disk, locals, history
<1> QED
  BY <1>2, <1>3, <1>4, <1>5, <1>6, <1>7, <1>8, <1>9 DEF Next, Progress, Install, Ended

\* A requested backup of the very content that is replaced exists before the
\* replacement, for installs and for restores (README.md:124).
THEOREM BackedUp == Spec => []BackupBeforeReplace
<1>1. Init => Preserved /\ BackupBeforeReplace
  BY DEF Init, Preserved, BackupBeforeReplace
<1>2. Safe /\ Preserved /\ BackupBeforeReplace /\ [Next]_vars
        => (Preserved /\ BackupBeforeReplace)'
  BY PreservedStep, BackupStep
<1> QED
  BY <1>1, <1>2, SafeInvariant, PTL DEF Spec

\* During a shift, the backups up to the loop variable have not moved yet and
\* the others have; before it, none has, and once it is over, all have.
Shifting ==
    \A t \in Txn : \A v \in 1 .. Limit - 1 : prior[v] # NoFile =>
        /\ pc[t] \in {"copy", "compare", "oldest"} => backup[v] = prior[v]
        /\ pc[t] = "shift" => backup[IF v <= slot[t] THEN v ELSE v + 1] = prior[v]
        /\ pc[t] = "publish" => backup[v + 1] = prior[v]

LEMMA ShiftingStep ==
    ASSUME Safe, Shifting, NewestSurvive, [Next]_vars
    PROVE  (Shifting /\ NewestSurvive)'
<1> USE DEF Goto
<1> DEFINE Moving == {"copy", "compare", "oldest", "shift", "publish"}
<1>0. TypeOK /\ LockInv /\ Carried
  BY DEF Safe
<1>1. ASSUME UNCHANGED <<backup, prior>>,
             \A u \in Txn : pc'[u] \in Moving =>
                /\ slot'[u] = slot[u]
                /\ pc'[u] \in {"compare", "oldest"} => pc[u] \in {"copy", "compare", "oldest"}
                /\ pc'[u] \in {"copy", "shift", "publish"} => pc[u] = pc'[u]
      PROVE  (Shifting /\ NewestSurvive)'
  BY <1>1 DEF Shifting, NewestSurvive
<1>2. ASSUME NEW t \in Txn, Call(t) \/ Acquire(t) \/ Refuse(t) \/ Return(t) \/ Restore(t)
      PROVE  (Shifting /\ NewestSurvive)'
  BY <1>0, <1>1, <1>2 DEF Call, Acquire, Refuse, Return, Restore, CapturePrecondition,
                          ReadBackup, RejectBackup, TypeOK, disk, locals, history
<1>3. ASSUME NEW t \in Txn,
             WriteTemp(t) \/ Verify(t) \/ Mismatch(t) \/ VerifyAgain(t) \/ MismatchAgain(t)
               \/ LinkRefused(t) \/ Fail(t) \/ Commit(t)
      PROVE  (Shifting /\ NewestSurvive)'
  BY <1>0, <1>1, <1>3 DEF WriteTemp, Verify, Mismatch, VerifyAgain, MismatchAgain, LinkRefused,
                          Fail, Commit, TypeOK, disk, locals, history
<1>4. ASSUME NEW t \in Txn, Rotate(t) PROVE (Shifting /\ NewestSurvive)'
  <2>0. \A u \in Txn \ {t} : pc'[u] \notin Moving
    BY <1>0, <1>4 DEF Rotate, RemoveStale, CopyCurrent, CompareCopy, DropOldest, ShiftBackup,
                      PublishBackup, TypeOK, LockInv, Held, Threaded, Rotating
  <2>1. CASE CopyCurrent(t) \/ CompareCopy(t)
    BY <1>0, <1>1, <2>1 DEF CopyCurrent, CompareCopy, TypeOK, disk, locals, history
  <2> SUFFICES ASSUME NEW v \in 1 .. Limit - 1, prior'[v] # NoFile,
                      ~(CopyCurrent(t) \/ CompareCopy(t))
               PROVE  /\ pc'[t] \in {"copy", "compare", "oldest"} => backup'[v] = prior'[v]
                      /\ pc'[t] = "shift"
                           => backup'[IF v <= slot'[t] THEN v ELSE v + 1] = prior'[v]
                      /\ pc'[t] = "publish" => backup'[v + 1] = prior'[v]
                      /\ prior'[v] \in {backup'[v], backup'[v + 1]}
    BY <2>0, <2>1 DEF Shifting, NewestSurvive
  <2>2. /\ v \in 1 .. Slots /\ v + 1 \in 1 .. Slots
        /\ v < Limit /\ Limit \in 1 .. Slots /\ Limit > 1
        /\ 1 \in 1 .. Slots /\ v + 1 # 1
    BY LimitAssumption
  <2>3. CASE RemoveStale(t)
    <3>1. CASE target = NoFile
      BY <1>0, <2>3, <3>1 DEF RemoveStale, TypeOK, NewestSurvive
    <3>2. CASE target # NoFile
      <4>1. prior' = backup /\ pc' = [pc EXCEPT ![t] = "copy"]
        BY <2>3, <3>2 DEF RemoveStale
      <4>2. PICK gone \in SUBSET (Limit + 1 .. Slots) :
              backup' = [w \in 1 .. Slots |-> IF w \in gone THEN NoFile ELSE backup[w]]
        BY <2>3, <3>2 DEF RemoveStale
      <4>3. v \notin gone
        BY <2>2
      <4>4. backup'[v] = backup[v]
        BY <2>2, <4>2, <4>3
      <4> QED
        BY <1>0, <4>1, <4>4 DEF TypeOK
    <3> QED
      BY <3>1, <3>2
  <2>4. CASE DropOldest(t)
    <3>1. backup[v] = prior[v] /\ prior' = prior
      BY <2>4 DEF DropOldest, Shifting, history
    <3>2. backup'[v] = backup[v] /\ v <= slot'[t] /\ pc'[t] = "shift"
      BY <1>0, <2>2, <2>4 DEF DropOldest, TypeOK
    <3> QED
      BY <3>1, <3>2
  <2>5. CASE ShiftBackup(t)
    <3>0. prior' = prior /\ pc[t] = "shift" /\ slot'[t] = slot[t] - 1
      BY <1>0, <2>5 DEF ShiftBackup, TypeOK, history
    <3>1. slot[t] \in 1 .. Limit - 1 /\ slot[t] \in 1 .. Slots /\ slot[t] + 1 \in 1 .. Slots
      BY <1>0, <2>2, <3>0, LimitAssumption DEF Carried
    <3>2. backup[IF v <= slot[t] THEN v ELSE v + 1] = prior[v]
      BY <3>0 DEF Shifting
    <3>3. CASE v = slot[t]
      <4>1. backup'[v + 1] = prior[v]
        BY <1>0, <2>2, <2>5, <3>0, <3>2, <3>3 DEF ShiftBackup, TypeOK
      <4> QED
        BY <1>0, <2>5, <3>0, <3>1, <3>3, <4>1 DEF ShiftBackup, TypeOK
    <3>4. CASE v < slot[t]
      <4>1. backup'[v] = prior[v] /\ slot[t] # 1
        BY <1>0, <2>2, <2>5, <3>0, <3>1, <3>2, <3>4 DEF ShiftBackup, TypeOK
      <4> QED
        BY <1>0, <2>5, <3>0, <3>1, <3>4, <4>1 DEF ShiftBackup, TypeOK
    <3>5. CASE v > slot[t]
      <4>1. backup'[v + 1] = prior[v]
        BY <1>0, <2>2, <2>5, <3>0, <3>1, <3>2, <3>5 DEF ShiftBackup, TypeOK
      <4> QED
        BY <1>0, <2>5, <3>0, <3>1, <3>5, <4>1 DEF ShiftBackup, TypeOK
    <3> QED
      BY <3>1, <3>3, <3>4, <3>5
  <2>6. CASE PublishBackup(t)
    <3>1. backup[v + 1] = prior[v] /\ prior' = prior
      BY <2>6 DEF PublishBackup, Shifting, history
    <3>2. backup'[v + 1] = backup[v + 1] /\ pc'[t] = "verify2"
      BY <1>0, <2>2, <2>6 DEF PublishBackup, TypeOK
    <3> QED
      BY <3>1, <3>2
  <2> QED
    BY <1>4, <2>3, <2>4, <2>5, <2>6 DEF Rotate
<1>5. CASE Edit
  BY <1>1, <1>5 DEF Edit, locals
<1>6. CASE Crash
  BY <1>0, <1>1, <1>6 DEF Crash, TypeOK, disk, locals, history
<1>7. CASE UNCHANGED vars
  BY <1>1, <1>7 DEF vars, disk, locals, history
<1> QED
  BY <1>2, <1>3, <1>4, <1>5, <1>6, <1>7 DEF Next, Progress, Install, Ended

\* A rotation, wherever it stops, loses at most the oldest backup
\* (file_store.py:291-301).
THEOREM BackupsSurvive == Spec => []NewestSurvive
<1>1. Init => Shifting /\ NewestSurvive
  BY DEF Init, Shifting, NewestSurvive
<1>2. Safe /\ Shifting /\ NewestSurvive /\ [Next]_vars => (Shifting /\ NewestSurvive)'
  BY ShiftingStep
<1> QED
  BY <1>1, <1>2, SafeInvariant, PTL DEF Spec

------------------------------------------------------------------------------
(* The file store implements the compare-and-swap register.                *)

\* A call is answered when its thread is over.
Answered ==
    \A t \in Txn : pc[t] \notin {"return", "done"} => outcome[t] = "none"

LEMMA AnsweredStep == ASSUME TypeOK, Answered, [Next]_vars PROVE Answered'
<1> USE DEF Goto
<1>1. ASSUME NEW t \in Txn, Call(t) \/ Acquire(t) \/ Refuse(t) \/ Return(t) \/ Restore(t)
      PROVE  Answered'
  BY <1>1 DEF Call, Acquire, Refuse, Return, Restore, CapturePrecondition, ReadBackup,
              RejectBackup, TypeOK, Answered
<1>2. ASSUME NEW t \in Txn,
             WriteTemp(t) \/ Verify(t) \/ Mismatch(t) \/ VerifyAgain(t) \/ MismatchAgain(t)
               \/ LinkRefused(t) \/ Fail(t) \/ Commit(t)
      PROVE  Answered'
  BY <1>2 DEF WriteTemp, Verify, Mismatch, VerifyAgain, MismatchAgain, LinkRefused, Fail,
              Commit, Leave, TypeOK, Answered
<1>3. ASSUME NEW t \in Txn, Rotate(t) PROVE Answered'
  BY <1>3 DEF Rotate, RemoveStale, CopyCurrent, CompareCopy, DropOldest, ShiftBackup,
              PublishBackup, TypeOK, Answered
<1>4. CASE Edit \/ Crash \/ UNCHANGED vars
  BY <1>4 DEF Edit, Crash, vars, TypeOK, Answered
<1> QED
  BY <1>1, <1>2, <1>3, <1>4 DEF Next, Progress, Install, Ended

\* What RevisionedFile sees of a step.
Answer(t) == IF outcome[t] \in {"none", "installed"} THEN outcome[t] ELSE "refused"
Writer == IF target = NoFile THEN Editor ELSE target.by

LEMMA RegisterStep ==
    ASSUME Safe, Answered, NoLostInstall, CommitIsExpected, [Next]_vars
    PROVE  [Revision!Next]_(Revision!vars)
<1> USE DEF Goto
<1>0. TypeOK /\ Stamped /\ Carried
  BY DEF Safe
<1>1. ASSUME UNCHANGED <<target, pre, outcome>> PROVE UNCHANGED Revision!vars
  BY <1>1 DEF Revision!vars, Reading
<1>2. ASSUME NEW t \in Txn, Call(t) \/ CapturePrecondition(t)
      PROVE  Revision!Prepare(t) \/ UNCHANGED Revision!vars
  <2>1. UNCHANGED <<target, outcome>> /\ outcome[t] = "none"
    BY <1>2 DEF Call, CapturePrecondition, Answered, disk
  <2>2. CASE pre' = pre
    BY <1>1, <2>1, <2>2
  <2>3. CASE pre' # pre
    <3>1. \E e \in {Reading(target), Unchecked} : pre' = [pre EXCEPT ![t] = e]
      BY <1>2, <2>3 DEF Call, CapturePrecondition
    <3> QED
      BY <2>1, <3>1 DEF Revision!Prepare, Reading
  <2> QED
    BY <2>2, <2>3
<1>3. ASSUME UNCHANGED <<target, pre>>,
             \A t \in Txn : \/ outcome'[t] = outcome[t]
                            \/ outcome[t] = "none" /\ outcome'[t] \notin {"none", "installed"}
      PROVE  Revision!Refuse
  <2> DEFINE calls == {t \in Txn : outcome'[t] # outcome[t]}
  <2>1. calls \in SUBSET {t \in Txn : Answer(t) = "none"}
    BY <1>3 DEF Answer
  <2>2. \A t \in Txn : Answer(t)' = IF t \in calls THEN "refused" ELSE Answer(t)
    BY <1>3 DEF Answer
  <2> QED
    BY <1>3, <2>1, <2>2 DEF Revision!Refuse, Reading, Answer
<1>4. ASSUME NEW t \in Txn, Commit(t) PROVE Revision!Swap(t)
  <2>1. /\ target' = [content |-> temp[t], stamp |-> clock + 1, by |-> t]
        /\ pre' = pre
        /\ outcome[t] = "none"
        /\ pre[t] = NoFile => target = NoFile
    BY <1>4 DEF Commit, Answered, locals
  <2>2. temp[t] \in Content /\ target' \in File /\ target' # NoFile
    BY <1>0, <1>4, <2>1, NoFileAssumption DEF Commit, Carried, Mutating, TypeOK, File
  <2>3. Writer = Editor \/ pre[t] \in {Reading(target), Unchecked}
    <3>1. CASE pre[t] \in {NoFile, Unchecked}
      BY <2>1, <3>1 DEF Reading
    <3>2. CASE pre[t] \notin {NoFile, Unchecked} /\ target # NoFile /\ target.by \in Txn
      <4>1. target.stamp = ident[t]
        BY <1>4, <3>2 DEF Commit, NoLostInstall
      <4>2. target.content = pre[t]
        BY <1>0, <1>4, <3>2, <4>1 DEF Commit, Stamped, Mutating
      <4> QED
        BY <3>2, <4>2 DEF Reading
    <3>3. CASE target = NoFile \/ target.by \notin Txn
      BY <1>0, <3>3 DEF Writer, TypeOK, File
    <3> QED
      BY <3>1, <3>2, <3>3
  <2>4. Reading(target)' = temp[t] /\ Writer' = t
    BY <2>1, <2>2 DEF Reading, Writer
  <2>5. \E a \in {"installed", "refused"} :
          /\ a = "refused" => pre[t] = NoFile
          /\ [u \in Txn |-> Answer(u)]' = [[u \in Txn |-> Answer(u)] EXCEPT ![t] = a]
    <3>1. CASE outcome' = [outcome EXCEPT ![t] = "installed"]
      <4>1. [u \in Txn |-> Answer(u)]' = [[u \in Txn |-> Answer(u)] EXCEPT ![t] = "installed"]
        BY <1>0, <3>1 DEF Answer, TypeOK
      <4> QED
        BY <4>1
    <3>2. CASE pre[t] = NoFile /\ outcome' = [outcome EXCEPT ![t] = "error"]
      <4>1. [u \in Txn |-> Answer(u)]' = [[u \in Txn |-> Answer(u)] EXCEPT ![t] = "refused"]
        BY <1>0, <3>2 DEF Answer, TypeOK
      <4> QED
        BY <3>2, <4>1
    <3> QED
      BY <1>4, <3>1, <3>2 DEF Commit, Leave
  <2>6. pre[t] = NoFile => Reading(target) = NoFile
    BY <2>1 DEF Reading
  <2> QED
    BY <2>1, <2>2, <2>3, <2>4, <2>5, <2>6 DEF Revision!Swap, Writer, Answer
<1>5. CASE Edit
  <2>1. target' \in File \cup {NoFile} /\ (target' # NoFile => target'.by = Editor)
    BY <1>0, <1>5, IncomingAssumption DEF Edit, TypeOK, File
  <2>2. Reading(target)' \in Content \cup {NoFile} /\ Writer' = Editor
    BY <2>1 DEF Reading, Writer, File
  <2>3. UNCHANGED <<pre, outcome>>
    BY <1>5 DEF Edit, locals
  <2> QED
    BY <2>2, <2>3 DEF Revision!Outside, Revision!Next, Writer
<1>6. CASE Crash
  <2>1. \A t \in Txn : \/ outcome'[t] = outcome[t]
                       \/ outcome[t] = "none" /\ outcome'[t] \notin {"none", "installed"}
    BY <1>6 DEF Crash
  <2> QED
    BY <1>3, <1>6, <2>1 DEF Crash, disk, locals, Revision!Next
<1>7. ASSUME NEW t \in Txn,
             Refuse(t) \/ RejectBackup(t) \/ Mismatch(t) \/ MismatchAgain(t)
               \/ LinkRefused(t) \/ Fail(t)
      PROVE  Revision!Refuse
  <2>1. outcome[t] = "none" /\ \E how \in {"refused", "mismatch", "error"} :
                                  outcome' = [outcome EXCEPT ![t] = how]
    BY <1>7 DEF Refuse, RejectBackup, Mismatch, MismatchAgain, LinkRefused, Fail, Leave,
                Answered, Threaded, Rotating
  <2>2. UNCHANGED <<target, pre>>
    BY <1>7 DEF Refuse, RejectBackup, Mismatch, MismatchAgain, LinkRefused, Fail, disk, locals
  <2> QED
    BY <1>0, <1>3, <2>1, <2>2 DEF TypeOK
<1>8. ASSUME NEW t \in Txn,
             Acquire(t) \/ Return(t) \/ ReadBackup(t) \/ WriteTemp(t) \/ Verify(t)
               \/ VerifyAgain(t) \/ Rotate(t)
      PROVE  UNCHANGED Revision!vars
  BY <1>1, <1>8 DEF Acquire, Return, ReadBackup, WriteTemp, Verify, VerifyAgain, Rotate,
                    RemoveStale, CopyCurrent, CompareCopy, DropOldest, ShiftBackup,
                    PublishBackup, disk, locals
<1>9. CASE UNCHANGED vars
  BY <1>1, <1>9 DEF vars, disk, locals
<1> QED
  BY <1>2, <1>4, <1>5, <1>6, <1>7, <1>8, <1>9
     DEF Next, Progress, Restore, Install, Ended, Revision!Next

\* Behind its lock the file store is a compare-and-swap register: every step
\* of every install, restore, crash or outside edit is one of the register's
\* steps or none, for any number of calls, contents and backups.
THEOREM Refinement == Spec => ImplementsRevisionedFile
<1>1. Init => Revision!Init
  <2> SUFFICES ASSUME Init PROVE Revision!Init
    OBVIOUS
  <2>1. Reading(target) \in Content \cup {NoFile} /\ Writer = Editor
    BY IncomingAssumption DEF Init, Reading, Writer
  <2> QED
    BY <2>1 DEF Init, Revision!Init, Writer
<1>2. Init => Answered
  BY DEF Init, Answered
<1>3. Safe /\ Answered /\ [Next]_vars => Answered'
  BY AnsweredStep DEF Safe
<1>4. Safe /\ Answered /\ NoLostInstall /\ CommitIsExpected /\ [Next]_vars
        => [Revision!Next]_(Revision!vars)
  BY RegisterStep
<1>5. Spec => SpecUnlocked
  BY PTL DEF Spec, SpecUnlocked
<1> QED
  BY <1>1, <1>2, <1>3, <1>4, <1>5, SafeInvariant, InstallsKept, CompareAndSwap, PTL
     DEF Spec, ImplementsRevisionedFile, Revision!Spec
==============================================================================
