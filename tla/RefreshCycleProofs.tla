------------------------- MODULE RefreshCycleProofs -------------------------
(***************************************************************************)
(* Theorems about RefreshCycle, for all sets of refreshes, calls and       *)
(* operations, and for any number of versions.                             *)
(***************************************************************************)
EXTENDS RefreshCycle, TLAPS

\* What anybody can have read or fetched so far.
Published == 0 .. upstream

\* In these segments a task has a content to compare, to show or to install.
Carrying == {"decide", "blocked", "lock", "thread", "finish"}

\* A task in this segment carries what the source has published.  A refresh
\* remembers the file of its scan, and what it brings is not older: it was
\* served after the scan.
Fits(t, phase, j) ==
    /\ j.got \in Published \cup {None}
    /\ j.seen # Live => j.seen.body \in Published \cup {None}
    /\ phase \in Carrying => j.got # None
    /\ t \in Refresh /\ phase # "idle" => j.op = "refresh" /\ j.pre \in Published
    /\ t \in Refresh /\ j.got # None => j.pre \in Published /\ j.pre <= j.got

\* Nothing that may be installed comes from anywhere but the source, and a thread
\* that a refresh left behind installs nothing older than the file it expects.
Provenance ==
    /\ {file, upstream} \subseteq Published
    /\ {scan, entry.body} \subseteq Published \cup {None}
    /\ \A t \in Task : Fits(t, pc[t], job[t])
    /\ \A o \in orphans : o \in Published \X Published /\ o[2] <= o[1]

Sound == TypeOK /\ Provenance

LEMMA IdleFits == ASSUME NEW t \in Task PROVE Idle \in Job /\ Fits(t, "idle", Idle)
  BY DEF Idle, Job, Fits, Carrying

LEMMA InitSound == Init => Sound
<1> SUFFICES ASSUME Init PROVE Sound
  OBVIOUS
<1>1. /\ Version \subseteq Nat /\ 0 \in Version
      /\ upstream \in Version
      /\ Published \subseteq Version
  BY VersionsAssumption DEF Init, Version, Published
<1>2. PICK remote \in {None} \cup Published :
        entry = [local |-> 0, remote |-> remote, body |-> None,
                 etag |-> IF remote = 0 THEN remote ELSE None,
                 offer |-> remote \notin {None, 0}, preview |-> FALSE]
  BY DEF Init, Published
<1>3. entry \in Entry
  BY <1>1, <1>2 DEF Entry
<1>4. TypeOK
  BY <1>1, <1>3, IdleFits DEF Init, TypeOK, Task, Phase
<1>5. Provenance
  BY <1>1, <1>2, IdleFits DEF Init, Provenance, Published, Version
<1> QED
  BY <1>4, <1>5 DEF Sound
------------------------------------------------------------------------------
(* One task moves.                                                         *)

\* A step that leaves the other tasks and the source alone keeps the invariant, if
\* the job of the task fits and what it writes has been published.
LEMMA Move ==
    ASSUME Sound, NEW t \in Task, NEW phase \in Phase, NEW j \in Job,
           pc' = [pc EXCEPT ![t] = phase],
           job' = [job EXCEPT ![t] = j],
           Fits(t, phase, j),
           upstream' = upstream, auto' = auto, scan' = scan, newest' = newest,
           file' \in Published,
           entry' \in Entry, entry'.body \in Published \cup {None},
           lock' \in Task \cup {Free},
           orphans' \subseteq Published \X Published,
           \A o \in orphans' : o[2] <= o[1]
    PROVE  Sound'
<1>1. Published' = Published /\ Published \subseteq Version
  BY VersionsAssumption DEF Sound, TypeOK, Published, Version
<1>2. TypeOK'
  BY <1>1 DEF Sound, TypeOK
<1>3. \A s \in Task : Fits(s, pc[s], job[s])'
  BY <1>1 DEF Sound, Provenance, TypeOK, Fits
<1>4. Provenance'
  BY <1>1, <1>2, <1>3 DEF Sound, Provenance, TypeOK
<1> QED
  BY <1>2, <1>4 DEF Sound

\* What the lemmas about single steps start from.
LEMMA Known ==
    ASSUME Sound
    PROVE  /\ Published \subseteq Version /\ None \notin Published
           /\ upstream \in Published /\ file \in Published
           /\ scan \in Published \cup {None}
           /\ entry \in Entry /\ entry.body \in Published \cup {None}
           /\ lock \in Task \cup {Free}
           /\ orphans \subseteq Published \X Published
           /\ \A o \in orphans : o[2] <= o[1]
           /\ \A t \in Task : job[t] \in Job /\ pc[t] \in Phase /\ Fits(t, pc[t], job[t])
  BY VersionsAssumption, NoneAssumption
     DEF Sound, TypeOK, Provenance, Published, Version, Job, Phase

\* A task that leaves drops what it brought.
LEMMA LeaveFits ==
    ASSUME NEW t \in Task, Sound,
           NEW j, j = IF t \in Refresh THEN Idle ELSE [Idle EXCEPT !.op = job[t].op]
    PROVE  j \in Job /\ Fits(t, IF t \in Refresh THEN "idle" ELSE "fetched", j)
<1>1. job[t].op \in {"none", "refresh"} \cup Operation
  BY Known DEF Job
<1> QED
  BY <1>1, IdleFits DEF Idle, Job, Fits, Carrying

LEMMA LeaveSound ==
    ASSUME Sound, NEW t \in Task, NEW from, Leave(t, from),
           UNCHANGED <<upstream, auto, scan, newest>>,
           file' \in Published,
           entry' \in Entry, entry'.body \in Published \cup {None},
           lock' \in Task \cup {Free},
           orphans' \subseteq Published \X Published,
           \A o \in orphans' : o[2] <= o[1]
    PROVE  Sound'
<1> DEFINE j == IF t \in Refresh THEN Idle ELSE [Idle EXCEPT !.op = job[t].op]
           phase == IF t \in Refresh THEN "idle" ELSE "fetched"
<1>1. pc' = [pc EXCEPT ![t] = phase] /\ job' = [job EXCEPT ![t] = j]
  BY DEF Leave, Goto
<1>2. j \in Job /\ Fits(t, phase, j) /\ phase \in Phase
  BY LeaveFits DEF Phase
<1> HIDE DEF j, phase
<1> QED
  BY <1>1, <1>2, Move

\* A request takes along what the task remembers.
LEMMA AskSound ==
    ASSUME Sound, NEW t \in Task, NEW from, NEW etag \in Version \cup {None}, Ask(t, from, etag),
           t \in Refresh => from # "idle",
           UNCHANGED <<world, entry, auto, scan, newest, lock, orphans>>
    PROVE  Sound'
<1> DEFINE j == [Idle EXCEPT !.op = job[t].op, !.fetch = t \in Call, !.pre = job[t].pre,
                             !.seen = job[t].seen, !.sent = etag]
<1>1. pc' = [pc EXCEPT ![t] = "sent"] /\ job' = [job EXCEPT ![t] = j]
  BY DEF Ask, Goto
<1>2. job[t] \in Job /\ Fits(t, pc[t], job[t]) /\ pc[t] = from
  BY Known DEF Ask, Goto
<1>3. j \in Job
  <2>1. \A b \in BOOLEAN : [Idle EXCEPT !.op = job[t].op, !.fetch = b, !.pre = job[t].pre,
                                       !.seen = job[t].seen, !.sent = etag] \in Job
    BY <1>2 DEF Idle, Job
  <2>2. (t \in Call) \in BOOLEAN
    OBVIOUS
  <2> QED
    BY <2>1, <2>2, Zenon
<1>4. Fits(t, "sent", j)
  BY <1>2 DEF Fits, Idle, Carrying
<1> HIDE DEF j
<1> QED
  BY <1>1, <1>3, <1>4, Known, Move DEF Phase, world

\* Under the lock a job stays what it was, but for the file that a restore expects.
LEMMA PreparedFits ==
    ASSUME Sound, NEW t \in Task, NEW j \in Job, j.op # "restore" \/ t \in Call, Fits(t, "lock", j)
    PROVE  Prepared(j) \in Job /\ Fits(t, "thread", Prepared(j))
<1>1. file \in Version /\ entry.etag \in Version \cup {None}
  BY Known DEF Entry
<1>2. Prepared(j) = [j EXCEPT !.kept = Prepared(j).kept, !.pre = Prepared(j).pre]
  BY DEF Prepared, Job
<1>3. Prepared(j).kept \in Version \cup {None} /\ Prepared(j).pre \in Version \cup {None}
  BY <1>1 DEF Prepared, Job
<1>4. Fits(t, "thread", Prepared(j))
  BY TaskAssumption DEF Prepared, Fits, Job, Carrying
<1> QED
  BY <1>2, <1>3, <1>4 DEF Job

\* What it is to install does not change, and the ETag of the entry may go with it.
LEMMA PreparedAs ==
    ASSUME Sound, NEW j \in Job
    PROVE  /\ Prepared(j) \in Job
           /\ Prepared(j).got = j.got /\ Prepared(j).sent = j.sent
           /\ Prepared(j).kept \in {None, entry.etag}
<1>1. file \in Version /\ entry.etag \in Version \cup {None}
  BY Known DEF Entry
<1>2. PICK kept \in {None, entry.etag}, pre \in {file, j.pre} :
         Prepared(j) = [j EXCEPT !.kept = kept, !.pre = pre]
  BY DEF Prepared, Job
<1> QED
  BY <1>1, <1>2 DEF Job

\* Whoever comes to the path lock brings a content, and the file it expects.
LEMMA EnterSound ==
    ASSUME Sound, NEW t \in Task, NEW from, NEW j \in Job, Enter(t, from, j),
           j.op # "restore" \/ t \in Call,
           Fits(t, "lock", j),
           UNCHANGED <<world, entry, auto, scan, newest, orphans>>
    PROVE  Sound'
<1> DEFINE phase == IF LockFree THEN "thread" ELSE "lock"
           k == IF LockFree THEN Prepared(j) ELSE j
<1>1. pc' = [pc EXCEPT ![t] = phase] /\ job' = [job EXCEPT ![t] = k]
  BY DEF Enter
<1>2. k \in Job /\ Fits(t, phase, k) /\ phase \in Phase
  BY PreparedFits DEF Phase
<1>3. lock' \in Task \cup {Free}
  BY Known DEF Enter
<1> HIDE DEF phase, k
<1> QED
  BY <1>1, <1>2, <1>3, Known, Move DEF world
------------------------------------------------------------------------------
(* The steps.                                                              *)

LEMMA PublishSound == ASSUME Sound, Publish PROVE Sound'
<1>1. Published \subseteq Published' /\ upstream' \in Version /\ upstream' \in Published'
  BY VersionsAssumption DEF Sound, TypeOK, Publish, Published, Version
<1>2. TypeOK'
  BY <1>1 DEF Sound, TypeOK, Publish
<1>3. \A t \in Task : Fits(t, pc[t], job[t])'
  <2> TAKE t \in Task
  <2>1. Fits(t, pc[t], job[t]) /\ pc' = pc /\ job' = job
    BY DEF Sound, Provenance, Publish
  <2> QED
    BY <1>1, <2>1 DEF Fits
<1>4. Provenance'
  BY <1>1, <1>3 DEF Sound, Provenance, Publish
<1> QED
  BY <1>2, <1>4 DEF Sound

LEMMA ScanReadsSound == ASSUME Sound, ScanReads PROVE Sound'
<1>1. TypeOK'
  BY DEF Sound, TypeOK, ScanReads, world
<1>2. Provenance'
  BY DEF Sound, Provenance, ScanReads, world, Fits, Published
<1> QED
  BY <1>1, <1>2 DEF Sound

\* A scan moves its refresh, and gives a copy of the old entry to the calls.
LEMMA ScanEndsSound == ASSUME Sound, NEW r \in Refresh, ScanEnds(r) PROVE Sound'
<1> DEFINE new == [Idle EXCEPT !.op = "refresh", !.pre = scan]
<1>1. scan \in Published /\ scan \in Version
  BY Known DEF ScanEnds
<1>2. Merged(scan) \in Entry /\ Merged(scan).body = entry.body
  BY <1>1, Known DEF Merged, Entry
<1>3. new \in Job /\ Fits(r, "queued", new)
  BY <1>1 DEF new, Job, Idle, Fits, Carrying
<1>4. ASSUME NEW c \in Call
      PROVE  Detached[c] \in Job /\ Fits(c, pc[c], Detached[c])
  <2>1. job[c] \in Job /\ Fits(c, pc[c], job[c]) /\ entry \in Entry
    BY Known DEF Task
  <2>2. c \notin Refresh
    BY TaskAssumption
  <2>3. Glance(entry) \in [local : Version, body : Version \cup {None}]
        /\ Glance(entry).body = entry.body
    BY <2>1 DEF Glance, Entry
  <2>4. [job[c] EXCEPT !.seen = Glance(entry)] \in Job
    BY <2>1, <2>3 DEF Job
  <2>5. Fits(c, pc[c], [job[c] EXCEPT !.seen = Glance(entry)])
    BY <2>1, <2>2, <2>3, Known DEF Fits, Job
  <2> QED
    BY <2>1, <2>4, <2>5 DEF Detached
<1>5. ASSUME NEW t \in Task
      PROVE  job'[t] \in Job /\ pc'[t] \in Phase /\ Fits(t, pc'[t], job'[t])
  <2>1. job'[t] = IF t = r THEN new ELSE IF t \in Call THEN Detached[t] ELSE job[t]
    BY DEF ScanEnds
  <2>2. pc'[t] = IF t = r THEN "queued" ELSE pc[t]
    BY DEF ScanEnds, Sound, TypeOK
  <2>3. job[t] \in Job /\ pc[t] \in Phase /\ Fits(t, pc[t], job[t])
    BY Known
  <2>4. r \notin Call
    BY TaskAssumption
  <2> HIDE DEF new
  <2>5. CASE t = r
    BY <1>3, <2>1, <2>2, <2>5 DEF Phase
  <2>6. CASE t # r /\ t \in Call
    BY <1>4, <2>1, <2>2, <2>3, <2>6
  <2>7. CASE t # r /\ t \notin Call
    BY <2>1, <2>2, <2>3, <2>7
  <2> QED
    BY <2>5, <2>6, <2>7
<1>6. job' \in [Task -> Job] /\ pc' \in [Task -> Phase]
  <2>1. job' = [t \in Task |-> job'[t]]
    BY DEF ScanEnds
  <2>2. pc' = [t \in Task |-> pc'[t]]
    BY DEF ScanEnds, Sound, TypeOK
  <2> QED
    BY <1>5, <2>1, <2>2
<1>7. TypeOK'
  BY <1>2, <1>6 DEF ScanEnds, Sound, TypeOK, world
<1>8. Provenance'
  <2>1. Published' = Published
    BY DEF ScanEnds, Published, world
  <2>2. \A t \in Task : Fits(t, pc[t], job[t])'
    BY <1>5, <2>1 DEF Fits
  <2> QED
    BY <1>2, <2>1, <2>2 DEF ScanEnds, Sound, Provenance, world
<1> QED
  BY <1>7, <1>8 DEF Sound

LEMMA TakeSound == ASSUME Sound, NEW r \in Refresh, Take(r) PROVE Sound'
<1>1. r \in Task /\ entry.etag \in Version \cup {None}
  BY Known DEF Task, Entry
<1>2. CASE Leave(r, "queued")
  BY <1>1, <1>2, Known, LeaveSound DEF Take, world
<1>3. CASE Ask(r, "queued", IF entry.remote # None THEN entry.etag ELSE None)
  BY <1>1, <1>3, AskSound DEF Take
<1> QED
  BY <1>2, <1>3 DEF Take

\* The thread that stays behind installs nothing older than the file it expects.
LEMMA CancelWorkerSound == ASSUME Sound, NEW r \in Refresh, CancelWorker(r) PROVE Sound'
<1>1. r \in Task /\ Fits(r, pc[r], job[r])
  BY Known DEF Task
<1>2. pc[r] = "thread" => /\ <<job[r].got, job[r].pre>> \in Published \X Published
                          /\ job[r].pre <= job[r].got
  BY <1>1 DEF Fits, Carrying
<1>3. /\ orphans' \subseteq Published \X Published
      /\ \A o \in orphans' : o[2] <= o[1]
  BY <1>2, Known DEF CancelWorker
<1> QED
  BY <1>1, <1>3, Known, LeaveSound DEF CancelWorker, world

LEMMA OrphanEndsSound == ASSUME Sound, NEW o \in orphans, OrphanEnds(o) PROVE Sound'
<1>1. file' \in Published /\ Published' = Published /\ Published \subseteq Version
  BY Known DEF OrphanEnds, Published
<1>2. TypeOK'
  BY <1>1 DEF OrphanEnds, Sound, TypeOK
<1>3. \A t \in Task : Fits(t, pc[t], job[t])'
  <2> TAKE t \in Task
  <2>1. Fits(t, pc[t], job[t]) /\ pc' = pc /\ job' = job
    BY DEF Sound, Provenance, OrphanEnds
  <2> QED
    BY <1>1, <2>1 DEF Fits
<1>4. Provenance'
  BY <1>1, <1>3 DEF OrphanEnds, Sound, Provenance
<1> QED
  BY <1>2, <1>4 DEF Sound

\* An entry that is given other hashes keeps its type, and offers what was published.
LEMMA Rewritten ==
    ASSUME Sound, NEW t \in Task, pc[t] \in Carrying
    PROVE  /\ Shown(t) \in Entry
           /\ Shown(t).body \in Published \cup {None}
           /\ job[t].got \in Published
  BY Known DEF Shown, Entry, Fits, Job

\* The answer brings nothing, or the content of the source with some ETag.
LEMMA Answer ==
    ASSUME Sound, NEW t \in Task, Serve(t)
    PROVE  \E j \in Job :
              /\ job' = [job EXCEPT ![t] = j]
              /\ \/ j = job[t] /\ job[t].sent = upstream
                 \/ \E etag \in {upstream, job[t].sent} :
                       j = [job[t] EXCEPT !.sent = etag, !.got = upstream]
<1>1. job[t] \in Job /\ upstream \in Version /\ job \in [Task -> Job]
  BY Known DEF Sound, TypeOK
<1>2. CASE job[t].sent = upstream /\ job' = job
  BY <1>1, <1>2
<1>3. CASE \E etag \in {upstream} \cup (IF Untagged THEN {job[t].sent} ELSE {}) :
                job' = [job EXCEPT ![t].sent = etag, ![t].got = upstream]
  <2>1. PICK etag \in {upstream, job[t].sent} :
             job' = [job EXCEPT ![t].sent = etag, ![t].got = upstream]
    BY <1>3
  <2> DEFINE j == [job[t] EXCEPT !.sent = etag, !.got = upstream]
  <2>2. j \in Job /\ job' = [job EXCEPT ![t] = j]
    BY <1>1, <2>1 DEF Job
  <2> QED
    BY <2>2
<1> QED
  BY <1>2, <1>3 DEF Serve

LEMMA ServeSound == ASSUME Sound, NEW t \in Task, Serve(t) PROVE Sound'
<1>1. job[t] \in Job /\ Fits(t, "sent", job[t])
  BY Known DEF Serve, Goto
<1>2. PICK j \in Job :
          /\ job' = [job EXCEPT ![t] = j]
          /\ \/ j = job[t]
             \/ \E etag \in {upstream, job[t].sent} :
                   j = [job[t] EXCEPT !.sent = etag, !.got = upstream]
  BY Answer
<1>3. Fits(t, "served", j)
  <2>1. /\ j.got \in {job[t].got, upstream} /\ j.pre = job[t].pre /\ j.seen = job[t].seen
        /\ j.op = job[t].op
    BY <1>1, <1>2 DEF Job
  <2>2. upstream \in Published /\ \A v \in Published : v <= upstream
    BY Known DEF Published
  <2> QED
    BY <1>1, <2>1, <2>2 DEF Fits, Carrying
<1> QED
  BY <1>2, <1>3, Known, Move DEF Serve, Goto, Phase, world

LEMMA FetchFailsSound == ASSUME Sound, NEW t \in Task, FetchFails(t) PROVE Sound'
<1>1. entry' \in Entry /\ entry'.body \in Published \cup {None}
  BY Known DEF FetchFails, Entry
<1> QED
  BY <1>1, Known, LeaveSound DEF FetchFails, world

LEMMA ObsoleteSound == ASSUME Sound, NEW t \in Task, Obsolete(t) PROVE Sound'
  BY Known, LeaveSound DEF Obsolete, world

LEMMA NotModifiedSound == ASSUME Sound, NEW t \in Task, NotModified(t) PROVE Sound'
<1>1. job[t] \in Job /\ Fits(t, "served", job[t])
  BY Known DEF NotModified
<1>2. entry' \in Entry /\ entry'.body \in Published \cup {None}
  <2>1. \A b \in BOOLEAN :
           LET e == [entry EXCEPT !.etag = job[t].sent, !.offer = b]
           IN  e \in Entry /\ e.body \in Published \cup {None}
    BY <1>1, Known DEF Entry, Job
  <2>2. PICK b \in BOOLEAN : entry' = [entry EXCEPT !.etag = job[t].sent, !.offer = b]
    <3>1. (entry.remote # None /\ entry.remote # Local(t)) \in BOOLEAN
      OBVIOUS
    <3>2. entry.offer \in BOOLEAN
      BY Known DEF Entry
    <3> QED
      BY <3>1, <3>2, Zenon DEF NotModified
  <2> QED
    BY <2>1, <2>2
<1>3. CASE Leave(t, "served")
  BY <1>2, <1>3, Known, LeaveSound DEF NotModified, world
<1>4. CASE Goto(t, "served", "sent") /\ job' = [job EXCEPT ![t].sent = None]
  <2> DEFINE j == [job[t] EXCEPT !.sent = None]
  <2>1. j \in Job /\ Fits(t, "sent", j)
    BY <1>1 DEF Job, Fits, Carrying
  <2>2. job' = [job EXCEPT ![t] = j]
    BY <1>4
  <2> HIDE DEF j
  <2> QED
    BY <1>2, <1>4, <2>1, <2>2, Known, Move DEF NotModified, Goto, Phase, world
<1> QED
  BY <1>3, <1>4 DEF NotModified

LEMMA JudgeSound == ASSUME Sound, NEW t \in Task, Judge(t) PROVE Sound'
<1> DEFINE j == [job[t] EXCEPT !.judged = job[t].got # Local(t)]
<1>1. job[t] \in Job /\ Fits(t, "served", job[t]) /\ job[t].got # None
  BY Known DEF Judge, Goto
<1>2. j \in Job
  <2>1. \A b \in BOOLEAN : [job[t] EXCEPT !.judged = b] \in Job
    BY <1>1 DEF Job
  <2>2. (job[t].got # Local(t)) \in BOOLEAN
    OBVIOUS
  <2> QED
    BY <2>1, <2>2, Zenon
<1>3. Fits(t, "decide", j)
  BY <1>1 DEF Fits, Carrying, Job
<1>4. job' = [job EXCEPT ![t] = j]
  BY DEF Judge
<1> HIDE DEF j
<1> QED
  BY <1>2, <1>3, <1>4, Known, Move DEF Judge, Goto, Phase, world

LEMMA ShowSound ==
    ASSUME Sound, NEW t \in Task, ShowInvalid(t) \/ Show(t) \/ Blocked(t)
    PROVE  Sound'
<1>1. pc[t] \in Carrying /\ job[t].got \in Published
  BY Rewritten DEF ShowInvalid, Show, Blocked, Leave, Goto, Carrying
<1>2. entry' \in Entry /\ entry'.body \in Published \cup {None}
  <2>1. CASE ShowInvalid(t)
    BY <1>1, <2>1, Known DEF ShowInvalid, Entry, Job
  <2>2. CASE Show(t) \/ Blocked(t)
    BY <1>1, <2>2, Rewritten DEF Show, Blocked
  <2> QED
    BY <2>1, <2>2
<1> QED
  BY <1>2, Known, LeaveSound DEF ShowInvalid, Show, Blocked, world

LEMMA AutoUpdateSound == ASSUME Sound, NEW t \in Task, AutoUpdate(t) PROVE Sound'
<1> DEFINE j == [job[t] EXCEPT !.pre = Local(t)]
<1>1. job[t] \in Job /\ Fits(t, "decide", job[t])
  BY Known DEF AutoUpdate, Enter
<1>2. Local(t) \in Version \cup {None} /\ (t \in Refresh => Local(t) = job[t].pre)
  BY <1>1, Known DEF Local, Held, Glance, Job, Entry
<1>3. j \in Job /\ (j.op # "restore" \/ t \in Call)
  BY <1>1, <1>2 DEF Job, Fits, Task
<1>4. Fits(t, "lock", j)
  BY <1>1, <1>2 DEF Fits, Carrying, Job
<1>5. Enter(t, "decide", j)
  BY DEF AutoUpdate
<1> HIDE DEF j
<1> QED
  BY <1>3, <1>4, <1>5, EnterSound DEF AutoUpdate

LEMMA BlockSound == ASSUME Sound, NEW t \in Task, Block(t) PROVE Sound'
<1>1. job[t] \in Job /\ Fits(t, "blocked", job[t])
  BY Known DEF Block, Goto, Fits, Carrying
<1>2. job' = [job EXCEPT ![t] = job[t]]
  BY DEF Block, Sound, TypeOK
<1> QED
  BY <1>1, <1>2, Known, Move DEF Block, Goto, Phase, world

LEMMA UpdateInPlaceSound == ASSUME Sound, NEW t \in Task, UpdateInPlace(t) PROVE Sound'
  BY ServeSound, FetchFailsSound, ObsoleteSound, NotModifiedSound, JudgeSound, ShowSound,
     AutoUpdateSound, BlockSound DEF UpdateInPlace

LEMMA AcquireSound == ASSUME Sound, NEW t \in Task, Acquire(t) PROVE Sound'
<1> DEFINE j == Prepared(job[t])
<1>1. job[t] \in Job /\ Fits(t, "lock", job[t])
  BY Known DEF Acquire, Goto
<1>2. j \in Job /\ Fits(t, "thread", j)
  BY <1>1, PreparedFits DEF Fits, Task
<1>3. job' = [job EXCEPT ![t] = j]
  BY DEF Acquire
<1> HIDE DEF j
<1> QED
  BY <1>2, <1>3, Known, Move DEF Acquire, Goto, Phase, world

LEMMA CommitSound == ASSUME Sound, NEW t \in Task, Commit(t) PROVE Sound'
<1>1. job[t] \in Job /\ Fits(t, "finish", job[t]) /\ job[t].got \in Published
  BY Known, Rewritten DEF Commit, Goto, Fits, Carrying
<1>2. job' = [job EXCEPT ![t] = job[t]]
  BY DEF Commit, Sound, TypeOK
<1> QED
  BY <1>1, <1>2, Known, Move DEF Commit, Goto, Phase

\* Whatever a transaction ends with is forgotten.
LEMMA ReturnSound ==
    ASSUME Sound, NEW t \in Task, NEW from, Return(t, from),
           UNCHANGED <<world, auto, scan, newest, orphans>>,
           entry' \in Entry, entry'.body \in Published \cup {None},
           lock' = Free
    PROVE  Sound'
<1>1. CASE Leave(t, from)
  BY <1>1, Known, LeaveSound DEF world
<1>2. CASE Goto(t, from, "idle") /\ job' = [job EXCEPT ![t] = Idle]
  BY <1>2, Known, IdleFits, Move DEF Goto, Phase, world
<1> QED
  BY <1>1, <1>2 DEF Return

LEMMA EndSound == ASSUME Sound, NEW t \in Task, InstallFails(t) \/ Finish(t) PROVE Sound'
<1>1. job[t].got \in Published /\ job[t] \in Job /\ pc[t] \in {"thread", "finish"}
  BY Known, Rewritten DEF InstallFails, Finish, Return, Leave, Goto, Carrying
<1>2. entry' \in Entry /\ entry'.body \in Published \cup {None}
  <2>1. CASE InstallFails(t)
    BY <1>1, <2>1, Known DEF InstallFails, Entry, Job
  <2>2. CASE Finish(t)
    BY <1>1, <2>2, Known DEF Finish, Entry, Job
  <2> QED
    BY <2>1, <2>2
<1> QED
  BY <1>2, ReturnSound DEF InstallFails, Finish

LEMMA TransactionSound == ASSUME Sound, NEW t \in Task, Transaction(t) PROVE Sound'
<1>1. CASE TooLate(t)
  BY <1>1, Known, LeaveSound DEF TooLate, world
<1> QED
  BY <1>1, AcquireSound, CommitSound, EndSound DEF Transaction

\* Calls install what an entry offers, or a backup.
LEMMA BeginSound == ASSUME Sound, NEW c \in Call, Begin(c) PROVE Sound'
<1>0. c \in Task /\ c \notin Refresh
  BY TaskAssumption DEF Task
<1>1. CASE \E backup \in 0 .. upstream :
              /\ "restore" \in Operation
              /\ Enter(c, "idle", [Idle EXCEPT !.op = "restore", !.got = backup])
  <2>1. PICK backup \in Published :
              /\ "restore" \in Operation
              /\ Enter(c, "idle", [Idle EXCEPT !.op = "restore", !.got = backup])
    BY <1>1 DEF Published
  <2> DEFINE j == [Idle EXCEPT !.op = "restore", !.got = backup]
  <2>2. j \in Job /\ Fits(c, "lock", j)
    BY <1>0, <2>1, Known DEF Job, Idle, Fits, Carrying
  <2>3. Enter(c, "idle", j)
    BY <2>1
  <2> HIDE DEF j
  <2> QED
    BY <1>0, <2>2, <2>3, EnterSound DEF Begin
<1>2. CASE \E op \in Operation, phase \in {"asked", "ready"} :
              /\ Goto(c, "idle", phase)
              /\ job' = [job EXCEPT ![c] = [Idle EXCEPT !.op = op]]
              /\ UNCHANGED lock
  <2>1. PICK op \in Operation, phase \in {"asked", "ready"} :
              /\ Goto(c, "idle", phase)
              /\ job' = [job EXCEPT ![c] = [Idle EXCEPT !.op = op]]
              /\ UNCHANGED lock
    BY <1>2
  <2> DEFINE j == [Idle EXCEPT !.op = op]
  <2>2. j \in Job /\ Fits(c, phase, j)
    BY <1>0, <2>1 DEF Job, Idle, Fits, Carrying
  <2>3. job' = [job EXCEPT ![c] = j]
    BY <2>1
  <2> HIDE DEF j
  <2>4. UNCHANGED <<world, entry, auto, scan, newest, orphans, lock>>
    BY <2>1 DEF Begin
  <2>5. phase \in Phase /\ pc' = [pc EXCEPT ![c] = phase]
    BY <2>1 DEF Goto, Phase
  <2> QED
    BY <1>0, <2>2, <2>3, <2>4, <2>5, Known, Move DEF world
<1> QED
  BY <1>1, <1>2 DEF Begin

LEMMA InstallBodySound ==
    ASSUME Sound, NEW c \in Call, NEW from, NEW body \in Published \cup {None},
           InstallBody(c, from, body),
           UNCHANGED <<world, entry, auto, scan, newest, orphans>>
    PROVE  Sound'
<1> DEFINE j == [Idle EXCEPT !.op = job[c].op, !.got = body, !.pre = entry.local]
<1>1. c \in Task /\ c \notin Refresh
  BY TaskAssumption DEF Task
<1>2. body \in Published /\ body # None
  BY DEF InstallBody
<1>3. job[c] \in Job /\ entry \in Entry /\ body \in Version
  BY <1>1, <1>2, Known
<1>4. j \in Job
  BY <1>3 DEF Job, Idle, Entry
<1>5. Fits(c, "lock", j)
  BY <1>1, <1>2 DEF Idle, Fits, Carrying
<1>6. Enter(c, from, j)
  BY DEF InstallBody
<1> HIDE DEF j
<1> QED
  BY <1>1, <1>4, <1>5, <1>6, EnterSound

LEMMA NothingSound ==
    ASSUME Sound, NEW c \in Call, NEW from, NothingToInstall(c, from),
           UNCHANGED <<world, entry, auto, scan, newest, orphans>>
    PROVE  Sound'
  BY IdleFits, Known, Move DEF NothingToInstall, Goto, Phase, Task, world

LEMMA PreviewSound == ASSUME Sound, NEW c \in Call, Preview(c) PROVE Sound'
<1>0. c \in Task /\ c \notin Refresh
  BY TaskAssumption DEF Task
<1>1. job[c] \in Job /\ Fits(c, pc[c], job[c])
  BY <1>0, Known
<1>2. CASE PreviewAnswered(c)
  <2> DEFINE j == [job[c] EXCEPT !.got = upstream]
  <2>1. j \in Job /\ Fits(c, "answered", j)
    BY <1>0, <1>1, Known DEF Job, Fits, Carrying
  <2>2. job' = [job EXCEPT ![c] = j]
    BY <1>2 DEF PreviewAnswered
  <2> HIDE DEF j
  <2> QED
    BY <1>0, <1>2, <2>1, <2>2, Known, Move DEF PreviewAnswered, Goto, Phase, world
<1>3. CASE PreviewStored(c)
  <2>1. entry' \in Entry /\ entry'.body \in Published \cup {None}
    BY <1>1, <1>3, Known DEF PreviewStored, Entry, Job, Fits
  <2> QED
    BY <1>0, <1>3, <2>1, IdleFits, Known, Move DEF PreviewStored, Goto, Phase, world
<1>4. CASE PreviewFails(c)
  BY <1>4, NothingSound DEF PreviewFails
<1> QED
  BY <1>2, <1>3, <1>4 DEF Preview

LEMMA CallStepSound == ASSUME Sound, NEW c \in Call, CallStep(c) PROVE Sound'
<1>0. c \in Task /\ c \notin Refresh
  BY TaskAssumption DEF Task
<1>1. entry.body \in Published \cup {None} /\ Source(c).body \in Published \cup {None}
  BY <1>0, Known DEF Source, Held, Glance, Fits
<1>2. CASE Choose(c)
  <2>1. CASE InstallBody(c, "ready", Source(c).body)
    BY <1>1, <1>2, <2>1, InstallBodySound DEF Choose
  <2>2. CASE Ask(c, "ready", None) /\ UNCHANGED lock
    BY <1>0, <1>2, <2>2, AskSound DEF Choose, world
  <2>3. CASE NothingToInstall(c, "ready")
    BY <1>2, <2>3, NothingSound DEF Choose
  <2> QED
    BY <1>2, <2>1, <2>2, <2>3 DEF Choose
<1>3. CASE Fetched(c)
  BY <1>1, <1>3, InstallBodySound, NothingSound DEF Fetched
<1>4. CASE Preview(c)
  BY <1>4, PreviewSound
<1> QED
  BY <1>2, <1>3, <1>4 DEF CallStep

LEMMA SoundStep == ASSUME Sound, [Next]_vars PROVE Sound'
<1>1. CASE Publish \/ ScanReads
  BY <1>1, PublishSound, ScanReadsSound
<1>2. CASE \E r \in Refresh : ScanEnds(r) \/ Take(r) \/ CancelWorker(r)
  BY <1>2, ScanEndsSound, TakeSound, CancelWorkerSound
<1>3. CASE \E o \in orphans : OrphanEnds(o)
  BY <1>3, OrphanEndsSound
<1>4. CASE \E t \in Task : UpdateInPlace(t) \/ Transaction(t)
  BY <1>4, UpdateInPlaceSound, TransactionSound
<1>5. CASE \E c \in Call : Begin(c) \/ CallStep(c)
  BY <1>5, BeginSound, CallStepSound
<1>6. CASE UNCHANGED vars
  BY <1>6 DEF Sound, TypeOK, Provenance, Published, Fits, vars, world
<1> QED
  BY <1>1, <1>2, <1>3, <1>4, <1>5, <1>6 DEF Next

LEMMA AlwaysSound == Spec => []Sound
  BY InitSound, SoundStep, PTL DEF Spec
------------------------------------------------------------------------------

\* Whatever comes late, is cancelled or is left behind, every task is in one of
\* its segments and every content is a version: no install starts without one,
\* no thread without the file it expects.
THEOREM TypeCorrect == Spec => []TypeOK
<1>1. Sound => TypeOK
  BY DEF Sound
<1> QED
  BY <1>1, AlwaysSound, PTL

\* A background refresh never puts an older version in the place of a newer one
\* (_handle_auto_update_step): the file it expects is the one of its scan, which
\* came before the answer.
THEOREM NeverDowngrades == Spec => AutoNeverDowngrades
<1>1. ASSUME Sound, NEW r \in Refresh, Commit(r)
      PROVE  file' >= file
  <2>1. Fits(r, "thread", job[r]) /\ job[r].pre = file /\ file' = job[r].got
    BY <1>1, Known DEF Commit, Goto, Task
  <2> QED
    BY <2>1 DEF Fits, Carrying, Published
<1>2. ASSUME Sound, NEW o \in orphans, OrphanEnds(o)
      PROVE  file' >= file
  BY <1>2, Known DEF OrphanEnds, Published
<1>3. Sound =>
        [(\E r \in Refresh : Commit(r)) \/ (\E o \in orphans : OrphanEnds(o)) => file' >= file]_vars
  BY <1>1, <1>2
<1> QED
  BY <1>3, AlwaysSound, PTL DEF AutoNeverDowngrades
------------------------------------------------------------------------------
(* What users install.                                                     *)

\* The content of an entry is the one of its hash, or was fetched for a preview.
BodyShown == entry.body # None => entry.remote = entry.body \/ entry.preview

LEMMA BodyStep == ASSUME Sound, BodyShown, [Next]_vars PROVE BodyShown'
<1> USE DEF BodyShown
<1>1. entry \in Entry
  BY DEF Sound, TypeOK
<1>2. CASE UNCHANGED entry
  BY <1>2
<1>3. ASSUME NEW r \in Refresh, ScanEnds(r) PROVE BodyShown'
  BY <1>1, <1>3 DEF ScanEnds, Merged
<1>4. ASSUME NEW t \in Task, UpdateInPlace(t) \/ Transaction(t) PROVE BodyShown'
  <2>1. CASE FetchFails(t) \/ ShowInvalid(t) \/ NotModified(t)
    BY <1>1, <2>1 DEF FetchFails, ShowInvalid, NotModified, Entry
  <2>2. CASE Show(t) \/ Blocked(t)
    BY <1>1, <2>2 DEF Show, Blocked, Shown, Entry
  <2>3. CASE InstallFails(t)
    BY <1>1, <2>3 DEF InstallFails, Entry
  <2>4. CASE Finish(t)
    <3>1. entry'.body = None
      BY <2>4 DEF Finish
    <3> QED
      BY <3>1
  <2>5. CASE Serve(t) \/ Obsolete(t) \/ Judge(t) \/ AutoUpdate(t) \/ Block(t)
    BY <1>2, <2>5 DEF Serve, Obsolete, Judge, AutoUpdate, Block
  <2>6. CASE Acquire(t) \/ TooLate(t) \/ Commit(t)
    BY <1>2, <2>6 DEF Acquire, TooLate, Commit
  <2> QED
    BY <1>4, <2>1, <2>2, <2>3, <2>4, <2>5, <2>6 DEF UpdateInPlace, Transaction
<1>5. CASE \/ Publish \/ ScanReads
           \/ \E r \in Refresh : Take(r) \/ CancelWorker(r)
           \/ \E o \in orphans : OrphanEnds(o)
           \/ \E c \in Call : Begin(c) \/ CallStep(c)
  BY <1>1, <1>2, <1>5
     DEF Publish, ScanReads, Take, CancelWorker, OrphanEnds, Begin, CallStep, Choose, Fetched,
         Preview, PreviewAnswered, PreviewStored, PreviewFails, Entry
<1>6. CASE UNCHANGED vars
  BY <1>2, <1>6 DEF vars
<1> QED
  BY <1>3, <1>4, <1>5, <1>6 DEF Next

\* A call that is about to install goes on in its own steps only.
LEMMA OwnSteps ==
    ASSUME Sound, [Next]_vars, NEW c \in Call, pc[c] \in {"ready", "fetched"}, pc'[c] # pc[c]
    PROVE  Choose(c) \/ Fetched(c)
<1>1. pc \in [Task -> Phase] /\ c \in Task /\ c \notin Refresh
  BY TaskAssumption DEF Sound, TypeOK, Task
<1>2. ~\E r \in Refresh : ScanEnds(r) \/ Take(r) \/ CancelWorker(r)
  BY <1>1 DEF ScanEnds, Take, CancelWorker, Ask, Leave, Goto
<1>3. ~\E t \in Task : UpdateInPlace(t)
  BY <1>1 DEF UpdateInPlace, Serve, FetchFails, Obsolete, NotModified, Judge, ShowInvalid, Show,
              AutoUpdate, Block, Blocked, Enter, Leave, Goto
<1>4. ~\E t \in Task : Transaction(t)
  BY <1>1 DEF Transaction, Acquire, TooLate, Commit, InstallFails, Finish, Return, Leave, Goto
<1>5. ~(Publish \/ ScanReads \/ \E o \in orphans : OrphanEnds(o)) /\ ~UNCHANGED vars
  BY DEF Publish, ScanReads, OrphanEnds, vars
<1>6. ASSUME NEW d \in Call, Begin(d) \/ CallStep(d) PROVE d = c /\ CallStep(d)
  BY <1>1, <1>6 DEF Begin, CallStep, Choose, Fetched, Preview, PreviewAnswered, PreviewStored,
                    PreviewFails, InstallBody, NothingToInstall, Enter, Ask, Goto
<1>7. ~Preview(c)
  BY DEF Preview, PreviewAnswered, PreviewStored, PreviewFails, Goto
<1> QED
  BY <1>2, <1>3, <1>4, <1>5, <1>6, <1>7 DEF Next, CallStep

\* What the update entity installs is what it names as the latest version, or what
\* a preview put there since content and hash were last written together
\* (async_install of the entity, async_fetch_blueprint, async_fetch_diff_content).
THEOREM InstallsShown == Spec => UserInstallsShown
<1>1. Init => BodyShown
  BY DEF Init, BodyShown
<1>2. ASSUME Sound, BodyShown, [Next]_vars, NEW c \in Call, job[c].op = "update",
             pc[c] \in {"ready", "fetched"}, pc'[c] \in {"lock", "thread"}
      PROVE  job'[c].got = entry.remote \/ entry.preview
  <2>1. Choose(c) \/ Fetched(c)
    BY <1>2, OwnSteps
  <2>2. pc \in [Task -> Phase] /\ job \in [Task -> Job] /\ c \in Task
    BY <1>2 DEF Sound, TypeOK, Task
  <2>3. \E from \in {"ready", "fetched"} : InstallBody(c, from, entry.body)
    <3>1. CASE Choose(c)
      BY <1>2, <2>2, <3>1 DEF Choose, Source, Ask, NothingToInstall, Goto
    <3>2. CASE Fetched(c)
      BY <1>2, <2>2, <3>2 DEF Fetched, NothingToInstall, Goto
    <3> QED
      BY <2>1, <3>1, <3>2
  <2>4. entry.body # None /\ job'[c].got = entry.body
    BY <2>2, <2>3 DEF InstallBody, Enter, Prepared, Idle
  <2> QED
    BY <1>2, <2>4 DEF BodyShown
<1>3. Sound /\ BodyShown /\ [Next]_vars =>
        [\A c \in Call : /\ job[c].op = "update"
                         /\ pc[c] \in {"ready", "fetched"} /\ pc'[c] \in {"lock", "thread"}
                         => job'[c].got = entry.remote \/ entry.preview]_vars
  BY <1>2
<1>4. Sound /\ BodyShown /\ [Next]_vars => BodyShown'
  BY BodyStep
<1> QED
  BY <1>1, <1>3, <1>4, AlwaysSound, PTL DEF Spec, UserInstallsShown
------------------------------------------------------------------------------
(* The ETag of an entry, when users do nothing but restore.                *)

OnlyRestores == Operation \subseteq {"restore"}

Active(r) == pc[r] \notin {"idle", "queued"}

Below(v, w) == v # None /\ w # None => v <= w

\* An answer without an ETag leaves the ETag behind, never ahead of the hash; the
\* content on offer is the one of the hash, so that a scan does not change the hash
\* next to an ETag.
Trailing ==
    /\ {entry.etag, entry.remote} \subseteq Published \cup {None}
    /\ Below(entry.etag, entry.remote)
    /\ entry.body \in {None, entry.remote}

\* The worker asks with an ETag that is not newer than the known hash, so that a 304
\* names this hash; no ETag that it may leave with its content is newer than that.
Confirmable(r) ==
    Active(r) =>
        /\ {job[r].sent, job[r].kept} \subseteq Published \cup {None}
        /\ pc[r] = "sent" => job[r].got = None /\ Below(job[r].sent, entry.remote)
        /\ pc[r] = "served" /\ job[r].got = None => entry.remote \in {None, job[r].sent}
        /\ /\ Below(entry.etag, job[r].got)
           /\ Below(job[r].sent, job[r].got)
           /\ Below(job[r].kept, job[r].got)

\* The lock of the refreshes.
Alone == \A r, s \in Refresh : Active(r) /\ Active(s) => r = s

Restores(j) == j.op = "restore" /\ ~j.fetch /\ j.sent = None /\ j.kept = None

Restoring(c) ==
    /\ pc[c] \in {"idle", "lock", "thread", "finish"}
    /\ pc[c] # "idle" => Restores(job[c])

Matching ==
    /\ Trailing
    /\ Alone
    /\ \A r \in Refresh : Confirmable(r)
    /\ \A c \in Call : Restoring(c)

LEMMA InitMatching == Init => Matching
<1> SUFFICES ASSUME Init PROVE Matching
  OBVIOUS
<1>1. PICK remote \in {None} \cup 0 .. upstream :
        entry = [local |-> 0, remote |-> remote, body |-> None,
                 etag |-> IF remote = 0 THEN remote ELSE None,
                 offer |-> remote \notin {None, 0}, preview |-> FALSE]
  BY DEF Init
<1>2. Trailing
  BY <1>1 DEF Trailing, Below, Published
<1> QED
  BY <1>2 DEF Init, Matching, Alone, Active, Confirmable, Restoring, Task

\* The scan leaves the hashes and the ETag alone.
LEMMA MatchingScan == ASSUME Sound, Matching, NEW r \in Refresh, ScanEnds(r) PROVE Matching'
<1>1. /\ entry'.remote = entry.remote /\ entry'.body = entry.body
      /\ entry'.etag = entry.etag /\ Published' = Published
  BY NoneAssumption, Known DEF ScanEnds, Merged, Matching, Trailing, Published, world
<1>2. /\ \A s \in Refresh : pc'[s] = IF s = r THEN "queued" ELSE pc[s]
      /\ \A c \in Call : pc'[c] = pc[c]
  BY TaskAssumption DEF ScanEnds, Sound, TypeOK, Task
<1>3. \A s \in Refresh : s # r => job'[s] = job[s]
  BY TaskAssumption DEF ScanEnds, Task
<1>4. \A c \in Call : job'[c] = job[c]
  BY TaskAssumption DEF ScanEnds, Task, Detached, Matching, Restoring
<1>5. Trailing' /\ Alone' /\ \A c \in Call : Restoring(c)'
  BY <1>1, <1>2, <1>4 DEF Matching, Trailing, Below, Alone, Active, Restoring
<1>6. ASSUME NEW s \in Refresh PROVE Confirmable(s)'
  BY <1>1, <1>2, <1>3 DEF Matching, Confirmable, Below, Active
<1> QED
  BY <1>5, <1>6 DEF Matching

\* A step of the one worker that is active, or that becomes it.
LEMMA MatchingMove ==
    ASSUME Sound, Matching, NEW r \in Refresh, NEW phase, NEW j,
           \A s \in Refresh : s # r => ~Active(s),
           pc' = [pc EXCEPT ![r] = phase], job' = [job EXCEPT ![r] = j],
           upstream' = upstream,
           Trailing', Confirmable(r)'
    PROVE  Matching'
<1>1. /\ \A t \in Task : pc'[t] = IF t = r THEN phase ELSE pc[t]
      /\ \A t \in Task : t # r => job'[t] = job[t]
      /\ r \in Task /\ r \notin Call
  BY TaskAssumption DEF Sound, TypeOK, Task
<1>2. Alone' /\ \A c \in Call : Restoring(c)'
  BY <1>1 DEF Matching, Alone, Active, Restoring, Task
<1>3. \A s \in Refresh : s # r => Confirmable(s)'
  BY <1>1 DEF Confirmable, Active, Task
<1> QED
  BY <1>2, <1>3 DEF Matching

\* A worker that leaves, and what it leaves in the entry.
LEMMA MatchingLeave ==
    ASSUME Sound, Matching, NEW r \in Refresh, NEW from, Leave(r, from),
           upstream' = upstream,
           UNCHANGED entry \/ (Active(r) /\ Trailing')
    PROVE  Matching'
<1>1. /\ \A t \in Task : pc'[t] = IF t = r THEN "idle" ELSE pc[t]
      /\ \A t \in Task : t # r => job'[t] = job[t]
      /\ r \in Task /\ r \notin Call
      /\ Published' = Published
  BY TaskAssumption DEF Leave, Goto, Sound, TypeOK, Task, Published
<1>2. Alone' /\ \A c \in Call : Restoring(c)'
  BY <1>1 DEF Matching, Alone, Active, Restoring, Task
<1>3. CASE UNCHANGED entry
  <2>1. Trailing'
    BY <1>1, <1>3 DEF Matching, Trailing, Below
  <2>2. \A s \in Refresh : Confirmable(s)'
    BY <1>1, <1>3 DEF Matching, Active, Confirmable, Below, Task
  <2> QED
    BY <1>2, <2>1, <2>2 DEF Matching
<1>4. CASE Active(r) /\ Trailing'
  <2>1. \A s \in Refresh : Confirmable(s)'
    BY <1>1, <1>4 DEF Matching, Alone, Active, Confirmable, Task
  <2> QED
    BY <1>2, <1>4, <2>1 DEF Matching
<1> QED
  BY <1>3, <1>4

LEMMA MatchingTake == ASSUME Sound, Matching, NEW r \in Refresh, Take(r) PROVE Matching'
<1>1. CASE Leave(r, "queued")
  BY <1>1, MatchingLeave DEF Take, world
<1>2. CASE Ask(r, "queued", IF entry.remote # None THEN entry.etag ELSE None)
  <2> DEFINE etag == IF entry.remote # None THEN entry.etag ELSE None
             j == [Idle EXCEPT !.op = job[r].op, !.fetch = r \in Call, !.pre = job[r].pre,
                               !.seen = job[r].seen, !.sent = etag]
  <2>1. pc' = [pc EXCEPT ![r] = "sent"] /\ job' = [job EXCEPT ![r] = j] /\ r \in Task
    BY <1>2 DEF Ask, Goto, Task
  <2>2. \A s \in Refresh : s # r => ~Active(s)
    BY DEF Take, Active
  <2>3. j.got = None /\ j.kept = None /\ j.sent = etag
    BY DEF Idle
  <2> HIDE DEF j
  <2>4. Published' = Published /\ entry' = entry /\ upstream' = upstream
    BY DEF Take, world, Published
  <2>5. Trailing'
    BY <2>4 DEF Matching, Trailing, Below
  <2>6. job'[r] = j /\ pc'[r] = "sent"
    BY <2>1 DEF Sound, TypeOK
  <2>7. Confirmable(r)'
    BY <2>3, <2>4, <2>6 DEF Matching, Trailing, Confirmable, Below
  <2> QED
    BY <2>1, <2>2, <2>4, <2>5, <2>7, MatchingMove
<1> QED
  BY <1>1, <1>2 DEF Take

\* What the entry is given when a content and its ETag are stored, or nothing is.
LEMMA Stored ==
    ASSUME Sound, NEW r \in Refresh, Active(r), Confirmable(r), Published' = Published,
           \/ entry'.remote = None
           \/ /\ job[r].got # None /\ entry'.remote = job[r].got
              /\ entry'.etag \in {job[r].sent, job[r].kept},
           entry'.etag \in Published \cup {None},
           entry'.body \in {None, entry'.remote}
    PROVE  Trailing'
<1>1. job[r].got \in Published \cup {None}
  BY Known DEF Fits, Task
<1> QED
  BY <1>1 DEF Trailing, Confirmable, Below

LEMMA MatchingUpdate ==
    ASSUME Sound, Matching, NEW t \in Task, UpdateInPlace(t)
    PROVE  Matching'
<1>1. /\ pc[t] \in {"sent", "served", "decide", "blocked"}
      /\ t \in Refresh /\ Active(t) /\ Confirmable(t)
  BY DEF UpdateInPlace, Serve, FetchFails, Obsolete, NotModified, Judge, ShowInvalid, Show,
         AutoUpdate, Block, Blocked, Leave, Enter, Goto, Task, Matching, Restoring, Active
<1>2. /\ entry \in Entry /\ job[t] \in Job /\ Trailing
      /\ upstream \in Published /\ None \notin Published
      /\ pc \in [Task -> Phase] /\ job \in [Task -> Job]
  BY Known DEF Matching, Sound, TypeOK
<1>3. /\ \A s \in Refresh : s # t => ~Active(s)
      /\ Published' = Published /\ upstream' = upstream
  BY <1>1 DEF Matching, Alone, UpdateInPlace, Serve, FetchFails, Obsolete, NotModified, Judge,
              ShowInvalid, Show, AutoUpdate, Block, Blocked, world, Published
<1>4. \A v \in Published \cup {None} : Below(v, upstream)
  BY DEF Below, Published
<1>5. CASE Serve(t)
  <2>1. PICK j \in Job :
          /\ job' = [job EXCEPT ![t] = j]
          /\ \/ j = job[t] /\ job[t].sent = upstream
             \/ \E etag \in {upstream, job[t].sent} :
                   j = [job[t] EXCEPT !.sent = etag, !.got = upstream]
    BY <1>5, Answer
  <2>2. pc[t] = "sent" /\ pc' = [pc EXCEPT ![t] = "served"] /\ entry' = entry
    BY <1>5 DEF Serve, Goto
  <2>3. job'[t] = j /\ pc'[t] = "served"
    BY <1>2, <2>1, <2>2
  <2>4. Trailing'
    BY <1>2, <1>3, <2>2 DEF Trailing, Below
  <2>5. CASE j = job[t] /\ job[t].sent = upstream
    <3>1. entry.remote \in {None, upstream} /\ job[t].got = None
      BY <1>1, <1>2, <2>2, <2>5 DEF Confirmable, Trailing, Below, Published
    <3> QED
      BY <1>1, <1>2, <1>3, <2>1, <2>2, <2>3, <2>4, <2>5, <3>1, MatchingMove DEF Confirmable, Below
  <2>6. CASE \E etag \in {upstream, job[t].sent} :
                j = [job[t] EXCEPT !.sent = etag, !.got = upstream]
    <3>1. /\ j.got = upstream /\ j.kept = job[t].kept /\ j.sent \in Published \cup {None}
      BY <1>1, <1>2, <2>6 DEF Confirmable, Job
    <3>2. Confirmable(t)'
      BY <1>1, <1>2, <1>3, <1>4, <2>2, <2>3, <3>1 DEF Confirmable, Trailing, Below
    <3> QED
      BY <1>1, <1>3, <2>1, <2>2, <2>4, <3>2, MatchingMove
  <2> QED
    BY <2>1, <2>5, <2>6
<1>6. CASE FetchFails(t) \/ Obsolete(t)
  <2>1. Leave(t, pc[t]) /\ (UNCHANGED entry \/ Trailing')
    <3>1. CASE Obsolete(t)
      BY <3>1 DEF Obsolete
    <3>2. CASE FetchFails(t)
      <4>1. UNCHANGED entry
               \/ (entry'.remote = None /\ entry'.body = None /\ entry'.etag \in {entry.etag, None})
        BY <1>2, <3>2 DEF FetchFails, Entry
      <4> QED
        BY <1>2, <1>3, <3>2, <4>1 DEF FetchFails, Leave, Goto, Trailing, Below
    <3> QED
      BY <1>6, <3>1, <3>2
  <2> QED
    BY <1>1, <1>3, <2>1, MatchingLeave
<1>7. CASE NotModified(t)
  <2>1. entry'.remote = entry.remote /\ entry'.body = entry.body /\ entry'.etag = job[t].sent
    BY <1>2, <1>7 DEF NotModified, Entry
  <2>2. pc[t] = "served" /\ job[t].got = None /\ entry.remote \in {None, job[t].sent}
    BY <1>1, <1>7 DEF NotModified, Confirmable
  <2>3. Trailing'
    BY <1>1, <1>2, <1>3, <2>1, <2>2 DEF Trailing, Below, Confirmable, Published
  <2>4. CASE Leave(t, "served")
    BY <1>1, <1>3, <2>3, <2>4, MatchingLeave
  <2>5. CASE Goto(t, "served", "sent") /\ job' = [job EXCEPT ![t].sent = None]
    <3> DEFINE j == [job[t] EXCEPT !.sent = None]
    <3>1. /\ job' = [job EXCEPT ![t] = j] /\ j.sent = None /\ j.got = None
          /\ j.kept = job[t].kept
      BY <1>2, <2>2, <2>5 DEF Job
    <3> HIDE DEF j
    <3>2. job'[t] = j /\ pc'[t] = "sent"
      BY <1>1, <1>2, <2>5, <3>1 DEF Goto, Task
    <3>3. Confirmable(t)'
      BY <1>1, <1>3, <3>1, <3>2 DEF Confirmable, Below
    <3> QED
      BY <1>1, <1>3, <2>3, <2>5, <3>1, <3>3, MatchingMove DEF Goto
  <2> QED
    BY <1>7, <2>4, <2>5 DEF NotModified
<1>8. CASE Judge(t) \/ Block(t) \/ AutoUpdate(t)
  <2>1. PICK phase \in Phase, j \in Job :
           /\ pc' = [pc EXCEPT ![t] = phase] /\ job' = [job EXCEPT ![t] = j]
           /\ phase \in {"decide", "blocked", "lock", "thread"}
           /\ j.got = job[t].got /\ j.sent = job[t].sent
           /\ j.kept \in {None, entry.etag, job[t].kept}
    <3>1. CASE Judge(t)
      <4> DEFINE b == (job[t].got # Local(t))
                 j == [job[t] EXCEPT !.judged = b]
      <4>1. b \in BOOLEAN
        OBVIOUS
      <4> HIDE DEF b
      <4>2. j \in Job /\ j.got = job[t].got /\ j.sent = job[t].sent /\ j.kept = job[t].kept
        BY <1>2, <4>1 DEF Job
      <4>3. job' = [job EXCEPT ![t] = j] /\ pc' = [pc EXCEPT ![t] = "decide"]
        BY <3>1 DEF Judge, Goto, b
      <4> HIDE DEF j
      <4> QED
        BY <4>2, <4>3 DEF Phase
    <3>2. CASE Block(t)
      <4>1. job' = [job EXCEPT ![t] = job[t]]
        BY <1>2, <3>2 DEF Block
      <4> QED
        BY <1>2, <3>2, <4>1 DEF Block, Goto, Phase
    <3>3. CASE AutoUpdate(t)
      <4> DEFINE i == [job[t] EXCEPT !.pre = Local(t)]
                 k == IF LockFree THEN Prepared(i) ELSE i
      <4>1. Local(t) = job[t].pre
        BY <1>1 DEF Local
      <4>2. i \in Job /\ i.got = job[t].got /\ i.sent = job[t].sent /\ i.kept = job[t].kept
        BY <1>2, <4>1 DEF Job
      <4>3. /\ pc' = [pc EXCEPT ![t] = IF LockFree THEN "thread" ELSE "lock"]
            /\ job' = [job EXCEPT ![t] = k]
        BY <3>3 DEF AutoUpdate, Enter
      <4> HIDE DEF i
      <4>4. file \in Version /\ entry.etag \in Version \cup {None}
        BY <1>2, Known DEF Entry
      <4>5. k \in Job /\ k.got = i.got /\ k.sent = i.sent /\ k.kept \in {None, entry.etag, i.kept}
        BY <1>1, <4>2, <4>4, PreparedAs
      <4> HIDE DEF k
      <4> QED
        BY <4>2, <4>3, <4>5 DEF Phase
    <3> QED
      BY <1>8, <3>1, <3>2, <3>3
  <2>2. entry' = entry
    BY <1>8 DEF Judge, Block, AutoUpdate
  <2>3. Trailing'
    BY <1>2, <1>3, <2>2 DEF Trailing, Below
  <2>4. job'[t] = j /\ pc'[t] = phase
    BY <1>2, <2>1
  <2>5. Confirmable(t)'
    BY <1>1, <1>2, <1>3, <2>1, <2>2, <2>4 DEF Confirmable, Trailing, Below
  <2> QED
    BY <1>1, <1>3, <2>1, <2>3, <2>5, MatchingMove
<1>9. CASE ShowInvalid(t) \/ Show(t) \/ Blocked(t)
  <2>1. job[t].got # None
    BY <1>1, <1>2, <1>9, Rewritten DEF ShowInvalid, Show, Blocked, Leave, Goto, Carrying
  <2>2. \/ entry'.remote = None /\ entry'.body = None /\ entry'.etag \in {job[t].sent, None}
        \/ /\ entry'.remote = job[t].got /\ entry'.etag = job[t].sent
           /\ entry'.body \in {None, entry'.remote}
    BY <1>2, <1>9 DEF ShowInvalid, Show, Blocked, Shown, Entry
  <2>3. Trailing'
    BY <1>1, <1>3, <2>1, <2>2, Stored DEF Confirmable
  <2>4. Leave(t, pc[t])
    BY <1>9 DEF ShowInvalid, Show, Blocked, Leave, Goto
  <2> QED
    BY <1>1, <1>3, <2>3, <2>4, MatchingLeave
<1> QED
  BY <1>5, <1>6, <1>7, <1>8, <1>9 DEF UpdateInPlace

\* A call on its way from the backup it restores to an entry without hashes.
LEMMA MatchingCall ==
    ASSUME Sound, Matching, NEW c \in Call,
           NEW phase \in {"idle", "lock", "thread", "finish"}, NEW j,
           pc' = [pc EXCEPT ![c] = phase], job' = [job EXCEPT ![c] = j],
           phase # "idle" => Restores(j),
           upstream' = upstream,
           UNCHANGED entry
              \/ (entry'.remote = None /\ entry'.body = None /\ entry'.etag = None)
    PROVE  Matching'
<1>1. /\ \A t \in Task : pc'[t] = IF t = c THEN phase ELSE pc[t]
      /\ \A t \in Task : job'[t] = IF t = c THEN j ELSE job[t]
      /\ c \in Task /\ c \notin Refresh /\ Published' = Published
  BY TaskAssumption DEF Sound, TypeOK, Task, Published
<1>2. Alone' /\ Trailing'
  BY <1>1 DEF Matching, Alone, Active, Trailing, Below, Task
<1>3. ASSUME NEW s \in Refresh PROVE Confirmable(s)'
  <2>1. pc'[s] = pc[s] /\ job'[s] = job[s] /\ Confirmable(s)
    BY <1>1 DEF Matching, Task
  <2> QED
    BY <1>1, <2>1 DEF Active, Confirmable, Below
<1>4. \A s \in Call : Restoring(s)'
  BY <1>1 DEF Matching, Restoring, Task
<1> QED
  BY <1>2, <1>3, <1>4 DEF Matching

LEMMA MatchingRestore ==
    ASSUME OnlyRestores, Sound, Matching, NEW c \in Call,
           Begin(c) \/ CallStep(c) \/ Transaction(c)
    PROVE  Matching'
<1>1. c \in Task /\ c \notin Refresh /\ Restoring(c) /\ job[c] \in Job
  BY TaskAssumption, Known DEF Task, Matching
<1>2. CASE Begin(c)
  <2>1. PICK backup : Enter(c, "idle", [Idle EXCEPT !.op = "restore", !.got = backup])
    BY <1>2 DEF Begin, OnlyRestores
  <2> DEFINE i == [Idle EXCEPT !.op = "restore", !.got = backup]
             k == IF LockFree THEN Prepared(i) ELSE i
  <2>2. Restores(k)
    BY DEF Restores, Prepared, Idle
  <2>3. /\ pc' = [pc EXCEPT ![c] = IF LockFree THEN "thread" ELSE "lock"]
        /\ job' = [job EXCEPT ![c] = k]
    BY <2>1 DEF Enter
  <2> HIDE DEF i, k
  <2> QED
    BY <1>2, <2>2, <2>3, MatchingCall DEF Begin, world
<1>3. ~CallStep(c)
  BY <1>1 DEF CallStep, Choose, Fetched, Preview, PreviewAnswered, PreviewStored, PreviewFails,
              Goto, Restoring
<1>4. CASE Acquire(c)
  <2>1. pc[c] = "lock" /\ Restores(job[c])
    BY <1>1, <1>4 DEF Acquire, Goto, Restoring
  <2>2. Restores(Prepared(job[c]))
    BY <1>1, <2>1 DEF Restores, Prepared, Job
  <2> QED
    BY <1>4, <2>2, MatchingCall DEF Acquire, Goto, world
<1>5. CASE Commit(c)
  <2>1. job' = [job EXCEPT ![c] = job[c]]
    BY <1>5 DEF Commit, Sound, TypeOK
  <2> QED
    BY <1>1, <1>5, <2>1, MatchingCall DEF Commit, Goto, Restoring
<1>6. ~TooLate(c)
  BY <1>1 DEF TooLate, Current
<1>7. CASE InstallFails(c) \/ Finish(c)
  <2>1. Restores(job[c]) /\ ~Automatic(c)
    BY <1>1, <1>7 DEF InstallFails, Finish, Return, Leave, Goto, Restoring, Restores, Automatic
  <2>2. Goto(c, pc[c], "idle") /\ job' = [job EXCEPT ![c] = Idle] /\ upstream' = upstream
    BY <1>7, <2>1 DEF InstallFails, Finish, Return, Goto, world
  <2>3. UNCHANGED entry
           \/ (entry'.remote = None /\ entry'.body = None /\ entry'.etag = None)
    BY <1>7, <2>1 DEF InstallFails, Finish, Restores
  <2> QED
    BY <2>2, <2>3, MatchingCall DEF Goto
<1> QED
  BY <1>2, <1>3, <1>4, <1>5, <1>6, <1>7 DEF Transaction

LEMMA MatchingTransaction ==
    ASSUME Sound, Matching, NEW r \in Refresh, Transaction(r)
    PROVE  Matching'
<1>1. /\ Active(r) /\ r \in Task /\ Automatic(r) /\ job[r] \in Job /\ Confirmable(r)
      /\ Trailing /\ None \notin Published /\ entry \in Entry
      /\ pc \in [Task -> Phase] /\ job \in [Task -> Job]
  BY Known DEF Transaction, Acquire, TooLate, Commit, InstallFails, Finish, Return, Leave, Goto,
               Active, Task, Automatic, Matching, Sound, TypeOK
<1>2. /\ \A s \in Refresh : s # r => ~Active(s)
      /\ Published' = Published /\ upstream' = upstream
  BY <1>1 DEF Matching, Alone, Transaction, Acquire, TooLate, Commit, InstallFails, Finish, world,
              Published
<1>3. CASE Acquire(r) \/ Commit(r)
  <2>1. PICK j : /\ \E phase \in {"thread", "finish"} : pc' = [pc EXCEPT ![r] = phase]
                 /\ job' = [job EXCEPT ![r] = j]
                 /\ j.got = job[r].got /\ j.sent = job[r].sent
                 /\ j.kept \in {None, entry.etag, job[r].kept}
    <3>1. CASE Acquire(r)
      BY <1>1, <3>1, PreparedAs DEF Acquire, Goto
    <3>2. CASE Commit(r)
      <4>1. job' = [job EXCEPT ![r] = job[r]]
        BY <1>1, <3>2 DEF Commit
      <4> QED
        BY <3>2, <4>1 DEF Commit, Goto
    <3> QED
      BY <1>3, <3>1, <3>2
  <2>2. PICK phase \in {"thread", "finish"} : pc' = [pc EXCEPT ![r] = phase]
    BY <2>1
  <2>3. entry' = entry /\ job'[r] = j /\ pc'[r] = phase
    BY <1>1, <1>3, <2>1, <2>2 DEF Acquire, Commit
  <2>4. Trailing'
    BY <1>1, <1>2, <2>3 DEF Trailing, Below
  <2>5. Confirmable(r)'
    BY <1>1, <1>2, <2>1, <2>2, <2>3 DEF Confirmable, Trailing, Below
  <2> QED
    BY <1>2, <2>1, <2>2, <2>4, <2>5, MatchingMove
<1>4. CASE TooLate(r)
  BY <1>2, <1>4, MatchingLeave DEF TooLate
<1>5. CASE InstallFails(r) \/ Finish(r)
  <2>1. Leave(r, pc[r]) /\ pc[r] \in {"thread", "finish"}
    BY <1>1, <1>5 DEF InstallFails, Finish, Return, Leave, Goto
  <2>2. job[r].op = "refresh" /\ job[r].got # None
    BY <1>1, <2>1, Known DEF Fits, Carrying
  <2>3. /\ entry'.remote = job[r].got /\ entry'.etag \in {job[r].sent, job[r].kept}
        /\ entry'.body \in {None, entry'.remote}
    <3>1. CASE InstallFails(r)
      BY <1>1, <3>1 DEF InstallFails, Entry
    <3>2. CASE Finish(r)
      <4>1. entry' = [local |-> job[r].got, remote |-> job[r].got, body |-> None, offer |-> FALSE,
                      etag |-> IF job[r].sent # None THEN job[r].sent ELSE job[r].kept,
                      preview |-> FALSE]
        BY <2>2, <3>2 DEF Finish
      <4> QED
        BY <4>1
    <3> QED
      BY <1>5, <3>1, <3>2
  <2>4. Trailing'
    BY <1>1, <1>2, <2>2, <2>3, Stored DEF Confirmable
  <2> QED
    BY <1>1, <1>2, <2>1, <2>4, MatchingLeave
<1> QED
  BY <1>3, <1>4, <1>5 DEF Transaction

\* The source publishes, and everything published so far stays so.
LEMMA MatchingPublish == ASSUME Sound, Matching, Publish PROVE Matching'
<1>1. Published \subseteq Published'
  BY VersionsAssumption DEF Sound, TypeOK, Publish, Published, Version
<1>2. Trailing'
  BY <1>1 DEF Publish, Matching, Trailing, Below
<1>3. ASSUME NEW s \in Refresh PROVE Confirmable(s)'
  BY <1>1 DEF Publish, Matching, Confirmable, Active, Below
<1>4. Alone' /\ \A c \in Call : Restoring(c)'
  BY DEF Publish, Matching, Alone, Active, Restoring
<1> QED
  BY <1>2, <1>3, <1>4 DEF Matching

LEMMA MatchingStep == ASSUME OnlyRestores, Sound, Matching, [Next]_vars PROVE Matching'
<1>1. CASE ScanReads \/ (\E o \in orphans : OrphanEnds(o)) \/ UNCHANGED vars
  <2>1. UNCHANGED <<upstream, entry, pc, job>> /\ Published' = Published
    BY <1>1 DEF ScanReads, OrphanEnds, vars, world, Published
  <2>2. Trailing' /\ Alone' /\ \A c \in Call : Restoring(c)'
    BY <2>1 DEF Matching, Trailing, Below, Alone, Active, Restoring
  <2>3. ASSUME NEW s \in Refresh PROVE Confirmable(s)'
    BY <2>1 DEF Matching, Confirmable, Active, Below
  <2> QED
    BY <2>2, <2>3 DEF Matching
<1>2. CASE \E r \in Refresh : ScanEnds(r) \/ Take(r)
  BY <1>2, MatchingScan, MatchingTake
<1>3. CASE \E r \in Refresh : CancelWorker(r)
  BY <1>3, MatchingLeave DEF CancelWorker, world
<1>4. CASE \E t \in Task : UpdateInPlace(t) \/ Transaction(t)
  BY <1>4, MatchingUpdate, MatchingTransaction, MatchingRestore DEF Task
<1>5. CASE \E c \in Call : Begin(c) \/ CallStep(c)
  BY <1>5, MatchingRestore
<1>6. CASE Publish
  BY <1>6, MatchingPublish
<1> QED
  BY <1>1, <1>2, <1>3, <1>4, <1>5, <1>6 DEF Next

\* As long as users only restore, a 304 never confirms another version than the
\* known one (_handle_not_modified_case): answers without an ETag leave that of the
\* entry behind its remote_hash, and neither late answers nor replaced refreshes nor
\* failed installs ever bring it ahead.
THEOREM ConfirmedIsKnown == ASSUME OnlyRestores PROVE Spec => []NotModifiedIsKnown
<1>1. Matching => NotModifiedIsKnown
  BY DEF Matching, Confirmable, Active, NotModifiedIsKnown
<1>2. Sound /\ Matching /\ [Next]_vars => Matching'
  BY MatchingStep
<1> QED
  BY <1>1, <1>2, InitMatching, AlwaysSound, PTL DEF Spec
==============================================================================
