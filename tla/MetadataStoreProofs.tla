-------------------------- MODULE MetadataStoreProofs --------------------------
(***************************************************************************)
(* Theorems about MetadataStore, for all sets of blueprints and savers:    *)
(* its state stays of its type; as long as saves do not overlap, decisions *)
(* are stored and shown, and the whole is the register of                  *)
(* DecisionRegister; however they overlap, memory and store agree when all *)
(* of them are done.  That a pin wins in the end is a liveness property,   *)
(* which TLC checks.                                                       *)
(***************************************************************************)
EXTENDS MetadataStore, Integers, TLAPS

------------------------------------------------------------------------------
(* The line of the store's write lock.                                     *)

\* Who queues or writes stands in the line once, and who writes is its head.
InLine(t) == \E n \in 1..Len(line) : line[n] = t

Ordered ==
    /\ \A s \in Saver : pc[s] \in {"queue", "write"} <=> InLine(s)
    /\ \A s \in Saver : pc[s] = "write" => line # <<>> /\ Head(line) = s
    /\ \A n, k \in 1..Len(line) : line[n] = line[k] => n = k

Typed == TypeOK /\ Ordered

LEMMA Joined ==
    ASSUME NEW s \in Saver, line \in Seq(Saver), line' = Append(line, s), Ordered,
           ~InLine(s)
    PROVE  /\ line' \in Seq(Saver) /\ line' # <<>>
           /\ \A t : InLine(t)' <=> InLine(t) \/ t = s
           /\ \A n, k \in 1..Len(line') : line'[n] = line'[k] => n = k
           /\ Head(line') = IF line = <<>> THEN s ELSE Head(line)
<1>1. /\ Len(line') = Len(line) + 1 /\ line'[Len(line) + 1] = s
      /\ \A n \in 1..Len(line) : line'[n] = line[n]
      /\ line' \in Seq(Saver) /\ line' # <<>> /\ Len(line) \in Nat
  OBVIOUS
<1>2. \A n \in 1..(Len(line) + 1) : n = Len(line) + 1 \/ n \in 1..Len(line)
  BY <1>1
<1>3. \A n, k \in 1..Len(line') : line'[n] = line'[k] => n = k
  BY <1>1, <1>2 DEF Ordered, InLine
<1>4. ASSUME NEW t PROVE InLine(t)' <=> InLine(t) \/ t = s
  <2>1. InLine(t) => InLine(t)'
    BY <1>1 DEF InLine
  <2>2. t = s => InLine(t)'
    BY <1>1 DEF InLine
  <2>3. InLine(t)' => InLine(t) \/ t = s
    BY <1>1, <1>2 DEF InLine
  <2> QED
    BY <2>1, <2>2, <2>3
<1>5. Head(line') = IF line = <<>> THEN s ELSE Head(line)
  <2>1. CASE line = <<>>
    BY <1>1, <2>1
  <2>2. CASE line # <<>>
    BY <1>1, <2>2
  <2> QED
    BY <2>1, <2>2
<1> QED
  BY <1>1, <1>3, <1>4, <1>5

LEMMA Left ==
    ASSUME line \in Seq(Saver), line # <<>>, line' = Tail(line), Ordered
    PROVE  /\ line' \in Seq(Saver)
           /\ \A t : InLine(t)' <=> InLine(t) /\ t # Head(line)
           /\ \A n, k \in 1..Len(line') : line'[n] = line'[k] => n = k
<1>1. /\ Len(line) \in Nat \ {0} /\ Len(line') = Len(line) - 1 /\ Head(line) = line[1]
      /\ \A n \in 1..Len(line') : line'[n] = line[n + 1]
      /\ line' \in Seq(Saver)
  OBVIOUS
<1>2. \A n, k \in 1..Len(line) : line[n] = line[k] => n = k
  BY DEF Ordered
<1>3. \A n, k \in 1..Len(line') : line'[n] = line'[k] => n = k
  BY <1>1, <1>2
<1>4. ASSUME NEW t PROVE InLine(t)' <=> InLine(t) /\ t # Head(line)
  <2>1. InLine(t)' => InLine(t) /\ t # Head(line)
    BY <1>1, <1>2 DEF InLine
  <2>2. ASSUME InLine(t), t # Head(line) PROVE InLine(t)'
    <3>1. PICK n \in 1..Len(line) : line[n] = t
      BY <2>2 DEF InLine
    <3>2. n - 1 \in 1..Len(line') /\ line'[n - 1] = t
      BY <1>1, <2>2, <3>1
    <3> QED
      BY <3>2 DEF InLine
  <2> QED
    BY <2>1, <2>2
<1> QED
  BY <1>1, <1>3, <1>4

------------------------------------------------------------------------------
(* Types.                                                                  *)

LEMMA BlankType == Blank \in Flags
  BY DEF Blank, Flags

LEMMA InitTyped == Init => Typed
<1> SUFFICES ASSUME Init PROVE Typed
  OBVIOUS
<1>1. TypeOK
  BY BlankType DEF Init, TypeOK, Blank
<1>2. Ordered
  BY DEF Init, Ordered, InLine
<1> QED
  BY <1>1, <1>2 DEF Typed

LEMMA CandidateType ==
    ASSUME NEW mem \in Flags, NEW entries \in [Path -> {"clear", "set", "absent", "hidden"}]
    PROVE  Candidate(mem, entries) \in Flags
  BY DEF Candidate, Flags

LEMMA BeginTyped ==
    ASSUME Typed, NEW s \in Saver, NEW mem \in Flags,
           NEW entries \in [Path -> {"clear", "set", "absent", "hidden"}],
           NEW who \in Path \cup {Nothing, Forced}, Begin(s, mem, entries, who),
           persisted' \in Flags, data' \in [Path -> {"clear", "set", "absent", "hidden"}],
           decision' \in [Path -> {"clear", "set", "open", "void"}],
           scan' \in {"idle", "listed", "checked"}, listed' \subseteq Path, gone' \subseteq Path,
           UNCHANGED <<disk, store, serial>>
    PROVE  Typed'
<1>1. TypeOK'
  BY CandidateType DEF Typed, TypeOK, Begin
<1>2. Ordered'
  BY DEF Typed, TypeOK, Ordered, InLine, Begin
<1> QED
  BY <1>1, <1>2 DEF Typed

LEMMA UserTyped ==
    ASSUME Typed, NEW s \in Saver, UNCHANGED serial,
           Save(s) \/ \E p \in Path : Pin(s, p) \/ Unpin(s, p)
    PROVE  Typed'
<1>1. CASE Save(s)
  BY <1>1, BeginTyped DEF Save, Typed, TypeOK, memory, scanning
<1>2. ASSUME NEW p \in Path, Pin(s, p) PROVE Typed'
  <2>1. /\ persisted' \in Flags /\ data' \in [Path -> {"clear", "set", "absent", "hidden"}]
        /\ decision' \in [Path -> {"clear", "set", "open", "void"}]
    BY <1>2 DEF Pin, Typed, TypeOK, Flags
  <2> QED
    BY <1>2, <2>1, BeginTyped DEF Pin, Typed, TypeOK, scanning
<1>3. ASSUME NEW p \in Path, Unpin(s, p) PROVE Typed'
  <2>1. /\ persisted' \in Flags /\ data' \in [Path -> {"clear", "set", "absent", "hidden"}]
        /\ decision' \in [Path -> {"clear", "set", "open", "void"}]
    BY <1>3 DEF Unpin, Typed, TypeOK, Flags
  <2> QED
    BY <1>3, <2>1, BeginTyped DEF Unpin, Typed, TypeOK, scanning
<1> QED
  BY <1>1, <1>2, <1>3

LEMMA OnDiskType == ASSUME NEW flags \in Flags PROVE OnDisk(flags) \in Flags
  BY DEF OnDisk, Flags

LEMMA FinishType ==
    ASSUME TypeOK, NEW s \in Saver, Finish(s)
    PROVE  /\ pc' \in [Saver -> {"idle", "filter", "queue", "write"}]
           /\ snap' \in [Saver -> Flags] /\ out' \in [Saver -> Flags]
           /\ user' \in [Saver -> Path \cup {Nothing, Forced}]
  BY BlankType DEF TypeOK, Finish

LEMMA SaveTyped ==
    ASSUME Typed, NEW s \in Saver, SaveStep(s), UNCHANGED serial
    PROVE  Typed'
<1> USE DEF memory, scanning
<1>1. CASE Skip(s)
  <2>1. TypeOK'
    BY <1>1, FinishType DEF Skip, Typed, TypeOK
  <2>2. Ordered'
    BY <1>1 DEF Typed, TypeOK, Ordered, InLine, Skip, Finish
  <2> QED
    BY <2>1, <2>2 DEF Typed
<1>2. CASE Submit(s)
  <2>1. snap' \in [Saver -> Flags] /\ snap'[s] \in Flags
    BY <1>2, OnDiskType DEF Submit, Typed, TypeOK
  <2>2. ~InLine(s)
    BY <1>2 DEF Submit, Typed, Ordered
  <2>3. line' = Append(line, s) /\ line \in Seq(Saver) /\ Ordered
    BY <1>2 DEF Submit, Typed, TypeOK
  <2>4. /\ line' \in Seq(Saver) /\ line' # <<>>
        /\ \A t : InLine(t)' <=> InLine(t) \/ t = s
        /\ \A n, k \in 1..Len(line') : line'[n] = line'[k] => n = k
        /\ Head(line') = IF line = <<>> THEN s ELSE Head(line)
    BY <2>2, <2>3, Joined
  <2>5. CASE line = <<>>
    <3>1. pc' = [pc EXCEPT ![s] = "write"] /\ out' = [out EXCEPT ![s] = snap'[s]] /\ waiting' = waiting
      BY <1>2, <2>5 DEF Submit
    <3>2. TypeOK'
      BY <1>2, <2>1, <2>4, <3>1 DEF Submit, Typed, TypeOK
    <3>3. \A t \in Saver : pc[t] # "write"
      BY <2>5 DEF Typed, Ordered
    <3>4. Ordered'
      BY <2>4, <2>5, <3>1, <3>3 DEF Typed, TypeOK, Ordered
    <3> QED
      BY <3>2, <3>4 DEF Typed
  <2>6. CASE line # <<>>
    <3>1. pc' = [pc EXCEPT ![s] = "queue"] /\ out' = out /\ waiting' = snap'[s]
      BY <1>2, <2>6 DEF Submit
    <3>2. TypeOK'
      BY <1>2, <2>1, <2>4, <3>1 DEF Submit, Typed, TypeOK
    <3>3. Ordered'
      BY <2>4, <2>6, <3>1 DEF Typed, TypeOK, Ordered
    <3> QED
      BY <3>2, <3>3 DEF Typed
  <2> QED
    BY <2>5, <2>6
<1>3. CASE Take(s)
  <2>1. TypeOK'
    BY <1>3 DEF Take, Typed, TypeOK
  <2>2. Ordered'
    BY <1>3 DEF Take, Typed, TypeOK, Ordered, InLine
  <2> QED
    BY <2>1, <2>2 DEF Typed
<1>4. CASE Covered(s) \/ Written(s)
  <2>1. line # <<>> /\ Head(line) = s /\ line \in Seq(Saver) /\ Ordered /\ line' = Tail(line)
    BY <1>4 DEF Covered, Written, Typed, TypeOK, Ordered
  <2>2. /\ line' \in Seq(Saver)
        /\ \A t : InLine(t)' <=> InLine(t) /\ t # Head(line)
        /\ \A n, k \in 1..Len(line') : line'[n] = line'[k] => n = k
    BY <2>1, Left
  <2>3. Finish(s) /\ store' \in Flags /\ persisted' \in Flags
    BY <1>4 DEF Covered, Written, Typed, TypeOK
  <2>4. TypeOK'
    BY <1>4, <2>2, <2>3, FinishType DEF Covered, Written, Typed, TypeOK
  <2>5. \A t \in Saver : pc'[t] = IF t = s THEN "idle" ELSE pc[t]
    BY <2>3 DEF Finish, Typed, TypeOK
  <2>6. \A t \in Saver \ {s} : pc[t] # "write"
    BY <2>1 DEF Ordered
  <2>7. Ordered'
    BY <2>1, <2>2, <2>5, <2>6 DEF Ordered
  <2> QED
    BY <2>4, <2>7 DEF Typed
<1> QED
  BY <1>1, <1>2, <1>3, <1>4 DEF SaveStep

LEMMA PrunedType ==
    ASSUME TypeOK
    PROVE  /\ Pruned \in Flags
           /\ Merged(Pruned) \in [Path -> {"clear", "set", "absent", "hidden"}]
<1>1. Pruned \in Flags
  BY DEF TypeOK, Pruned, Flags
<1>2. \A p \in Path : Merged(Pruned)[p] \in {"clear", "set", "hidden"}
  BY DEF Merged
<1>3. Merged(Pruned) \in [Path -> {"clear", "set", "absent", "hidden"}]
  BY <1>2 DEF Merged
<1> QED
  BY <1>1, <1>3

\* What a scan does to the metadata, and the save that may begin with it.
Scanned(dropped, entries) ==
    /\ persisted' = [p \in Path |-> IF p \in dropped THEN "clear" ELSE Pruned[p]]
    /\ decision' = [p \in Path |-> IF p \in dropped THEN "void" ELSE decision[p]]
    /\ \A p \in Path \ (gone \cup dropped) : entries[p] = data[p]
    /\ \/ dropped = {} /\ UNCHANGED saves
       \/ \E s \in Saver : Begin(s, persisted', entries, Forced)

LEMMA ScanSaves ==
    ASSUME TypeOK, ScanEnds
    PROVE  /\ \E dropped \in SUBSET Path, entries \in [Path -> {"clear", "set", "absent", "hidden"}] :
                 Scanned(dropped, entries)
           /\ persisted' \in Flags /\ decision' \in [Path -> {"clear", "set", "open", "void"}]
           /\ data' = Merged(Pruned) /\ data' \in [Path -> {"clear", "set", "absent", "hidden"}]
           /\ scan' = "idle" /\ listed' = {} /\ gone' = {} /\ UNCHANGED <<disk, store>>
<1>1. Pruned \in Flags /\ Merged(Pruned) \in [Path -> {"clear", "set", "absent", "hidden"}]
  BY PrunedType
<1>2. PICK dropped \in SUBSET Comparable :
        /\ persisted' = [p \in Path |-> IF p \in dropped THEN "clear" ELSE Pruned[p]]
        /\ decision' = [p \in Path |-> IF p \in dropped THEN "void" ELSE decision[p]]
        /\ \/ dropped = {} /\ UNCHANGED saves
           \/ \E s \in Saver :
                 Begin(s, persisted',
                       [p \in Path |-> IF p \in dropped /\ Shown[p] = "hidden"
                                         THEN Pruned[p] ELSE Shown[p]], Forced)
  BY DEF ScanEnds
<1> DEFINE entries == [p \in Path |-> IF p \in dropped /\ Shown[p] = "hidden"
                                        THEN Pruned[p] ELSE Shown[p]]
<1>3. dropped \subseteq Path
  BY DEF Comparable, TypeOK
<1>4. entries \in [Path -> {"clear", "set", "absent", "hidden"}]
  BY <1>1 DEF Shown, TypeOK, Flags
<1>5. \A p \in Path \ (gone \cup dropped) : entries[p] = data[p]
  BY DEF Shown
<1>6. persisted' \in Flags /\ decision' \in [Path -> {"clear", "set", "open", "void"}]
  <2> HIDE DEF entries
  <2> QED
    BY <1>1, <1>2 DEF Flags, TypeOK
<1>7. Scanned(dropped, entries)
  BY <1>2, <1>5 DEF Scanned
<1> HIDE DEF entries
<1> QED
  BY <1>1, <1>3, <1>4, <1>6, <1>7 DEF ScanEnds

LEMMA AroundTyped ==
    ASSUME Typed, UNCHANGED serial,
           \/ \E selected \in SUBSET Path : ScanFiles(selected)
           \/ ScanStep \/ Restart \/ \E p \in Path : Remove(p)
    PROVE  Typed'
<1> USE DEF memory, scanning, saves
<1>1. CASE \/ \E selected \in SUBSET Path : ScanFiles(selected)
           \/ CheckFiles \/ \E p \in Path : Remove(p)
  <2>1. TypeOK'
    BY <1>1 DEF ScanFiles, CheckFiles, Remove, Typed, TypeOK
  <2>2. Ordered'
    BY <1>1 DEF ScanFiles, CheckFiles, Remove, Typed, Ordered, InLine
  <2> QED
    BY <2>1, <2>2 DEF Typed
<1>2. CASE ScanEnds
  <2>0. TypeOK
    BY DEF Typed
  <2>1. /\ persisted' \in Flags /\ decision' \in [Path -> {"clear", "set", "open", "void"}]
        /\ data' \in [Path -> {"clear", "set", "absent", "hidden"}]
        /\ scan' = "idle" /\ listed' = {} /\ gone' = {} /\ UNCHANGED <<disk, store>>
    BY <1>2, <2>0, ScanSaves
  <2>2. CASE UNCHANGED saves
    <3>1. TypeOK'
      BY <2>0, <2>1, <2>2 DEF TypeOK
    <3>2. Ordered'
      BY <2>2 DEF Typed, Ordered, InLine
    <3> QED
      BY <3>1, <3>2 DEF Typed
  <2>3. ASSUME NEW s \in Saver, NEW entries \in [Path -> {"clear", "set", "absent", "hidden"}],
               Begin(s, persisted', entries, Forced)
        PROVE  Typed'
    <3>1. PICK mem \in Flags : mem = persisted'
      BY <2>1
    <3>2. Begin(s, mem, entries, Forced)
      BY <2>3, <3>1
    <3> QED
      BY <2>1, <3>2, BeginTyped
  <2> QED
    BY <1>2, <2>0, <2>2, <2>3, ScanSaves DEF Scanned
<1>3. CASE Restart
  <2>1. TypeOK'
    BY <1>3, BlankType DEF Restart, Typed, TypeOK
  <2>2. Ordered'
    BY <1>3 DEF Restart, Ordered, InLine
  <2> QED
    BY <2>1, <2>2 DEF Typed
<1> QED
  BY <1>1, <1>2, <1>3 DEF ScanStep

LEMMA TypedStep == ASSUME Typed, [Next]_vars PROVE Typed'
<1>1. CASE UNCHANGED vars
  BY <1>1 DEF Typed, TypeOK, Ordered, InLine, vars, memory, saves, scanning
<1>2. CASE Next
  BY <1>2, UserTyped, SaveTyped, AroundTyped DEF Next, Step
<1> QED
  BY <1>1, <1>2

\* Every variable of the store stays of its type, the line of writers included.
THEOREM TypeCorrect == Spec => []TypeOK
<1>1. Typed => TypeOK
  BY DEF Typed
<1> QED
  BY <1>1, InitTyped, TypedStep, PTL DEF Spec

------------------------------------------------------------------------------
(* Decisions, when saves do not overlap.                                   *)

\* The flag of a blueprint that stands is the last decision, unless a restart cut
\* that short; it is in the entry, in what a save carries and, once the
\* call that set it is over, in the store.
Carried(p) ==
    /\ decision[p] # "open" => decision[p] = persisted[p]
    /\ data[p] \in {"clear", "set"} => data[p] = persisted[p]
    /\ \A s \in Saver : pc[s] # "idle" => snap[s][p] = persisted[p]
    /\ \A s \in Saver : pc[s] = "write" => out[s][p] = persisted[p]
    /\ (\A s \in Saver : user[s] # p) => store[p] = persisted[p]

\* One save at a time, so none that queues.
Alone ==
    /\ \A s, t \in Saver : pc[s] # "idle" /\ pc[t] # "idle" => s = t
    /\ \A s \in Saver : pc[s] # "queue"
    /\ \A s \in Saver : user[s] # Nothing => pc[s] # "idle"

Agreed ==
    /\ gone \cap disk = {}
    /\ serial => Alone /\ \A p \in Standing : Carried(p)

LEMMA InitAgreed == Init => Agreed
  BY DEF Init, Agreed, Alone, Carried, Standing, Blank

\* A save begins with the decisions as they are then.
LEMMA BeginAgreed ==
    ASSUME Typed, Agreed, NEW s \in Saver, NEW mem \in Flags,
           NEW entries \in [Path -> {"clear", "set", "absent", "hidden"}],
           NEW who \in Path \cup {Nothing, Forced}, Begin(s, mem, entries, who),
           serial /\ Starting => ~Saving,
           serial => \A p \in Standing' :
              /\ decision'[p] # "open" => decision'[p] = persisted'[p]
              /\ mem[p] = persisted'[p]
              /\ entries[p] \in {"clear", "set"} => entries[p] = persisted'[p]
              /\ data'[p] \in {"clear", "set"} => data'[p] = persisted'[p]
              /\ p # who => persisted'[p] = persisted[p] /\ p \in Standing,
           gone' \subseteq gone, UNCHANGED <<disk, store, serial>>
    PROVE  Agreed'
<1>1. gone' \cap disk' = {}
  BY DEF Agreed
<1>2. ASSUME serial PROVE Alone' /\ \A p \in Standing' : Carried(p)'
  <2>1. /\ pc[s] = "idle" /\ pc' = [pc EXCEPT ![s] = "filter"]
        /\ snap' = [snap EXCEPT ![s] = Candidate(mem, entries)]
        /\ user' = [user EXCEPT ![s] = who] /\ out' = out
    BY DEF Begin
  <2>2. /\ pc \in [Saver -> {"idle", "filter", "queue", "write"}] /\ snap \in [Saver -> Flags]
        /\ user \in [Saver -> Path \cup {Nothing, Forced}] /\ disk \subseteq Path
    BY DEF Typed, TypeOK
  <2>3. Starting
    BY <2>1, <2>2 DEF Starting
  <2>4. \A t \in Saver : pc[t] = "idle" /\ user[t] = Nothing
    BY <1>2, <2>3 DEF Saving, Agreed, Alone
  <2>5. \A t \in Saver : pc'[t] = IF t = s THEN "filter" ELSE "idle"
    BY <2>1, <2>2, <2>4
  <2>6. \A t \in Saver : user'[t] = IF t = s THEN who ELSE Nothing
    BY <2>1, <2>2, <2>4
  <2>7. Alone'
    BY <2>5, <2>6 DEF Alone
  <2>8. ASSUME NEW p \in Standing' PROVE Carried(p)'
    <3>1. p \in Path /\ p \in disk /\ p # Nothing
      BY <2>2, NothingAssumption DEF Standing
    <3>2. snap'[s][p] = persisted'[p]
      <4>1. /\ mem[p] = persisted'[p]
            /\ entries[p] \in {"clear", "set"} => entries[p] = persisted'[p]
        BY <1>2, <2>8
      <4>2. Candidate(mem, entries)[p] = persisted'[p]
        BY <3>1, <4>1 DEF Candidate
      <4> QED
        BY <2>1, <2>2, <4>2
    <3>3. (\A t \in Saver : user'[t] # p) => store'[p] = persisted'[p]
      <4>1. SUFFICES ASSUME \A t \in Saver : user'[t] # p
                     PROVE  store'[p] = persisted'[p]
        OBVIOUS
      <4>2. p # who
        BY <2>6, <4>1
      <4>3. persisted[p] = persisted'[p] /\ p \in Standing
        BY <1>2, <2>8, <4>2
      <4>4. \A t \in Saver : user[t] # p
        BY <2>4, <3>1
      <4> QED
        BY <1>2, <2>8, <3>1, <4>3, <4>4 DEF Agreed, Carried
    <3>4. /\ decision'[p] # "open" => decision'[p] = persisted'[p]
          /\ data'[p] \in {"clear", "set"} => data'[p] = persisted'[p]
      BY <1>2, <2>8
    <3> QED
      BY <2>5, <3>2, <3>3, <3>4 DEF Carried
  <2> QED
    BY <2>7, <2>8
<1> QED
  BY <1>1, <1>2 DEF Agreed

LEMMA UserAgreed ==
    ASSUME Typed, Agreed, NEW s \in Saver, UNCHANGED serial, serial /\ Starting => ~Saving,
           Save(s) \/ \E p \in Path : Pin(s, p) \/ Unpin(s, p)
    PROVE  Agreed'
<1>1. CASE ~serial
  BY <1>1 DEF Agreed, Save, Pin, Unpin, scanning
<1> SUFFICES ASSUME serial PROVE Agreed'
  BY <1>1
<1>2. \A p \in Standing : Carried(p)
  BY DEF Agreed
<1>3. /\ persisted \in Flags /\ data \in [Path -> {"clear", "set", "absent", "hidden"}]
      /\ decision \in [Path -> {"clear", "set", "open", "void"}] /\ disk \subseteq Path
  BY DEF Typed, TypeOK
<1>4. CASE Save(s)
  BY <1>2, <1>3, <1>4, BeginAgreed DEF Save, Carried, Standing, memory, scanning
<1>5. ASSUME NEW p \in Path, Pin(s, p) PROVE Agreed'
  <2>1. /\ persisted' = [persisted EXCEPT ![p] = "set"]
        /\ data' = [data EXCEPT ![p] = IF @ = "hidden" THEN @ ELSE "set"]
        /\ decision' = [decision EXCEPT ![p] = "set"]
        /\ Begin(s, persisted', data', p) /\ UNCHANGED <<disk, store, gone>>
    BY <1>5 DEF Pin, scanning
  <2>2. persisted' \in Flags /\ data' \in [Path -> {"clear", "set", "absent", "hidden"}]
    BY <1>3, <2>1 DEF Flags
  <2>3. ASSUME NEW q \in Standing'
        PROVE  /\ decision'[q] # "open" => decision'[q] = persisted'[q]
               /\ data'[q] \in {"clear", "set"} => data'[q] = persisted'[q]
               /\ q # p => persisted'[q] = persisted[q] /\ q \in Standing
    <3>1. q \in Path /\ (q # p => q \in Standing)
      BY <1>3, <2>1, <2>3 DEF Standing
    <3> QED
      BY <1>2, <1>3, <2>1, <3>1 DEF Flags, Carried
  <2>4. PICK mem \in Flags, entries \in [Path -> {"clear", "set", "absent", "hidden"}] :
          mem = persisted' /\ entries = data'
    BY <2>2
  <2>5. Begin(s, mem, entries, p)
    BY <2>1, <2>4
  <2>6. \A q \in Standing' :
           /\ decision'[q] # "open" => decision'[q] = persisted'[q]
           /\ mem[q] = persisted'[q]
           /\ entries[q] \in {"clear", "set"} => entries[q] = persisted'[q]
           /\ data'[q] \in {"clear", "set"} => data'[q] = persisted'[q]
           /\ q # p => persisted'[q] = persisted[q] /\ q \in Standing
    BY <2>3, <2>4
  <2> QED
    BY <2>1, <2>5, <2>6, BeginAgreed
<1>6. ASSUME NEW p \in Path, Unpin(s, p) PROVE Agreed'
  <2>1. /\ persisted' = [persisted EXCEPT ![p] = "clear"]
        /\ data' = [data EXCEPT ![p] = IF @ = "hidden" THEN @ ELSE "absent"]
        /\ decision' = [decision EXCEPT ![p] = "clear"]
        /\ Begin(s, persisted', data', p) /\ UNCHANGED <<disk, store, gone>>
    BY <1>6 DEF Unpin, scanning
  <2>2. persisted' \in Flags /\ data' \in [Path -> {"clear", "set", "absent", "hidden"}]
    BY <1>3, <2>1 DEF Flags
  <2>3. ASSUME NEW q \in Standing'
        PROVE  /\ decision'[q] # "open" => decision'[q] = persisted'[q]
               /\ data'[q] \in {"clear", "set"} => data'[q] = persisted'[q]
               /\ q # p => persisted'[q] = persisted[q] /\ q \in Standing
    <3>1. q \in Path /\ (q # p => q \in Standing)
      BY <1>3, <2>1, <2>3 DEF Standing
    <3> QED
      BY <1>2, <1>3, <2>1, <3>1 DEF Flags, Carried
  <2>4. PICK mem \in Flags, entries \in [Path -> {"clear", "set", "absent", "hidden"}] :
          mem = persisted' /\ entries = data'
    BY <2>2
  <2>5. Begin(s, mem, entries, p)
    BY <2>1, <2>4
  <2>6. \A q \in Standing' :
           /\ decision'[q] # "open" => decision'[q] = persisted'[q]
           /\ mem[q] = persisted'[q]
           /\ entries[q] \in {"clear", "set"} => entries[q] = persisted'[q]
           /\ data'[q] \in {"clear", "set"} => data'[q] = persisted'[q]
           /\ q # p => persisted'[q] = persisted[q] /\ q \in Standing
    BY <2>3, <2>4
  <2> QED
    BY <2>1, <2>5, <2>6, BeginAgreed
<1> QED
  BY <1>4, <1>5, <1>6

LEMMA SaveAgreed ==
    ASSUME Typed, Agreed, NEW s \in Saver, SaveStep(s), UNCHANGED serial
    PROVE  Agreed'
<1> USE DEF memory, scanning
<1>1. gone' \cap disk' = {}
  BY DEF SaveStep, Skip, Submit, Take, Covered, Written, Agreed
<1> SUFFICES ASSUME serial
             PROVE  Alone' /\ \A p \in Standing' : Carried(p)'
  BY <1>1 DEF Agreed
<1>2. Alone /\ \A p \in Standing : Carried(p)
  BY DEF Agreed
<1>3. /\ pc \in [Saver -> {"idle", "filter", "queue", "write"}] /\ snap \in [Saver -> Flags]
      /\ out \in [Saver -> Flags] /\ user \in [Saver -> Path \cup {Nothing, Forced}]
      /\ disk \subseteq Path /\ Ordered
  BY DEF Typed, TypeOK
<1>4. CASE Skip(s) \/ Written(s)
  <2>1. /\ Finish(s) /\ pc[s] # "idle" /\ UNCHANGED <<disk, data, decision>>
    BY <1>4 DEF Skip, Written
  <2>2. /\ \A t \in Saver : pc'[t] = IF t = s THEN "idle" ELSE pc[t]
        /\ \A t \in Saver : user'[t] = IF t = s THEN Nothing ELSE user[t]
        /\ \A t \in Saver \ {s} : snap'[t] = snap[t] /\ out'[t] = out[t]
    BY <1>3, <2>1 DEF Finish
  <2>3. Alone'
    BY <1>2, <2>2 DEF Alone
  <2>4. ASSUME NEW p \in Standing' PROVE Carried(p)'
    <3>1. Carried(p) /\ p \in Path
      BY <1>2, <1>3, <2>1, <2>4 DEF Standing
    <3>2. /\ persisted'[p] = persisted[p]
          /\ (\A t \in Saver : user'[t] # p) => store'[p] = persisted'[p]
      <4>1. CASE Skip(s)
        BY <2>1, <2>2, <3>1, <4>1 DEF Skip, Carried
      <4>2. CASE Written(s)
        BY <2>1, <3>1, <4>2 DEF Written, Carried
      <4> QED
        BY <1>4, <4>1, <4>2
    <3> QED
      BY <2>1, <2>2, <3>1, <3>2 DEF Carried
  <2> QED
    BY <2>3, <2>4
<1>5. CASE Submit(s)
  <2>1. line = <<>>
    <3>1. SUFFICES ASSUME line # <<>> PROVE FALSE
      OBVIOUS
    <3>2. line \in Seq(Saver)
      BY DEF Typed, TypeOK
    <3>3. line[1] \in Saver /\ InLine(line[1])
      BY <3>1, <3>2 DEF InLine
    <3>4. pc[line[1]] \in {"queue", "write"} /\ pc[s] = "filter"
      BY <1>3, <1>5, <3>3 DEF Ordered, Submit
    <3> QED
      BY <1>2, <3>3, <3>4 DEF Alone
  <2>2. /\ pc' = [pc EXCEPT ![s] = "write"] /\ snap' = [snap EXCEPT ![s] = OnDisk(snap[s])]
        /\ out' = [out EXCEPT ![s] = snap'[s]] /\ pc[s] = "filter"
        /\ UNCHANGED <<disk, data, persisted, store, user, decision>>
    BY <1>5, <2>1 DEF Submit
  <2>3. /\ \A t \in Saver : pc'[t] = IF t = s THEN "write" ELSE pc[t]
        /\ \A t \in Saver \ {s} : snap'[t] = snap[t] /\ out'[t] = out[t]
        /\ snap'[s] = OnDisk(snap[s]) /\ out'[s] = OnDisk(snap[s])
    BY <1>3, <2>2
  <2>4. Alone'
    BY <1>2, <2>2, <2>3 DEF Alone
  <2>5. ASSUME NEW p \in Standing' PROVE Carried(p)'
    <3>1. Carried(p) /\ p \in Path /\ p \in disk
      BY <1>2, <1>3, <2>2, <2>5 DEF Standing
    <3>2. OnDisk(snap[s])[p] = persisted[p]
      BY <2>2, <3>1 DEF OnDisk, Carried
    <3> QED
      BY <2>2, <2>3, <3>1, <3>2 DEF Carried
  <2> QED
    BY <2>4, <2>5
<1>6. ~Take(s) /\ ~Covered(s)
  BY <1>2 DEF Take, Covered, Alone
<1> QED
  BY <1>4, <1>5, <1>6 DEF SaveStep

LEMMA ScanAgreed ==
    ASSUME Typed, Agreed, ScanEnds, UNCHANGED serial, serial /\ Starting => ~Saving
    PROVE  Agreed'
<1>1. PICK dropped \in SUBSET Path, entries \in [Path -> {"clear", "set", "absent", "hidden"}] :
        Scanned(dropped, entries)
  BY ScanSaves DEF Typed
<1>2. /\ persisted' \in Flags /\ data' = Merged(Pruned) /\ gone' = {} /\ UNCHANGED <<disk, store>>
  BY ScanSaves DEF Typed
<1>3. CASE ~serial
  BY <1>2, <1>3 DEF Agreed
<1> SUFFICES ASSUME serial PROVE Agreed'
  BY <1>3
<1>4. /\ \A p \in Standing : Carried(p)
      /\ gone \cap disk = {} /\ Alone
  BY DEF Agreed
<1>5. /\ disk \subseteq Path /\ persisted \in Flags
      /\ data \in [Path -> {"clear", "set", "absent", "hidden"}]
      /\ decision \in [Path -> {"clear", "set", "open", "void"}]
  BY DEF Typed, TypeOK
<1>6. ASSUME NEW p \in Standing'
      PROVE  /\ p \in Standing /\ p \in Path /\ p \notin gone \cup dropped
             /\ decision'[p] = decision[p] /\ persisted'[p] = persisted[p]
             /\ data'[p] \in {"clear", "set"} => data'[p] = persisted[p]
  <2>1. p \in disk /\ p \in Path /\ p \notin gone /\ p \notin dropped
    BY <1>1, <1>2, <1>4, <1>5 DEF Standing, Scanned
  <2>2. decision'[p] = decision[p] /\ p \in Standing
    BY <1>1, <2>1 DEF Standing, Scanned
  <2>3. Pruned[p] = persisted[p] /\ persisted[p] \in {"clear", "set"}
    BY <1>5, <2>1 DEF Pruned, Flags
  <2>4. persisted'[p] = persisted[p]
    BY <1>1, <2>1, <2>3 DEF Scanned
  <2>5. data[p] \in {"clear", "set"} => data[p] = persisted[p]
    BY <1>4, <2>2 DEF Carried
  <2> HIDE DEF Pruned
  <2>6. data'[p] = CASE p \notin listed -> "hidden"
                     [] p \in listed /\ "set" \in {Pruned[p], data[p]} -> "set"
                     [] OTHER -> "clear"
    BY <1>2, <2>1 DEF Merged
  <2>7. CASE p \notin listed
    BY <2>1, <2>2, <2>4, <2>6, <2>7
  <2>8. CASE p \in listed /\ "set" \in {Pruned[p], data[p]}
    BY <2>1, <2>2, <2>3, <2>4, <2>5, <2>6, <2>8
  <2>9. CASE p \in listed /\ "set" \notin {Pruned[p], data[p]}
    BY <2>1, <2>2, <2>3, <2>4, <2>6, <2>9
  <2> QED
    BY <2>7, <2>8, <2>9
<1>7. CASE UNCHANGED saves
  <2>1. ASSUME NEW p \in Standing' PROVE Carried(p)'
    BY <1>2, <1>4, <1>6, <1>7 DEF saves, Carried
  <2> QED
    BY <1>2, <1>4, <1>7, <2>1 DEF saves, Agreed, Alone
<1>8. ASSUME NEW s \in Saver, Begin(s, persisted', entries, Forced)
      PROVE  Agreed'
  <2>1. PICK mem \in Flags : mem = persisted'
    BY <1>2
  <2>2. Begin(s, mem, entries, Forced)
    BY <1>8, <2>1
  <2>3. ASSUME NEW p \in Standing'
        PROVE  entries[p] \in {"clear", "set"} => entries[p] = persisted'[p]
    BY <1>1, <1>4, <1>6 DEF Scanned, Carried
  <2>4. \A p \in Standing' :
           /\ decision'[p] # "open" => decision'[p] = persisted'[p]
           /\ mem[p] = persisted'[p]
           /\ entries[p] \in {"clear", "set"} => entries[p] = persisted'[p]
           /\ data'[p] \in {"clear", "set"} => data'[p] = persisted'[p]
           /\ p # Forced => persisted'[p] = persisted[p] /\ p \in Standing
    BY <1>4, <1>6, <2>1, <2>3 DEF Carried
  <2> QED
    BY <1>2, <2>2, <2>4, BeginAgreed
<1> QED
  BY <1>1, <1>7, <1>8 DEF Scanned

LEMMA RestartAgreed ==
    ASSUME Typed, Agreed, Restart, UNCHANGED serial
    PROVE  Agreed'
<1>1. ASSUME NEW p \in Standing', serial PROVE Carried(p)'
  <2>1. /\ p \in disk /\ p \in Path /\ p # Nothing
        /\ decision' = [q \in Path |->
                          IF decision[q] # "void" /\ \E s \in Saver : user[s] = q THEN "open"
                          ELSE decision[q]]
    BY NothingAssumption DEF Restart, Typed, TypeOK, Standing
  <2>2. /\ p \in Standing
        /\ decision'[p] # "open" => decision'[p] = decision[p] /\ \A s \in Saver : user[s] # p
    BY <2>1 DEF Standing
  <2>3. Carried(p) /\ persisted' = store /\ store' = store
    BY <1>1, <2>2 DEF Agreed, Restart
  <2>4. data'[p] = "hidden" /\ \A s \in Saver : pc'[s] = "idle"
    BY <2>1 DEF Restart
  <2> QED
    BY <2>2, <2>3, <2>4 DEF Carried
<1>2. Alone'
  BY DEF Restart, Alone
<1>3. gone' \cap disk' = {}
  BY DEF Restart
<1> QED
  BY <1>1, <1>2, <1>3 DEF Agreed

LEMMA AgreedStep == ASSUME Typed, Agreed, [Next]_vars PROVE Agreed'
<1> USE DEF memory, saves, scanning
<1>1. CASE UNCHANGED vars
  BY <1>1 DEF Agreed, Alone, Carried, Standing, vars
<1>2. CASE \/ \E selected \in SUBSET Path : ScanFiles(selected)
           \/ CheckFiles \/ \E p \in Path : Remove(p)
  <2>1. gone' \cap disk' = {} /\ disk' \subseteq disk
    BY <1>2 DEF ScanFiles, CheckFiles, Remove, Agreed
  <2>2. UNCHANGED <<data, persisted, store, pc, snap, out, user, decision>>
    BY <1>2 DEF ScanFiles, CheckFiles, Remove
  <2>3. CASE UNCHANGED serial
    <3>1. Standing' \subseteq Standing
      BY <2>1, <2>2 DEF Standing
    <3> QED
      BY <2>1, <2>2, <2>3, <3>1 DEF Agreed, Alone, Carried
  <2>4. CASE Next
    BY <2>3, <2>4 DEF Next
  <2>5. CASE UNCHANGED vars
    BY <2>3, <2>5 DEF vars
  <2> QED
    BY <2>4, <2>5
<1>3. CASE Next
  BY <1>2, <1>3, UserAgreed, SaveAgreed, ScanAgreed, RestartAgreed DEF Next, Step, ScanStep
<1> QED
  BY <1>1, <1>3

LEMMA AgreedHolds == Spec => [](Typed /\ Agreed)
  BY InitTyped, InitAgreed, TypedStep, AgreedStep, PTL DEF Spec

\* As long as saves do not overlap, a pin or its removal is in the store once the
\* call has returned, through scans, removed files and restarts
\* (async_pin_blueprint, async_unpin_blueprint, _async_save_metadata).
THEOREM DecisionIsStored == Spec => []DecisionStored
<1>1. Typed /\ Agreed => DecisionStored
  BY DEF Agreed, Carried, DecisionStored, Acknowledged, Standing
<1> QED
  BY <1>1, AgreedHolds, PTL

\* As long as saves do not overlap, what the entities show is the last decision.
THEOREM DecisionIsShown == Spec => []DecisionShown
<1>1. Typed /\ Agreed => DecisionShown
  BY DEF Agreed, Carried, DecisionShown, Standing
<1> QED
  BY <1>1, AgreedHolds, PTL

------------------------------------------------------------------------------
(* The register.                                                           *)

\* Standing blueprints whose call has not returned.
Open == {p \in Standing : \E s \in Saver : user[s] = p}

\* A step that leaves both copies and the calls alone is not one of the register.
LEMMA Still ==
    ASSUME disk' = disk, Standing' = Standing, Open' = Open,
           \A p \in Standing : persisted'[p] = persisted[p] /\ store'[p] = store[p]
    PROVE  UNCHANGED Register!vars
<1>1. /\ [p \in Standing |-> persisted[p]]' = [p \in Standing |-> persisted[p]]
      /\ [p \in Standing |-> store[p]]' = [p \in Standing |-> store[p]]
  OBVIOUS
<1> QED
  BY <1>1 DEF Register!vars, Open

\* Nobody is called when a save begins.
LEMMA BeginCalls ==
    ASSUME Typed, Agreed, serial, NEW s \in Saver, NEW mem, NEW entries,
           NEW who \in Path \cup {Nothing, Forced}, Begin(s, mem, entries, who),
           Starting => ~Saving, disk' = disk
    PROVE  Open = {} /\ Open' = Standing' \cap {who}
<1>1. /\ pc[s] = "idle" /\ pc' = [pc EXCEPT ![s] = "filter"] /\ user' = [user EXCEPT ![s] = who]
      /\ pc \in [Saver -> {"idle", "filter", "queue", "write"}]
      /\ user \in [Saver -> Path \cup {Nothing, Forced}] /\ disk \subseteq Path /\ Nothing \notin disk
  BY NothingAssumption DEF Begin, Typed, TypeOK
<1>2. Starting
  BY <1>1 DEF Starting
<1>3. \A t \in Saver : user[t] = Nothing
  BY <1>2 DEF Saving, Agreed, Alone
<1>4. \A t \in Saver : user'[t] = IF t = s THEN who ELSE Nothing
  BY <1>1, <1>3
<1>5. Nothing \notin Standing /\ Nothing \notin Standing'
  BY <1>1 DEF Standing
<1> QED
  BY <1>3, <1>4, <1>5 DEF Open

\* A pin or its removal decides; any other save begins without the register.
LEMMA UserRegisters ==
    ASSUME Typed, Agreed, serial, NEW s \in Saver, Starting => ~Saving,
           Save(s) \/ \E p \in Path : Pin(s, p) \/ Unpin(s, p)
    PROVE  Register!Next \/ UNCHANGED Register!vars
<1>1. /\ persisted \in Flags /\ store \in Flags /\ disk \subseteq Path /\ Nothing \notin disk
      /\ decision \in [Path -> {"clear", "set", "open", "void"}] /\ Standing \subseteq disk
  BY NothingAssumption DEF Typed, TypeOK, Standing
<1>2. CASE Save(s)
  <2>1. /\ Begin(s, persisted, data, Nothing) /\ UNCHANGED <<disk, persisted, store, decision>>
    BY <1>2 DEF Save, memory
  <2>2. Standing' = Standing
    BY <2>1 DEF Standing
  <2>3. Open' = Open
    BY <1>1, <2>1, <2>2, BeginCalls
  <2> QED
    BY <2>1, <2>2, <2>3, Still
<1>3. ASSUME NEW p \in Path, Pin(s, p) \/ Unpin(s, p) PROVE Register!Decide(p)
  <2>1. PICK flag \in {"clear", "set"} :
          /\ persisted' = [persisted EXCEPT ![p] = flag]
          /\ decision' = [decision EXCEPT ![p] = flag]
    BY <1>3 DEF Pin, Unpin
  <2>2. p \in disk /\ UNCHANGED <<disk, store>>
    BY <1>3 DEF Pin, Unpin
  <2>3. \E entries : Begin(s, persisted', entries, p)
    BY <1>3 DEF Pin, Unpin
  <2>4. Standing' = Standing \cup {p}
    BY <1>1, <2>1, <2>2 DEF Standing
  <2>5. /\ disk' \ Standing' = (disk \ Standing) \ {p}
        /\ disk \ (disk' \ Standing') = Standing'
    BY <1>1, <2>2, <2>4
  <2>6. Open' = Open \cup {p}
    BY <2>2, <2>3, <2>4, BeginCalls
  <2>7. [q \in Standing |-> persisted[q]]' =
          [q \in Standing' |-> IF q = p THEN flag ELSE [r \in Standing |-> persisted[r]][q]]
    BY <1>1, <2>1, <2>4 DEF Flags
  <2>8. [q \in Standing |-> store[q]]' =
          [q \in Standing' |-> IF q \in disk \ Standing THEN store[p]
                               ELSE [r \in Standing |-> store[r]][q]]
    BY <1>1, <2>2, <2>4
  <2>9. store[p] \in {"clear", "set"}
    BY <1>1 DEF Flags
  <2> QED
    BY <2>1, <2>2, <2>5, <2>6, <2>7, <2>8, <2>9 DEF Register!Decide, Open
<1> QED
  BY <1>2, <1>3 DEF Register!Next

\* The end of a write persists; nothing else of a save is seen.
LEMMA SaveRegisters ==
    ASSUME Typed, Agreed, serial, NEW s \in Saver, SaveStep(s)
    PROVE  Register!Next \/ UNCHANGED Register!vars
<1> USE DEF memory, scanning
<1>1. /\ user \in [Saver -> Path \cup {Nothing, Forced}] /\ disk \subseteq Path /\ Nothing \notin disk
  BY NothingAssumption DEF Typed, TypeOK
<1>2. Alone /\ \A p \in Standing : Carried(p)
  BY DEF Agreed
<1>3. CASE Skip(s)
  <2>1. user' = user /\ UNCHANGED <<disk, persisted, store, decision>>
    BY <1>1, <1>3 DEF Skip, Finish
  <2> QED
    BY <2>1, Still DEF Open, Standing
<1>4. CASE Submit(s)
  BY <1>4, Still DEF Submit, Open, Standing
<1>5. CASE Written(s)
  <2>1. /\ pc[s] = "write" /\ user' = [user EXCEPT ![s] = Nothing]
        /\ store' = out[s] /\ persisted' = snap[s] /\ UNCHANGED <<disk, decision>>
    BY <1>5 DEF Written, Finish
  <2>2. \A t \in Saver : user'[t] = Nothing
    BY <1>1, <1>2, <2>1 DEF Alone
  <2>3. Standing' = Standing /\ Nothing \notin Standing
    BY <1>1, <2>1 DEF Standing
  <2>4. Open' = {}
    BY <2>2, <2>3 DEF Open
  <2>5. \A p \in Standing : store'[p] = persisted[p] /\ persisted'[p] = persisted[p]
    BY <1>2, <2>1 DEF Carried
  <2>6. /\ [p \in Standing |-> persisted[p]]' = [p \in Standing |-> persisted[p]]
        /\ [p \in Standing |-> store[p]]' = [p \in Standing |-> persisted[p]]
    BY <2>3, <2>5
  <2>7. Register!Persist
    BY <2>1, <2>3, <2>4, <2>6 DEF Register!Persist, Open
  <2> QED
    BY <2>7 DEF Register!Next
<1>6. ~Take(s) /\ ~Covered(s)
  BY <1>2 DEF Take, Covered, Alone
<1> QED
  BY <1>3, <1>4, <1>5, <1>6 DEF SaveStep

\* Scans prune only what is not on disk, and renounce what has another source.
LEMMA ScanRegisters ==
    ASSUME Typed, Agreed, serial, Starting => ~Saving, ScanEnds
    PROVE  Register!Next
<1>1. PICK dropped \in SUBSET Path, entries \in [Path -> {"clear", "set", "absent", "hidden"}] :
        Scanned(dropped, entries)
  BY ScanSaves DEF Typed
<1>2. UNCHANGED <<disk, store>>
  BY ScanSaves DEF Typed
<1>3. /\ persisted \in Flags /\ disk \subseteq Path /\ gone \cap disk = {}
      /\ decision \in [Path -> {"clear", "set", "open", "void"}] /\ Standing \subseteq disk
      /\ Forced \notin disk
  BY NothingAssumption DEF Typed, TypeOK, Agreed, Standing
<1>4. Standing' = Standing \ dropped
  BY <1>1, <1>2, <1>3 DEF Scanned, Standing
<1>5. \A p \in Standing' : persisted'[p] = persisted[p] /\ store'[p] = store[p]
  <2>1. SUFFICES ASSUME NEW p \in Standing' PROVE persisted'[p] = persisted[p]
    BY <1>2
  <2>2. p \in Path /\ p \notin gone /\ p \notin dropped
    BY <1>3, <1>4
  <2> QED
    BY <1>1, <2>2 DEF Scanned, Pruned
<1>6. Open' = Open \cap Standing'
  <2>1. CASE UNCHANGED saves
    BY <1>4, <2>1 DEF saves, Open
  <2>2. ASSUME NEW s \in Saver, Begin(s, persisted', entries, Forced)
        PROVE  Open' = Open \cap Standing'
    <3>1. PICK mem : mem = persisted'
      OBVIOUS
    <3>2. Begin(s, mem, entries, Forced)
      BY <2>2, <3>1
    <3>3. Open = {} /\ Open' = Standing' \cap {Forced}
      BY <1>2, <3>2, BeginCalls
    <3> QED
      BY <1>3, <1>4, <3>3
  <2> QED
    BY <1>1, <2>1, <2>2 DEF Scanned
<1> DEFINE changed == dropped \cap disk
<1>7. /\ disk' \ Standing' = (disk \ Standing) \cup changed
      /\ disk \ (disk' \ Standing') = Standing'
  BY <1>2, <1>3, <1>4
<1>8. /\ [q \in Standing |-> persisted[q]]' =
           [q \in Standing' |-> [r \in Standing |-> persisted[r]][q]]
      /\ [q \in Standing |-> store[q]]' = [q \in Standing' |-> [r \in Standing |-> store[r]][q]]
  BY <1>4, <1>5
<1>9. Register!Renounce(changed)
  BY <1>2, <1>6, <1>7, <1>8 DEF Register!Renounce, Register!Keep, Open
<1> QED
  BY <1>9 DEF Register!Next

LEMMA AroundRegisters ==
    ASSUME Typed, Agreed, serial, Starting => ~Saving,
           \/ \E selected \in SUBSET Path : ScanFiles(selected)
           \/ ScanStep \/ Restart \/ \E p \in Path : Remove(p)
    PROVE  Register!Next \/ UNCHANGED Register!vars
<1> USE DEF memory, scanning, saves
<1>1. /\ disk \subseteq Path /\ Nothing \notin disk /\ Standing \subseteq disk
      /\ decision \in [Path -> {"clear", "set", "open", "void"}]
  BY NothingAssumption DEF Typed, TypeOK, Standing
<1>2. CASE CheckFiles \/ \E selected \in SUBSET Path : ScanFiles(selected)
  BY <1>2, Still DEF CheckFiles, ScanFiles, Open, Standing
<1>3. CASE ScanEnds
  BY <1>3, ScanRegisters
<1>4. CASE Restart
  <2>1. /\ persisted' = store /\ UNCHANGED <<disk, store>>
        /\ \A t \in Saver : user'[t] = Nothing
        /\ \A p \in Path : decision'[p] = "void" <=> decision[p] = "void"
    BY <1>4 DEF Restart
  <2>2. Standing' = Standing /\ Nothing \notin Standing
    BY <1>1, <2>1 DEF Standing
  <2>3. Open' = {}
    BY <2>1, <2>2 DEF Open
  <2>4. /\ [p \in Standing |-> persisted[p]]' = [p \in Standing |-> store[p]]
        /\ [p \in Standing |-> store[p]]' = [p \in Standing |-> store[p]]
    BY <2>1, <2>2
  <2>5. Register!Restart
    BY <2>1, <2>2, <2>3, <2>4 DEF Register!Restart, Open
  <2> QED
    BY <2>5 DEF Register!Next
<1>5. ASSUME NEW p \in Path, Remove(p) PROVE Register!Remove(p)
  <2>1. disk' = disk \ {p} /\ UNCHANGED <<persisted, store, user, decision>>
    BY <1>5 DEF Remove
  <2>2. Standing' = Standing \ {p}
    BY <2>1 DEF Standing
  <2>3. Open' = Open \cap Standing'
    BY <2>1, <2>2 DEF Open
  <2>4. /\ disk' \ Standing' = (disk \ Standing) \ {p}
        /\ disk' \ (disk' \ Standing') = Standing'
    BY <1>1, <2>1, <2>2
  <2>5. /\ [q \in Standing |-> persisted[q]]' =
             [q \in Standing' |-> [r \in Standing |-> persisted[r]][q]]
        /\ [q \in Standing |-> store[q]]' = [q \in Standing' |-> [r \in Standing |-> store[r]][q]]
    BY <2>1, <2>2
  <2> QED
    BY <2>1, <2>3, <2>4, <2>5 DEF Register!Remove, Register!Keep, Open
<1> QED
  BY <1>2, <1>3, <1>4, <1>5 DEF ScanStep, Register!Next

\* As long as saves do not overlap, the coordinator's data, its metadata, the saves
\* and the scans are the register: what a restart reads is what the memory held when
\* the last write ended, and only a decision whose call has not returned is lost,
\* or one about a blueprint that has another source since
\* (async_pin_blueprint, async_unpin_blueprint, _async_save_metadata, async_setup).
THEOREM Refinement == Spec => BehavesAsRegister
<1>1. ASSUME Init, serial PROVE Register!Init
  <2>1. /\ disk \subseteq Path /\ Nothing \notin disk /\ Standing = disk
        /\ \A s \in Saver : user[s] = Nothing
    BY <1>1, NothingAssumption DEF Init, Blank, Standing
  <2>2. Open = {}
    BY <2>1 DEF Open
  <2>3. \A p \in disk : persisted[p] = "clear" /\ store[p] = "clear"
    BY <1>1, <2>1 DEF Init, Blank
  <2> QED
    BY <2>1, <2>2, <2>3 DEF Register!Init, Open
<1>2. Typed /\ Agreed /\ [Next]_vars => [serial => Register!Next]_(Register!vars)
  <2>1. ASSUME UNCHANGED vars PROVE UNCHANGED Register!vars
    BY <2>1 DEF vars, memory, saves, Register!vars, Standing
  <2>2. ASSUME Typed, Agreed, Next, serial PROVE Register!Next \/ UNCHANGED Register!vars
    BY <2>2, UserRegisters, SaveRegisters, AroundRegisters DEF Next, Step
  <2> QED
    BY <2>1, <2>2
<1> QED
  BY <1>1, <1>2, AgreedHolds, PTL DEF Spec, BehavesAsRegister

------------------------------------------------------------------------------
(* Memory and store, when saves overlap.                                   *)

Last == line[Len(line)]

Behind(p) ==
    \/ persisted[p] = store[p]
    \/ \E s \in Saver : user[s] = p /\ pc[s] = "filter"
    \/ decision[p] = "void" /\ \E s \in Saver : user[s] = Forced /\ pc[s] = "filter"

\* What will be in the memory when the last in line is done is what waits, what is
\* being written or what is written.
Settling ==
    /\ gone \cap disk = {}
    /\ line = <<>> => waiting = Nothing /\ \A p \in disk : Behind(p)
    /\ line # <<>> /\ waiting # Nothing => pc[Last] = "queue" /\ waiting = snap[Last]
    /\ line # <<>> /\ waiting = Nothing /\ pc[Head(line)] = "write" => out[Head(line)] = snap[Last]
    /\ line # <<>> /\ waiting = Nothing /\ pc[Head(line)] = "queue" => store = snap[Last]

LEMMA InitSettling == Init => Settling
  BY DEF Init, Settling, Behind, Blank

\* The head of the line and its last are writers, in line.
LEMMA Ends ==
    ASSUME Typed, line # <<>>
    PROVE  /\ Last \in Saver /\ InLine(Last) /\ pc[Last] \in {"queue", "write"}
           /\ Head(line) \in Saver /\ InLine(Head(line)) /\ pc[Head(line)] \in {"queue", "write"}
           /\ Len(line) # 1 => Last # Head(line)
<1>1. line \in Seq(Saver) /\ Len(line) \in Nat \ {0} /\ Head(line) = line[1]
  BY DEF Typed, TypeOK
<1>2. 1 \in 1..Len(line) /\ Len(line) \in 1..Len(line)
  BY <1>1
<1>3. InLine(Last) /\ InLine(Head(line)) /\ Last \in Saver /\ Head(line) \in Saver
  BY <1>1, <1>2 DEF InLine, Last
<1>4. Len(line) # 1 => Last # Head(line)
  BY <1>1, <1>2 DEF Typed, Ordered, Last
<1> QED
  BY <1>3, <1>4 DEF Typed, Ordered

\* A save that begins is not in line.
LEMMA BeginSettling ==
    ASSUME Typed, Settling, NEW s \in Saver, NEW mem, NEW entries, NEW who,
           Begin(s, mem, entries, who), UNCHANGED <<disk, store>>, gone' \subseteq gone,
           \A p \in disk : \/ p = who
                           \/ persisted'[p] = persisted[p] /\ decision'[p] = decision[p]
                           \/ who = Forced /\ decision'[p] = "void"
    PROVE  Settling'
<1>1. /\ pc[s] = "idle" /\ pc' = [pc EXCEPT ![s] = "filter"]
      /\ snap' = [snap EXCEPT ![s] = Candidate(mem, entries)]
      /\ user' = [user EXCEPT ![s] = who] /\ UNCHANGED <<out, line, waiting>>
  BY DEF Begin
<1>2. /\ pc \in [Saver -> {"idle", "filter", "queue", "write"}] /\ snap \in [Saver -> Flags]
      /\ user \in [Saver -> Path \cup {Nothing, Forced}]
  BY DEF Typed, TypeOK
<1>3. \A t \in Saver \ {s} : pc'[t] = pc[t] /\ snap'[t] = snap[t] /\ user'[t] = user[t]
  BY <1>1, <1>2
<1>4. CASE line = <<>>
  <2>1. ASSUME NEW p \in disk PROVE Behind(p)'
    <3>1. CASE p = who
      BY <1>1, <1>2, <3>1 DEF Behind
    <3>2. CASE persisted'[p] = persisted[p] /\ decision'[p] = decision[p]
      BY <1>1, <1>3, <1>4, <3>2 DEF Behind, Settling
    <3>3. CASE who = Forced /\ decision'[p] = "void"
      BY <1>1, <1>2, <3>3 DEF Behind
    <3> QED
      BY <3>1, <3>2, <3>3
  <2> QED
    BY <1>1, <1>4, <2>1 DEF Settling
<1>5. CASE line # <<>>
  <2>1. Last # s /\ Head(line) # s /\ Last' = Last /\ Last \in Saver /\ Head(line) \in Saver
    BY <1>1, <1>5, Ends DEF Last
  <2> QED
    BY <1>1, <1>3, <1>5, <2>1 DEF Settling
<1> QED
  BY <1>4, <1>5

LEMMA UserSettling ==
    ASSUME Typed, Settling, NEW s \in Saver,
           Save(s) \/ \E p \in Path : Pin(s, p) \/ Unpin(s, p)
    PROVE  Settling'
<1>1. /\ persisted \in Flags /\ disk \subseteq Path
      /\ decision \in [Path -> {"clear", "set", "open", "void"}]
  BY DEF Typed, TypeOK
<1>2. CASE Save(s)
  BY <1>2, BeginSettling DEF Save, memory, scanning
<1>3. ASSUME NEW p \in Path, Pin(s, p) PROVE Settling'
  <2>1. /\ persisted' = [persisted EXCEPT ![p] = "set"]
        /\ decision' = [decision EXCEPT ![p] = "set"]
    BY <1>3 DEF Pin
  <2>2. \A q \in disk : q # p => persisted'[q] = persisted[q] /\ decision'[q] = decision[q]
    BY <1>1, <2>1 DEF Flags
  <2> QED
    BY <1>3, <2>2, BeginSettling DEF Pin, scanning
<1>4. ASSUME NEW p \in Path, Unpin(s, p) PROVE Settling'
  <2>1. /\ persisted' = [persisted EXCEPT ![p] = "clear"]
        /\ decision' = [decision EXCEPT ![p] = "clear"]
    BY <1>4 DEF Unpin
  <2>2. \A q \in disk : q # p => persisted'[q] = persisted[q] /\ decision'[q] = decision[q]
    BY <1>1, <2>1 DEF Flags
  <2> QED
    BY <1>4, <2>2, BeginSettling DEF Unpin, scanning
<1> QED
  BY <1>2, <1>3, <1>4

LEMMA Longer ==
    ASSUME NEW n \in Nat \ {0}, n # 1
    PROVE  /\ 1 \in 1..n /\ 2 \in 1..n
           /\ n - 1 \in Nat \ {0} /\ n - 1 \in 1..(n - 1) /\ 1 \in 1..(n - 1) /\ (n - 1) + 1 = n
  OBVIOUS

\* Whoever leaves the head of the line makes the next one its head.
LEMMA LeaveSettling ==
    ASSUME Typed, Settling, NEW s \in Saver, line # <<>>, s = Head(line), Finish(s),
           line' = Tail(line), UNCHANGED <<disk, waiting, gone>>,
           persisted' = snap[s],
           waiting = Nothing => store' = snap[Last],
           waiting # Nothing => Len(line) # 1
    PROVE  Settling'
<1>1. /\ line \in Seq(Saver) /\ Len(line) \in Nat \ {0}
      /\ pc \in [Saver -> {"idle", "filter", "queue", "write"}]
      /\ snap \in [Saver -> Flags] /\ out \in [Saver -> Flags]
  BY DEF Typed, TypeOK
<1>2. CASE Len(line) = 1
  <2>1. line' = <<>> /\ Last = s /\ waiting = Nothing
    BY <1>1, <1>2 DEF Last
  <2> QED
    BY <2>1 DEF Settling, Behind
<1>3. CASE Len(line) # 1
  <2>0. /\ Len(line') = Len(line) - 1 /\ line' \in Seq(Saver)
        /\ \A n \in 1..Len(line') : line'[n] = line[n + 1]
    BY <1>1
  <2>1. line' # <<>> /\ Last' = Last
    <3>1. Len(line') \in 1..Len(line') /\ Len(line') + 1 = Len(line) /\ Len(line') # 0
      BY <1>1, <1>3, <2>0, Longer
    <3>2. Last' = Last
      BY <2>0, <3>1 DEF Last
    <3>3. line' # <<>>
      BY <3>1
    <3> QED
      BY <3>2, <3>3
  <2>2. Last \in Saver /\ Last # s
    BY <1>3, Ends
  <2>3. snap'[Last] = snap[Last] /\ pc'[Last] = pc[Last]
    BY <1>1, <2>2 DEF Finish
  <2>4. Head(line') = line[2] /\ line[2] \in Saver /\ line[2] # s
    <3>0. 1 \in 1..Len(line) /\ 2 \in 1..Len(line)
      BY <1>1, <1>3, Longer
    <3>1. line[1] = s /\ line[2] \in Saver
      BY <1>1, <3>0
    <3>2. Head(line') = line'[1] /\ line'[1] = line[2]
      <4>1. 1 \in 1..Len(line')
        BY <1>1, <1>3, <2>0, Longer
      <4> QED
        BY <2>0, <2>1, <4>1
    <3> QED
      BY <3>0, <3>1, <3>2 DEF Typed, Ordered
  <2>5. pc'[Head(line')] # "write"
    BY <1>1, <2>4 DEF Typed, Ordered, Finish
  <2> QED
    BY <2>1, <2>2, <2>3, <2>5 DEF Settling
<1> QED
  BY <1>2, <1>3

LEMMA SaveSettling ==
    ASSUME Typed, Settling, NEW s \in Saver, SaveStep(s)
    PROVE  Settling'
<1> USE DEF memory, scanning
<1>1. /\ pc \in [Saver -> {"idle", "filter", "queue", "write"}] /\ snap \in [Saver -> Flags]
      /\ out \in [Saver -> Flags] /\ user \in [Saver -> Path \cup {Nothing, Forced}]
      /\ disk \subseteq Path /\ line \in Seq(Saver) /\ waiting \in Flags \cup {Nothing}
  BY DEF Typed, TypeOK
<1>2. CASE Skip(s)
  <2>1. /\ pc[s] = "filter" /\ user[s] = Nothing /\ Finish(s)
        /\ UNCHANGED <<disk, persisted, store, line, waiting, gone, decision>>
    BY <1>2 DEF Skip
  <2>2. \A t \in Saver \ {s} : /\ pc'[t] = pc[t] /\ snap'[t] = snap[t]
                               /\ out'[t] = out[t] /\ user'[t] = user[t]
    BY <1>1, <2>1 DEF Finish
  <2>3. CASE line = <<>>
    <3>1. user[s] # Forced /\ \A p \in disk : p # user[s]
      BY <1>1, <2>1, NothingAssumption
    <3> QED
      BY <2>1, <2>2, <2>3, <3>1 DEF Settling, Behind
  <2>4. CASE line # <<>>
    <3>1. Last # s /\ Head(line) # s /\ Last' = Last /\ Last \in Saver /\ Head(line) \in Saver
      BY <2>1, <2>4, Ends DEF Last
    <3> QED
      BY <2>1, <2>2, <2>4, <3>1 DEF Settling
  <2> QED
    BY <2>3, <2>4
<1>3. CASE Submit(s)
  <2>1. /\ pc[s] = "filter" /\ snap' = [snap EXCEPT ![s] = OnDisk(snap[s])]
        /\ line' = Append(line, s) /\ UNCHANGED <<disk, persisted, store, gone>>
    BY <1>3 DEF Submit
  <2>2. line' # <<>> /\ Last' = s /\ Head(line') = IF line = <<>> THEN s ELSE Head(line)
    <3>1. ~InLine(s)
      BY <2>1 DEF Typed, Ordered
    <3>2. line' # <<>> /\ Last' = s
      BY <1>1, <2>1 DEF Last
    <3> QED
      BY <1>1, <2>1, <3>1, <3>2, Joined DEF Typed
  <2>3. CASE line = <<>>
    <3>1. pc'[s] = "write" /\ out'[s] = snap'[s] /\ waiting' = Nothing
      BY <1>1, <1>3, <2>3 DEF Submit, Settling
    <3> QED
      BY <2>1, <2>2, <2>3, <3>1 DEF Settling
  <2>4. CASE line # <<>>
    <3>1. pc'[s] = "queue" /\ waiting' = snap'[s] /\ snap'[s] = OnDisk(snap[s])
      BY <1>1, <1>3, <2>1, <2>4 DEF Submit
    <3>2. waiting' # Nothing
      BY <1>1, <3>1, OnDiskType, NothingAssumption
    <3> QED
      BY <2>1, <2>2, <3>1, <3>2 DEF Settling
  <2> QED
    BY <2>3, <2>4
<1>4. CASE Take(s)
  <2>1. /\ line # <<>> /\ Head(line) = s /\ pc[s] = "queue" /\ waiting # Nothing
        /\ waiting' = Nothing /\ Last' = Last /\ pc'[s] = "write" /\ out'[s] = waiting
        /\ UNCHANGED <<disk, snap, line, gone>>
    BY <1>1, <1>4 DEF Take, Last
  <2> QED
    BY <2>1 DEF Settling
<1>5. CASE Covered(s)
  <2>1. /\ line # <<>> /\ s = Head(line) /\ waiting = Nothing /\ store' = snap[Last] /\ Finish(s)
        /\ line' = Tail(line) /\ persisted' = snap[s] /\ UNCHANGED <<disk, waiting, gone>>
    BY <1>5 DEF Covered, Settling
  <2> QED
    BY <2>1, LeaveSettling
<1>6. CASE Written(s)
  <2>1. /\ line # <<>> /\ s = Head(line) /\ pc[s] = "write" /\ Finish(s) /\ store' = out[s]
        /\ line' = Tail(line) /\ persisted' = snap[s] /\ UNCHANGED <<disk, waiting, gone>>
    BY <1>6 DEF Written, Typed, Ordered
  <2>2. waiting = Nothing => store' = snap[Last]
    BY <2>1 DEF Settling
  <2>3. waiting # Nothing => Len(line) # 1
    BY <1>1, <2>1 DEF Settling, Last
  <2> QED
    BY <2>1, <2>2, <2>3, LeaveSettling
<1> QED
  BY <1>2, <1>3, <1>4, <1>5, <1>6 DEF SaveStep

LEMMA AroundSettling ==
    ASSUME Typed, Settling,
           \/ \E selected \in SUBSET Path : ScanFiles(selected)
           \/ ScanStep \/ Restart \/ \E p \in Path : Remove(p)
    PROVE  Settling'
<1> USE DEF memory, scanning
<1>1. CASE \/ \E selected \in SUBSET Path : ScanFiles(selected)
           \/ CheckFiles \/ \E p \in Path : Remove(p)
  <2>1. gone' \cap disk' = {} /\ disk' \subseteq disk
    BY <1>1 DEF ScanFiles, CheckFiles, Remove, Settling
  <2>2. UNCHANGED <<persisted, store, pc, snap, out, user, line, waiting, decision>>
    BY <1>1 DEF ScanFiles, CheckFiles, Remove, saves
  <2> QED
    BY <2>1, <2>2 DEF Settling, Behind, Last
<1>2. CASE ScanEnds
  <2>1. PICK dropped \in SUBSET Path, entries \in [Path -> {"clear", "set", "absent", "hidden"}] :
          Scanned(dropped, entries)
    BY <1>2, ScanSaves DEF Typed
  <2>2. gone' = {} /\ UNCHANGED <<disk, store>>
    BY <1>2, ScanSaves DEF Typed
  <2>3. ASSUME NEW p \in disk
        PROVE  \/ persisted'[p] = persisted[p] /\ decision'[p] = decision[p]
               \/ p \in dropped /\ decision'[p] = "void"
    <3>1. p \in Path /\ p \notin gone
      BY DEF Settling, Typed, TypeOK
    <3> QED
      BY <2>1, <3>1 DEF Scanned, Pruned
  <2>4. CASE dropped = {} /\ UNCHANGED saves
    <3>1. \A p \in disk : persisted'[p] = persisted[p] /\ decision'[p] = decision[p]
      BY <2>3, <2>4
    <3> QED
      BY <2>2, <2>4, <3>1 DEF Settling, Behind, Last, saves
  <2>5. ASSUME NEW s \in Saver, Begin(s, persisted', entries, Forced)
        PROVE  Settling'
    <3>1. PICK mem : mem = persisted'
      OBVIOUS
    <3>2. Begin(s, mem, entries, Forced)
      BY <2>5, <3>1
    <3> QED
      BY <2>2, <2>3, <3>2, BeginSettling
  <2> QED
    BY <2>1, <2>4, <2>5 DEF Scanned
<1>3. CASE Restart
  BY <1>3 DEF Restart, Settling, Behind
<1> QED
  BY <1>1, <1>2, <1>3 DEF ScanStep

LEMMA SettlingHolds == Spec => [](Typed /\ Settling)
<1>1. Typed /\ Settling /\ [Next]_vars => Settling'
  <2>1. ASSUME Typed, Settling, UNCHANGED vars PROVE Settling'
    BY <2>1 DEF vars, memory, saves, scanning, Settling, Behind, Last
  <2>2. ASSUME Typed, Settling, Next PROVE Settling'
    BY <2>2, UserSettling, SaveSettling, AroundSettling DEF Next, Step
  <2> QED
    BY <2>1, <2>2
<1> QED
  BY <1>1, InitTyped, InitSettling, TypedStep, PTL DEF Spec

\* Without the assumption that saves do not overlap: when nobody is inside
\* Store.async_save, memory and store agree about every blueprint on disk whose
\* decision is not on its way (_async_save_metadata).
THEOREM RestIsAgreement == Spec => []RestAgrees
<1>1. Typed /\ Settling => RestAgrees
  BY DEF Settling, Behind, RestAgrees
<1> QED
  BY <1>1, SettlingHolds, PTL
==============================================================================
