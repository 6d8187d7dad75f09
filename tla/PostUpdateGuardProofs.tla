------------------------- MODULE PostUpdateGuardProofs -------------------------
(***************************************************************************)
(* Theorems about PostUpdateGuard, for all blueprints, contents, verdicts, *)
(* versions and numbers of edits.  One inductive invariant, Sound, follows *)
(* a run from its scan to the record of the version: what the loop has     *)
(* passed was inspected as listed, and what the scan has not missed and    *)
(* has not changed since is listed as it is.                               *)
(***************************************************************************)
EXTENDS PostUpdateGuard, TLAPS

Looping == stage \in {"loop", "inspect", "candidate"}

\* An issue of b speaks of this content, or stands behind its dismissal.
Agrees(b, content) ==
    issue[b] # None => issue[b].content = content \/ dismissed[b] = <<content, ha>>

\* Versions only grow, and the store is never ahead of the memory.
Framed ==
    /\ stage \notin {"inspect", "candidate"} => cur = None /\ hidden = FALSE
    /\ last.ha <= ha /\ last.integ <= integ
    /\ stored.ha <= ha /\ stored.integ <= integ
    /\ Current(stored) => Current(last)

\* What the loop has passed, as long as nothing failed.
Passed(b) == listed[b] # Gone /\ b \notin todo /\ b # cur

Looped ==
    Looping =>
        /\ \A b \in Blueprint \ fresh : listed[b] = file[b]
        /\ \A b \in Blueprint \ changed : listed[b] \in {file[b], Gone}
        /\ ~failed =>
              \A b \in Blueprint :
                  Passed(b) => /\ inspected[b] # None /\ inspected[b].content = listed[b]
                               /\ Agrees(b, listed[b])

\* What a recorded version, or one about to be, says of the blueprints.
Settled(b) == (file[b] # Gone => InspectedNow(b)) /\ Agrees(b, file[b])
Complete ==
    Current(last) \/ stage \in {"record", "save"} => \A b \in Blueprint \ changed : Settled(b)

\* Dismissals in force were acknowledged by the user.
Silent ==
    /\ \A b \in Blueprint :
          dismissed[b] # None =>
              dismissed[b][2] <= ha /\ (dismissed[b][2] = ha => <<b, dismissed[b][1]>> \in acked)
    /\ hidden => /\ <<cur, listed[cur]>> \in acked
                 /\ issue[cur] # None => dismissed[cur] = <<listed[cur], ha>>
    /\ NothingHidden

Sound == TypeOK /\ Framed /\ Looped /\ Complete /\ Silent

------------------------------------------------------------------------------
(* Types.                                                                  *)

LEMMA InitSound == Init => Sound
<1> SUFFICES ASSUME Init PROVE Sound
  OBVIOUS
<1> USE FirstAssumption, ReleasesAssumption, EditsAssumption, MarkersAssumption
<1>1. Idle /\ last = Unknown /\ stored = Unknown /\ stage = "free"
  BY DEF Init
<1>2. TypeOK
  <2>1. queue \in Seq(Guard) /\ holder = None
    BY DEF Init
  <2>2. /\ file \in [Blueprint -> Content \cup {Gone}]
        /\ enabled \in BOOLEAN /\ up \in BOOLEAN /\ started \in BOOLEAN
    BY DEF Init
  <2>6. ha \in Ha /\ integ \in Integ
    BY DEF Init, Ha, Integ
  <2>3. last \in Recorded /\ stored \in Recorded
    BY <1>1 DEF Unknown, Recorded
  <2>4. /\ dismissed \in [Blueprint -> Dismissal \cup {None}]
        /\ issue \in [Blueprint -> Report \cup {None}]
        /\ inspected \in [Blueprint -> Inspection \cup {None}] /\ changed \subseteq Blueprint
        /\ edits \in 0..MaxEdits
    BY DEF Init
  <2>5. /\ listed \in [Blueprint -> Content \cup {Gone}] /\ unread = {} /\ todo = {} /\ fresh = {}
        /\ hidden \in BOOLEAN /\ failed \in BOOLEAN
    BY <1>1 DEF Idle
  <2> QED
    BY <1>1, <2>1, <2>2, <2>3, <2>4, <2>5, <2>6 DEF TypeOK
<1>3. Framed
  BY <1>1 DEF Init, Idle, Framed, Unknown, Current
<1>4. Looped /\ Complete
  BY <1>1 DEF Init, Looped, Looping, Complete, Current, Unknown
<1>5. Silent
  BY <1>1 DEF Init, Idle, Silent, NothingHidden
<1> QED
  BY <1>2, <1>3, <1>4, <1>5 DEF Sound

\* Every run that leaves, leaves nothing behind.
LEMMA LeaveType ==
    ASSUME Leave
    PROVE  /\ listed' \in [Blueprint -> Content \cup {Gone}] /\ unread' = {} /\ todo' = {}
           /\ hidden' = FALSE /\ failed' = FALSE /\ fresh' = {} /\ cur' = None
           /\ stage' = "free" /\ holder' = None
  BY DEF Leave

LEMMA GuardTypeOK ==
    ASSUME TypeOK, GuardStep
    PROVE  TypeOK'
<1> USE MarkersAssumption DEF world, versions, run, history
<1>1. CASE Acquire
  BY <1>1 DEF Acquire, TypeOK
<1>2. ASSUME NEW known \in BOOLEAN, Compare(known) PROVE TypeOK'
  <2>1. CASE ShouldRun(holder = "service", known)
    BY <1>2, <2>1 DEF Compare, TypeOK
  <2>2. CASE ~ShouldRun(holder = "service", known)
    BY <1>2, <2>2, LeaveType DEF Compare, TypeOK
  <2> QED
    BY <2>1, <2>2
<1>3. ASSUME NEW known \in BOOLEAN, Record(known) PROVE TypeOK'
  <2>1. last' \in Recorded
    BY <1>3 DEF Record, TypeOK, Recorded, Integ
  <2> QED
    BY <1>3, <2>1 DEF Record, TypeOK
<1>4. ASSUME NEW written \in BOOLEAN, Save(written) PROVE TypeOK'
  BY <1>4, LeaveType DEF Save, TypeOK
<1>5. ASSUME NEW missed \in SUBSET (Present \cap Aside), NEW bad \in SUBSET (Present \ missed),
             Scan(bad, missed)
      PROVE  TypeOK'
  BY <1>5 DEF Scan, TypeOK, Present
<1>6. CASE ScanFails
  BY <1>6, LeaveType DEF ScanFails, TypeOK
<1>7. ASSUME NEW b \in Blueprint, Pick(b) PROVE TypeOK'
  BY <1>7 DEF Pick, InForce, TypeOK
<1>8. ASSUME NEW severity \in Severity, Inspect(severity) PROVE TypeOK'
  <2>1. cur \in Blueprint /\ listed[cur] \in Content
    BY <1>8 DEF Inspect, TypeOK
  <2>2. CASE Done(severity)
    <3>1. inspected' \in [Blueprint -> Inspection \cup {None}]
      BY <2>1, <2>2 DEF Done, TypeOK, Inspection
    <3>2. issue' \in [Blueprint -> Report \cup {None}]
      BY <1>8, <2>1 DEF Inspect, TypeOK
    <3> QED
      BY <1>8, <2>2, <3>1, <3>2 DEF Inspect, Done, TypeOK
  <2>3. CASE /\ stage' = "candidate" /\ found' = severity /\ severity # "none"
             /\ UNCHANGED <<cur, hidden, inspected, issue>>
    BY <1>8, <2>3 DEF Inspect, TypeOK, Severity
  <2> QED
    BY <1>8, <2>2, <2>3 DEF Inspect
<1>9. CASE Raise
  <2>1. cur \in Blueprint /\ listed[cur] \in Content /\ found \in {"deprecation", "breaking"}
    BY <1>9 DEF Raise, TypeOK
  <2>2. inspected' \in [Blueprint -> Inspection \cup {None}]
    BY <1>9, <2>1 DEF Raise, Done, TypeOK, Inspection
  <2>3. issue' \in [Blueprint -> Report \cup {None}]
    BY <1>9, <2>1 DEF Raise, TypeOK, Report
  <2> QED
    BY <1>9, <2>2, <2>3 DEF Raise, Done, TypeOK
<1>10. CASE InspectFails
  BY <1>10 DEF InspectFails, TypeOK
<1>11. ASSUME NEW unseen \in SUBSET Aside, Settle(unseen) PROVE TypeOK'
  <2>1. issue' \in [Blueprint -> Report \cup {None}] /\ changed' \subseteq Blueprint
    BY <1>11 DEF Settle, TypeOK
  <2>2. last' \in Recorded
    BY <1>11 DEF Settle, TypeOK, Recorded, Ha
  <2>3. CASE Leave
    BY <1>11, <2>1, <2>2, <2>3, LeaveType DEF Settle, TypeOK
  <2>4. CASE ~Leave
    BY <1>11, <2>1, <2>2, <2>4 DEF Settle, TypeOK
  <2> QED
    BY <2>3, <2>4
<1> QED
  BY <1>1, <1>2, <1>3, <1>4, <1>5, <1>6, <1>7, <1>8, <1>9, <1>10, <1>11 DEF GuardStep

LEMMA AroundTypeOK ==
    ASSUME TypeOK, Around
    PROVE  TypeOK'
<1> USE MarkersAssumption DEF world, versions, run, history
<1>1. CASE Started \/ CallService
  <2>1. queue \in Seq(Guard) /\ {"startup", "service"} \subseteq Guard
    BY DEF TypeOK, Guard
  <2>2. Append(queue, "startup") \in Seq(Guard) /\ Append(queue, "service") \in Seq(Guard)
    BY <2>1
  <2>3. queue' \in {queue, Append(queue, "startup"), Append(queue, "service")}
    BY <1>1 DEF Started, CallService
  <2>4. queue' \in Seq(Guard)
    BY <2>1, <2>2, <2>3
  <2>5. /\ started' \in BOOLEAN
        /\ UNCHANGED <<file, ha, integ, enabled, up, versions, dismissed, issue, holder, stage,
                       run, edits, history>>
    BY <1>1 DEF Started, CallService, TypeOK
  <2> QED
    BY <2>4, <2>5 DEF TypeOK
<1>2. CASE OtherSave \/ SwitchOff \/ SwitchOn
  BY <1>2 DEF OtherSave, SwitchOff, SwitchOn, TypeOK
<1>3. ASSUME NEW b \in Blueprint, Acknowledge(b) \/ Answer(b) PROVE TypeOK'
  <2>1. issue' \in [Blueprint -> Report \cup {None}]
    BY <1>3 DEF Acknowledge, Answer, TypeOK
  <2>2. dismissed' \in [Blueprint -> Dismissal \cup {None}]
    BY <1>3 DEF Acknowledge, Answer, TypeOK, Dismissal, Report
  <2> QED
    BY <1>3, <2>1, <2>2 DEF Acknowledge, Answer, TypeOK
<1>4. ASSUME NEW b \in Blueprint, NEW c \in Content \cup {Gone}, Edit(b, c) PROVE TypeOK'
  <2>1. edits' \in 0..MaxEdits
    BY <1>4, EditsAssumption DEF Edit, TypeOK
  <2> QED
    BY <1>4, <2>1 DEF Edit, TypeOK
<1>5. CASE SetUp
  BY <1>5 DEF SetUp, TypeOK
<1>6. ASSUME NEW removed \in BOOLEAN, Unload(removed) PROVE TypeOK'
  <2>1. queue' \in Seq(Guard)
    BY <1>6 DEF Unload
  <2>2. Leave /\ issue' \in [Blueprint -> Report \cup {None}]
    BY <1>6 DEF Unload, TypeOK
  <2> QED
    BY <1>6, <2>1, <2>2, LeaveType DEF Unload, TypeOK
<1>7. ASSUME NEW h \in Ha, NEW i \in Integ, Restart(h, i) PROVE TypeOK'
  <2>1. queue' \in Seq(Guard)
    BY <1>7 DEF Restart
  <2>2. Leave /\ issue' \in [Blueprint -> Report \cup {None}]
    BY <1>7 DEF Restart, TypeOK
  <2>3. inspected' \in [Blueprint -> Inspection \cup {None}] /\ last' \in Recorded
    BY <1>7 DEF Restart, TypeOK
  <2> QED
    BY <1>7, <2>1, <2>2, <2>3, LeaveType DEF Restart, TypeOK
<1> QED
  BY <1>1, <1>2, <1>3, <1>4, <1>5, <1>6, <1>7 DEF Around

LEMMA TypeStep == ASSUME TypeOK, [Next]_vars PROVE TypeOK'
<1>1. CASE UNCHANGED vars
  BY <1>1 DEF vars, world, versions, run, history, TypeOK
<1> QED
  BY <1>1, GuardTypeOK, AroundTypeOK DEF Next

------------------------------------------------------------------------------
(* The frame.                                                              *)

LEMMA LeaveFramed ==
    ASSUME Leave
    PROVE  stage' = "free" /\ cur' = None /\ hidden' = FALSE /\ fresh' = {}
  BY DEF Leave

LEMMA FramedStep == ASSUME TypeOK, Framed, [Next]_vars PROVE Framed'
<1> USE MarkersAssumption DEF world, versions, run, history
<1>1. CASE UNCHANGED vars
  BY <1>1 DEF vars, Framed, Current
<1>2. CASE Acquire \/ ScanFails \/ InspectFails \/ Raise
  <2>1. CASE Acquire
    BY <2>1 DEF Acquire, Framed, Current, TypeOK
  <2>2. CASE ScanFails
    BY <2>2, LeaveFramed DEF ScanFails, Framed, Current
  <2>3. CASE InspectFails \/ Raise
    BY <2>3 DEF InspectFails, Raise, Done, Framed, Current
  <2> QED
    BY <1>2, <2>1, <2>2, <2>3
<1>3. ASSUME NEW known \in BOOLEAN, Compare(known) PROVE Framed'
  BY <1>3, LeaveFramed DEF Compare, Framed, Current
<1>4. ASSUME NEW known \in BOOLEAN, Record(known) PROVE Framed'
  BY <1>4 DEF Record, Framed, Current, TypeOK, Recorded, Integ, Ha
<1>5. ASSUME NEW written \in BOOLEAN, Save(written) PROVE Framed'
  BY <1>5, LeaveFramed DEF Save, Framed, Current
<1>6. ASSUME NEW missed \in SUBSET (Present \cap Aside), NEW bad \in SUBSET (Present \ missed),
             Scan(bad, missed)
      PROVE  Framed'
  BY <1>6 DEF Scan, Framed, Current
<1>7. ASSUME NEW b \in Blueprint, Pick(b) PROVE Framed'
  BY <1>7 DEF Pick, Framed, Current
<1>8. ASSUME NEW severity \in Severity, Inspect(severity) PROVE Framed'
  BY <1>8 DEF Inspect, Done, Framed, Current
<1>9. ASSUME NEW unseen \in SUBSET Aside, Settle(unseen) PROVE Framed'
  <2>1. CASE Leave
    BY <1>9, <2>1, LeaveFramed DEF Settle, Framed, Current, TypeOK, Recorded, Ha
  <2>2. CASE ~Leave
    BY <1>9, <2>2 DEF Settle, Framed, Current, TypeOK, Recorded, Ha
  <2> QED
    BY <2>1, <2>2
<1>10. CASE \/ Started \/ CallService \/ OtherSave \/ SwitchOff \/ SwitchOn \/ SetUp
            \/ \E b \in Blueprint : Acknowledge(b) \/ Answer(b)
  BY <1>10 DEF Started, CallService, OtherSave, SwitchOff, SwitchOn, SetUp, Acknowledge, Answer,
               Framed, Current
<1>11. ASSUME NEW b \in Blueprint, NEW c \in Content \cup {Gone}, Edit(b, c) PROVE Framed'
  BY <1>11 DEF Edit, Framed, Current
<1>12. ASSUME NEW removed \in BOOLEAN, Unload(removed) PROVE Framed'
  BY <1>12, LeaveFramed DEF Unload, Framed, Current
<1>13. ASSUME NEW h \in Ha, NEW i \in Integ, Restart(h, i) PROVE Framed'
  <2>1. /\ h >= ha /\ i >= integ /\ ha' = h /\ integ' = i /\ last' = stored /\ stored' = stored
        /\ changed' = changed /\ Leave
    BY <1>13 DEF Restart
  <2>2. /\ ha \in Nat /\ integ \in Nat /\ h \in Nat /\ i \in Nat
        /\ stored.ha \in Nat /\ stored.integ \in Nat
    BY DEF TypeOK, Ha, Integ, Recorded
  <2> QED
    BY <2>1, <2>2, LeaveFramed DEF Framed, Current
<1> QED
  BY <1>1, <1>2, <1>3, <1>4, <1>5, <1>6, <1>7, <1>8, <1>9, <1>10, <1>11, <1>12, <1>13
     DEF Next, GuardStep, Around

------------------------------------------------------------------------------
(* Dismissals.                                                             *)

LEMMA SilentStep == ASSUME TypeOK, Framed, Silent, [Next]_vars PROVE Silent'
<1> USE MarkersAssumption DEF world, versions, run, history
<1> DEFINE Backed(b) ==
      dismissed[b] # None =>
          dismissed[b][2] <= ha /\ (dismissed[b][2] = ha => <<b, dismissed[b][1]>> \in acked)
<1>1. CASE UNCHANGED vars
  BY <1>1 DEF vars, Silent, NothingHidden
<1>2. CASE Acquire \/ ScanFails \/ InspectFails \/ OtherSave \/ Started \/ CallService
           \/ SwitchOn
  <2>1. (hidden' = hidden /\ cur' = cur) \/ hidden' = FALSE
    BY <1>2, LeaveFramed DEF Acquire, ScanFails, InspectFails, OtherSave, Started, CallService, SwitchOn
  <2>2. hidden' => UNCHANGED <<cur, listed>>
    BY <1>2, LeaveFramed DEF Acquire, ScanFails, InspectFails, OtherSave, Started, CallService, SwitchOn
  <2>3. UNCHANGED <<issue, dismissed, ha, acked, inspected>>
    BY <1>2 DEF Acquire, ScanFails, InspectFails, OtherSave, Started, CallService, SwitchOn
  <2> QED
    BY <2>1, <2>2, <2>3 DEF Silent, NothingHidden
<1>3. CASE SwitchOff \/ SetUp
  BY <1>3 DEF SwitchOff, SetUp, Silent, NothingHidden, TypeOK, Framed
<1>4. ASSUME NEW known \in BOOLEAN, Compare(known) \/ Record(known) PROVE Silent'
  <2>1. hidden' = hidden \/ hidden' = FALSE
    BY <1>4, LeaveFramed DEF Compare, Record
  <2>2. hidden' => UNCHANGED <<cur, listed>>
    BY <1>4, LeaveFramed DEF Compare, Record
  <2>3. UNCHANGED <<issue, dismissed, ha, acked, inspected>>
    BY <1>4 DEF Compare, Record
  <2> QED
    BY <2>1, <2>2, <2>3 DEF Silent, NothingHidden
<1>5. ASSUME NEW written \in BOOLEAN, Save(written) PROVE Silent'
  BY <1>5, LeaveFramed DEF Save, Silent, NothingHidden
<1>6. ASSUME NEW missed \in SUBSET (Present \cap Aside), NEW bad \in SUBSET (Present \ missed),
             Scan(bad, missed)
      PROVE  Silent'
  BY <1>6 DEF Scan, Silent, NothingHidden, Framed
<1>7. ASSUME NEW b \in Blueprint, Pick(b) PROVE Silent'
  <2>1. CASE b \in unread
    BY <1>7, <2>1 DEF Pick, Silent, NothingHidden, Framed
  <2>2. CASE b \notin unread
    <3>1. /\ cur' = b /\ hidden' = InForce(b) /\ listed' = listed /\ ha' = ha
          /\ dismissed' = IF InForce(b) THEN dismissed ELSE [dismissed EXCEPT ![b] = None]
          /\ UNCHANGED <<issue, inspected, acked>>
      BY <1>7, <2>2 DEF Pick
    <3>2. b \in todo /\ listed[b] \in Content /\ ha \in Nat
      BY <1>7 DEF Pick, TypeOK, Ha
    <3>3. InForce(b) => <<b, listed[b]>> \in acked
      <4>1. SUFFICES ASSUME InForce(b) PROVE <<b, listed[b]>> \in acked
        OBVIOUS
      <4>2. dismissed[b] = <<listed[b], ha>> /\ <<listed[b], ha>> \in Dismissal
        BY <3>2, <4>1 DEF InForce, Dismissal, TypeOK
      <4>3. dismissed[b] # None
        BY <4>2
      <4> QED
        BY <4>2, <4>3 DEF Silent
    <3>4. \A a \in Blueprint : Backed(a)'
      <4>1. CASE InForce(b)
        BY <3>1, <4>1 DEF Silent
      <4>2. CASE ~InForce(b)
        BY <3>1, <4>2 DEF Silent, TypeOK
      <4> QED
        BY <4>1, <4>2
    <3>5. hidden' => /\ <<cur', listed'[cur']>> \in acked'
                     /\ dismissed'[cur'] = <<listed'[cur'], ha'>>
      BY <3>1, <3>3 DEF InForce
    <3>6. NothingHidden'
      BY <3>1 DEF Silent, NothingHidden
    <3> QED
      BY <3>4, <3>5, <3>6 DEF Silent
  <2> QED
    BY <2>1, <2>2
<1>8. ASSUME NEW severity, Done(severity), stage \in {"inspect", "candidate"},
             UNCHANGED <<dismissed, ha, acked, listed>>
      PROVE  Silent'
  <2>1. /\ inspected' = [inspected EXCEPT ![cur] =
               [content |-> listed[cur], hidden |-> hidden /\ severity = "deprecation"]]
        /\ hidden' = FALSE
    BY <1>8 DEF Done
  <2>2. cur \in Blueprint /\ hidden \in BOOLEAN
    BY <1>8 DEF TypeOK
  <2>3. ASSUME NEW b \in Blueprint, inspected'[b] # None, inspected'[b].hidden
        PROVE  <<b, inspected'[b].content>> \in acked'
    <3>1. CASE b = cur
      <4>1. inspected'[b] = [content |-> listed[cur], hidden |-> hidden /\ severity = "deprecation"]
        BY <2>1, <2>2, <3>1 DEF TypeOK
      <4>2. inspected'[b].content = listed[cur]
        BY <4>1
      <4>3. inspected'[b].hidden = (hidden /\ severity = "deprecation")
        BY <4>1
      <4>4. hidden
        BY <2>3, <4>3
      <4> QED
        BY <1>8, <3>1, <4>2, <4>4 DEF Silent
    <3>2. CASE b # cur
      BY <1>8, <2>1, <2>3, <3>2 DEF Silent, NothingHidden, TypeOK
    <3> QED
      BY <3>1, <3>2
  <2>4. NothingHidden'
    BY <2>3 DEF NothingHidden
  <2> QED
    BY <1>8, <2>1, <2>4 DEF Silent
<1>9. ASSUME NEW severity \in Severity, Inspect(severity) PROVE Silent'
  <2>1. CASE Done(severity)
    BY <1>8, <1>9, <2>1 DEF Inspect
  <2>2. CASE ~Done(severity)
    BY <1>9, <2>2 DEF Inspect, Silent, NothingHidden
  <2> QED
    BY <2>1, <2>2
<1>10. CASE Raise
  BY <1>8, <1>10 DEF Raise
<1>11. ASSUME NEW unseen \in SUBSET Aside, Settle(unseen) PROVE Silent'
  <2>1. hidden = FALSE /\ hidden' = FALSE
    BY <1>11, LeaveFramed DEF Settle, Framed
  <2> QED
    BY <1>11, <2>1 DEF Settle, Silent, NothingHidden
<1>12. ASSUME NEW b \in Blueprint, Acknowledge(b) PROVE Silent'
  <2>1. issue[b] \in Report /\ ha \in Nat
    BY <1>12 DEF Acknowledge, TypeOK, Ha
  <2>2. /\ dismissed' = [dismissed EXCEPT ![b] = <<issue[b].content, ha>>]
        /\ acked' = acked \cup {<<b, issue[b].content>>}
        /\ issue' = [issue EXCEPT ![b] = None]
        /\ UNCHANGED <<ha, cur, listed, hidden, inspected, stage>>
    BY <1>12 DEF Acknowledge
  <2>3. \A a \in Blueprint : Backed(a)'
    <3>1. ASSUME NEW a \in Blueprint PROVE Backed(a)'
      <4>1. CASE a = b
        <5>1. dismissed'[a] = <<issue[b].content, ha>>
          BY <2>2, <4>1 DEF TypeOK
        <5> QED
          BY <2>1, <2>2, <4>1, <5>1
      <4>2. CASE a # b
        BY <2>2, <4>2 DEF Silent, TypeOK
      <4> QED
        BY <4>1, <4>2
    <3> QED
      BY <3>1
  <2>4. NothingHidden'
    BY <2>2 DEF Silent, NothingHidden
  <2>5. hidden' => /\ <<cur', listed'[cur']>> \in acked'
                   /\ issue'[cur'] # None => dismissed'[cur'] = <<listed'[cur'], ha'>>
    <3>1. hidden => cur \in Blueprint
      BY DEF Framed, TypeOK
    <3> QED
      BY <2>2, <3>1 DEF Silent, TypeOK
  <2> QED
    BY <2>3, <2>4, <2>5 DEF Silent
<1>13. ASSUME NEW b \in Blueprint, Answer(b) PROVE Silent'
  BY <1>13 DEF Answer, Silent, NothingHidden, TypeOK, Framed
<1>14. ASSUME NEW b \in Blueprint, NEW c \in Content \cup {Gone}, Edit(b, c) PROVE Silent'
  BY <1>14 DEF Edit, Silent, NothingHidden
<1>15. ASSUME NEW removed \in BOOLEAN, Unload(removed) PROVE Silent'
  BY <1>15, LeaveFramed DEF Unload, Silent, NothingHidden
<1>16. ASSUME NEW h \in Ha, NEW i \in Integ, Restart(h, i) PROVE Silent'
  <2>1. /\ h >= ha /\ ha' = h /\ dismissed' = dismissed /\ hidden' = FALSE
        /\ acked' = IF h = ha THEN acked ELSE {}
    BY <1>16, LeaveFramed DEF Restart
  <2>2. ha \in Nat /\ h \in Nat
    BY DEF TypeOK, Ha
  <2>3. \A a \in Blueprint : Backed(a)'
    <3>1. ASSUME NEW a \in Blueprint, dismissed[a] # None
          PROVE  dismissed[a][2] <= h /\ (dismissed[a][2] = h => <<a, dismissed[a][1]>> \in acked')
      <4>1. dismissed[a][2] <= ha /\ (dismissed[a][2] = ha => <<a, dismissed[a][1]>> \in acked)
        BY <3>1 DEF Silent
      <4>2. dismissed[a][2] \in Nat
        BY <3>1 DEF TypeOK, Dismissal, Ha
      <4> QED
        BY <2>1, <2>2, <4>1, <4>2
    <3> QED
      BY <2>1, <3>1
  <2>4. NothingHidden'
    <3>1. CASE <<h, i>> = <<ha, integ>>
      BY <1>16, <3>1 DEF Restart, Silent, NothingHidden
    <3>2. CASE <<h, i>> # <<ha, integ>>
      BY <1>16, <3>2 DEF Restart, NothingHidden
    <3> QED
      BY <3>1, <3>2
  <2> QED
    BY <2>1, <2>3, <2>4 DEF Silent
<1> QED
  BY <1>1, <1>2, <1>3, <1>4, <1>5, <1>6, <1>7, <1>9, <1>10, <1>11, <1>12, <1>13, <1>14, <1>15, <1>16
     DEF Next, GuardStep, Around

------------------------------------------------------------------------------
(* The run.                                                                *)

LEMMA LoopedStep == ASSUME TypeOK, Framed, Looped, Silent, [Next]_vars PROVE Looped'
<1> USE MarkersAssumption DEF world, versions, run, history
<1>1. CASE UNCHANGED vars
  BY <1>1 DEF vars, Looped, Looping, Passed, Agrees
<1>2. CASE Leave
  BY <1>2, LeaveFramed DEF Looped, Looping
<1>3. CASE Acquire
  BY <1>3 DEF Acquire, Looped, Looping
<1>4. CASE \E known \in BOOLEAN : Compare(known) \/ Record(known) \/ Save(known)
  BY <1>2, <1>4 DEF Compare, Record, Save, Looped, Looping
<1>5. ASSUME NEW missed \in SUBSET (Present \cap Aside), NEW bad \in SUBSET (Present \ missed),
             Scan(bad, missed)
      PROVE  Looped'
  BY <1>5 DEF Scan, Looped, Looping, Passed, Present
<1>6. ASSUME NEW b \in Blueprint, Pick(b) PROVE Looped'
  <2>1. CASE b \in unread
    BY <1>6, <2>1 DEF Pick, Looped, Looping
  <2>2. CASE b \notin unread
    <3>1. /\ stage = "loop" /\ stage' = "inspect" /\ cur = None /\ cur' = b /\ todo' = todo \ {b}
          /\ dismissed' = IF InForce(b) THEN dismissed ELSE [dismissed EXCEPT ![b] = None]
          /\ UNCHANGED <<ha, file, fresh, changed, failed, issue, inspected, listed>>
      BY <1>6, <2>2 DEF Pick, Framed
    <3>2. ASSUME NEW a \in Blueprint, Passed(a)' PROVE Passed(a) /\ a # b
      BY <3>1, <3>2 DEF Passed
    <3>3. \A a \in Blueprint : a # b => dismissed'[a] = dismissed[a]
      BY <3>1 DEF TypeOK
    <3> QED
      BY <3>1, <3>2, <3>3 DEF Looped, Looping, Agrees
  <2> QED
    BY <2>1, <2>2
<1>7. ASSUME NEW severity, Done(severity), stage \in {"inspect", "candidate"},
             NEW c \in Blueprint, c = cur, \A b \in Blueprint \ {c} : issue'[b] = issue[b],
             issue'[c] # None => \/ issue'[c].content = listed[c]
                                \/ dismissed[c] = <<listed[c], ha>>,
             UNCHANGED <<dismissed, ha, listed, todo, failed, fresh, changed, file>>
      PROVE  Looped'
  <2>1. listed[c] \in Content
    BY <1>7 DEF TypeOK
  <2>2. ASSUME NEW b \in Blueprint, Passed(b)', ~failed
        PROVE  inspected'[b] # None /\ inspected'[b].content = listed[b] /\ Agrees(b, listed[b])'
    <3>1. CASE b = c
      <4>1. inspected'[b] = [content |-> listed[c], hidden |-> hidden /\ severity = "deprecation"]
        BY <1>7, <3>1 DEF Done, TypeOK
      <4>2. inspected'[b] \in Inspection
        BY <2>1, <4>1 DEF Inspection, TypeOK
      <4>3. Agrees(b, listed[b])'
        BY <1>7, <3>1 DEF Agrees
      <4>4. inspected'[b].content = listed[b]
        BY <3>1, <4>1
      <4> QED
        BY <4>2, <4>3, <4>4
    <3>2. CASE b # c
      <4>1. Passed(b) /\ issue'[b] = issue[b] /\ inspected'[b] = inspected[b]
        BY <1>7, <2>2, <3>2 DEF Passed, Done, TypeOK
      <4> QED
        BY <1>7, <2>2, <4>1 DEF Looped, Looping, Agrees
    <3> QED
      BY <3>1, <3>2
  <2> QED
    BY <1>7, <2>2 DEF Looped, Looping, Done
<1>8. ASSUME NEW severity \in Severity, Inspect(severity) PROVE Looped'
  <2>1. /\ cur \in Blueprint /\ stage \in {"inspect", "candidate"}
        /\ UNCHANGED <<dismissed, ha, listed, todo, failed, fresh, changed, file>>
    BY <1>8 DEF Inspect, TypeOK
  <2>2. CASE severity = "none"
    <3>1. Done(severity) /\ issue' = [issue EXCEPT ![cur] = None]
      BY <1>8, <2>2 DEF Inspect
    <3>2. issue'[cur] = None /\ \A b \in Blueprint \ {cur} : issue'[b] = issue[b]
      BY <2>1, <3>1 DEF TypeOK
    <3> QED
      BY <1>7, <2>1, <3>1, <3>2
  <2>3. CASE severity = "deprecation" /\ hidden
    <3>1. Done(severity) /\ issue' = issue
      BY <1>8, <2>3 DEF Inspect
    <3>2. issue[cur] # None => dismissed[cur] = <<listed[cur], ha>>
      BY <2>3 DEF Silent
    <3> QED
      BY <1>7, <2>1, <3>1, <3>2
  <2>4. CASE severity # "none" /\ ~(severity = "deprecation" /\ hidden)
    BY <1>8, <2>4 DEF Inspect, Looped, Looping, Passed, Agrees
  <2> QED
    BY <2>2, <2>3, <2>4
<1>9. CASE Raise
  <2>1. /\ cur \in Blueprint /\ stage \in {"inspect", "candidate"} /\ Done(found)
        /\ UNCHANGED <<dismissed, ha, listed, todo, failed, fresh, changed, file>>
    BY <1>9 DEF Raise, TypeOK
  <2>2. issue' = [issue EXCEPT ![cur] = [content |-> listed[cur], severity |-> found]]
    BY <1>9 DEF Raise
  <2>3. /\ issue'[cur] = [content |-> listed[cur], severity |-> found]
        /\ \A b \in Blueprint \ {cur} : issue'[b] = issue[b]
    BY <2>1, <2>2 DEF TypeOK
  <2>4. issue'[cur].content = listed[cur]
    BY <2>3
  <2> QED
    BY <1>7, <2>1, <2>3, <2>4
<1>10. CASE InspectFails
  BY <1>10 DEF InspectFails, Looped, Looping
<1>11. ASSUME NEW unseen \in SUBSET Aside, Settle(unseen) PROVE Looped'
  BY <1>2, <1>11 DEF Settle, Looped, Looping
<1>12. CASE ScanFails \/ \E removed \in BOOLEAN : Unload(removed)
  BY <1>2, <1>12 DEF ScanFails, Unload
<1>13. CASE \E h \in Ha, i \in Integ : Restart(h, i)
  BY <1>2, <1>13 DEF Restart
<1>14. CASE Started \/ CallService \/ OtherSave \/ SwitchOn
  BY <1>14 DEF Started, CallService, OtherSave, SwitchOn, Looped, Looping, Passed, Agrees
<1>15. CASE SwitchOff \/ SetUp
  BY <1>15 DEF SwitchOff, SetUp, Looped, Looping, Passed, Agrees
<1>16. ASSUME NEW b \in Blueprint, Acknowledge(b) \/ Answer(b) PROVE Looped'
  <2>1. /\ issue' = [issue EXCEPT ![b] = None]
        /\ \A a \in Blueprint \ {b} : dismissed'[a] = dismissed[a]
        /\ UNCHANGED <<ha, file, stage, fresh, changed, failed, todo, cur, listed, inspected>>
    BY <1>16 DEF Acknowledge, Answer, TypeOK
  <2>2. issue'[b] = None /\ \A a \in Blueprint \ {b} : issue'[a] = issue[a]
    BY <2>1 DEF TypeOK
  <2> QED
    BY <2>1, <2>2 DEF Looped, Looping, Passed, Agrees
<1>17. ASSUME NEW b \in Blueprint, NEW c \in Content \cup {Gone}, Edit(b, c) PROVE Looped'
  BY <1>17 DEF Edit, Looped, Looping, Passed, Agrees, TypeOK
<1> QED
  BY <1>1, <1>3, <1>4, <1>5, <1>6, <1>8, <1>9, <1>10, <1>11, <1>12, <1>13, <1>14, <1>15, <1>16, <1>17
     DEF Next, GuardStep, Around

------------------------------------------------------------------------------
(* The record.                                                             *)

\* A clean run that settles has settled all that has not changed since its scan.
LEMMA SettleComplete ==
    ASSUME TypeOK, Framed, Looped, NEW unseen \in SUBSET Aside, Settle(unseen), stage' = "record",
           NEW b \in Blueprint \ changed'
    PROVE  Settled(b)'
<1> USE DEF world, versions, run, history
<1>1. /\ stage = "loop" /\ todo = {} /\ ~failed /\ changed' = fresh
      /\ issue' = [a \in Blueprint |-> IF a \in Obsolete \ Seen(unseen) THEN None ELSE issue[a]]
      /\ UNCHANGED <<file, ha, dismissed, inspected, listed>>
  BY DEF Settle, Leave
<1>2. listed[b] = file[b] /\ b # cur
  BY <1>1, MarkersAssumption DEF Looped, Looping, Framed
<1>3. issue'[b] = None \/ issue'[b] = issue[b]
  BY <1>1
<1>4. CASE file[b] = Gone
  <2>1. issue'[b] = None
    BY <1>1, <1>2, <1>4 DEF Obsolete, Seen, Present
  <2> QED
    BY <1>1, <1>4, <2>1 DEF Settled, Agrees
<1>5. CASE file[b] # Gone
  <2>1. inspected[b] # None /\ inspected[b].content = listed[b] /\ Agrees(b, listed[b])
    BY <1>1, <1>2, <1>5 DEF Looped, Looping, Passed
  <2> QED
    BY <1>1, <1>2, <1>3, <2>1 DEF Settled, InspectedNow, Agrees
<1> QED
  BY <1>4, <1>5

LEMMA CompleteStep ==
    ASSUME TypeOK, Framed, Looped, Silent, Complete, [Next]_vars
    PROVE  Complete'
<1> USE MarkersAssumption DEF world, versions, run, history
<1> DEFINE Recording == Current(last) \/ stage \in {"record", "save"}
\* Most steps record nothing new and leave the files and their reports alone.
<1>1. ASSUME Recording' => Recording, changed \subseteq changed',
             \A b \in Blueprint \ changed' :
                /\ file'[b] = file[b] /\ inspected'[b] = inspected[b]
                /\ issue'[b] # None => issue'[b] = issue[b] /\ dismissed'[b] = dismissed[b],
             Recording' => ha' = ha
      PROVE  Complete'
  <2>1. ASSUME NEW b \in Blueprint \ changed', Recording' PROVE Settled(b)'
    <3>1. Settled(b)
      BY <1>1, <2>1 DEF Complete
    <3> QED
      BY <1>1, <2>1, <3>1 DEF Settled, InspectedNow, Agrees
  <2> QED
    BY <2>1 DEF Complete
<1>2. CASE UNCHANGED vars
  BY <1>2 DEF vars, Complete, Current, Settled, InspectedNow, Agrees
<1>3. CASE Acquire \/ Started \/ CallService \/ OtherSave \/ SwitchOn \/ InspectFails
  BY <1>1, <1>3 DEF Acquire, Started, CallService, OtherSave, SwitchOn, InspectFails, Current
<1>4. CASE ScanFails \/ \E known \in BOOLEAN : Compare(known)
  BY <1>1, <1>4, LeaveFramed DEF ScanFails, Compare, Current
<1>5. ASSUME NEW known \in BOOLEAN, Record(known) PROVE Complete'
  BY <1>1, <1>5 DEF Record
<1>6. ASSUME NEW written \in BOOLEAN, Save(written) PROVE Complete'
  BY <1>1, <1>6, LeaveFramed DEF Save, Current
<1>7. ASSUME NEW missed \in SUBSET (Present \cap Aside), NEW bad \in SUBSET (Present \ missed),
             Scan(bad, missed)
      PROVE  Complete'
  BY <1>1, <1>7 DEF Scan, Current
<1>8. ASSUME NEW b \in Blueprint, Pick(b) PROVE Complete'
  <2>1. /\ Recording' => Recording
        /\ UNCHANGED <<file, ha, changed, inspected, issue, listed>>
    BY <1>8 DEF Pick, Current
  <2>2. ASSUME NEW a \in Blueprint \ changed, Recording PROVE Settled(a)'
    <3>1. Settled(a)
      BY <2>2 DEF Complete
    <3>2. CASE dismissed'[a] = dismissed[a]
      BY <2>1, <3>1, <3>2 DEF Settled, InspectedNow, Agrees
    <3>3. CASE dismissed'[a] # dismissed[a]
      <4>1. a = b /\ ~InForce(b) /\ stage = "loop"
        BY <1>8, <3>3 DEF Pick, TypeOK
      <4>2. listed[a] = file[a]
        <5>1. listed[a] \in Content
          BY <1>8, <4>1 DEF Pick, TypeOK
        <5> QED
          BY <2>2, <4>1, <5>1 DEF Looped, Looping
      <4>3. dismissed[a] # <<file[a], ha>>
        BY <4>1, <4>2 DEF InForce
      <4> QED
        BY <2>1, <3>1, <4>3 DEF Settled, InspectedNow, Agrees
    <3> QED
      BY <3>2, <3>3
  <2> QED
    BY <2>1, <2>2 DEF Complete
<1>9. ASSUME NEW severity, Done(severity), stage \in {"inspect", "candidate"},
             NEW c \in Blueprint, c = cur,
             \A b \in Blueprint \ {c} : issue'[b] = issue[b],
             issue'[c] # None => issue'[c] = issue[c] \/ issue'[c].content = listed[c],
             UNCHANGED <<dismissed, ha, integ, last, listed, file, changed>>
      PROVE  Complete'
  <2>1. Recording' => Recording
    BY <1>9 DEF Done, Current
  <2>2. ASSUME NEW b \in Blueprint \ changed, Recording PROVE Settled(b)'
    <3>1. Settled(b)
      BY <2>2 DEF Complete
    <3>2. CASE b # c
      BY <1>9, <3>1, <3>2 DEF Done, Settled, InspectedNow, Agrees, TypeOK
    <3>3. CASE b = c
      <4>1. listed[c] = file[c] /\ listed[c] \in Content
        BY <1>9, <2>2, <3>3 DEF Looped, Looping, TypeOK
      <4>2. inspected'[c] = [content |-> listed[c], hidden |-> hidden /\ severity = "deprecation"]
        BY <1>9 DEF Done, TypeOK
      <4>3. inspected'[c] \in Inspection /\ inspected'[c].content = listed[c]
        BY <4>1, <4>2 DEF Inspection, TypeOK
      <4>4. InspectedNow(c)'
        BY <1>9, <3>3, <4>1, <4>3 DEF InspectedNow
      <4>5. Agrees(c, file[c])'
        BY <1>9, <3>1, <3>3, <4>1 DEF Settled, Agrees
      <4> QED
        BY <3>3, <4>4, <4>5 DEF Settled
    <3> QED
      BY <3>2, <3>3
  <2> QED
    BY <1>9, <2>1, <2>2 DEF Complete
<1>10. ASSUME NEW severity \in Severity, Inspect(severity) PROVE Complete'
  <2>1. /\ cur \in Blueprint /\ stage \in {"inspect", "candidate"}
        /\ UNCHANGED <<dismissed, ha, integ, last, listed, file, changed>>
    BY <1>10 DEF Inspect, TypeOK
  <2>2. CASE Done(severity)
    <3>1. issue' = issue \/ issue' = [issue EXCEPT ![cur] = None]
      BY <1>10 DEF Inspect
    <3>2. /\ issue'[cur] # None => issue'[cur] = issue[cur]
          /\ \A b \in Blueprint \ {cur} : issue'[b] = issue[b]
      BY <2>1, <3>1 DEF TypeOK
    <3> QED
      BY <1>9, <2>1, <2>2, <3>2
  <2>3. CASE stage' = "candidate" /\ UNCHANGED <<cur, hidden, inspected, issue>>
    BY <1>1, <2>1, <2>3 DEF Current
  <2> QED
    BY <1>10, <2>2, <2>3 DEF Inspect
<1>11. CASE Raise
  <2>1. /\ cur \in Blueprint /\ stage \in {"inspect", "candidate"} /\ Done(found)
        /\ UNCHANGED <<dismissed, ha, integ, last, listed, file, changed>>
    BY <1>11 DEF Raise, TypeOK
  <2>2. issue' = [issue EXCEPT ![cur] = [content |-> listed[cur], severity |-> found]]
    BY <1>11 DEF Raise
  <2>3. /\ issue'[cur] = [content |-> listed[cur], severity |-> found]
        /\ \A b \in Blueprint \ {cur} : issue'[b] = issue[b]
    BY <2>1, <2>2 DEF TypeOK
  <2>4. issue'[cur].content = listed[cur]
    BY <2>3
  <2> QED
    BY <1>9, <2>1, <2>3, <2>4
<1>12. ASSUME NEW unseen \in SUBSET Aside, Settle(unseen) PROVE Complete'
  <2>1. CASE stage' = "record"
    BY <1>12, <2>1, SettleComplete DEF Complete
  <2>2. CASE stage' # "record"
    <3>1. /\ Leave /\ UNCHANGED <<last, changed, file, ha, integ, dismissed, inspected>>
          /\ \A b \in Blueprint : issue'[b] \in {None, issue[b]}
      BY <1>12, <2>2 DEF Settle
    <3> QED
      BY <1>1, <3>1, LeaveFramed DEF Current
  <2> QED
    BY <2>1, <2>2
<1>13. CASE SwitchOff
  BY <1>1, <1>13 DEF SwitchOff, Current
<1>14. CASE SetUp
  <2>1. Current(stored) => Current(last)
    BY DEF Framed
  <2> QED
    BY <1>1, <1>14, <2>1 DEF SetUp, Current
<1>15. ASSUME NEW b \in Blueprint, Acknowledge(b) \/ Answer(b) PROVE Complete'
  <2>1. /\ issue' = [issue EXCEPT ![b] = None]
        /\ \A a \in Blueprint \ {b} : dismissed'[a] = dismissed[a]
        /\ UNCHANGED <<ha, integ, last, stage, file, changed, inspected>>
    BY <1>15 DEF Acknowledge, Answer, TypeOK
  <2>2. issue'[b] = None /\ \A a \in Blueprint \ {b} : issue'[a] = issue[a]
    BY <2>1 DEF TypeOK
  <2> QED
    BY <1>1, <2>1, <2>2 DEF Current
<1>16. ASSUME NEW b \in Blueprint, NEW c \in Content \cup {Gone}, Edit(b, c) PROVE Complete'
  <2>1. \A a \in Blueprint \ changed' : file'[a] = file[a]
    BY <1>16 DEF Edit, TypeOK
  <2> QED
    BY <1>1, <1>16, <2>1 DEF Edit, Current
<1>17. ASSUME NEW removed \in BOOLEAN, Unload(removed) PROVE Complete'
  BY <1>1, <1>17, LeaveFramed DEF Unload, Current
<1>18. ASSUME NEW h \in Ha, NEW i \in Integ, Restart(h, i) PROVE Complete'
  <2>1. /\ h >= ha /\ i >= integ /\ ha' = h /\ integ' = i /\ last' = stored /\ stage' = "free"
        /\ issue' = [b \in Blueprint |-> None] /\ UNCHANGED <<file, changed>>
        /\ inspected' = IF <<h, i>> = <<ha, integ>> THEN inspected
                        ELSE [b \in Blueprint |-> None]
    BY <1>18, LeaveFramed DEF Restart
  <2>2. CASE h = ha /\ i = integ
    <3>1. Current(stored) => Current(last)
      BY DEF Framed
    <3> QED
      BY <1>1, <2>1, <2>2, <3>1 DEF Current
  <2>3. CASE h # ha \/ i # integ
    <3>1. /\ ha \in Nat /\ integ \in Nat /\ h \in Nat /\ i \in Nat
          /\ stored.ha \in Nat /\ stored.integ \in Nat
      BY DEF TypeOK, Ha, Integ, Recorded
    <3>2. ~Current(last)'
      BY <2>1, <2>3, <3>1 DEF Framed, Current
    <3> QED
      BY <2>1, <3>2 DEF Complete
  <2> QED
    BY <2>2, <2>3
<1> QED
  BY <1>2, <1>3, <1>4, <1>5, <1>6, <1>7, <1>8, <1>10, <1>11, <1>12, <1>13, <1>14, <1>15, <1>16,
     <1>17, <1>18 DEF Next, GuardStep, Around

------------------------------------------------------------------------------

LEMMA SoundHolds == Spec => []Sound
<1>1. Sound /\ [Next]_vars => Sound'
  BY TypeStep, FramedStep, LoopedStep, CompleteStep, SilentStep DEF Sound
<1> QED
  BY <1>1, InitSound, PTL DEF Spec

\* The state of the guard stays of its type, through restarts and cancelled runs.
THEOREM TypeCorrect == Spec => []TypeOK
<1>1. Sound => TypeOK
  BY DEF Sound
<1> QED
  BY <1>1, SoundHolds, PTL

\* A recorded version means that every blueprint that was listed and has not changed
\* since was inspected under it, whatever failed, was edited, cancelled or restarted
\* (completed_cleanly).
THEOREM RecordIsComplete == Spec => []RecordedMeansInspected
<1>1. Sound => RecordedMeansInspected
  BY DEF Sound, Framed, Complete, Settled, RecordedMeansInspected, Present
<1> QED
  BY <1>1, SoundHolds, PTL

\* A recorded version means that the issues speak of the files as they are, or
\* stand behind an acknowledged deprecation.
THEOREM IssuesAreCurrent == Spec => []IssuesAgree
<1>1. Sound => IssuesAgree
  BY DEF Sound, Complete, Settled, Agrees, IssuesAgree
<1> QED
  BY <1>1, SoundHolds, PTL

\* The guard passes over a deprecation only if the user acknowledged it for this
\* content under this version of Home Assistant (dismissed_warning).
THEOREM SilenceIsAcknowledged == Spec => []NothingHidden
<1>1. Sound => NothingHidden
  BY DEF Sound, Silent
<1> QED
  BY <1>1, SoundHolds, PTL
==============================================================================
