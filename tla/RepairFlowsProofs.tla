--------------------------- MODULE RepairFlowsProofs ---------------------------
(***************************************************************************)
(* Theorems about RepairFlows, for all texts, URLs, candidates, releases   *)
(* and numbers of events.  One inductive invariant, Sound, says what a     *)
(* flow and a refresh carry from step to step, and where the URL of the    *)
(* file is to be found while a flow has put another one into the entry.    *)
(***************************************************************************)
EXTENDS RepairFlows, TLAPS

Early == flow.step \in {"fix", "fork", "risks", "waiting", "prepared"}
Holding == flow.step \in {"installed", "reloading"}

\* A flow has announced its URL and not installed yet.
Announcing ==
    flow.step \in {"waiting", "prepared"} /\ flow.kind # "withdrawn" /\ flow.url # None

\* Tasks have what their next steps need, and none is left of the last process.
Carried ==
    /\ Early \/ Holding => /\ flow.text \in Text /\ flow.base # None
                           /\ flow.url # None \/ flow.base \in Blueprint
    /\ item # None => /\ entry # None /\ entry.local # Gone
                      /\ item.url = item.local.url
                      /\ item.step = "installed" => lock = "refresh"
    /\ first => entry = None /\ item = None /\ flow.step = "closed" /\ lock = None

\* A tracked file has an entry, except after the install of one that was gone.
Listed ==
    ~first /\ tracked /\ file # Gone /\ flow.step # "installed" /\ ~strayed =>
        entry # None /\ entry.local # Gone

\* A fix in force is in the file, and its pin in the store and in the entry.
Pinned ==
    /\ fixed # None => file = fixed /\ ~Holding /\ (item # None => item.step # "installed")
    /\ fixed # None /\ (tracked \/ item # None) =>
          /\ disk # None /\ disk.pinned
          /\ IF entry = None THEN first /\ meta # None /\ meta.pinned ELSE entry.pinned

\* An update that was decided over a pinned fix has no severity.
Judged ==
    item # None /\ item.step = "judged" /\ item.update /\ item.pinned => item.text \notin Severe

\* The URL of the file is that of the entry, or the one to take back, or the one
\* of the install that wrote the file.
Sourced ==
    file # Gone /\ ~strayed =>
        /\ ~moved /\ entry # None /\ entry.local # Gone =>
              /\ Announcing => flow.entryUrl = file.url
              /\ ~Announcing /\ flow.step # "installed" => entry.url = file.url
        /\ Holding => file.url = flow.final
        /\ item # None /\ item.step = "installed" => file.url = item.url

Sound == TypeOK /\ Carried /\ Listed /\ Pinned /\ Judged /\ Sourced

------------------------------------------------------------------------------
(* Records.                                                                *)

\* The fields of g that say where a flow comes from.
Alike(f, g) == g.kind = f.kind /\ g.url = f.url /\ g.text = f.text /\ g.base = f.base

Steps == {"closed", "fix", "fork", "risks", "waiting", "prepared", "installed", "reloading"}

LEMMA NoFlowType == NoFlow \in Flow /\ NoFlow.step = "closed"
  BY DEF NoFlow, Flow

\* What the properties read of an entry is the same in f.
Same(e, f) == f.url = e.url /\ f.local = e.local /\ f.pinned = e.pinned

LEMMA PersistedChanged ==
    ASSUME NEW m \in Persisted
    PROVE  /\ \A u \in Url \cup {None} : [m EXCEPT !.url = u] \in Persisted
           /\ \A b \in Blueprint \cup {None} : [m EXCEPT !.bad = b] \in Persisted
           /\ Unpinned(m) \in Persisted
           /\ m.bad \in Blueprint \cup {None} /\ m.url \in Url \cup {None}
           /\ m.remote \in Blueprint \cup {None} /\ m.pinned \in BOOLEAN
  BY DEF Persisted, Unpinned

LEMMA BlankTypes == Blank \in Persisted /\ Bare \in Entry /\ Bare.local = Gone
  BY DEF Blank, Bare, Persisted, Entry

LEMMA RecordedType ==
    ASSUME NEW m \in Persisted \cup {None}
    PROVE  Recorded(m) \in Persisted
  BY BlankTypes DEF Recorded

\* A save keeps what is typed, and stores the pin of the entry.
LEMMA CandidateType ==
    ASSUME NEW e \in Entry \cup {None}, NEW m \in Persisted \cup {None}
    PROVE  /\ Candidate(e, m) \in Persisted \cup {None}
           /\ file # Gone /\ e # None =>
                 Candidate(e, m) # None /\ Candidate(e, m).pinned = e.pinned
<1> USE MarkerAssumption
<1>1. CASE file # Gone /\ e # None
  <2>1. Candidate(e, m) = [url |-> e.url, remote |-> e.remote, pinned |-> e.pinned, bad |-> e.bad]
    BY <1>1 DEF Candidate
  <2>2. Candidate(e, m) \in Persisted
    BY <1>1, <2>1 DEF Persisted, Entry
  <2> QED
    BY <2>1, <2>2
<1>2. CASE ~(file # Gone /\ e # None)
  BY <1>2 DEF Candidate
<1> QED
  BY <1>1, <1>2

LEMMA Fields ==
    /\ \A f \in Flow : /\ f.step \in Steps /\ f.kind \in {"fix", "switch", "withdrawn", None}
                       /\ f.url \in Url \cup {None} /\ f.text \in Text \cup {None}
                       /\ f.base \in Blueprint \cup {Gone, None} /\ f.known \in BOOLEAN
                       /\ f.entryUrl \in Url \cup {None} /\ f.metaUrl \in Url \cup {None}
                       /\ f.bad \in Blueprint \cup {None} /\ f.final \in Url \cup {None}
    /\ \A e \in Entry : /\ e.url \in Url \cup {None} /\ e.local \in Blueprint \cup {Gone}
                        /\ e.remote \in Blueprint \cup {None} /\ e.pinned \in BOOLEAN
                        /\ e.bad \in Blueprint \cup {None}
    /\ \A i \in Item : /\ i.step \in {"queued", "answered", "validating", "judged", "installed"}
                       /\ i.url \in Url /\ i.local \in Blueprint /\ i.text \in Text \cup {None}
                       /\ i.update \in BOOLEAN /\ i.pinned \in BOOLEAN
    /\ \A b \in Blueprint : b.text \in Text /\ b.url \in Url
  BY DEF Flow, Steps, Entry, Item, Blueprint

LEMMA Blueprints ==
    ASSUME NEW t \in Text, NEW u \in Url
    PROVE  LET b == [text |-> t, url |-> u] IN b \in Blueprint /\ b.text = t /\ b.url = u
  BY DEF Blueprint

------------------------------------------------------------------------------
(* Steps that leave alone what Sound relates.                              *)

LEMMA InitSound == Init => Sound
<1> SUFFICES ASSUME Init PROVE Sound
  OBVIOUS
<1> USE TextAssumption, MarkerAssumption, BoundAssumption DEF Init
<1>1. file \in Blueprint
  BY Blueprints
<1>2. issues \in [incompatible: Issue \cup {None}, withdrawn: BOOLEAN]
  OBVIOUS
<1>3. TypeOK
  <2>1. /\ serves \in [Url -> Text \cup {Gone}]
        /\ events \in 0..MaxEvents /\ losses \in 0..MaxLosses
    OBVIOUS
  <2> QED
    BY <1>1, <1>2, <2>1, NoFlowType DEF TypeOK
<1>4. Carried /\ Listed /\ Pinned /\ Judged /\ Sourced
  BY NoFlowType DEF Carried, Early, Holding, Listed, Pinned, Judged, Sourced
<1> QED
  BY <1>3, <1>4 DEF Sound

\* The entry keeps what Sound reads of it.
EntryKept ==
    IF entry = None THEN entry' = None ELSE entry' \in Entry /\ entry' # None /\ Same(entry, entry')

\* Nothing but the metadata, and perhaps the end of the work of a refresh.
LEMMA QuietSound ==
    ASSUME Sound, TypeOK', UNCHANGED <<file, tracked, first, fixed, moved, flow, lock, strayed>>,
           EntryKept, item' \in {item, None}, ~first \/ UNCHANGED <<meta, disk>>,
           UNCHANGED disk \/ (entry # None /\ file # Gone => disk' # None /\ disk'.pinned = entry.pinned)
    PROVE  Sound'
<1> USE DEF Sound, EntryKept, Same
<1>1. Carried'
  BY DEF Carried, Early, Holding
<1>2. Listed'
  BY DEF Listed
<1>3. Pinned'
  <2> SUFFICES ASSUME fixed' # None, tracked' \/ item' # None
               PROVE  /\ disk' # None /\ disk'.pinned
                      /\ IF entry' = None THEN first' /\ meta' # None /\ meta'.pinned
                         ELSE entry'.pinned
    BY DEF Pinned, Holding
  <2>1. /\ disk # None /\ disk.pinned
        /\ IF entry = None THEN first /\ meta # None /\ meta.pinned ELSE entry.pinned
    BY DEF Pinned
  <2>2. CASE entry = None
    <3>1. UNCHANGED <<meta, disk>>
      BY <2>1, <2>2
    <3> QED
      BY <2>1, <2>2, <3>1
  <2>3. CASE entry # None
    <3>1. file # Gone
      BY MarkerAssumption DEF Pinned, TypeOK
    <3> QED
      BY <2>1, <2>3, <3>1
  <2> QED
    BY <2>2, <2>3
<1>4. Judged'
  BY DEF Judged
<1>5. Sourced'
  BY DEF Sourced, Announcing, Holding
<1> QED
  BY <1>1, <1>2, <1>3, <1>4, <1>5

\* Nothing but the form that a flow shows.
LEMMA FormSound ==
    ASSUME Sound, UNCHANGED calm, flow.step \in {"closed", "fix", "fork", "risks"},
           flow' \in Flow, flow'.step \in {"closed", "fix", "fork", "risks"},
           flow'.step # "closed" =>
               ~first /\ flow'.text \in Text /\ flow'.base # None /\ (flow'.url # None \/ flow'.base \in Blueprint)
    PROVE  Sound'
<1> USE DEF Sound, calm, world, store, history, left
<1>1. TypeOK'
  BY DEF TypeOK
<1>2. Carried'
  BY DEF Carried, Early, Holding
<1>3. Listed' /\ Judged'
  BY DEF Listed, Judged
<1>4. Pinned'
  BY DEF Pinned, Holding
<1>5. Sourced'
  BY DEF Sourced, Announcing, Holding
<1> QED
  BY <1>1, <1>2, <1>3, <1>4, <1>5

LEMMA FormsSound ==
    ASSUME Sound,
           \/ Close \/ ReviewFix \/ ReviewFork
           \/ \E u \in Url : EnterReplacement(u) \/ EnterFork(u)
    PROVE  Sound'
<1>0. flow \in Flow /\ flow.step \in Steps /\ UNCHANGED calm
  BY Fields DEF Sound, TypeOK, Close, ReviewFix, ReviewFork, EnterReplacement, EnterFork
<1>1. CASE Close
  BY <1>0, <1>1, FormSound, NoFlowType DEF Close, FormShown
<1>2. CASE ReviewFix
  <2>1. PICK t \in Text, b \in Blueprint :
           flow' = [NoFlow EXCEPT !.step = "fix", !.kind = "fix", !.text = t, !.base = b]
    BY <1>2, MarkerAssumption DEF ReviewFix, Sound, TypeOK, Issue
  <2>2. flow' \in Flow /\ flow'.step = "fix" /\ flow'.text = t /\ flow'.base = b
    BY <2>1, NoFlowType DEF Flow
  <2>3. ~first /\ flow.step = "closed"
    BY <1>2 DEF ReviewFix
  <2> QED
    BY <1>0, <2>2, <2>3, FormSound, MarkerAssumption
<1>3. CASE ReviewFork
  <2>1. /\ flow.text \in Text /\ flow.base # None /\ (flow.url # None \/ flow.base \in Blueprint)
        /\ flow.step = "fork" /\ ~first
    BY <1>3 DEF ReviewFork, Sound, Carried, Early, Holding
  <2>2. PICK t \in Text : flow' = [flow EXCEPT !.step = "fix", !.kind = "fix", !.text = t]
    BY <1>3, <2>1, FixAssumption, MarkerAssumption DEF ReviewFork
  <2>3. /\ flow' \in Flow /\ flow'.step = "fix" /\ flow'.text = t
        /\ flow'.url = flow.url /\ flow'.base = flow.base
    BY <1>0, <2>2 DEF Flow
  <2> QED
    BY <1>0, <2>1, <2>3, FormSound
<1>4. ASSUME NEW u \in Url, EnterReplacement(u) \/ EnterFork(u) PROVE Sound'
  <2>1. /\ ~first /\ flow.step \in {"closed", "risks", "fork"}
        /\ Fetched(u)
    BY <1>4 DEF EnterReplacement, EnterFork, Opens
  <2>2. PICK s \in {"fork", "risks"}, k \in {"switch", "withdrawn"} : Shows(s, k, u)
    BY <1>4 DEF EnterReplacement, EnterFork
  <2>3. PICK t \in Text, b \in Blueprint \cup {Gone} :
           flow' = [NoFlow EXCEPT !.step = s, !.kind = k, !.url = u, !.text = t, !.base = b]
    BY <2>1, <2>2 DEF Shows, Fetched, Sound, TypeOK
  <2>4. \A f \in Flow : [f EXCEPT !.step = s, !.kind = k, !.url = u, !.text = t, !.base = b] \in Flow
    BY DEF Flow
  <2>5. NoFlow \in Flow
    BY NoFlowType
  <2>6. flow' \in Flow /\ flow'.step = s /\ flow'.text = t /\ flow'.url = u /\ flow'.base = b
    BY <2>3, <2>4, <2>5 DEF Flow
  <2> QED
    BY <1>0, <2>1, <2>6, FormSound, MarkerAssumption
<1> QED
  BY <1>1, <1>2, <1>3, <1>4

------------------------------------------------------------------------------
(* The install of a flow.                                                  *)

\* A flow that waits has what FinalUrl looks for.
LEMMA FinalType ==
    ASSUME flow \in Flow, flow.url # None \/ flow.base \in Blueprint,
           NEW e \in Entry \cup {None}
    PROVE  FinalUrl(e) \in Url
  BY Fields, MarkerAssumption DEF FinalUrl

LEMMA ConfirmSound ==
    ASSUME Sound, Confirm
    PROVE  Sound'
<1>1. /\ flow.step \in {"fix", "fork", "risks"} /\ flow \in Flow /\ ~first
      /\ flow.text \in Text /\ flow.base # None /\ (flow.url # None \/ flow.base \in Blueprint)
  BY DEF Confirm, FormShown, Sound, TypeOK, Carried, Early, Holding
<1>2. /\ entry \in Entry \cup {None} /\ meta \in Persisted \cup {None}
      /\ flow.url \in Url \cup {None} /\ lock \in {"refresh", None}
      /\ None \notin Entry /\ None \notin Persisted /\ None # "flow" /\ None # "refresh"
  BY <1>1, Fields, MarkerAssumption DEF Sound, TypeOK
<1>3. /\ entry' \in Entry \cup {None} /\ meta' \in Persisted \cup {None}
      /\ entry # None => entry' # None /\ entry'.local = entry.local /\ entry'.pinned = entry.pinned
      /\ entry = None => entry' = None \/ entry'.local = Gone
      /\ flow.kind = "withdrawn" \/ flow.url = None => entry' = entry
  <2>1. CASE flow.kind = "withdrawn" \/ flow.url = None
    BY <1>2, <2>1 DEF Confirm, Announced
  <2>2. CASE ~(flow.kind = "withdrawn" \/ flow.url = None)
    <3>1. meta' = [Recorded(meta) EXCEPT !.url = flow.url]
      BY <2>2 DEF Confirm, Announced
    <3>2. meta' \in Persisted
      BY <1>2, <3>1, RecordedType, PersistedChanged
    <3>3. CASE entry # None
      <4>1. entry' = [entry EXCEPT !.url = flow.url] /\ entry \in Entry
        BY <1>2, <2>2, <3>3 DEF Confirm, Announced
      <4> QED
        BY <1>2, <2>2, <3>2, <3>3, <4>1 DEF Entry
    <3>4. CASE entry = None
      <4>1. entry' = [Bare EXCEPT !.url = flow.url] \/ entry' = None
        BY <2>2, <3>4 DEF Confirm, Announced
      <4>2. LET f == [Bare EXCEPT !.url = flow.url] IN f \in Entry /\ f.local = Gone
        BY <1>2, BlankTypes DEF Entry
      <4> QED
        BY <2>2, <3>2, <3>4, <4>1, <4>2
    <3> QED
      BY <3>3, <3>4
  <2> QED
    BY <2>1, <2>2
<1>4. /\ flow' \in Flow /\ Alike(flow, flow') /\ flow'.step \in {"waiting", "prepared"}
      /\ flow'.entryUrl = IF entry = None THEN None ELSE entry.url
      /\ (lock' = "flow") <=> (flow'.step = "prepared")
      /\ flow'.step = "prepared" => flow'.final \in Url
      /\ lock' = IF lock = None THEN "flow" ELSE lock
  <2> DEFINE k == meta # None
             e == IF entry = None THEN None ELSE entry.url
             m == Recorded(meta).url
             b == IF entry # None /\ entry.remote # None THEN entry.remote
                  ELSE Recorded(meta).remote
             told == [flow EXCEPT !.known = k, !.entryUrl = e, !.metaUrl = m, !.bad = b]
  <2>1. k \in BOOLEAN /\ e \in Url \cup {None} /\ m \in Url \cup {None} /\ b \in Blueprint \cup {None}
    <3>1. Recorded(meta) \in Persisted
      BY <1>2, RecordedType
    <3>2. m \in Url \cup {None} /\ Recorded(meta).remote \in Blueprint \cup {None}
      BY <3>1 DEF Persisted
    <3> QED
      BY <1>2, <3>2, Fields
  <2>2. \/ /\ lock = None /\ lock' = "flow"
           /\ flow' = [told EXCEPT !.step = "prepared", !.final = FinalUrl(entry')]
        \/ /\ lock # None /\ lock' = lock
           /\ flow' = [told EXCEPT !.step = "waiting"]
    BY DEF Confirm
  <2> HIDE DEF k, e, m, b
  <2>3. told \in Flow /\ Alike(flow, told) /\ told.entryUrl = e
    <3>1. told \in Flow
      BY <1>1, <2>1 DEF Flow
    <3> QED
      BY <1>1, <3>1 DEF Flow, Alike
  <2> HIDE DEF told
  <2>4. FinalUrl(entry') \in Url
    BY <1>1, <1>3, FinalType
  <2>5. CASE lock = None
    <3>1. flow' = [told EXCEPT !.step = "prepared", !.final = FinalUrl(entry')] /\ lock' = "flow"
      BY <2>2, <2>5
    <3>2. /\ flow' \in Flow /\ Alike(told, flow') /\ flow'.step = "prepared"
          /\ flow'.entryUrl = told.entryUrl /\ flow'.final \in Url
      BY <2>3, <2>4, <3>1 DEF Flow, Alike
    <3> QED
      BY <2>3, <2>5, <3>1, <3>2 DEF Alike, e
  <2>6. CASE lock # None
    <3>1. flow' = [told EXCEPT !.step = "waiting"] /\ lock' = lock
      BY <2>2, <2>6
    <3>2. /\ flow' \in Flow /\ Alike(told, flow') /\ flow'.step = "waiting"
          /\ flow'.entryUrl = told.entryUrl
      BY <2>3, <3>1 DEF Flow, Alike
    <3> QED
      BY <1>2, <2>3, <2>6, <3>1, <3>2 DEF Alike, e
  <2> QED
    BY <2>5, <2>6
<1>5. UNCHANGED <<world, disk, first, item, issues, history, left>>
  BY DEF Confirm
<1> USE DEF left, world, history
<1>6. TypeOK'
  BY <1>1, <1>2, <1>3, <1>4, <1>5 DEF Sound, TypeOK, Alike
<1>7. Carried'
  BY <1>1, <1>2, <1>3, <1>4, <1>5 DEF Sound, Carried, Early, Holding, Alike
<1>8. Listed' /\ Judged'
  BY <1>1, <1>3, <1>4, <1>5 DEF Sound, Listed, Judged
<1>9. Pinned'
  BY <1>1, <1>3, <1>4, <1>5 DEF Sound, Pinned, Holding
<1>10. Sourced'
  BY <1>1, <1>3, <1>4, <1>5 DEF Sound, Sourced, Announcing, Holding, Alike
<1> QED
  BY <1>6, <1>7, <1>8, <1>9, <1>10 DEF Sound

LEMMA PrepareSound ==
    ASSUME Sound, Prepare
    PROVE  Sound'
<1>1. /\ flow.step = "waiting" /\ flow \in Flow /\ flow.text \in Text
      /\ flow.base # None /\ (flow.url # None \/ flow.base \in Blueprint)
      /\ entry \in Entry \cup {None} /\ lock = None /\ ~first
  BY DEF Prepare, Sound, TypeOK, Carried, Early, Holding
<1>2. FinalUrl(entry) \in Url
  BY <1>1, FinalType
<1>3. PICK u \in Url : flow' = [flow EXCEPT !.step = "prepared", !.final = u]
  BY <1>2 DEF Prepare
<1>4. /\ flow' \in Flow /\ Alike(flow, flow') /\ flow'.step = "prepared"
      /\ flow'.entryUrl = flow.entryUrl /\ flow'.final \in Url
  BY <1>1, <1>3 DEF Flow, Alike
<1>5. lock' = "flow" /\ UNCHANGED <<world, entry, store, first, item, issues, history, left>>
  BY DEF Prepare
<1>6. None # "refresh"
  BY MarkerAssumption
<1> USE DEF left, world, store, history, Sound
<1>7. TypeOK'
  BY <1>1, <1>4, <1>5 DEF TypeOK, Alike
<1>8. Carried'
  BY <1>1, <1>4, <1>5, <1>6 DEF Carried, Early, Holding, Alike
<1>9. Listed' /\ Judged' /\ Pinned'
  BY <1>1, <1>4, <1>5 DEF Listed, Judged, Pinned, Holding
<1>10. Sourced'
  BY <1>1, <1>4, <1>5 DEF Sourced, Announcing, Holding, Alike
<1> QED
  BY <1>7, <1>8, <1>9, <1>10

LEMMA InstallSound ==
    ASSUME Sound, Install
    PROVE  Sound'
<1>1. /\ flow.step = "prepared" /\ flow \in Flow /\ flow.text \in Text /\ flow.final \in Url
      /\ flow.base # None /\ (flow.url # None \/ flow.base \in Blueprint)
      /\ lock = "flow" /\ ~first
  BY DEF Install, Sound, TypeOK, Carried, Early
<1>2. file' \in Blueprint /\ file'.url = flow.final
  BY <1>1, Blueprints DEF Install, New
<1>3. /\ flow' \in Flow /\ Alike(flow, flow') /\ flow'.step = "installed"
      /\ flow'.final = flow.final
  BY <1>1 DEF Install, Goto, Flow, Alike
<1>4. /\ fixed' = None
      /\ UNCHANGED <<serves, tracked, events, entry, store, first, item, lock, issues, moved, left>>
  BY DEF Install
<1>5. item # None => item.step # "installed"
  BY <1>1 DEF Sound, Carried
<1> USE DEF left, store, Sound
<1>6. TypeOK'
  BY <1>1, <1>2, <1>3, <1>4 DEF TypeOK, Alike
<1>7. Carried'
  BY <1>1, <1>3, <1>4 DEF Carried, Early, Holding, Alike
<1>8. Listed' /\ Judged' /\ Pinned'
  BY <1>1, <1>3, <1>4 DEF Listed, Judged, Pinned, Holding
<1>9. Sourced'
  BY <1>1, <1>2, <1>3, <1>4, <1>5 DEF Sourced, Announcing, Holding
<1> QED
  BY <1>6, <1>7, <1>8, <1>9

\* A flow that has written its URL before its install.
Rewrites == flow.kind # "withdrawn" /\ flow.url # None

\* What a rollback makes of the entry and of the metadata.
LEMMA TakenBack ==
    ASSUME Sound, TakeBack
    PROVE  /\ entry' \in Entry \cup {None} /\ meta' \in Persisted \cup {None}
           /\ entry # None => /\ entry' # None
                              /\ entry'.local = entry.local /\ entry'.pinned = entry.pinned
                              /\ IF Rewrites THEN entry'.url = flow.entryUrl
                                 ELSE entry'.url = entry.url
           /\ entry = None => entry' = None \/ entry'.local = Gone
<1>1. /\ entry \in Entry \cup {None} /\ meta \in Persisted \cup {None} /\ flow \in Flow
      /\ None \notin Entry /\ None \notin Persisted
      /\ flow.entryUrl \in Url \cup {None} /\ flow.metaUrl \in Url \cup {None}
  BY Fields, MarkerAssumption DEF Sound, TypeOK
<1>2. CASE ~Rewrites
  BY <1>1, <1>2 DEF TakeBack, Rewrites
<1>3. CASE Rewrites
  <2>1. (meta' = [meta EXCEPT !.url = flow.metaUrl] /\ meta # None) \/ meta' \in {meta, None}
    BY <1>3 DEF TakeBack, Rewrites
  <2>2. meta' \in Persisted \cup {None}
    BY <1>1, <2>1 DEF Persisted
  <2>3. CASE entry # None
    <3>1. entry' = [entry EXCEPT !.url = flow.entryUrl] /\ entry \in Entry
      BY <1>1, <1>3, <2>3 DEF TakeBack, Rewrites
    <3> QED
      BY <1>1, <1>3, <2>2, <2>3, <3>1 DEF Entry
  <2>4. CASE entry = None
    <3>1. entry' = [Bare EXCEPT !.url = flow.entryUrl] \/ entry' = None
      BY <1>3, <2>4 DEF TakeBack, Rewrites
    <3>2. LET f == [Bare EXCEPT !.url = flow.entryUrl] IN f \in Entry /\ f.local = Gone
      BY <1>1, BlankTypes DEF Entry
    <3> QED
      BY <2>2, <2>4, <3>1, <3>2
  <2> QED
    BY <2>3, <2>4
<1> QED
  BY <1>2, <1>3

\* One more flow that is cancelled or fails late.
LEMMA LossCounted ==
    ASSUME Sound, losses < MaxLosses, losses' = losses + 1
    PROVE  losses' \in 0..MaxLosses
  BY BoundAssumption DEF Sound, TypeOK

LEMMA InstallFailsSound ==
    ASSUME Sound, InstallFails
    PROVE  Sound'
<1>1. /\ flow.step \in {"prepared", "installed", "reloading"} /\ flow \in Flow /\ flow.text \in Text
      /\ flow.base # None /\ (flow.url # None \/ flow.base \in Blueprint)
      /\ lock = "flow" /\ ~first
  BY DEF InstallFails, FailsLate, Sound, TypeOK, Carried, Early, Holding
<1>2. /\ entry' \in Entry \cup {None} /\ meta' \in Persisted \cup {None}
      /\ entry # None => /\ entry' # None
                         /\ entry'.local = entry.local /\ entry'.pinned = entry.pinned
                         /\ IF Rewrites THEN entry'.url = flow.entryUrl
                            ELSE entry'.url = entry.url
      /\ entry = None => entry' = None \/ entry'.local = Gone
  BY TakenBack DEF InstallFails
<1>3. /\ flow' \in Flow /\ flow'.step \in {"closed", "fix", "fork", "risks"}
      /\ flow'.step # "closed" =>
            flow'.text = flow.text /\ flow'.url = flow.url /\ flow'.base = flow.base
  <2>1. CASE flow' = NoFlow
    BY <2>1, NoFlowType
  <2>2. CASE flow' # NoFlow
    <3>1. PICK s \in {"fork", "fix", "risks"} :
             flow' = [flow EXCEPT !.step = s, !.known = FALSE, !.entryUrl = None,
                                  !.metaUrl = None, !.bad = None, !.final = None]
      BY <2>2 DEF InstallFails
    <3>2. flow' \in Flow
      BY <1>1, <3>1 DEF Flow
    <3> QED
      BY <1>1, <3>1, <3>2 DEF Flow
  <2> QED
    BY <2>1, <2>2
<1>4. lock' = None /\ UNCHANGED <<world, disk, first, item, issues, history, orphans>>
  BY DEF InstallFails
<1>5. \/ flow.step = "prepared" /\ UNCHANGED <<losses, strayed>>
      \/ strayed' /\ losses' \in 0..MaxLosses /\ strayed' \in BOOLEAN
  BY LossCounted DEF InstallFails, FailsLate
<1>6. None \notin {"flow", "refresh"} /\ None \notin Entry
  BY MarkerAssumption
<1>7. item # None => item.step # "installed"
  BY <1>1 DEF Sound, Carried
<1> USE DEF world, history, Sound
<1>8. TypeOK'
  BY <1>1, <1>2, <1>3, <1>4, <1>5, <1>6 DEF TypeOK
<1>9. Carried'
  BY <1>1, <1>2, <1>3, <1>4, <1>7 DEF Carried, Early, Holding
<1>10. Listed' /\ Judged'
  BY <1>1, <1>2, <1>3, <1>4, <1>5 DEF Listed, Judged
<1>11. Pinned'
  BY <1>1, <1>2, <1>3, <1>4 DEF Pinned, Holding
<1>12. Sourced'
  BY <1>1, <1>2, <1>3, <1>4, <1>5, <1>7 DEF Sourced, Announcing, Holding, Rewrites
<1> QED
  BY <1>8, <1>9, <1>10, <1>11, <1>12

LEMMA CancelFlowSound ==
    ASSUME Sound, CancelFlow
    PROVE  Sound'
<1>1. /\ flow \in Flow /\ flow.step \in {"waiting", "prepared", "installed", "reloading"} /\ ~first
      /\ losses < MaxLosses /\ losses' = losses + 1
      /\ lock' = IF lock = "flow" THEN None ELSE lock
      /\ orphans' = IF flow.step = "prepared" THEN orphans \cup {<<New, flow.base>>} ELSE orphans
      /\ strayed' = TRUE /\ flow' = NoFlow
      /\ UNCHANGED <<world, entry, store, first, item, issues, history>>
  BY DEF CancelFlow, Pending, Sound, TypeOK, Carried
<1>2. NoFlow \in Flow /\ NoFlow.step = "closed" /\ None \notin {"flow", "refresh"}
  BY NoFlowType, MarkerAssumption
<1>3. orphans' \subseteq Blueprint \X (Blueprint \cup {Gone})
  <2>1. CASE flow.step = "prepared"
    <3>1. flow.text \in Text /\ flow.final \in Url
      BY <2>1 DEF Sound, TypeOK
    <3>2. New \in Blueprint
      BY <3>1, Blueprints DEF New
    <3>3. flow.base # None
      BY <2>1 DEF Sound, Carried, Early, Holding, TypeOK
    <3> QED
      BY <1>1, <2>1, <3>2, <3>3, Fields DEF Sound, TypeOK
  <2>2. CASE flow.step # "prepared"
    BY <1>1, <2>2 DEF Sound, TypeOK
  <2> QED
    BY <2>1, <2>2
<1>4. losses' \in 0..MaxLosses
  BY <1>1, LossCounted
<1> USE DEF world, store, history, Sound
<1>5. TypeOK'
  BY <1>1, <1>2, <1>3, <1>4 DEF TypeOK
<1>6. Carried' /\ Listed' /\ Judged'
  BY <1>1, <1>2 DEF Carried, Early, Holding, Listed, Judged
<1>7. Pinned'
  BY <1>1, <1>2 DEF Pinned, Holding
<1>8. Sourced'
  BY <1>1 DEF Sourced
<1> QED
  BY <1>5, <1>6, <1>7, <1>8

LEMMA OrphanEndsSound ==
    ASSUME Sound, NEW o \in orphans, OrphanEnds(o)
    PROVE  Sound'
<1>1. /\ strayed /\ orphans' = orphans \ {o}
      /\ file' \in {file} \cup (IF file = o[2] THEN {o[1]} ELSE {})
      /\ fixed' = IF file' = file THEN fixed ELSE None
      /\ UNCHANGED <<serves, tracked, events, entry, store, first, item, lock, flow, issues,
                     moved, losses, strayed>>
  BY DEF OrphanEnds, Sound, TypeOK
<1>2. file' \in Blueprint \cup {Gone}
  BY <1>1 DEF Sound, TypeOK
<1> USE DEF store, Sound
<1>3. TypeOK'
  BY <1>1, <1>2 DEF TypeOK
<1>4. Carried' /\ Listed' /\ Judged' /\ Sourced'
  BY <1>1 DEF Carried, Early, Holding, Listed, Judged, Sourced
<1>5. Pinned'
  BY <1>1 DEF Pinned, Holding
<1> QED
  BY <1>3, <1>4, <1>5

LEMMA FinalizeSound ==
    ASSUME Sound, Finalize
    PROVE  Sound'
<1>1. /\ flow.step = "installed" /\ flow \in Flow /\ flow.text \in Text /\ flow.final \in Url
      /\ flow.base # None /\ (flow.url # None \/ flow.base \in Blueprint)
      /\ lock = "flow" /\ ~first /\ entry \in Entry \cup {None}
      /\ meta \in Persisted \cup {None} /\ disk \in Persisted \cup {None}
  BY DEF Finalize, Sound, TypeOK, Carried, Holding
<1>2. New \in Blueprint /\ New.url = flow.final
  BY <1>1, Blueprints DEF New
<1>3. /\ entry' \in Entry /\ entry' # None /\ entry'.local # Gone /\ entry'.url = flow.final
  <2>1. PICK f \in Entry : /\ entry' = [f EXCEPT !.url = flow.final, !.local = New, !.remote = New]
                           /\ entry # None => f = entry
    BY <1>1, BlankTypes DEF Finalize
  <2>2. entry' \in Entry /\ entry'.local = New /\ entry'.url = flow.final
    BY <1>1, <1>2, <2>1 DEF Entry
  <2> QED
    BY <1>2, <2>2, MarkerAssumption
<1>4. meta' \in Persisted \cup {None} /\ disk' \in Persisted \cup {None}
  BY <1>1, <1>3, CandidateType DEF Finalize, SaveOf, store
<1>5. /\ flow' \in Flow /\ Alike(flow, flow') /\ flow'.step = "reloading"
      /\ flow'.final = flow.final
  BY <1>1 DEF Finalize, Goto, Flow, Alike
<1>6. UNCHANGED <<world, first, item, lock, issues, history, left>>
  BY DEF Finalize
<1> USE DEF left, world, history, Sound
<1>7. TypeOK'
  BY <1>1, <1>3, <1>4, <1>5, <1>6 DEF TypeOK, Alike
<1>8. Carried'
  BY <1>1, <1>3, <1>5, <1>6 DEF Carried, Early, Holding, Alike
<1>9. Listed' /\ Judged' /\ Pinned'
  BY <1>1, <1>3, <1>5, <1>6 DEF Listed, Judged, Pinned, Holding
<1>10. Sourced'
  BY <1>1, <1>3, <1>5, <1>6 DEF Sourced, Announcing, Holding
<1> QED
  BY <1>7, <1>8, <1>9, <1>10

\* What the three ends of a flow have in common.
LEMMA FinishSound ==
    ASSUME Sound, flow.step = "reloading",
           lock' = None, flow' = NoFlow, UNCHANGED <<world, first, item, left>>,
           entry' \in Entry \cup {None}, meta' \in Persisted \cup {None},
           disk' \in Persisted \cup {None},
           issues' \in [incompatible: Issue \cup {None}, withdrawn: BOOLEAN],
           moved' \in BOOLEAN, fixed' \in {file, None}, fixed' # Gone,
           entry = None <=> entry' = None, entry # None => entry'.local = entry.local,
           fixed' # None =>
               entry # None /\ entry'.pinned /\ (file # Gone => disk' # None /\ disk'.pinned),
           ~moved' /\ entry # None =>
               ~moved /\ (entry'.url = entry.url \/ entry'.url = flow.final)
    PROVE  Sound'
<1>1. lock = "flow" /\ ~first /\ NoFlow \in Flow /\ NoFlow.step = "closed" /\ None # "flow"
  BY NoFlowType, MarkerAssumption DEF Sound, TypeOK, Carried
<1>2. file \in Blueprint \cup {Gone} /\ Gone # None /\ None \notin Blueprint
  BY MarkerAssumption DEF Sound, TypeOK
<1>3. item # None => item.step # "installed" /\ entry # None
  BY <1>1 DEF Sound, Carried
<1> USE DEF left, world, Sound
<1>4. TypeOK'
  BY <1>1, <1>2 DEF TypeOK
<1>5. Carried'
  BY <1>1, <1>3 DEF Carried, Early, Holding
<1>6. Listed' /\ Judged'
  BY <1>1 DEF Listed, Judged
<1>7. Pinned'
  BY <1>1, <1>2, <1>3 DEF Pinned, Holding
<1>8. Sourced'
  BY <1>1, <1>3 DEF Sourced, Announcing, Holding
<1> QED
  BY <1>4, <1>5, <1>6, <1>7, <1>8

LEMMA IssueClosed ==
    ASSUME TypeOK
    PROVE  /\ [issues EXCEPT !.incompatible = None]
                  \in [incompatible: Issue \cup {None}, withdrawn: BOOLEAN]
           /\ \A b \in BOOLEAN : [issues EXCEPT !.withdrawn = b]
                  \in [incompatible: Issue \cup {None}, withdrawn: BOOLEAN]
           /\ \A b \in BOOLEAN, i \in Issue \cup {None} :
                  [incompatible |-> i, withdrawn |-> b]
                      \in [incompatible: Issue \cup {None}, withdrawn: BOOLEAN]
  BY DEF TypeOK

LEMMA FinishFixSound ==
    ASSUME Sound, FinishFix
    PROVE  Sound'
<1>1. /\ flow.step = "reloading" /\ flow.bad \in Blueprint \cup {None} /\ flow.text \in Text
      /\ flow.final \in Url
      /\ entry \in Entry \cup {None} /\ meta \in Persisted \cup {None}
      /\ None \notin Entry /\ None \notin Persisted /\ None \notin Blueprint /\ Gone \notin Blueprint
  BY Fields, MarkerAssumption DEF FinishFix, Sound, TypeOK
<1>2. lock' = None /\ flow' = NoFlow /\ UNCHANGED <<world, first, item, moved, left>>
      /\ issues' = [issues EXCEPT !.incompatible = None]
  BY DEF FinishFix
<1> DEFINE pin(r) == [r EXCEPT !.pinned = TRUE, !.bad = IF flow.bad # None THEN flow.bad ELSE @]
           m == pin(Recorded(meta))
           e == IF entry = None THEN None
                ELSE [entry EXCEPT !.pinned = TRUE,
                                   !.bad = IF flow.bad = None THEN m.bad ELSE flow.bad]
<1>3. entry' = e /\ SaveOf(e, m) /\ fixed' = IF file = New /\ entry # None THEN file ELSE None
  BY DEF FinishFix
<1>4. m \in Persisted
  <2>1. \A r \in Persisted : pin(r) \in Persisted
    BY <1>1 DEF Persisted
  <2> QED
    BY <1>1, <2>1, RecordedType
<1>5. m.bad \in Blueprint \cup {None}
  BY <1>4 DEF Persisted
<1> HIDE DEF m
<1>6. IF entry = None THEN e = None
      ELSE e \in Entry /\ e.url = entry.url /\ e.local = entry.local /\ e.pinned
  BY <1>1, <1>5 DEF Entry
<1> HIDE DEF e
<1>7. /\ meta' \in Persisted \cup {None} /\ disk' \in Persisted \cup {None}
      /\ file # Gone /\ e # None => disk' # None /\ disk'.pinned = e.pinned
  BY <1>1, <1>3, <1>4, <1>6, CandidateType DEF SaveOf
<1>8. issues' \in [incompatible: Issue \cup {None}, withdrawn: BOOLEAN]
  BY <1>2, IssueClosed DEF Sound
<1>9. New \in Blueprint
  BY <1>1, Blueprints DEF New
<1>10. /\ fixed' \in {file, None} /\ fixed' # Gone /\ moved' \in BOOLEAN
       /\ entry' \in Entry \cup {None} /\ (entry = None <=> entry' = None)
       /\ entry # None => entry'.local = entry.local /\ entry'.url = entry.url /\ entry'.pinned
  BY <1>1, <1>2, <1>3, <1>6, <1>9, MarkerAssumption DEF Sound, TypeOK
<1>11. fixed' # None =>
         entry # None /\ entry'.pinned /\ (file # Gone => disk' # None /\ disk'.pinned)
  BY <1>1, <1>3, <1>6, <1>7
<1>12. ~moved' /\ entry # None => ~moved /\ entry'.url = entry.url
  BY <1>2, <1>10
<1> QED
  BY <1>1, <1>2, <1>7, <1>8, <1>10, <1>11, <1>12, FinishSound

LEMMA FinishSwitchSound ==
    ASSUME Sound, FinishSwitch
    PROVE  Sound'
<1>1. /\ flow.step = "reloading" /\ flow.url \in Url \cup {None} /\ flow.final \in Url
      /\ entry \in Entry \cup {None} /\ meta \in Persisted \cup {None}
      /\ None \notin Entry /\ None \notin Persisted /\ Gone # None
  BY Fields, MarkerAssumption DEF FinishSwitch, Sound, TypeOK
<1>2. /\ lock' = None /\ flow' = NoFlow /\ UNCHANGED <<world, first, item, fixed, left>>
      /\ issues' = [issues EXCEPT !.incompatible = None]
      /\ moved' = (moved \/ flow.final # flow.url)
  BY DEF FinishSwitch
<1> DEFINE m == Unpinned([Recorded(meta) EXCEPT !.url = flow.url])
           e == IF entry = None THEN None ELSE Unpinned([entry EXCEPT !.url = flow.url])
<1>3. entry' = e /\ SaveOf(e, m)
  BY DEF FinishSwitch
<1>4. m \in Persisted
  <2>1. [Recorded(meta) EXCEPT !.url = flow.url] \in Persisted
    BY <1>1, RecordedType DEF Persisted
  <2> QED
    BY <2>1, PersistedChanged
<1> HIDE DEF m
<1>5. IF entry = None THEN e = None
      ELSE e \in Entry /\ e.url = flow.url /\ e.local = entry.local
  <2>1. CASE entry # None
    <3>1. [entry EXCEPT !.url = flow.url] \in Entry
      BY <1>1, <2>1 DEF Entry
    <3> QED
      BY <1>1, <2>1, <3>1 DEF Entry, Unpinned
  <2> QED
    BY <2>1
<1> HIDE DEF e
<1>6. meta' \in Persisted \cup {None} /\ disk' \in Persisted \cup {None}
  BY <1>1, <1>3, <1>4, <1>5, CandidateType DEF SaveOf
<1>7. issues' \in [incompatible: Issue \cup {None}, withdrawn: BOOLEAN]
  BY <1>2, IssueClosed DEF Sound
<1>8. fixed' = None /\ moved' \in BOOLEAN
  BY <1>1, <1>2 DEF Sound, TypeOK, Pinned, Holding
<1>9. ~moved' /\ entry # None => ~moved /\ entry'.url = flow.final
  BY <1>2, <1>3, <1>5
<1>10. /\ entry' \in Entry \cup {None} /\ (entry = None <=> entry' = None)
       /\ entry # None => entry'.local = entry.local
  BY <1>1, <1>3, <1>5
<1> QED
  BY <1>1, <1>2, <1>6, <1>7, <1>8, <1>9, <1>10, FinishSound

LEMMA FinishWithdrawnSound ==
    ASSUME Sound, FinishWithdrawn
    PROVE  Sound'
<1>1. /\ flow.step = "reloading" /\ flow.url \in Url \cup {None} /\ flow.final \in Url
      /\ entry \in Entry \cup {None} /\ meta \in Persisted \cup {None} /\ disk \in Persisted \cup {None}
      /\ None \notin Entry /\ Gone # None
  BY Fields, MarkerAssumption DEF FinishWithdrawn, Sound, TypeOK
<1>2. /\ lock' = None /\ flow' = NoFlow /\ UNCHANGED <<world, store, first, item, fixed, left>>
      /\ issues' = [issues EXCEPT !.withdrawn = FALSE]
      /\ moved' = (moved \/ flow.final # flow.url)
      /\ entry' = IF entry = None THEN None ELSE [entry EXCEPT !.url = flow.url]
  BY DEF FinishWithdrawn
<1>3. IF entry = None THEN entry' = None
      ELSE entry' \in Entry /\ entry'.url = flow.url /\ entry'.local = entry.local
  BY <1>1, <1>2 DEF Entry
<1>4. issues' \in [incompatible: Issue \cup {None}, withdrawn: BOOLEAN]
  BY <1>2, IssueClosed DEF Sound
<1>5. fixed' = None /\ moved' \in BOOLEAN
  BY <1>1, <1>2 DEF Sound, TypeOK, Pinned, Holding
<1>6. ~moved' /\ entry # None => ~moved /\ entry'.url = flow.final
  BY <1>2, <1>3
<1>7. UNCHANGED <<meta, disk>>
  BY <1>2 DEF store
<1>8. /\ entry' \in Entry \cup {None} /\ (entry = None <=> entry' = None)
      /\ entry # None => entry'.local = entry.local
  BY <1>1, <1>3
<1> QED
  BY <1>1, <1>2, <1>4, <1>5, <1>6, <1>7, <1>8, FinishSound

------------------------------------------------------------------------------
(* The other answers to an issue.                                          *)

LEMMA StopTrackingSound ==
    ASSUME Sound, StopTracking
    PROVE  Sound'
<1>1. /\ flow.step \in {"closed", "risks"} /\ ~first
      /\ tracked' = FALSE /\ flow' = NoFlow
      /\ issues' = [issues EXCEPT !.withdrawn = FALSE]
      /\ UNCHANGED <<file, serves, events, entry, store, first, item, lock, history, left>>
  BY DEF StopTracking, Opens
<1>2. issues' \in [incompatible: Issue \cup {None}, withdrawn: BOOLEAN]
  BY <1>1, IssueClosed DEF Sound
<1>3. NoFlow \in Flow /\ NoFlow.step = "closed"
  BY NoFlowType
<1> USE DEF left, store, history, Sound
<1>4. TypeOK'
  BY <1>1, <1>2, <1>3 DEF TypeOK
<1>5. Carried' /\ Listed' /\ Judged'
  BY <1>1, <1>3 DEF Carried, Early, Holding, Listed, Judged
<1>6. Pinned'
  BY <1>1, <1>3 DEF Pinned, Holding
<1>7. Sourced'
  BY <1>1, <1>3 DEF Sourced, Announcing, Holding
<1> QED
  BY <1>4, <1>5, <1>6, <1>7

LEMMA DeleteSound ==
    ASSUME Sound, Delete
    PROVE  Sound'
<1>1. /\ flow.step = "closed" /\ file' = Gone /\ fixed' = None /\ flow' = NoFlow
      /\ issues' = [issues EXCEPT !.withdrawn = FALSE]
      /\ UNCHANGED <<serves, tracked, events, entry, store, first, item, lock, moved, left>>
  BY DEF Delete
<1>2. issues' \in [incompatible: Issue \cup {None}, withdrawn: BOOLEAN]
  BY <1>1, IssueClosed DEF Sound
<1>3. NoFlow \in Flow /\ NoFlow.step = "closed"
  BY NoFlowType
<1> USE DEF left, store, Sound
<1>4. TypeOK'
  BY <1>1, <1>2, <1>3 DEF TypeOK
<1>5. Carried' /\ Listed' /\ Judged' /\ Pinned' /\ Sourced'
  BY <1>1, <1>3 DEF Carried, Early, Holding, Listed, Judged, Pinned, Sourced
<1> QED
  BY <1>4, <1>5

LEMMA UnpinSound ==
    ASSUME Sound, Unpin
    PROVE  Sound'
<1> DEFINE e == IF entry = None THEN None ELSE Unpinned(entry)
<1>1. /\ flow.step = "closed" /\ ~first /\ fixed' = None /\ flow' = NoFlow
      /\ entry' = e /\ SaveOf(e, Unpinned(meta)) /\ Recorded(meta).pinned
      /\ issues' = [issues EXCEPT !.incompatible = None]
      /\ UNCHANGED <<world, first, item, lock, moved, left>>
  BY DEF Unpin, Opens
<1>2. /\ entry \in Entry \cup {None} /\ meta \in Persisted \cup {None} /\ None \notin Entry
      /\ NoFlow \in Flow /\ NoFlow.step = "closed"
  BY MarkerAssumption, NoFlowType DEF Sound, TypeOK
<1>3. meta \in Persisted
  BY <1>1, <1>2 DEF Recorded, Blank
<1>4. IF entry = None THEN e = None ELSE e \in Entry /\ e.url = entry.url /\ e.local = entry.local
  BY <1>2 DEF Entry, Unpinned
<1> HIDE DEF e
<1>5. meta' \in Persisted \cup {None} /\ disk' \in Persisted \cup {None}
  BY <1>1, <1>2, <1>3, <1>4, CandidateType, PersistedChanged DEF SaveOf
<1>6. issues' \in [incompatible: Issue \cup {None}, withdrawn: BOOLEAN]
  BY <1>1, IssueClosed DEF Sound
<1>7. entry' \in Entry \cup {None} /\ (entry = None <=> entry' = None)
      /\ (entry # None => entry'.url = entry.url /\ entry'.local = entry.local)
  BY <1>1, <1>2, <1>4
<1> USE DEF left, world, Sound
<1>8. TypeOK'
  BY <1>1, <1>2, <1>5, <1>6, <1>7 DEF TypeOK
<1>9. Carried' /\ Listed' /\ Judged' /\ Pinned'
  BY <1>1, <1>2, <1>7 DEF Carried, Early, Holding, Listed, Judged, Pinned
<1>10. Sourced'
  BY <1>1, <1>2, <1>7 DEF Sourced, Announcing, Holding
<1> QED
  BY <1>8, <1>9, <1>10

------------------------------------------------------------------------------
(* Scans, and saves around them.                                           *)

\* A new entry: of the URL in the file, with the pins of the old one and of the
\* metadata.
LEMMA RebuiltType ==
    ASSUME file \in Blueprint, entry \in Entry \cup {None}, meta \in Persisted \cup {None},
           NEW changed \in BOOLEAN,
           NEW e, e = Rebuilt(file, entry, changed)
    PROVE  /\ e \in Entry /\ e.url = file.url /\ e.local = file
           /\ e.pinned = (Recorded(meta).pinned \/ (entry # None /\ entry.pinned))
<1>1. Recorded(meta) \in Persisted
  BY RecordedType
<1> DEFINE r == IF changed THEN None
                ELSE IF entry # None THEN entry.remote
                ELSE IF first THEN Recorded(meta).remote ELSE None
           p == Recorded(meta).pinned \/ (entry # None /\ entry.pinned)
           b == IF Recorded(meta).bad # None THEN Recorded(meta).bad
                ELSE IF entry # None THEN entry.bad ELSE None
<1>2. r \in Blueprint \cup {None} /\ b \in Blueprint \cup {None}
  BY <1>1, Fields, PersistedChanged
<1>3. p \in BOOLEAN
  OBVIOUS
<1>4. e = [url |-> file.url, local |-> file, remote |-> r, pinned |-> p, bad |-> b]
  BY DEF Rebuilt
<1> HIDE DEF r, p, b
<1>5. e \in Entry /\ e.url = file.url /\ e.local = file /\ e.pinned = p
  BY <1>2, <1>3, <1>4, Fields DEF Entry
<1> QED
  BY <1>5 DEF p

LEMMA ScanSound ==
    ASSUME Sound, Scan
    PROVE  Sound'
<1>1. /\ file \in Blueprint \cup {Gone} /\ entry \in Entry \cup {None} /\ meta \in Persisted \cup {None}
      /\ Gone \notin Blueprint /\ None \notin Entry /\ None \notin Item
      /\ None \notin {"flow", "refresh"} /\ Gone # None
  BY MarkerAssumption DEF Sound, TypeOK
<1>2. /\ first' = FALSE /\ moved' = (moved /\ Pending)
      /\ lock' = IF lock = "refresh" THEN None ELSE lock
      /\ UNCHANGED <<world, disk, flow, issues, fixed, losses, orphans>>
      /\ strayed' = (strayed /\ (Pending \/ orphans # {}))
  BY DEF Scan
<1>3. CASE file = Gone \/ ~tracked
  <2>1. entry' = None /\ item' = None /\ meta' \in {None, meta}
    BY <1>3 DEF Scan
  <2>2. TypeOK'
    BY <1>1, <1>2, <2>1 DEF Sound, TypeOK, world
  <2>3. Carried' /\ Listed' /\ Judged'
    BY <1>2, <1>3, <2>1 DEF Sound, Carried, Early, Holding, Listed, Judged, world
  <2>4. Pinned'
    BY <1>1, <1>2, <1>3, <2>1 DEF Sound, Pinned, Holding, world, TypeOK
  <2>5. Sourced'
    BY <1>2, <2>1 DEF Sound, Sourced, Announcing, Holding, Pending, world
  <2> QED
    BY <2>2, <2>3, <2>4, <2>5 DEF Sound
<1>4. CASE file # Gone /\ tracked
  <2>1. PICK changed \in BOOLEAN : entry' = Rebuilt(file, entry, changed)
    BY <1>4 DEF Scan, UrlChanged
  <2>2. /\ entry' \in Entry /\ entry' # None /\ entry'.url = file.url /\ entry'.local = file
        /\ entry'.pinned = (Recorded(meta).pinned \/ (entry # None /\ entry.pinned))
    BY <1>1, <1>4, <2>1, RebuiltType
  <2>3. /\ meta' \in {None, meta}
        /\ item' = [step |-> "queued", url |-> file.url, local |-> file, text |-> None,
                    update |-> FALSE, pinned |-> FALSE]
    BY <1>4 DEF Scan
  <2>4. /\ item' \in Item /\ item' # None /\ item'.step = "queued" /\ item'.url = file.url
        /\ item'.local = file
    <3>1. file \in Blueprint /\ file.url \in Url
      BY <1>1, <1>4, Fields
    <3>2. item' \in Item
      BY <2>3, <3>1 DEF Item
    <3> QED
      BY <1>1, <2>3, <3>2
  <2>5. TypeOK'
    BY <1>1, <1>2, <2>2, <2>3, <2>4 DEF Sound, TypeOK, world
  <2>6. Carried'
    BY <1>1, <1>2, <1>4, <2>2, <2>4 DEF Sound, Carried, Early, Holding, world
  <2>7. Listed' /\ Judged'
    BY <1>1, <1>2, <1>4, <2>2, <2>4 DEF Sound, Listed, Judged, world
  <2>8. Pinned'
    <3>1. fixed # None => /\ disk # None /\ disk.pinned /\ file = fixed /\ ~Holding
                          /\ entry = None => Recorded(meta).pinned
                          /\ entry # None => entry.pinned
      BY <1>4 DEF Sound, Pinned, Recorded
    <3>2. fixed # None => entry'.pinned
      BY <2>2, <3>1
    <3> QED
      BY <1>2, <2>2, <2>4, <3>1, <3>2 DEF Pinned, Holding, world
  <2>9. Sourced'
    <3>1. Announcing => ~first /\ flow.step # "installed"
      BY DEF Sound, Carried, Announcing
    <3>2. Announcing /\ ~moved /\ ~strayed => flow.entryUrl = file.url
      BY <1>4, <3>1 DEF Sound, Listed, Sourced
    <3>3. Announcing \/ Holding => Pending
      BY DEF Announcing, Holding, Pending
    <3> QED
      BY <1>2, <2>2, <2>4, <3>2, <3>3 DEF Sound, Sourced, Announcing, Holding, world
  <2> QED
    BY <2>5, <2>6, <2>7, <2>8, <2>9 DEF Sound
<1> QED
  BY <1>1, <1>3, <1>4

LEMMA SaveSound ==
    ASSUME Sound, Save
    PROVE  Sound'
<1>1. /\ ~first /\ SaveOf(entry, meta)
      /\ UNCHANGED <<world, entry, first, item, lock, flow, issues, history, left>>
  BY DEF Save
<1>2. /\ entry \in Entry \cup {None} /\ meta \in Persisted \cup {None} /\ None \notin Entry
  BY MarkerAssumption DEF Sound, TypeOK
<1>3. /\ meta' \in Persisted \cup {None} /\ disk' \in Persisted \cup {None}
      /\ file # Gone /\ entry # None => disk' # None /\ disk'.pinned = entry.pinned
  BY <1>1, <1>2, CandidateType DEF SaveOf
<1>4. TypeOK'
  BY <1>1, <1>3 DEF Sound, TypeOK, world, history, left
<1>5. EntryKept
  BY <1>1, <1>2 DEF EntryKept, Same
<1> QED
  BY <1>1, <1>3, <1>4, <1>5, QuietSound DEF world, history, left

------------------------------------------------------------------------------
(* The background refresh.                                                 *)

\* What holds of the work of a refresh and of the state around it.
LEMMA Working ==
    ASSUME Sound, item # None
    PROVE  /\ item \in Item /\ entry \in Entry /\ entry # None /\ entry.local # Gone /\ ~first
           /\ item.step # "queued" => item.text \in Text /\ Remote \in Blueprint /\ Remote.url = item.url
           /\ None \notin Entry /\ None \notin Item /\ None # "flow" /\ None # "refresh"
           /\ item.local \in Blueprint /\ item.url = item.local.url /\ item.url \in Url
<1>1. /\ item \in Item /\ entry \in Entry /\ entry # None /\ entry.local # Gone /\ ~first
      /\ item.url = item.local.url
  BY DEF Sound, TypeOK, Carried
<1>2. item.step # "queued" => item.text \in Text
  BY <1>1 DEF Sound, TypeOK
<1> QED
  BY <1>1, <1>2, Fields, Blueprints, MarkerAssumption DEF Remote

LEMMA AnsweredSound ==
    ASSUME Sound, Obsolete \/ Answer \/ Report \/ AutoFails
    PROVE  Sound'
<1>1. item # None
  BY DEF Obsolete, Answer, Report, AutoFails, AutoStart
<1>2. /\ item \in Item /\ entry \in Entry /\ entry # None /\ None \notin Entry /\ None \notin Item
      /\ item.step # "queued" => Remote \in Blueprint
  BY <1>1, Working
<1>3. UNCHANGED <<work, store, lock>>
  BY DEF Obsolete, Answer, Report, AutoFails
<1>4. PICK b \in Blueprint \cup {None} :
         entry' = entry \/ entry' = [entry EXCEPT !.remote = b]
  BY <1>2 DEF Obsolete, Answer, Report, AutoFails, AutoStart
<1>5. EntryKept /\ entry' \in Entry
  BY <1>2, <1>4 DEF EntryKept, Same, Entry
<1>6. issues' \in [incompatible: Issue \cup {None}, withdrawn: BOOLEAN]
  BY IssueClosed DEF Sound, TypeOK, Obsolete, Answer, Report, AutoFails
<1> USE DEF left, work, store, world
<1>7. CASE item' = None
  <2>1. TypeOK'
    BY <1>3, <1>5, <1>6, <1>7 DEF Sound, TypeOK
  <2> QED
    BY <1>3, <1>5, <1>7, <2>1, QuietSound
<1>8. CASE item' # None
  <2>1. /\ item' = [item EXCEPT !.step = "answered", !.text = serves[item.url]]
        /\ serves[item.url] # Gone
    BY <1>8 DEF Obsolete, Answer, Report, AutoFails
  <2>2. serves[item.url] \in Text
    BY <1>1, <2>1, Working DEF Sound, TypeOK
  <2>3. item' \in Item
    BY <1>2, <2>1, <2>2 DEF Item
  <2>4. /\ item'.step = "answered" /\ item'.text \in Text
        /\ item'.url = item.url /\ item'.local = item.local
    BY <1>2, <2>1, <2>2 DEF Item
  <2>5. TypeOK'
    BY <1>3, <1>5, <1>6, <2>3, <2>4 DEF Sound, TypeOK
  <2>6. Carried' /\ Listed' /\ Judged'
    BY <1>1, <1>3, <1>5, <2>4 DEF Sound, Carried, Early, Holding, Listed, Judged, EntryKept, Same
  <2>7. Pinned'
    BY <1>1, <1>3, <1>5, <2>4 DEF Sound, Pinned, Holding, EntryKept, Same
  <2>8. Sourced'
    BY <1>1, <1>3, <1>5, <2>4 DEF Sound, Sourced, Announcing, Holding, EntryKept, Same
  <2> QED
    BY <2>5, <2>6, <2>7, <2>8 DEF Sound
<1> QED
  BY <1>7, <1>8

LEMMA JudgeSound ==
    ASSUME Sound, Judge
    PROVE  Sound'
<1> DEFINE changed == Remote # item.local
           asks == changed /\ Recorded(meta).pinned /\ ~HeldBack
           s == IF asks THEN "validating" ELSE "judged"
           u == changed /\ ~HeldBack
<1>1. /\ item # None /\ item.step = "answered" /\ UNCHANGED <<work, entry, store, lock>>
      /\ item' = [item EXCEPT !.step = s, !.update = u, !.pinned = Firm]
      /\ issues' = IF asks THEN issues ELSE [issues EXCEPT !.withdrawn = FALSE]
  BY DEF Judge
<1>2. /\ item \in Item /\ entry # None /\ None \notin Item /\ item.text \in Text
  BY <1>1, Working
<1>3. Firm => fixed # None /\ entry.pinned = Recorded(meta).pinned
  BY DEF Firm
<1>4. s \in {"validating", "judged"} /\ u \in BOOLEAN /\ Firm \in BOOLEAN
  BY DEF Firm
<1>5. s = "judged" /\ u /\ Firm => FALSE
  <2>1. fixed # None => entry.pinned
    BY <1>1, <1>2 DEF Sound, Pinned
  <2> QED
    BY <1>3, <2>1
<1>6. issues' \in [incompatible: Issue \cup {None}, withdrawn: BOOLEAN]
  BY <1>1, IssueClosed DEF Sound, TypeOK
<1> HIDE DEF asks, s, u
<1>7. PICK p \in BOOLEAN : p = Firm
  BY <1>4
<1>8. item' = [item EXCEPT !.step = s, !.update = u, !.pinned = p]
  BY <1>1, <1>7
<1>9. item' \in Item
  BY <1>2, <1>4, <1>8 DEF Item
<1>10. /\ item'.step = s /\ item'.update = u /\ item'.pinned = p /\ item'.text \in Text
       /\ item'.url = item.url /\ item'.local = item.local
  BY <1>2, <1>4, <1>8 DEF Item
<1> USE DEF left, work, store, world
<1>11. TypeOK'
  BY <1>1, <1>6, <1>9, <1>10 DEF Sound, TypeOK
<1>12. Carried' /\ Listed' /\ Pinned'
  BY <1>1, <1>4, <1>10 DEF Sound, Carried, Early, Holding, Listed, Pinned, Holding
<1>13. Judged'
  BY <1>5, <1>7, <1>10 DEF Judged
<1>14. Sourced'
  BY <1>1, <1>4, <1>10 DEF Sound, Sourced, Announcing, Holding
<1> QED
  BY <1>11, <1>12, <1>13, <1>14 DEF Sound

LEMMA ValidateSound ==
    ASSUME Sound, Validate
    PROVE  Sound'
<1> DEFINE bad == item.text \in Severe
           e == IF entry = None THEN None
                ELSE IF bad THEN [entry EXCEPT !.bad = Remote] ELSE Unpinned(entry)
           m == IF bad THEN [Recorded(meta) EXCEPT !.bad = Remote]
                ELSE IF meta = None THEN None ELSE Unpinned(meta)
<1>1. /\ item # None /\ item.step = "validating"
      /\ entry' = e /\ SaveOf(e, m)
      /\ item' = [item EXCEPT !.step = "judged", !.update = ~bad]
      /\ issues' = [incompatible |-> IF bad THEN issues.incompatible ELSE None, withdrawn |-> FALSE]
      /\ fixed' = IF bad THEN fixed ELSE None
      /\ UNCHANGED <<world, first, flow, moved, left, lock>>
  BY DEF Validate
<1>2. /\ item \in Item /\ entry \in Entry /\ entry # None /\ None \notin Entry /\ None \notin Item
      /\ item.text \in Text /\ Remote \in Blueprint /\ meta \in Persisted \cup {None}
  BY <1>1, Working DEF Sound, TypeOK
<1>3. /\ e \in Entry /\ e.url = entry.url /\ e.local = entry.local
      /\ bad => e.pinned = entry.pinned
  BY <1>2 DEF Entry, Unpinned
<1>4. m \in Persisted \cup {None}
  <2>1. CASE bad
    BY <1>2, <2>1, RecordedType, PersistedChanged
  <2>2. CASE ~bad
    BY <1>2, <2>2, PersistedChanged
  <2> QED
    BY <2>1, <2>2
<1> HIDE DEF e, m
<1>5. /\ meta' \in Persisted \cup {None} /\ disk' \in Persisted \cup {None}
      /\ file # Gone => disk' # None /\ disk'.pinned = e.pinned
  BY <1>1, <1>2, <1>3, <1>4, CandidateType DEF SaveOf
<1>6. PICK u \in BOOLEAN : u = ~bad /\ item' = [item EXCEPT !.step = "judged", !.update = u]
  BY <1>1
<1>7. item' \in Item
  BY <1>2, <1>6 DEF Item
<1>8. /\ item'.step = "judged" /\ item'.update = u /\ item'.text = item.text
      /\ item'.url = item.url /\ item'.local = item.local
  BY <1>2, <1>6 DEF Item
<1>9. issues' \in [incompatible: Issue \cup {None}, withdrawn: BOOLEAN]
  BY <1>1 DEF Sound, TypeOK
<1> USE DEF left, world
<1>10. TypeOK'
  BY <1>1, <1>2, <1>3, <1>5, <1>7, <1>8, <1>9 DEF Sound, TypeOK
<1>11. Carried' /\ Listed'
  BY <1>1, <1>2, <1>3, <1>8 DEF Sound, Carried, Early, Holding, Listed
<1>12. Judged'
  BY <1>6, <1>8 DEF Judged
<1>13. Pinned'
  <2>1. fixed' # None => fixed' = fixed /\ bad
    BY <1>1
  <2>2. fixed # None => file = fixed /\ ~Holding /\ entry.pinned
    BY <1>1, <1>2 DEF Sound, Pinned
  <2>3. fixed # None => file # Gone
    BY <2>2, MarkerAssumption DEF Sound, TypeOK
  <2>4. entry' # None /\ entry' = e
    BY <1>1, <1>2, <1>3
  <2> QED
    BY <1>1, <1>3, <1>5, <1>8, <2>1, <2>2, <2>3, <2>4 DEF Pinned, Holding
<1>14. Sourced'
  BY <1>1, <1>2, <1>3, <1>8 DEF Sound, Sourced, Announcing, Holding
<1> QED
  BY <1>10, <1>11, <1>12, <1>13, <1>14 DEF Sound

LEMMA AutoInstallSound ==
    ASSUME Sound, AutoInstall
    PROVE  Sound'
<1>1. /\ item # None /\ item.step = "judged" /\ Current /\ lock = None /\ file = item.local
      /\ file' = Remote /\ lock' = "refresh" /\ fixed' = None
      /\ item' = [item EXCEPT !.step = "installed"]
      /\ UNCHANGED <<serves, tracked, events, entry, store, first, flow, issues, moved, left>>
  BY DEF AutoInstall, AutoStart
<1>2. /\ item \in Item /\ entry # None /\ entry.local # Gone /\ ~first /\ None \notin Item
      /\ item.text \in Text /\ Remote \in Blueprint /\ Remote.url = item.url
      /\ item.url = item.local.url /\ None # "flow"
  BY <1>1, Working
<1>3. /\ item' \in Item /\ item'.step = "installed" /\ item'.text = item.text
      /\ item'.url = item.url /\ item'.local = item.local
  BY <1>1, <1>2 DEF Item
<1>4. ~Holding
  BY <1>1, <1>2 DEF Sound, TypeOK, Holding
<1> USE DEF left, store
<1>5. TypeOK'
  BY <1>1, <1>2, <1>3 DEF Sound, TypeOK
<1>6. Carried' /\ Listed' /\ Judged' /\ Pinned'
  BY <1>1, <1>2, <1>3 DEF Sound, Carried, Early, Holding, Listed, Judged, Pinned
<1>7. Sourced'
  <2>1. file'.url = item.url /\ entry.url = item.url /\ file.url = item.url
    BY <1>1, <1>2 DEF Current
  <2>2. file # Gone
    BY <1>1, <1>2, MarkerAssumption DEF Item
  <2> QED
    BY <1>1, <1>2, <1>3, <1>4, <2>1, <2>2 DEF Sound, Sourced, Announcing, Holding
<1> QED
  BY <1>5, <1>6, <1>7 DEF Sound

LEMMA AutoFinalizeSound ==
    ASSUME Sound, AutoFinalize
    PROVE  Sound'
<1> DEFINE e == [(IF entry = None THEN Bare ELSE entry) EXCEPT
                    !.url = item.url, !.local = Remote, !.remote = Remote]
<1>1. /\ item # None /\ item.step = "installed" /\ entry' = e /\ SaveOf(e, meta)
      /\ lock' = None /\ item' = None /\ UNCHANGED <<work, issues>>
  BY DEF AutoFinalize
<1>2. /\ item \in Item /\ entry \in Entry /\ entry # None /\ entry.local # Gone /\ ~first
      /\ Remote \in Blueprint /\ None \notin Entry /\ item.url \in Url
      /\ None # "flow" /\ None # "refresh" /\ meta \in Persisted \cup {None}
  BY <1>1, Working DEF Sound, TypeOK
<1>3. e = [entry EXCEPT !.url = item.url, !.local = Remote, !.remote = Remote]
  BY <1>2
<1> HIDE DEF e
<1>4. e \in Entry /\ e.url = item.url /\ e.local = Remote /\ e.pinned = entry.pinned
  BY <1>2, <1>3 DEF Entry
<1>5. e # None /\ e.local # Gone
  BY <1>2, <1>4, MarkerAssumption
<1>6. meta' \in Persisted \cup {None} /\ disk' \in Persisted \cup {None}
  BY <1>1, <1>2, <1>4, CandidateType DEF SaveOf
<1>7. lock = "refresh" /\ fixed = None
  BY <1>1 DEF Sound, Carried, Pinned
<1>8. ~Holding /\ flow.step # "prepared"
  BY <1>7 DEF Sound, TypeOK, Holding
<1> USE DEF left, work, world
<1>9. TypeOK'
  BY <1>1, <1>2, <1>4, <1>6, <1>7, <1>8 DEF Sound, TypeOK
<1>10. Carried' /\ Listed' /\ Judged' /\ Pinned'
  BY <1>1, <1>2, <1>5, <1>7 DEF Sound, Carried, Early, Holding, Listed, Judged, Pinned
<1>11. Sourced'
  BY <1>1, <1>2, <1>4, <1>8 DEF Sound, Sourced, Announcing, Holding
<1> QED
  BY <1>9, <1>10, <1>11 DEF Sound

------------------------------------------------------------------------------
(* The rest of the world.                                                  *)

LEMMA EditSound ==
    ASSUME Sound, NEW t \in Written, Edit(t)
    PROVE  Sound'
<1>1. /\ events < MaxEvents /\ file # Gone /\ events' = events + 1 /\ fixed' = None
      /\ file' = IF t = Gone THEN Gone ELSE [file EXCEPT !.text = t]
      /\ UNCHANGED <<serves, tracked, entry, store, first, item, lock, flow, issues, moved, left>>
  BY DEF Edit
<1>2. file \in Blueprint /\ t \in Text \cup {Gone}
  BY <1>1, WorldAssumption DEF Sound, TypeOK
<1>3. file' = Gone \/ (file' \in Blueprint /\ file'.url = file.url)
  BY <1>1, <1>2 DEF Blueprint
<1>4. events' \in 0..MaxEvents
  BY <1>1, BoundAssumption DEF Sound, TypeOK
<1> USE DEF left, store
<1>5. TypeOK'
  BY <1>1, <1>3, <1>4 DEF Sound, TypeOK
<1>6. Carried' /\ Listed' /\ Judged' /\ Pinned'
  BY <1>1, <1>3 DEF Sound, Carried, Early, Holding, Listed, Judged, Pinned
<1>7. Sourced'
  BY <1>1, <1>3 DEF Sound, Sourced, Announcing, Holding
<1> QED
  BY <1>5, <1>6, <1>7 DEF Sound

LEMMA AroundSound ==
    ASSUME Sound, RaiseIssue \/ \E r \in Releases : Publish(r[1], r[2])
    PROVE  Sound'
<1>1. UNCHANGED <<file, tracked, entry, store, first, item, lock, flow, history, left>>
  BY DEF RaiseIssue, Publish, world
<1>2. issues' \in [incompatible: Issue \cup {None}, withdrawn: BOOLEAN]
  <2>1. CASE RaiseIssue
    <3>1. file \in Blueprint /\ file.text \in Text
      BY <2>1, Fields DEF RaiseIssue, Sound, TypeOK
    <3>2. [base |-> file, candidate |-> Fix[file.text]] \in Issue
      BY <3>1, FixAssumption DEF Issue
    <3> QED
      BY <2>1, <3>2 DEF RaiseIssue, Sound, TypeOK
  <2>2. CASE \E r \in Releases : Publish(r[1], r[2])
    BY <2>2 DEF Publish, Sound, TypeOK
  <2> QED
    BY <2>1, <2>2
<1>3. serves' \in [Url -> Text \cup {Gone}] /\ events' \in 0..MaxEvents
  <2>1. CASE RaiseIssue
    BY <2>1 DEF RaiseIssue, Sound, TypeOK, world
  <2>2. CASE \E r \in Releases : Publish(r[1], r[2])
    <3>1. PICK u \in Url, t \in Text \cup {Gone} : Publish(u, t)
      BY <2>2, WorldAssumption
    <3>2. serves' = [serves EXCEPT ![u] = t] /\ events' = events + 1 /\ events < MaxEvents
      BY <3>1 DEF Publish
    <3>3. serves' \in [Url -> Text \cup {Gone}]
      BY <3>2 DEF Sound, TypeOK
    <3>4. events' \in 0..MaxEvents
      BY <3>2, BoundAssumption DEF Sound, TypeOK
    <3> QED
      BY <3>3, <3>4
  <2> QED
    BY <2>1, <2>2
<1>4. TypeOK'
  BY <1>1, <1>2, <1>3 DEF Sound, TypeOK, store, history, left
<1>5. EntryKept
  BY <1>1, MarkerAssumption DEF EntryKept, Same, Sound, TypeOK
<1> QED
  BY <1>1, <1>4, <1>5, QuietSound DEF store, history, left

LEMMA RestartSound ==
    ASSUME Sound, Restart
    PROVE  Sound'
<1>1. /\ ~first /\ entry' = None /\ meta' = disk /\ first' = TRUE /\ item' = None /\ lock' = None
      /\ flow' = NoFlow /\ issues' = [issues EXCEPT !.incompatible = None] /\ moved' = FALSE
      /\ UNCHANGED <<world, disk, fixed, losses>> /\ orphans' = {} /\ strayed' = FALSE
  BY DEF Restart
<1>2. issues' \in [incompatible: Issue \cup {None}, withdrawn: BOOLEAN]
  BY <1>1, IssueClosed DEF Sound
<1>3. NoFlow \in Flow /\ NoFlow.step = "closed" /\ None # "flow"
  BY NoFlowType, MarkerAssumption
<1> USE DEF left, world, Sound
<1>4. TypeOK'
  BY <1>1, <1>2, <1>3 DEF TypeOK
<1>5. Carried' /\ Listed' /\ Judged'
  BY <1>1, <1>3 DEF Carried, Early, Holding, Listed, Judged
<1>6. Pinned'
  BY <1>1, <1>3 DEF Pinned, Holding
<1>7. Sourced'
  BY <1>1, <1>3 DEF Sourced, Announcing, Holding
<1> QED
  BY <1>4, <1>5, <1>6, <1>7

LEMMA StutterSound ==
    ASSUME Sound, UNCHANGED vars
    PROVE  Sound'
<1> USE DEF left, vars, world, store, history
<1>1. TypeOK'
  BY DEF Sound, TypeOK
<1>2. Carried' /\ Listed' /\ Judged' /\ Pinned' /\ Sourced'
  BY DEF Sound, Carried, Early, Holding, Listed, Judged, Pinned, Holding, Sourced, Announcing
<1> QED
  BY <1>1, <1>2 DEF Sound

LEMMA StepSound == Sound /\ [Next]_vars => Sound'
<1> SUFFICES ASSUME Sound, [Next]_vars PROVE Sound'
  OBVIOUS
<1>1. CASE FlowStep
  BY <1>1, FormsSound, ConfirmSound, PrepareSound, InstallSound, InstallFailsSound, CancelFlowSound,
     FinalizeSound, FinishFixSound, FinishSwitchSound, FinishWithdrawnSound,
     StopTrackingSound, DeleteSound, UnpinSound DEF FlowStep
<1>2. CASE RefreshStep
  BY <1>2, AnsweredSound, JudgeSound, ValidateSound, AutoInstallSound, AutoFinalizeSound
     DEF RefreshStep
<1>3. CASE UNCHANGED vars
  BY <1>3, StutterSound
<1> QED
  BY <1>1, <1>2, <1>3, ScanSound, SaveSound, EditSound, AroundSound, OrphanEndsSound,
     RestartSound DEF Next

LEMMA SoundHolds == Spec => []Sound
  BY InitSound, StepSound, PTL DEF Spec

------------------------------------------------------------------------------
(* Theorems.                                                               *)

\* The state of flows, refreshes and records stays of its type, and a flow that
\* mutates the file holds the path lock.
THEOREM TypeCorrect == Spec => []TypeOK
<1>1. Sound => TypeOK
  BY DEF Sound
<1> QED
  BY <1>1, SoundHolds, PTL

\* Once a flow is over, whether it was installed or taken back, an entry that
\* shows the file has the URL of the file; where the flow was cancelled or failed
\* after the install, from the next scan on (_async_execute_fork_switch,
\* _handle_source_url_change).
THEOREM SourceFollows == Spec => []SourceAgrees
<1>1. Sound => SourceAgrees
  <2> SUFFICES ASSUME Sound, ~Pending, ~moved, ~strayed, entry # None, file # Gone,
                      entry.local = file
               PROVE  entry.url = file.url
    BY DEF SourceAgrees
  <2>1. entry.local # Gone /\ ~Announcing /\ flow.step # "installed"
    BY DEF Pending, Announcing
  <2> QED
    BY <2>1 DEF Sound, Sourced
<1> QED
  BY <1>1, SoundHolds, PTL

\* The pin of a fix that is in force is in the store (async_pin_blueprint).
THEOREM PinIsStored == Spec => []PinStored
<1>1. Sound => PinStored
  BY DEF Sound, Pinned, PinStored
<1> QED
  BY <1>1, SoundHolds, PTL

\* An automatic update that was decided over a pinned fix has no severity
\* (_process_blueprint_content, is_upstream_incompatible).
THEOREM PinIsHonoured == Spec => PinHonoured
<1>1. Sound /\ [Next]_vars =>
         [AutoInstall /\ file = fixed /\ item.pinned => item.text \notin Severe]_vars
  BY DEF Sound, Judged, AutoInstall, AutoStart
<1> QED
  BY <1>1, SoundHolds, PTL DEF Spec, PinHonoured
==============================================================================
