-------------------------------- MODULE Support --------------------------------
(***************************************************************************)
(* The parts around the file store that share no state with one another:   *)
(* template paths, the judgement of an update, the inspection of a         *)
(* blueprint, imports, tracking and the differences in release notes.      *)
(* They are checked together, each in behaviours of its own: `part' says   *)
(* which one moves, and the others rest in one initial state.              *)
(***************************************************************************)
EXTENDS TemplatePaths, UpdateRisks, Inspection, Import, Tracking, Diffs

VARIABLE part

Parts == {"paths", "risks", "inspection", "import", "tracking", "diffs"}

vars == <<part, pathVars, riskVars, inspectionVars, importVars, trackingVars, diffVars>>

Init ==
    /\ part \in Parts
    /\ PathsInit /\ RisksInit /\ InspectionInit
    /\ ImportInit /\ TrackingInit /\ DiffsInit
    /\ part # "import" => target = NoFile
    /\ part # "tracking" => usable = {}
    /\ part # "diffs" => disk = CHOOSE version \in Version : TRUE

Next ==
    /\ UNCHANGED part
    /\ \/ /\ part = "paths"
          /\ PathsNext
          /\ UNCHANGED <<riskVars, inspectionVars, importVars, trackingVars, diffVars>>
       \/ /\ part = "risks"
          /\ RisksNext
          /\ UNCHANGED <<pathVars, inspectionVars, importVars, trackingVars, diffVars>>
       \/ /\ part = "inspection"
          /\ InspectionNext
          /\ UNCHANGED <<pathVars, riskVars, importVars, trackingVars, diffVars>>
       \/ /\ part = "import"
          /\ ImportNext
          /\ UNCHANGED <<pathVars, riskVars, inspectionVars, trackingVars, diffVars>>
       \/ /\ part = "tracking"
          /\ TrackingNext
          /\ UNCHANGED <<pathVars, riskVars, inspectionVars, importVars, diffVars>>
       \/ /\ part = "diffs"
          /\ DiffsNext
          /\ UNCHANGED <<pathVars, riskVars, inspectionVars, importVars, trackingVars>>

Spec == Init /\ [][Next]_vars

TypeOK ==
    /\ PathsTypeOK /\ RisksTypeOK /\ InspectionTypeOK
    /\ ImportTypeOK /\ TrackingTypeOK /\ DiffsTypeOK
==============================================================================
