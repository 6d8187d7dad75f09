---------------------------- MODULE MCRepairFlows ----------------------------
(* A blueprint with deprecated syntax, its candidate, and a successor that  *)
(* nobody can modernize.                                                    *)
EXTENDS RepairFlows

CONSTANTS old, new, late, home, fork

MCFix == [t \in Text |-> IF t = old THEN new ELSE None]
MCWritten == {Gone}
MCReleases == {<<home, late>>, <<home, Gone>>, <<fork, new>>}

\* Flows are cancelled or fail late in behaviours that begin with the text that has
\* no candidate: at most one URL has another text later than at first.
LossesWithoutFixes == losses = 0 \/ \A u \in Url : serves[u] # old
==============================================================================
