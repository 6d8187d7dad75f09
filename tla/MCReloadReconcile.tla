-------------------------- MODULE MCReloadReconcile --------------------------
(* Instances of ReloadReconcile for TLC.                                   *)
EXTENDS ReloadReconcile, TLC

CONSTANTS i1, i2, automation, script

\* Blueprints of two domains, one or both of which have an update.
MCDomainOf == [i \in Item |-> IF i = i1 THEN automation ELSE script]

\* Refreshes are interchangeable, and so are the two domains together with
\* their blueprints.
Fixed == [x \in {i1, i2, automation, script} |-> x]
Swapped == i1 :> i2 @@ i2 :> i1 @@ automation :> script @@ script :> automation
RefreshSymmetry == Permutations(Refresh)
MCSymmetry == {p @@ q : p \in RefreshSymmetry, q \in {Fixed, Swapped}}
==============================================================================
