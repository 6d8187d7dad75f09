--------------------------- MODULE DecisionRegister ---------------------------
(***************************************************************************)
(* What the metadata store promises a user, without entries, scans, saves, *)
(* payloads and their queue: one flag per blueprint in memory and a copy   *)
(* of it that outlives restarts.  A decision is open until all of the      *)
(* memory is durable, and only an open decision may be lost, or one about  *)
(* a blueprint that has another source since.                              *)
(***************************************************************************)
CONSTANT Path

VARIABLES
    present,   \* blueprints whose file exists
    void,      \* those whose source has changed since the last decision
    memory,    \* the flag of each of the others
    durable,   \* the flag that a restart finds
    open       \* blueprints whose last decision nobody was told to be stored

vars == <<present, void, memory, durable, open>>

Init ==
    /\ present \subseteq Path
    /\ void = {}
    /\ memory = [p \in present |-> "clear"]
    /\ durable = memory
    /\ open = {}

\* Nothing is known any more of the flags outside of what stands.
Keep(standing) ==
    /\ memory' = [p \in standing |-> memory[p]]
    /\ durable' = [p \in standing |-> durable[p]]
    /\ open' = open \cap standing

Decide(p) ==
    /\ p \in present
    /\ void' = void \ {p}
    /\ \E flag, old \in {"clear", "set"} :
          /\ memory' = [q \in present \ void' |-> IF q = p THEN flag ELSE memory[q]]
          /\ durable' = [q \in present \ void' |-> IF q \in void THEN old ELSE durable[q]]
    /\ open' = open \cup {p}
    /\ UNCHANGED present

Persist ==
    /\ durable' = memory
    /\ open' = {}
    /\ UNCHANGED <<present, void, memory>>

Restart ==
    /\ memory' = durable
    /\ open' = {}
    /\ UNCHANGED <<present, void, durable>>

Remove(p) ==
    /\ present' = present \ {p}
    /\ void' = void \ {p}
    /\ Keep(present' \ void')

\* Some blueprints come from another source now.
Renounce(changed) ==
    /\ void' = void \cup changed
    /\ Keep(present \ void')
    /\ UNCHANGED present

Next ==
    \/ Persist \/ Restart
    \/ \E p \in Path : Decide(p) \/ Remove(p)
    \/ \E changed \in SUBSET present : Renounce(changed)

Spec == Init /\ [][Next]_vars
==============================================================================
