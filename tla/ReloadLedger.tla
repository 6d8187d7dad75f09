---------------------------- MODULE ReloadLedger ----------------------------
(***************************************************************************)
(* What the reload reconciliation promises, without locks, tasks, workers, *)
(* saves or caches: a ledger of domains whose files have to be read again. *)
(* A change of a file is entered in the same step, and an entry is only    *)
(* struck out when the files are read.  Part of the ledger is kept: what   *)
(* is kept outlives cancellations and a new coordinator, which owes        *)
(* nothing else.                                                           *)
(***************************************************************************)
CONSTANT Domain

VARIABLES
    stale,    \* domains with a file changed since Home Assistant last read them
    owed,     \* domains somebody is going to reload
    kept      \* those of them that are remembered whoever is cancelled

vars == <<stale, owed, kept>>

Init == stale = {} /\ owed = {} /\ kept = {}

Change(d) ==
    /\ stale' = stale \cup {d}
    /\ owed' = owed \cup {d}
    /\ UNCHANGED kept

Keep ==
    /\ kept \subseteq kept' /\ kept' \subseteq owed
    /\ UNCHANGED <<stale, owed>>

\* A reload may have been promised again in the meantime.
Read(d) ==
    /\ d \in owed
    /\ stale' = stale \ {d}
    /\ owed' \in {owed, owed \ {d}}
    /\ kept' \in {kept, kept \ {d}}

Next == Keep \/ \E d \in Domain : Change(d) \/ Read(d)

\* Somebody who owed reloads is cancelled.
Forget ==
    /\ kept \subseteq owed' /\ owed' \subseteq owed
    /\ UNCHANGED <<stale, kept>>

\* A new coordinator owes what was kept.
Restart ==
    /\ kept \subseteq kept' /\ kept' \subseteq Domain
    /\ owed' = kept'
    /\ UNCHANGED stale

\* A thread that nobody waits for has changed a file.
Unseen(d) ==
    /\ stale' = stale \cup {d}
    /\ UNCHANGED <<owed, kept>>

Loss == Forget \/ Restart \/ \E d \in Domain : Unseen(d)

Spec == Init /\ [][Next]_vars
SpecLossy == Init /\ [][Next \/ Loss]_vars
==============================================================================
