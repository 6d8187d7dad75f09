--------------------------- MODULE RevisionedFile ---------------------------
(***************************************************************************)
(* What BlueprintFileStore promises its callers, without locks, threads,   *)
(* temporary files or backups: the blueprint file is one register that     *)
(* calls replace by compare-and-swap.  Each call, prepared against a       *)
(* revision of the file, is answered once: either its content was          *)
(* installed in one step over the revision it expected, or nothing was;    *)
(* only a call that created the file can have done so and be refused.      *)
(* Revisions written by outsiders are the exception the file system        *)
(* imposes: they may be replaced by a call that has not seen them.         *)
(***************************************************************************)
CONSTANTS Txn, Content, NoFile, Unchecked, Editor

VARIABLES
    file,      \* the content, or NoFile
    writer,    \* who wrote the file, or removed it, last
    expected,  \* what each call was prepared against
    answer     \* what each call was told

vars == <<file, writer, expected, answer>>

Init ==
    /\ file \in Content \cup {NoFile}
    /\ writer = Editor
    /\ expected = [t \in Txn |-> Unchecked]
    /\ answer = [t \in Txn |-> "none"]

\* The call settles what it expects: what it knows of the file, or nothing.
Prepare(t) ==
    /\ answer[t] = "none"
    /\ \E e \in {file, Unchecked} : expected' = [expected EXCEPT ![t] = e]
    /\ UNCHANGED <<file, writer, answer>>

\* An outsider's revision hides the one that was expected.
Swap(t) ==
    /\ answer[t] = "none"
    /\ writer = Editor \/ expected[t] \in {file, Unchecked}
    /\ expected[t] = NoFile => file = NoFile
    /\ \E c \in Content : file' = c
    /\ writer' = t
    /\ \E a \in {"installed", "refused"} :
          /\ a = "refused" => expected[t] = NoFile
          /\ answer' = [answer EXCEPT ![t] = a]
    /\ UNCHANGED expected

Outside ==
    /\ file' \in Content \cup {NoFile}
    /\ writer' = Editor
    /\ UNCHANGED <<expected, answer>>

\* Nothing was installed; several calls at once when the process dies.
Refuse ==
    /\ \E calls \in SUBSET {t \in Txn : answer[t] = "none"} :
          answer' = [t \in Txn |-> IF t \in calls THEN "refused" ELSE answer[t]]
    /\ UNCHANGED <<file, writer, expected>>

Next == Outside \/ Refuse \/ \E t \in Txn : Prepare(t) \/ Swap(t)

Spec == Init /\ [][Next]_vars
=============================================================================
