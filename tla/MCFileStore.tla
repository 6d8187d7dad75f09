----------------------------- MODULE MCFileStore -----------------------------
(* Instances of FileStore for TLC.                                         *)
EXTENDS FileStore, TLC

\* The backups a rotation left: numbered from 1 without holes, some of them
\* above the present limit.  Distinct contents tell the backups apart.
CONSTANTS Old1, Old2, Old3

Stack(n) == [v \in 1 .. Slots |-> IF v <= n THEN <<Old1, Old2, Old3>>[v] ELSE NoFile]
NoneOrAll == {Stack(0), Stack(Slots)}
All == {Stack(Slots)}

Interchangeable == Permutations(Txn)
==============================================================================
