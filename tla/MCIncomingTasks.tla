-------------------------- MODULE MCIncomingTasks ---------------------------
(***************************************************************************)
(* Small instances of IncomingTasks for TLC.                               *)
(***************************************************************************)
EXTENDS IncomingTasks, TLC

CONSTANTS t1, t2, t3

TwoTasks   == {t1, t2}
ThreeTasks == {t1, t2, t3}

(* Task identifiers are interchangeable: nothing compares them but for     *)
(* equality and every behaviour of one is a behaviour of any other.        *)
Symmetry == Permutations(TaskId)
=============================================================================
