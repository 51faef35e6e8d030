---------------------------- MODULE MCCuaExecutor ----------------------------
(***************************************************************************)
(* Instances of CuaExecutor for TLC.                                       *)
(***************************************************************************)
EXTENDS CuaExecutor, TLC

CONSTANTS t1, t2

OneTask == {t1}
TwoTasks == {t1, t2}
FirstIsKeyboard == {1}

TaskSymmetry == Permutations(TwoTasks)
=============================================================================
