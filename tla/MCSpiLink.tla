------------------------------ MODULE MCSpiLink ------------------------------
(***************************************************************************)
(* Small instances of SpiLink for TLC.  The tasks are interchangeable.     *)
(***************************************************************************)
EXTENDS SpiLink, TLC

CONSTANTS t1, t2

TwoTasks == {t1, t2}
TaskSymmetry == Permutations(TwoTasks)

=============================================================================
