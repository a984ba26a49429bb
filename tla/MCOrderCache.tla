---------------------------- MODULE MCOrderCache ----------------------------
(***************************************************************************)
(* Instances of OrderCache for TLC.                                         *)
(***************************************************************************)
EXTENDS OrderCache, TLC

CONSTANTS o1, o2, u1, u2, p1, p2

ProcSymmetry == Permutations(Procs)

=============================================================================
