---------------------------- MODULE MCImportJob ----------------------------
(***************************************************************************)
(* Instances of ImportJob for TLC.                                         *)
(***************************************************************************)
EXTENDS ImportJob, TLC

CONSTANTS j1, j2, p1, p2, r1, r2, o1, o2, k1, k2, c1

RequestSymmetry == Permutations(Requests)
=============================================================================
