---------------------------- MODULE MCFullSuite ----------------------------
(* Small instances of FullSuite for TLC.                                   *)
EXTENDS FullSuite

CONSTANTS p1, p2, r1, t1, t2
=============================================================================
