---------------------------- MODULE MCLifecycle ----------------------------
(* Small instances of Lifecycle for TLC.                                   *)
EXTENDS Lifecycle

CONSTANTS s1, c1, c2, g1

\* c1's workstation runs ahead.
FastClock == [c \in Clients |-> IF c = c1 THEN 2 ELSE 0]
=============================================================================
