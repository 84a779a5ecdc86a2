--------------------------- MODULE MCPublication ---------------------------
(* Small instances of Publication for TLC.                                 *)
EXTENDS Publication

CONSTANTS s1, s2, c1, c2, g1

\* All clocks agree with the database's.
NoSkew == [c \in Clients |-> 0]

\* c1's workstation runs ahead.
FastClock == [c \in Clients |-> IF c = c1 THEN 2 ELSE 0]
=============================================================================
