---------------------------- MODULE MCMigrations ----------------------------
(* Small instances of Migrations for TLC: one file for each stretch of the *)
(* history; the commits agree on the legacy file only.                     *)
EXTENDS Migrations

CONSTANTS o1, o2

MCTree == [c1 |-> <<"a", "a", "a">>, c2 |-> <<"a", "b", "b">>]
=============================================================================
