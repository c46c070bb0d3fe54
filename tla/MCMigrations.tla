---------------------------- MODULE MCMigrations ----------------------------
(***************************************************************************)
(* Model values for Migrations: the old version, the new one twice, with   *)
(* one more migration, and a build whose second file was edited.           *)
(***************************************************************************)
EXTENDS Migrations

CONSTANTS p1, p2, p3, m1, m2, a, b

ShippedValue == [p \in Procs |-> IF p = p1 THEN <<m1>> ELSE <<m1, m2>>]
FileValue ==
  [p \in Procs |-> [n \in Names |->
     CASE n = m1 -> a
       [] n = m2 /\ p = p1 -> NoSum
       [] n = m2 /\ p = p2 -> a
       [] OTHER -> b]]
=============================================================================
