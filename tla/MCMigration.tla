----------------------------- MODULE MCMigration -----------------------------
(* Two processes, two migrations, three calls: one may be killed or fail, one *)
(* runs beside it, and one comes after.                                       *)
EXTENDS Migration, TLC

CONSTANTS p1, p2

MCProc == {p1, p2}
=============================================================================
