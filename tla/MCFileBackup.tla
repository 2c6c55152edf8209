---------------------------- MODULE MCFileBackup ----------------------------
(* Three events, two of one host: batches with two lines of one file, and   *)
(* files with lines of two batches.                                         *)
EXTENDS FileBackup, TLC

CONSTANTS e1, e2, e3, ha, hb

MCEvent == {e1, e2, e3}
MCHost == {ha, hb}
MCHostOf == (e1 :> ha) @@ (e2 :> ha) @@ (e3 :> hb)
=============================================================================
