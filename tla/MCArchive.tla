------------------------------ MODULE MCArchive ------------------------------
(* Three hours stand for the day: one before the hour of the job, that hour *)
(* and one after it.  Three lines let an hour file hold two of them.        *)
EXTENDS Archive, TLC

CONSTANTS ha, hb, l1, l2, l3

MCHost == {ha, hb}
MCLine == {l1, l2, l3}

\* The schedule of backup/service.go:31, and the midnight of archive_test.go.
MCScheduledAndMidnight == {0, 1}
MCAnyFault == {"none", "operations", "close"}
=============================================================================
