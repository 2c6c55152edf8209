------------------------------- MODULE Archive -------------------------------
(***************************************************************************)
(* The daily archive (backup/archive.go): for each host directory of a     *)
(* backup, the hour files of yesterday are joined into one compressed day  *)
(* file, a summary of which lines came from which hour is written beside   *)
(* it, and the hour files are removed.  The job is compressDay, which      *)
(* backup/service.go adds to a cron scheduler that the program never       *)
(* starts.  So nothing is said of whether the job is called; when it is,   *)
(* by whoever (archive_test.go calls archiveDay), any file operation may   *)
(* fail, and the process may die between two of them.  The day is not      *)
(* tried again, for the next run of the job is about the next day.         *)
(***************************************************************************)
EXTENDS Integers, Sequences, SequencesExt

CONSTANTS Host,         \* the host directories of the backup
          Line,         \* request logs, each written once
          Hours,        \* bound: hours of a day (24 in the code)
          RunHours,     \* the hours of the day at which the job may run
          Faults        \* the faults of the file system that are considered

ASSUME ArchiveAssumption ==
  /\ Hours \in Nat \ {0} /\ RunHours \subseteq 0..(Hours - 1)
  /\ Faults \subseteq {"none", "operations", "close"}

VARIABLES
  runHour,   \* the hour at which the job runs
  fault,     \* what fails: nothing, any file operation, or only a Close
  hour,      \* the clock; Hours and later: the day is over
  hourFile,  \* <host>/yyyy-m-d/h.json.lines; an absent file is empty
  dayDir,    \* <host>/yyyy-m-d exists
  archive,   \* <host>/yyyy-m-d.json.lines[.ext]
  meta,      \* <host>/yyyy-m-d-parts-meta.txt
  pc,        \* of the job
  host,      \* the host the job is at
  todo,      \* the hosts it has not visited
  written    \* history: what the batches wrote

vars == <<runHour, fault, hour, hourFile, dayDir, archive, meta, pc, host, todo, written>>
jobVars == <<pc, host, todo>>
env == <<runHour, fault>>

HourOfDay == 0..(Hours - 1)
Absent == [state |-> "absent", content |-> <<>>]
Partial == [state |-> "partial", content |-> <<>>]
Complete(s) == [state |-> "complete", content |-> s]

NoFiles == [h \in Host |-> [i \in HourOfDay |-> <<>>]]

Init == /\ runHour \in RunHours /\ fault \in Faults
        /\ hour = 0 /\ hourFile = NoFiles /\ dayDir = [h \in Host |-> FALSE]
        /\ archive = [h \in Host |-> Absent] /\ meta = [h \in Host |-> Absent]
        /\ pc = "idle" /\ host \in Host /\ todo = {} /\ written = NoFiles

LinesOf(files, h) == UNION {ToSet(files[h][i]) : i \in HourOfDay}

(***************************************************************************)
(* The day: batches append to the file of the hour.                        *)
(***************************************************************************)
AppendLine(h, l) ==
  /\ hour \in HourOfDay
  /\ \A g \in Host : l \notin LinesOf(written, g)
  /\ hourFile' = [hourFile EXCEPT ![h][hour] = Append(@, l)]
  /\ written' = [written EXCEPT ![h][hour] = Append(@, l)]
  /\ dayDir' = [dayDir EXCEPT ![h] = TRUE]
  /\ UNCHANGED <<env, hour, archive, meta, jobVars>>

HourPasses == /\ hour \in HourOfDay
              /\ hour' = hour + 1
              /\ UNCHANGED <<env, hourFile, dayDir, archive, meta, jobVars, written>>

(***************************************************************************)
(* The job.  The first error ends it, whatever hosts remain.               *)
(***************************************************************************)
Abort == pc' = "ended" /\ UNCHANGED <<host, todo>>

\* compressDay is called, and archiveDay reads the directory of the backup.
StartDay == /\ hour \notin HourOfDay /\ pc = "idle"
            /\ \/ pc' = "next" /\ todo' = Host /\ UNCHANGED host
               \/ fault = "operations" /\ Abort
            /\ UNCHANGED <<env, hour, hourFile, dayDir, archive, meta, written>>

NextHost(h) == /\ pc = "next" /\ h \in todo
               /\ host' = h /\ todo' = todo \ {h} /\ pc' = "writeDay"
               /\ UNCHANGED <<env, hour, hourFile, dayDir, archive, meta, written>>

EndDayEarly == /\ pc = "next"
               /\ Abort
               /\ UNCHANGED <<env, hour, hourFile, dayDir, archive, meta, written>>

EndDay == /\ pc = "next" /\ todo = {}
          /\ Abort
          /\ UNCHANGED <<env, hour, hourFile, dayDir, archive, meta, written>>

\* The file that the i-th turn of the loop in collectHours reads: the day is
\* truncated to the hour at which the job runs, not to midnight.
FileRead(i) == (runHour + i) % Hours

\* collectHours: the lines read by the turns before the i-th, and all of them.
LinesBefore(files, i) == FlattenSeq([j \in 1..i |-> files[FileRead(j - 1)]])
DayContent(files) == LinesBefore(files, Hours)

PartFromZero(files, i) ==
  IF files[FileRead(i)] = <<>> THEN <<>>
  ELSE << [hour |-> i, first |-> Len(LinesBefore(files, i)),
           last |-> Len(LinesBefore(files, i + 1))] >>

\* What the i-th turn adds to the summary: nothing for an empty or absent file.
PartOf(files, i) ==
  IF files[FileRead(i)] = <<>> THEN <<>>
  ELSE << [hour |-> i, first |-> Len(LinesBefore(files, i)) + 1,
           last |-> Len(LinesBefore(files, i + 1))] >>

SummaryBefore(files, i) == FlattenSeq([j \in 1..i |-> PartOf(files, j - 1)])
Summary(files) == SummaryBefore(files, Hours)

WriteToFileIgnoringErrors(f, s, next) ==
  /\ pc' = next /\ UNCHANGED <<host, todo>>
  /\ \/ f' = [f EXCEPT ![host] = Complete(s)]
     \/ fault = "operations" /\ f' = [f EXCEPT ![host] = Partial]

\* writeToFile: the old file is removed, the new one created and written.  An
\* error of Close, where a compressor writes its last block, is only logged.
WriteToFile(f, s, next) ==
  \/ f' = [f EXCEPT ![host] = Complete(s)] /\ pc' = next /\ UNCHANGED <<host, todo>>
  \/ fault = "close" /\ f' = [f EXCEPT ![host] = Partial] /\ pc' = next /\ UNCHANGED <<host, todo>>
  \/ fault = "operations" /\ f' \in {f, [f EXCEPT ![host] = Partial]} /\ Abort

\* validateDirExist lets an absent directory pass, collectHours finds no file in
\* it, and the day file is written all the same.
WriteDayFile ==
  /\ pc = "writeDay"
  /\ WriteToFile(archive, DayContent(hourFile[host]), "writeMeta")
  /\ UNCHANGED <<env, hour, hourFile, dayDir, meta, written>>

\* validateDirExist or the reading of an hour file fails.
ReadFails == /\ pc = "writeDay" /\ fault = "operations" /\ Abort
             /\ UNCHANGED <<env, hour, hourFile, dayDir, archive, meta, written>>

WriteHourlySummary ==
  /\ pc = "writeMeta"
  /\ WriteToFile(meta, Summary(hourFile[host]), "remove")
  /\ UNCHANGED <<env, hour, hourFile, dayDir, archive, written>>

\* os.RemoveAll: file by file, then the directory.
RemoveFile(i) ==
  /\ pc = "remove" /\ hourFile[host][i] # <<>>
  /\ hourFile' = [hourFile EXCEPT ![host][i] = <<>>]
  /\ UNCHANGED <<env, hour, dayDir, archive, meta, jobVars, written>>

RemoveDir ==
  /\ pc = "remove" /\ LinesOf(hourFile, host) = {}
  /\ dayDir' = [dayDir EXCEPT ![host] = FALSE]
  /\ pc' = "next" /\ UNCHANGED <<host, todo>>
  /\ UNCHANGED <<env, hour, hourFile, archive, meta, written>>

RemoveFails == /\ pc = "remove" /\ fault = "operations" /\ dayDir[host] /\ Abort
               /\ UNCHANGED <<env, hour, hourFile, dayDir, archive, meta, written>>

\* The process dies, perhaps in the middle of a write.
Crash == /\ fault = "operations" /\ pc \notin {"idle", "ended"}
         /\ archive' \in {archive} \cup
              (IF pc = "writeDay" THEN {[archive EXCEPT ![host] = Partial]} ELSE {})
         /\ meta' \in {meta} \cup
              (IF pc = "writeMeta" THEN {[meta EXCEPT ![host] = Partial]} ELSE {})
         /\ Abort
         /\ UNCHANGED <<env, hour, hourFile, dayDir, written>>

\* The job is over, or nothing has called it.
Stopped == hour \notin HourOfDay /\ pc \in {"idle", "ended"} /\ UNCHANGED vars

Job == \/ EndDay \/ WriteDayFile \/ ReadFails \/ WriteHourlySummary
       \/ RemoveDir \/ RemoveFails
       \/ \E h \in Host : NextHost(h)
       \/ \E i \in HourOfDay : RemoveFile(i)

Next == \/ \E h \in Host, l \in Line : AppendLine(h, l)
        \/ HourPasses \/ StartDay \/ Job \/ Crash \/ Stopped

Spec == Init /\ [][Next]_vars

\* A job that was called goes on to its end; nothing has to call it.
FairSpec == Spec /\ WF_vars(Job)

(***************************************************************************)
(* Properties.                                                             *)
(***************************************************************************)
\* At every moment each line written during the day is in its hour file or in a
\* complete day file with a complete summary: no error that is noticed, and no crash
\* between two steps, loses it, and the hour files go last.  (An error of Close is
\* not noticed.)
NoLineLost == fault # "close" =>
  \A h \in Host : \A l \in LinesOf(written, h) :
    \/ l \in LinesOf(hourFile, h)
    \/ /\ archive[h].state = "complete" /\ l \in ToSet(archive[h].content)
       /\ meta[h].state = "complete"

\* The parts m of a summary cut a day file into pieces, from its first line to its
\* last, and the pieces are the non-empty hour files, each of them once.
FirstLine(m, k) == IF k = 1 THEN 1 ELSE m[k - 1].last + 1
Pieces(m, day) ==
  /\ \A k \in 1..Len(m) : m[k].first = FirstLine(m, k) /\ m[k].first <= m[k].last
  /\ FirstLine(m, Len(m) + 1) = Len(day) + 1
PieceOf(part, day) == SubSeq(day, part.first, part.last)
FilesInUse(files) == {i \in HourOfDay : files[i] # <<>>}
CutInto(m, day, files) ==
  /\ Pieces(m, day)
  /\ \E file \in Bijection(1..Len(m), FilesInUse(files)) :
       \A k \in 1..Len(m) : /\ PieceOf(m[k], day) = files[file[k]]
                            /\ runHour = 0 => m[k].hour = file[k]

\* A complete summary cuts a complete day file into what the batches wrote, hour by
\* hour, and names the hours when the job is given midnight, as archive_test.go does.
\* At any other hour, that of the schedule included, dayWithHour counts from the hour
\* of the job, and the names are not those README.md:69 speaks of.
PartsCutTheDayFile ==
  \A h \in Host : meta[h].state = "complete" /\ archive[h].state = "complete" =>
    CutInto(meta[h].content, archive[h].content, written[h])

\* A job that was called archives every host it has yet to visit, if nothing fails:
\* both files are complete and the directory of the day is gone (archive.go:16-50).
CalledJobArchives ==
  \A h \in Host : fault = "none" /\ pc = "next" /\ h \in todo ~>
    archive[h].state = "complete" /\ meta[h].state = "complete" /\ ~dayDir[h]

(***************************************************************************)
(* What makes the invariants inductive.                                    *)
(***************************************************************************)
File(Content) == [state : {"absent", "partial", "complete"}, content : Seq(Content)]
Part == [hour : Nat, first : Nat, last : Nat]

\* Every variable has the type its declaration says.
TypeOK ==
  /\ runHour \in HourOfDay /\ fault \in {"none", "operations", "close"} /\ hour \in 0..Hours
  /\ hourFile \in [Host -> [HourOfDay -> Seq(Line)]]
  /\ written \in [Host -> [HourOfDay -> Seq(Line)]]
  /\ dayDir \in [Host -> BOOLEAN]
  /\ archive \in [Host -> File(Line)] /\ meta \in [Host -> File(Part)]
  /\ pc \in {"idle", "next", "writeDay", "writeMeta", "remove", "ended"}
  /\ host \in Host /\ todo \in SUBSET Host

\* Before the job, and for the hosts it has not reached, nothing was made or removed.
Ahead == IF pc = "idle" THEN Host ELSE todo
Untouched(h) ==
  hourFile[h] = written[h] /\ archive[h].state = "absent" /\ meta[h].state = "absent"

JobIsAfterTheDay == hour \in HourOfDay => pc = "idle"

\* Where the job is with its host: the day file comes first, then the summary, and
\* both are complete before anything is removed, but for an error of Close.
HostInTurn ==
  /\ \A h \in Ahead : Untouched(h)
  /\ pc \in {"writeDay", "writeMeta", "remove"} => host \notin todo
  /\ pc = "writeDay" => Untouched(host)
  /\ pc = "writeMeta" =>
       /\ hourFile[host] = written[host] /\ meta[host].state = "absent"
       /\ fault # "close" => archive[host].state = "complete"
  /\ pc = "remove" /\ fault # "close" =>
       archive[host].state = "complete" /\ meta[host].state = "complete"

\* A complete file holds what the batches wrote, and an hour file is as it was
\* written unless its host is archived.
FilesOfTheDay ==
  \A h \in Host :
    /\ archive[h].state = "complete" => archive[h].content = DayContent(written[h])
    /\ meta[h].state = "complete" => meta[h].content = Summary(written[h])
    /\ \/ hourFile[h] = written[h]
       \/ fault = "close"
       \/ archive[h].state = "complete" /\ meta[h].state = "complete"

IInv == TypeOK /\ JobIsAfterTheDay /\ HostInTurn /\ FilesOfTheDay
=============================================================================
