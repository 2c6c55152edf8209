------------------------------ MODULE FileBackup ------------------------------
(***************************************************************************)
(* The file backup (backup/service.go, single.go, backup.go): three single *)
(* backups, each with a batcher.  SaveAsync starts a goroutine that hands  *)
(* the event to the batcher; the batcher collects a batch until its timer  *)
(* or Flush closes it, and then its goroutine appends the lines of each    *)
(* host to that host's file.  The file is closed by a goroutine of its own *)
(* that nothing orders after the write.  At shutdown Flush runs beside     *)
(* handlers that may still save events; then the process exits.            *)
(*                                                                         *)
(* The batcher (go-resiliency) is modelled from how single.go uses it, for *)
(* a positive interval.                                                    *)
(***************************************************************************)
EXTENDS Naturals, FiniteSets

CONSTANTS Event,
          Host,       \* directories: hostnames with dots replaced
          HostOf,     \* the directory of each event
          FilesFail,  \* whether opening a file and writing to it may fail
          MaxSaves    \* bound: calls of SaveAsync, of all backups together

ASSUME FileBackupAssumption ==
  /\ HostOf \in [Event -> Host]
  /\ FilesFail \in BOOLEAN /\ MaxSaves \in Nat

Backup == {"archive", "expired", "unknown"}

VARIABLES
  starting,   \* events whose SaveAsync goroutine has not reached the batcher
  collecting, \* the events of the batch that is being collected; {}: no batch
  batches,    \* closed batches whose goroutine has not finished
  lines,      \* how many lines each backup's files hold of each event
  flushing,   \* the backup Flush is at, or "no", or "done"
  closedLast, \* Flush has closed the last batch of that backup and waits
  exited,
  \* history
  saved,      \* the events SaveAsync was called with
  unwritten,  \* events whose line could not be written
  due         \* what Flush must have written: the events in the batcher by then

vars == <<starting, collecting, batches, lines, flushing, closedLast, exited,
          saved, unwritten, due>>

\* A batch: the events still to write, those of the file being written, and
\* that file.
Batch == [backup : Backup, events : SUBSET Event, group : SUBSET Event,
          file : {"none", "open", "closed"}]

Empty == [b \in Backup |-> {}]

Init == /\ starting = Empty /\ collecting = Empty /\ batches = {}
        /\ lines = [b \in Backup |-> [e \in Event |-> 0]]
        /\ flushing = "no" /\ closedLast = FALSE /\ exited = FALSE
        /\ saved = Empty /\ unwritten = Empty /\ due = Empty

(***************************************************************************)
(* SaveAsync, SaveExpired and SaveUnknown.  A handler saves its event to   *)
(* the archive, and the service saves it to at most one of the other two.  *)
(***************************************************************************)
SaveAsync(b, e) ==
  /\ ~exited /\ e \notin saved[b]
  /\ Cardinality({p \in Backup \X Event : p[2] \in saved[p[1]]}) < MaxSaves
  /\ b # "archive" => \A c \in Backup \ {"archive"} : e \notin saved[c]
  /\ saved' = [saved EXCEPT ![b] = @ \cup {e}]
  /\ starting' = [starting EXCEPT ![b] = @ \cup {e}]
  /\ UNCHANGED <<collecting, batches, lines, flushing, closedLast, exited, unwritten, due>>

\* batcher.Run: joins the batch, or starts one.
Submit(b, e) ==
  /\ ~exited /\ e \in starting[b]
  /\ starting' = [starting EXCEPT ![b] = @ \ {e}]
  /\ collecting' = [collecting EXCEPT ![b] = @ \cup {e}]
  /\ UNCHANGED <<batches, lines, flushing, closedLast, exited, saved, unwritten, due>>

NewBatch(b) == [backup |-> b, events |-> collecting[b], group |-> {}, file |-> "none"]

\* flushCurrentBatch
CloseBatch(b) == /\ batches' = IF collecting[b] = {} THEN batches
                               ELSE batches \cup {NewBatch(b)}
                 /\ collecting' = [collecting EXCEPT ![b] = {}]

Timer(b) ==
  /\ ~exited /\ collecting[b] # {}
  /\ CloseBatch(b)
  /\ UNCHANGED <<starting, lines, flushing, closedLast, exited, saved, unwritten, due>>

(***************************************************************************)
(* do: saveBackupList writes one file per host of the batch.               *)
(***************************************************************************)
Replace(t, u) == batches' = (batches \ {t}) \cup {u}

OfHost(E, h) == {e \in E : HostOf[e] = h}

OpenFileKeeps(t, h) ==
  /\ ~exited /\ t.group = {} /\ OfHost(t.events, h) # {}
  /\ Replace(t, [t EXCEPT !.group = OfHost(t.events, h), !.file = "open"])
  /\ UNCHANGED <<starting, collecting, lines, flushing, closedLast, exited, saved, unwritten, due>>

\* openOrCreateFileForAppend; appendToFile starts the goroutine that closes it.
OpenFile(t, h) ==
  /\ ~exited /\ t.group = {} /\ OfHost(t.events, h) # {}
  /\ Replace(t, [t EXCEPT !.events = @ \ OfHost(t.events, h),
                          !.group = OfHost(t.events, h), !.file = "open"])
  /\ UNCHANGED <<starting, collecting, lines, flushing, closedLast, exited, saved, unwritten, due>>

OpenFailsReturning(t, h) ==
  /\ FilesFail
  /\ ~exited /\ t.group = {} /\ OfHost(t.events, h) # {}
  /\ Replace(t, [t EXCEPT !.events = {}])
  /\ unwritten' = [unwritten EXCEPT ![t.backup] = @ \cup OfHost(t.events, h)]
  /\ UNCHANGED <<starting, collecting, lines, flushing, closedLast, exited, saved, due>>

\* The error is logged; writing to the nil file fails too.
OpenFails(t, h) ==
  /\ FilesFail
  /\ ~exited /\ t.group = {} /\ OfHost(t.events, h) # {}
  /\ Replace(t, [t EXCEPT !.events = @ \ OfHost(t.events, h)])
  /\ unwritten' = [unwritten EXCEPT ![t.backup] = @ \cup OfHost(t.events, h)]
  /\ UNCHANGED <<starting, collecting, lines, flushing, closedLast, exited, saved, due>>

CloseFile(t) ==
  /\ ~exited /\ t.file = "open"
  /\ Replace(t, [t EXCEPT !.file = "closed"])
  /\ UNCHANGED <<starting, collecting, lines, flushing, closedLast, exited, saved, unwritten, due>>

\* The lines that a write leaves in the file: all of them if it began before the close
\* and no error stops it on the way, none if the file is closed.
Leaves(t) == IF t.file = "closed" THEN {{}} ELSE IF FilesFail THEN SUBSET t.group ELSE {t.group}

\* An error, that of a short write included, is logged.
WriteString(t) ==
  /\ ~exited /\ t.group # {}
  /\ Replace(t, [t EXCEPT !.group = {}, !.file = "none"])
  /\ \E W \in Leaves(t) :
       /\ lines' = [lines EXCEPT ![t.backup] =
                      [e \in Event |-> IF e \in W THEN @[e] + 1 ELSE @[e]]]
       /\ unwritten' = [unwritten EXCEPT ![t.backup] = @ \cup (t.group \ W)]
  /\ UNCHANGED <<starting, collecting, flushing, closedLast, exited, saved, due>>

(***************************************************************************)
(* Flush: Shutdown(true) of the three batchers, one after the other.  Each *)
(* closes the batch that is being collected, and waits for a counter to be *)
(* zero: of the batches collected or processed, younger ones included.     *)
(***************************************************************************)
Held(t) == t.events \cup t.group
Batched(b) == {e \in Event : \E t \in batches : t.backup = b /\ e \in Held(t)}
InBatcher(b) == collecting[b] \cup Batched(b)

NextBackup(b) == IF b = "archive" THEN "expired" ELSE IF b = "expired" THEN "unknown" ELSE "done"

\* Shutdown of b's batcher waits, or it returns and Flush goes on.
Waits(b) == flushing' = b /\ closedLast' = TRUE
GoesOn(b) == flushing' = NextBackup(b) /\ closedLast' = FALSE

BatchDoneUnlessFailed(t) ==
  /\ ~exited /\ t.events = {} /\ t.group = {} /\ unwritten[t.backup] = {}
  /\ batches' = batches \ {t}
  /\ UNCHANGED <<starting, collecting, lines, flushing, closedLast, exited, saved, unwritten, due>>

\* The goroutine of the batch ends: batchCounter.Done(), which ends the wait of Flush
\* when it takes the counter to zero.
BatchDone(t) ==
  /\ ~exited /\ t.events = {} /\ t.group = {}
  /\ batches' = batches \ {t}
  /\ IF /\ flushing = t.backup /\ closedLast /\ collecting[t.backup] = {}
        /\ \A u \in batches \ {t} : u.backup # t.backup
     THEN GoesOn(t.backup) ELSE UNCHANGED <<flushing, closedLast>>
  /\ UNCHANGED <<starting, collecting, lines, exited, saved, unwritten, due>>

FlushCloseOnly(b) ==
  /\ ~exited /\ ~closedLast
  /\ \/ flushing = "no" /\ b = "archive"
     \/ flushing = b
  /\ due' = [due EXCEPT ![b] = InBatcher(b)]
  /\ CloseBatch(b) /\ GoesOn(b)
  /\ UNCHANGED <<starting, lines, exited, saved, unwritten>>

FlushClose(b) ==
  /\ ~exited /\ ~closedLast
  /\ \/ flushing = "no" /\ b = "archive"
     \/ flushing = b
  /\ due' = [due EXCEPT ![b] = InBatcher(b)]
  /\ CloseBatch(b)
  /\ IF collecting[b] = {} /\ \A t \in batches : t.backup # b THEN GoesOn(b) ELSE Waits(b)
  /\ UNCHANGED <<starting, lines, exited, saved, unwritten>>

\* stopServers returned, and main with it: the goroutines end.
Exit == /\ ~exited /\ flushing = "done"
        /\ exited' = TRUE
        /\ UNCHANGED <<starting, collecting, batches, lines, flushing, closedLast, saved,
                       unwritten, due>>

Stopped == exited /\ UNCHANGED vars

Work == \E t \in batches :
          \/ CloseFile(t) \/ WriteString(t) \/ BatchDone(t)
          \/ \E h \in Host : OpenFile(t, h) \/ OpenFails(t, h)

Flush == \E b \in Backup : FlushClose(b)

Next == \/ \E b \in Backup, e \in Event : SaveAsync(b, e) \/ Submit(b, e)
        \/ \E b \in Backup : Timer(b)
        \/ Work \/ Flush \/ Exit \/ Stopped

Spec == Init /\ [][Next]_vars

\* Goroutines run and timers fire; Flush, once called, goes on where it does not wait.
Fairness ==
  /\ \A b \in Backup, e \in Event : WF_vars(Submit(b, e))
  /\ \A b \in Backup : WF_vars(Timer(b)) /\ WF_vars(flushing = b /\ FlushClose(b))
  /\ \A b \in Backup, e \in Event :
       WF_vars(\E t \in batches : /\ t.backup = b /\ e \in t.events \cup t.group
                                  /\ \/ WriteString(t)
                                     \/ \E h \in Host : OpenFile(t, h) \/ OpenFails(t, h))
  /\ \A b \in Backup : WF_vars(\E t \in batches : t.backup = b /\ BatchDone(t))

FairSpec == Spec /\ Fairness

(***************************************************************************)
(* Properties.                                                             *)
(***************************************************************************)
\* Every variable has the type its declaration says.
TypeOK ==
  /\ starting \in [Backup -> SUBSET Event] /\ collecting \in [Backup -> SUBSET Event]
  /\ batches \subseteq Batch
  /\ lines \in [Backup -> [Event -> Nat]]
  /\ flushing \in Backup \cup {"no", "done"} /\ closedLast \in BOOLEAN /\ exited \in BOOLEAN
  /\ saved \in [Backup -> SUBSET Event] /\ unwritten \in [Backup -> SUBSET Event]
  /\ due \in [Backup -> SUBSET Event]

Lines(b) == {e \in Event : lines[b][e] > 0}
Settled(b) == Lines(b) \cup unwritten[b]

Disjoint(S, T) == S \cap T = {}

\* A saved event is in one place of its backup only, and its line is written once: a
\* batch that is flushed by its timer and by Flush is processed once, and a line
\* whose write failed is not also in the file.
OneLineEach ==
  \A b \in Backup :
    /\ saved[b] = starting[b] \cup collecting[b] \cup Batched(b) \cup Settled(b)
    /\ Disjoint(starting[b], InBatcher(b) \cup Settled(b))
    /\ Disjoint(collecting[b], Batched(b) \cup Settled(b))
    /\ Disjoint(Batched(b), Settled(b)) /\ Disjoint(Lines(b), unwritten[b])
    /\ \A t, u \in batches : t # u /\ t.backup = b /\ u.backup = b => Disjoint(Held(t), Held(u))
    /\ \A e \in Event : lines[b][e] <= 1

\* Flush leaves no batch behind: when it is past a backup, every event that was
\* in that backup's batcher has been written or its write has failed.
FlushProcessesBatches ==
  flushing = "done" => \A b \in Backup : due[b] \subseteq Settled(b)

\* A batch is processed in the end, whether or not anything is flushed.
BatchesAreProcessed ==
  \A b \in Backup, e \in Event :
    e \in collecting[b] ~> e \in Settled(b) \/ exited

\* Flush returns if the saves come to an end, whatever they left in the three batchers,
\* wherever Flush was, and whichever files failed.  (Saves without end, from a server
\* whose Shutdown failed, may keep the counter it waits for above zero for ever.)
SavesEnd == <>[][~\E b \in Backup, e \in Event : SaveAsync(b, e)]_vars
FlushReturns == SavesEnd => (flushing = "archive" ~> flushing = "done")

\* Seen from outside, a backup does what Backing says: the saver goroutines, the
\* batchers, the open files and the closing ones are its memory.
InMemory(b) == starting[b] \cup InBatcher(b)

Promise == INSTANCE Backing WITH
             collected <- [b \in Backup |-> IF exited THEN {} ELSE InMemory(b)],
             written   <- [b \in Backup |-> Lines(b)],
             dropped   <- [b \in Backup |-> IF exited THEN InMemory(b) ELSE {}]

ImplementsBacking == Promise!Spec

(***************************************************************************)
(* What makes them inductive.                                              *)
(***************************************************************************)
\* Flush is past a backup.
Past(b) == \/ flushing = "done"
           \/ flushing = "expired" /\ b = "archive"
           \/ flushing = "unknown" /\ b \in {"archive", "expired"}

\* What is due is settled or on its way, and settled where Flush is past it.
DueIsTracked ==
  \A b \in Backup : /\ due[b] \subseteq Batched(b) \cup Settled(b)
                    /\ Past(b) => due[b] \subseteq Settled(b)
                    /\ closedLast => flushing \in Backup

\* A line of the file being written is not among those still to write.
GroupsAreApart == \A t \in batches : Disjoint(t.events, t.group)

IInv == TypeOK /\ GroupsAreApart /\ OneLineEach /\ DueIsTracked
=============================================================================
