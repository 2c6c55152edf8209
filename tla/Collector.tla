------------------------------ MODULE Collector ------------------------------
(***************************************************************************)
(* The process around the service and the backups: the servers that Build  *)
(* makes and startServers serves (server/factory.go, server/server.go),    *)
(* the beacon catcher (server/handlers.go), the goroutines it leaves       *)
(* behind, and stopServers (main.go), which shuts the servers down and     *)
(* flushes the backups side by side, within five seconds for the servers.  *)
(*                                                                         *)
(* The service and the backups are reduced to what the process sees of     *)
(* them: when they touch the event's parameters and whether they are done  *)
(* with the event.  Service.tla and FileBackup.tla have the rest.  One     *)
(* event's RequestParameters is one Go map, shared by all its goroutines;  *)
(* a map written while it is read or written may end the program.          *)
(* net/http, errgroup and the batcher are modelled from their use here.    *)
(***************************************************************************)
EXTENDS Naturals, FiniteSets

CONSTANTS Request,   \* POST requests of the beacon catcher
          Conf       \* the server configurations considered

\* BRUM_SERVER_SSL and BRUM_SERVER_SSL_TYPE in one; "" is an unset port.
ASSUME CollectorAssumption ==
  Conf \subseteq [ssl : {"off", "FILE", "LETS_ENCRYPT"}, port : STRING]

Server == {"http", "https"}
Backup == {"archive", "rejected"}     \* the rejected: expired or unknown

VARIABLES
  conf,      \* the server configuration
  main,      \* where main is: serving, stopping, or how the process ended
  srv,       \* each server: absent, unstarted, created, listening, refused, closed
  shut,      \* Shutdown of each server: idle, waiting, ok, error
  ctxDone,   \* the context of stopServers is cancelled or past its deadline
  flush,     \* Flush: idle, waiting for a batcher, next (not yet at rejected), done
  early,     \* history: what was in the batchers when the signal came
  on,        \* the server each accepted request arrived at
  handler,   \* each request's handler: none, accepted, submitted, done, invalid
  process,   \* the service: none, waiting, reading, done
  saver      \* each backup of each event: none, marshal, add, batched, and what
             \* became of its line: written, unwritten

vars == <<conf, main, srv, shut, ctxDone, flush, early, on, handler, process, saver>>

servers == <<conf, srv, shut, ctxDone>>
requests == <<on, handler, process, saver>>

(***************************************************************************)
(* Build: the servers and their ports.                                     *)
(***************************************************************************)
DefaultValue(value, default) == IF value = "" THEN default ELSE value

Build == IF conf.ssl = "off" THEN {"http"} ELSE Server

PortOf(s) == IF s = "https" /\ conf.ssl = "LETS_ENCRYPT" THEN "443"
             ELSE DefaultValue(conf.port, IF s = "https" THEN "443" ELSE "80")

Init == /\ conf \in Conf /\ main = "serving"
        /\ srv = [s \in Server |-> IF s \in Build THEN "unstarted" ELSE "absent"]
        /\ shut = [s \in Server |-> "idle"] /\ ctxDone = FALSE
        /\ flush = "idle" /\ early = {}
        /\ on = [r \in Request |-> "none"]
        /\ handler = [r \in Request |-> "none"]
        /\ process = [r \in Request |-> "none"]
        /\ saver = [r \in Request |-> [b \in Backup |-> "none"]]

Running == main \in {"serving", "stopping"}

(***************************************************************************)
(* Serve, in a goroutine of its own.                                       *)
(***************************************************************************)
Serve(s) ==
  /\ Running /\ srv[s] = "unstarted"
  /\ srv' = [srv EXCEPT ![s] = "created"]
  /\ UNCHANGED <<conf, main, shut, ctxDone, flush, early, requests>>

\* The port may be the other server's; main only logs the error.
ListenAndServe(s) ==
  /\ Running /\ srv[s] = "created"
  /\ srv' = [srv EXCEPT ![s] =
       IF \E t \in Server \ {s} : srv[t] = "listening" /\ PortOf(t) = PortOf(s)
       THEN "refused" ELSE "listening"]
  /\ UNCHANGED <<conf, main, shut, ctxDone, flush, early, requests>>

(***************************************************************************)
(* The catcher.  The 204 it writes first leaves with the handler's return. *)
(***************************************************************************)
Accept(r, s) ==
  /\ Running /\ srv[s] = "listening" /\ handler[r] = "none"
  /\ handler' = [handler EXCEPT ![r] = "accepted"]
  /\ on' = [on EXCEPT ![r] = s]
  /\ UNCHANGED <<servers, main, flush, early, process, saver>>

\* newEventFromRequest fails: the error is logged.
Reject(r) ==
  /\ Running /\ handler[r] = "accepted"
  /\ handler' = [handler EXCEPT ![r] = "invalid"]
  /\ UNCHANGED <<servers, main, flush, early, on, process, saver>>

ServiceSaveAsync(r) ==
  /\ Running /\ handler[r] = "accepted"
  /\ handler' = [handler EXCEPT ![r] = "submitted"]
  /\ process' = [process EXCEPT ![r] = "waiting"]
  /\ UNCHANGED <<servers, main, flush, early, on, saver>>

BackupSaveAsync(r) ==
  /\ Running /\ handler[r] = "submitted"
  /\ handler' = [handler EXCEPT ![r] = "done"]
  /\ saver' = [saver EXCEPT ![r]["archive"] = "marshal"]
  /\ UNCHANGED <<servers, main, flush, early, on, process>>

(***************************************************************************)
(* The service's goroutine, one event at a time; it may start the saver    *)
(* of the expired or the unknown backup.                                   *)
(***************************************************************************)
Receive(r) ==
  /\ Running /\ process[r] = "waiting"
  /\ \A q \in Request : process[q] # "reading"
  /\ process' = [process EXCEPT ![r] = "reading"]
  /\ UNCHANGED <<servers, main, flush, early, on, handler, saver>>

Processed(r) ==
  /\ Running /\ process[r] = "reading"
  /\ process' = [process EXCEPT ![r] = "done"]
  /\ \/ UNCHANGED saver
     \/ saver' = [saver EXCEPT ![r]["rejected"] = "marshal"]
  /\ UNCHANGED <<servers, main, flush, early, on, handler>>

(***************************************************************************)
(* A saver marshals the map, adds request_headers to it, and hands it to   *)
(* the batcher, whose goroutine reads it.                                  *)
(***************************************************************************)
After(phase) == CASE phase = "marshal" -> {"add"}
                  [] phase = "add"     -> {"batched"}
                  [] phase = "batched" -> {"written", "unwritten"}

Batched(b) == {<<r, b>> : r \in {q \in Request : saver[q][b] = "batched"}}

\* The batch's work is over, with the line in the file or not: its file may not
\* open, the write may fail, and the goroutine that closes the file may come first.
\* The batcher's counter falls; Shutdown(true) waits for it to be zero.
Saver(r, b) ==
  /\ Running /\ saver[r][b] \in {"marshal", "add", "batched"}
  /\ \E phase \in After(saver[r][b]) : saver' = [saver EXCEPT ![r][b] = phase]
  /\ flush' = IF Batched(b) = {<<r, b>>} /\ flush = b
              THEN IF b = "archive" THEN "next" ELSE "done"
              ELSE flush
  /\ UNCHANGED <<servers, main, early, on, handler, process>>

Users(r) == {b \in Backup : saver[r][b] \in {"marshal", "add", "batched"}}
            \cup (IF process[r] = "reading" THEN {"service"} ELSE {})

MapRace(r) == /\ \E b \in Backup : saver[r][b] = "add"
              /\ Cardinality(Users(r)) > 1

\* fatal error: concurrent map read and map write
Crash ==
  /\ Running /\ \E r \in Request : MapRace(r)
  /\ main' = "crashed"
  /\ UNCHANGED <<servers, flush, early, requests>>

(***************************************************************************)
(* stopServers.                                                            *)
(***************************************************************************)
Signal ==
  /\ main = "serving"
  /\ main' = "stopping"
  /\ early' = Batched("archive") \cup Batched("rejected")
  /\ UNCHANGED <<servers, flush, requests>>

ShutdownNoCheck(s) ==
  /\ main = "stopping" /\ s \in Build /\ shut[s] = "idle"
  /\ IF srv[s] = "unstarted"
     THEN shut' = [shut EXCEPT ![s] = "ok"] /\ UNCHANGED <<srv, ctxDone>>
     ELSE /\ shut' = [shut EXCEPT ![s] = "waiting"]
          /\ srv' = [srv EXCEPT ![s] = "closed"]
          /\ UNCHANGED ctxDone
  /\ UNCHANGED <<conf, main, flush, early, requests>>

\* "server is not started" cancels the group's context; a server that has not
\* begun to listen never will.
Shutdown(s) ==
  /\ main = "stopping" /\ s \in Build /\ shut[s] = "idle"
  /\ IF srv[s] = "unstarted"
     THEN shut' = [shut EXCEPT ![s] = "error"] /\ ctxDone' = TRUE /\ UNCHANGED srv
     ELSE /\ shut' = [shut EXCEPT ![s] = "waiting"]
          /\ srv' = [srv EXCEPT ![s] = "closed"]
          /\ UNCHANGED ctxDone
  /\ UNCHANGED <<conf, main, flush, early, requests>>

Active(s) == \E r \in Request : on[r] = s /\ handler[r] \in {"accepted", "submitted"}

ShutdownReturns(s) ==
  /\ main = "stopping" /\ shut[s] = "waiting" /\ ~Active(s)
  /\ shut' = [shut EXCEPT ![s] = "ok"]
  /\ UNCHANGED <<conf, main, srv, ctxDone, flush, early, requests>>

ShutdownIgnoresDeadline(s) ==
  /\ main = "stopping" /\ shut[s] = "waiting" /\ ctxDone /\ ~Active(s)
  /\ shut' = [shut EXCEPT ![s] = "error"]
  /\ UNCHANGED <<conf, main, srv, ctxDone, flush, early, requests>>

ShutdownFails(s) ==
  /\ main = "stopping" /\ shut[s] = "waiting" /\ ctxDone
  /\ shut' = [shut EXCEPT ![s] = "error"]
  /\ UNCHANGED <<conf, main, srv, ctxDone, flush, early, requests>>

\* Five seconds.
Deadline ==
  /\ main = "stopping" /\ ~ctxDone
  /\ ctxDone' = TRUE
  /\ UNCHANGED <<conf, main, srv, shut, flush, early, requests>>

\* Flush: the Shutdown of one batcher after the other's; it returns at once from a
\* batcher that has no batch.  The expired and the unknown are waited for as one.
FlushArchive ==
  /\ main = "stopping" /\ flush = "idle"
  /\ flush' = IF Batched("archive") = {} THEN "next" ELSE "archive"
  /\ UNCHANGED <<servers, main, early, requests>>

FlushRejected ==
  /\ main = "stopping" /\ flush = "next"
  /\ flush' = IF Batched("rejected") = {} THEN "done" ELSE "rejected"
  /\ UNCHANGED <<servers, main, early, requests>>

EndWithoutFlush ==
  /\ main = "stopping"
  /\ \A s \in Build : shut[s] \in {"ok", "error"}
  /\ main' = IF \A s \in Build : shut[s] = "ok" THEN "ended" ELSE "failed"
  /\ UNCHANGED <<servers, flush, early, requests>>

\* g.Wait() returns, and main with it.
End ==
  /\ main = "stopping" /\ flush = "done"
  /\ \A s \in Build : shut[s] \in {"ok", "error"}
  /\ main' = IF \A s \in Build : shut[s] = "ok" THEN "ended" ELSE "failed"
  /\ UNCHANGED <<servers, flush, early, requests>>

Ended == ~Running /\ UNCHANGED vars

Handlers == \E r \in Request :
  \/ \E s \in Server : Accept(r, s)
  \/ Reject(r) \/ ServiceSaveAsync(r) \/ BackupSaveAsync(r)

Goroutines == \/ \E s \in Server : Serve(s) \/ ListenAndServe(s)
              \/ \E r \in Request : \/ Receive(r) \/ Processed(r)
                                    \/ \E b \in Backup : Saver(r, b)

StopServers == \/ \E s \in Server : Shutdown(s) \/ ShutdownReturns(s) \/ ShutdownFails(s)
               \/ Deadline \/ FlushArchive \/ FlushRejected \/ End

Next == Handlers \/ Goroutines \/ Crash \/ Signal \/ StopServers \/ Ended

Spec == Init /\ [][Next]_vars

(***************************************************************************)
(* Goroutines run and the deadline passes.  Nothing says that a handler    *)
(* gets the rest of its request in time, or that a signal ever comes.      *)
(***************************************************************************)
Fairness ==
  /\ \A s \in Server : /\ WF_vars(Shutdown(s)) /\ WF_vars(ShutdownReturns(s))
                       /\ WF_vars(ShutdownFails(s))
  /\ \A r \in Request, b \in Backup : WF_vars(Saver(r, b))
  /\ WF_vars(Deadline) /\ WF_vars(FlushArchive) /\ WF_vars(FlushRejected)
  /\ WF_vars(End)

FairSpec == Spec /\ Fairness

(***************************************************************************)
(* Properties.                                                             *)
(***************************************************************************)
\* Every variable has the type its declaration says.
TypeOK ==
  /\ conf \in Conf
  /\ main \in {"serving", "stopping", "ended", "failed", "crashed"}
  /\ srv \in [Server -> {"absent", "unstarted", "created", "listening", "refused", "closed"}]
  /\ shut \in [Server -> {"idle", "waiting", "ok", "error"}] /\ ctxDone \in BOOLEAN
  /\ flush \in {"idle", "archive", "next", "rejected", "done"}
  /\ early \subseteq Request \X Backup
  /\ on \in [Request -> Server \cup {"none"}]
  /\ handler \in [Request -> {"none", "accepted", "submitted", "done", "invalid"}]
  /\ process \in [Request -> {"none", "waiting", "reading", "done"}]
  /\ saver \in [Request -> [Backup -> {"none", "marshal", "add", "batched",
                                      "written", "unwritten"}]]

\* "Servers exited properly": no request is cut off between its acceptance and
\* the two SaveAsync calls, and no server is left that could accept another.
ProperExitCutsNothing ==
  main = "ended" =>
    /\ \A r \in Request : handler[r] \notin {"accepted", "submitted"}
    /\ \A s \in Server : srv[s] \in {"absent", "closed"}

OverWith(p) == saver[p[1]][p[2]] \in {"written", "unwritten"}

\* The batcher is over with what had reached it by the signal when main returns,
\* whether or not a Shutdown failed meanwhile: each line is written, or its write
\* was tried and failed.
BatchedBySignalIsProcessed ==
  main \in {"ended", "failed"} => \A p \in early : OverWith(p)

\* main returns after a signal, unless the process crashes, though a handler may
\* hang.
StopsAfterSignal == main = "stopping" ~> ~Running

\* handlers.go:49-50: the event is persisted; nothing the catcher starts ends
\* the process under it.
NeverCrashes == main # "crashed"

(***************************************************************************)
(* What makes them inductive.                                              *)
(***************************************************************************)
Open(r) == handler[r] \in {"accepted", "submitted"}

\* A Shutdown that returned has closed its server and left no handler behind.
ShutdownIsTrue ==
  /\ \A s \in Server : /\ srv[s] = "absent" <=> s \notin Build
                       /\ shut[s] \in {"waiting", "ok"} => srv[s] = "closed"
                       /\ shut[s] = "ok" => ~Active(s)
  /\ \A r \in Request : Open(r) => on[r] \in Build
  /\ main = "ended" => \A s \in Build : shut[s] = "ok"

\* The batcher is over with an early batch, or Flush waits or has yet to wait for it.
EarlyIsAwaited ==
  /\ main = "serving" => flush = "idle" /\ early = {}
  /\ main \in {"ended", "failed"} => flush = "done"
  /\ \A p \in early :
       /\ OverWith(p) \/ saver[p[1]][p[2]] = "batched"
       /\ flush \in {"next", "rejected", "done"} /\ p[2] = "archive" => OverWith(p)
       /\ flush = "done" => OverWith(p)

\* A saver is started once for each backup of an event.
SaversStartOnce ==
  \A r \in Request :
    /\ handler[r] # "done" => saver[r]["archive"] = "none"
    /\ process[r] # "done" => saver[r]["rejected"] = "none"
    /\ handler[r] \in {"none", "accepted", "invalid"} => process[r] = "none"

IInv == TypeOK /\ ShutdownIsTrue /\ SaversStartOnce /\ EarlyIsAwaited
=============================================================================
