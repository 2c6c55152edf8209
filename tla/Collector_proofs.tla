---------------------------- MODULE Collector_proofs ----------------------------
(***************************************************************************)
(* Proofs about the process around the service and the backups, for any    *)
(* requests and server configurations: an orderly exit cuts no request     *)
(* off, and what was batched by the signal is processed as main returns.   *)
(***************************************************************************)
EXTENDS Collector, TLAPS

\* The initial state satisfies the inductive invariant.
LEMMA InitIInv == Init => IInv
<1> SUFFICES ASSUME Init PROVE IInv
  OBVIOUS
<1>1. TypeOK
  BY DEF Init, TypeOK
<1>2. ShutdownIsTrue
  BY DEF Init, ShutdownIsTrue, Open
<1>3. EarlyIsAwaited
  BY DEF Init, EarlyIsAwaited
<1>4. SaversStartOnce
  BY DEF Init, SaversStartOnce, Backup
<1> QED
  BY <1>1, <1>2, <1>3, <1>4 DEF IInv

\* A server goroutine takes its server one step on, and opens none that is closed.
LEMMA ServeKeepsIInv ==
  ASSUME IInv, NEW s \in Server, Serve(s) \/ ListenAndServe(s)
  PROVE  IInv'
<1> USE DEF IInv
<1>1. /\ srv[s] \in {"unstarted", "created"}
      /\ \E v \in {"created", "listening", "refused"} : srv' = [srv EXCEPT ![s] = v]
      /\ UNCHANGED <<conf, main, shut, ctxDone, flush, early, requests>>
  BY DEF Serve, ListenAndServe
<1>2. PICK v \in {"created", "listening", "refused"} : srv' = [srv EXCEPT ![s] = v]
  BY <1>1
<1>3. TypeOK'
  BY <1>1, <1>2 DEF TypeOK, requests
<1>4. \A t \in Server : srv'[t] = IF t = s THEN v ELSE srv[t]
  BY <1>2 DEF TypeOK
<1>5. Build' = Build /\ \A t \in Server : Active(t)' = Active(t)
  BY <1>1 DEF Build, Active, requests
<1>6. ShutdownIsTrue'
  <2>1. \A t \in Server : /\ srv'[t] = "absent" <=> t \notin Build'
                          /\ shut'[t] \in {"waiting", "ok"} => srv'[t] = "closed"
                          /\ shut'[t] = "ok" => ~Active(t)'
    BY <1>1, <1>4, <1>5 DEF ShutdownIsTrue
  <2>2. \A r \in Request : Open(r)' => on'[r] \in Build'
    BY <1>1, <1>5 DEF ShutdownIsTrue, Open, requests
  <2>3. main' = "ended" => \A t \in Build' : shut'[t] = "ok"
    BY <1>1, <1>5 DEF ShutdownIsTrue
  <2> QED
    BY <2>1, <2>2, <2>3 DEF ShutdownIsTrue
<1>7. EarlyIsAwaited' /\ SaversStartOnce'
  BY <1>1 DEF EarlyIsAwaited, SaversStartOnce, OverWith, requests
<1> QED
  BY <1>3, <1>6, <1>7

\* A handler's steps: a request arrives only at a server that listens, which a
\* Shutdown has not closed.
LEMMA HandlersKeepIInv ==
  ASSUME IInv, Handlers
  PROVE  IInv'
<1> USE DEF IInv
<1>1. UNCHANGED <<servers, main, flush, early>>
  BY DEF Handlers, Accept, Reject, ServiceSaveAsync, BackupSaveAsync
<1>2. PICK r \in Request : \/ \E s \in Server : Accept(r, s)
                           \/ Reject(r) \/ ServiceSaveAsync(r) \/ BackupSaveAsync(r)
  BY DEF Handlers
<1>3. Build' = Build
  BY <1>1 DEF Build, servers
<1>4. TypeOK'
  <2>1. conf' = conf /\ main' = main /\ srv' = srv /\ shut' = shut /\ ctxDone' = ctxDone
        /\ flush' = flush /\ early' = early
    BY <1>1 DEF servers
  <2>2. on' \in [Request -> Server \cup {"none"}]
    BY <1>2 DEF TypeOK, Accept, Reject, ServiceSaveAsync, BackupSaveAsync
  <2>3. handler' \in [Request -> {"none", "accepted", "submitted", "done", "invalid"}]
    BY <1>2 DEF TypeOK, Accept, Reject, ServiceSaveAsync, BackupSaveAsync
  <2>4. process' \in [Request -> {"none", "waiting", "reading", "done"}]
    BY <1>2 DEF TypeOK, Accept, Reject, ServiceSaveAsync, BackupSaveAsync
  <2>5. saver' \in [Request -> [Backup -> {"none", "marshal", "add", "batched", "written", "unwritten"}]]
    <3>1. CASE saver' = saver
      BY <3>1 DEF TypeOK
    <3>2. CASE saver' = [saver EXCEPT ![r]["archive"] = "marshal"]
      BY <3>2 DEF TypeOK, Backup
    <3> QED
      BY <1>2, <3>1, <3>2 DEF Accept, Reject, ServiceSaveAsync, BackupSaveAsync
  <2> QED
    BY <2>1, <2>2, <2>3, <2>4, <2>5 DEF TypeOK
<1>5. \A q \in Request : Open(q)' => \/ Open(q) /\ on'[q] = on[q]
                                     \/ srv[on'[q]] = "listening" /\ on'[q] \in Server
  BY <1>2 DEF Accept, Reject, ServiceSaveAsync, BackupSaveAsync, Open, TypeOK
<1>6. \A q \in Request : Open(q)' => on'[q] \in Server
  BY <1>5 DEF ShutdownIsTrue, Build, Server
<1>7. ShutdownIsTrue'
  <2>1. \A s \in Server : shut[s] = "ok" => ~Active(s)'
    BY <1>5 DEF ShutdownIsTrue, Active, Open
  <2>2. \A q \in Request : Open(q)' => on'[q] \in Build'
    BY <1>3, <1>5 DEF ShutdownIsTrue
  <2>3. srv' = srv /\ shut' = shut /\ main' = main
    BY <1>1 DEF servers
  <2> QED
    BY <1>3, <2>1, <2>2, <2>3 DEF ShutdownIsTrue
<1>8. \A p \in early : /\ OverWith(p) => OverWith(p)'
                       /\ saver[p[1]][p[2]] = "batched" => saver'[p[1]][p[2]] = "batched"
                       /\ OverWith(p) \/ saver[p[1]][p[2]] = "batched"
                            => OverWith(p)' \/ saver'[p[1]][p[2]] = "batched"
  <2>1. CASE saver' = saver
    BY <2>1 DEF OverWith
  <2>2. CASE BackupSaveAsync(r)
    <3>1. handler[r] = "submitted" /\ saver' = [saver EXCEPT ![r]["archive"] = "marshal"]
      BY <2>2 DEF BackupSaveAsync
    <3>2. saver[r]["archive"] = "none"
      BY <3>1 DEF SaversStartOnce
    <3>3. \A q \in Request, b \in Backup :
            saver[q][b] \in {"batched", "written", "unwritten"} => saver'[q][b] = saver[q][b]
      BY <3>1, <3>2 DEF TypeOK, Backup
    <3>4. \A p \in early : p[1] \in Request /\ p[2] \in Backup
      BY DEF TypeOK
    <3> QED
      BY <3>3, <3>4 DEF OverWith
  <2> QED
    BY <1>2, <2>1, <2>2 DEF Accept, Reject, ServiceSaveAsync
<1>9. EarlyIsAwaited'
  BY <1>1, <1>8 DEF EarlyIsAwaited
<1>10. SaversStartOnce'
  <2>1. CASE \E s \in Server : Accept(r, s)
    BY <2>1 DEF SaversStartOnce, Accept, TypeOK
  <2>2. CASE Reject(r) \/ ServiceSaveAsync(r)
    BY <2>2 DEF SaversStartOnce, Reject, ServiceSaveAsync, TypeOK
  <2>3. CASE BackupSaveAsync(r)
    BY <2>3 DEF SaversStartOnce, BackupSaveAsync, TypeOK, Backup
  <2> QED
    BY <1>2, <2>1, <2>2, <2>3
<1> QED
  BY <1>4, <1>7, <1>9, <1>10

\* The goroutine of the service starts the saver of a rejected event, once.
LEMMA ProcessKeepsIInv ==
  ASSUME IInv, NEW r \in Request, Receive(r) \/ Processed(r)
  PROVE  IInv'
<1> USE DEF IInv
<1>1. UNCHANGED <<servers, main, flush, early, on, handler>>
  BY DEF Receive, Processed
<1>2. \/ process[r] = "waiting" /\ process' = [process EXCEPT ![r] = "reading"] /\ saver' = saver
      \/ /\ process[r] = "reading" /\ process' = [process EXCEPT ![r] = "done"]
         /\ saver' = saver \/ saver' = [saver EXCEPT ![r]["rejected"] = "marshal"]
  BY DEF Receive, Processed
<1>3. process' \in [Request -> {"none", "waiting", "reading", "done"}]
  BY <1>2 DEF TypeOK
<1>4. saver' \in [Request -> [Backup -> {"none", "marshal", "add", "batched", "written", "unwritten"}]]
  <2>1. CASE saver' = saver
    BY <2>1 DEF TypeOK
  <2>2. CASE saver' = [saver EXCEPT ![r]["rejected"] = "marshal"]
    BY <2>2 DEF TypeOK, Backup
  <2> QED
    BY <1>2, <2>1, <2>2
<1>5. TypeOK'
  BY <1>1, <1>3, <1>4 DEF TypeOK, servers
<1>6. ShutdownIsTrue'
  BY <1>1 DEF ShutdownIsTrue, Build, Active, Open, servers
<1>7. \A q \in Request, b \in Backup :
        saver[q][b] \in {"batched", "written", "unwritten"} => saver'[q][b] = saver[q][b]
  <2>1. CASE saver' = saver
    BY <2>1
  <2>2. CASE process[r] = "reading" /\ saver' = [saver EXCEPT ![r]["rejected"] = "marshal"]
    <3>1. saver[r]["rejected"] = "none"
      BY <2>2 DEF SaversStartOnce
    <3> QED
      BY <2>2, <3>1 DEF TypeOK, Backup
  <2> QED
    BY <1>2, <2>1, <2>2
<1>8. \A p \in early : p[1] \in Request /\ p[2] \in Backup
  BY DEF TypeOK
<1>9. EarlyIsAwaited'
  BY <1>1, <1>7, <1>8 DEF EarlyIsAwaited, OverWith
<1>10. SaversStartOnce'
  BY <1>1, <1>2 DEF SaversStartOnce, TypeOK, Backup
<1> QED
  BY <1>5, <1>6, <1>9, <1>10

\* A saver goes on; the one that leaves a batcher empty lets Flush go on.
LEMMA SaverKeepsIInv ==
  ASSUME IInv, NEW r \in Request, NEW b \in Backup, Saver(r, b)
  PROVE  IInv'
<1> USE DEF IInv
<1>1. UNCHANGED <<servers, main, early, on, handler, process>>
  BY DEF Saver
<1>2. /\ saver[r][b] \in {"marshal", "add", "batched"}
      /\ \E phase \in After(saver[r][b]) : saver' = [saver EXCEPT ![r][b] = phase]
      /\ flush' = IF Batched(b) = {<<r, b>>} /\ flush = b
                  THEN IF b = "archive" THEN "next" ELSE "done"
                  ELSE flush
  BY DEF Saver
<1>3. PICK phase \in After(saver[r][b]) : saver' = [saver EXCEPT ![r][b] = phase]
  BY <1>2
<1>4. phase \in {"add", "batched", "written", "unwritten"}
  BY <1>2, <1>3 DEF After
<1>5. /\ saver' \in [Request -> [Backup -> {"none", "marshal", "add", "batched",
                                           "written", "unwritten"}]]
      /\ saver'[r][b] = phase
      /\ \A q \in Request, c \in Backup : <<q, c>> # <<r, b>> => saver'[q][c] = saver[q][c]
  BY <1>3, <1>4 DEF TypeOK
<1>6. TypeOK'
  BY <1>1, <1>2, <1>5 DEF TypeOK, servers
<1>7. ShutdownIsTrue'
  BY <1>1 DEF ShutdownIsTrue, Build, Active, Open, servers
<1>8. SaversStartOnce'
  BY <1>1, <1>2, <1>5 DEF SaversStartOnce, Backup, servers
<1>9. \A p \in early : p[1] \in Request /\ p[2] \in Backup /\ p = <<p[1], p[2]>>
  BY DEF TypeOK
<1>10. ASSUME NEW p \in early
       PROVE  /\ OverWith(p) => OverWith(p)'
              /\ OverWith(p)' \/ saver'[p[1]][p[2]] = "batched"
  <2>1. CASE p = <<r, b>>
    <3>1. p[1] = r /\ p[2] = b
      BY <2>1
    <3>2. saver[r][b] = "batched"
      BY <3>1, <1>2 DEF EarlyIsAwaited, OverWith
    <3>3. phase \in {"written", "unwritten"}
      BY <3>2, <1>3 DEF After
    <3> QED
      BY <3>1, <3>2, <3>3, <1>5 DEF OverWith
  <2>2. CASE p # <<r, b>>
    <3>1. saver'[p[1]][p[2]] = saver[p[1]][p[2]]
      BY <2>2, <1>5, <1>9
    <3> QED
      BY <3>1 DEF OverWith, EarlyIsAwaited
  <2> QED
    BY <2>1, <2>2
<1>11. ASSUME NEW p \in early, Batched(b) = {<<r, b>>}, p[2] = b
       PROVE  OverWith(p)'
  <2>1. CASE OverWith(p)
    BY <2>1, <1>10
  <2>2. CASE saver[p[1]][p[2]] = "batched"
    <3>1. p \in Batched(b)
      BY <2>2, <1>9, <1>11 DEF Batched
    <3>2. p[1] = r
      BY <3>1, <1>11
    <3>3. phase \in {"written", "unwritten"}
      BY <2>2, <3>2, <1>11, <1>3 DEF After
    <3> QED
      BY <3>2, <3>3, <1>5, <1>11 DEF OverWith
  <2> QED
    BY <2>1, <2>2 DEF EarlyIsAwaited
<1>12. EarlyIsAwaited'
  <2>1. CASE flush' = flush
    BY <2>1, <1>1, <1>10 DEF EarlyIsAwaited
  <2>2. CASE Batched(b) = {<<r, b>>} /\ flush = b
    <3>1. main' = main /\ early' = early
      BY <1>1
    <3>2. main \notin {"serving", "ended", "failed"}
      BY <2>2 DEF EarlyIsAwaited, Backup
    <3>3. CASE b = "archive"
      <4>1. flush' = "next"
        BY <2>2, <3>3, <1>2
      <4> QED
        BY <2>2, <3>1, <3>2, <3>3, <4>1, <1>10, <1>11 DEF EarlyIsAwaited
    <3>4. CASE b = "rejected"
      <4>1. \A p \in early : OverWith(p)'
        BY <2>2, <3>4, <1>9, <1>10, <1>11 DEF EarlyIsAwaited, Backup
      <4> QED
        BY <3>1, <3>2, <4>1 DEF EarlyIsAwaited
    <3> QED
      BY <3>3, <3>4 DEF Backup
  <2> QED
    BY <2>1, <2>2, <1>2
<1> QED
  BY <1>6, <1>7, <1>8, <1>12

\* The shutdown of a server: it is closed at once, and returns when its handlers have.
LEMMA ShutdownKeepsIInv ==
  ASSUME IInv, NEW s \in Server, Shutdown(s) \/ ShutdownReturns(s) \/ ShutdownFails(s)
  PROVE  IInv'
<1> USE DEF IInv
<1>1. main = "stopping" /\ UNCHANGED <<conf, main, flush, early, requests>>
  BY DEF Shutdown, ShutdownReturns, ShutdownFails
<1>2. Build' = Build /\ \A t \in Server : Active(t)' = Active(t)
  BY <1>1 DEF Build, Active, requests
<1>3. TypeOK'
  BY <1>1 DEF TypeOK, requests, Shutdown, ShutdownReturns, ShutdownFails
<1>4. \A t \in Server : t # s => srv'[t] = srv[t] /\ shut'[t] = shut[t]
  BY DEF TypeOK, Shutdown, ShutdownReturns, ShutdownFails
<1>5. /\ srv'[s] = "absent" <=> srv[s] = "absent"
      /\ shut'[s] \in {"waiting", "ok"} => srv'[s] = "closed"
      /\ shut'[s] = "ok" => ~Active(s)
  BY DEF TypeOK, Shutdown, ShutdownReturns, ShutdownFails, ShutdownIsTrue
<1>6. ShutdownIsTrue'
  <2>1. \A t \in Server : /\ srv'[t] = "absent" <=> t \notin Build'
                          /\ shut'[t] \in {"waiting", "ok"} => srv'[t] = "closed"
                          /\ shut'[t] = "ok" => ~Active(t)'
    BY <1>2, <1>4, <1>5 DEF ShutdownIsTrue
  <2>2. \A r \in Request : Open(r)' => on'[r] \in Build'
    BY <1>1, <1>2 DEF ShutdownIsTrue, Open, requests
  <2> QED
    BY <1>1, <2>1, <2>2 DEF ShutdownIsTrue
<1>7. EarlyIsAwaited' /\ SaversStartOnce'
  BY <1>1 DEF EarlyIsAwaited, SaversStartOnce, OverWith, requests
<1> QED
  BY <1>3, <1>6, <1>7

\* Flush: it goes past a batcher only if nothing is batched there.
LEMMA FlushKeepsIInv ==
  ASSUME IInv, FlushArchive \/ FlushRejected
  PROVE  IInv'
<1> USE DEF IInv
<1>1. main = "stopping" /\ UNCHANGED <<servers, main, early, requests>>
  BY DEF FlushArchive, FlushRejected
<1>2. flush' \in {"archive", "next", "rejected", "done"}
  BY DEF FlushArchive, FlushRejected
<1>3. TypeOK'
  BY <1>1, <1>2 DEF TypeOK, requests, servers
<1>4. ShutdownIsTrue' /\ SaversStartOnce'
  BY <1>1 DEF ShutdownIsTrue, SaversStartOnce, Build, Active, Open, servers, requests
<1>5. \A p \in early : p[1] \in Request /\ p[2] \in Backup /\ p = <<p[1], p[2]>>
  BY DEF TypeOK
<1>6. \A p \in early : OverWith(p)' = OverWith(p) /\ saver'[p[1]][p[2]] = saver[p[1]][p[2]]
  BY <1>1 DEF OverWith, requests
<1>7. \A p \in early : saver[p[1]][p[2]] = "batched" => p \in Batched(p[2])
  BY <1>5 DEF Batched
<1>8. CASE FlushArchive
  <2>1. flush' = "archive" \/ (flush' = "next" /\ Batched("archive") = {})
    BY <1>8 DEF FlushArchive
  <2>2. flush' = "next" => \A p \in early : p[2] = "archive" => OverWith(p)
    BY <2>1, <1>7 DEF EarlyIsAwaited
  <2>3. /\ main' = "stopping" /\ early' = early
        /\ flush' \in {"archive", "next"}
    BY <2>1, <1>1
  <2>4. \A p \in early : OverWith(p)' \/ saver'[p[1]][p[2]] = "batched"
    BY <1>6 DEF EarlyIsAwaited
  <2>5. \A p \in early : flush' = "next" /\ p[2] = "archive" => OverWith(p)'
    BY <2>2, <1>6
  <2>6. EarlyIsAwaited'
    BY <2>3, <2>4, <2>5 DEF EarlyIsAwaited
  <2> QED
    BY <2>6, <1>3, <1>4
<1>9. CASE FlushRejected
  <2>1. flush = "next" /\ (flush' = "rejected" \/ (flush' = "done" /\ Batched("rejected") = {}))
    BY <1>9 DEF FlushRejected
  <2>2. \A p \in early : p[2] = "archive" => OverWith(p)
    BY <2>1 DEF EarlyIsAwaited
  <2>3. flush' = "done" => \A p \in early : OverWith(p)
    BY <2>1, <2>2, <1>5, <1>7 DEF EarlyIsAwaited, Backup
  <2>4. main' = "stopping" /\ early' = early
    BY <1>1
  <2>5. \A p \in early : OverWith(p)' \/ saver'[p[1]][p[2]] = "batched"
    BY <1>6 DEF EarlyIsAwaited
  <2>6. \A p \in early : /\ p[2] = "archive" => OverWith(p)'
                         /\ flush' = "done" => OverWith(p)'
    BY <2>2, <2>3, <1>6
  <2>7. EarlyIsAwaited'
    BY <2>4, <2>5, <2>6 DEF EarlyIsAwaited
  <2> QED
    BY <2>7, <1>3, <1>4
<1> QED
  BY <1>8, <1>9

\* Steps that change only where main is, the context, and what was batched early.
LEMMA MainKeepsIInv ==
  ASSUME IInv, Signal \/ Crash \/ Deadline \/ End \/ UNCHANGED vars
  PROVE  IInv'
<1> USE DEF IInv
<1>1. UNCHANGED <<conf, srv, shut, flush, requests>>
  BY DEF Signal, Crash, Deadline, End, vars, servers, requests
<1>2. TypeOK' /\ SaversStartOnce'
  <2>1. early' \subseteq Request \X Backup
    BY DEF TypeOK, Signal, Crash, Deadline, End, Batched, Backup, vars
  <2>2. main' \in {"serving", "stopping", "ended", "failed", "crashed"} /\ ctxDone' \in BOOLEAN
    BY DEF TypeOK, Signal, Crash, Deadline, End, vars, servers
  <2> QED
    BY <1>1, <2>1, <2>2 DEF TypeOK, SaversStartOnce, requests
<1>3. ShutdownIsTrue'
  <2>1. main' = "ended" => \A s \in Build : shut[s] = "ok"
    BY DEF ShutdownIsTrue, Signal, Crash, Deadline, End, vars
  <2> QED
    BY <1>1, <2>1 DEF ShutdownIsTrue, Build, Active, Open, requests
<1>4. EarlyIsAwaited'
  <2>1. CASE Signal
    <3>1. /\ main = "serving" /\ main' = "stopping" /\ flush' = "idle"
          /\ early' = Batched("archive") \cup Batched("rejected") /\ saver' = saver
      BY <2>1, <1>1 DEF Signal, EarlyIsAwaited, requests
    <3>2. \A p \in early' : saver[p[1]][p[2]] = "batched"
      BY <3>1 DEF Batched
    <3> QED
      BY <3>1, <3>2 DEF EarlyIsAwaited
  <2>2. CASE Crash \/ Deadline \/ UNCHANGED vars
    BY <2>2, <1>1 DEF EarlyIsAwaited, OverWith, Crash, Deadline, requests, vars
  <2>3. CASE End
    BY <2>3, <1>1 DEF EarlyIsAwaited, OverWith, End, requests
  <2> QED
    BY <2>1, <2>2, <2>3
<1> QED
  BY <1>2, <1>3, <1>4

\* Every state the process reaches satisfies the inductive invariant, the types of
\* its variables included.
THEOREM Inductive == Spec => []IInv
<1>1. Init => IInv
  BY InitIInv
<1>2. IInv /\ [Next]_vars => IInv'
  <2> SUFFICES ASSUME IInv, [Next]_vars PROVE IInv'
    OBVIOUS
  <2>1. CASE Handlers
    BY <2>1, HandlersKeepIInv
  <2>2. CASE Goroutines
    BY <2>2, ServeKeepsIInv, ProcessKeepsIInv, SaverKeepsIInv DEF Goroutines
  <2>3. CASE StopServers
    BY <2>3, ShutdownKeepsIInv, FlushKeepsIInv, MainKeepsIInv DEF StopServers
  <2>4. CASE Crash \/ Signal \/ UNCHANGED vars
    BY <2>4, MainKeepsIInv
  <2> QED
    BY <2>1, <2>2, <2>3, <2>4 DEF Next, Ended
<1> QED
  BY <1>1, <1>2, PTL DEF Spec

\* An exit without an error cuts no request off between its acceptance and its two
\* SaveAsync calls, and leaves no server that could accept another (main.go,
\* stopServers).
THEOREM ExitCutsNothing == Spec => []ProperExitCutsNothing
<1>1. IInv => ProperExitCutsNothing
  <2> SUFFICES ASSUME IInv, main = "ended"
               PROVE  /\ \A r \in Request : handler[r] \notin {"accepted", "submitted"}
                      /\ \A s \in Server : srv[s] \in {"absent", "closed"}
    BY DEF ProperExitCutsNothing
  <2>1. \A s \in Server : srv[s] = "absent" \/ shut[s] = "ok"
    BY DEF IInv, ShutdownIsTrue
  <2>2. \A s \in Build : s \in Server /\ ~Active(s)
    BY DEF IInv, ShutdownIsTrue, Build, Server
  <2> QED
    BY <2>1, <2>2 DEF IInv, ShutdownIsTrue, Active, Open
<1> QED
  BY <1>1, Inductive, PTL

\* The batchers are over with what had reached them by the signal when main returns,
\* with or without an error (main.go, stopServers; backup/service.go, Flush).
THEOREM BatchedIsProcessed == Spec => []BatchedBySignalIsProcessed
<1>1. IInv => BatchedBySignalIsProcessed
  BY DEF IInv, EarlyIsAwaited, OverWith, BatchedBySignalIsProcessed
<1> QED
  BY <1>1, Inductive, PTL
=============================================================================
