------------------------------- MODULE Pipeline -------------------------------
(***************************************************************************)
(* A beacon's way through the program, composed of its parts: the catcher  *)
(* (server/handlers.go) answers and hands the event to the service and to  *)
(* the archive backup; the processing goroutine (Service.tla) makes a      *)
(* RumEvent of it (beacon/beacon.go), asks the subscriptions, enabled or   *)
(* disabled, and stores it or hands it to another backup; each backup      *)
(* writes batches (FileBackup.tla, of which only their outcome is kept).   *)
(*                                                                         *)
(* Both beacon.go and backup.go log the error of url.Parse and go on with  *)
(* its nil result: a page that does not parse ends the process, in the     *)
(* processing goroutine or in the goroutine of a batch, and everything in  *)
(* memory with it.  The process is then started again.                     *)
(*                                                                         *)
(* Every step is a step of Service or leaves its variables alone.          *)
(***************************************************************************)
EXTENDS Service, FiniteSets

CONSTANTS Parses,          \* the events whose page url.Parse accepts
          WellFormed,      \* the events whose form ParseForm accepts
          Id,              \* subscription identifiers, the empty one included
          NoId,            \* the empty one
          SubscriptionOf,  \* the parameter subscription_id of each event
          Registered,      \* the owner table: identifiers and their hostnames
          MaxStops         \* bound: how often the process ends other than by a page

ASSUME PipelineAssumption ==
  /\ Parses \subseteq Event /\ WellFormed \subseteq Event
  /\ None \notin Hostname
  /\ NoId \in Id /\ SubscriptionOf \in [Event -> Id]
  /\ Registered \subseteq (Id \ {NoId}) \X Hostname
  /\ MaxStops \in Nat

VARIABLES
  conf,       \* whether subscriptions and backups are enabled
  handler,    \* of each request: none, accepted, submitted, done, refused, cut
  rum,        \* the RumEvent made of the current event
  collected,  \* per backup: events in its savers, its batcher and its batches
  written,    \* per backup: events with a line in a file
  unwritten,  \* per backup: events whose line could not be written
  dropped,    \* history: per backup, what was collected when the process ended
  stops

pipeVars == <<conf, handler, rum, collected, written, unwritten, dropped, stops>>
backups == <<collected, written, unwritten, dropped>>
allVars == <<vars, pipeVars>>

Backup == {"archive", "expired", "unknown"}
NoFiles == [b \in Backup |-> {}]
NoRum == [host |-> None, id |-> NoId]

PipeInit == /\ Init
            /\ conf \in [subscriptions : BOOLEAN, backup : BOOLEAN]
            /\ handler = [e \in Event |-> "none"] /\ rum = NoRum
            /\ collected = NoFiles /\ written = NoFiles /\ unwritten = NoFiles
            /\ dropped = NoFiles /\ stops = 0

(***************************************************************************)
(* The POST catcher: 204, then the event of the form, then two SaveAsync.  *)
(***************************************************************************)
SetHandler(e, h) == handler' = [handler EXCEPT ![e] = h]

NewEventFromRequest(e) ==
  /\ handler[e] = "none"
  /\ SetHandler(e, IF e \in WellFormed THEN "accepted" ELSE "refused")
  /\ UNCHANGED <<vars, conf, rum, backups, stops>>

Submit(e) ==
  /\ handler[e] = "accepted"
  /\ SaveAsync(e)
  /\ SetHandler(e, "submitted")
  /\ UNCHANGED <<conf, rum, backups, stops>>

CollectUnlessRejecting(b, e) ==
  collected' = IF conf.backup /\ ~conf.subscriptions
               THEN [collected EXCEPT ![b] = @ \cup {e}] ELSE collected

\* With backups disabled, NullBackup does nothing.
Collect(b, e) ==
  collected' = IF conf.backup THEN [collected EXCEPT ![b] = @ \cup {e}] ELSE collected

Archive(e) ==
  /\ handler[e] = "submitted"
  /\ Collect("archive", e)
  /\ SetHandler(e, "done")
  /\ UNCHANGED <<vars, conf, rum, written, unwritten, dropped, stops>>

(***************************************************************************)
(* The end of the process, and of what it has in memory.                   *)
(***************************************************************************)
End ==
  /\ Exit
  /\ handler' = [e \in Event |-> IF handler[e] \in {"accepted", "submitted"} THEN "cut"
                                 ELSE handler[e]]
  /\ rum' = NoRum
  /\ dropped' = [b \in Backup |-> dropped[b] \cup collected[b]]
  /\ collected' = NoFiles
  /\ UNCHANGED <<conf, written, unwritten>>

\* A signal or a kill.
Stop == /\ stops < MaxStops
        /\ stops' = stops + 1
        /\ End

(***************************************************************************)
(* Run and processEvent.                                                   *)
(***************************************************************************)
Take == /\ \/ \E e \in Event : Receive(e)
           \/ ReceiveTick \/ ClearHosts
           \/ \E h \in Hostname : SaveHost(h)
        /\ UNCHANGED pipeVars

\* ConvertToRumEvent fills some of the fields; SubscriptionID is not among them.
ConvertToRumEvent(e) == [host |-> HostnameOf[e], id |-> NoId]

CreateOfAnyPage ==
  /\ pc = "lookup" /\ rum = NoRum
  /\ rum' = ConvertToRumEvent(current)
  /\ UNCHANGED <<vars, conf, handler, backups, stops>>

Create ==
  /\ pc = "lookup" /\ rum = NoRum /\ current \in Parses
  /\ rum' = ConvertToRumEvent(current)
  /\ UNCHANGED <<vars, conf, handler, backups, stops>>

\* urlValue.Hostname() of a nil urlValue
CreatePanics ==
  /\ pc = "lookup" /\ rum = NoRum /\ current \notin Parses
  /\ End
  /\ UNCHANGED stops

\* What the subscription service answers, the error aside: the disabled one
\* finds everything; the caching one compares the row of the identifier.
Lookups(r) ==
  IF ~conf.subscriptions THEN {"found"}
  ELSE {l \in Lookup : \/ l = "expired" /\ \E row \in Registered : row[1] = r.id
                       \/ l = "found" /\ <<r.id, r.host>> \in Registered
                       \/ l = "notFound" /\ <<r.id, r.host>> \notin Registered}

LookUp ==
  /\ rum # NoRum
  /\ GetSubscription
  /\ IF pc' = "dispatch" THEN lookup' \in Lookups(rum) /\ UNCHANGED rum
                         ELSE conf.subscriptions /\ rum' = NoRum
  /\ UNCHANGED <<conf, handler, backups, stops>>

StoreRumEvent ==
  /\ ProcessRumEvent
  /\ rum' = NoRum
  /\ UNCHANGED <<conf, handler, backups, stops>>

RejectIntoArchive ==
  /\ SaveInBackup
  /\ Collect("archive", current)
  /\ rum' = NoRum
  /\ UNCHANGED <<conf, handler, written, unwritten, dropped, stops>>

\* SaveExpired and SaveUnknown
Reject ==
  /\ SaveInBackup
  /\ Collect(SinkOf(lookup), current)
  /\ rum' = NoRum
  /\ UNCHANGED <<conf, handler, written, unwritten, dropped, stops>>

(***************************************************************************)
(* do: the lines of a batch are made first, then written, a file for each  *)
(* host, which may fail.                                                   *)
(***************************************************************************)
WriteBatch(b, B) ==
  /\ B # {} /\ B \subseteq collected[b] /\ B \subseteq Parses
  /\ \E W \in SUBSET B : /\ written' = [written EXCEPT ![b] = @ \cup W]
                          /\ unwritten' = [unwritten EXCEPT ![b] = @ \cup (B \ W)]
  /\ collected' = [collected EXCEPT ![b] = @ \ B]
  /\ UNCHANGED <<vars, conf, handler, rum, dropped, stops>>

\* makeKeyHostname, for any event of the batch
BatchPanics(b) ==
  /\ collected[b] \ Parses # {}
  /\ End
  /\ UNCHANGED stops

TickPasses == Tick /\ UNCHANGED pipeVars

TableFlushed == FlushHosts /\ UNCHANGED pipeVars

PipeNext == \/ \E e \in Event : NewEventFromRequest(e) \/ Submit(e) \/ Archive(e)
            \/ TickPasses \/ TableFlushed \/ Take
            \/ Create \/ CreatePanics \/ LookUp \/ StoreRumEvent \/ Reject
            \/ \E b \in Backup : BatchPanics(b) \/ \E B \in SUBSET collected[b] : WriteBatch(b, B)
            \/ Stop

PipeSpec == PipeInit /\ [][PipeNext]_allVars

(***************************************************************************)
(* A handler that began goes on, the processing goroutine is served as in  *)
(* Service, and the batcher's timer closes each batch.                     *)
(***************************************************************************)
PipeFairness ==
  /\ \A e \in Event : WF_allVars(Submit(e)) /\ WF_allVars(Archive(e))
  /\ \A e \in Event : SF_allVars(Receive(e) /\ UNCHANGED pipeVars)
  /\ WF_allVars(ClearHosts /\ UNCHANGED pipeVars)
  /\ \A h \in Hostname : WF_allVars(SaveHost(h) /\ UNCHANGED pipeVars)
  /\ WF_allVars(Create) /\ WF_allVars(CreatePanics) /\ WF_allVars(LookUp)
  /\ WF_allVars(StoreRumEvent) /\ WF_allVars(Reject)
  /\ \A b \in Backup, e \in Event :
       WF_allVars(\/ e \in collected[b] /\ BatchPanics(b)
                  \/ \E B \in SUBSET collected[b] : e \in B /\ WriteBatch(b, B))

FairPipeSpec == PipeSpec /\ PipeFairness

(***************************************************************************)
(* Properties.                                                             *)
(***************************************************************************)
\* Every variable has the type its declaration says.
PipeTypeOK ==
  /\ TypeOK
  /\ conf \in [subscriptions : BOOLEAN, backup : BOOLEAN]
  /\ handler \in [Event -> {"none", "accepted", "submitted", "done", "refused", "cut"}]
  /\ rum \in [host : Hostname \cup {None}, id : Id]
  /\ collected \in [Backup -> SUBSET Event] /\ written \in [Backup -> SUBSET Event]
  /\ unwritten \in [Backup -> SUBSET Event] /\ dropped \in [Backup -> SUBSET Event]
  /\ stops \in Nat

\* A beacon whose page does not parse gets nowhere: no row, no line and not even a
\* failed attempt, whichever goroutine meets it first and however often the
\* process is started again.
BadPageGetsNowhere ==
  \A e \in Event \ Parses :
    /\ failed[e] = "no" /\ \A s \in Sink : delivered[e][s] = 0
    /\ \A b \in Backup : e \notin written[b] \cup unwritten[b]

\* What makes it inductive: the goroutine is past Create only with a page that parses.
PastCreate ==
  /\ pc = "dispatch" => current \in Parses
  /\ rum # NoRum => current \in Parses /\ pc \in {"lookup", "dispatch"}

PipeIInv == PipeTypeOK /\ PastCreate /\ BadPageGetsNowhere

\* Wherever an event may be of those a backup was given.
Kept(b) == collected[b] \cup written[b] \cup unwritten[b] \cup dropped[b]

\* What it is given: the archive the event of each handler that finished, the others
\* what the subscriptions rejected into them.
IsGiven(b, e) ==
  conf.backup /\ IF b = "archive" THEN handler[e] = "done" ELSE delivered[e][b] > 0

InOnePlace(b, e) ==
  /\ e \in collected[b] => e \notin written[b] \cup unwritten[b] \cup dropped[b]
  /\ e \in dropped[b] => e \notin written[b] \cup unwritten[b]
  /\ e \in written[b] => e \notin unwritten[b]

\* Each backup keeps what it was given and nothing else, every event in one place.
KeptAsGiven ==
  \A b \in Backup, e \in Event : (e \in Kept(b) <=> IsGiven(b, e)) /\ InOnePlace(b, e)

\* The backups of the program do what Backing promises, as FileBackup's do; where a
\* bad page ends the process, it drops them.
Promise == INSTANCE Backing

PipelineImplementsBacking == Promise!Spec

AccountedIn(b, e) == e \in written[b] \cup unwritten[b] \cup dropped[b]

\* Whatever a backup was given has its line in the end, unless writing failed or the
\* process ended with it in memory; and the archive is given every beacon that the
\* service was, unless the process ended in between.
BackedUpInTheEnd ==
  /\ \A b \in Backup, e \in Event : IsGiven(b, e) ~> AccountedIn(b, e)
  /\ \A e \in Event : handler[e] = "submitted" ~> handler[e] \in {"done", "cut"}

\* README.md:58: subscription_id and hostname are validated in the table.  A
\* beacon that names the registered subscription of its page's host is not unknown.
RegisteredIsNotUnknown ==
  \A e \in Event :
    <<SubscriptionOf[e], HostnameOf[e]>> \in Registered => delivered[e]["unknown"] = 0
=============================================================================
