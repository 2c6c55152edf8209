------------------------------- MODULE Service -------------------------------
(***************************************************************************)
(* The processing service (service/service.go): HTTP handlers hand events  *)
(* to SaveAsync, whose goroutines block on an unbuffered channel; one      *)
(* goroutine runs Run, which takes an event or a minute tick at a time,    *)
(* looks the subscription up, stores the event or hands it to a backup,    *)
(* and remembers the hostnames it saw until the next tick writes them to   *)
(* the hostnames table.  The subscription service and the database answer  *)
(* anything their interfaces allow.  The process may end at any moment     *)
(* (main returns without draining, or it is killed) and be started again:  *)
(* memory is lost, the database stays.                                     *)
(*                                                                         *)
(* A SaveHost that returns nil has handed its row over, no more: that of   *)
(* ClickHouse (clickhouse.go:351) is an asynchronous insert which does not *)
(* wait, so the server parses and stores the row later, or drops it, and   *)
(* tells nobody.                                                           *)
(*                                                                         *)
(* processEvent's guard on a nil event has no action: the only caller of   *)
(* SaveAsync, the beacon catcher, returns before it when there is none.    *)
(***************************************************************************)
EXTENDS Naturals

CONSTANTS Event,        \* the events handlers submit, each once
          Hostname,
          Time,         \* the values of created_at
          HostnameOf,   \* RumEvent.Hostname of each event
          CreatedAt,    \* RumEvent.Created_At of each event
          None,         \* no event, no entry in the map
          MaxExits      \* bound: how often the process ends

ASSUME ServiceAssumption ==
  /\ HostnameOf \in [Event -> Hostname]
  /\ CreatedAt \in [Event -> Time]
  /\ None \notin Event \cup Time
  /\ MaxExits \in Nat

VARIABLES
  \* memory of the process
  senders,    \* events whose SaveAsync goroutine is blocked on the channel
  ticked,     \* updateHostTicker.C, a channel of capacity one, holds a tick
  pc,         \* where the goroutine of Run is
  current,    \* the event processEvent works on
  lookup,     \* what GetSubscription returned for it
  hosts,      \* the map from hostname to created_at
  todo,       \* the hostnames the loop of processHosts has not visited
  \* the database and the backups
  delivered,  \* how often each event reached each sink
  queued,     \* rows SaveHost returned nil for, in the server's buffer:
              \* pairs of hostname and created_at
  hostRows,   \* the rows of the hostnames table
  \* history
  submitted,  \* events given to SaveAsync
  failed,     \* how a processed event that reached no sink failed
  lost,       \* events that were in memory when the process ended
  missed,     \* hostnames forgotten: SaveHost failed, or the process ended
  discarded,  \* rows that the server had accepted and dropped
  exits

vars == <<senders, ticked, pc, current, lookup, hosts, todo, delivered,
          queued, hostRows, submitted, failed, lost, missed, discarded, exits>>

runVars == <<pc, current, lookup, todo>>
table == <<queued, hostRows, discarded>>
history == <<submitted, failed, lost, missed, exits>>

Sink == {"database", "expired", "unknown"}
Lookup == {"found", "expired", "notFound"}
Failure == {"no", "lookup", "save"}
NoHosts == [h \in Hostname |-> None]
Known(map) == {h \in Hostname : map[h] # None}

Init == /\ senders = {} /\ ticked = FALSE
        /\ pc = "select" /\ current = None /\ lookup = "notFound"
        /\ hosts = NoHosts /\ todo = {}
        /\ delivered = [e \in Event |-> [s \in Sink |-> 0]]
        /\ queued = {} /\ hostRows = {} /\ discarded = {}
        /\ submitted = {} /\ failed = [e \in Event |-> "no"]
        /\ lost = {} /\ missed = {} /\ exits = 0

(***************************************************************************)
(* Handlers and the clock.                                                 *)
(***************************************************************************)
SaveAsync(e) ==
  /\ e \notin submitted
  /\ submitted' = submitted \cup {e}
  /\ senders' = senders \cup {e}
  /\ UNCHANGED <<ticked, runVars, hosts, delivered, table, failed, lost, missed, exits>>

\* A tick that finds the channel full is dropped.
Tick ==
  /\ ~ticked
  /\ ticked' = TRUE
  /\ UNCHANGED <<senders, runVars, hosts, delivered, table, history>>

(***************************************************************************)
(* Run: the two cases of the select.                                       *)
(***************************************************************************)
ReceiveKeepsSender(e) ==
  /\ pc = "select" /\ e \in senders
  /\ pc' = "lookup" /\ current' = e
  /\ UNCHANGED <<senders, ticked, lookup, hosts, todo, delivered, table, history>>

Receive(e) ==
  /\ pc = "select" /\ e \in senders
  /\ senders' = senders \ {e}
  /\ pc' = "lookup" /\ current' = e
  /\ UNCHANGED <<ticked, lookup, hosts, todo, delivered, table, history>>

ReceiveTick ==
  /\ pc = "select" /\ ticked
  /\ ticked' = FALSE
  /\ pc' = "ranging" /\ todo' = Known(hosts)
  /\ UNCHANGED <<senders, current, lookup, hosts, delivered, table, history>>

(***************************************************************************)
(* processEvent: the subscription's answer, then the switch on it.         *)
(***************************************************************************)
GetSubscriptionStops ==
  /\ pc = "lookup"
  /\ \/ /\ lookup' \in Lookup /\ pc' = "dispatch"
        /\ UNCHANGED <<current, failed>>
     \/ /\ failed' = [failed EXCEPT ![current] = "lookup"]
        /\ pc' = "stopped" /\ current' = None
        /\ UNCHANGED lookup
  /\ UNCHANGED <<senders, ticked, hosts, todo, delivered, table,
                 submitted, lost, missed, exits>>

GetSubscriptionUnlogged ==
  /\ pc = "lookup"
  /\ \/ /\ lookup' \in Lookup /\ pc' = "dispatch"
        /\ UNCHANGED current
     \/ /\ pc' = "select" /\ current' = None
        /\ UNCHANGED lookup
  /\ UNCHANGED <<senders, ticked, hosts, todo, delivered, table, history>>

GetSubscription ==
  /\ pc = "lookup"
  /\ \/ /\ lookup' \in Lookup /\ pc' = "dispatch"
        /\ UNCHANGED <<current, failed>>
     \/ /\ failed' = [failed EXCEPT ![current] = "lookup"]
        /\ pc' = "select" /\ current' = None
        /\ UNCHANGED lookup
  /\ UNCHANGED <<senders, ticked, hosts, todo, delivered, table,
                 submitted, lost, missed, exits>>

Deliver(s) == delivered' = [delivered EXCEPT ![current][s] = @ + 1]

RememberNothing == UNCHANGED hosts

Remember == hosts' = [hosts EXCEPT ![HostnameOf[current]] = CreatedAt[current]]

ProcessRumEventFallsThrough ==
  /\ pc = "dispatch" /\ lookup = "found"
  /\ Remember
  /\ \/ /\ Deliver("database") /\ UNCHANGED <<failed, lookup>>
        /\ pc' = "select" /\ current' = None
     \/ /\ failed' = [failed EXCEPT ![current] = "save"] /\ lookup' = "notFound"
        /\ UNCHANGED <<delivered, pc, current>>
  /\ UNCHANGED <<senders, ticked, todo, table, submitted, lost, missed, exits>>

\* processRumEvent: a failed Save is logged, and the hostname is remembered all
\* the same.
ProcessRumEvent ==
  /\ pc = "dispatch" /\ lookup = "found"
  /\ \/ Deliver("database") /\ UNCHANGED failed
     \/ failed' = [failed EXCEPT ![current] = "save"] /\ UNCHANGED delivered
  /\ Remember
  /\ pc' = "select" /\ current' = None
  /\ UNCHANGED <<senders, ticked, lookup, todo, table, submitted, lost, missed, exits>>

SinkOf(l) == IF l = "expired" THEN "expired" ELSE "unknown"

SaveInBackupRemembers ==
  /\ pc = "dispatch" /\ lookup # "found"
  /\ Deliver(SinkOf(lookup)) /\ Remember
  /\ pc' = "select" /\ current' = None
  /\ UNCHANGED <<senders, ticked, lookup, todo, table, history>>

SaveInBackup ==
  /\ pc = "dispatch" /\ lookup # "found"
  /\ Deliver(SinkOf(lookup))
  /\ pc' = "select" /\ current' = None
  /\ UNCHANGED <<senders, ticked, lookup, hosts, todo, table, history>>

(***************************************************************************)
(* processHosts: one SaveHost for each entry, then a new map.              *)
(***************************************************************************)
SaveHost(h) ==
  /\ pc = "ranging" /\ h \in todo
  /\ todo' = todo \ {h}
  /\ \/ queued' = queued \cup {<<h, hosts[h]>>} /\ UNCHANGED missed
     \/ missed' = missed \cup {h} /\ UNCHANGED queued
  /\ UNCHANGED <<senders, ticked, pc, current, lookup, hosts, delivered,
                 hostRows, submitted, failed, lost, discarded, exits>>

ClearHostsEarly ==
  /\ pc = "ranging"
  /\ hosts' = NoHosts /\ todo' = {} /\ pc' = "select"
  /\ UNCHANGED <<senders, ticked, current, lookup, delivered, table, history>>

ClearHosts ==
  /\ pc = "ranging" /\ todo = {}
  /\ hosts' = NoHosts /\ pc' = "select"
  /\ UNCHANGED <<senders, ticked, current, lookup, todo, delivered, table, history>>

(***************************************************************************)
(* The server flushes its buffer of asynchronous inserts.  A row that does *)
(* not parse (created_at is the client's text) or whose flush fails is     *)
(* dropped.  A database that stores before it answers flushes at once.     *)
(***************************************************************************)
FlushHosts ==
  /\ queued # {}
  /\ \E stored \in SUBSET queued :
       /\ hostRows' = hostRows \cup stored
       /\ discarded' = discarded \cup (queued \ stored)
  /\ queued' = {}
  /\ UNCHANGED <<senders, ticked, runVars, hosts, delivered, history>>

(***************************************************************************)
(* The process ends: main returns after stopServers, or it is killed.      *)
(* Nothing waits for the senders or writes the remembered hostnames.       *)
(***************************************************************************)
Exit ==
  /\ exits < MaxExits
  /\ exits' = exits + 1
  /\ lost' = lost \cup senders \cup ({current} \ {None})
  /\ missed' = missed \cup Known(hosts)
  /\ senders' = {} /\ ticked' = FALSE
  /\ pc' = "select" /\ current' = None /\ lookup' = "notFound"
  /\ hosts' = NoHosts /\ todo' = {}
  /\ UNCHANGED <<delivered, table, submitted, failed>>

Run == \/ \E e \in Event : Receive(e)
       \/ ReceiveTick \/ GetSubscription \/ ProcessRumEvent \/ SaveInBackup
       \/ \E h \in Hostname : SaveHost(h)
       \/ ClearHosts

Next == \/ \E e \in Event : SaveAsync(e)
        \/ Tick \/ Run \/ FlushHosts \/ Exit

Spec == Init /\ [][Next]_vars

(***************************************************************************)
(* The scheduler runs a runnable goroutine, calls return, the ticker       *)
(* ticks, the database flushes its buffer.  select picks uniformly among   *)
(* the ready cases and the channel serves its senders in order, so a case  *)
(* that is ready at infinitely many selects is taken: strong fairness.     *)
(***************************************************************************)
Fairness == /\ WF_vars(Tick)
            /\ \A e \in Event : SF_vars(Receive(e))
            /\ SF_vars(ReceiveTick)
            /\ WF_vars(GetSubscription) /\ WF_vars(ProcessRumEvent)
            /\ WF_vars(SaveInBackup) /\ WF_vars(ClearHosts)
            /\ \A h \in Hostname : WF_vars(SaveHost(h))
            /\ WF_vars(FlushHosts)

FairSpec == Spec /\ Fairness

(***************************************************************************)
(* Properties.                                                             *)
(***************************************************************************)
\* Every variable has the type its declaration says.
TypeOK ==
  /\ senders \subseteq Event /\ ticked \in BOOLEAN
  /\ pc \in {"select", "lookup", "dispatch", "ranging"}
  /\ current \in Event \cup {None} /\ lookup \in Lookup
  /\ hosts \in [Hostname -> Time \cup {None}] /\ todo \subseteq Hostname
  /\ delivered \in [Event -> [Sink -> Nat]]
  /\ queued \subseteq Hostname \X Time /\ hostRows \subseteq Hostname \X Time
  /\ discarded \subseteq Hostname \X Time
  /\ submitted \subseteq Event /\ failed \in [Event -> Failure]
  /\ lost \subseteq Event /\ missed \subseteq Hostname /\ exits \in Nat

ProcessedAsFound(e) == delivered[e]["database"] > 0 \/ failed[e] = "save"

Deliveries(e) == delivered[e]["database"] + delivered[e]["expired"] + delivered[e]["unknown"]

\* An event reaches at most one of the database, the expired and the unknown
\* backup, once, and an event whose processing failed or that was lost reaches
\* none: a switch that falls through, or a sender served twice, breaks it.
DeliveredOnce ==
  \A e \in Event : /\ Deliveries(e) <= 1
                   /\ failed[e] # "no" \/ e \in lost => Deliveries(e) = 0

\* The rows for which SaveHost returned nil, whatever the server did with them.
Accepted == queued \cup hostRows \cup discarded

\* The program never forgets the hostname of an event processed as found unless
\* it knows: the hostname is still in the map, or the database accepted a row
\* of it, or SaveHost failed for it or the process ended with it in memory.
\* (The database may drop what it has accepted, and tells nobody.)
HostnameAccounted ==
  \A e \in Event : ProcessedAsFound(e) =>
    \/ HostnameOf[e] \in Known(hosts) \cup missed
    \/ \E row \in Accepted : row[1] = HostnameOf[e]

\* A row that the database was given, hence a row of the hostnames table, carries
\* the hostname and the created_at of one and the same processed event.
RowsOfProcessedEvents ==
  \A row \in Accepted : \E e \in Event :
    ProcessedAsFound(e) /\ row = <<HostnameOf[e], CreatedAt[e]>>

Pristine(e) == Deliveries(e) = 0 /\ failed[e] = "no" /\ e \notin lost

\* No submitted event vanishes: it waits on the channel, is being processed, or
\* has a fate.
NoEventVanishes ==
  \A e \in submitted : Pristine(e) => e \in senders \/ e = current

\* What makes DeliveredOnce inductive: an event that was not submitted, waits on
\* the channel or is being processed has no fate yet, and Run works on one
\* event, which has left the channel.
InFlightPristine ==
  /\ senders \subseteq submitted
  /\ current # None => current \in submitted \ senders
  /\ pc \in {"lookup", "dispatch"} <=> current # None
  /\ \A e \in Event : e \notin submitted \/ e \in senders \/ e = current => Pristine(e)

\* What makes HostnameAccounted and RowsOfProcessedEvents inductive: an entry of
\* the map comes from a processed event, and the entries the loop of
\* processHosts has visited are handed over or missed.
HostsInvariant ==
  /\ \A h \in Known(hosts) : \E e \in Event :
       ProcessedAsFound(e) /\ h = HostnameOf[e] /\ hosts[h] = CreatedAt[e]
  /\ todo \subseteq Known(hosts)
  /\ pc = "ranging" => \A h \in Known(hosts) \ todo :
       h \in missed \/ \E row \in Accepted : row[1] = h

IInv == /\ TypeOK /\ InFlightPristine /\ HostsInvariant
        /\ DeliveredOnce /\ NoEventVanishes
        /\ HostnameAccounted /\ RowsOfProcessedEvents

Outcome(e) ==
  IF e \notin submitted THEN "new"
  ELSE IF delivered[e]["database"] > 0 THEN "stored"
  ELSE IF delivered[e]["expired"] > 0 THEN "expired"
  ELSE IF delivered[e]["unknown"] > 0 THEN "unknown"
  ELSE IF failed[e] = "lookup" THEN "lookupFailed"
  ELSE IF failed[e] = "save" THEN "unsaved"
  ELSE IF e \in lost THEN "lost" ELSE "waiting"

D == INSTANCE Disposal WITH outcome <- [e \in Event |-> Outcome(e)],
                            listed <- {row[1] : row \in hostRows}

\* The service implements the promise about events: one final outcome each,
\* never changed, and no hostname listed before an event of it was processed.
ImplementsDisposal == D!Spec

\* Every submitted event gets its outcome, however the ticks interleave with
\* the events.
EventuallyDisposed ==
  \A e \in Event : e \in submitted ~> Outcome(e) \in D!Final

HasRow(rows, h) == \E row \in rows : row[1] = h

\* The hostname of every processed event reaches the table, unless SaveHost
\* failed for that hostname, the process ended with it, or the database dropped
\* the row it had accepted.
EventuallyListedOrMissed ==
  \A e \in Event : ProcessedAsFound(e) ~>
    HasRow(hostRows \cup discarded, HostnameOf[e]) \/ HostnameOf[e] \in missed
=============================================================================
