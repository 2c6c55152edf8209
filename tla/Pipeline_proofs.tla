--------------------------- MODULE Pipeline_proofs ---------------------------
(***************************************************************************)
(* Proofs about the processing service and about the composed program.     *)
(*                                                                         *)
(* The service comes first: its inductive invariant, what follows from it, *)
(* and that it implements Disposal, for any events, hostnames, times and   *)
(* any number of exits.  Then the program: it implements the service, so   *)
(* what is proved of the service holds of it, and a page that does not     *)
(* parse gets nowhere.  This holds for any registrations and any number of *)
(* ends of the process, subscriptions and backups enabled or not.          *)
(***************************************************************************)
EXTENDS Pipeline, TLAPS

(***************************************************************************)
(* The service.                                                            *)
(***************************************************************************)
\* A sum of natural numbers is zero when each of them is.
LEMMA ZeroSum ==
  ASSUME NEW a \in Nat, NEW b \in Nat, NEW c \in Nat
  PROVE  /\ a + b + c = 0 <=> a = 0 /\ b = 0 /\ c = 0
         /\ a + b + c = 0 <=> ~(a > 0) /\ ~(b > 0) /\ ~(c > 0)
OBVIOUS

\* The program starts in a state of the right types.
LEMMA InitTypeOK == Init => TypeOK
<1> SUFFICES ASSUME Init PROVE TypeOK
  OBVIOUS
<1>1. delivered \in [Event -> [Sink -> Nat]]
  BY DEF Init
<1>2. hosts \in [Hostname -> Time \cup {None}] /\ failed \in [Event -> Failure]
  BY DEF Init, NoHosts, Failure
<1> QED
  BY <1>1, <1>2 DEF Init, TypeOK, Lookup

\* Deliver(s) counts one more delivery of the current event and no other.
LEMMA DeliverEffect ==
  ASSUME TypeOK, current \in Event, NEW s \in Sink, Deliver(s)
  PROVE  /\ delivered' \in [Event -> [Sink -> Nat]]
         /\ \A e \in Event \ {current} : delivered'[e] = delivered[e]
         /\ \A t \in Sink : delivered'[current][t] =
               IF t = s THEN delivered[current][t] + 1 ELSE delivered[current][t]
BY DEF TypeOK, Deliver

\* Every step of handlers, clock and Run keeps the types; the two invariants say
\* that an event processed, or a hostname written, is one.
LEMMA StepTypeOK == TypeOK /\ InFlightPristine /\ HostsInvariant /\ [Next]_vars => TypeOK'
<1> SUFFICES ASSUME TypeOK, InFlightPristine, HostsInvariant, [Next]_vars PROVE TypeOK'
  OBVIOUS
<1> USE DEF TypeOK, runVars, table, history
<1>1. ASSUME NEW e \in Event, SaveAsync(e) PROVE TypeOK'
  BY <1>1 DEF SaveAsync
<1>2. CASE Tick
  BY <1>2 DEF Tick
<1>3. ASSUME NEW e \in Event, Receive(e) PROVE TypeOK'
  BY <1>3 DEF Receive
<1>4. CASE ReceiveTick
  BY <1>4 DEF ReceiveTick, Known
<1>5. CASE GetSubscription
  BY <1>5 DEF GetSubscription, Failure
<1>6. CASE ProcessRumEvent
  <2>1. current \in Event
    BY <1>6 DEF ProcessRumEvent, InFlightPristine
  <2>2. delivered' \in [Event -> [Sink -> Nat]] /\ failed' \in [Event -> Failure]
    BY <1>6, <2>1, DeliverEffect DEF ProcessRumEvent, Sink, Failure
  <2>3. hosts' \in [Hostname -> Time \cup {None}]
    BY <1>6, <2>1, ServiceAssumption DEF ProcessRumEvent, Remember
  <2> QED
    BY <1>6, <2>2, <2>3 DEF ProcessRumEvent
<1>7. CASE SaveInBackup
  <2>1. current \in Event
    BY <1>7 DEF SaveInBackup, InFlightPristine
  <2>2. SinkOf(lookup) \in Sink
    BY DEF SinkOf, Sink
  <2>3. delivered' \in [Event -> [Sink -> Nat]]
    BY <1>7, <2>1, <2>2, DeliverEffect DEF SaveInBackup
  <2> QED
    BY <1>7, <2>3 DEF SaveInBackup
<1>8. ASSUME NEW h \in Hostname, SaveHost(h) PROVE TypeOK'
  <2>1. hosts[h] \in Time
    BY <1>8 DEF SaveHost, HostsInvariant, Known
  <2> QED
    BY <1>8, <2>1 DEF SaveHost
<1>9. CASE ClearHosts
  BY <1>9 DEF ClearHosts, NoHosts
<1>10. CASE Exit
  <2>1. hosts' \in [Hostname -> Time \cup {None}] /\ lookup' \in Lookup
    BY <1>10 DEF Exit, NoHosts, Lookup
  <2>2. lost' \subseteq Event /\ missed' \subseteq Hostname /\ exits' \in Nat
    BY <1>10 DEF Exit, Known
  <2> QED
    BY <1>10, <2>1, <2>2 DEF Exit
<1>11. CASE UNCHANGED vars
  BY <1>11 DEF vars
<1>12. CASE FlushHosts
  BY <1>12 DEF FlushHosts
<1> QED
  <2> HIDE DEF TypeOK, runVars, table, history
  <2> QED
    BY <1>1, <1>2, <1>3, <1>4, <1>5, <1>6, <1>7, <1>8, <1>9, <1>10, <1>11, <1>12 DEF Next, Run

(***************************************************************************)
(* One fate per event.                                                     *)
(***************************************************************************)
\* A delivery of a pristine current event leaves it delivered once, and leaves
\* every other event's deliveries alone.
LEMMA DeliverOnce ==
  ASSUME TypeOK, NEW c \in Event, current = c, Pristine(c), NEW s \in Sink, Deliver(s)
  PROVE  /\ Deliveries(c)' = 1
         /\ \A e \in Event \ {c} : Deliveries(e)' = Deliveries(e)
<1>1. /\ delivered[c]["database"] \in Nat /\ delivered[c]["expired"] \in Nat
      /\ delivered[c]["unknown"] \in Nat
  BY DEF TypeOK, Sink
<1>2. /\ delivered[c]["database"] = 0 /\ delivered[c]["expired"] = 0
      /\ delivered[c]["unknown"] = 0
  BY <1>1 DEF Pristine, Deliveries
<1>3. \A t \in Sink : delivered'[c][t] = IF t = s THEN 1 ELSE 0
  BY <1>2, DeliverEffect DEF Sink
<1>4. Deliveries(c)' = delivered'[c]["database"] + delivered'[c]["expired"]
                         + delivered'[c]["unknown"]
  BY DEF Deliveries
<1>5. Deliveries(c)' = 1
  BY <1>3, <1>4 DEF Sink
<1> QED
  BY <1>5, DeliverEffect DEF Deliveries

\* Every step keeps DeliveredOnce and what it rests on: whoever waits on the channel
\* or is being processed has no fate yet.
LEMMA StepFate ==
  TypeOK /\ InFlightPristine /\ DeliveredOnce /\ [Next]_vars
    => InFlightPristine' /\ DeliveredOnce'
<1> SUFFICES ASSUME TypeOK, InFlightPristine, DeliveredOnce, [Next]_vars
             PROVE  InFlightPristine' /\ DeliveredOnce'
  OBVIOUS
<1> USE DEF runVars, table, history
<1>a. None \notin Event
  BY ServiceAssumption
<1>b. ASSUME UNCHANGED <<delivered, failed, lost>>
      PROVE  /\ DeliveredOnce'
             /\ \A e \in Event : Pristine(e)' <=> Pristine(e)
  BY <1>b DEF DeliveredOnce, Pristine, Deliveries
<1>1. ASSUME NEW e \in Event, SaveAsync(e) PROVE InFlightPristine' /\ DeliveredOnce'
  BY <1>1, <1>a, <1>b DEF SaveAsync, InFlightPristine, TypeOK
<1>2. CASE Tick
  BY <1>2, <1>b DEF Tick, InFlightPristine
<1>3. ASSUME NEW e \in Event, Receive(e) PROVE InFlightPristine' /\ DeliveredOnce'
  BY <1>3, <1>a, <1>b DEF Receive, InFlightPristine
<1>4. CASE ReceiveTick
  BY <1>4, <1>b DEF ReceiveTick, InFlightPristine
<1>5. CASE GetSubscription
  <2>1. current \in Event /\ Pristine(current)
    BY <1>5 DEF GetSubscription, InFlightPristine, TypeOK
  <2>2. CASE UNCHANGED <<current, failed>> /\ pc' = "dispatch"
    BY <1>5, <2>2, <1>b DEF GetSubscription, InFlightPristine
  <2>3. CASE /\ failed' = [failed EXCEPT ![current] = "lookup"]
             /\ pc' = "select" /\ current' = None
    <3>1. \A e \in Event \ {current} : Pristine(e)' <=> Pristine(e)
      BY <1>5, <2>3 DEF GetSubscription, Pristine, Deliveries, TypeOK
    <3>2. InFlightPristine'
      BY <1>5, <2>3, <3>1, <1>a DEF GetSubscription, InFlightPristine
    <3>3. DeliveredOnce'
      BY <1>5, <2>1, <2>3 DEF GetSubscription, DeliveredOnce, Pristine, Deliveries, TypeOK
    <3> QED
      BY <3>2, <3>3
  <2> QED
    BY <1>5, <2>2, <2>3 DEF GetSubscription
<1>6. CASE ProcessRumEvent
  <2>1. current \in Event /\ Pristine(current) /\ current \notin senders
    BY <1>6 DEF ProcessRumEvent, InFlightPristine, TypeOK
  <2>2. /\ \A e \in Event \ {current} : Pristine(e)' <=> Pristine(e)
        /\ DeliveredOnce'
    <3>1. CASE Deliver("database") /\ UNCHANGED failed
      <4>1. \A e \in Event : Deliveries(e)' = IF e = current THEN 1 ELSE Deliveries(e)
        BY <2>1, <3>1, DeliverOnce DEF Sink
      <4> QED
        BY <1>6, <2>1, <3>1, <4>1 DEF ProcessRumEvent, Pristine, DeliveredOnce
    <3>2. CASE failed' = [failed EXCEPT ![current] = "save"] /\ UNCHANGED delivered
      BY <1>6, <2>1, <3>2 DEF ProcessRumEvent, Pristine, DeliveredOnce, Deliveries, TypeOK
    <3> QED
      BY <1>6, <3>1, <3>2 DEF ProcessRumEvent
  <2> QED
    BY <1>6, <2>1, <2>2, <1>a DEF ProcessRumEvent, InFlightPristine
<1>7. CASE SaveInBackup
  <2>1. current \in Event /\ Pristine(current) /\ current \notin senders
    BY <1>7 DEF SaveInBackup, InFlightPristine, TypeOK
  <2>2. SinkOf(lookup) \in Sink
    BY DEF SinkOf, Sink
  <2>3. /\ \A e \in Event \ {current} : Pristine(e)' <=> Pristine(e)
        /\ DeliveredOnce'
    <3>1. \A e \in Event : Deliveries(e)' = IF e = current THEN 1 ELSE Deliveries(e)
      BY <1>7, <2>1, <2>2, DeliverOnce DEF SaveInBackup
    <3> QED
      BY <1>7, <2>1, <3>1 DEF SaveInBackup, Pristine, DeliveredOnce
  <2> QED
    BY <1>7, <2>1, <2>3, <1>a DEF SaveInBackup, InFlightPristine
<1>8. ASSUME NEW h \in Hostname, SaveHost(h) PROVE InFlightPristine' /\ DeliveredOnce'
  BY <1>8, <1>b DEF SaveHost, InFlightPristine
<1>9. CASE ClearHosts
  BY <1>9, <1>b DEF ClearHosts, InFlightPristine
<1>10. CASE Exit
  <2>1. \A e \in Event : e \in lost' \ lost => Pristine(e)
    BY <1>10 DEF Exit, InFlightPristine, TypeOK
  <2>2. DeliveredOnce'
    BY <1>10, <2>1 DEF Exit, DeliveredOnce, Deliveries, Pristine
  <2>3. \A e \in Event : e \notin submitted' => Pristine(e)'
    BY <1>10, <1>a DEF Exit, InFlightPristine, Pristine, Deliveries, TypeOK
  <2> QED
    BY <1>10, <2>2, <2>3, <1>a DEF Exit, InFlightPristine
<1>11. CASE UNCHANGED vars
  BY <1>11, <1>b DEF vars, InFlightPristine
<1>12. CASE FlushHosts
  BY <1>12, <1>b DEF FlushHosts, InFlightPristine
<1> QED
  BY <1>1, <1>2, <1>3, <1>4, <1>5, <1>6, <1>7, <1>8, <1>9, <1>10, <1>11, <1>12 DEF Next, Run

(***************************************************************************)
(* No hostname is forgotten silently.                                      *)
(***************************************************************************)
\* Once an event is processed as found it stays so.
LEMMA ProcessedStays ==
  ASSUME TypeOK, InFlightPristine, [Next]_vars, NEW e \in Event, ProcessedAsFound(e)
  PROVE  ProcessedAsFound(e)'
<1> USE DEF runVars, table, history, ProcessedAsFound
<1>1. CASE UNCHANGED <<delivered, failed>>
  BY <1>1
<1>2. CASE GetSubscription
  <2>1. Pristine(current) /\ current \in Event
    BY <1>2 DEF GetSubscription, InFlightPristine, TypeOK
  <2>2. delivered[current]["database"] = 0 /\ failed[current] = "no"
    BY <2>1 DEF Pristine, Deliveries, TypeOK, Sink
  <2> QED
    BY <1>2, <2>2 DEF GetSubscription, TypeOK
<1>3. CASE ProcessRumEvent
  <2>1. current \in Event
    BY <1>3 DEF ProcessRumEvent, InFlightPristine, TypeOK
  <2>2. delivered[e]["database"] \in Nat
    BY DEF TypeOK, Sink
  <2>3. CASE Deliver("database") /\ UNCHANGED failed
    BY <2>1, <2>2, <2>3, DeliverEffect DEF Sink
  <2>4. CASE failed' = [failed EXCEPT ![current] = "save"] /\ UNCHANGED delivered
    BY <2>1, <2>4 DEF TypeOK
  <2> QED
    BY <1>3, <2>3, <2>4 DEF ProcessRumEvent
<1>4. CASE SaveInBackup
  <2>1. current \in Event /\ SinkOf(lookup) \in Sink /\ SinkOf(lookup) # "database"
    BY <1>4 DEF SaveInBackup, InFlightPristine, TypeOK, SinkOf, Sink
  <2>2. delivered'[e]["database"] = delivered[e]["database"]
    BY <1>4, <2>1, DeliverEffect DEF SaveInBackup, Sink
  <2> QED
    BY <1>4, <2>2 DEF SaveInBackup
<1> QED
  BY <1>1, <1>2, <1>3, <1>4 DEF Next, Run, SaveAsync, Tick, Receive, ReceiveTick,
     SaveHost, ClearHosts, FlushHosts, Exit, vars

Accounted == HostsInvariant /\ HostnameAccounted /\ RowsOfProcessedEvents

\* Steps that touch neither the map, the loop nor the table, and process nothing.
LEMMA AccountedFrame ==
  ASSUME Accounted, TypeOK, UNCHANGED <<hosts, todo, Accepted, missed>>,
         \A e \in Event : ProcessedAsFound(e)' <=> ProcessedAsFound(e),
         pc' = "ranging" => pc = "ranging"
  PROVE  Accounted'
BY DEF Accounted, HostsInvariant, HostnameAccounted, RowsOfProcessedEvents, Known

\* Every step keeps the account of the hostnames: map, loop of processHosts, table.
LEMMA StepAccounted ==
  TypeOK /\ InFlightPristine /\ Accounted /\ [Next]_vars => Accounted'
<1> SUFFICES ASSUME TypeOK, InFlightPristine, Accounted, [Next]_vars
             PROVE  Accounted'
  OBVIOUS
<1> USE DEF runVars, table, history
<1>a. \A e \in Event : ProcessedAsFound(e) => ProcessedAsFound(e)'
  BY ProcessedStays
<1>b. ASSUME UNCHANGED <<delivered, failed>>
      PROVE  \A e \in Event : ProcessedAsFound(e)' <=> ProcessedAsFound(e)
  BY <1>b DEF ProcessedAsFound
<1>c. ASSUME UNCHANGED table PROVE UNCHANGED Accepted
  BY <1>c DEF Accepted
<1>1. ASSUME NEW e \in Event, SaveAsync(e) PROVE Accounted'
  BY <1>1, <1>b, <1>c, AccountedFrame DEF SaveAsync
<1>2. CASE Tick
  BY <1>2, <1>b, <1>c, AccountedFrame DEF Tick
<1>3. ASSUME NEW e \in Event, Receive(e) PROVE Accounted'
  BY <1>3, <1>b, <1>c, AccountedFrame DEF Receive
<1>4. CASE ReceiveTick
  <2>1. HostsInvariant'
    BY <1>4, <1>a DEF ReceiveTick, Accounted, HostsInvariant, Known
  <2>2. HostnameAccounted' /\ RowsOfProcessedEvents'
    BY <1>4, <1>b, <1>c DEF ReceiveTick, Accounted, HostnameAccounted, RowsOfProcessedEvents, Known
  <2> QED
    BY <2>1, <2>2 DEF Accounted
<1>5. CASE GetSubscription
  <2>1. current \in Event /\ Pristine(current)
    BY <1>5 DEF GetSubscription, InFlightPristine, TypeOK
  <2>2. \A e \in Event : ProcessedAsFound(e)' <=> ProcessedAsFound(e)
    BY <1>5, <1>a, <2>1 DEF GetSubscription, ProcessedAsFound, Pristine, TypeOK
  <2> QED
    BY <1>5, <2>2, <1>c, AccountedFrame DEF GetSubscription
<1>6. CASE ProcessRumEvent
  <2>1. current \in Event /\ HostnameOf[current] \in Hostname /\ CreatedAt[current] \in Time
    BY <1>6, ServiceAssumption DEF ProcessRumEvent, InFlightPristine, TypeOK
  <2>2. CreatedAt[current] # None
    BY <2>1, ServiceAssumption
  <2>3. \E c \in Event : c = current /\ ProcessedAsFound(c)'
    <3>1. CASE Deliver("database")
      <4>1. delivered[current]["database"] \in Nat
        BY <2>1 DEF TypeOK, Sink
      <4> QED
        BY <2>1, <3>1, <4>1, DeliverEffect DEF ProcessedAsFound, Sink
    <3>2. CASE failed' = [failed EXCEPT ![current] = "save"]
      BY <2>1, <3>2 DEF ProcessedAsFound, TypeOK
    <3> QED
      BY <1>6, <3>1, <3>2 DEF ProcessRumEvent
  <2>4. PICK c \in Event : c = current /\ ProcessedAsFound(c)'
    BY <2>3
  <2>5. \A e \in Event : ProcessedAsFound(e)' => ProcessedAsFound(e) \/ e = c
    <3>1. ASSUME NEW e \in Event, e # c
          PROVE  delivered'[e] = delivered[e] /\ failed'[e] = failed[e]
      BY <1>6, <2>4, <3>1, DeliverEffect DEF ProcessRumEvent, Sink, TypeOK
    <3> QED
      BY <3>1 DEF ProcessedAsFound
  <2>6. /\ Known(hosts)' = Known(hosts) \cup {HostnameOf[c]}
        /\ hosts'[HostnameOf[c]] = CreatedAt[c]
        /\ \A h \in Hostname \ {HostnameOf[c]} : hosts'[h] = hosts[h]
    BY <1>6, <2>1, <2>2, <2>4 DEF ProcessRumEvent, Remember, Known, TypeOK
  <2>7. HostsInvariant'
    <3>1. \A h \in Known(hosts)' : \E e \in Event :
            ProcessedAsFound(e)' /\ h = HostnameOf[e] /\ hosts'[h] = CreatedAt[e]
      BY <1>a, <2>4, <2>6 DEF Accounted, HostsInvariant, Known
    <3> QED
      BY <1>6, <2>6, <3>1 DEF ProcessRumEvent, Accounted, HostsInvariant
  <2>8. HostnameAccounted'
    BY <1>6, <1>c, <2>5, <2>6 DEF ProcessRumEvent, Accounted, HostnameAccounted
  <2>9. RowsOfProcessedEvents'
    BY <1>6, <1>a, <1>c DEF ProcessRumEvent, Accounted, RowsOfProcessedEvents
  <2> QED
    BY <2>7, <2>8, <2>9 DEF Accounted
<1>7. CASE SaveInBackup
  <2>1. current \in Event /\ SinkOf(lookup) \in Sink /\ SinkOf(lookup) # "database"
    BY <1>7 DEF SaveInBackup, InFlightPristine, TypeOK, SinkOf, Sink
  <2>2. \A e \in Event : delivered'[e]["database"] = delivered[e]["database"]
    BY <1>7, <2>1, DeliverEffect DEF SaveInBackup, Sink
  <2>3. \A e \in Event : ProcessedAsFound(e)' <=> ProcessedAsFound(e)
    BY <1>7, <2>2 DEF SaveInBackup, ProcessedAsFound
  <2> QED
    BY <1>7, <2>3, <1>c, AccountedFrame DEF SaveInBackup
<1>8. ASSUME NEW h \in Hostname, SaveHost(h) PROVE Accounted'
  <2>1. PICK e \in Event : ProcessedAsFound(e) /\ h = HostnameOf[e] /\ hosts[h] = CreatedAt[e]
    BY <1>8 DEF SaveHost, Accounted, HostsInvariant
  <2>2. RowsOfProcessedEvents'
    <3>1. \A row \in Accepted' : row \in Accepted \/ row = <<HostnameOf[e], CreatedAt[e]>>
      BY <1>8, <2>1 DEF SaveHost, Accepted
    <3> QED
      BY <1>a, <2>1, <3>1 DEF Accounted, RowsOfProcessedEvents
  <2>3. /\ Accepted \subseteq Accepted' /\ missed \subseteq missed'
        /\ h \in missed' \/ \E row \in Accepted' : row[1] = h
    <3>1. CASE queued' = queued \cup {<<h, hosts[h]>>} /\ UNCHANGED missed
      <4>1. <<h, hosts[h]>> \in Accepted' /\ <<h, hosts[h]>>[1] = h
        BY <1>8, <3>1 DEF SaveHost, Accepted
      <4>2. Accepted \subseteq Accepted'
        BY <1>8, <3>1 DEF SaveHost, Accepted
      <4> QED
        BY <3>1, <4>1, <4>2
    <3>2. CASE missed' = missed \cup {h} /\ UNCHANGED queued
      BY <1>8, <3>2 DEF SaveHost, Accepted
    <3> QED
      BY <1>8, <3>1, <3>2 DEF SaveHost
  <2>4. HostnameAccounted'
    BY <1>8, <1>b, <2>3 DEF SaveHost, Accounted, HostnameAccounted, Known
  <2>5. HostsInvariant'
    BY <1>8, <1>a, <2>3 DEF SaveHost, Accounted, HostsInvariant, Known
  <2> QED
    BY <2>2, <2>4, <2>5 DEF Accounted
<1>9. CASE ClearHosts
  <2>1. Known(hosts)' = {}
    BY <1>9 DEF ClearHosts, NoHosts, Known
  <2>2. \A h \in Known(hosts) : h \in missed \/ \E row \in Accepted : row[1] = h
    BY <1>9 DEF ClearHosts, Accounted, HostsInvariant
  <2>3. HostnameAccounted' /\ RowsOfProcessedEvents'
    BY <1>9, <1>b, <1>c, <2>2 DEF ClearHosts, Accounted, HostnameAccounted, RowsOfProcessedEvents
  <2>4. HostsInvariant'
    BY <1>9, <2>1 DEF ClearHosts, HostsInvariant
  <2> QED
    BY <2>3, <2>4 DEF Accounted
<1>10. CASE Exit
  <2>1. Known(hosts)' = {}
    BY <1>10 DEF Exit, NoHosts, Known
  <2>2. HostsInvariant'
    BY <1>10, <2>1 DEF Exit, HostsInvariant
  <2>3. HostnameAccounted' /\ RowsOfProcessedEvents'
    BY <1>10, <1>b, <1>c DEF Exit, Accounted, HostnameAccounted, RowsOfProcessedEvents
  <2> QED
    BY <2>2, <2>3 DEF Accounted
<1>11. CASE UNCHANGED vars
  BY <1>11, <1>b, <1>c, AccountedFrame DEF vars
<1>12. CASE FlushHosts
  <2>1. UNCHANGED Accepted
    BY <1>12 DEF FlushHosts, Accepted
  <2> QED
    BY <1>12, <2>1, <1>b, AccountedFrame DEF FlushHosts
<1> QED
  BY <1>1, <1>2, <1>3, <1>4, <1>5, <1>6, <1>7, <1>8, <1>9, <1>10, <1>11, <1>12 DEF Next, Run

(***************************************************************************)
(* No event vanishes.                                                      *)
(***************************************************************************)
\* Every step keeps each submitted event in sight: an event leaves the channel for
\* processEvent, and processEvent for a fate.
LEMMA StepVanishes ==
  TypeOK /\ InFlightPristine /\ NoEventVanishes /\ [Next]_vars => NoEventVanishes'
<1> SUFFICES ASSUME TypeOK, InFlightPristine, NoEventVanishes, [Next]_vars,
                    NEW e \in submitted', Pristine(e)'
             PROVE  e \in senders' \/ e = current'
  BY DEF NoEventVanishes
<1> USE DEF runVars, table, history
<1>a. ASSUME UNCHANGED <<delivered, failed, lost, submitted>>
      PROVE  e \in senders \/ e = current
  BY <1>a DEF NoEventVanishes, Pristine, Deliveries
<1>1. ASSUME NEW f \in Event, SaveAsync(f) PROVE e \in senders' \/ e = current'
  BY <1>1 DEF SaveAsync, NoEventVanishes, Pristine, Deliveries
<1>2. CASE Tick
  BY <1>2, <1>a DEF Tick
<1>3. ASSUME NEW f \in Event, Receive(f) PROVE e \in senders' \/ e = current'
  <2>1. current = None
    BY <1>3 DEF Receive, InFlightPristine
  <2>2. e \in Event
    BY <1>3 DEF Receive, TypeOK
  <2> QED
    BY <1>3, <1>a, <2>1, <2>2, ServiceAssumption DEF Receive
<1>4. CASE ReceiveTick
  BY <1>4, <1>a DEF ReceiveTick
<1>5. CASE GetSubscription
  <2>1. CASE UNCHANGED <<current, failed>>
    BY <1>5, <1>a, <2>1 DEF GetSubscription
  <2>2. CASE failed' = [failed EXCEPT ![current] = "lookup"]
    <3>1. e # current
      BY <1>5, <2>2 DEF GetSubscription, Pristine, TypeOK
    <3>2. Pristine(e)
      BY <1>5, <2>2, <3>1 DEF GetSubscription, Pristine, Deliveries, TypeOK
    <3> QED
      BY <1>5, <3>1, <3>2 DEF GetSubscription, NoEventVanishes
  <2> QED
    BY <1>5, <2>1, <2>2 DEF GetSubscription
<1>6. CASE ProcessRumEvent
  <2>1. current \in Event /\ Pristine(current)
    BY <1>6 DEF ProcessRumEvent, InFlightPristine, TypeOK
  <2>2. e # current /\ Pristine(e)
    <3>1. CASE Deliver("database") /\ UNCHANGED failed
      <4>1. \A f \in Event : Deliveries(f)' = IF f = current THEN 1 ELSE Deliveries(f)
        BY <2>1, <3>1, DeliverOnce DEF Sink
      <4> QED
        BY <1>6, <3>1, <4>1 DEF ProcessRumEvent, Pristine, TypeOK
    <3>2. CASE failed' = [failed EXCEPT ![current] = "save"] /\ UNCHANGED delivered
      BY <1>6, <2>1, <3>2 DEF ProcessRumEvent, Pristine, Deliveries, TypeOK
    <3> QED
      BY <1>6, <3>1, <3>2 DEF ProcessRumEvent
  <2> QED
    BY <1>6, <2>2 DEF ProcessRumEvent, NoEventVanishes
<1>7. CASE SaveInBackup
  <2>1. current \in Event /\ Pristine(current) /\ SinkOf(lookup) \in Sink
    BY <1>7 DEF SaveInBackup, InFlightPristine, TypeOK, SinkOf, Sink
  <2>2. \A f \in Event : Deliveries(f)' = IF f = current THEN 1 ELSE Deliveries(f)
    BY <1>7, <2>1, DeliverOnce DEF SaveInBackup
  <2>3. e # current /\ Pristine(e)
    BY <1>7, <2>2 DEF SaveInBackup, Pristine, TypeOK
  <2> QED
    BY <1>7, <2>3 DEF SaveInBackup, NoEventVanishes
<1>8. ASSUME NEW h \in Hostname, SaveHost(h) PROVE e \in senders' \/ e = current'
  BY <1>8, <1>a DEF SaveHost
<1>9. CASE ClearHosts
  BY <1>9, <1>a DEF ClearHosts
<1>10. CASE Exit
  <2>1. Pristine(e) /\ e \notin senders /\ e # current
    BY <1>10, ServiceAssumption DEF Exit, Pristine, Deliveries, TypeOK
  <2> QED
    BY <1>10, <2>1 DEF Exit, NoEventVanishes
<1>11. CASE UNCHANGED vars
  BY <1>11, <1>a DEF vars
<1>12. CASE FlushHosts
  BY <1>12, <1>a DEF FlushHosts
<1> QED
  BY <1>1, <1>2, <1>3, <1>4, <1>5, <1>6, <1>7, <1>8, <1>9, <1>10, <1>11, <1>12 DEF Next, Run

(***************************************************************************)
(* The inductive invariant and what it implies.                            *)
(***************************************************************************)
\* With nothing submitted and nothing remembered, the invariant holds.
LEMMA InitIInv == Init => IInv
<1> SUFFICES ASSUME Init PROVE IInv
  OBVIOUS
<1>1. TypeOK
  BY InitTypeOK
<1>2. ASSUME NEW e \in Event
      PROVE  Deliveries(e) = 0 /\ Pristine(e) /\ ~ProcessedAsFound(e)
  <2>1. /\ delivered[e]["database"] = 0 /\ delivered[e]["expired"] = 0
        /\ delivered[e]["unknown"] = 0
    BY DEF Init, Sink
  <2>2. failed[e] = "no" /\ e \notin lost
    BY DEF Init
  <2>3. Deliveries(e) = 0
    BY <2>1 DEF Deliveries
  <2>4. ~(delivered[e]["database"] > 0)
    BY <2>1
  <2> QED
    BY <2>2, <2>3, <2>4 DEF Pristine, ProcessedAsFound
<1>3. \A e \in Event : Pristine(e) /\ ~ProcessedAsFound(e)
  BY <1>2
<1>4. Known(hosts) = {}
  BY DEF Init, Known, NoHosts
<1>5. InFlightPristine /\ NoEventVanishes
  BY <1>3, ServiceAssumption DEF Init, InFlightPristine, NoEventVanishes
<1>6. HostsInvariant /\ HostnameAccounted /\ RowsOfProcessedEvents
  BY <1>3, <1>4 DEF Init, HostsInvariant, HostnameAccounted, RowsOfProcessedEvents, Accepted
<1>7. DeliveredOnce
  BY <1>2, 0 <= 1 DEF DeliveredOnce
<1> QED
  BY <1>1, <1>5, <1>6, <1>7 DEF IInv

\* The conjunction of the invariants of Service is inductive.
THEOREM Inductive == Spec => []IInv
<1>1. IInv /\ [Next]_vars => IInv'
  BY StepTypeOK, StepFate, StepAccounted, StepVanishes DEF IInv, Accounted
<1> QED
  BY InitIInv, <1>1, PTL DEF Spec

\* Every variable of the service keeps its type.
THEOREM TypeCorrect == Spec => []TypeOK
BY Inductive, PTL DEF IInv

\* No event reaches two sinks, or one sink twice, or a sink after it failed.
THEOREM DeliversOnce == Spec => []DeliveredOnce
BY Inductive, PTL DEF IInv

\* A submitted event waits, is being processed, or has a fate.
THEOREM NothingVanishes == Spec => []NoEventVanishes
BY Inductive, PTL DEF IInv

\* A processed event's hostname is remembered, was accepted by the database, or
\* was missed.
THEOREM HostnamesAccounted == Spec => []HostnameAccounted
BY Inductive, PTL DEF IInv

\* The rows the database accepted, and those of the table, are of processed events.
THEOREM RowsAreOfEvents == Spec => []RowsOfProcessedEvents
BY Inductive, PTL DEF IInv

(***************************************************************************)
(* The service implements Disposal.                                        *)
(***************************************************************************)
\* What decides an outcome, under the invariant.
LEMMA OutcomeCases ==
  ASSUME IInv, NEW e \in Event
  PROVE  /\ Outcome(e) = "new" <=> e \notin submitted
         /\ Outcome(e) = "waiting" <=> e \in submitted /\ Pristine(e)
         /\ ProcessedAsFound(e) => Outcome(e) \in {"stored", "unsaved"}
<1>1. /\ delivered[e]["database"] \in Nat /\ delivered[e]["expired"] \in Nat
      /\ delivered[e]["unknown"] \in Nat /\ failed[e] \in Failure
  BY DEF IInv, TypeOK, Sink
<1>2. e \notin submitted => Pristine(e)
  BY DEF IInv, InFlightPristine
<1>3. Pristine(e) => ~ProcessedAsFound(e)
  BY <1>1 DEF Pristine, Deliveries, ProcessedAsFound
<1>4. Pristine(e) <=> /\ ~(delivered[e]["database"] > 0) /\ ~(delivered[e]["expired"] > 0)
                      /\ ~(delivered[e]["unknown"] > 0)
                      /\ failed[e] # "lookup" /\ failed[e] # "save" /\ e \notin lost
  <2>1. Deliveries(e) = 0 <=> /\ ~(delivered[e]["database"] > 0)
                              /\ ~(delivered[e]["expired"] > 0)
                              /\ ~(delivered[e]["unknown"] > 0)
    <3>1. PICK a \in Nat, b \in Nat, c \in Nat :
            a = delivered[e]["database"] /\ b = delivered[e]["expired"] /\ c = delivered[e]["unknown"]
      BY <1>1
    <3>2. Deliveries(e) = a + b + c
      BY <3>1 DEF Deliveries
    <3>3. a + b + c = 0 <=> ~(a > 0) /\ ~(b > 0) /\ ~(c > 0)
      BY ZeroSum
    <3>4. ~(a > 0) /\ ~(b > 0) /\ ~(c > 0)
            <=> /\ ~(delivered[e]["database"] > 0) /\ ~(delivered[e]["expired"] > 0)
                /\ ~(delivered[e]["unknown"] > 0)
      BY <3>1
    <3>5. Deliveries(e) = 0 <=> a + b + c = 0
      BY <3>2
    <3> QED
      BY <3>3, <3>4, <3>5
  <2>2. failed[e] = "no" <=> failed[e] # "lookup" /\ failed[e] # "save"
    BY <1>1 DEF Failure
  <2> QED
    BY <2>1, <2>2 DEF Pristine
<1>5. /\ Outcome(e) = "new" <=> e \notin submitted
      /\ Outcome(e) = "waiting" <=> e \in submitted /\ Pristine(e)
  BY <1>4 DEF Outcome
<1>6. ProcessedAsFound(e) => Outcome(e) \in {"stored", "unsaved"}
  <2>1. CASE delivered[e]["database"] > 0
    BY <1>2, <1>3, <2>1 DEF Outcome, ProcessedAsFound
  <2>2. CASE failed[e] = "save"
    <3>1. Deliveries(e) = 0
      BY <2>2 DEF IInv, DeliveredOnce
    <3>2. /\ ~(delivered[e]["database"] > 0) /\ ~(delivered[e]["expired"] > 0)
          /\ ~(delivered[e]["unknown"] > 0)
      BY <1>1, <3>1 DEF Deliveries
    <3> QED
      BY <1>2, <2>2, <3>2 DEF Outcome, Pristine
  <2> QED
    BY <2>1, <2>2 DEF ProcessedAsFound
<1> QED
  BY <1>5, <1>6

OutcomesDecided ==
  \A e \in Event : /\ Outcome(e) = "waiting" <=> e \in submitted /\ Pristine(e)
                   /\ ProcessedAsFound(e) => Outcome(e) \in {"stored", "unsaved"}

\* Under the invariant the nested definition of an outcome has one case per event.
LEMMA OutcomesAreDecided == IInv => OutcomesDecided
BY OutcomeCases DEF OutcomesDecided

\* The same after a step.
LEMMA OutcomesAreDecidedNext == IInv' => OutcomesDecided'
BY OutcomesAreDecided, PTL

\* A step that leaves the fates alone leaves the outcomes alone.
LEMMA OutcomeFrame ==
  ASSUME NEW e \in Event, e \in submitted' <=> e \in submitted, e \in lost' <=> e \in lost,
         delivered'[e] = delivered[e], failed'[e] = failed[e]
  PROVE  Outcome(e)' = Outcome(e)
BY DEF Outcome

\* The service starts where the abstract promise starts.
LEMMA RefinementInit == Init => D!Init
<1> SUFFICES ASSUME Init PROVE D!Init
  OBVIOUS
<1>1. [e \in Event |-> Outcome(e)] = [e \in Event |-> "new"]
  BY DEF Init, Outcome
<1>2. {row[1] : row \in hostRows} = {}
  BY DEF Init
<1> QED
  BY <1>1, <1>2 DEF D!Init

\* Each step of the service is a step of the abstract promise, or none.
LEMMA RefinementStep == IInv /\ IInv' /\ [Next]_vars => [D!Next]_D!vars
<1> SUFFICES ASSUME IInv, IInv', [Next]_vars PROVE [D!Next]_D!vars
  OBVIOUS
<1> DEFINE outcome == [e \in Event |-> Outcome(e)]
           listed == {row[1] : row \in hostRows}
<1> USE DEF runVars, table, history
<1>a. ASSUME UNCHANGED <<delivered, failed, lost, submitted>> PROVE outcome' = outcome
  BY <1>a, OutcomeFrame
<1>b. ASSUME UNCHANGED hostRows PROVE listed' = listed
  BY <1>b
<1>c. ASSUME outcome' = outcome, listed' = listed PROVE [D!Next]_D!vars
  BY <1>c DEF D!vars
<1>d. ASSUME NEW c \in Event, NEW o \in D!Final \ {"lost"},
             Outcome(c) = "waiting", Outcome(c)' = o, UNCHANGED hostRows,
             \A e \in Event \ {c} : Outcome(e)' = Outcome(e)
      PROVE  [D!Next]_D!vars
  <2>1. outcome' = [outcome EXCEPT ![c] = o]
    BY <1>d
  <2>2. D!Dispose(c, o)
    BY <1>b, <1>d, <2>1 DEF D!Dispose
  <2> QED
    BY <2>2 DEF D!Next
<1>e. ASSUME pc \in {"lookup", "dispatch"}
      PROVE  current \in Event /\ Pristine(current) /\ Outcome(current) = "waiting"
  BY <1>e, OutcomeCases DEF IInv, InFlightPristine, TypeOK
<1>1. ASSUME NEW e \in Event, SaveAsync(e) PROVE [D!Next]_D!vars
  <2>1. outcome[e] = "new" /\ Outcome(e)' = "waiting"
    <3>1. Pristine(e)' <=> Pristine(e)
      BY <1>1 DEF SaveAsync, Pristine, Deliveries
    <3>2. Pristine(e) /\ e \in submitted'
      BY <1>1 DEF SaveAsync, IInv, InFlightPristine
    <3>3. Outcome(e)' = "waiting" <=> e \in submitted' /\ Pristine(e)'
      BY OutcomesAreDecidedNext DEF OutcomesDecided
    <3> QED
      BY <1>1, <3>1, <3>2, <3>3, OutcomeCases DEF SaveAsync
  <2>2. \A f \in Event \ {e} : Outcome(f)' = Outcome(f)
    BY <1>1, OutcomeFrame DEF SaveAsync
  <2>3. outcome' = [outcome EXCEPT ![e] = "waiting"]
    BY <2>1, <2>2
  <2>4. D!Submit(e)
    BY <1>1, <1>b, <2>1, <2>3 DEF D!Submit, SaveAsync
  <2> QED
    BY <2>4 DEF D!Next
<1>2. CASE Tick
  BY <1>2, <1>a, <1>b, <1>c DEF Tick
<1>3. ASSUME NEW e \in Event, Receive(e) PROVE [D!Next]_D!vars
  BY <1>3, <1>a, <1>b, <1>c DEF Receive
<1>4. CASE ReceiveTick
  BY <1>4, <1>a, <1>b, <1>c DEF ReceiveTick
<1>5. CASE GetSubscription
  <2>1. CASE UNCHANGED <<current, failed>>
    BY <1>5, <2>1, <1>a, <1>b, <1>c DEF GetSubscription
  <2>2. CASE failed' = [failed EXCEPT ![current] = "lookup"]
    <3>1. \A e \in Event \ {current} : Outcome(e)' = Outcome(e)
      BY <1>5, <2>2, OutcomeFrame DEF GetSubscription, IInv, TypeOK
    <3>2. PICK c \in Event : c = current /\ Pristine(c) /\ Outcome(c) = "waiting"
      BY <1>5, <1>e DEF GetSubscription
    <3>3. c \in submitted' /\ failed'[c] = "lookup" /\ delivered'[c] = delivered[c]
      BY <1>5, <2>2, <3>2, OutcomeCases DEF GetSubscription, IInv, TypeOK
    <3>4. Outcome(c)' = "lookupFailed"
      <4>1. /\ ~(delivered'[c]["database"] > 0) /\ ~(delivered'[c]["expired"] > 0)
            /\ ~(delivered'[c]["unknown"] > 0)
        BY <3>2, <3>3 DEF Pristine, Deliveries, IInv, TypeOK, Sink
      <4> QED
        BY <3>3, <4>1 DEF Outcome
    <3> QED
      BY <1>5, <1>d, <3>1, <3>2, <3>4 DEF GetSubscription, D!Final
  <2> QED
    BY <1>5, <2>1, <2>2 DEF GetSubscription
<1>6. CASE ProcessRumEvent
  <2>1. PICK c \in Event : c = current /\ Pristine(c) /\ Outcome(c) = "waiting"
    BY <1>6, <1>e DEF ProcessRumEvent
  <2>2. \A e \in Event \ {c} : Outcome(e)' = Outcome(e)
    <3>1. ASSUME NEW e \in Event, e # c
          PROVE  delivered'[e] = delivered[e] /\ failed'[e] = failed[e]
      BY <1>6, <2>1, <3>1, DeliverEffect DEF ProcessRumEvent, Sink, IInv, TypeOK
    <3> QED
      BY <1>6, <3>1, OutcomeFrame DEF ProcessRumEvent
  <2>3. ProcessedAsFound(c)'
    <3>1. CASE Deliver("database")
      BY <2>1, <3>1, DeliverEffect DEF IInv, TypeOK, ProcessedAsFound, Sink
    <3>2. CASE failed' = [failed EXCEPT ![current] = "save"]
      BY <2>1, <3>2 DEF ProcessedAsFound, IInv, TypeOK
    <3> QED
      BY <1>6, <3>1, <3>2 DEF ProcessRumEvent
  <2>4. (ProcessedAsFound(c) => Outcome(c) \in {"stored", "unsaved"})'
    BY OutcomesAreDecidedNext DEF OutcomesDecided
  <2> QED
    BY <1>6, <1>d, <2>1, <2>2, <2>3, <2>4 DEF ProcessRumEvent, D!Final, D!Processed
<1>7. CASE SaveInBackup
  <2>1. PICK c \in Event : c = current /\ Pristine(c) /\ Outcome(c) = "waiting"
    BY <1>7, <1>e DEF SaveInBackup
  <2>2. SinkOf(lookup) \in {"expired", "unknown"}
    BY DEF SinkOf
  <2>3. /\ \A e \in Event \ {c} : Outcome(e)' = Outcome(e)
        /\ \A t \in Sink : delivered'[c][t] = IF t = SinkOf(lookup)
                           THEN delivered[c][t] + 1 ELSE delivered[c][t]
    <3>1. SinkOf(lookup) \in Sink
      BY <2>2 DEF Sink
    <3> QED
      BY <1>7, <2>1, <3>1, DeliverEffect, OutcomeFrame DEF SaveInBackup, IInv
  <2>4. /\ delivered[c]["database"] = 0 /\ delivered[c]["expired"] = 0
        /\ delivered[c]["unknown"] = 0
    <3>1. /\ delivered[c]["database"] \in Nat /\ delivered[c]["expired"] \in Nat
          /\ delivered[c]["unknown"] \in Nat
      BY DEF IInv, TypeOK, Sink
    <3>2. PICK i \in Nat, j \in Nat, k \in Nat :
            i = delivered[c]["database"] /\ j = delivered[c]["expired"] /\ k = delivered[c]["unknown"]
      BY <3>1
    <3>3. i + j + k = 0
      BY <2>1, <3>2 DEF Pristine, Deliveries
    <3> QED
      BY <3>2, <3>3, ZeroSum
  <2>5. Outcome(c)' \in {"expired", "unknown"}
    <3>1. c \in submitted' /\ ~(delivered'[c]["database"] > 0)
      BY <1>7, <2>1, <2>2, <2>3, <2>4, OutcomeCases DEF SaveInBackup, Sink
    <3>2. delivered'[c]["expired"] > 0 \/ delivered'[c]["unknown"] > 0
      BY <2>2, <2>3, <2>4 DEF Sink
    <3> QED
      BY <3>1, <3>2 DEF Outcome
  <2> QED
    BY <1>7, <1>d, <2>1, <2>3, <2>5 DEF SaveInBackup, D!Final
<1>8. ASSUME NEW h \in Hostname, SaveHost(h) PROVE [D!Next]_D!vars
  <2>1. outcome' = outcome
    BY <1>8, <1>a DEF SaveHost
  <2> QED
    BY <1>8, <2>1, <1>b, <1>c DEF SaveHost
<1>9. CASE ClearHosts
  BY <1>9, <1>a, <1>b, <1>c DEF ClearHosts
<1>10. CASE Exit
  <2>1. \A e \in Event : Outcome(e) = "waiting" => Outcome(e)' = "lost"
    <3> SUFFICES ASSUME NEW e \in Event, Outcome(e) = "waiting" PROVE Outcome(e)' = "lost"
      OBVIOUS
    <3>1. Pristine(e) /\ e \in submitted
      BY OutcomeCases
    <3>2. e \in lost'
      BY <1>10, <3>1, ServiceAssumption DEF Exit, IInv, NoEventVanishes
    <3>3. /\ ~(delivered'[e]["database"] > 0) /\ ~(delivered'[e]["expired"] > 0)
          /\ ~(delivered'[e]["unknown"] > 0)
      BY <1>10, <3>1 DEF Exit, Pristine, Deliveries, IInv, TypeOK, Sink
    <3>4. failed'[e] = "no" /\ e \in submitted'
      BY <1>10, <3>1 DEF Exit, Pristine
    <3> QED
      BY <3>2, <3>3, <3>4 DEF Outcome
  <2>2. \A e \in Event : Outcome(e) # "waiting" => Outcome(e)' = Outcome(e)
    <3> SUFFICES ASSUME NEW e \in Event, Outcome(e) # "waiting"
                 PROVE  Outcome(e)' = Outcome(e)
      OBVIOUS
    <3>1. (e \notin senders /\ e # current) \/ e \in lost
      BY OutcomeCases, ServiceAssumption DEF IInv, InFlightPristine
    <3>2. e \in lost' <=> e \in lost
      BY <1>10, <3>1 DEF Exit
    <3> QED
      BY <1>10, <3>2, OutcomeFrame DEF Exit
  <2>3. outcome' = [e \in Event |-> IF outcome[e] = "waiting" THEN "lost" ELSE outcome[e]]
    BY <2>1, <2>2
  <2>4. D!Lose
    BY <1>10, <1>b, <2>3 DEF D!Lose, Exit
  <2> QED
    BY <2>4 DEF D!Next
<1>11. CASE UNCHANGED vars
  BY <1>11, <1>a, <1>b, <1>c DEF vars
<1>12. CASE FlushHosts
  <2>1. PICK stored \in SUBSET queued : hostRows' = hostRows \cup stored
    BY <1>12 DEF FlushHosts
  <2>2. outcome' = outcome
    BY <1>12, <1>a DEF FlushHosts
  <2>3. listed' = listed \cup {row[1] : row \in stored}
    BY <2>1
  <2>4. ASSUME NEW h \in {row[1] : row \in stored}
        PROVE  \E e \in Event : outcome[e] \in D!Processed /\ HostnameOf[e] = h
    <3>1. PICK row \in stored : h = row[1]
      BY <2>4
    <3>2. PICK e \in Event : ProcessedAsFound(e) /\ row = <<HostnameOf[e], CreatedAt[e]>>
      BY <2>1, <3>1 DEF IInv, RowsOfProcessedEvents, Accepted
    <3> QED
      BY <3>1, <3>2, OutcomeCases DEF D!Processed
  <2>5. {row[1] : row \in stored} \in SUBSET Hostname
    BY <2>4, ServiceAssumption
  <2> QED
    BY <2>2, <2>3, <2>4, <2>5 DEF D!List, D!Next
<1> QED
  BY <1>1, <1>2, <1>3, <1>4, <1>5, <1>6, <1>7, <1>8, <1>9, <1>10, <1>11, <1>12 DEF Next, Run

\* Every behaviour of the service is one of the abstract promise.
THEOREM Refinement == Spec => ImplementsDisposal
BY Inductive, RefinementInit, RefinementStep, PTL DEF Spec, ImplementsDisposal, D!Spec

(***************************************************************************)
(* The composed program.                                                   *)
(***************************************************************************)
\* A step of the program is a step of the service or leaves its variables alone.
LEMMA PipeStepRefines == [PipeNext]_allVars => [Next]_vars
<1> SUFFICES ASSUME [PipeNext]_allVars PROVE [Next]_vars
  OBVIOUS
<1> USE DEF Next, Run
<1>1. ASSUME NEW e \in Event, NewEventFromRequest(e) \/ Submit(e) \/ Archive(e)
      PROVE  [Next]_vars
  BY <1>1 DEF NewEventFromRequest, Submit, Archive
<1>2. CASE TickPasses \/ TableFlushed \/ Take
  BY <1>2 DEF TickPasses, TableFlushed, Take
<1>3. CASE Create \/ LookUp \/ StoreRumEvent \/ Reject
  BY <1>3 DEF Create, LookUp, StoreRumEvent, Reject
<1>4. ASSUME NEW b \in Backup, NEW B \in SUBSET collected[b], WriteBatch(b, B)
      PROVE  [Next]_vars
  BY <1>4 DEF WriteBatch
<1>5. CASE CreatePanics \/ Stop \/ \E b \in Backup : BatchPanics(b)
  BY <1>5 DEF CreatePanics, Stop, BatchPanics, End
<1>6. CASE UNCHANGED allVars
  BY <1>6 DEF allVars
<1> QED
  BY <1>1, <1>2, <1>3, <1>4, <1>5, <1>6 DEF PipeNext

\* The composed program implements the service: the catcher, the conversion, the
\* lookup for the empty identifier and the backups only choose among its steps.
THEOREM PipelineImplementsService == PipeSpec => Spec
BY PipeStepRefines, PTL DEF PipeSpec, PipeInit, Spec

\* So a beacon is delivered once at most, and none vanishes, in the whole program.
THEOREM PipelineDelivers == PipeSpec => [](DeliveredOnce /\ NoEventVanishes)
BY PipelineImplementsService, DeliversOnce, NothingVanishes, PTL

\* The process starts with no beacon anywhere.
LEMMA PipeInitIInv == PipeInit => PipeIInv
<1> SUFFICES ASSUME PipeInit PROVE PipeIInv
  OBVIOUS
<1>1. TypeOK /\ pc = "select" /\ Init
  BY InitTypeOK DEF PipeInit, Init
<1>2. rum \in [host : Hostname \cup {None}, id : Id]
  BY PipelineAssumption DEF PipeInit, NoRum
<1>3. PipeTypeOK
  BY <1>1, <1>2 DEF PipeInit, PipeTypeOK, NoFiles, Backup
<1>4. BadPageGetsNowhere
  <2>1. \A b \in Backup : written[b] = {} /\ unwritten[b] = {}
    BY DEF PipeInit, NoFiles
  <2>2. \A e \in Event : failed[e] = "no" /\ \A s \in Sink : delivered[e][s] = 0
    BY <1>1 DEF Init
  <2> QED
    BY <2>1, <2>2 DEF BadPageGetsNowhere
<1> QED
  BY <1>1, <1>3, <1>4 DEF PipeIInv, PastCreate, PipeInit

\* What any end of the process leaves: an idle goroutine and the files.
LEMMA EndKeepsPipeIInv ==
  ASSUME PipeIInv, TypeOK', End, stops' \in Nat
  PROVE  PipeIInv'
<1>1. PipeTypeOK'
  <2>1. handler' \in [Event -> {"none", "accepted", "submitted", "done", "refused", "cut"}]
    BY DEF PipeIInv, PipeTypeOK, End
  <2>2. rum' \in [host : Hostname \cup {None}, id : Id]
    BY PipelineAssumption DEF End, NoRum
  <2>3. dropped' \in [Backup -> SUBSET Event] /\ collected' \in [Backup -> SUBSET Event]
    BY DEF PipeIInv, PipeTypeOK, End, NoFiles, Backup
  <2> QED
    BY <2>1, <2>2, <2>3 DEF PipeIInv, PipeTypeOK, End
<1>2. pc' = "select" /\ rum' = NoRum /\ UNCHANGED <<failed, delivered, written, unwritten>>
  BY DEF End, Exit
<1> QED
  BY <1>1, <1>2 DEF PipeIInv, PastCreate, BadPageGetsNowhere

\* Every step preserves the inductive invariant of the pipeline.
LEMMA PipeStepIInv == PipeIInv /\ TypeOK' /\ IInv /\ [PipeNext]_allVars => PipeIInv'
<1> SUFFICES ASSUME PipeIInv, TypeOK', IInv, [PipeNext]_allVars PROVE PipeIInv'
  OBVIOUS
<1>t. PipeTypeOK /\ PastCreate /\ BadPageGetsNowhere
  BY DEF PipeIInv
<1>c. pc \in {"lookup", "dispatch"} => current \in Event
  BY DEF IInv, TypeOK, InFlightPristine
<1>1. ASSUME NEW e \in Event, NewEventFromRequest(e) PROVE PipeIInv'
  BY <1>1, <1>t DEF NewEventFromRequest, SetHandler, PipeIInv, PipeTypeOK, PastCreate,
                    BadPageGetsNowhere, vars, runVars, history, backups
<1>2. ASSUME NEW e \in Event, Submit(e) PROVE PipeIInv'
  BY <1>2, <1>t DEF Submit, SetHandler, SaveAsync, PipeIInv, PipeTypeOK, PastCreate,
                    BadPageGetsNowhere, runVars, backups
<1>3. ASSUME NEW e \in Event, Archive(e) PROVE PipeIInv'
  <2>1. collected' \in [Backup -> SUBSET Event]
    BY <1>3, <1>t DEF Archive, Collect, PipeTypeOK
  <2> QED
    BY <2>1, <1>3, <1>t DEF Archive, SetHandler, PipeIInv, PipeTypeOK, PastCreate,
                            BadPageGetsNowhere, vars, runVars, history
<1>4. CASE TickPasses \/ TableFlushed \/ Take
  <2>1. UNCHANGED pipeVars /\ UNCHANGED <<failed, delivered>>
    BY <1>4 DEF TickPasses, TableFlushed, FlushHosts, Tick, Take, Receive, ReceiveTick,
                ClearHosts, SaveHost, history
  <2>2. rum # NoRum => pc' = pc /\ current' = current
    BY <1>4, <1>t DEF TickPasses, TableFlushed, FlushHosts, Tick, Take, Receive, ReceiveTick,
                ClearHosts, SaveHost,
                      PastCreate, runVars
  <2>3. pc' = "dispatch" => pc = "dispatch" /\ current' = current
    BY <1>4 DEF TickPasses, TableFlushed, FlushHosts, Tick, Take, Receive, ReceiveTick,
                ClearHosts, SaveHost, runVars
  <2> QED
    BY <2>1, <2>2, <2>3, <1>t DEF PipeIInv, PipeTypeOK, PastCreate, BadPageGetsNowhere,
                                  pipeVars
<1>5. CASE Create
  <2>1. rum' \in [host : Hostname \cup {None}, id : Id]
    BY <1>5, <1>c, ServiceAssumption, PipelineAssumption DEF Create, ConvertToRumEvent
  <2> QED
    BY <2>1, <1>5, <1>t DEF Create, PipeIInv, PipeTypeOK, PastCreate, BadPageGetsNowhere,
                            vars, runVars, history, backups
<1>6. CASE LookUp
  <2>1. current \in Parses /\ pc = "lookup" /\ UNCHANGED <<conf, handler, backups, stops>>
    BY <1>6, <1>t DEF LookUp, GetSubscription, PastCreate
  <2>2. /\ rum' \in {rum, NoRum} /\ UNCHANGED delivered
        /\ pc' = "dispatch" => UNCHANGED <<current, rum>>
        /\ pc' # "dispatch" => rum' = NoRum
    BY <1>6 DEF LookUp, GetSubscription
  <2>3. \A e \in Event \ Parses : failed'[e] = failed[e]
    BY <1>6, <2>1 DEF LookUp, GetSubscription, IInv, TypeOK
  <2>4. rum' \in [host : Hostname \cup {None}, id : Id]
    BY <2>2, <1>t, PipelineAssumption DEF PipeTypeOK, NoRum
  <2> QED
    BY <2>1, <2>2, <2>3, <2>4, <1>t DEF PipeIInv, PipeTypeOK, PastCreate,
                                        BadPageGetsNowhere, backups
<1>7. CASE StoreRumEvent \/ Reject
  <2>1. pc = "dispatch" /\ current \in Parses
    BY <1>7, <1>t DEF StoreRumEvent, ProcessRumEvent, Reject, SaveInBackup, PastCreate
  <2>2. /\ rum' = NoRum /\ pc' = "select"
        /\ UNCHANGED <<conf, handler, written, unwritten, dropped, stops>>
    BY <1>7 DEF StoreRumEvent, ProcessRumEvent, Reject, SaveInBackup, backups
  <2>3. \A e \in Event \ Parses : failed'[e] = failed[e] /\ delivered'[e] = delivered[e]
    <3>1. CASE StoreRumEvent
      BY <3>1, <2>1, <1>c, DeliverEffect
         DEF StoreRumEvent, ProcessRumEvent, IInv, TypeOK, Sink, Deliver
    <3>2. CASE Reject
      BY <3>2, <2>1 DEF Reject, SaveInBackup, Deliver, IInv, TypeOK, history
    <3> QED
      BY <1>7, <3>1, <3>2
  <2>4. collected' \in [Backup -> SUBSET Event]
    <3>1. CASE StoreRumEvent
      BY <3>1, <1>t DEF StoreRumEvent, PipeTypeOK, backups
    <3>2. CASE Reject
      BY <3>2, <2>1, <1>c, <1>t DEF Reject, Collect, PipeTypeOK
    <3> QED
      BY <1>7, <3>1, <3>2
  <2>5. rum' \in [host : Hostname \cup {None}, id : Id]
    BY <2>2, PipelineAssumption DEF NoRum
  <2> QED
    BY <2>1, <2>2, <2>3, <2>4, <2>5, <1>t DEF PipeIInv, PipeTypeOK, PastCreate,
                                             BadPageGetsNowhere
<1>8. ASSUME NEW b \in Backup, NEW B \in SUBSET collected[b], WriteBatch(b, B)
      PROVE  PipeIInv'
  <2>1. PICK W \in SUBSET B : /\ written' = [written EXCEPT ![b] = @ \cup W]
                              /\ unwritten' = [unwritten EXCEPT ![b] = @ \cup (B \ W)]
    BY <1>8 DEF WriteBatch
  <2>2. B \subseteq Parses /\ B \subseteq Event
    BY <1>8, PipelineAssumption DEF WriteBatch
  <2>3. /\ written' \in [Backup -> SUBSET Event] /\ unwritten' \in [Backup -> SUBSET Event]
        /\ collected' \in [Backup -> SUBSET Event]
    BY <2>1, <2>2, <1>8, <1>t DEF WriteBatch, PipeTypeOK
  <2>4. \A c \in Backup : written'[c] \cup unwritten'[c] \subseteq written[c] \cup unwritten[c] \cup B
    BY <2>1, <1>t DEF PipeTypeOK
  <2>5. BadPageGetsNowhere'
    BY <2>2, <2>4, <1>8, <1>t DEF WriteBatch, BadPageGetsNowhere, vars, history
  <2> QED
    BY <2>3, <2>5, <1>8, <1>t DEF WriteBatch, PipeIInv, PipeTypeOK, PastCreate, vars, runVars
<1>9. CASE CreatePanics \/ Stop \/ \E b \in Backup : BatchPanics(b)
  <2>1. stops' \in Nat /\ End
    BY <1>9, <1>t DEF CreatePanics, Stop, BatchPanics, PipeTypeOK
  <2> QED
    BY <2>1, EndKeepsPipeIInv
<1>10. CASE UNCHANGED allVars
  BY <1>10, <1>t DEF allVars, pipeVars, PipeIInv, PipeTypeOK, PastCreate, BadPageGetsNowhere,
                     vars, runVars, history
<1> QED
  BY <1>1, <1>2, <1>3, <1>4, <1>5, <1>6, <1>7, <1>8, <1>9, <1>10 DEF PipeNext

\* The type invariant of the pipeline, where its goroutine is, and bad pages.
THEOREM PipeInductive == PipeSpec => []PipeIInv
<1>1. IInv /\ IInv' => TypeOK'
  BY DEF IInv
<1>2. PipeSpec => []IInv
  BY PipelineImplementsService, Inductive, PTL
<1> QED
  BY PipeInitIInv, PipeStepIInv, <1>1, <1>2, PTL DEF PipeSpec

\* A beacon whose page does not parse reaches no row and no line (beacon.go:282
\* and backup.go:46 end the process first).
THEOREM BadPagesGetNowhere == PipeSpec => []BadPageGetsNowhere
BY PipeInductive, PTL DEF PipeIInv

(***************************************************************************)
(* What becomes of the events in the backups.                              *)
(***************************************************************************)
\* No backup holds anything at first, and none was given anything.
LEMMA InitKept == PipeInit => KeptAsGiven /\ Promise!Init
<1> SUFFICES ASSUME PipeInit PROVE KeptAsGiven /\ Promise!Init
  OBVIOUS
<1>1. \A b \in Backup : collected[b] = {} /\ written[b] = {} /\ unwritten[b] = {} /\ dropped[b] = {}
  BY DEF PipeInit, NoFiles
<1>2. \A b \in Backup, e \in Event : ~IsGiven(b, e)
  <2>1. \A e \in Event : handler[e] = "none" /\ \A s \in Sink : delivered[e][s] = 0
    BY DEF PipeInit, Init
  <2>2. \A e \in Event, b \in Backup : b # "archive" => ~(delivered[e][b] > 0)
    BY <2>1 DEF Backup, Sink
  <2> QED
    BY <2>1, <2>2 DEF IsGiven
<1>3. KeptAsGiven
  BY <1>1, <1>2 DEF KeptAsGiven, Kept, InOnePlace
<1>4. Promise!Init
  BY DEF PipeInit, NoFiles, Promise!Init, Promise!Nothing
<1> QED
  BY <1>3, <1>4

\* A step that leaves the backups alone, and what they were given.
LEMMA KeptFrame ==
  ASSUME KeptAsGiven, UNCHANGED backups, \A b \in Backup, e \in Event : IsGiven(b, e)' <=> IsGiven(b, e)
  PROVE  KeptAsGiven' /\ UNCHANGED Promise!vars
<1>1. \A b \in Backup, e \in Event : /\ e \in Kept(b)' <=> e \in Kept(b)
                                     /\ InOnePlace(b, e)' <=> InOnePlace(b, e)
  BY DEF backups, Kept, InOnePlace
<1>2. UNCHANGED Promise!vars
  BY DEF backups, Promise!vars
<1> QED
  BY <1>1, <1>2 DEF KeptAsGiven

\* A backup given one more event collects it, or is disabled.
LEMMA CollectKeeps ==
  ASSUME KeptAsGiven, PipeTypeOK, NEW b \in Backup, NEW e \in Event, ~IsGiven(b, e), Collect(b, e),
         UNCHANGED <<conf, written, unwritten, dropped>>,
         \A c \in Backup, x \in Event :
           IsGiven(c, x)' <=> IsGiven(c, x) \/ (conf.backup /\ c = b /\ x = e)
  PROVE  KeptAsGiven' /\ [Promise!Next]_Promise!vars
<1>1. CASE ~conf.backup
  <2>1. UNCHANGED backups
    BY <1>1 DEF Collect, backups
  <2>2. \A c \in Backup, x \in Event : IsGiven(c, x)' <=> IsGiven(c, x)
    BY <1>1
  <2> QED
    BY <2>1, <2>2, KeptFrame
<1>2. CASE conf.backup
  <2>1. e \notin Kept(b)
    BY DEF KeptAsGiven
  <2>2. collected' = [collected EXCEPT ![b] = @ \cup {e}]
    BY <1>2 DEF Collect
  <2>3. /\ collected'[b] = collected[b] \cup {e}
        /\ \A c \in Backup \ {b} : collected'[c] = collected[c]
    BY <2>2 DEF PipeTypeOK
  <2>4. ASSUME NEW c \in Backup, NEW x \in Event
        PROVE  (x \in Kept(c)' <=> IsGiven(c, x)') /\ InOnePlace(c, x)'
    <3>1. x \in Kept(c) <=> IsGiven(c, x)
      BY DEF KeptAsGiven
    <3>2. x \in Kept(c)' <=> x \in Kept(c) \/ (c = b /\ x = e)
      <4>1. x \in collected'[c] <=> x \in collected[c] \/ (c = b /\ x = e)
        BY <2>3
      <4> QED
        BY <4>1 DEF Kept
    <3>3. InOnePlace(c, x)
      BY DEF KeptAsGiven
    <3>4. InOnePlace(c, x)'
      BY <2>1, <2>3, <3>3 DEF InOnePlace, Kept
    <3> QED
      BY <1>2, <3>1, <3>2, <3>4
  <2>5. Promise!Collect(b, e)
    BY <2>1, <2>2 DEF Promise!Collect, Promise!Given, Kept
  <2> QED
    BY <2>4, <2>5 DEF KeptAsGiven, Promise!Next
<1> QED
  BY <1>1, <1>2

\* A batch leaves memory for the files, or for the failures.
LEMMA WriteKeeps ==
  ASSUME KeptAsGiven, PipeTypeOK, NEW b \in Backup, NEW B \in SUBSET collected[b], WriteBatch(b, B)
  PROVE  KeptAsGiven' /\ [Promise!Next]_Promise!vars
<1>1. PICK W \in SUBSET B :
        /\ written' = [written EXCEPT ![b] = @ \cup W]
        /\ unwritten' = [unwritten EXCEPT ![b] = @ \cup (B \ W)]
  BY DEF WriteBatch
<1>2. /\ B # {} /\ B \subseteq collected[b] /\ collected' = [collected EXCEPT ![b] = @ \ B]
      /\ UNCHANGED <<conf, handler, delivered, dropped>>
  BY DEF WriteBatch, vars
<1>3. B \in SUBSET Event /\ W \in SUBSET Event
  BY <1>1, <1>2 DEF PipeTypeOK
<1>4. /\ collected'[b] = collected[b] \ B
      /\ written'[b] = written[b] \cup W
      /\ unwritten'[b] = unwritten[b] \cup (B \ W)
      /\ \A c \in Backup \ {b} : /\ collected'[c] = collected[c] /\ written'[c] = written[c]
                                 /\ unwritten'[c] = unwritten[c]
  BY <1>1, <1>2 DEF PipeTypeOK
<1>5. ASSUME NEW c \in Backup, NEW x \in Event
      PROVE  (x \in Kept(c)' <=> IsGiven(c, x)') /\ InOnePlace(c, x)'
  <2>1. (x \in Kept(c) <=> IsGiven(c, x)) /\ InOnePlace(c, x)
    BY DEF KeptAsGiven
  <2>2. IsGiven(c, x)' <=> IsGiven(c, x)
    BY <1>2 DEF IsGiven
  <2> DEFINE writing == c = b /\ x \in W
             failing == c = b /\ x \in B /\ x \notin W
  <2>a. /\ x \in collected'[c] <=> x \in collected[c] /\ ~writing /\ ~failing
        /\ writing \/ failing => x \in collected[c]
    BY <1>1, <1>2, <1>4
  <2>b. /\ x \in written'[c] <=> x \in written[c] \/ writing
        /\ x \in unwritten'[c] <=> x \in unwritten[c] \/ failing
    BY <1>4
  <2>c. ~(writing /\ failing) /\ dropped'[c] = dropped[c]
    BY <1>2
  <2> HIDE DEF writing, failing
  <2>3. x \in Kept(c)' <=> x \in Kept(c)
    BY <2>a, <2>b, <2>c DEF Kept
  <2>4. InOnePlace(c, x)'
    BY <2>a, <2>b, <2>c, <2>1 DEF InOnePlace
  <2> QED
    BY <2>1, <2>2, <2>3, <2>4
<1>6. Promise!Write(b, B, W)
  BY <1>1, <1>2 DEF Promise!Write
<1> QED
  BY <1>3, <1>5, <1>6 DEF KeptAsGiven, Promise!Next

\* The end of the process drops what is in memory; what a backup was given stays so.
LEMMA EndKeeps ==
  ASSUME KeptAsGiven, PipeTypeOK, End
  PROVE  KeptAsGiven' /\ [Promise!Next]_Promise!vars
<1>1. /\ dropped' = [b \in Backup |-> dropped[b] \cup collected[b]] /\ collected' = NoFiles
      /\ UNCHANGED <<conf, written, unwritten, delivered>>
  BY DEF End, Exit
<1>2. \A e \in Event : handler'[e] = "done" <=> handler[e] = "done"
  BY DEF End
<1>3. \A b \in Backup : dropped'[b] = dropped[b] \cup collected[b] /\ collected'[b] = {}
  BY <1>1 DEF NoFiles
<1>4. ASSUME NEW c \in Backup, NEW x \in Event
      PROVE  (x \in Kept(c)' <=> IsGiven(c, x)') /\ InOnePlace(c, x)'
  <2>1. (x \in Kept(c) <=> IsGiven(c, x)) /\ InOnePlace(c, x)
    BY DEF KeptAsGiven
  <2>2. IsGiven(c, x)' <=> IsGiven(c, x)
    BY <1>1, <1>2 DEF IsGiven
  <2>3. x \in Kept(c)' <=> x \in Kept(c)
    BY <1>1, <1>3 DEF Kept
  <2>4. InOnePlace(c, x)'
    BY <1>1, <1>3, <2>1 DEF InOnePlace
  <2> QED
    BY <2>1, <2>2, <2>3, <2>4
<1>5. Promise!Drop
  BY <1>1 DEF Promise!Drop, Promise!Nothing, NoFiles
<1> QED
  BY <1>4, <1>5 DEF KeptAsGiven, Promise!Next

\* Every step keeps the account of the backups and is one of Backing, or none: a
\* handler archives once, and an event that is being processed was not rejected yet.
LEMMA StepKept ==
  KeptAsGiven /\ PipeIInv /\ IInv /\ [PipeNext]_allVars
    => KeptAsGiven' /\ [Promise!Next]_Promise!vars
<1> SUFFICES ASSUME KeptAsGiven, PipeIInv, IInv, [PipeNext]_allVars
             PROVE  KeptAsGiven' /\ [Promise!Next]_Promise!vars
  OBVIOUS
<1>t. PipeTypeOK /\ TypeOK
  BY DEF PipeIInv, PipeTypeOK
<1>1. ASSUME NEW e \in Event, NewEventFromRequest(e) \/ Submit(e)
      PROVE  KeptAsGiven' /\ [Promise!Next]_Promise!vars
  <2>1. /\ handler[e] # "done" /\ UNCHANGED <<conf, backups, delivered>>
        /\ \E h : h # "done" /\ SetHandler(e, h)
    BY <1>1 DEF NewEventFromRequest, Submit, SaveAsync, vars
  <2>2. \A x \in Event : handler'[x] = "done" <=> handler[x] = "done"
    BY <2>1, <1>t DEF SetHandler, PipeTypeOK
  <2>3. \A b \in Backup, x \in Event : IsGiven(b, x)' <=> IsGiven(b, x)
    BY <2>1, <2>2 DEF IsGiven
  <2> QED
    BY <2>1, <2>3, KeptFrame
<1>2. ASSUME NEW e \in Event, Archive(e)
      PROVE  KeptAsGiven' /\ [Promise!Next]_Promise!vars
  <2>1. /\ handler[e] = "submitted" /\ Collect("archive", e) /\ SetHandler(e, "done")
        /\ UNCHANGED <<conf, delivered, written, unwritten, dropped>>
    BY <1>2 DEF Archive, vars
  <2>2. \A x \in Event : handler'[x] = "done" <=> handler[x] = "done" \/ x = e
    BY <2>1, <1>t DEF SetHandler, PipeTypeOK
  <2>3. ~IsGiven("archive", e) /\ "archive" \in Backup
    BY <2>1 DEF IsGiven, Backup
  <2>4. \A c \in Backup, x \in Event :
          IsGiven(c, x)' <=> IsGiven(c, x) \/ (conf.backup /\ c = "archive" /\ x = e)
    BY <2>1, <2>2 DEF IsGiven
  <2> QED
    BY <2>1, <2>3, <2>4, <1>t, CollectKeeps
<1>3. CASE TickPasses \/ TableFlushed \/ Take \/ Create \/ LookUp
  <2>1. UNCHANGED <<conf, handler, backups, delivered>>
    BY <1>3 DEF TickPasses, TableFlushed, FlushHosts, Tick, Take, Receive, ReceiveTick,
                ClearHosts, SaveHost, Create, LookUp,
                GetSubscription, vars, pipeVars, backups
  <2>2. \A b \in Backup, x \in Event : IsGiven(b, x)' <=> IsGiven(b, x)
    BY <2>1 DEF IsGiven
  <2> QED
    BY <2>1, <2>2, KeptFrame
<1>4. CASE StoreRumEvent
  <2>1. /\ UNCHANGED <<conf, handler, backups>> /\ current \in Event
        /\ UNCHANGED delivered \/ Deliver("database")
    BY <1>4 DEF StoreRumEvent, ProcessRumEvent, IInv, InFlightPristine, TypeOK
  <2>2. \A x \in Event, b \in {"expired", "unknown"} : delivered'[x][b] = delivered[x][b]
    BY <2>1, <1>t, DeliverEffect DEF Sink
  <2>3. \A b \in Backup, x \in Event : IsGiven(b, x)' <=> IsGiven(b, x)
    BY <2>1, <2>2 DEF IsGiven, Backup
  <2> QED
    BY <2>1, <2>3, KeptFrame
<1>5. CASE Reject
  <2> DEFINE s == SinkOf(lookup)
  <2>1. /\ Deliver(s) /\ Collect(s, current) /\ s \in Sink /\ s \in Backup \ {"archive"}
        /\ UNCHANGED <<conf, handler, written, unwritten, dropped>>
    BY <1>5 DEF Reject, SaveInBackup, SinkOf, Sink, Backup
  <2>2. current \in Event /\ Pristine(current)
    BY <1>5 DEF Reject, SaveInBackup, IInv, InFlightPristine, TypeOK
  <2> HIDE DEF s
  <2>3. /\ \A e \in Event : delivered[e]["expired"] \in Nat /\ delivered[e]["unknown"] \in Nat
        /\ delivered[current]["expired"] = 0 /\ delivered[current]["unknown"] = 0
    <3>1. \A e \in Event : /\ delivered[e]["database"] \in Nat /\ delivered[e]["expired"] \in Nat
                           /\ delivered[e]["unknown"] \in Nat
      BY <1>t DEF TypeOK, Sink
    <3>2. delivered[current]["database"] + delivered[current]["expired"]
            + delivered[current]["unknown"] = 0
      BY <2>2 DEF Pristine, Deliveries
    <3>3. /\ delivered[current]["database"] \in Nat /\ delivered[current]["expired"] \in Nat
          /\ delivered[current]["unknown"] \in Nat
      BY <3>1, <2>2
    <3>4. delivered[current]["expired"] = 0 /\ delivered[current]["unknown"] = 0
      BY <3>2, <3>3
    <3> QED
      BY <3>1, <3>4
  <2>4. ASSUME NEW x \in Event, NEW b \in {"expired", "unknown"}
        PROVE  delivered'[x][b] > 0 <=> delivered[x][b] > 0 \/ (b = s /\ x = current)
    <3>1. delivered'[x][b] = IF x = current /\ b = s THEN delivered[x][b] + 1 ELSE delivered[x][b]
      BY <2>1, <2>2, <1>t, DeliverEffect DEF Sink
    <3>2. delivered[x][b] \in Nat
      BY <2>3
    <3> QED
      BY <3>1, <3>2
  <2>5. ~IsGiven(s, current)
    BY <2>1, <2>3 DEF IsGiven, Backup
  <2>6. \A c \in Backup, x \in Event :
          IsGiven(c, x)' <=> IsGiven(c, x) \/ (conf.backup /\ c = s /\ x = current)
    BY <2>1, <2>4 DEF IsGiven, Backup
  <2> QED
    BY <2>1, <2>2, <2>5, <2>6, <1>t, CollectKeeps
<1>6. ASSUME NEW b \in Backup, NEW B \in SUBSET collected[b], WriteBatch(b, B)
      PROVE  KeptAsGiven' /\ [Promise!Next]_Promise!vars
  BY <1>6, <1>t, WriteKeeps
<1>7. CASE CreatePanics \/ Stop \/ \E b \in Backup : BatchPanics(b)
  BY <1>7, <1>t, EndKeeps DEF CreatePanics, Stop, BatchPanics
<1>8. CASE UNCHANGED allVars
  <2>1. UNCHANGED <<conf, handler, backups, delivered>>
    BY <1>8 DEF allVars, pipeVars, vars, backups
  <2>2. \A b \in Backup, x \in Event : IsGiven(b, x)' <=> IsGiven(b, x)
    BY <2>1 DEF IsGiven
  <2> QED
    BY <2>1, <2>2, KeptFrame
<1> QED
  BY <1>1, <1>2, <1>3, <1>4, <1>5, <1>6, <1>7, <1>8 DEF PipeNext

\* Each backup holds, in one place, what the handlers and the service gave it, and
\* nothing else, over any number of ends of the process.
THEOREM BackupsKeepWhatTheyGet == PipeSpec => []KeptAsGiven
<1>1. PipeSpec => []IInv
  BY PipelineImplementsService, Inductive, PTL
<1> QED
  BY InitKept, StepKept, PipeInductive, <1>1, PTL DEF PipeSpec

\* The backups of the program keep the promise that FileBackup keeps: an event is
\* collected once by each, and leaves memory once.
THEOREM PipelineKeepsThePromise == PipeSpec => PipelineImplementsBacking
<1>1. PipeSpec => []IInv
  BY PipelineImplementsService, Inductive, PTL
<1> QED
  BY InitKept, StepKept, PipeInductive, BackupsKeepWhatTheyGet, <1>1, PTL
     DEF PipeSpec, PipelineImplementsBacking, Promise!Spec
=============================================================================
