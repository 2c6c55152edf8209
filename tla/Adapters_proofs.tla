---------------------------- MODULE Adapters_proofs ----------------------------
(***************************************************************************)
(* Proofs about the MySQL, RethinkDB and Redis adapters, for any users,    *)
(* hostnames, identifiers, events and Redis keys, and any number of calls: *)
(* what a lookup finds, whose call removes a row, when a saved event is    *)
(* overwritten, and when a call meets a connection without a database.     *)
(***************************************************************************)
EXTENDS Adapters, TLAPS

\* The initial state satisfies the inductive invariant.
LEMMA InitIInv == Init => IInv
<1> SUFFICES ASSUME Init PROVE IInv
  OBVIOUS
<1>1. TypeOK
  BY DEF Init, TypeOK, NoRows, NoCall, Call, Connection
<1>2. RowsWereIssued
  BY DEF Init, RowsWereIssued, NoRows
<1>3. BareIsExplained
  BY DEF Init, BareIsExplained, Connection, NoCall
<1>4. IdentifiersAreFresh
  BY DEF Init, IdentifiersAreFresh, NoCall
<1>5. FoundWasIssued /\ NoDatabaseOnlyAfterCreate
  BY DEF Init, FoundWasIssued, NoDatabaseOnlyAfterCreate, NoLookup
<1> QED
  BY <1>1, <1>2, <1>3, <1>4, <1>5 DEF IInv

\* A cache by identifiers of some rows of the table has those rows only.
LEMMA ByIdEffect ==
  ASSUME TypeOK, NEW R \in SUBSET rows
  PROVE  /\ ById(R) \in [Id -> Row \cup {None}]
         /\ \A i \in Id : ById(R)[i] # None => ById(R)[i] \in R /\ ById(R)[i].id = i
<1>1. ASSUME NEW i \in Id
      PROVE  ById(R)[i] = None \/ (ById(R)[i] \in R /\ ById(R)[i].id = i)
  <2>1. CASE \E r \in R : r.id = i
    <3> DEFINE w == CHOOSE r \in R : r.id = i
    <3>1. w \in R /\ w.id = i
      BY <2>1
    <3>2. ById(R)[i] = w
      BY <2>1 DEF ById
    <3> QED
      BY <3>1, <3>2
  <2>2. CASE ~\E r \in R : r.id = i
    BY <2>2 DEF ById
  <2> QED
    BY <2>1, <2>2
<1>2. R \subseteq Row
  BY DEF TypeOK
<1>3. ById(R) = [i \in Id |-> ById(R)[i]]
  BY DEF ById
<1>4. \A i \in Id : ById(R)[i] \in Row \cup {None}
  BY <1>1, <1>2
<1> HIDE DEF ById
<1> QED
  BY <1>1, <1>3, <1>4

\* What Load puts into the cache: rows of the table, under their identifiers but on
\* RethinkDB.
LEMMA LoadEffect ==
  ASSUME TypeOK, RowsWereIssued, NEW c \in GetSubscriptions
  PROVE  /\ c \in [Id -> Row \cup {None}]
         /\ \A i \in Id : c[i] # None => c[i] \in issued /\ (adapter # "rethinkdb" => c[i].id = i)
<1>0. adapter \in {"mysql", "rethinkdb", "redis"} /\ rows \subseteq issued /\ issued \subseteq Row
  BY AdaptersAssumption DEF TypeOK, RowsWereIssued
<1>1. CASE adapter = "mysql"
  <2>1. c = ById(rows)
    BY <1>1 DEF GetSubscriptions, MySQLGetSubscriptions
  <2> QED
    BY <2>1, <1>0, ByIdEffect
<1>2. CASE adapter = "redis"
  <2>1. PICK page \in SUBSET rows : c = ById(page)
    BY <1>2 DEF GetSubscriptions, RedisGetSubscriptions
  <2> QED
    BY <2>1, <1>0, ByIdEffect
<1>3. CASE adapter = "rethinkdb"
  <2>1. c \in RethinkDBGetSubscriptions
    BY <1>3 DEF GetSubscriptions
  <2>2. CASE rows = {}
    BY <2>1, <2>2 DEF RethinkDBGetSubscriptions, NoRows
  <2>3. CASE rows # {}
    <3>1. PICK last \in rows : c = [i \in Id |-> IF ById(rows)[i] = None THEN None ELSE last]
      BY <2>1, <2>3 DEF RethinkDBGetSubscriptions
    <3> QED
      BY <3>1, <1>0, <1>3
  <2> QED
    BY <2>2, <2>3
<1> QED
  BY <1>0, <1>1, <1>2, <1>3

\* A new call takes a connection: one without a database only where that is explained.
LEMMA TakeEffect ==
  ASSUME IInv, NEW c \in Connection, running, TakeConnection(c), UNCHANGED <<adapter, process>>
  PROVE  /\ idle' \in [Connection -> Nat] /\ disturbed' \in BOOLEAN
         /\ UNCHANGED <<named, noDatabase>>
         /\ Explained => Explained'
         /\ idle'["bare"] > 0 => Explained'
         /\ c = "bare" => Explained'
<1> USE DEF IInv
<1>1. adapter' = adapter /\ tried' = tried
  BY DEF process
<1>2. CASE adapter # "mysql"
  BY <1>1, <1>2 DEF TakeConnection, pool, TypeOK, BareIsExplained, Explained
<1>3. CASE adapter = "mysql" /\ idle[c] > 0 /\ idle' = [idle EXCEPT ![c] = @ - 1] /\ UNCHANGED disturbed
  <2>1. UNCHANGED <<named, noDatabase>>
    BY <1>3 DEF TakeConnection, Take
  <2>2. idle \in [Connection -> Nat] /\ "bare" \in Connection
    BY DEF TypeOK, Connection
  <2>3. idle' \in [Connection -> Nat] /\ idle'["bare"] <= idle["bare"]
    BY <1>3, <2>2
  <2>4. Explained' = Explained
    BY <1>1, <1>3 DEF Explained
  <2> QED
    BY <1>3, <2>1, <2>2, <2>3, <2>4 DEF BareIsExplained, TypeOK
<1>4. CASE /\ adapter = "mysql" /\ c = (IF named THEN "database" ELSE "bare")
           /\ disturbed' = TRUE /\ UNCHANGED idle
  <2>1. UNCHANGED <<named, noDatabase>>
    BY <1>4 DEF TakeConnection, Take
  <2>2. Explained => Explained'
    BY <1>1, <1>4 DEF Explained
  <2>3. c = "bare" => Explained'
    BY <1>1, <1>4 DEF Explained, BareIsExplained
  <2> QED
    BY <1>4, <2>1, <2>2, <2>3 DEF BareIsExplained, TypeOK
<1> QED
  BY <1>2, <1>3, <1>4 DEF TakeConnection, Take

\* A call returns its connection.
LEMMA ReturnEffect ==
  ASSUME IInv, NEW call \in {handler, service}, call # NoCall, call \in Call,
         Returns(call), UNCHANGED <<adapter, process>>
  PROVE  /\ idle' \in [Connection -> Nat] /\ noDatabase' \in BOOLEAN
         /\ UNCHANGED <<named, disturbed>>
         /\ Explained' = Explained
         /\ idle'["bare"] > 0 => Explained
         /\ noDatabase' => Explained
<1> USE DEF IInv
<1>1. adapter' = adapter /\ tried' = tried
  BY DEF process
<1>2. call.conn \in Connection
  BY DEF Call, NoCall
<1>3. call.conn = "bare" => Explained
  BY DEF BareIsExplained
<1>4. UNCHANGED <<named, disturbed>> /\ noDatabase' = (noDatabase \/ call.conn = "bare")
  BY DEF Returns, Return
<1>5. idle' = idle \/ idle' = [idle EXCEPT ![call.conn] = @ + 1]
  BY DEF Returns, Return
<1>6. idle \in [Connection -> Nat] /\ noDatabase \in BOOLEAN /\ "bare" \in Connection
  BY DEF TypeOK, Connection
<1>7. idle' \in [Connection -> Nat] /\ (idle'["bare"] = idle["bare"] \/ call.conn = "bare")
  BY <1>2, <1>5, <1>6
<1>8. Explained' = Explained
  BY <1>1, <1>4 DEF Explained
<1>9. noDatabase' \in BOOLEAN /\ (noDatabase' => Explained)
  BY <1>3, <1>4, <1>6 DEF NoDatabaseOnlyAfterCreate, Explained
<1> QED
  BY <1>3, <1>4, <1>7, <1>8, <1>9 DEF BareIsExplained

\* The pool a process begins with has no connection without a database, unless
\* CreateDb failed.
LEMMA IdleEffect ==
  ASSUME NEW C \in SUBSET Connection
  PROVE  /\ Idle(C) \in [Connection -> Nat]
         /\ Idle(C)["bare"] > 0 => "bare" \in C
BY DEF Idle, Connection

\* The process begins: no call runs, and the pool is a new one.
LEMMA BeginKeepsIInv ==
  ASSUME IInv, Open \/ CreateDb \/ CreateDbFails
  PROVE  IInv'
<1> USE DEF IInv
<1>1. /\ ~running /\ running' = TRUE /\ noDatabase' = FALSE /\ enabled' \in BOOLEAN
      /\ answer' = NoLookup /\ UNCHANGED <<adapter, handler, service, calls, issued>>
  BY DEF Open, CreateDb, CreateDbFails, Begin
<1>2. handler = NoCall /\ service = NoCall
  BY <1>1 DEF BareIsExplained
<1>3. /\ \E C \in SUBSET Connection : idle' = Idle(C) /\ ("bare" \in C => Explained')
      /\ disturbed' \in BOOLEAN
  <2>1. CASE Open \/ CreateDb
    <3>1. idle' = Idle({"database"}) /\ disturbed' = FALSE
      BY <2>1 DEF Open, CreateDb
    <3>2. {"database"} \in SUBSET Connection /\ "bare" \notin {"database"}
      BY DEF Connection
    <3> QED
      BY <3>1, <3>2
  <2>2. CASE CreateDbFails
    <3>1. /\ idle' = Idle({}) \/ idle' = Idle({"bare"}) \/ idle' = Idle({"database"})
          /\ disturbed' = TRUE
      BY <2>2 DEF CreateDbFails
    <3>2. Explained'
      BY <2>2, <1>1 DEF CreateDbFails, Explained
    <3>3. {} \in SUBSET Connection /\ {"bare"} \in SUBSET Connection
          /\ {"database"} \in SUBSET Connection
      BY DEF Connection
    <3> QED
      BY <3>1, <3>2, <3>3
  <2> QED
    BY <2>1, <2>2
<1>4. idle' \in [Connection -> Nat] /\ (idle'["bare"] > 0 => Explained')
  BY <1>3, IdleEffect
<1>5. \/ cache' \in GetSubscriptions /\ UNCHANGED <<rows, latency, latid>>
      \/ cache' = NoRows /\ UNCHANGED <<rows, latency, latid>>
      \/ rows' = {} /\ latency' = {} /\ latid' = 0 /\ cache' = NoRows
  BY DEF Open, CreateDb, CreateDbFails, Load, Emptied
<1>6. /\ cache' \in [Id -> Row \cup {None}] /\ rows' \subseteq issued
      /\ \A i \in Id : cache'[i] # None =>
           cache'[i] \in issued /\ (adapter # "rethinkdb" => cache'[i].id = i)
  <2>1. CASE cache' \in GetSubscriptions /\ UNCHANGED rows
    BY <2>1, LoadEffect DEF RowsWereIssued
  <2>2. CASE cache' = NoRows /\ rows' \subseteq rows
    BY <2>2 DEF NoRows, RowsWereIssued
  <2>3. \/ cache' \in GetSubscriptions /\ UNCHANGED rows
        \/ cache' = NoRows /\ rows' \subseteq rows
    BY <1>5
  <2> QED
    BY <2>1, <2>2, <2>3
<1>7. named' \in BOOLEAN /\ tried' \in BOOLEAN /\ (~tried' => named')
  BY DEF Open, CreateDb, CreateDbFails
<1>8. latency' \subseteq Saved /\ latid' \in Nat /\ \A s \in latency' : s.id <= latid'
  BY <1>5 DEF TypeOK, IdentifiersAreFresh
<1>9. TypeOK'
  BY <1>1, <1>3, <1>4, <1>6, <1>7, <1>8 DEF TypeOK
<1>10. RowsWereIssued'
  BY <1>1, <1>6 DEF RowsWereIssued
<1>11. BareIsExplained'
  BY <1>1, <1>2, <1>4, <1>7 DEF BareIsExplained
<1>12. IdentifiersAreFresh'
  BY <1>1, <1>2, <1>8 DEF IdentifiersAreFresh, NoCall
<1>13. FoundWasIssued' /\ NoDatabaseOnlyAfterCreate'
  BY <1>1 DEF FoundWasIssued, NoDatabaseOnlyAfterCreate, NoLookup
<1> QED
  BY <1>9, <1>10, <1>11, <1>12, <1>13

\* The process ends, and with it its calls, its cache and its connections.
LEMMA StopKeepsIInv ==
  ASSUME IInv, Stop
  PROVE  IInv'
<1> USE DEF IInv
<1>1. /\ running' = FALSE /\ handler' = NoCall /\ service' = NoCall /\ answer' = NoLookup
      /\ cache' = NoRows /\ idle' = Idle({})
      /\ UNCHANGED <<adapter, database, named, disturbed, noDatabase, calls, enabled, tried>>
  BY DEF Stop
<1>2. NoCall \in Call /\ cache' \in [Id -> Row \cup {None}] /\ idle' \in [Connection -> Nat]
      /\ idle'["bare"] = 0
  BY <1>1 DEF NoCall, Call, NoRows, Connection, Idle
<1>3. TypeOK'
  BY <1>1, <1>2 DEF TypeOK, database
<1>4. RowsWereIssued'
  BY <1>1 DEF RowsWereIssued, NoRows, database
<1>5. BareIsExplained' /\ FoundWasIssued' /\ NoDatabaseOnlyAfterCreate'
  BY <1>1, <1>2 DEF BareIsExplained, FoundWasIssued, NoDatabaseOnlyAfterCreate, NoLookup
<1>6. IdentifiersAreFresh'
  BY <1>1 DEF IdentifiersAreFresh, NoCall, database
<1> QED
  BY <1>3, <1>4, <1>5, <1>6

\* A connection is lost: the next one may be without a database.
LEMMA LoseKeepsIInv ==
  ASSUME IInv, NEW c \in Connection, Lose(c)
  PROVE  IInv'
<1> USE DEF IInv
<1>1. /\ idle[c] > 0 /\ idle' = [idle EXCEPT ![c] = @ - 1] /\ disturbed' = TRUE
      /\ answer' = NoLookup
      /\ UNCHANGED <<adapter, database, process, handler, service, named, noDatabase, calls>>
  BY DEF Lose
<1>2. idle \in [Connection -> Nat] /\ "bare" \in Connection
  BY DEF TypeOK, Connection
<1>3. idle' \in [Connection -> Nat] /\ idle'["bare"] <= idle["bare"]
  BY <1>1, <1>2
<1>4. Explained => Explained'
  BY <1>1 DEF Explained, process
<1>5. TypeOK' /\ RowsWereIssued' /\ IdentifiersAreFresh'
  BY <1>1, <1>3 DEF TypeOK, RowsWereIssued, IdentifiersAreFresh, database, process
<1>6. BareIsExplained'
  BY <1>1, <1>2, <1>3, <1>4 DEF BareIsExplained, process
<1>7. FoundWasIssued' /\ NoDatabaseOnlyAfterCreate'
  BY <1>1 DEF FoundWasIssued, NoDatabaseOnlyAfterCreate, NoLookup, process
<1> QED
  BY <1>5, <1>6, <1>7

\* A handler's call begins.
LEMMA CallKeepsIInv ==
  ASSUME IInv, NEW c \in Connection, NEW u \in User, NEW h \in Hostname,
         CallDelete(u, h, c) \/ \E i \in Id : CallInsert(u, h, i, c)
  PROVE  IInv'
<1> USE DEF IInv
<1>1. /\ running /\ TakeConnection(c) /\ calls' = calls + 1 /\ answer' = NoLookup
      /\ UNCHANGED <<adapter, database, process, service>>
  BY DEF CallDelete, CallInsert
<1>2. handler' \in Call /\ handler'.conn = c
  BY DEF CallDelete, CallInsert, Call
<1>3. /\ idle' \in [Connection -> Nat] /\ disturbed' \in BOOLEAN /\ UNCHANGED <<named, noDatabase>>
      /\ Explained => Explained'
      /\ idle'["bare"] > 0 => Explained'
      /\ c = "bare" => Explained'
  BY <1>1, TakeEffect
<1>4. TypeOK'
  BY <1>1, <1>2, <1>3 DEF TypeOK, database, process
<1>5. RowsWereIssued' /\ IdentifiersAreFresh'
  BY <1>1 DEF RowsWereIssued, IdentifiersAreFresh, database, process
<1>6. BareIsExplained'
  BY <1>1, <1>2, <1>3 DEF BareIsExplained, process
<1>7. FoundWasIssued' /\ NoDatabaseOnlyAfterCreate'
  BY <1>1, <1>3 DEF FoundWasIssued, NoDatabaseOnlyAfterCreate, NoLookup, Explained
<1> QED
  BY <1>4, <1>5, <1>6, <1>7

\* A call of the processing goroutine begins: a lookup or a Save.
LEMMA ServiceCallKeepsIInv ==
  ASSUME IInv, NEW c \in Connection,
         \/ \E i \in Id, h \in Hostname : CallGetSubscription(i, h, c)
         \/ \E e \in Event : CallSave(e, c)
  PROVE  IInv'
<1> USE DEF IInv
<1>1. /\ running /\ TakeConnection(c) /\ answer' = NoLookup
      /\ UNCHANGED <<adapter, database, process, handler>>
  BY DEF CallGetSubscription, CallSave
<1>2. service' \in Call /\ service'.conn = c /\ service'.op \in {"lookup", "save", "incr"}
  <2>1. CASE \E i \in Id, h \in Hostname : CallGetSubscription(i, h, c)
    BY <2>1 DEF CallGetSubscription, Call
  <2>2. ASSUME NEW e \in Event, CallSave(e, c)
        PROVE  service' \in Call /\ service'.conn = c /\ service'.op \in {"lookup", "save", "incr"}
    <3>1. \E o \in {"incr", "save"} :
            service' = [op |-> o, event |-> e, id |-> 0, blind |-> FALSE, conn |-> c]
      BY <2>2 DEF CallSave
    <3> QED
      BY <3>1 DEF Call
  <2> QED
    BY <2>1, <2>2
<1>3. calls' \in Nat
  BY DEF TypeOK, CallGetSubscription, CallSave
<1>4. /\ idle' \in [Connection -> Nat] /\ disturbed' \in BOOLEAN /\ UNCHANGED <<named, noDatabase>>
      /\ Explained => Explained'
      /\ idle'["bare"] > 0 => Explained'
      /\ c = "bare" => Explained'
  BY <1>1, TakeEffect
<1>5. TypeOK'
  BY <1>1, <1>2, <1>3, <1>4 DEF TypeOK, database, process
<1>6. RowsWereIssued' /\ IdentifiersAreFresh'
  BY <1>1, <1>2 DEF RowsWereIssued, IdentifiersAreFresh, database, process
<1>7. BareIsExplained'
  BY <1>1, <1>2, <1>4 DEF BareIsExplained, process
<1>8. FoundWasIssued' /\ NoDatabaseOnlyAfterCreate'
  BY <1>1, <1>4 DEF FoundWasIssued, NoDatabaseOnlyAfterCreate, NoLookup, Explained
<1> QED
  BY <1>5, <1>6, <1>7, <1>8

\* A handler's call ends, with its effect or with an error.
LEMMA HandlerKeepsIInv ==
  ASSUME IInv, InsertOwnerHostname \/ DeleteOwnerHostname \/ HandlerFails
  PROVE  IInv'
<1> USE DEF IInv
<1>1. /\ handler # NoCall /\ HandlerReturns
  BY DEF InsertOwnerHostname, DeleteOwnerHostname, HandlerFails, NoCall
<1>2. /\ handler' = NoCall /\ Returns(handler) /\ answer' = NoLookup
      /\ UNCHANGED <<adapter, latency, latid, process, service, calls>>
  BY <1>1 DEF HandlerReturns
<1>3. handler \in Call
  BY DEF TypeOK
<1>4. /\ idle' \in [Connection -> Nat] /\ noDatabase' \in BOOLEAN /\ UNCHANGED <<named, disturbed>>
      /\ Explained' = Explained
      /\ idle'["bare"] > 0 => Explained
      /\ noDatabase' => Explained
  BY <1>1, <1>2, <1>3, ReturnEffect
<1>5. /\ rows' \subseteq issued' /\ issued \subseteq issued' /\ issued' \subseteq Row
  <2>1. CASE InsertOwnerHostname
    <3> DEFINE r == [user |-> handler.user, host |-> handler.host, id |-> handler.id]
    <3>1. issued' = issued \cup {r} /\ rows' \subseteq {r} \cup rows
      BY <2>1 DEF InsertOwnerHostname
    <3>2. r \in Row
      BY <2>1, <1>3 DEF InsertOwnerHostname, Call, Row
    <3> HIDE DEF r
    <3> QED
      BY <3>1, <3>2 DEF RowsWereIssued, TypeOK
  <2>2. CASE DeleteOwnerHostname \/ HandlerFails
    BY <2>2 DEF DeleteOwnerHostname, HandlerFails, RowsWereIssued, TypeOK
  <2> QED
    BY <2>1, <2>2
<1>6. TypeOK'
  <2>1. NoCall \in Call
    BY DEF NoCall, Call
  <2> QED
    BY <1>2, <1>4, <1>5, <2>1 DEF TypeOK, process
<1>7. RowsWereIssued' /\ IdentifiersAreFresh'
  BY <1>2, <1>5 DEF RowsWereIssued, IdentifiersAreFresh, process
<1>8. BareIsExplained'
  BY <1>2, <1>4 DEF BareIsExplained, process
<1>9. FoundWasIssued' /\ NoDatabaseOnlyAfterCreate'
  BY <1>2, <1>4 DEF FoundWasIssued, NoDatabaseOnlyAfterCreate, NoLookup, Explained
<1> QED
  BY <1>6, <1>7, <1>8, <1>9

\* A lookup that the cache answers.
LEMMA HitKeepsIInv ==
  ASSUME IInv, NEW i \in Id, NEW h \in Hostname, Hit(i, h)
  PROVE  IInv'
<1> USE DEF IInv
<1>1. /\ cache[i] # None
      /\ \E result \in LookupResults(cache[i], h) :
           answer' = [id |-> i, host |-> h, result |-> result]
      /\ UNCHANGED <<adapter, database, process, handler, service, pool, calls>>
  BY DEF Hit
<1>2. PICK result \in LookupResults(cache[i], h) :
        answer' = [id |-> i, host |-> h, result |-> result]
  BY <1>1
<1>3. FoundWasIssued'
  <2>1. result = "found" => cache[i].host = h
    BY <1>2 DEF LookupResults
  <2>2. cache[i] \in issued /\ (adapter # "rethinkdb" => cache[i].id = i)
    BY <1>1 DEF RowsWereIssued
  <2>3. issued' = issued /\ adapter' = adapter
    BY <1>1 DEF database
  <2> QED
    BY <1>2, <2>1, <2>2, <2>3 DEF FoundWasIssued
<1>4. TypeOK' /\ RowsWereIssued' /\ IdentifiersAreFresh'
  BY <1>1 DEF TypeOK, RowsWereIssued, IdentifiersAreFresh, database, process, pool
<1>5. BareIsExplained' /\ NoDatabaseOnlyAfterCreate'
  BY <1>1 DEF BareIsExplained, NoDatabaseOnlyAfterCreate, Explained, process, pool
<1> QED
  BY <1>3, <1>4, <1>5

\* A lookup that the database answers finds nothing.
LEMMA LookupKeepsIInv ==
  ASSUME IInv, GetSubscription
  PROVE  IInv'
<1> USE DEF IInv
<1>1. /\ service # NoCall /\ service' = NoCall /\ Returns(service)
      /\ answer'.result \in {"error", "notFound"}
      /\ UNCHANGED <<adapter, database, process, handler, calls>>
  <2>1. adapter \in {"mysql", "rethinkdb", "redis"}
    BY AdaptersAssumption DEF TypeOK
  <2> QED
    BY <2>1 DEF GetSubscription, NoCall, MySQLGetSubscription, RethinkDBGetSubscription,
                RedisGetSubscription
<1>2. service \in Call /\ NoCall \in Call
  BY DEF TypeOK, NoCall, Call
<1>3. /\ idle' \in [Connection -> Nat] /\ noDatabase' \in BOOLEAN /\ UNCHANGED <<named, disturbed>>
      /\ Explained' = Explained
      /\ idle'["bare"] > 0 => Explained
      /\ noDatabase' => Explained
  BY <1>1, <1>2, ReturnEffect
<1>4. TypeOK' /\ RowsWereIssued'
  BY <1>1, <1>2, <1>3 DEF TypeOK, RowsWereIssued, database, process
<1>5. IdentifiersAreFresh'
  BY <1>1 DEF IdentifiersAreFresh, NoCall, database
<1>6. BareIsExplained'
  BY <1>1, <1>3 DEF BareIsExplained, process
<1>7. FoundWasIssued' /\ NoDatabaseOnlyAfterCreate'
  BY <1>1, <1>3 DEF FoundWasIssued, NoDatabaseOnlyAfterCreate, Explained
<1> QED
  BY <1>4, <1>5, <1>6, <1>7

\* A Save ends, with its effect or with an error.
LEMMA SaveKeepsIInv ==
  ASSUME IInv, Save \/ SaveFails \/ HSet \/ HSetFails
  PROVE  IInv'
<1> USE DEF IInv
<1>1. /\ service # NoCall /\ service' = NoCall /\ Returns(service) /\ answer' = NoLookup
      /\ UNCHANGED <<adapter, rows, issued, process, handler, calls>>
  BY DEF Save, SaveFails, HSet, HSetFails, ServiceReturns, NoCall
<1>2. service \in Call /\ NoCall \in Call
  BY DEF TypeOK, NoCall, Call
<1>3. /\ idle' \in [Connection -> Nat] /\ noDatabase' \in BOOLEAN /\ UNCHANGED <<named, disturbed>>
      /\ Explained' = Explained
      /\ idle'["bare"] > 0 => Explained
      /\ noDatabase' => Explained
  BY <1>1, <1>2, ReturnEffect
<1>4. /\ latency' \subseteq Saved /\ latid' \in Nat
      /\ \A s \in latency' : s.id <= latid'
  <2>1. CASE Save
    <3>1. latid' = latid + 1 /\ service.event \in Event
          /\ latency' = latency \cup {[id |-> latid', event |-> service.event]}
      BY <2>1, <1>2 DEF Save, Call
    <3> QED
      BY <3>1 DEF TypeOK, Saved, IdentifiersAreFresh
  <2>2. CASE HSet
    <3>1. service.event \in Event /\ service.id \in Nat /\ service.id <= latid
      BY <2>2, <1>2 DEF HSet, Call, IdentifiersAreFresh
    <3>2. latid' = latid
          /\ latency' \subseteq latency \cup {[id |-> service.id, event |-> service.event]}
      BY <2>2 DEF HSet
    <3> QED
      BY <3>1, <3>2 DEF TypeOK, Saved, IdentifiersAreFresh
  <2>3. CASE SaveFails \/ HSetFails
    BY <2>3 DEF SaveFails, HSetFails, TypeOK, IdentifiersAreFresh
  <2> QED
    BY <2>1, <2>2, <2>3
<1>5. TypeOK' /\ RowsWereIssued'
  BY <1>1, <1>2, <1>3, <1>4 DEF TypeOK, RowsWereIssued, process
<1>6. IdentifiersAreFresh'
  BY <1>1, <1>4 DEF IdentifiersAreFresh, NoCall
<1>7. BareIsExplained'
  BY <1>1, <1>3 DEF BareIsExplained, process
<1>8. FoundWasIssued' /\ NoDatabaseOnlyAfterCreate'
  BY <1>1, <1>3 DEF FoundWasIssued, NoDatabaseOnlyAfterCreate, NoLookup, Explained
<1> QED
  BY <1>5, <1>6, <1>7, <1>8

\* INCR and GET: a Save that had no error has an identifier that no hash has.
LEMMA IncrKeepsIInv ==
  ASSUME IInv, Incr \/ Get
  PROVE  IInv'
<1> USE DEF IInv
<1>1. PICK o \in {"get", "hset"}, n \in Nat, f \in BOOLEAN : ContinueSave(o, n, f)
  BY DEF Incr, Get, TypeOK, Call
<1>2. /\ service' = [service EXCEPT !.op = o, !.id = n, !.blind = f] /\ answer' = NoLookup
      /\ UNCHANGED <<adapter, rows, latency, issued, process, handler, pool, calls>>
  BY <1>1 DEF ContinueSave
<1>3. /\ service \in [op : {"save", "incr", "get", "hset"}, event : Event, id : Nat,
                      blind : BOOLEAN, conn : Connection]
      /\ service.op \in {"incr", "get"}
  BY DEF Incr, Get, TypeOK, Call
<1>4. /\ service' \in Call /\ service'.op = o /\ service'.id = n /\ service'.blind = f
      /\ service'.conn = service.conn /\ service # NoCall /\ service' # NoCall
  <2>1. service' = [op |-> o, event |-> service.event, id |-> n, blind |-> f,
                    conn |-> service.conn]
    BY <1>2, <1>3
  <2>2. service.event \in Event /\ service.conn \in Connection
    BY <1>3
  <2>3. service' \in [op : {"save", "incr", "get", "hset"}, event : Event, id : Nat,
                      blind : BOOLEAN, conn : Connection]
    BY <2>1, <2>2
  <2>4. NoCall.op = "none" /\ service.op # "none" /\ service'.op = o /\ o # "none"
    BY <2>1, <1>3 DEF NoCall
  <2>5. service # NoCall /\ service' # NoCall
    BY <2>4
  <2> QED
    BY <2>1, <2>3, <2>5 DEF Call
<1>5. latid \in Nat /\ latid' \in {latid, latid + 1} /\ \A s \in latency : s.id \in Nat
  BY DEF Incr, Get, TypeOK, Saved
<1>6. TypeOK' /\ RowsWereIssued'
  BY <1>2, <1>4, <1>5 DEF TypeOK, RowsWereIssued, process, pool
<1>7. IdentifiersAreFresh'
  <2>1. CASE Incr
    <3>1. service'.op = "get" /\ (~service'.blind => latid' = latid + 1)
      BY <2>1 , <1>3 DEF Incr, ContinueSave
    <3> QED
      BY <3>1, <1>2, <1>5 DEF IdentifiersAreFresh
  <2>2. CASE Get
    <3>1. /\ service.op = "get" /\ service'.op = "hset" /\ latid' = latid
          /\ \/ service'.id = latid /\ service'.blind = service.blind
             \/ service'.id = 0 /\ service'.blind
      BY <2>2, <1>3 DEF Get, ContinueSave
    <3> QED
      BY <3>1, <1>2, <1>5 DEF IdentifiersAreFresh
  <2> QED
    BY <2>1, <2>2
<1>8. BareIsExplained' /\ FoundWasIssued' /\ NoDatabaseOnlyAfterCreate'
  <2>1. Explained' = Explained
    BY <1>2 DEF Explained, process, pool
  <2> QED
    BY <1>2, <1>4, <2>1 DEF BareIsExplained, FoundWasIssued, NoDatabaseOnlyAfterCreate, NoLookup,
                            Explained, process, pool
<1> QED
  BY <1>6, <1>7, <1>8

\* Nothing happens.
LEMMA StutterKeepsIInv ==
  ASSUME IInv, UNCHANGED vars
  PROVE  IInv'
<1>1. TypeOK' /\ RowsWereIssued' /\ IdentifiersAreFresh'
  BY DEF IInv, TypeOK, RowsWereIssued, IdentifiersAreFresh, vars, database, process, pool
<1>2. BareIsExplained' /\ FoundWasIssued' /\ NoDatabaseOnlyAfterCreate'
  BY DEF IInv, BareIsExplained, FoundWasIssued, NoDatabaseOnlyAfterCreate, Explained, vars,
         database, process, pool
<1> QED
  BY <1>1, <1>2 DEF IInv

\* Every state the program and its database reach satisfies the inductive invariant,
\* the types of their variables included.
THEOREM Inductive == Spec => []IInv
<1>1. Init => IInv
  BY InitIInv
<1>2. IInv /\ [Next]_vars => IInv'
  <2> SUFFICES ASSUME IInv, [Next]_vars PROVE IInv'
    OBVIOUS
  <2>1. CASE Open \/ CreateDb \/ CreateDbFails
    BY <2>1, BeginKeepsIInv
  <2>2. CASE Stop
    BY <2>2, StopKeepsIInv
  <2>3. ASSUME NEW c \in Connection, Lose(c) PROVE IInv'
    BY <2>3, LoseKeepsIInv
  <2>4. ASSUME NEW c \in Connection, NEW u \in User, NEW h \in Hostname,
               CallDelete(u, h, c) \/ \E i \in Id : CallInsert(u, h, i, c)
        PROVE  IInv'
    BY <2>4, CallKeepsIInv
  <2>5. ASSUME NEW c \in Connection,
               \/ \E i \in Id, h \in Hostname : CallGetSubscription(i, h, c)
               \/ \E e \in Event : CallSave(e, c)
        PROVE  IInv'
    BY <2>5, ServiceCallKeepsIInv
  <2>6. CASE InsertOwnerHostname \/ DeleteOwnerHostname \/ HandlerFails
    BY <2>6, HandlerKeepsIInv
  <2>7. ASSUME NEW i \in Id, NEW h \in Hostname, Hit(i, h) PROVE IInv'
    BY <2>7, HitKeepsIInv
  <2>8. CASE GetSubscription
    BY <2>8, LookupKeepsIInv
  <2>9. CASE Save \/ SaveFails \/ HSet \/ HSetFails
    BY <2>9, SaveKeepsIInv
  <2>10. CASE Incr \/ Get
    BY <2>10, IncrKeepsIInv
  <2>11. CASE UNCHANGED vars
    BY <2>11, StutterKeepsIInv
  <2> QED
    BY <2>1, <2>2, <2>3, <2>4, <2>5, <2>6, <2>7, <2>8, <2>9, <2>10, <2>11 DEF Next
<1> QED
  BY <1>1, <1>2, PTL DEF Spec

\* A subscription is found only for a hostname that it, or on RethinkDB another one,
\* was registered for (caching.go, over the three adapters' GetSubscriptions).
THEOREM FoundIsIssued == Spec => []FoundWasIssued
<1>1. IInv => FoundWasIssued
  BY DEF IInv
<1> QED
  BY <1>1, Inductive, PTL

\* A call fails for want of a database only in a process that called MySQL's CreateDb,
\* and only if that failed or its pool was disturbed since (mysql.go, CreateDb).
THEOREM NoDatabaseIsExplained == Spec => []NoDatabaseOnlyAfterCreate
<1>1. IInv => NoDatabaseOnlyAfterCreate
  BY DEF IInv
<1> QED
  BY <1>1, Inductive, PTL

\* While the process runs, a row goes only by the call of a handler for its own key
\* (InsertOwnerHostname and DeleteOwnerHostname of the adapters).
THEOREM RowsGoByOwner == Spec => RowsGoByTheirOwner
<1>1. [Next]_vars => [running => \A r \in rows \ rows' : SameKey(r, handler.user, handler.host)]_vars
  <2> SUFFICES ASSUME [Next]_vars, running, NEW r \in rows \ rows'
               PROVE  SameKey(r, handler.user, handler.host)
    BY DEF vars
  <2>1. rows' # rows
    OBVIOUS
  <2>2. CASE InsertOwnerHostname
    BY <2>2 DEF InsertOwnerHostname
  <2>3. CASE DeleteOwnerHostname
    BY <2>3 DEF DeleteOwnerHostname
  <2> QED
    BY <2>1, <2>2, <2>3 DEF Next, Open, CreateDb, CreateDbFails, Begin, Stop, Lose, CallDelete, CallInsert,
       CallGetSubscription, CallSave, HandlerFails, Hit, GetSubscription, Save, SaveFails,
       Incr, Get, HSet, HSetFails, ContinueSave, ServiceReturns, database, vars
<1> QED
  BY <1>1, PTL DEF Spec, RowsGoByTheirOwner

\* While the process runs, a saved event is overwritten only by a Save that ignored an
\* error of INCR or GET (redis.go, Save).
THEOREM SavedStays == Spec => SavedIsKept
<1>1. IInv /\ [Next]_vars => [running => \A s \in latency \ latency' : service.blind]_vars
  <2> SUFFICES ASSUME IInv, [Next]_vars, running, NEW s \in latency \ latency'
               PROVE  service.blind
    BY DEF vars
  <2>1. latency' # latency
    OBVIOUS
  <2>2. CASE Save
    BY <2>2 DEF Save
  <2>3. CASE HSet
    <3>1. service.op = "hset" /\ s.id = service.id
      BY <2>3 DEF HSet
    <3>2. service.blind \in BOOLEAN
      BY <3>1 DEF IInv, TypeOK, Call
    <3> QED
      BY <3>1, <3>2 DEF IInv, IdentifiersAreFresh
  <2> QED
    BY <2>1, <2>2, <2>3 DEF Next, Open, CreateDb, CreateDbFails, Begin, Stop, Lose, CallDelete, CallInsert,
       CallGetSubscription, CallSave, InsertOwnerHostname, DeleteOwnerHostname, HandlerReturns,
       HandlerFails, Hit, GetSubscription, SaveFails, Incr, Get, HSetFails, ContinueSave,
       ServiceReturns, database, vars
<1> QED
  BY <1>1, Inductive, PTL DEF Spec, SavedIsKept
=============================================================================
