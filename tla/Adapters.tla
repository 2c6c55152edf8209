------------------------------ MODULE Adapters ------------------------------
(***************************************************************************)
(* The MySQL, RethinkDB and Redis adapters under the program: the rows of  *)
(* owned hostnames, which handlers insert and delete and the caching       *)
(* service loads and looks up, and the events the processing goroutine     *)
(* saves.  (The ClickHouse adapter is in Subscriptions.)                   *)
(*                                                                         *)
(* One handler and the goroutine use the adapter at the same time.  A call *)
(* that fails after its effect is a call that succeeds, as far as the      *)
(* state goes; no property is about what it returns.  For MySQL each call  *)
(* holds a connection of the pool; after a CreateDb, also one that failed, *)
(* the pool's address has no database, and only the connection that        *)
(* executed "USE" has one.  A call whose table a failed CreateDb did not   *)
(* create is one of those that fail.                                       *)
(***************************************************************************)
EXTENDS Naturals, FiniteSets

CONSTANTS Adapters,      \* the adapters to consider
          User, Hostname, Id,
          KeyOf(_, _),   \* the Redis key of a user and a hostname: the two
                         \* names, one after the other without a separator
          Event, None,
          MaxCalls       \* bound of the calls that write

ASSUME AdaptersAssumption ==
  /\ Adapters \subseteq {"mysql", "rethinkdb", "redis"}
  /\ None \notin Id \cup Event \cup Hostname
  /\ MaxCalls \in Nat

VARIABLES
  adapter,
  \* the database
  rows,      \* the rows of owned hostnames
  latency,   \* saved events, under their identifiers
  latid,     \* the last identifier given
  \* the process
  running, cache,
  enabled,   \* subscriptions are
  handler,   \* the call of a handler
  service,   \* the call of the processing goroutine
  answer,    \* of the lookup just made
  \* MySQL's pool
  named,     \* its address names the database
  idle,      \* idle connections with and without a database
  \* history
  issued,    \* every row ever inserted
  calls,     \* calls that write, so far
  tried,     \* the process began with a CreateDb
  disturbed, \* it failed, or since then a connection was lost or two calls overlapped
  noDatabase \* a call failed for want of a database

database == <<rows, latency, latid, issued>>
pool == <<named, idle, disturbed, noDatabase>>
process == <<running, cache, enabled, tried>>
vars == <<adapter, database, process, handler, service, answer, pool, calls>>

Row == [user : User, host : Hostname, id : Id]
Connection == {"database", "bare"}
Saved == [id : Nat, event : Event]
NoCall == [op |-> "none"]
NoLookup == [id |-> None, host |-> None, result |-> "none"]
NoRows == [i \in Id |-> None]

Init == /\ adapter \in Adapters
        /\ rows = {} /\ latency = {} /\ latid = 0
        /\ running = FALSE /\ cache = NoRows
        /\ handler = NoCall /\ service = NoCall /\ answer = NoLookup
        /\ named = TRUE /\ idle = [c \in Connection |-> 0]
        /\ issued = {} /\ calls = 0
        /\ enabled = FALSE /\ tried = FALSE /\ disturbed = FALSE /\ noDatabase = FALSE

(***************************************************************************)
(* GetSubscriptions, as Load calls it.                                     *)
(***************************************************************************)
ById(R) == [i \in Id |-> IF \E r \in R : r.id = i THEN CHOOSE r \in R : r.id = i ELSE None]

\* One variable takes every document, and every entry of the result points to it:
\* what it holds in the end is the last document read.
RethinkDBGetSubscriptions ==
  IF rows = {} THEN {NoRows}
  ELSE {[i \in Id |-> IF ById(rows)[i] = None THEN None ELSE last] : last \in rows}

\* A variable of its own for every row.
MySQLGetSubscriptions == {ById(rows)}

\* One page of SCAN: its cursor is not followed.
RedisGetSubscriptions == {ById(page) : page \in SUBSET rows}

GetSubscriptions == CASE adapter = "mysql"     -> MySQLGetSubscriptions
                      [] adapter = "rethinkdb" -> RethinkDBGetSubscriptions
                      [] adapter = "redis"     -> RedisGetSubscriptions

(***************************************************************************)
(* The process: main opens the database, and creates it anew if asked;     *)
(* Load; the end of the process.                                           *)
(***************************************************************************)
Begin ==
  /\ ~running /\ running' = TRUE
  /\ enabled' \in BOOLEAN /\ noDatabase' = FALSE
  /\ answer' = NoLookup /\ UNCHANGED <<adapter, handler, service, calls, issued>>

\* Load reads nothing where subscriptions are disabled.
Load == cache' \in IF enabled' THEN GetSubscriptions ELSE {NoRows}

Idle(C) == [c \in Connection |-> IF c \in C THEN 1 ELSE 0]

Emptied == rows' = {} /\ latency' = {} /\ latid' = 0 /\ cache' = NoRows

OpenNameless ==
  /\ Begin
  /\ named' = FALSE /\ tried' = FALSE /\ disturbed' = FALSE /\ idle' = Idle({})
  /\ Load /\ UNCHANGED <<rows, latency, latid>>

\* Ping and the query of the version leave a connection in the pool.
Open ==
  /\ Begin
  /\ named' = TRUE /\ tried' = FALSE /\ disturbed' = FALSE /\ idle' = Idle({"database"})
  /\ Load /\ UNCHANGED <<rows, latency, latid>>

\* MySQL's pool is closed and opened again without a database; the transaction's
\* connection goes back to it with the one that "USE" selected.
CreateDb ==
  /\ Begin
  /\ \/ Emptied
     \/ /\ adapter = "redis" \* the error of the flush is ignored
        /\ Load /\ UNCHANGED <<rows, latency, latid>>
  /\ named' = FALSE /\ tried' = TRUE /\ disturbed' = FALSE /\ idle' = Idle({"database"})

\* MySQL's CreateDb fails, and main goes on.  Its connection goes back as it is, with
\* a database only once "USE" was reached, or not at all: it is broken, or the error
\* is one that a variable of the same name hides from the Rollback.  Load, which
\* fails without a database, ends main.
CreateDbFails ==
  /\ adapter = "mysql" /\ Begin
  /\ \/ \E C \in {{}, {"bare"}} : idle' = Idle(C) /\ ~enabled'
     \/ idle' = Idle({"database"})
  /\ \/ Emptied
     \/ idle'["database"] = 0 /\ cache' = NoRows /\ UNCHANGED <<rows, latency, latid>>
  /\ named' = FALSE /\ tried' = TRUE /\ disturbed' = TRUE

Stop ==
  /\ running /\ running' = FALSE
  /\ handler' = NoCall /\ service' = NoCall /\ answer' = NoLookup /\ cache' = NoRows
  /\ idle' = Idle({})
  /\ UNCHANGED <<adapter, database, named, disturbed, noDatabase, calls, enabled, tried>>

(***************************************************************************)
(* Connections.  A call takes an idle connection, or opens one.            *)
(***************************************************************************)
Take(c) ==
  /\ \/ idle[c] > 0 /\ idle' = [idle EXCEPT ![c] = @ - 1] /\ UNCHANGED disturbed
     \/ /\ idle["database"] + idle["bare"] = 0
        /\ c = IF named THEN "database" ELSE "bare"
        /\ disturbed' = TRUE /\ UNCHANGED idle
  /\ UNCHANGED <<named, noDatabase>>

Return(c) ==
  /\ idle' = [idle EXCEPT ![c] = @ + 1]
  /\ UNCHANGED <<named, disturbed>>

Lose(c) ==
  /\ idle[c] > 0
  /\ idle' = [idle EXCEPT ![c] = @ - 1] /\ disturbed' = TRUE
  /\ answer' = NoLookup
  /\ UNCHANGED <<adapter, database, process, handler, service, named, noDatabase, calls>>

\* The other adapters' clients are taken to be connected.
TakeConnection(c) == IF adapter = "mysql" THEN Take(c) ELSE c = "database" /\ UNCHANGED pool

\* A call on a connection without a database fails.
Returns(call) == /\ IF adapter = "mysql" THEN Return(call.conn)
                    ELSE UNCHANGED <<named, idle, disturbed>>
                 /\ noDatabase' = (noDatabase \/ call.conn = "bare")

(***************************************************************************)
(* RegisterHostname and DeleteHostname.                                    *)
(***************************************************************************)
SameKey(r, u, h) == IF adapter = "redis" THEN KeyOf(r.user, r.host) = KeyOf(u, h)
                                         ELSE r.user = u /\ r.host = h

CallInsert(u, h, i, c) ==
  /\ running /\ handler = NoCall /\ calls < MaxCalls /\ calls' = calls + 1
  /\ \A r \in issued : r.id # i
  /\ TakeConnection(c)
  /\ handler' = [op |-> "insert", user |-> u, host |-> h, id |-> i, conn |-> c]
  /\ answer' = NoLookup /\ UNCHANGED <<adapter, database, process, service>>

CallDelete(u, h, c) ==
  /\ running /\ handler = NoCall /\ calls < MaxCalls /\ calls' = calls + 1
  /\ TakeConnection(c)
  /\ handler' = [op |-> "delete", user |-> u, host |-> h, conn |-> c]
  /\ answer' = NoLookup /\ UNCHANGED <<adapter, database, process, service>>

HandlerReturns ==
  /\ handler' = NoCall /\ Returns(handler)
  /\ answer' = NoLookup /\ UNCHANGED <<adapter, latency, latid, process, service, calls>>

InsertOwnerHostname ==
  /\ handler.op = "insert" /\ handler.conn = "database"
  /\ LET r == [user |-> handler.user, host |-> handler.host, id |-> handler.id] IN
       /\ rows' = {r} \cup IF adapter = "redis" THEN {q \in rows : ~SameKey(q, r.user, r.host)}
                           ELSE rows
       /\ issued' = issued \cup {r}
  /\ HandlerReturns

DeleteOfAnyUser ==
  /\ handler.op = "delete" /\ handler.conn = "database" /\ adapter # "rethinkdb"
  /\ rows' = {r \in rows : r.host # handler.host}
  /\ HandlerReturns /\ UNCHANGED issued

\* RethinkDB's delete asks for an index that nothing creates.
DeleteOwnerHostname ==
  /\ handler.op = "delete" /\ handler.conn = "database" /\ adapter # "rethinkdb"
  /\ rows' = {r \in rows : ~SameKey(r, handler.user, handler.host)}
  /\ HandlerReturns /\ UNCHANGED issued

HandlerFails ==
  /\ handler # NoCall
  /\ HandlerReturns /\ UNCHANGED <<rows, issued>>

(***************************************************************************)
(* The caching service's GetSubscription.                                  *)
(***************************************************************************)
\* Time is left out: a subscription may have expired.  Redis reads the expiry back
\* in another format than it was written in; what is left, the zero time, has.
LookupResults(r, h) == {"expired"} \cup IF adapter = "redis" THEN {}
                                       ELSE IF r.host # h THEN {"notFound"} ELSE {"found"}

Hit(i, h) ==
  /\ running /\ service = NoCall /\ cache[i] # None
  /\ \E result \in LookupResults(cache[i], h) :
       answer' = [id |-> i, host |-> h, result |-> result]
  /\ UNCHANGED <<adapter, database, process, handler, service, pool, calls>>

CallGetSubscription(i, h, c) ==
  /\ running /\ enabled /\ service = NoCall /\ cache[i] = None
  /\ TakeConnection(c)
  /\ service' = [op |-> "lookup", id |-> i, host |-> h, conn |-> c]
  /\ answer' = NoLookup /\ UNCHANGED <<adapter, database, process, handler, calls>>

\* A row is scanned without asking for the next one first, which is an error.
MySQLGetSubscription == "error"

\* The identifier is looked up among the primary keys, which it is not one of.
RethinkDBGetSubscription == "notFound"

\* No key matches the pattern, which lacks its wildcard.
RedisGetSubscription == "notFound"

GetSubscription ==
  /\ service.op = "lookup"
  /\ answer' = [id |-> service.id, host |-> service.host,
                result |-> CASE adapter = "mysql"     -> MySQLGetSubscription
                             [] adapter = "rethinkdb" -> RethinkDBGetSubscription
                             [] adapter = "redis"     -> RedisGetSubscription]
  /\ service' = NoCall /\ Returns(service)
  /\ UNCHANGED <<adapter, database, process, handler, calls>>

(***************************************************************************)
(* Save.                                                                   *)
(***************************************************************************)
CallSave(e, c) ==
  /\ running /\ service = NoCall /\ calls < MaxCalls
  /\ calls' = calls + 1
  /\ TakeConnection(c)
  /\ service' = [op |-> IF adapter = "redis" THEN "incr" ELSE "save",
                 event |-> e, id |-> 0, blind |-> FALSE, conn |-> c]
  /\ answer' = NoLookup /\ UNCHANGED <<adapter, database, process, handler>>

ServiceReturns ==
  /\ service' = NoCall /\ Returns(service)
  /\ answer' = NoLookup /\ UNCHANGED <<adapter, rows, issued, process, handler, calls>>

\* MySQL and RethinkDB give the row an identifier of its own.
Save ==
  /\ service.op = "save" /\ service.conn = "database"
  /\ latid' = latid + 1 /\ latency' = latency \cup {[id |-> latid', event |-> service.event]}
  /\ ServiceReturns

SaveFails ==
  /\ service.op = "save"
  /\ ServiceReturns /\ UNCHANGED <<latency, latid>>

ContinueSave(op, id, blind) ==
  /\ service' = [service EXCEPT !.op = op, !.id = id, !.blind = blind]
  /\ answer' = NoLookup
  /\ UNCHANGED <<adapter, rows, latency, issued, process, handler, pool, calls>>

IncrForgotten ==
  /\ service.op = "incr"
  /\ ContinueSave("get", 0, FALSE) /\ latid' = latid

\* The errors of INCR and GET are ignored; a failed GET leaves identifier zero.
Incr ==
  /\ service.op = "incr"
  /\ \/ ContinueSave("get", 0, FALSE) /\ latid' = latid + 1
     \/ ContinueSave("get", 0, TRUE) /\ latid' \in {latid, latid + 1}

Get ==
  /\ service.op = "get" /\ UNCHANGED latid
  /\ \/ ContinueSave("hset", latid, service.blind)
     \/ ContinueSave("hset", 0, TRUE)

HSet ==
  /\ service.op = "hset" /\ UNCHANGED latid
  /\ latency' = {s \in latency : s.id # service.id}
                  \cup {[id |-> service.id, event |-> service.event]}
  /\ ServiceReturns

HSetFails ==
  /\ service.op = "hset"
  /\ ServiceReturns /\ UNCHANGED <<latency, latid>>

Next ==
  \/ Open \/ CreateDb \/ CreateDbFails \/ Stop
  \/ \E c \in Connection :
       \/ Lose(c)
       \/ \E u \in User, h \in Hostname : CallDelete(u, h, c)
       \/ \E u \in User, h \in Hostname, i \in Id : CallInsert(u, h, i, c)
       \/ \E i \in Id, h \in Hostname : CallGetSubscription(i, h, c)
       \/ \E e \in Event : CallSave(e, c)
  \/ InsertOwnerHostname \/ DeleteOwnerHostname \/ HandlerFails
  \/ \E i \in Id, h \in Hostname : Hit(i, h)
  \/ GetSubscription
  \/ Save \/ SaveFails \/ Incr \/ Get \/ HSet \/ HSetFails

Spec == Init /\ [][Next]_vars

(***************************************************************************)
(* Properties.                                                             *)
(***************************************************************************)
Call == [op : {"none"}]
        \cup [op : {"insert"}, user : User, host : Hostname, id : Id, conn : Connection]
        \cup [op : {"delete"}, user : User, host : Hostname, conn : Connection]
        \cup [op : {"lookup"}, id : Id, host : Hostname, conn : Connection]
        \cup [op : {"save", "incr", "get", "hset"}, event : Event, id : Nat, blind : BOOLEAN,
              conn : Connection]

\* Every variable has the type its declaration says.
TypeOK ==
  /\ adapter \in Adapters
  /\ rows \subseteq Row /\ latency \subseteq Saved /\ latid \in Nat
  /\ running \in BOOLEAN /\ cache \in [Id -> Row \cup {None}]
  /\ handler \in Call /\ service \in Call
  /\ named \in BOOLEAN /\ idle \in [Connection -> Nat]
  /\ issued \subseteq Row /\ calls \in Nat
  /\ enabled \in BOOLEAN /\ tried \in BOOLEAN /\ disturbed \in BOOLEAN /\ noDatabase \in BOOLEAN

\* A subscription is found only for a hostname for which it was registered.  On
\* RethinkDB, whose entries all point to the last row, for a hostname for which some
\* subscription was.
FoundWasIssued ==
  answer.result = "found" =>
    \E r \in issued : r.host = answer.host /\ (adapter # "rethinkdb" => r.id = answer.id)

\* While the process runs, a row goes only by a call for its own user and hostname,
\* on Redis for a user and hostname that make the same key.
RowsGoByTheirOwner ==
  [][running => \A r \in rows \ rows' : SameKey(r, handler.user, handler.host)]_vars

\* While the process runs, a saved event stays as it is, unless it is a Redis hash
\* overwritten by a later Save that ignored an error of INCR or GET.
SavedIsKept == [][running => \A s \in latency \ latency' : service.blind]_vars

\* A call fails for want of a selected database only in a process that called
\* CreateDb, and only if this failed or, since then, a connection was lost or two
\* calls overlapped.
NoDatabaseOnlyAfterCreate == noDatabase => adapter = "mysql" /\ tried /\ disturbed

(***************************************************************************)
(* What makes them inductive.                                              *)
(***************************************************************************)
\* The table and the cache hold rows that were issued.
RowsWereIssued ==
  /\ rows \subseteq issued
  /\ \A i \in Id : cache[i] # None =>
       cache[i] \in issued /\ (adapter # "rethinkdb" => cache[i].id = i)

Explained == adapter = "mysql" /\ tried /\ disturbed

\* Wherever a connection without a database is, it is explained.
BareIsExplained ==
  /\ running /\ ~tried => named
  /\ idle["bare"] > 0 => Explained
  /\ \A call \in {handler, service} : call # NoCall /\ call.conn = "bare" => Explained
  /\ ~running => handler = NoCall /\ service = NoCall

\* Redis: the identifier that a Save got without an error is not in use.
IdentifiersAreFresh ==
  /\ \A s \in latency : s.id <= latid
  /\ service.op = "get" /\ ~service.blind => \A s \in latency : s.id < latid
  /\ service.op = "hset" => /\ service.id <= latid
                            /\ ~service.blind => \A s \in latency : s.id # service.id

IInv == /\ TypeOK /\ RowsWereIssued /\ BareIsExplained /\ IdentifiersAreFresh
        /\ FoundWasIssued /\ NoDatabaseOnlyAfterCreate
=============================================================================
