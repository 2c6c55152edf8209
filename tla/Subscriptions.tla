---------------------------- MODULE Subscriptions ----------------------------
(***************************************************************************)
(* Subscriptions of owned hostnames: the private REST API registers and    *)
(* deletes rows of the owner table, and the caching service answers        *)
(* GetSubscription for the processing goroutine from memory, falling back  *)
(* to the table.  The table is ClickHouse's ReplacingMergeTree ordered by  *)
(* hostname: an insert adds a version, reads see the newest version of a   *)
(* hostname, and a background merge drops the older ones.                  *)
(***************************************************************************)
EXTENDS Naturals, FiniteSets

CONSTANTS User, Hostname,
          Id,          \* subscription identifiers, each generated once
          None,
          ReadsFail,   \* whether the connection may break between the answer
                       \* to GetSubscription's query and its row
          Trial,       \* the trial period, in units of the clock
          MaxTime      \* bound of the clock

Row == [user : User, host : Hostname, id : Id, expires : Nat, version : Nat]
Request == [user : User, host : Hostname, id : Id, expires : Nat]

ASSUME SubscriptionsAssumption ==
  /\ None \notin Id \cup User \cup Hostname \cup Row /\ ReadsFail \in BOOLEAN
  /\ Trial \in Nat \ {0} /\ MaxTime \in Nat

VARIABLES
  now,
  rows,         \* the versions in the owner table
  version,      \* of the next insert
  registering,  \* subscriptions generated by handlers and not yet inserted
  running,      \* the process is up, its cache loaded
  cache,        \* subscription identifier -> row, or None
  stage,        \* of the current call of GetSubscription
  askedId, askedHost, item,
  answer,       \* of the last call
  \* history
  generated,       \* identifiers generated so far
  issued,          \* every row that was ever inserted
  seen,            \* identifiers a read of the table could have returned since Load
  registeredAtAsk, \* the table had the asked row when the call began
  broken,          \* the call's read of the table broke unnoticed
  expiredIds       \* identifiers answered as expired

vars == <<now, rows, version, registering, running, cache, stage, askedId, askedHost, item,
          answer, generated, issued, seen, registeredAtAsk, broken, expiredIds>>
table == <<rows, version, issued>>
callVars == <<stage, askedId, askedHost, item, answer, registeredAtAsk, broken, expiredIds>>

Answer == {"none", "found", "expired", "notFound", "error"}

Newest(R, r) == \A q \in R : q.host = r.host => q.version <= r.version
Visible(R) == {r \in R : Newest(R, r)}
IdsOf(R) == {r.id : r \in R}

ByIdUnmerged(R) == [i \in Id |-> IF \E r \in R : r.id = i
                                 THEN CHOOSE r \in R : r.id = i ELSE None]

\* GetSubscriptions and GetSubscription select FINAL: the visible rows by
\* identifier.
ById(R) == [i \in Id |-> IF \E r \in Visible(R) : r.id = i
                         THEN CHOOSE r \in Visible(R) : r.id = i ELSE None]

Init == /\ now = 0 /\ rows = {} /\ version = 0 /\ registering = {}
        /\ running = FALSE /\ cache = [i \in Id |-> None]
        /\ stage = "idle" /\ askedId = None /\ askedHost = None /\ item = None
        /\ answer = "none" /\ generated = {} /\ issued = {} /\ seen = {}
        /\ registeredAtAsk = FALSE /\ broken = FALSE /\ expiredIds = {}

ClockTick == /\ now < MaxTime
             /\ now' = now + 1
             /\ UNCHANGED <<table, registering, running, cache, callVars, generated, seen>>

(***************************************************************************)
(* The private API.  Its handlers run concurrently and register or delete  *)
(* a hostname.  A request without the token, without a user or without a   *)
(* hostname is answered with an error and changes nothing; None stands for *)
(* the empty string, and for a body that is not the JSON of a hostname     *)
(* (one that is null makes the handler panic, which net/http recovers).    *)
(***************************************************************************)
Form == [token : BOOLEAN, host : Hostname \cup {None}, user : User \cup {None}]

Accepted(f) == f.token /\ f.host # None /\ f.user # None

NewSubscriptionReusesId(u, h, i) ==
  /\ running
  /\ generated' = generated \cup {i}
  /\ registering' = registering \cup
       {[user |-> u, host |-> h, id |-> i, expires |-> now + Trial]}
  /\ version < 3
  /\ UNCHANGED <<now, table, running, cache, callVars, seen>>

NewSubscriptionRenews(u, h, i) ==
  /\ running /\ registering = {} /\ version < 2
  /\ i \in generated => \E r \in rows : r.id = i /\ r.host = h /\ r.user = u
  /\ generated' = generated \cup {i}
  /\ registering' = {[user |-> u, host |-> h, id |-> i, expires |-> now + Trial]}
  /\ UNCHANGED <<now, table, running, cache, callVars, seen>>

NewSubscription(u, h, i) ==
  /\ running /\ i \notin generated
  /\ generated' = generated \cup {i}
  /\ registering' = registering \cup
       {[user |-> u, host |-> h, id |-> i, expires |-> now + Trial]}
  /\ UNCHANGED <<now, table, running, cache, callVars, seen>>

InsertOwnerHostname(q) ==
  /\ q \in registering
  /\ registering' = registering \ {q}
  /\ LET r == [user |-> q.user, host |-> q.host, id |-> q.id, expires |-> q.expires,
               version |-> version]
     IN /\ rows' = rows \cup {r} /\ issued' = issued \cup {r}
        /\ version' = version + 1
        /\ seen' = seen \cup {q.id}
  /\ UNCHANGED <<now, running, cache, callVars, generated>>

InsertFails(q) ==
  /\ q \in registering
  /\ registering' = registering \ {q}
  /\ UNCHANGED <<now, table, running, cache, callVars, generated, seen>>

CreateHostname(f, i) == Accepted(f) /\ NewSubscription(f.user, f.host, i)

\* An owner's older version may become visible when the newest one is deleted.
\* A failed delete changes nothing.
DeleteOwnerHostname(h, u) ==
  /\ running
  /\ rows' = {r \in rows : ~(r.host = h /\ r.user = u)}
  /\ seen' = seen \cup IdsOf(Visible(rows'))
  /\ UNCHANGED <<now, version, issued, registering, running, cache, callVars, generated>>

DeleteHostname(f) == Accepted(f) /\ DeleteOwnerHostname(f.host, f.user)

Merge(h) ==
  /\ rows' = {r \in rows : r.host = h => Newest(rows, r)}
  /\ rows' # rows
  /\ UNCHANGED <<now, version, issued, registering, running, cache, callVars, generated, seen>>

(***************************************************************************)
(* The process: Load before the servers start, end of the process.         *)
(***************************************************************************)
Load ==
  /\ ~running
  /\ running' = TRUE
  /\ cache' = ById(rows)
  /\ seen' = IdsOf(Visible(rows))
  /\ UNCHANGED <<now, table, registering, callVars, generated>>

\* Requests in flight and the call of the processing goroutine die with the
\* process, and so does the cache.
Stop ==
  /\ running
  /\ running' = FALSE /\ registering' = {}
  /\ stage' = "idle" /\ answer' = "none"
  /\ askedId' = None /\ askedHost' = None /\ item' = None /\ registeredAtAsk' = FALSE
  /\ broken' = FALSE
  /\ cache' = [i \in Id |-> None]
  /\ UNCHANGED <<now, table, generated, seen, expiredIds>>

(***************************************************************************)
(* GetSubscription(subscriptionID, hostname).                              *)
(***************************************************************************)
Expired(r) == now > r.expires

LookupResultOfAnyHost(r, h) == IF Expired(r) THEN "expired" ELSE "found"

\* Expiry is looked at before the hostname.
LookupResult(r, h) == IF Expired(r) THEN "expired"
                      ELSE IF r.host # h THEN "notFound" ELSE "found"

Registered(i, h) == \E r \in Visible(rows) : r.id = i /\ r.host = h

Asked(i, h, b) ==
  /\ running /\ stage = "idle"
  /\ askedId' = i /\ askedHost' = h
  /\ registeredAtAsk' = Registered(i, h)
  /\ broken' = b

Ask(i, h) == Asked(i, h, FALSE)

Hit(i, h) ==
  /\ Ask(i, h) /\ cache[i] # None
  /\ item' = cache[i] /\ stage' = "hit" /\ answer' = "none"
  /\ UNCHANGED <<now, table, registering, running, cache, generated, seen, expiredIds>>

Fetch(i, h) ==
  /\ Ask(i, h) /\ cache[i] = None /\ ById(rows)[i] # None
  /\ item' = ById(rows)[i] /\ stage' = "fetched" /\ answer' = "none"
  /\ UNCHANGED <<now, table, registering, running, cache, generated, seen, expiredIds>>

\* Nothing is cached for an identifier the table does not have.
Miss(i, h) ==
  /\ Ask(i, h) /\ cache[i] = None /\ ById(rows)[i] = None
  /\ answer' = "notFound" /\ item' = None
  /\ UNCHANGED <<now, table, registering, running, cache, stage, generated, seen, expiredIds>>

\* rows.Next() finds no row and GetSubscription does not ask rows.Err() why.
MissesRow(i, h) ==
  /\ ReadsFail
  /\ Asked(i, h, TRUE) /\ cache[i] = None /\ ById(rows)[i] # None
  /\ answer' = "notFound" /\ item' = None
  /\ UNCHANGED <<now, table, registering, running, cache, stage, generated, seen, expiredIds>>

FetchFails(i, h) ==
  /\ Ask(i, h) /\ cache[i] = None
  /\ answer' = "error" /\ item' = None
  /\ UNCHANGED <<now, table, registering, running, cache, stage, generated, seen, expiredIds>>

Reply(r, h) ==
  /\ answer' = LookupResult(r, h)
  /\ expiredIds' = IF Expired(r) THEN expiredIds \cup {r.id} ELSE expiredIds
  /\ stage' = "idle"
  /\ UNCHANGED <<now, table, registering, running, askedId, askedHost, item, generated, seen,
                 registeredAtAsk, broken>>

ReplyHit == stage = "hit" /\ Reply(item, askedHost) /\ UNCHANGED cache

ReplyFetched == /\ stage = "fetched" /\ Reply(item, askedHost)
                /\ cache' = [cache EXCEPT ![askedId] = item]

GetSubscription == \/ \E i \in Id, h \in Hostname :
                        \/ Hit(i, h) \/ Fetch(i, h)
                        \/ Miss(i, h) \/ MissesRow(i, h) \/ FetchFails(i, h)
                   \/ ReplyHit \/ ReplyFetched

Next == \/ ClockTick
        \/ \E f \in Form : DeleteHostname(f) \/ \E i \in Id : CreateHostname(f, i)
        \/ \E q \in registering : InsertOwnerHostname(q) \/ InsertFails(q)
        \/ \E h \in Hostname : Merge(h)
        \/ Load \/ Stop
        \/ GetSubscription

Spec == Init /\ [][Next]_vars

(***************************************************************************)
(* Properties.                                                             *)
(***************************************************************************)
\* Every variable has the type its declaration says.
TypeOK ==
  /\ now \in Nat /\ rows \subseteq Row /\ version \in Nat
  /\ registering \subseteq Request /\ running \in BOOLEAN
  /\ cache \in [Id -> Row \cup {None}]
  /\ stage \in {"idle", "hit", "fetched"} /\ answer \in Answer
  /\ askedId \in Id \cup {None} /\ askedHost \in Hostname \cup {None}
  /\ item \in Row \cup {None}
  /\ generated \subseteq Id /\ issued \subseteq Row /\ seen \subseteq Id
  /\ registeredAtAsk \in BOOLEAN /\ broken \in BOOLEAN /\ expiredIds \subseteq Id

\* "Found" is answered only for an identifier that was once registered for that
\* very hostname, whatever was deleted or replaced since.
FoundWasIssued ==
  answer = "found" => \E r \in issued : r.id = askedId /\ r.host = askedHost

\* A stale answer is as old as the process at most: an identifier whose row had
\* gone before Load is not found.
FoundSeenSinceLoad == answer = "found" => askedId \in seen

\* A miss is not remembered: when the table has the identifier for the hostname
\* as the call begins, the answer is not "not found", however often it was
\* before the registration.  (A read that breaks unnoticed can do that.)
RegisteredIsFound == registeredAtAsk /\ ~broken => answer # "notFound"

\* Once an identifier was answered as expired it is never found again, over
\* deletes, registrations and restarts.
ExpiredForEver == [][answer' = "found" => askedId' \notin expiredIds]_vars

(***************************************************************************)
(* What makes them inductive.                                              *)
(***************************************************************************)
\* An identifier is generated once: it belongs to one request or one row.
IdsAreUnique ==
  /\ \A r, q \in issued : r.id = q.id => r = q
  /\ \A r, q \in registering : r.id = q.id => r = q
  /\ \A q \in registering, r \in issued : r.id # q.id
  /\ \A r \in issued \cup registering : r.id \in generated

\* The table, the cache and the current call hold rows that were issued and seen.
RowsWereIssued ==
  /\ rows \subseteq issued /\ IdsOf(Visible(rows)) \subseteq seen
  /\ \A i \in Id : cache[i] # None => cache[i] \in issued /\ cache[i].id = i /\ i \in seen
  /\ stage # "idle" => /\ item \in issued /\ item.id = askedId /\ askedId \in seen
                       /\ answer = "none"
  /\ ~running => stage = "idle" /\ answer = "none"
  /\ registeredAtAsk => \E r \in issued : r.id = askedId /\ r.host = askedHost

\* Whoever was expired once has a row that is, and is not the last one found.
ExpiredStays ==
  /\ expiredIds \subseteq IdsOf(issued)
  /\ \A r \in issued : r.id \in expiredIds => now > r.expires
  /\ answer = "found" => askedId \notin expiredIds

IInv == /\ TypeOK /\ IdsAreUnique /\ RowsWereIssued /\ ExpiredStays
        /\ FoundWasIssued /\ FoundSeenSinceLoad /\ RegisteredIsFound
=============================================================================
