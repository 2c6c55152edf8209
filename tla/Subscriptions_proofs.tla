------------------------- MODULE Subscriptions_proofs -------------------------
(***************************************************************************)
(* Proofs about the subscriptions, for any users, hostnames, identifiers   *)
(* and trial period, over any registrations, deletions, merges and         *)
(* restarts: what an answer of the cache may and may not be.               *)
(***************************************************************************)
EXTENDS Subscriptions, TLAPS

\* What ById gives is None or a visible row of that identifier, and it is None only
\* when there is no such row.
LEMMA ByIdFinds ==
  ASSUME rows \subseteq Row, NEW i \in Id
  PROVE  /\ ById(rows)[i] # None => ById(rows)[i] \in Visible(rows) /\ ById(rows)[i].id = i
         /\ ById(rows)[i] = None => \A r \in Visible(rows) : r.id # i
<1>1. Visible(rows) \subseteq Row /\ None \notin Row
  BY SubscriptionsAssumption DEF Visible
<1>2. CASE \E r \in Visible(rows) : r.id = i
  <2>1. ById(rows)[i] = CHOOSE r \in Visible(rows) : r.id = i
    BY <1>2 DEF ById
  <2> QED
    BY <1>1, <1>2, <2>1
<1>3. CASE ~ \E r \in Visible(rows) : r.id = i
  <2>1. ById(rows)[i] = None
    BY <1>3 DEF ById
  <2> QED
    BY <1>3, <2>1
<1> QED
  BY <1>2, <1>3

\* Visible rows are rows.
LEMMA VisibleAreRows == \A R : Visible(R) \subseteq R
BY DEF Visible

\* A merge makes no row visible that was not.
LEMMA MergeShowsNothing ==
  ASSUME NEW h, rows' = {r \in rows : r.host = h => Newest(rows, r)}
  PROVE  Visible(rows') \subseteq Visible(rows)
<1> SUFFICES ASSUME NEW r \in Visible(rows') PROVE Newest(rows, r) /\ r \in rows
  BY DEF Visible
<1>1. r \in rows /\ Newest(rows', r) /\ (r.host = h => Newest(rows, r))
  BY DEF Visible
<1>2. CASE r.host # h
  BY <1>1, <1>2 DEF Newest
<1> QED
  BY <1>1, <1>2

\* The initial state satisfies the inductive invariant.
LEMMA InitIInv == Init => IInv
<1> SUFFICES ASSUME Init PROVE IInv
  OBVIOUS
<1>1. TypeOK
  <2>1. cache \in [Id -> Row \cup {None}]
    BY DEF Init
  <2> QED
    BY <2>1 DEF Init, TypeOK, Answer
<1>2. IdsAreUnique /\ ExpiredStays
  BY DEF Init, IdsAreUnique, ExpiredStays, IdsOf
<1>3. RowsWereIssued
  BY DEF Init, RowsWereIssued, IdsOf, Visible
<1> QED
  BY <1>1, <1>2, <1>3 DEF IInv, Init, FoundWasIssued, FoundSeenSinceLoad, RegisteredIsFound

\* Registrations: an identifier is new, and an insert issues it.
LEMMA RegisterKeepsIInv ==
  ASSUME IInv, \/ \E f \in Form, i \in Id : CreateHostname(f, i)
               \/ \E q \in registering : InsertOwnerHostname(q) \/ InsertFails(q)
  PROVE  IInv'
<1> USE DEF IInv
<1>t. TypeOK
  OBVIOUS
<1>1. ASSUME NEW f \in Form, NEW i \in Id, CreateHostname(f, i) PROVE IInv'
  <2> DEFINE q == [user |-> f.user, host |-> f.host, id |-> i, expires |-> now + Trial]
  <2>1. q \in Request
    BY <1>1, <1>t, SubscriptionsAssumption DEF CreateHostname, Accepted, Form, TypeOK, Request
  <2>2. /\ i \notin generated /\ generated' = generated \cup {i}
        /\ registering' = registering \cup {q}
        /\ UNCHANGED <<now, table, running, cache, callVars, seen>>
    BY <1>1 DEF CreateHostname, NewSubscription
  <2>3. TypeOK'
    BY <2>1, <2>2, <1>t DEF TypeOK, table, callVars
  <2>4. IdsAreUnique'
    BY <2>2 DEF IdsAreUnique, table
  <2>5. RowsWereIssued' /\ ExpiredStays'
    BY <2>2 DEF RowsWereIssued, ExpiredStays, table, callVars, IdsOf, Visible, Newest
  <2> QED
    BY <2>2, <2>3, <2>4, <2>5
       DEF FoundWasIssued, FoundSeenSinceLoad, RegisteredIsFound, table, callVars
<1>2. ASSUME NEW q \in registering, InsertOwnerHostname(q) PROVE IInv'
  <2> DEFINE r == [user |-> q.user, host |-> q.host, id |-> q.id, expires |-> q.expires,
                   version |-> version]
  <2>1. q \in Request /\ r \in Row
    BY <1>t DEF TypeOK, Request, Row
  <2>2. /\ registering' = registering \ {q} /\ rows' = rows \cup {r} /\ issued' = issued \cup {r}
        /\ version' = version + 1 /\ seen' = seen \cup {q.id}
        /\ UNCHANGED <<now, running, cache, callVars, generated>>
    BY <1>2 DEF InsertOwnerHostname
  <2>3. TypeOK'
    BY <2>1, <2>2, <1>t DEF TypeOK, callVars, Request
  <2>4. IdsAreUnique'
    BY <2>2 DEF IdsAreUnique
  <2>5. RowsWereIssued'
    <3>1. IdsOf(Visible(rows')) \subseteq seen'
      BY <2>2 DEF RowsWereIssued, IdsOf, Visible, Newest
    <3> QED
      BY <3>1, <2>2 DEF RowsWereIssued, callVars
  <2>6. ExpiredStays'
    BY <2>2 DEF ExpiredStays, IdsAreUnique, IdsOf, callVars
  <2> QED
    BY <2>2, <2>3, <2>4, <2>5, <2>6
       DEF FoundWasIssued, FoundSeenSinceLoad, RegisteredIsFound, callVars
<1>3. ASSUME NEW q \in registering, InsertFails(q) PROVE IInv'
  <2>1. registering' = registering \ {q}
        /\ UNCHANGED <<now, table, running, cache, callVars, generated, seen>>
    BY <1>3 DEF InsertFails
  <2>2. TypeOK' /\ IdsAreUnique'
    BY <2>1, <1>t DEF TypeOK, IdsAreUnique, table, callVars
  <2>3. RowsWereIssued' /\ ExpiredStays'
    BY <2>1 DEF RowsWereIssued, ExpiredStays, table, callVars, IdsOf, Visible, Newest
  <2> QED
    BY <2>1, <2>2, <2>3
       DEF FoundWasIssued, FoundSeenSinceLoad, RegisteredIsFound, table, callVars
<1> QED
  BY <1>1, <1>2, <1>3

\* The table: a delete shows older rows, a merge shows none, and time expires some.
LEMMA TableKeepsIInv ==
  ASSUME IInv, \/ \E f \in Form : DeleteHostname(f)
               \/ \E h \in Hostname : Merge(h)
               \/ ClockTick
  PROVE  IInv'
<1> USE DEF IInv
<1>t. TypeOK
  OBVIOUS
<1>1. ASSUME \/ \E f \in Form : DeleteHostname(f)
             \/ \E h \in Hostname : Merge(h)
      PROVE  IInv'
  <2>1. /\ rows' \subseteq rows /\ seen \subseteq seen'
        /\ IdsOf(Visible(rows')) \subseteq seen' /\ seen' \subseteq Id
        /\ UNCHANGED <<now, version, issued, registering, running, cache, callVars, generated>>
    <3>1. ASSUME NEW f \in Form, DeleteHostname(f) PROVE <2>1!:
      <4>1. rows' \subseteq rows /\ seen' = seen \cup IdsOf(Visible(rows'))
            /\ UNCHANGED <<now, version, issued, registering, running, cache, callVars, generated>>
        BY <3>1 DEF DeleteHostname, DeleteOwnerHostname
      <4>2. IdsOf(Visible(rows')) \subseteq Id
        BY <4>1, <1>t, VisibleAreRows DEF TypeOK, IdsOf, Row
      <4> QED
        BY <4>1, <4>2, <1>t DEF TypeOK
    <3>2. ASSUME NEW h \in Hostname, Merge(h) PROVE <2>1!:
      <4>1. Visible(rows') \subseteq Visible(rows)
        BY <3>2, MergeShowsNothing DEF Merge
      <4> QED
        BY <4>1, <3>2, <1>t DEF Merge, RowsWereIssued, IdsOf, TypeOK
    <3> QED
      BY <1>1, <3>1, <3>2
  <2>2. TypeOK' /\ IdsAreUnique'
    BY <2>1, <1>t DEF TypeOK, IdsAreUnique, callVars
  <2>3. RowsWereIssued' /\ ExpiredStays'
    BY <2>1 DEF RowsWereIssued, ExpiredStays, callVars, IdsOf
  <2> QED
    BY <2>1, <2>2, <2>3
       DEF FoundWasIssued, FoundSeenSinceLoad, RegisteredIsFound, callVars
<1>2. CASE ClockTick
  <2>1. now' = now + 1
        /\ UNCHANGED <<table, registering, running, cache, callVars, generated, seen>>
    BY <1>2 DEF ClockTick
  <2>2. TypeOK' /\ IdsAreUnique'
    BY <2>1, <1>t DEF TypeOK, IdsAreUnique, table, callVars
  <2>3. RowsWereIssued'
    BY <2>1 DEF RowsWereIssued, table, callVars, IdsOf, Visible, Newest
  <2>4. ExpiredStays'
    BY <2>1, <1>t DEF ExpiredStays, table, callVars, IdsOf, TypeOK, Row
  <2> QED
    BY <2>1, <2>2, <2>3, <2>4
       DEF FoundWasIssued, FoundSeenSinceLoad, RegisteredIsFound, table, callVars
<1> QED
  BY <1>1, <1>2

\* The process: Load takes the visible rows, Stop forgets.
LEMMA ProcessKeepsIInv ==
  ASSUME IInv, Load \/ Stop
  PROVE  IInv'
<1> USE DEF IInv
<1>t. TypeOK
  OBVIOUS
<1>1. CASE Load
  <2>1. /\ cache' = ById(rows) /\ seen' = IdsOf(Visible(rows))
        /\ UNCHANGED <<now, table, registering, callVars, generated>>
        /\ running' = TRUE /\ ~running
    BY <1>1 DEF Load
  <2>2. rows \subseteq Row /\ \A i \in Id : cache'[i] = ById(rows)[i]
    BY <2>1, <1>t DEF TypeOK
  <2>3. \A i \in Id : cache'[i] # None => cache'[i] \in Visible(rows) /\ cache'[i].id = i
    BY <2>2, ByIdFinds
  <2>4. cache' \in [Id -> Row \cup {None}]
    <3>1. cache' = [i \in Id |-> cache'[i]]
      BY <2>1 DEF ById
    <3>2. \A i \in Id : cache'[i] \in Row \cup {None}
      BY <2>2, <2>3, VisibleAreRows
    <3> QED
      BY <3>1, <3>2
  <2>5. seen' \subseteq Id
    BY <2>1, <2>2, VisibleAreRows DEF IdsOf, Row
  <2>6. TypeOK'
    BY <2>1, <2>4, <2>5, <1>t DEF TypeOK, table, callVars
  <2>7. \A i \in Id : cache'[i] # None => cache'[i] \in issued /\ i \in seen'
    BY <2>1, <2>3, VisibleAreRows DEF RowsWereIssued, IdsOf
  <2>8. IdsOf(Visible(rows')) \subseteq seen'
    BY <2>1 DEF table
  <2>9. RowsWereIssued'
    BY <2>1, <2>3, <2>7, <2>8 DEF RowsWereIssued, table, callVars
  <2> QED
    BY <2>1, <2>6, <2>9 DEF IdsAreUnique, ExpiredStays, FoundWasIssued, FoundSeenSinceLoad,
                            RegisteredIsFound, RowsWereIssued, table, callVars
<1>2. CASE Stop
  <2>1. /\ running' = FALSE /\ registering' = {} /\ stage' = "idle" /\ answer' = "none"
        /\ askedId' = None /\ askedHost' = None /\ item' = None
        /\ registeredAtAsk' = FALSE /\ broken' = FALSE /\ cache' = [i \in Id |-> None]
        /\ UNCHANGED <<now, table, generated, seen, expiredIds>>
    BY <1>2 DEF Stop
  <2>2. TypeOK'
    <3>1. cache' \in [Id -> Row \cup {None}]
      BY <2>1
    <3> QED
      BY <3>1, <2>1, <1>t DEF TypeOK, Answer, table
  <2>3. IdsAreUnique' /\ ExpiredStays'
    BY <2>1 DEF IdsAreUnique, ExpiredStays, table, IdsOf
  <2>4. RowsWereIssued'
    BY <2>1 DEF RowsWereIssued, table, IdsOf, Visible, Newest
  <2> QED
    BY <2>1, <2>2, <2>3, <2>4 DEF FoundWasIssued, FoundSeenSinceLoad, RegisteredIsFound
<1> QED
  BY <1>1, <1>2

\* A call that is answered at once, with anything but "found", or that holds a row.
LEMMA AskKeepsIInv ==
  ASSUME IInv, NEW i \in Id, NEW h \in Hostname,
         \/ Hit(i, h) \/ Fetch(i, h) \/ Miss(i, h) \/ MissesRow(i, h) \/ FetchFails(i, h)
  PROVE  IInv'
<1> USE DEF IInv
<1>t. TypeOK /\ rows \subseteq Row
  BY DEF TypeOK
<1>1. /\ running /\ stage = "idle" /\ askedId' = i /\ askedHost' = h
      /\ registeredAtAsk' = Registered(i, h) /\ broken' \in BOOLEAN
      /\ UNCHANGED <<now, table, registering, running, cache, generated, seen, expiredIds>>
  BY DEF Hit, Fetch, Miss, MissesRow, FetchFails, Ask, Asked
<1>2. registeredAtAsk' => \E r \in issued : r.id = i /\ r.host = h
  BY <1>1, VisibleAreRows DEF Registered, RowsWereIssued
<1>3. ById(rows)[i] # None => ById(rows)[i] \in issued /\ ById(rows)[i].id = i /\ i \in seen
  BY <1>t, ByIdFinds, VisibleAreRows DEF RowsWereIssued, IdsOf
<1>4. \/ /\ item' \in issued /\ item'.id = i /\ i \in seen
         /\ stage' \in {"hit", "fetched"} /\ answer' = "none"
      \/ item' = None /\ stage' = "idle" /\ answer' \in {"notFound", "error"}
  <2>1. CASE Hit(i, h)
    BY <2>1, <1>1 DEF Hit, RowsWereIssued
  <2>2. CASE Fetch(i, h)
    BY <2>2, <1>3 DEF Fetch
  <2>3. CASE Miss(i, h) \/ MissesRow(i, h) \/ FetchFails(i, h)
    BY <2>3, <1>1 DEF Miss, MissesRow, FetchFails
  <2> QED
    BY <2>1, <2>2, <2>3
<1>5. answer' = "notFound" => ~registeredAtAsk' \/ broken'
  <2>1. CASE Miss(i, h)
    <3>1. ById(rows)[i] = None
      BY <2>1 DEF Miss
    <3> QED
      BY <3>1, <1>1, <1>t, ByIdFinds DEF Registered
  <2>2. CASE MissesRow(i, h)
    BY <2>2 DEF MissesRow, Asked
  <2>3. CASE Hit(i, h) \/ Fetch(i, h) \/ FetchFails(i, h)
    BY <2>3 DEF Hit, Fetch, FetchFails
  <2> QED
    BY <2>1, <2>2, <2>3
<1>6. TypeOK'
  <2>1. registeredAtAsk' \in BOOLEAN
    BY <1>1 DEF Registered
  <2> QED
    BY <2>1, <1>1, <1>4, <1>t DEF TypeOK, table, Answer
<1>7. IdsAreUnique' /\ ExpiredStays'
  BY <1>1, <1>4 DEF IdsAreUnique, ExpiredStays, table
<1>8. RowsWereIssued'
  <2>1. IdsOf(Visible(rows')) \subseteq seen'
    BY <1>1 DEF RowsWereIssued, table
  <2> QED
    BY <2>1, <1>1, <1>2, <1>4 DEF RowsWereIssued, table
<1> QED
  BY <1>1, <1>4, <1>5, <1>6, <1>7, <1>8 DEF FoundWasIssued, FoundSeenSinceLoad, RegisteredIsFound

\* The answer made of the row that the call holds.
LEMMA ReplyKeepsIInv ==
  ASSUME IInv, ReplyHit \/ ReplyFetched
  PROVE  IInv'
<1> USE DEF IInv
<1>t. TypeOK
  OBVIOUS
<1>1. /\ stage # "idle" /\ stage' = "idle" /\ answer' = LookupResult(item, askedHost)
      /\ expiredIds' = IF Expired(item) THEN expiredIds \cup {item.id} ELSE expiredIds
      /\ UNCHANGED <<now, table, registering, running, askedId, askedHost, item, generated, seen,
                     registeredAtAsk, broken>>
  BY DEF ReplyHit, ReplyFetched, Reply
<1>2. item \in issued /\ item.id = askedId /\ askedId \in seen /\ running
  BY <1>1 DEF RowsWereIssued
<1>3. item \in Row /\ askedId \in Id
  BY <1>2, <1>t DEF TypeOK, Row
<1>4. cache' \in [Id -> Row \cup {None}] /\ \A i \in Id : cache'[i] = cache[i] \/ (i = askedId /\ cache'[i] = item)
  <2>1. CASE ReplyHit
    BY <2>1, <1>t DEF ReplyHit, TypeOK
  <2>2. CASE ReplyFetched
    BY <2>2, <1>3, <1>t DEF ReplyFetched, TypeOK
  <2> QED
    BY <2>1, <2>2
<1>5. answer' \in Answer
  BY <1>1 DEF LookupResult, Answer
<1>6. TypeOK'
  <2>1. expiredIds' \subseteq Id
    BY <1>1, <1>2, <1>3, <1>t DEF TypeOK
  <2>2. item' \in Row \cup {None} /\ stage' \in {"idle", "hit", "fetched"}
    BY <1>1, <1>3
  <2> QED
    BY <2>1, <2>2, <1>1, <1>4, <1>5, <1>t DEF TypeOK, table
<1>7. answer' = "found" => item.host = askedHost /\ ~Expired(item)
  BY <1>1 DEF LookupResult
<1>8. answer' = "notFound" => item.host # askedHost
  BY <1>1 DEF LookupResult
<1>9. IdsAreUnique'
  BY <1>1 DEF IdsAreUnique, table
<1>10. RowsWereIssued'
  <2>1. IdsOf(Visible(rows')) \subseteq seen'
    BY <1>1 DEF RowsWereIssued, table
  <2> QED
    BY <2>1, <1>1, <1>2, <1>4 DEF RowsWereIssued, table
<1>11. ExpiredStays'
  <2>1. \A r \in issued : r.id \in expiredIds' => now > r.expires
    <3>1. CASE Expired(item)
      BY <3>1, <1>1, <1>2 DEF ExpiredStays, IdsAreUnique, Expired
    <3>2. CASE ~Expired(item)
      BY <3>2, <1>1 DEF ExpiredStays
    <3> QED
      BY <3>1, <3>2
  <2>2. expiredIds' \subseteq IdsOf(issued)
    BY <1>1, <1>2 DEF ExpiredStays, IdsOf
  <2>3. answer' = "found" => askedId \notin expiredIds'
    BY <1>7, <2>1, <1>2 DEF Expired
  <2> QED
    BY <2>1, <2>2, <2>3, <1>1 DEF ExpiredStays, table
<1>12. RegisteredIsFound'
  BY <1>1, <1>2, <1>8 DEF RegisteredIsFound, RowsWereIssued, IdsAreUnique
<1> QED
  BY <1>1, <1>2, <1>6, <1>7, <1>9, <1>10, <1>11, <1>12
     DEF FoundWasIssued, FoundSeenSinceLoad, table

\* Nothing changes.
LEMMA StutterKeepsIInv == IInv /\ UNCHANGED vars => IInv'
<1> SUFFICES ASSUME IInv, UNCHANGED vars PROVE IInv'
  OBVIOUS
<1>1. TypeOK' /\ IdsAreUnique' /\ ExpiredStays'
  BY DEF IInv, vars, TypeOK, IdsAreUnique, ExpiredStays, IdsOf
<1>2. RowsWereIssued'
  BY DEF IInv, vars, RowsWereIssued, IdsOf, Visible, Newest
<1> QED
  BY <1>1, <1>2 DEF IInv, vars, FoundWasIssued, FoundSeenSinceLoad, RegisteredIsFound

\* The inductive invariant: types, unique identifiers, where rows come from, expiry.
THEOREM Inductive == Spec => []IInv
<1>1. IInv /\ [Next]_vars => IInv'
  BY RegisterKeepsIInv, TableKeepsIInv, ProcessKeepsIInv, AskKeepsIInv, ReplyKeepsIInv,
     StutterKeepsIInv DEF Next, GetSubscription
<1> QED
  BY InitIInv, <1>1, PTL DEF Spec

\* "Found" is answered only for an identifier once registered for that hostname.
THEOREM FoundIsIssued == Spec => []FoundWasIssued
BY Inductive, PTL DEF IInv

\* A stale answer is as old as the process at most.
THEOREM FoundIsSeen == Spec => []FoundSeenSinceLoad
BY Inductive, PTL DEF IInv

\* Only a read that breaks unnoticed makes a registered subscription unknown.
THEOREM RegisteredIsAnswered == Spec => []RegisteredIsFound
BY Inductive, PTL DEF IInv

\* An identifier that was answered as expired is never found again.
THEOREM ExpiredIsForEver == Spec => ExpiredForEver
<1>1. IInv /\ IInv' /\ [Next]_vars => [answer' = "found" => askedId' \notin expiredIds]_vars
  <2> SUFFICES ASSUME IInv, IInv', [Next]_vars, answer' = "found", ~UNCHANGED vars
               PROVE  askedId' \notin expiredIds
    OBVIOUS
  <2>1. expiredIds \subseteq expiredIds'
    BY DEF Next, ClockTick, CreateHostname, NewSubscription, InsertOwnerHostname, InsertFails,
           DeleteHostname, DeleteOwnerHostname, Merge, Load, Stop, GetSubscription, Hit, Fetch,
           Miss, MissesRow, FetchFails, ReplyHit, ReplyFetched, Reply, callVars
  <2> QED
    BY <2>1 DEF IInv, ExpiredStays
<1> QED
  BY Inductive, <1>1, PTL DEF Spec, ExpiredForEver
=============================================================================
