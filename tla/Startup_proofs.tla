--------------------------- MODULE Startup_proofs ---------------------------
(***************************************************************************)
(* Proofs about how main brings the database up, for every choice of       *)
(* adapters and versions, with and without subscriptions, and whatever     *)
(* fails.                                                                  *)
(***************************************************************************)
EXTENDS Startup, TLAPS

\* Every adapter's CreateDb drops, creates the database and then everything in it,
\* and inserts the version row last.
LEMMA Statements ==
  ASSUME adapter \in Adapters
  PROVE  /\ Len(CreateDb) \in 8..10
         /\ CreateDb[1] = "drop" /\ CreateDb[2] = "database"
         /\ CreateDb[Len(CreateDb)] = "version"
         /\ \A i \in 2..(Len(CreateDb) - 1) : CreateDb[i] \in Complete \cup {"use"}
         /\ \A i \in 3..Len(CreateDb) : CreateDb[i] # "database"
         /\ adapter = "clickhouse" => CreateDb[3] = "use"
         /\ \A s \in Complete : \E i \in 2..(Len(CreateDb) - 1) : CreateDb[i] = s
<1>1. CASE adapter = "clickhouse"
  <2>1. /\ Len(CreateDb) = 10
        /\ CreateDb[1] = "drop" /\ CreateDb[2] = "database" /\ CreateDb[3] = "use"
        /\ CreateDb[4] = "kvmeta" /\ CreateDb[5] = "hostnames" /\ CreateDb[6] = "latency"
        /\ CreateDb[7] = "own_hostnames" /\ CreateDb[8] = "grant_hostnames"
        /\ CreateDb[9] = "view" /\ CreateDb[10] = "version"
    BY <1>1 DEF CreateDb, ClickHouseCreateDb
  <2>2. Complete = {"database", "kvmeta", "hostnames", "latency", "own_hostnames",
                    "grant_hostnames", "view"}
    BY <1>1 DEF Complete, Object
  <2>3. \A i \in 2..9 : CreateDb[i] \in Complete \cup {"use"}
    BY <2>1, <2>2
  <2>4. \A i \in 3..10 : CreateDb[i] # "database"
    BY <2>1
  <2>5. \A s \in Complete : \E i \in 2..9 : CreateDb[i] = s
    BY <2>1, <2>2
  <2> QED BY <2>1, <2>3, <2>4, <2>5
<1>2. CASE adapter = "mysql"
  <2>1. /\ Len(CreateDb) = 9
        /\ CreateDb[1] = "drop" /\ CreateDb[2] = "database" /\ CreateDb[3] = "use"
        /\ CreateDb[4] = "latency" /\ CreateDb[5] = "hostnames"
        /\ CreateDb[6] = "own_hostnames" /\ CreateDb[7] = "grant_hostnames"
        /\ CreateDb[8] = "kvmeta" /\ CreateDb[9] = "version"
    BY <1>2 DEF CreateDb, MySQLCreateDb
  <2>2. Complete = {"database", "kvmeta", "hostnames", "latency", "own_hostnames",
                    "grant_hostnames"}
    BY <1>2 DEF Complete, Object
  <2>3. \A i \in 2..8 : CreateDb[i] \in Complete \cup {"use"}
    BY <2>1, <2>2
  <2>4. \A i \in 3..9 : CreateDb[i] # "database"
    BY <2>1
  <2>5. \A s \in Complete : \E i \in 2..8 : CreateDb[i] = s
    BY <2>1, <2>2
  <2> QED BY <2>1, <2>3, <2>4, <2>5
<1>3. CASE adapter = "rethinkdb"
  <2>1. /\ Len(CreateDb) = 8
        /\ CreateDb[1] = "drop" /\ CreateDb[2] = "database"
        /\ CreateDb[3] = "latency" /\ CreateDb[4] = "hostnames"
        /\ CreateDb[5] = "own_hostnames" /\ CreateDb[6] = "grant_hostnames"
        /\ CreateDb[7] = "kvmeta" /\ CreateDb[8] = "version"
    BY <1>3 DEF CreateDb, RethinkDBCreateDb
  <2>2. Complete = {"database", "kvmeta", "hostnames", "latency", "own_hostnames",
                    "grant_hostnames"}
    BY <1>3 DEF Complete, Object
  <2>3. \A i \in 2..7 : CreateDb[i] \in Complete \cup {"use"}
    BY <2>1, <2>2
  <2>4. \A i \in 3..8 : CreateDb[i] # "database"
    BY <2>1
  <2>5. \A s \in Complete : \E i \in 2..7 : CreateDb[i] = s
    BY <2>1, <2>2
  <2>6. adapter # "clickhouse"
    BY <1>3
  <2> QED BY <2>1, <2>3, <2>4, <2>5, <2>6
<1> QED BY <1>1, <1>2, <1>3, StartupAssumption

\* No step changes the adapter, nor what its CreateDb does.
LEMMA SameAdapter ==
  adapter' = adapter => CreateDb' = CreateDb /\ Complete' = Complete
BY DEF CreateDb, Complete, Object, ClickHouseCreateDb, MySQLCreateDb, RethinkDBCreateDb

\* The database itself is the first of its objects; no object is a keyword.
LEMMA Objects ==
  "database" \in Complete /\ Complete \subseteq Object /\ {"use", "drop", "version"} \cap Object = {}
BY DEF Complete, Object

\* The program begins with no database, or with a complete one that carries a
\* version: the inductive invariant holds.
LEMMA InitIInv == Init => IInv
<1> SUFFICES ASSUME Init PROVE IInv
  OBVIOUS
<1>1. TypeOK
  <2>1. flags \in Flags
    BY DEF Init, Flags
  <2>2. step \in 1..Len(CreateDb)
    BY Statements DEF Init
  <2>3. /\ adapter \in Adapters /\ objects \subseteq Complete /\ elsewhere \subseteq Complete
        /\ version \in Version \cup {None} /\ stored \in BOOLEAN /\ strayed \in BOOLEAN
        /\ used \in BOOLEAN
    BY DEF Init
  <2> QED BY <2>1, <2>2, <2>3 DEF Init, TypeOK
<1>2. objects # {} \/ stored => "database" \in objects
  BY Objects DEF Init
<1>3. version # None => objects = Complete
  BY DEF Init
<1> QED BY <1>1, <1>2, <1>3 DEF Init, IInv, VersionIsCommitPoint, CreateDbInvariant, Whole

\* What one statement of CreateDb may do to a well-typed database.
LEMMA EffectTyped ==
  ASSUME TypeOK, NEW i \in 1..Len(CreateDb), Effect(CreateDb[i]), adapter' = adapter
  PROVE  /\ objects' \subseteq Complete /\ elsewhere' \subseteq Complete
         /\ version' \in Version \cup {None}
         /\ stored' \in BOOLEAN /\ strayed' \in BOOLEAN /\ used' \in BOOLEAN
         /\ CreateDb[i] \in Complete \cup {"use"} =>
              /\ version' = version /\ stored' = stored
              /\ objects \subseteq objects' /\ elsewhere \subseteq elsewhere'
              /\ \/ CreateDb[i] \in objects' \cup {"use"}
                 \/ Strays /\ CreateDb[i] # "database" /\ CreateDb[i] \in elsewhere'
         /\ CreateDb[i] = "use" => used' = TRUE
         /\ CreateDb[i] # "use" => used' = used
         /\ CreateDb[i] # "drop" => strayed' = strayed
         /\ CreateDb[i] = "drop" => objects' = {} /\ version' = None /\ ~stored' /\ ~strayed'
         /\ CreateDb[i] = "version" =>
              /\ version' = AdapterVersion /\ objects' = objects /\ stored' = stored
              /\ elsewhere' = elsewhere
         /\ "database" \notin elsewhere => "database" \notin elsewhere'
<1> DEFINE s == CreateDb[i]
<1>0. Complete' = Complete
  BY SameAdapter
<1>1. s \in Complete \cup {"use", "drop", "version"}
  <2>1. i = 1 \/ i = Len(CreateDb) \/ i \in 2..(Len(CreateDb) - 1)
    BY Statements DEF TypeOK
  <2> QED BY <2>1, Statements DEF TypeOK
<1>2. Effect(s)
  OBVIOUS
<1> HIDE DEF s
<1>3. /\ objects' \subseteq Complete /\ elsewhere' \subseteq Complete
      /\ version' \in Version \cup {None}
      /\ stored' \in BOOLEAN /\ strayed' \in BOOLEAN /\ used' \in BOOLEAN
      /\ s \in Complete \cup {"use"} =>
           /\ version' = version /\ stored' = stored
           /\ objects \subseteq objects' /\ elsewhere \subseteq elsewhere'
           /\ \/ s \in objects' \cup {"use"}
              \/ Strays /\ s # "database" /\ s \in elsewhere'
      /\ s = "use" => used' = TRUE
      /\ s # "use" => used' = used
      /\ s # "drop" => strayed' = strayed
      /\ s = "drop" => objects' = {} /\ version' = None /\ ~stored' /\ ~strayed'
      /\ s = "version" =>
           /\ version' = AdapterVersion /\ objects' = objects /\ stored' = stored
           /\ elsewhere' = elsewhere
      /\ "database" \notin elsewhere => "database" \notin elsewhere'
  <2>1. CASE s = "drop"
    BY <1>2, <2>1, Objects DEF Effect, TypeOK
  <2>2. CASE s = "version"
    BY <1>2, <2>2, Objects, StartupAssumption DEF Effect, TypeOK
  <2>3. CASE s = "use"
    BY <1>2, <2>3, Objects DEF Effect, TypeOK, database
  <2>4. CASE s = "database"
    <3>1. objects' = objects \cup {s} /\ UNCHANGED <<elsewhere, version, stored, strayed, used>>
      BY <1>2, <2>4 DEF Effect
    <3> QED BY <2>4, <3>1, Objects DEF TypeOK
  <2>5. CASE s \in Complete /\ s # "database"
    <3>1. s \notin {"use", "drop", "version"}
      BY <2>5, Objects
    <3>2. /\ IF Strays THEN elsewhere' = elsewhere \cup {s} /\ UNCHANGED objects
                       ELSE objects' = objects \cup {s} /\ UNCHANGED elsewhere
          /\ UNCHANGED <<version, stored, strayed, used>>
      BY <1>2, <2>5, <3>1 DEF Effect
    <3> QED BY <2>5, <3>1, <3>2 DEF TypeOK
  <2> QED BY <1>1, <2>1, <2>2, <2>3, <2>4, <2>5
<1> QED BY <1>3 DEF s

\* At its last statement, CreateDb has created everything else, somewhere.
LEMMA LastStatement ==
  ASSUME IInv, pc = "create", step = Len(CreateDb)
  PROVE  Whole /\ version = None /\ ~stored
<1>1. adapter \in Adapters /\ objects \subseteq Complete
  BY DEF IInv, TypeOK
<1>2. \A o \in Complete : o \in objects \/ (strayed /\ o \in elsewhere)
  <2> SUFFICES ASSUME NEW o \in Complete PROVE o \in objects \/ (strayed /\ o \in elsewhere)
    OBVIOUS
  <2>1. PICK i \in 2..(Len(CreateDb) - 1) : CreateDb[i] = o
    BY <1>1, Statements
  <2>2. \/ CreateDb[i] \in objects \cup {"use"}
        \/ strayed /\ i # 2 /\ CreateDb[i] \in elsewhere
    BY DEF IInv, CreateDbInvariant
  <2> QED BY <2>1, <2>2, Objects
<1>3. Whole
  BY <1>1, <1>2 DEF Whole
<1>4. step > 2
  BY <1>1, Statements
<1> QED BY <1>1, <1>3, <1>4 DEF IInv, CreateDbInvariant

\* A statement in the middle of CreateDb is executed on a database that has neither
\* a version nor events, also behind a drop that failed unnoticed.
LEMMA MiddleStatement ==
  ASSUME IInv, pc = "create", step \in 2..(Len(CreateDb) - 1), CanExec(CreateDb[step])
  PROVE  version = None /\ ~stored
<1>1. adapter \in Adapters /\ "database" \in Complete
  BY Objects DEF IInv, TypeOK
<1>2. CASE step > 2
  BY <1>2 DEF IInv, CreateDbInvariant
<1>3. CASE step = 2
  <2>1. "database" \notin objects
    BY <1>1, <1>3, Statements DEF CanExec
  <2>2. objects = {} /\ ~stored
    BY <2>1 DEF IInv, CreateDbInvariant
  <2>3. "database" \notin elsewhere
    BY DEF IInv, CreateDbInvariant
  <2> QED BY <1>1, <2>2, <2>3 DEF IInv, VersionIsCommitPoint, Whole
<1> QED BY <1>2, <1>3, <1>1, Statements

\* Every step preserves the inductive invariant.
LEMMA StepIInv == IInv /\ [Next]_vars => IInv'
<1> SUFFICES ASSUME IInv, [Next]_vars PROVE IInv'
  OBVIOUS
<1>t. TypeOK /\ VersionIsCommitPoint /\ CreateDbInvariant
  BY DEF IInv
<1>s. /\ adapter \in Adapters /\ step \in 1..Len(CreateDb)
      /\ Len(CreateDb) \in 8..10
      /\ step = 1 \/ step \in 2..(Len(CreateDb) - 1) \/ step = Len(CreateDb)
  <2>1. adapter \in Adapters /\ step \in 1..Len(CreateDb)
    BY <1>t DEF TypeOK
  <2>2. Len(CreateDb) \in 8..10
    BY <2>1, Statements
  <2> QED BY <2>1, <2>2
<1>a. adapter' = adapter /\ CreateDb' = CreateDb /\ Complete' = Complete
  <2>1. adapter' = adapter
    BY DEF Next, Start, Exit, Open, CheckDbVersion, InitDb, UpgradeDb, KeepDb, Exec,
           Reconnect, DropFails, ExecFails, Wire, Save, vars
  <2> QED BY <2>1, SameAdapter
\* The first statement is not the last one.
<1>f. step = 1 /\ pc = "create" /\ NextStatement => step' = 2 /\ pc' = "create"
  <2>1. Len(CreateDb) # 1
    <3>1. \A n \in 8..10 : n # 1
      OBVIOUS
    <3> QED BY <3>1, <1>s
  <2>2. NextStatement /\ step # Len(CreateDb) => step' = step + 1 /\ pc' = pc
    BY DEF NextStatement
  <2> QED BY <2>1, <2>2
<1> USE <1>a
\* A step that leaves the database as it is leaves its part of the invariant.
<1>d. ASSUME UNCHANGED <<database, used>>
      PROVE  /\ objects' \subseteq Complete /\ elsewhere' \subseteq Complete
             /\ version' \in Version \cup {None} /\ stored' \in BOOLEAN
             /\ used' \in BOOLEAN /\ strayed' \in BOOLEAN
             /\ Whole' = Whole /\ VersionIsCommitPoint'
             /\ objects' # {} \/ stored' => "database" \in objects'
             /\ adapter # "clickhouse" => ~strayed'
             /\ "database" \notin elsewhere'
             /\ version' = version
  BY <1>a, <1>d, <1>t DEF database, TypeOK, Whole, VersionIsCommitPoint, CreateDbInvariant
<1> USE <1>a
<1>1. ASSUME NEW f \in Flags, Start(f) PROVE IInv'
  <2>1. step' \in 1..Len(CreateDb)
    BY <1>1, <1>s DEF Start
  <2>4. used' \in BOOLEAN
    BY <1>1 DEF Start
  <2>2. /\ objects' \subseteq Complete /\ elsewhere' \subseteq Complete
        /\ version' \in Version \cup {None} /\ stored' \in BOOLEAN /\ strayed' \in BOOLEAN
    BY <1>1, <1>t DEF Start, TypeOK, database
  <2>3. TypeOK'
    BY <2>1, <2>2, <2>4, <1>1, <1>s DEF Start, TypeOK
  <2> QED BY <2>3, <1>1, <1>t
          DEF IInv, Start, VersionIsCommitPoint, Whole, CreateDbInvariant, database
<1>2. CASE Exit
  <2>1. UNCHANGED <<database, used>> /\ pc' = "off" /\ UNCHANGED <<flags, step, answer, failed, upgraded>>
    BY <1>2 DEF Exit
  <2> QED BY <2>1, <1>d, <1>s, <1>t DEF IInv, TypeOK, CreateDbInvariant
<1>3. CASE Open
  <2>1. /\ UNCHANGED <<database, used>> /\ pc = "open" /\ pc' = "check"
        /\ UNCHANGED <<flags, step, answer, failed, upgraded>>
    BY <1>3 DEF Open
  <2> QED BY <2>1, <1>d, <1>s, <1>t DEF IInv, TypeOK, CreateDbInvariant
<1>4. CASE CheckDbVersion
  <2>1. /\ answer' \in Answers /\ UNCHANGED <<database, used>> /\ pc = "check"
        /\ pc' = "decide" /\ UNCHANGED <<flags, step, failed, upgraded>>
    BY <1>4 DEF CheckDbVersion
  <2>2. Answers \subseteq {"missing", VersionAnswer}
    BY <1>s, StartupAssumption
       DEF Answers, ClickHouseAnswers, MySQLAnswers, RethinkDBAnswers
  <2>3. VersionAnswer \in {"current", "invalid"} /\ (VersionAnswer = "current" => version = AdapterVersion)
    BY DEF VersionAnswer
  <2>4. answer' \in {"missing", "current", "invalid"} /\ (answer' = "current" => version = AdapterVersion)
    BY <2>1, <2>2, <2>3
  <2> QED BY <2>1, <2>4, <1>d, <1>s, <1>t DEF IInv, TypeOK, CreateDbInvariant
<1>5. CASE InitDb
  <2>1. /\ InitDbWhen /\ step = 1 /\ ~failed /\ ~upgraded /\ UNCHANGED <<database, used>>
        /\ pc = "decide" /\ pc' = "create" /\ UNCHANGED <<flags, step, answer, failed, upgraded>>
    BY <1>5, <1>t DEF InitDb, CreateDbInvariant
  <2> QED BY <2>1, <1>d, <1>s, <1>t DEF IInv, TypeOK, InitDbWhen, CreateDbInvariant
<1>6. CASE UpgradeDb
  <2>1. /\ UNCHANGED <<database, used>> /\ pc = "decide" /\ pc' = "wire" /\ upgraded' = TRUE
        /\ ~(version > AdapterVersion) /\ UNCHANGED <<flags, step, answer, failed>>
    BY <1>6 DEF UpgradeDb
  <2> QED BY <2>1, <1>d, <1>s, <1>t DEF IInv, TypeOK, CreateDbInvariant
<1>7. CASE KeepDb
  <2>1. version = AdapterVersion /\ Whole
    BY <1>7, <1>t, StartupAssumption DEF KeepDb, CreateDbInvariant, VersionIsCommitPoint
  <2>2. /\ UNCHANGED <<database, used>> /\ pc = "decide" /\ pc' = "wire"
        /\ UNCHANGED <<flags, step, answer, failed, upgraded>>
    BY <1>7 DEF KeepDb
  <2> QED BY <2>1, <2>2, <1>d, <1>s, <1>t DEF IInv, TypeOK, CreateDbInvariant
<1>8. CASE Exec
  <2> DEFINE s == CreateDb[step]
  <2>1. /\ CanExec(s) /\ Effect(s) /\ pc = "create" /\ NextStatement
        /\ UNCHANGED <<flags, answer, failed, upgraded>>
    BY <1>8 DEF Exec
  <2>2. ~failed /\ ~upgraded /\ InitDbWhen'
    BY <2>1, <1>t DEF CreateDbInvariant, InitDbWhen
  <2>3. /\ objects' \subseteq Complete /\ elsewhere' \subseteq Complete
        /\ version' \in Version \cup {None}
        /\ stored' \in BOOLEAN /\ strayed' \in BOOLEAN /\ used' \in BOOLEAN
        /\ s \in Complete \cup {"use"} =>
             /\ version' = version /\ stored' = stored
             /\ objects \subseteq objects' /\ elsewhere \subseteq elsewhere'
             /\ \/ s \in objects' \cup {"use"}
                \/ Strays /\ s # "database" /\ s \in elsewhere'
        /\ s = "use" => used' = TRUE
        /\ s # "use" => used' = used
        /\ s # "drop" => strayed' = strayed
        /\ s = "drop" => objects' = {} /\ version' = None /\ ~stored' /\ ~strayed'
        /\ s = "version" =>
             /\ version' = AdapterVersion /\ objects' = objects /\ stored' = stored
             /\ elsewhere' = elsewhere
        /\ "database" \notin elsewhere => "database" \notin elsewhere'
    BY <2>1, <1>s, <1>t, EffectTyped
  <2>d. "database" \notin elsewhere' /\ (adapter # "clickhouse" => ~strayed')
    BY <2>3, <1>t DEF CreateDbInvariant
  <2>4. CASE step = 1
    <3>1. s = "drop"
      BY <2>4, <1>s, Statements
    <3> HIDE DEF s
    <3>2. step' = 2 /\ pc' = "create"
      BY <2>1, <2>4, <1>f
    <3>3. objects' = {} /\ version' = None /\ ~stored'
      BY <3>1, <2>3
    <3>4. TypeOK'
      BY <3>2, <3>3, <2>1, <2>3, <1>s, <1>t DEF TypeOK
    <3> QED BY <3>2, <3>3, <3>4, <2>1, <2>2, <2>d DEF IInv, VersionIsCommitPoint, CreateDbInvariant
  <2>5. CASE step \in 2..(Len(CreateDb) - 1)
    <3>1. s \in Complete \cup {"use"}
      BY <2>5, <1>s, Statements
    <3>2. step' = step + 1 /\ pc' = "create"
      BY <2>1, <2>5, <1>s DEF NextStatement
    <3>3. version' = None /\ ~stored'
      BY <3>1, <2>1, <2>3, <2>5, MiddleStatement
    <3>d. step = 2 => s = "database"
      BY <1>s, Statements
    <3>u. adapter = "clickhouse" /\ step = 3 => s = "use"
      BY <1>s, Statements
    <3>s. strayed' = strayed
      BY <3>1, <2>3, Objects
    <3>w. step > 3 => ~Strays \/ strayed
      BY <2>1, <1>t DEF CreateDbInvariant
    <3>4. ASSUME NEW i \in 2..(step' - 1)
          PROVE  \/ CreateDb[i] \in objects' \cup {"use"}
                 \/ strayed' /\ i # 2 /\ CreateDb[i] \in elsewhere'
      <4>1. CASE i = step
        <5>1. CASE s \in objects' \cup {"use"}
          BY <4>1, <5>1
        <5>2. CASE Strays /\ s # "database" /\ s \in elsewhere'
          <6>1. adapter = "clickhouse" /\ step # 2
            BY <5>2, <3>d DEF Strays
          <6>2. step = 3 \/ step > 3
            BY <6>1, <2>5, <1>s
          <6>3. CASE step = 3
            BY <6>1, <6>3, <3>u, <4>1
          <6>4. CASE step > 3
            BY <6>4, <5>2, <3>w, <3>s, <4>1
          <6> QED BY <6>2, <6>3, <6>4
        <5> QED BY <5>1, <5>2, <3>1, <2>3
      <4>2. CASE i # step
        <5>1. i \in 2..(step - 1)
          BY <4>2, <3>2, <2>5, <1>s
        <5>2. \/ CreateDb[i] \in objects \cup {"use"}
              \/ strayed /\ i # 2 /\ CreateDb[i] \in elsewhere
          BY <5>1, <2>1, <1>t DEF CreateDbInvariant
        <5> QED BY <5>2, <2>3, <3>1, <3>s
      <4> QED BY <4>1, <4>2
    <3>5. TypeOK'
      BY <3>2, <2>1, <2>3, <2>5, <1>s, <1>t DEF TypeOK
    <3>6. VersionIsCommitPoint'
      BY <3>3 DEF VersionIsCommitPoint
    <3>7. "database" \in objects'
      <4>1. CASE step = 2
        BY <4>1, <3>d, <3>1, <2>3, Objects
      <4>2. CASE step # 2
        <5>1. 2 \in 2..(step - 1)
          BY <4>2, <2>5, <1>s
        <5>2. CreateDb[2] \in objects \cup {"use"}
          BY <5>1, <2>1, <1>t DEF CreateDbInvariant
        <5>3. "database" \in objects
          BY <5>2, <1>s, Statements
        <5> QED BY <5>3, <3>1, <2>3
      <4> QED BY <4>1, <4>2
    <3>9. step' > 3 => (~Strays \/ strayed)'
      <4> SUFFICES ASSUME step' > 3 PROVE (~Strays)' \/ strayed'
        OBVIOUS
      <4>1. CASE adapter # "clickhouse"
        BY <4>1 DEF Strays
      <4>2. CASE adapter = "clickhouse" /\ step = 3
        <5>1. used' = TRUE
          BY <4>2, <3>u, <2>3
        <5> QED BY <5>1 DEF Strays
      <4>3. CASE adapter = "clickhouse" /\ step > 3
        <5>1. used \/ strayed
          BY <4>3, <3>w DEF Strays
        <5>2. used => used'
          <6>1. used' = TRUE \/ used' = used
            BY <2>3
          <6> QED BY <6>1
        <5> QED BY <5>1, <5>2, <3>s DEF Strays
      <4>4. step = 3 \/ step > 3
        BY <3>2, <2>5, <1>s
      <4> QED BY <4>1, <4>2, <4>3, <4>4
    <3>8. CreateDbInvariant'
      BY <3>2, <3>3, <3>4, <3>7, <3>9, <2>1, <2>2, <2>d DEF CreateDbInvariant
    <3> QED BY <3>5, <3>6, <3>8 DEF IInv
  <2>6. CASE step = Len(CreateDb)
    <3>1. s = "version"
      BY <2>6, <1>s, Statements
    <3>2. step' = step /\ pc' = "wire"
      BY <2>1, <2>6 DEF NextStatement
    <3>3. Whole' /\ version' = AdapterVersion /\ objects' = objects
      BY <3>1, <2>1, <2>3, <2>6, LastStatement DEF Whole
    <3>4. "database" \in objects
      <4>1. 2 \in 2..(step - 1)
        BY <2>6, <1>s
      <4>2. CreateDb[2] \in objects \cup {"use"}
        BY <4>1, <2>1, <1>t DEF CreateDbInvariant
      <4> QED BY <4>2, <1>s, Statements
    <3> HIDE DEF s
    <3>5. TypeOK'
      BY <3>2, <2>1, <2>3, <1>s, <1>t DEF TypeOK
    <3> QED BY <3>2, <3>3, <3>4, <3>5, <2>1, <2>2, <2>3, <2>d
            DEF IInv, VersionIsCommitPoint, CreateDbInvariant
  <2> QED BY <2>4, <2>5, <2>6, <1>s
<1>9. CASE DropFails
  <2>1. /\ NextStatement /\ step = 1 /\ pc = "create" /\ adapter = "rethinkdb"
        /\ UNCHANGED <<database, used>> /\ UNCHANGED <<flags, answer, failed, upgraded>>
    BY <1>9 DEF DropFails
  <2>2. step' = 2 /\ pc' = "create"
    BY <2>1, <1>f
  <2>3. InitDbWhen' /\ ~failed' /\ ~upgraded'
    BY <2>1, <1>t DEF CreateDbInvariant, InitDbWhen
  <2>4. TypeOK'
    BY <2>1, <2>2, <1>d, <1>s, <1>t DEF TypeOK
  <2> QED BY <2>1, <2>2, <2>3, <2>4, <1>d DEF IInv, CreateDbInvariant
<1>10. CASE ExecFails
  <2> DEFINE s == CreateDb[step]
  <2>1. /\ (CanExec(s) /\ Effect(s)) \/ UNCHANGED <<database, used>>
        /\ pc = "create" /\ pc' = "wire" /\ failed' = TRUE
        /\ UNCHANGED <<flags, step, answer, upgraded>>
    BY <1>10 DEF ExecFails
  <2>2. /\ objects' \subseteq Complete /\ elsewhere' \subseteq Complete
        /\ version' \in Version \cup {None} /\ stored' \in BOOLEAN
        /\ used' \in BOOLEAN /\ strayed' \in BOOLEAN /\ VersionIsCommitPoint'
        /\ objects' # {} \/ stored' => "database" \in objects'
        /\ adapter # "clickhouse" => ~strayed'
        /\ "database" \notin elsewhere'
    <3>1. CASE UNCHANGED <<database, used>>
      BY <3>1, <1>d
    <3>2. CASE CanExec(s) /\ Effect(s)
      <4>1. /\ objects' \subseteq Complete /\ elsewhere' \subseteq Complete
            /\ version' \in Version \cup {None}
            /\ stored' \in BOOLEAN /\ strayed' \in BOOLEAN /\ used' \in BOOLEAN
            /\ s \in Complete \cup {"use"} =>
                 /\ version' = version /\ stored' = stored
                 /\ objects \subseteq objects' /\ elsewhere \subseteq elsewhere'
                 /\ \/ s \in objects' \cup {"use"}
                    \/ Strays /\ s # "database" /\ s \in elsewhere'
            /\ s # "drop" => strayed' = strayed
            /\ s = "drop" => objects' = {} /\ version' = None /\ ~stored' /\ ~strayed'
            /\ s = "version" =>
                 /\ version' = AdapterVersion /\ objects' = objects /\ stored' = stored
                 /\ elsewhere' = elsewhere
            /\ "database" \notin elsewhere => "database" \notin elsewhere'
        BY <3>2, <1>s, <1>t, EffectTyped
      <4>d. "database" \notin elsewhere' /\ (adapter # "clickhouse" => ~strayed')
        BY <4>1, <1>t DEF CreateDbInvariant
      <4>e. step > 2 => "database" \in objects
        <5> SUFFICES ASSUME step > 2 PROVE "database" \in objects
          OBVIOUS
        <5>1. 2 \in 2..(step - 1)
          BY <1>s
        <5>2. CreateDb[2] \in objects \cup {"use"}
          BY <5>1, <2>1, <1>t DEF CreateDbInvariant
        <5> QED BY <5>2, <1>s, Statements
      <4>2. CASE step = 1
        <5>1. s = "drop"
          BY <4>2, <1>s, Statements
        <5> QED BY <5>1, <4>1, <4>d DEF VersionIsCommitPoint
      <4>3. CASE step \in 2..(Len(CreateDb) - 1)
        <5>1. s \in Complete \cup {"use"}
          BY <4>3, <1>s, Statements
        <5>2. version' = None /\ ~stored'
          BY <5>1, <4>1, <4>3, <3>2, <2>1, MiddleStatement
        <5>3. "database" \in objects'
          <6>1. CASE step = 2
            <7>1. s = "database"
              BY <6>1, <1>s, Statements
            <7> QED BY <7>1, <5>1, <4>1
          <6>2. CASE step > 2
            BY <6>2, <4>e, <5>1, <4>1
          <6> QED BY <6>1, <6>2, <4>3, <1>s
        <5> QED BY <5>2, <5>3, <4>1, <4>d DEF VersionIsCommitPoint
      <4>4. CASE step = Len(CreateDb)
        <5>1. s = "version"
          BY <4>4, <1>s, Statements
        <5>2. Whole' /\ objects' = objects
          BY <5>1, <4>1, <4>4, <2>1, LastStatement DEF Whole
        <5>3. \A n \in 8..10 : n > 2
          OBVIOUS
        <5>4. step > 2
          BY <4>4, <5>3, <1>s
        <5>5. "database" \in objects
          BY <5>4, <4>e
        <5> QED BY <5>2, <5>5, <4>1, <4>d DEF VersionIsCommitPoint
      <4> QED BY <4>2, <4>3, <4>4, <1>s
    <3> QED BY <3>1, <3>2, <2>1
  <2>3. InitDbWhen' /\ ~upgraded'
    BY <2>1, <1>t DEF CreateDbInvariant, InitDbWhen
  <2> QED BY <2>1, <2>2, <2>3, <1>s, <1>t DEF IInv, TypeOK, CreateDbInvariant
<1>11. CASE Wire
  <2>1. /\ UNCHANGED <<database, used>> /\ pc = "wire" /\ pc' = "serve"
        /\ UNCHANGED <<flags, step, answer, failed, upgraded>>
    BY <1>11 DEF Wire
  <2> QED BY <2>1, <1>d, <1>s, <1>t DEF IInv, TypeOK, CreateDbInvariant, InitDbWhen
<1>12. CASE Save
  <2>1. /\ "latency" \in objects /\ stored' = TRUE /\ pc = "serve"
        /\ UNCHANGED <<objects, elsewhere, version, strayed, pc, flags, step, used, answer, failed, upgraded>>
    BY <1>12 DEF Save
  <2>2. Whole' = Whole
    BY <2>1 DEF Whole
  <2> QED BY <2>1, <2>2, <1>s, <1>t
          DEF IInv, TypeOK, VersionIsCommitPoint, CreateDbInvariant, InitDbWhen
<1>13. CASE Reconnect
  <2>1. /\ pc = "create" /\ adapter = "clickhouse" /\ used' = FALSE /\ strayed' = TRUE
        /\ UNCHANGED <<objects, elsewhere, version, stored, pc, flags, step, answer,
                       failed, upgraded>>
    BY <1>13 DEF Reconnect
  <2>2. Whole => Whole'
    BY <2>1 DEF Whole
  <2> QED BY <2>1, <2>2, <1>s, <1>t
          DEF IInv, TypeOK, VersionIsCommitPoint, CreateDbInvariant, InitDbWhen
<1>14. CASE UNCHANGED vars
  <2>1. UNCHANGED <<database, used>> /\ UNCHANGED <<pc, flags, step, answer, failed, upgraded>>
    BY <1>14 DEF vars
  <2> QED BY <2>1, <1>d, <1>s, <1>t DEF IInv, TypeOK, database, CreateDbInvariant, InitDbWhen, Strays
<1> QED BY <1>1, <1>2, <1>3, <1>4, <1>5, <1>6, <1>7, <1>8, <1>9, <1>10, <1>11, <1>12, <1>13,
           <1>14
        DEF Next

\* The inductive invariant holds in every reachable state.
THEOREM Inductive == Spec => []IInv
<1> QED BY InitIInv, StepIInv, PTL DEF Spec

\* main's variables and the database's stay in their types.
THEOREM TypeCorrect == Spec => []TypeOK
<1>1. IInv => TypeOK
  BY DEF IInv
<1> QED BY <1>1, Inductive, PTL

\* CreateDb's last statement is its commit point: wherever a statement failed or
\* the process was killed, a version row is found only once every table was created:
\* in the database, if ClickHouse's connection was not replaced after USE.
THEOREM CommitPoint == Spec => []VersionIsCommitPoint
<1>1. IInv => VersionIsCommitPoint
  BY DEF IInv
<1> QED BY <1>1, Inductive, PTL

\* A start that did not see CreateDb fail and did not upgrade serves with a
\* database of the adapter's version that some CreateDb had gone through to its end.
THEOREM ServesSoundDatabase == Spec => []SoundService
<1>1. IInv => SoundService
  BY DEF IInv, CreateDbInvariant, SoundService
<1> QED BY <1>1, Inductive, PTL

\* Only CreateDb destroys, and main calls it only with -reset, or without -no_init
\* for a database in which no version row was found.
THEOREM DestroysOnlyWhenAsked == Spec => DestroyedOnlyWhenAsked
<1>1. ASSUME IInv, [Next]_vars,
             (version # None /\ version' = None) \/ (stored /\ ~stored')
      PROVE  flags.reset \/ (~flags.noInit /\ answer = "missing")
  <2>1. pc = "create"
    <3> SUFFICES ASSUME pc # "create"
                 PROVE  version' = version /\ (stored => stored')
      BY <1>1 DEF IInv, TypeOK
    <3>1. ~Exec /\ ~Reconnect /\ ~DropFails /\ ~ExecFails
      BY DEF Exec, Reconnect, DropFails, ExecFails
    <3>2. CASE Save
      BY <3>2 DEF Save
    <3>3. CASE UNCHANGED database
      BY <3>3 DEF database
    <3>4. Save \/ UNCHANGED database
      BY <1>1, <3>1 DEF Next, vars, Start, Exit, Open, CheckDbVersion, InitDb, UpgradeDb,
                        KeepDb, Wire, database
    <3> QED BY <3>2, <3>3, <3>4
  <2>2. InitDbWhen
    BY <1>1, <2>1 DEF IInv, CreateDbInvariant
  <2> QED BY <2>2 DEF InitDbWhen
<1>2. IInv /\ [Next]_vars =>
        [(version # None /\ version' = None) \/ (stored /\ ~stored') =>
           flags.reset \/ (~flags.noInit /\ answer = "missing")]_vars
  BY <1>1
<1> QED BY <1>2, Inductive, PTL DEF Spec, DestroyedOnlyWhenAsked

\* After a CreateDb that succeeded, no event of the time before it is left, also
\* where the error of the drop was ignored.
THEOREM CreatesEmpty == Spec => CreatedIsEmpty
<1>1. ASSUME IInv, [Next]_vars, pc = "create" /\ pc' = "wire" /\ ~failed'
      PROVE  ~stored'
  <2>1. Exec
    <3>1. ~DropFails
      BY <1>1, Statements DEF DropFails, NextStatement, IInv, TypeOK
    <3> QED BY <1>1, <3>1 DEF Next, vars, Start, Exit, Open, CheckDbVersion, InitDb,
                              UpgradeDb, KeepDb, Reconnect, ExecFails, Wire, Save
  <2>2. step = Len(CreateDb) /\ Effect(CreateDb[step])
    BY <1>1, <2>1 DEF Exec, NextStatement
  <2>3. CreateDb[step] = "version"
    BY <1>1, <2>2, Statements DEF IInv, TypeOK
  <2>4. stored' = stored
    BY <2>2, <2>3 DEF Effect
  <2> QED BY <1>1, <2>2, <2>4, LastStatement
<1>2. IInv /\ [Next]_vars => [pc = "create" /\ pc' = "wire" /\ ~failed' => ~stored']_vars
  BY <1>1
<1> QED BY <1>2, Inductive, PTL DEF Spec, CreatedIsEmpty
\* Neither a step of CreateDb, which was not asked for, nor an upgrade, which newer
\* databases are refused, touches or serves a newer database.
THEOREM LeavesNewerAlone == Spec => NewerIsLeftAlone
<1>1. ASSUME IInv, [Next]_vars, version # None, version > AdapterVersion,
             ~flags.reset, answer # "missing"
      PROVE  version' = version /\ (pc' = "serve" => UNCHANGED vars)
  <2>1. ~InitDbWhen /\ pc # "create"
    BY <1>1 DEF IInv, CreateDbInvariant, InitDbWhen
  <2>2. pc \notin {"wire", "serve"}
    BY <1>1, <2>1, StartupAssumption DEF IInv, CreateDbInvariant
  <2> QED BY <1>1, <2>1, <2>2
          DEF Next, vars, database, Start, Exit, Open, CheckDbVersion, InitDb, UpgradeDb,
              KeepDb, Exec, Reconnect, DropFails, ExecFails, Wire, Save
<1>2. IInv /\ [Next]_vars =>
        [version # None /\ version > AdapterVersion =>
           \/ version' = version /\ pc' # "serve"
           \/ flags.reset \/ answer = "missing"]_vars
  BY <1>1
<1> QED BY <1>2, Inductive, PTL DEF Spec, NewerIsLeftAlone
=============================================================================
