------------------------------- MODULE Startup -------------------------------
(***************************************************************************)
(* How main brings the database up (main.go, store/store.go, and Open,     *)
(* CheckDbVersion, CreateDb and UpgradeDb of the ClickHouse, the MySQL and *)
(* the RethinkDB adapter): open, read the version row, then refuse,        *)
(* create, reset, upgrade or serve, as the flags say.  CreateDb is a       *)
(* sequence of statements that no transaction holds together (MySQL        *)
(* commits at each); any of them may fail, with or without its effect, and *)
(* the process may be killed between any two.  main goes on to serve       *)
(* whether or not CreateDb or UpgradeDb succeeded.                         *)
(*                                                                         *)
(* ClickHouse's USE holds for the connection that executed it.  When the   *)
(* pool replaces that connection (its lifetime is over, or it is broken),  *)
(* the CREATE statements, which name no database, go to the database a     *)
(* fresh connection is in, "default", while the version row is inserted    *)
(* into rum.kvmeta.  MySQL's statements share one connection (a            *)
(* transaction), RethinkDB's name their database.                          *)
(*                                                                         *)
(* The database is the configured one, for ClickHouse "rum", which         *)
(* GetDbVersion reads, and one process uses it.  A version row that is not *)
(* a positive number is left out, and so is the Redis adapter, whose       *)
(* CheckDbVersion never looks.                                             *)
(***************************************************************************)
EXTENDS Naturals, Sequences

CONSTANTS Adapters,       \* the adapters to consider
          Version,        \* values of the version row
          AdapterVersion, \* adpVersion
          None,           \* no version row, version not read
          Subscriptions,  \* BRUM_SUBSCRIPTION_ENABLED
          ReadsFail       \* whether the connection may break between the
                          \* answer to the version query and its row

ASSUME StartupAssumption ==
  /\ Adapters \subseteq {"clickhouse", "mysql", "rethinkdb"}
  /\ Version \subseteq Nat \ {0} /\ AdapterVersion \in Version
  /\ None \notin Version
  /\ Subscriptions \in BOOLEAN /\ ReadsFail \in BOOLEAN

VARIABLES
  adapter,    \* the adapter in use, the same at every start
  \* the database
  objects,    \* the database, its tables and its view
  elsewhere,  \* the tables and the view of "default"
  version,    \* the version row of kvmeta
  stored,     \* latency holds events
  \* the process
  pc,
  flags,      \* -reset, -upgrade, -no_init
  step,       \* the statement CreateDb is at
  used,       \* the connection of ClickHouse's pool has executed USE
  \* history of this start
  answer,     \* what CheckDbVersion returned
  failed,     \* CreateDb returned an error
  upgraded,   \* UpgradeDb was called
  \* history of the database
  strayed     \* since its last drop, CreateDb's connection was replaced after USE

database == <<objects, elsewhere, version, stored, strayed>>
vars == <<adapter, database, pc, flags, step, used, answer, failed, upgraded>>

Object == {"database", "kvmeta", "hostnames", "latency", "own_hostnames",
           "grant_hostnames", "view"}

\* Only ClickHouse has the view.
Complete == IF adapter = "clickhouse" THEN Object ELSE Object \ {"view"}

\* The statements of CreateDb; main asks for the drop every time.
ClickHouseCreateDb ==
  <<"drop", "database", "use", "kvmeta", "hostnames", "latency",
    "own_hostnames", "grant_hostnames", "view", "version">>

MySQLCreateDb ==
  <<"drop", "database", "use", "latency", "hostnames", "own_hostnames",
    "grant_hostnames", "kvmeta", "version">>

RethinkDBCreateDbVersionEarly ==
  <<"drop", "database", "kvmeta", "version", "latency", "hostnames",
    "own_hostnames", "grant_hostnames">>

RethinkDBCreateDb ==
  <<"drop", "database", "latency", "hostnames", "own_hostnames",
    "grant_hostnames", "kvmeta", "version">>

CreateDb == CASE adapter = "clickhouse" -> ClickHouseCreateDb
              [] adapter = "mysql"      -> MySQLCreateDb
              [] adapter = "rethinkdb"  -> RethinkDBCreateDb

Flags == [reset : BOOLEAN, upgrade : BOOLEAN, noInit : BOOLEAN]

Init == /\ adapter \in Adapters
        /\ \/ objects = {} /\ version = None /\ stored = FALSE
           \/ objects = Complete /\ version \in Version /\ stored \in BOOLEAN
        /\ elsewhere = {} /\ strayed = FALSE
        /\ pc = "off" /\ step = 1 /\ used = FALSE
        /\ flags = [reset |-> FALSE, upgrade |-> FALSE, noInit |-> TRUE]
        /\ answer = "none" /\ failed = FALSE /\ upgraded = FALSE

Start(f) ==
  /\ pc = "off"
  /\ pc' = "open" /\ flags' = f /\ step' = 1 /\ used' = FALSE
  /\ answer' = "none" /\ failed' = FALSE /\ upgraded' = FALSE
  /\ UNCHANGED <<adapter, database>>

\* os.Exit(1), a kill, or the end of main.
Exit ==
  /\ pc # "off"
  /\ pc' = "off"
  /\ UNCHANGED <<adapter, database, flags, step, used, answer, failed, upgraded>>

(***************************************************************************)
(* Store.Open: the adapter's Open, then CheckDbVersion.                    *)
(***************************************************************************)
Open ==
  /\ pc = "open"
  /\ pc' = "check"
  /\ UNCHANGED <<adapter, database, flags, step, used, answer, failed, upgraded>>

VersionAnswer == IF version = AdapterVersion THEN "current" ELSE "invalid"

\* What CheckDbVersion may answer; an error other than these two ends main.
\* The ClickHouse adapter takes a result without a row for a database that is not
\* initialized, and does not ask rows.Err() why there was none.
ClickHouseAnswers ==
  {IF version = None THEN "missing" ELSE VersionAnswer}
    \cup IF ReadsFail /\ "kvmeta" \in objects THEN {"missing"} ELSE {}

\* No database, no table, no row: each has its own error, each is understood.
MySQLAnswers == {IF version = None THEN "missing" ELSE VersionAnswer}

\* The server refuses to take a field of a row that is not there, with an error
\* that the adapter does not understand.
RethinkDBAnswers == CASE version # None -> {VersionAnswer}
                      [] version = None /\ "kvmeta" \notin objects -> {"missing"}
                      [] OTHER -> {}

Answers == CASE adapter = "clickhouse" -> ClickHouseAnswers
             [] adapter = "mysql"      -> MySQLAnswers
             [] adapter = "rethinkdb"  -> RethinkDBAnswers

CheckDbVersion ==
  /\ pc = "check"
  /\ answer' \in Answers
  /\ pc' = "decide"
  /\ UNCHANGED <<adapter, database, flags, step, used, failed, upgraded>>

(***************************************************************************)
(* main's decision.  A refusal is the step Exit.                           *)
(***************************************************************************)
InitDbWhenMissingAsked ==
  \/ answer = "missing"
  \/ answer \in {"invalid", "current"} /\ flags.reset

UpgradeDbOfAny ==
  /\ pc = "decide" /\ answer = "invalid" /\ ~flags.reset /\ flags.upgrade
  /\ upgraded' = TRUE
  /\ pc' = "wire"
  /\ UNCHANGED <<adapter, database, flags, step, used, answer, failed>>

\* InitDb is called for a missing database, and for a reset.
InitDbWhen ==
  \/ answer = "missing" /\ ~flags.noInit
  \/ answer \in {"invalid", "current"} /\ flags.reset

InitDb ==
  /\ pc = "decide" /\ InitDbWhen
  /\ pc' = "create"
  /\ UNCHANGED <<adapter, database, flags, step, used, answer, failed, upgraded>>

\* The adapter's UpgradeDb does nothing.
UpgradeDb ==
  /\ pc = "decide" /\ answer = "invalid" /\ ~flags.reset /\ flags.upgrade
  /\ ~(version > AdapterVersion)
  /\ upgraded' = TRUE
  /\ pc' = "wire"
  /\ UNCHANGED <<adapter, database, flags, step, used, answer, failed>>

KeepDb ==
  /\ pc = "decide" /\ answer = "current" /\ ~flags.reset
  /\ pc' = "wire"
  /\ UNCHANGED <<adapter, database, flags, step, used, answer, failed, upgraded>>

(***************************************************************************)
(* CreateDb, a statement at a time.                                        *)
(***************************************************************************)
\* Where a CREATE of a table or of the view goes.
Strays == adapter = "clickhouse" /\ ~used

Effect(s) ==
  CASE s = "drop"     -> /\ objects' = {} /\ version' = None /\ stored' = FALSE
                         /\ strayed' = FALSE /\ UNCHANGED <<elsewhere, used>>
    [] s = "database" -> /\ objects' = objects \cup {s}
                         /\ UNCHANGED <<elsewhere, version, stored, strayed, used>>
    [] s = "use"      -> used' = TRUE /\ UNCHANGED database
    [] s = "version"  -> /\ version' = AdapterVersion
                         /\ UNCHANGED <<objects, elsewhere, stored, strayed, used>>
    [] OTHER          -> /\ IF Strays THEN /\ elsewhere' = elsewhere \cup {s}
                                           /\ UNCHANGED objects
                                      ELSE /\ objects' = objects \cup {s}
                                           /\ UNCHANGED elsewhere
                         /\ UNCHANGED <<version, stored, strayed, used>>

CanExecAnything(s) == TRUE

\* What a statement asks of the database it is executed in: there is no such database
\* or table yet ("default" may hold one of an earlier CreateDb; the tables that are
\* not listed are created IF NOT EXISTS), the tables the view is made of are there,
\* as is the one the version row goes to.
CanExec(s) ==
  LET here == IF Strays THEN elsewhere ELSE objects IN
  /\ s = "database" => s \notin objects
  /\ s \in {"kvmeta", "latency"} => s \notin here
  /\ s = "view" => {"own_hostnames", "grant_hostnames"} \subseteq here
  /\ s = "version" => "kvmeta" \in objects

NextStatement == IF step = Len(CreateDb) THEN pc' = "wire" /\ UNCHANGED step
                                         ELSE step' = step + 1 /\ UNCHANGED pc

Exec ==
  /\ pc = "create"
  /\ CanExec(CreateDb[step]) /\ Effect(CreateDb[step])
  /\ NextStatement
  /\ UNCHANGED <<adapter, flags, answer, failed, upgraded>>

ExecFailsUnnoticed ==
  /\ pc = "create"
  /\ Effect(CreateDb[step]) \/ UNCHANGED <<database, used>>
  /\ NextStatement
  /\ UNCHANGED <<adapter, flags, answer, failed, upgraded>>

\* The pool of ClickHouse's driver replaces the connection that executed USE.
Reconnect ==
  /\ pc = "create" /\ adapter = "clickhouse" /\ used
  /\ used' = FALSE /\ strayed' = TRUE
  /\ UNCHANGED <<adapter, objects, elsewhere, version, stored, pc, flags, step,
                 answer, failed, upgraded>>

\* The RethinkDB adapter ignores the error of the drop.
DropFails ==
  /\ pc = "create" /\ step = 1 /\ adapter = "rethinkdb"
  /\ UNCHANGED <<database, used>>
  /\ NextStatement
  /\ UNCHANGED <<adapter, flags, answer, failed, upgraded>>

\* A failed statement, whose effect the server may yet have had, ends CreateDb;
\* main logs the error, or not even that, and goes on.
ExecFails ==
  /\ pc = "create"
  /\ step = 1 => adapter # "rethinkdb"
  /\ \/ CanExec(CreateDb[step]) /\ Effect(CreateDb[step])
     \/ UNCHANGED <<database, used>>
  /\ failed' = TRUE
  /\ pc' = "wire"
  /\ UNCHANGED <<adapter, flags, step, answer, upgraded>>

(***************************************************************************)
(* The rest of main: Load reads the subscriptions' table, if enabled.      *)
(***************************************************************************)
Wire ==
  /\ pc = "wire"
  /\ Subscriptions => "own_hostnames" \in objects
  /\ pc' = "serve"
  /\ UNCHANGED <<adapter, database, flags, step, used, answer, failed, upgraded>>

\* An event is saved while the program serves.
Save ==
  /\ pc = "serve" /\ "latency" \in objects
  /\ stored' = TRUE
  /\ UNCHANGED <<adapter, objects, elsewhere, version, strayed, pc, flags, step, used,
                 answer, failed, upgraded>>

Next == \/ \E f \in Flags : Start(f)
        \/ Exit \/ Open \/ CheckDbVersion
        \/ InitDb \/ UpgradeDb \/ KeepDb
        \/ Exec \/ Reconnect \/ DropFails \/ ExecFails \/ Wire \/ Save

Spec == Init /\ [][Next]_vars

(***************************************************************************)
(* Properties.                                                             *)
(***************************************************************************)
\* Every variable has the type its declaration says.
TypeOK ==
  /\ adapter \in Adapters
  /\ objects \subseteq Complete /\ elsewhere \subseteq Complete
  /\ version \in Version \cup {None} /\ stored \in BOOLEAN
  /\ pc \in {"off", "open", "check", "decide", "create", "wire", "serve"}
  /\ flags \in Flags /\ step \in 1..Len(CreateDb)
  /\ answer \in {"none", "missing", "current", "invalid"}
  /\ used \in BOOLEAN /\ failed \in BOOLEAN /\ upgraded \in BOOLEAN
  /\ strayed \in BOOLEAN

\* Every object is where it belongs, or, after the connection was replaced under
\* CreateDb, at least somewhere.
Whole == \/ objects = Complete
         \/ strayed /\ Complete \subseteq objects \cup elsewhere

\* The version row, inserted last, is CreateDb's commit point: whatever failed or was
\* killed on the way, where it is every table was created: in the database, unless
\* ClickHouse's connection was replaced after USE.
VersionIsCommitPoint == version # None => Whole

\* The program serves with a database of its own version that CreateDb had finished,
\* unless this very start saw CreateDb fail or was asked to upgrade.
SoundService ==
  pc = "serve" /\ ~failed /\ ~upgraded => version = AdapterVersion /\ Whole

\* What makes them inductive: tables and events are in a database; until main has
\* decided, nothing has failed; CreateDb has created what the statements behind it
\* name, without a version row, and elsewhere only if its connection was replaced;
\* and what main believes of a database it keeps is so.
CreateDbInvariant ==
  /\ objects # {} \/ stored => "database" \in objects
  /\ adapter # "clickhouse" => ~strayed
  /\ "database" \notin elsewhere
  /\ pc \in {"open", "check", "decide"} => step = 1 /\ ~failed /\ ~upgraded
  /\ pc = "decide" /\ answer = "current" => version = AdapterVersion
  /\ pc = "create" =>
       /\ InitDbWhen /\ ~failed /\ ~upgraded
       /\ step > 2 \/ (step = 2 /\ adapter # "rethinkdb") => version = None /\ ~stored
       /\ step > 3 => ~Strays \/ strayed
       /\ \A i \in 2..(step - 1) :
            \/ CreateDb[i] \in objects \cup {"use"}
            \/ strayed /\ i # 2 /\ CreateDb[i] \in elsewhere
  /\ pc \in {"wire", "serve"} =>
       /\ ~failed /\ ~upgraded => version = AdapterVersion /\ Whole
       /\ failed => InitDbWhen
       /\ upgraded => ~(version > AdapterVersion)

IInv == TypeOK /\ VersionIsCommitPoint /\ CreateDbInvariant

\* A database that carries a version, or events, is destroyed only by a start
\* with -reset, or by one without -no_init that found no version row in it; never
\* by the default flags, whatever an earlier start left behind.
DestroyedOnlyWhenAsked ==
  [][(version # None /\ version' = None) \/ (stored /\ ~stored') =>
       flags.reset \/ (~flags.noInit /\ answer = "missing")]_vars

\* A CreateDb that succeeds leaves none of the events that were there before, also
\* with the adapter that ignores the error of its drop.
CreatedIsEmpty == [][pc = "create" /\ pc' = "wire" /\ ~failed' => ~stored']_vars

\* A database newer than the adapter is left alone and not served, unless a reset
\* was asked for or its version could not be read.
NewerIsLeftAlone ==
  [][version # None /\ version > AdapterVersion =>
       \/ version' = version /\ pc' # "serve"
       \/ flags.reset \/ answer = "missing"]_vars
=============================================================================
