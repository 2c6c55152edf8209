# Verification of front_basicrum_go

front_basicrum_go collects real-user-monitoring beacons: browsers post them over HTTP, one
goroutine turns each into a row of an analytical database, and three backups keep the raw
requests in files. This directory holds TLA+ models of the program, TLC configurations that
check them on small instances, and theorems that TLAPS proves for every value of the
constants. Line references are to the repository's files.

## 1. The system

| Component | State | Operations | Modelled in |
|---|---|---|---|
| Processing service (`service/service.go`) | blocked sender goroutines, an unbuffered channel, a minute ticker, the map of hostnames | `SaveAsync`, `Run` (`processEvent`, `processHosts`), `GetData` | `Service`, `Disposal` |
| Subscriptions (`service/subscription/caching`, `types/owner_hostname.go`, the ClickHouse queries) | the cache, the owner table | `Load`, `GetSubscription`, the private handlers, `RegisterHostname`, `DeleteHostname`, expiry | `Subscriptions` |
| File backup (`backup/service.go`, `single.go`, `backup.go`) | three batchers, batches in flight, open files, hour files | `SaveAsync`, `SaveExpired`, `SaveUnknown`, the batch function, `Flush` | `FileBackup`, `Backing` |
| Daily archive (`backup/archive.go`) | hour files, day file, parts file, position of the job | `compressDay` | `Archive` |
| Startup and store (`main.go`, `store/`, the ClickHouse, MySQL and RethinkDB adapters) | database objects, version row, flags | `Open`, `CheckDbVersion`, `InitDb`, `UpgradeDb`, main's decision | `Startup` |
| Servers and shutdown (`server/`, `main.go`) | two servers, requests in flight, the stop group's context | `Build`, `Serve`, the catcher, `stopServers` | `Collector` |
| MySQL, Redis, RethinkDB adapters (`dao/`) | owner rows, saved events, MySQL's pool of connections | `GetSubscriptions`, `GetSubscription`, `InsertOwnerHostname`, `DeleteOwnerHostname`, `Save` | `Adapters` |
| Beacon decompression (`beacon/decompress.go`) | position, repetition and output of a scanner | `DecompressBucketLog` | `Decompress` |
| Beacon mapping (`beacon/beacon.go`) | none | `FromEvent`, `ConvertToRumEvent` | `Pipeline`, the fields that decide where an event goes |
| Migrations (`dao/migration_dao.go`) | copied files, changelog, lock row | `Migrate` (the call in main is commented out) | `Migration` |
| The way of a beacon (`server/handlers.go`, `service/`, `beacon/`, `backup/`) | the above, composed | catcher, processing, lookup, backups, the end of the process | `Pipeline` |
| Geolocation, compression, user-agent parsing | none | stateless lookups and wrappers of libraries | not modelled |

How they interact. `main` opens the database, decides what to do about its version, loads the
subscriptions, starts the processing goroutine and the servers, and waits for a signal. The
catcher answers 204, hands the event to the service and to the archive backup, each in a
goroutine of its own. The processing goroutine is the only reader of the channel, the only user
of the cache, and the only one that touches the map of hostnames; it calls the expired and
unknown backups. The event's parameter map is shared by all of them. At the signal, the
servers' shutdowns (under a five second context) and the backups' `Flush` run side by side, and
`main` returns when both have.

What is hard here, and hard to test: goroutines that nobody waits for (senders, savers, the
goroutine that closes a file); a map shared between them; a cache without invalidation over a
table whose deletes may bring older rows back; multi-step changes of a database or a directory
without a transaction, cut at any point; the order of shutdown. `PROJECT.json` lists each such
place under `hazards`, with the properties aimed at it.

What makes each part correct:

- service: every event has one outcome, for ever; none vanishes; the hostname of each processed
  event is handed to the database or known to be missed; the goroutine serves events and ticks alike;
- subscriptions: no answer "found" for what was never registered, was gone before the process
  started, or has once been answered as expired; a registration is found at once;
- file backup: one line per event, batches processed in the end, nothing left behind by `Flush`;
- archive: no line lost, hour files removed last, a parts file that cuts the day file into hours;
- startup: the version row is the commit point of the schema; data is destroyed only when asked;
- adapters: a cached row answers only for what was registered, a row goes only by its own owner's
  call, a saved event stays, a call meets a connection that has a database;
- decompression: what a sender wrote comes out, and the scanner ends on any text;
- collector: an orderly exit cuts nothing off, the batchers are over with what they had,
  `main` returns;
- pipeline: what the catcher handed over is archived, was refused by a file, or died with the
  process; a page that does not parse leaves nothing behind;
- migrations: one process migrates at a time, the changelog is true, every file is templated.

## 2. The modules

Every module is parameterised by CONSTANTS with a named assumption; the `MC` module of the same
name gives them values for TLC. One action stands for one handler, loop turn or statement. Where
an operator is followed by a variant that no action uses (`ReceiveKeepsSender` beside `Receive`),
the variant is a plausible bug of that code, against which the property named in `PROJECT.json`
is tried: TLC must find it violated.

### Service, Disposal

`senders` are the goroutines blocked in `s.events <- event`; `ticked` is the ticker's channel of
capacity one; `pc`, `current`, `lookup` and `todo` are where the goroutine of `Run` is; `hosts` is
the map. `Receive`/`ReceiveTick` are the two cases of the select; `GetSubscription` is the call
and its error return; `ProcessRumEvent` is `Save` with the assignment to the map, whatever `Save`
returned; `SaveInBackup` the other two cases of the switch; `SaveHost` one turn of the loop of
`processHosts` (in any order, as Go ranges over maps), `ClearHosts` its end. `queued` are the rows
for which `SaveHost` returned nil: ClickHouse's is an asynchronous insert that does not wait
(`clickhouse.go:351`), so the server stores them later, or drops them (`FlushHosts`, with
`hostRows` and `discarded`). Subscription service
and database may answer anything. `Exit` is the end of the process at any moment: memory is lost,
the history variables remember what was lost.

The beacon factory is left out: `HostnameOf` and `CreatedAt` are what it makes of each event.
`created_at` may be chosen by the client (`server/handlers.go:166-172`), so the events of a host
come in any order of time; the row of a host is that of the event processed last, not the latest.

`Disposal` says what the service promises, in two variables: an event's outcome, given once, and
the listed hostnames, each of which had a processed event and appears when the database likes.

### Subscriptions

`rows` is the table as ClickHouse keeps it, versions of a hostname included; `Visible` is what
`FINAL` reads; `Merge` drops older versions at any moment. `NewSubscription` and
`InsertOwnerHostname` are the two halves of `RegisterHostname`, called by `CreateHostname` for a form
that is `Accepted` (token, method, body, user); `DeleteOwnerHostname` removes the
versions of one owner, which may make another owner's older version visible again. A call of
`GetSubscription` is two steps: what it takes from the cache or the table (`Hit`, `Fetch`, or the
immediate answers `Miss`, `MissesRow`, `FetchFails`), then `Reply`, which looks at the clock and
the hostname. `MissesRow` is a row that `rows.Next()` does not deliver because the connection
broke: `GetSubscription` does not ask `rows.Err()` (`clickhouse.go:422`) and answers as if there
were none. `Load` and `Stop` start and end the process.

The lookup is modelled for any identifier its interface takes. In the present code
`ConvertToRumEvent` fills only a part of the event and not its `SubscriptionID`, so every lookup
of the running program is for the empty one; that is in Pipeline.

### FileBackup

Per backup: events whose saver goroutine has not reached the batcher (`starting`), the batch being
collected, and the closed batches, each a record of the events still to write, the group being
written and the state of that group's file. `OpenFile`, `WriteString` and `CloseFile` are the
three steps of `appendToFile`; `CloseFile` belongs to a goroutine of its own, so it may come before
or after the write, or never; a write may also end with an error on the way (`Leaves`). The batcher
is eapache's and external: its timer closes a batch and starts a goroutine for it, and
`Shutdown(true)` closes the batch being collected and waits until the counter of batches, younger
ones included, is zero. `FlushClose` is that call, which goes on at once where nothing is left
(`GoesOn`) and otherwise waits (`Waits`) for the `BatchDone` that empties the batcher. `Flush` makes
it for the archive, the expired and the unknown backup in turn, while handlers may go on saving.

`Backing` says what a backup promises: an event it is given is collected once, then written or not,
or dropped with the process. FileBackup implements it with `InMemory` (savers,
batchers, batches in flight) for what is collected; Pipeline, which has the four variables of
`Backing` for its own, implements it too, so both speak of the same backups.

### Archive

One day: `AppendLine` puts lines into the file of the hour, `HourPasses` is the clock, then the job
visits the hosts in any order. `FileRead(i)` is the file that turn i of `collectHours` reads: the
day is truncated to the hour, not to midnight, so turn 0 reads the file of the hour at which the
job runs (wrapping at the day's end, as `makeHourPath` uses only the hour). `WriteToFile` is the
code's remove, create, write and close with the three ways it can end; an error of `Close` is only
logged. `LinesBefore` and `SummaryBefore` are the day and the summary as the loop has them after i
turns, `PartOf` what turn i adds. `RemoveFile` and `RemoveDir` are `os.RemoveAll`, which a crash may cut. `fault` fixes for a
behaviour which faults it has: none, any operation and a crash, or an unnoticed error of `Close`.
The program adds the job to a scheduler that it never starts, so nothing in the model says that the
job is called; `StartDay` is a call of `compressDay`, by whoever, and `Job` the steps of a job that was
called.

### Startup

The database is the set of its objects, its version row and whether it holds events. `CheckDbVersion`
gives one of the answers the adapter in use can get; `InitDb`, `UpgradeDb` and `KeepDb` are the
branches of main that go on, `Exit` is a refusal, a kill or the end. `CreateDb` is the adapter's
sequence of statements, `Exec` and `ExecFails` one statement, the latter with or without its effect;
`CanExec` is what a statement asks of the database it is executed in. ClickHouse's `USE` is known to
one pooled connection (`used`): once the pool has replaced it (`Reconnect`), the CREATE statements,
which name no database, go to `elsewhere`, the database "default", while the version row goes to
`rum` by name; `strayed` remembers that. MySQL's statements share the connection of a transaction,
RethinkDB's name their database. RethinkDB ignores the error of its drop
(`DropFails`) and has an answer for a missing table but none for a missing row. `main` serves after
a failed `CreateDb` too. ClickHouse's version is read from "rum" whatever `database` is configured;
the model is of that database.

### Adapters

The three adapters beside ClickHouse, one of them per behaviour. `rows` are the owned hostnames;
`CallInsert` and `CallDelete` begin a handler's call, `InsertOwnerHostname`, `DeleteOwnerHostname`
or `HandlerFails` end it. The caching service's lookup is `Hit`, from the cache, or
`CallGetSubscription` and `GetSubscription`. The cache is filled by `GetSubscriptions` at the start,
each adapter in its own way: RethinkDB's entries all point to one variable, Redis reads one page of
keys. `Save` is one transaction of MySQL, one insert of RethinkDB, and `Incr`, `Get`, `HSet` on Redis,
whose first two errors are ignored. `SameKey` is when two rows are one: on Redis, the key joins user
and hostname without a separator.

For MySQL a call holds a connection: `Take` picks an idle one or opens one with the pool's address,
`Return` gives it back, `Lose` is the server or the driver dropping it. `CreateDb` leaves a pool
whose address names no database and one connection that has executed `USE`. The pool is replaced
before the first statement, so one that fails leaves it too (`CreateDbFails`), with a connection that
had executed `USE`, or not, or with none, and `main` goes on to serve. `enabled` is whether
subscriptions are: `Load` then reads them, and where it fails main ends.

### Decompress

`DecompressBucketLog`, an action for each branch of its loop. `i` counts the characters behind the
scanner, which are numbers (the value of the character) or marks. `Encode` is the format: what a
sender writes for a sequence of numbers with their repetitions (`TextBefore` its first tokens).
The initial states are every log a sender may write of a few numbers, and every short text, so the
branches that no proper log reaches run too. `MaxUint` is the largest number of 64 bits; a sender's
numbers and counts are not beyond it. Names carry `Scan` where Archive has the plain ones, since
`Texts_proofs` extends both modules.

### Pipeline

The composition. It extends Service: its actions conjoin Service's with what the catcher, the
mapping, the lookup and the backups do in the same step, so that every step is one of Service or
leaves Service's variables alone. `NewEventFromRequest`, `Submit` and `Archive` are the catcher
after its 204; the process may end between the two `SaveAsync` calls. `Create` makes the RumEvent:
`ConvertToRumEvent` is the hostname and the empty identifier. `Lookups` narrows the answer that
Service leaves open to what the enabled or the disabled subscription service gives for that
RumEvent. `collected`, `written` and `unwritten` are what FileBackup says in detail, per backup;
`WriteBatch` takes any part of what is collected, as timers cut batches anywhere. `CreatePanics` and
`BatchPanics` are the nil result of `url.Parse` that both `beacon.go:284` and `backup.go:46` use: an
`End` of the process, like `Stop`, a signal or a kill. It is then started again. The flush of an
orderly exit is in Collector and FileBackup; here an end keeps nothing, which is what a panic does.

### Migration

`Migrate`, one action per step: the directory, the copying and the rewriting of one file, the
tables, `Lock`, one half of applying a migration, `Unlock`, the removal. Every error goes where the
deferred calls send it (`FailsEarly`, `UpFails`); `LockFails` may have taken the lock, and an
`Unlock` whose error is logged may have left it; `Kill` skips all deferred calls. chmigrate is
external: `markFirst` leaves open whether a migration enters the changelog before or after it is
executed. `doubtful` and `stuck` record what a failure or a kill left uncertain.

### Collector

The process around the above, for a server configuration: `srv` and `shut` are the life and the
shutdown of each server, `handler` where each accepted request is between the 204 and the two
`SaveAsync` calls, `process` and `saver` where the service and the backups are with its event, only
as far as they touch the shared map and the batchers; a batch ends with its line written or not, as
FileBackup says in detail. `Flush` waits for the archive's batcher, then for those of the rejected
events, here one. `Crash` is the runtime's fatal error when a
saver writes the map while another goroutine uses it. `Shutdown` of a server whose goroutine has
not yet set `s.server` fails and cancels the context of the others.

## 3. The runs

| Run | Specification, bounds | Shows |
|---|---|---|
| service | `FairSpec`; 3 events, 2 hostnames, 3 times, 1 exit | one outcome per event, refinement of `Disposal`, liveness |
| subscriptions | `Spec`; 2 users, 2 hostnames, 2 identifiers, clock to 2, symmetric | what answers can be |
| file_backup | `FairSpec`; 3 events of 2 hosts, 2 saves in all, files may fail | one line each, refinement of `Backing`, `Flush` leaves nothing and returns |
| archive | `FairSpec`; 2 hosts, 3 lines, 3 hours, job at hour 0 or 1, all faults | no loss, order of removal, parts, a called job archives |
| startup | `Spec`; three adapters, versions 1..3 around the adapter's 2, any number of starts | commit point, no destruction unasked |
| collector | `FairSpec`; 1 request, 9 configurations | orderly exit, `main` returns |
| collector_race | `Spec`; the same | *violation*: concurrent map write |
| adapters | `Spec`; three adapters, 2 users and 2 hostnames of which two pairs make one key, 2 identifiers, 2 events, 4 calls that write, symmetric | answers, owners, saved events, connections |
| pipeline | `FairPipeSpec`; 3 events of one host, one with a bad page and one with a bad form; subscriptions and backups on or off; 1 stop, 2 ends | bad pages, each backup keeps what it was given, accounting from the 204 to the files |
| pipeline_unknown | `PipeSpec`; the same | *violation*: a registered beacon is unknown |
| migration | `FairSpec`; 2 processes, 2 migrations, 3 calls | lock, changelog, templating, `Migrate` returns |
| decompress | `ScanSpec`, fair; 4 modes, logs of up to 2 of 7 numbers repeated 1, 2 or 37 times, texts of up to 4 characters | decoding is right and ends |

The bounds and why they are enough. Service: two events of one hostname in the wrong order of time
and one of another hostname give overwritten entries of the map, a loop of two turns that an exit
or a failure cuts, and contention for the channel; a second exit would meet the same states with
fewer events. Subscriptions: two owners of one hostname with an identifier each are what a
replaced, a resurfacing and a stale row need; a trial of one unit expires in two. FileBackup: two
saves make either one batch of two lines of one file, two files, two overlapping batches, or
batches of two backups. Archive: three hours are one before, at and after the hour of the job, two
hosts give an earlier and a later one, three lines a file of two lines. Startup: versions below, at
and above the adapter's; the number of starts is not bounded. Collector: the shared map belongs to
one event, and one request is enough for each overlap with the shutdown; with two the state space
exceeds what a run can do, and what two requests share (the channel, the batcher) is in Service and
FileBackup. Adapters: two pairs with one key, two identifiers for entries that point to one row, two
events for an overwritten one; four calls are an insert, a delete and two saves, in any order and
over any number of restarts. Decompress: the numbers are those at the edges of the encodings (0, 9,
35, 63, 64, 100 and one of three digits), the counts one, one digit and two digits; numbers have 11
bits instead of 64, which texts of three characters exceed; two tokens
show a repetition being reset and a number that is not the last. Pipeline: a good event beside a
bad page is what a panic takes with it, one end by itself and one by a page are every pair of them;
several hosts and several good events are in Service and FileBackup. Migration: two migrations are a
first and a last one, three calls one that is killed or fails, one beside it and one after.
`MaxExits`, `MaxStops`, `MaxStarts`, `MaxSaves`, `MaxTime`, `MaxCalls`, `MaxTokens`, `MaxText`,
`Hours` are the named bounds.

Constants that choose an environment: `FilesFail`, `ReadsFail`, `Faults`, `RunHours`,
`Subscriptions`, `Parses`, `WellFormed`, `Registered`, and `Adapters` in Startup and Adapters.

Fairness. Service: weak for what a runnable goroutine does next, strong for the two cases of the
select, because Go picks uniformly among the ready cases and a channel serves its senders in order;
nothing is assumed about handlers or `Exit`; the database flushes its buffer, one way or the other.
FileBackup: goroutines run, timers fire, and `Flush`, once called, goes on where it does not wait;
weak fairness per event, so that one batch cannot stand for another. That saves end is not assumed
but a premise of `FlushReturns`; in the run they do, after `MaxSaves`. Archive: a job that was called
goes on; nothing is assumed about a call. Collector: the goroutines of `stopServers` and the
savers run and the deadline passes; nothing is assumed about handlers, which may hang, or about the
signal. Decompress: the function goes on until it returns. Pipeline: a handler that has begun
goes on, the processing goroutine is served as in Service, and the timer closes the batch that has
an event; nothing is assumed about a stop. Migration: a call that has begun goes on, to an error
if need be; nothing is assumed about a kill.
Startup, Subscriptions and Adapters have no liveness property.

## 4. What the checks show

That the program keeps its promises where the properties hold is in the table of section 3. Two
runs end in a violation of what the documentation or a comment says:

1. *A registered beacon is unknown* (`beacon.go:289`). `ConvertToRumEvent` does not fill
   `SubscriptionID`, so with subscriptions enabled the lookup is for the empty identifier and every
   beacon goes to the unknown backup. What does hold: it is in the archive too, in the end
   (`KeptAsGiven`, `BackedUpInTheEnd`).
2. *A shared map* (`single.go:61`). The archive's saver writes the parameters that the service reads.

Where the models have other behaviour that a reader of the documentation would not expect, the
properties are stated for what does hold, and section 7 says what does not.

## 5. What is proved

Eight modules hold the proofs, each named after the module it is about, but that Pipeline_proofs
has Service's too and Texts_proofs is about Archive and Decompress. The named assumption of the
module is all they assume (TLC evaluates it in the run): they hold for any sets of events, hosts,
lines, users, requests and processes, any number of migrations, versions, hours, tokens, exits and
starts. Every property of the passing runs but those of liveness is proved. Every invariant is
proved the same way: `IInv` is the property with what it needs to be inductive, a lemma per action
(or group of actions) shows that a step preserves it, `Inductive` puts them together, and the
property follows.

*Service.* `DeliveredOnce` is not inductive: nothing in it says that the event about to be delivered
has no delivery yet. `InFlightPristine` does: an event that is not submitted, waits on the channel
or is being processed has no fate, and the one being processed has left the channel.
`HostnameAccounted` needs `HostsInvariant`: an entry of the map comes from a processed event, and
the entries that the loop of `processHosts` has passed are handed over or missed; otherwise
`ClearHosts` might forget one. `IInv` is their conjunction with the type invariant and the
properties. `Inductive` proves it step by step, one lemma per action; the safety properties
follow. `Refinement` proves that each step is a step of `Disposal` or a stutter under the mapping
`Outcome`: the lemmas say for each action which events' outcomes change.

*Startup.* `VersionIsCommitPoint` needs to know that `CreateDb`, at statement n, has created what the
statements before n name, and that there is no version row once the drop is done;
`CreateDbInvariant` says so, together with what main knows in each phase. Where they are is part of
it: past `USE`, a table is elsewhere only if the connection was replaced (`strayed`), so what the
theorem says of a database that never lost a connection is that all of it is there (`Whole`). `DestroysOnlyWhenAsked`
follows from its conjunct that main is in `CreateDb` only if it was asked to be. It holds for every
set of the three adapters: the lemmas `Statements`, `LastStatement` and `MiddleStatement` say what
their sequences have in common, and the rest of the proof does not look at them. `CreatedIsEmpty`
needs the conjunct about the statements after the creation of the database, because RethinkDB's
`CreateDb` may go on after a drop that failed; `NewerIsLeftAlone` the one about an upgrade.

*Subscriptions.* No property says where the row comes from that the cache or a call holds.
`RowsWereIssued` does: it was issued, carries the identifier it is found under, and was visible
since `Load`; `IdsAreUnique` says that an identifier belongs to one request or one row, so that the
row found is the row registered; `ExpiredStays` ties the identifiers answered as expired to rows
whose time is over. `RegisteredIsFound` then needs no more than that one identifier has one row.

*FileBackup.* `OneLineEach` says that the places an event may be in (saver, batch being collected,
closed batches, file, failed write) are disjoint and cover what was saved. It is inductive with
`GroupsAreApart`, since `WriteString` moves a whole group. `FlushProcessesBatches` needs
`DueIsTracked`: what was in a batcher when it was closed is on its way until `Flush` is past that
batcher, and settled from then on, for `Flush` goes on only from an empty batcher. `KeepsThePromise` is the refinement of `Backing`: `SaveCollects`,
`WriteStringWrites` and `OpenFailsWrites` are the steps that collect and write, `ExitDrops` the one
that drops, and `MovesAreHidden` says that the others, which move events between saver, batcher and
batch, leave memory as it was. It needs `OneLineEach`: what is written was in memory, and in no
other place.

*Archive.* The day file and its summary are what `FlattenSeq`, a recursive function, makes of the
hour files. The first lemmas of Texts_proofs say what it makes: that its recursion has exactly one
solution, and that one more member is one more concatenation (`FlattenSeqStep`), by an induction
(`NaturalsByInduction`) that comes from the well-foundedness of the order of the naturals. With them
`DayHoldsEveryLine` and `SummaryCuts` follow by induction over the turns of `collectHours`, and
`FileReadIsOnto` says that its turns read every hour. `NoLineLost` and `PartsCutTheDayFile` rest on
the invariant: the job runs after the day (`JobIsAfterTheDay`), has not touched the hosts before it
and has both files of its host before it removes anything (`HostInTurn`), and a complete file holds
what the batches wrote (`FilesOfTheDay`).

*Decompress.* `Scanned` says where the scanner is in a sender's log: with the numbers of k tokens
taken, before the next token, between its repetition and its number, or behind the log. `TokenStep`
takes it from one place to the next. It rests on what the recursive functions compute, for every
input: the digits of a number are read as that number (`NumbersAreRead`, by induction over the
number), a token's text lies in the log behind the texts before it (`TokenLies`), and digits up to a
mark are found as such (`DigitsUpToMark`). `WhatWasEncodedIsDecoded` then holds for any numbers of 64
bits, any number of them and any repetitions, but for a last large number of several digits.

*Collector.* A proper exit means that both shutdowns returned without an error: `ShutdownIsTrue`
says what a shutdown that returned has left (a closed server, no active handler of it) and that a
handler still open is on a server that was built, hence shut down. `EarlyIsAwaited` carries what a
batcher had at the signal to the flush that waits for it, `SaversStartOnce` that no saver begins again.

*Adapters.* `RowsWereIssued` is the invariant of the cache, with RethinkDB's entries allowed to name
another row; `BareIsExplained` says that wherever a connection without a database is, idle or in a
call, MySQL's `CreateDb` of this process failed, or it and a disturbance of the pool came before;
`IdentifiersAreFresh` that the number an untroubled `INCR` gave is not in use until its `HSET`.

*Pipeline.* `PipelineImplementsService`: each step of the composition is a step of Service or a
stutter, hence every theorem about Service holds of it (`PipelineDelivers`). `BadPagesGetNowhere`
needs that the goroutine is past `Create` only with a page that parses, over all ends and restarts.
`BackupsKeepWhatTheyGet` proves `KeptAsGiven`: the archive has exactly the events whose handler is
done, the other backups exactly those that Service delivered to them, each in one place; it needs
Service's invariant, or an event might be given to a backup again. `PipelineKeepsThePromise` proves
`PipelineImplementsBacking` with it.

*Migration.* `LockIsTrue` is inductive as it stands. `ChangelogIsTrue` needs `Progress`: the
changelog is a prefix of the migrations and whoever applies them is at its end, in which half of a
migration; with the lock, only one process is. `Replaced` says which files are templated at each
point of the copying.

*Only model-checked.* Liveness (`EventuallyDisposed`, `EventuallyListedOrMissed`,
`BatchesAreProcessed`, `FlushReturns`, `CalledJobArchives`, `StopsAfterSignal`, `BackedUpInTheEnd`,
`MigrateReturns`, `Terminates`): out of the prover's reach. The other way round,
`PipelineImplementsBacking` is only proved; no run checks it.

## 6. The plan

Done, in this order: Service with Disposal, Subscriptions, FileBackup, Archive, Startup over three
adapters, Collector, Adapters, Decompress, Pipeline, Migration; the proofs of all of them, with
`Disposal` and `Backing` as what the service and the backups promise.

Next:

1. *Archive*: directories as names, for the events whose page has no hostname and whose date
   directory the job takes for a host.
2. *Redis start-up*: `CheckDbVersion` there never looks at the database, so Startup's questions do
   not arise; what remains is the flush of `CreateDb` and its ignored error.

## 7. Not modelled, and known limits

Left out: the content of events, lines and queries; configuration parsing; TLS and ACME;
GET and health, which change nothing; the fields that `ConvertToRumEvent` copies, and
the functions of `beacon.go` that only tests call; geolocation and user agents; compression formats;
tests and mocks. Outside Pipeline, page URLs are taken to parse. One collector is taken to use a
database (but for Migration), and the RethinkDB client to keep the names of the fields it stores.

Behaviour the models exhibit, or that was met while reading, and that no run states as a property:

- a cached subscription is found until the process ends, whatever happened to its row
  (`caching.go:33`); what does hold is `FoundWasIssued`, `FoundSeenSinceLoad` and `ExpiredForEver`;
- the goroutine that closes a file may run before the write (`backup.go:92`); the lines of the batch
  are then lost with a logged error, and counted as `unwritten`;
- a page that does not parse ends the process (`beacon.go:284`, `backup.go:46`), with the events of
  others that are in memory;
- a migration that was killed, or whose `Unlock` failed, leaves a lock that every later `Migrate`
  fails on until someone removes its row;
- with SSL files and a configured port both servers get that port (`server/factory.go:73`); the one
  that listens second logs an error and does not serve;
- a request answered with 204 may be neither processed nor backed up when `main` returns, also
  after an orderly shutdown: senders and savers are not waited for, and `Flush` may have passed;
- a hostname is listed although `Save` failed for its only event, and an event's hostname is dropped
  when `SaveHost` fails, until its next event;
- a database left half created by a failed `CreateDb` is served, collects events, and is dropped by
  the next start with `-no_init=false`; so is a live one whose version row could not be read,
  because `GetDbVersion` does not ask `rows.Err()` (`clickhouse.go:272`);
- on RethinkDB, a `CreateDb` that stopped between the creation of kvmeta and the version row leaves a
  database that every later start refuses, also with `-reset` (`rethinkdb.go:158-164`);
- on Redis `CheckDbVersion` never looks, and the error of the flush is ignored;
- a subscription registered after `Load` is never found: MySQL scans without `rows.Next`, an error
  that drops the event (`mysql.go:560`), RethinkDB asks for a primary key that identifiers are not
  (`rethinkdb.go:343`), Redis has a pattern without a wildcard (`redis.go:411`);
- on RethinkDB every cached identifier answers for the row read last, and `DeleteOwnerHostname` asks
  for an index that nothing creates (`rethinkdb.go:316`);
- on Redis every subscription is expired after a restart, because the expiry is written in one format
  and parsed in another (`redis.go:398`), a `Load` sees one page of keys, and two pairs of user and
  hostname may share a key;
- after `CreateDb` on MySQL, calls fail for want of a database as soon as the pool opens a second
  connection or loses the first, and after one that failed perhaps at once, until the next start;
- `SaveHost` of ClickHouse stores nothing by the time it returns nil (`clickhouse.go:351`, under the
  comment "SaveHost stores hostname data"): a row that does not parse, for `created_at` may be any text
  of a client, or whose flush fails is gone with no error (`discarded`). What does hold: the program
  hands over every hostname, or knows that it did not;
- the job scheduled at 01:00 labels the lines of hour 1 as hour 0 and those of hour 0 as hour 23
  (`archive.go:143` truncates to the hour), where README.md:69 says "metadata hour|start lines|end
  lines"; what does hold is `PartsCutTheDayFile`: the parts are what the hours wrote, and rightly named
  if the job is given midnight, as its test gives it;
- no day is archived, though README.md:69 says that days are: nothing starts the scheduler that
  `backup/service.go:23` makes. A job that is called archives every host if nothing fails
  (`CalledJobArchives`);
- ClickHouse's `CreateDb` may return nil, and main log "Database successfully created.", with tables in
  another database, if the pool replaced the connection that executed `USE` (`clickhouse.go:176`). What
  does hold: the version row is written only when every table was created, wherever;
- `-upgrade` on an older database calls an `UpgradeDb` that does nothing, and main serves the old schema
  (`clickhouse.go:320`; `store.go:171` says that it upgrades). A newer one is refused;
- ClickHouse's database is created with ENGINE = Memory (`clickhouse.go:172`), which keeps the list of
  its tables in memory; a restart of the server is not modelled;
- `Flush` may wait as long as a server whose `Shutdown` failed goes on saving events;
- `DecompressBucketLog` reads one character of a last large number (`decompress.go:96`), so
  `DecodesWhatWasEncoded` excludes those that have more; a percentage of one character panics
  (`decompress.go:103`). Only tests call it;
- the job writes an empty day file for a host without a directory of that day (`archive.go:99-107`,
  "nothing to do"), replacing nothing only because no day is archived twice;
- an error of the compressor's `Close` is only logged (`backup.go:113`), and the hour files go;
- `BRUM_SERVER_SSL_TYPE` has no default (`server/factory.go:54`: encoding/json ignores the tag), and
  the start fails with "unsupported SSL type" where README.md says FILE;
- the backup directories are created without permission bits (`backup/factory.go:53`).
