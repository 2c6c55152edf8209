------------------------------- MODULE Migration -------------------------------
(***************************************************************************)
(* Schema migrations (dao/migration_dao.go): copy the embedded migrations  *)
(* into a temporary directory, put the table prefix into each, create the  *)
(* changelog and lock tables, lock, apply what is pending, unlock, remove  *)
(* the directory.  Unlock and the removal are deferred, so every error     *)
(* passes them; a kill does not.  Several processes may start on one       *)
(* database at a time.                                                     *)
(*                                                                         *)
(* chmigrate is external and modelled from its use: Lock fails when the    *)
(* lock is taken, and Migrate applies what the changelog does not have, in *)
(* order, entering each migration before or after executing it.            *)
(***************************************************************************)
EXTENDS Naturals

CONSTANTS Proc,      \* the processes that migrate
          N,         \* the migrations are 1..N
          MaxStarts  \* bound: how often Migrate is called

ASSUME MigrationAssumption == N \in Nat \ {0} /\ MaxStarts \in Nat

M == 1..N

VARIABLES
  \* the database
  tables,      \* the changelog and the lock table exist
  lock,        \* the lock is taken
  applied,     \* the changelog
  executed,    \* how often each migration was executed
  \* each process
  pc,
  files,       \* each file of its directory: absent, copied, replaced
  next,        \* the migration it copies, or applies
  half,        \* it has done one half of applying that migration
  \* the library and history
  markFirst,   \* the changelog is written before the migration is executed
  templates,   \* migrations executed with the placeholder in place of the prefix
  stuck,       \* a lock was left behind
  doubtful,    \* migrations whose application failed or was killed
  starts

vars == <<tables, lock, applied, executed, pc, files, next, half, markFirst,
          templates, stuck, doubtful, starts>>

history == <<markFirst, templates, stuck, doubtful, starts>>

Init == /\ tables = FALSE /\ lock = FALSE /\ applied = {}
        /\ executed = [i \in M |-> 0]
        /\ pc = [p \in Proc |-> "off"]
        /\ files = [p \in Proc |-> [i \in M |-> "absent"]]
        /\ next = [p \in Proc |-> 1] /\ half = [p \in Proc |-> FALSE]
        /\ markFirst \in BOOLEAN /\ templates = {} /\ stuck = FALSE
        /\ doubtful = {} /\ starts = 0

Goto(p, l) == pc' = [pc EXCEPT ![p] = l]

(***************************************************************************)
(* The temporary directory: MkdirTemp makes a new one, copyMigrations      *)
(* copies a file and replaces the placeholder in it before the next file.  *)
(***************************************************************************)
Migrate(p) ==
  /\ pc[p] = "off" /\ starts < MaxStarts
  /\ Goto(p, "copy") /\ starts' = starts + 1
  /\ files' = [files EXCEPT ![p] = [i \in M |-> "absent"]]
  /\ next' = [next EXCEPT ![p] = 1] /\ half' = [half EXCEPT ![p] = FALSE]
  /\ UNCHANGED <<tables, lock, applied, executed, markFirst, templates, stuck, doubtful>>

CopyFile(p) ==
  /\ pc[p] = "copy"
  /\ files' = [files EXCEPT ![p][next[p]] = "copied"]
  /\ Goto(p, "replace")
  /\ UNCHANGED <<tables, lock, applied, executed, next, half, history>>

ReplaceAllButLast(p) ==
  /\ pc[p] = "replace"
  /\ IF next[p] = N
     THEN Goto(p, "init") /\ UNCHANGED <<files, next>>
     ELSE /\ files' = [files EXCEPT ![p][next[p]] = "replaced"]
          /\ Goto(p, "copy") /\ next' = [next EXCEPT ![p] = @ + 1]
  /\ UNCHANGED <<tables, lock, applied, executed, half, history>>

\* The last file: Discover reads the directory, Connect waits for the first query.
ReplaceTextInFile(p) ==
  /\ pc[p] = "replace"
  /\ files' = [files EXCEPT ![p][next[p]] = "replaced"]
  /\ IF next[p] = N THEN Goto(p, "init") /\ UNCHANGED next
                    ELSE Goto(p, "copy") /\ next' = [next EXCEPT ![p] = @ + 1]
  /\ UNCHANGED <<tables, lock, applied, executed, half, history>>

\* A file operation, Discover or Init fails: Migrate returns, nothing is locked.
FailsEarly(p) ==
  /\ pc[p] \in {"copy", "replace", "init"}
  /\ tables' \in IF pc[p] = "init" THEN {tables, TRUE} ELSE {tables}
  /\ Goto(p, "return")
  /\ UNCHANGED <<lock, applied, executed, files, next, half, history>>

(***************************************************************************)
(* migrateUp                                                               *)
(***************************************************************************)
InitTables(p) ==
  /\ pc[p] = "init"
  /\ tables' = TRUE
  /\ Goto(p, "lock")
  /\ UNCHANGED <<lock, applied, executed, files, next, half, history>>

\* Migrate of the library begins by looking what is pending.
FirstPending(k) == /\ \A i \in M : i < k => i \in applied
                   /\ k \in M => k \notin applied

LockAnyway(p) ==
  /\ pc[p] = "lock"
  /\ lock' = TRUE
  /\ Goto(p, "up")
  /\ \E k \in 1..(N + 1) : FirstPending(k) /\ next' = [next EXCEPT ![p] = k]
  /\ UNCHANGED <<tables, applied, executed, files, half, history>>

LockWaits(p) ==
  /\ pc[p] = "lock" /\ ~lock
  /\ lock' = TRUE
  /\ Goto(p, "up")
  /\ \E k \in 1..(N + 1) : FirstPending(k) /\ next' = [next EXCEPT ![p] = k]
  /\ UNCHANGED <<tables, applied, executed, files, half, history>>

\* A lock that is taken is an error, not a wait.
Lock(p) ==
  /\ pc[p] = "lock"
  /\ IF lock THEN Goto(p, "return") /\ UNCHANGED <<lock, next>>
             ELSE /\ lock' = TRUE
                  /\ Goto(p, "up")
                  /\ \E k \in 1..(N + 1) : FirstPending(k) /\ next' = [next EXCEPT ![p] = k]
  /\ UNCHANGED <<tables, applied, executed, files, half, history>>

\* Lock reports an error although the server has taken the lock: Unlock is not
\* deferred yet.
LockFails(p) ==
  /\ pc[p] = "lock" /\ ~lock
  /\ \/ UNCHANGED <<lock, stuck>>
     \/ lock' = TRUE /\ stuck' = TRUE
  /\ Goto(p, "return")
  /\ UNCHANGED <<tables, applied, executed, files, next, half, markFirst, templates,
                 doubtful, starts>>

Mark(p) == applied' = applied \cup {next[p]} /\ UNCHANGED <<executed, templates>>

Execute(p) ==
  /\ executed' = [executed EXCEPT ![next[p]] = @ + 1]
  /\ templates' = IF files[p][next[p]] = "replaced" THEN templates
                                                    ELSE templates \cup {next[p]}
  /\ UNCHANGED applied

\* Applying one migration takes two steps, in the order of the library.
Up(p) ==
  /\ pc[p] = "up" /\ next[p] <= N
  /\ IF half[p] = markFirst THEN Execute(p) ELSE Mark(p)
  /\ half' = [half EXCEPT ![p] = ~@]
  /\ next' = IF half[p] THEN [next EXCEPT ![p] = @ + 1] ELSE next
  /\ UNCHANGED <<tables, lock, pc, files, markFirst, stuck, doubtful, starts>>

\* A statement, or the row of the changelog, may have taken effect before the error.
Doubt(p) == doubtful \cup ({next[p]} \cap M)

UpFailsReturning(p) ==
  /\ pc[p] = "up" /\ next[p] <= N
  /\ doubtful' = Doubt(p)
  /\ Goto(p, "return")
  /\ UNCHANGED <<tables, lock, applied, executed, files, next, half, markFirst,
                 templates, stuck, starts>>

\* A statement of a migration fails, and with it Migrate; Unlock is deferred.
UpFails(p) ==
  /\ pc[p] = "up" /\ next[p] <= N
  /\ doubtful' = Doubt(p)
  /\ Goto(p, "unlock")
  /\ UNCHANGED <<tables, lock, applied, executed, files, next, half, markFirst,
                 templates, stuck, starts>>

UpDone(p) ==
  /\ pc[p] = "up" /\ next[p] = N + 1
  /\ Goto(p, "unlock")
  /\ UNCHANGED <<tables, lock, applied, executed, files, next, half, history>>

\* The error of Unlock is only logged.
Unlock(p) ==
  /\ pc[p] = "unlock"
  /\ \/ lock' = FALSE /\ UNCHANGED stuck
     \/ stuck' = TRUE /\ UNCHANGED lock
  /\ Goto(p, "return")
  /\ UNCHANGED <<tables, applied, executed, files, next, half, markFirst, templates,
                 doubtful, starts>>

\* os.RemoveAll of the directory, and the return of Migrate.
Return(p) ==
  /\ pc[p] = "return"
  /\ files' = [files EXCEPT ![p] = [i \in M |-> "absent"]]
  /\ Goto(p, "off")
  /\ UNCHANGED <<tables, lock, applied, executed, next, half, history>>

\* A kill runs none of the deferred calls.
Kill(p) ==
  /\ pc[p] # "off"
  /\ Goto(p, "off")
  /\ stuck' = (stuck \/ pc[p] \in {"up", "unlock"})
  /\ doubtful' = IF pc[p] = "up" THEN Doubt(p) ELSE doubtful
  /\ UNCHANGED <<tables, lock, applied, executed, files, next, half, markFirst,
                 templates, starts>>

Step(p) == \/ CopyFile(p) \/ ReplaceTextInFile(p) \/ FailsEarly(p) \/ InitTables(p)
           \/ Lock(p) \/ LockFails(p) \/ Up(p) \/ UpFails(p) \/ UpDone(p)
           \/ Unlock(p) \/ Return(p)

Next == \E p \in Proc : Migrate(p) \/ Step(p) \/ Kill(p)

Spec == Init /\ [][Next]_vars

\* A call that began goes on.
FairSpec == Spec /\ \A p \in Proc : WF_vars(Step(p))

(***************************************************************************)
(* Properties.                                                             *)
(***************************************************************************)
\* Every variable has the type its declaration says.
TypeOK ==
  /\ tables \in BOOLEAN /\ lock \in BOOLEAN /\ applied \subseteq M
  /\ executed \in [M -> Nat]
  /\ pc \in [Proc -> {"off", "copy", "replace", "init", "lock", "up", "unlock", "return"}]
  /\ files \in [Proc -> [M -> {"absent", "copied", "replaced"}]]
  /\ next \in [Proc -> 1..(N + 1)] /\ half \in [Proc -> BOOLEAN]
  /\ markFirst \in BOOLEAN /\ templates \subseteq M /\ stuck \in BOOLEAN
  /\ doubtful \subseteq M /\ starts \in Nat

Locked(p) == pc[p] \in {"up", "unlock"}

\* The lock is taken exactly while one process migrates, unless it was left behind
\* by a kill, by an Unlock that failed or by a Lock that took it and failed: no
\* error of Migrate returns without Unlock.  A lock left behind stops all others.
LockIsTrue ==
  /\ \A p, q \in Proc : Locked(p) /\ Locked(q) => p = q
  /\ lock <=> stuck \/ \E p \in Proc : Locked(p)
  /\ stuck => \A p \in Proc : ~Locked(p)

\* Every migration in the changelog was executed once, and no other at all, but
\* for those whose application failed or was killed.  Two processes that start on one
\* database do not both execute one.
ChangelogIsTrue ==
  \A i \in M \ doubtful :
    \/ executed[i] = IF i \in applied THEN 1 ELSE 0
    \/ \E p \in Proc : pc[p] = "up" /\ half[p] /\ next[p] = i

\* How far a process that applies migrations is.
Applying(p) ==
  /\ \A i \in M : (i < next[p] => i \in applied) /\ (i > next[p] => i \notin applied)
  /\ next[p] \in M => (next[p] \in applied <=> half[p] /\ markFirst)
  /\ half[p] => next[p] \in M
  /\ half[p] /\ next[p] \notin doubtful =>
       executed[next[p]] = IF markFirst THEN 0 ELSE 1

\* What makes it inductive: the changelog is a prefix of the migrations, and whoever
\* applies them is at its end.
Progress ==
  /\ \A i \in applied, j \in M : j < i => j \in applied
  /\ \A p \in Proc : /\ pc[p] \in {"copy", "replace", "init", "lock"} => ~half[p]
                     /\ pc[p] \in {"copy", "replace"} => next[p] \in M
                     /\ pc[p] = "up" => Applying(p)

\* Who is past the copying has replaced the placeholder in every file.
Replaced ==
  \A p \in Proc, i \in M :
    \/ pc[p] \in {"copy", "replace"} /\ i < next[p]
    \/ pc[p] \in {"init", "lock", "up", "unlock"}
    => files[p][i] = "replaced"

\* No migration is executed with the placeholder of the table prefix in it.
PrefixIsReplaced == templates = {}

IInv == TypeOK /\ LockIsTrue /\ Progress /\ ChangelogIsTrue /\ Replaced /\ PrefixIsReplaced

\* Migrate returns, also when another process holds the lock or was killed with it.
MigrateReturns == \A p \in Proc : pc[p] # "off" ~> pc[p] = "off"
=============================================================================
