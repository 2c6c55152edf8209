--------------------------- MODULE Migration_proofs ---------------------------
(***************************************************************************)
(* Proofs about the schema migrations, for any number of processes,        *)
(* migrations and starts: the lock excludes and tells the truth, the       *)
(* changelog does, and the placeholder never reaches the database.         *)
(***************************************************************************)
EXTENDS Migration, TLAPS

\* The initial state satisfies every part of the inductive invariant.
LEMMA InitIInv == Init => IInv
<1> SUFFICES ASSUME Init PROVE IInv
  OBVIOUS
<1>1. TypeOK
  <2>1. next \in [Proc -> 1..(N + 1)]
    BY MigrationAssumption DEF Init
  <2>2. executed \in [M -> Nat] /\ files \in [Proc -> [M -> {"absent", "copied", "replaced"}]]
    BY DEF Init
  <2> QED
    BY <2>1, <2>2 DEF Init, TypeOK
<1>2. LockIsTrue /\ ChangelogIsTrue /\ PrefixIsReplaced
  BY DEF Init, LockIsTrue, Locked, ChangelogIsTrue, PrefixIsReplaced
<1>3. Progress
  BY DEF Init, Progress
<1>4. Replaced
  BY MigrationAssumption DEF Init, Replaced, M
<1> QED
  BY <1>1, <1>2, <1>3, <1>4 DEF IInv

\* Every step keeps the types.
LEMMA StepTypeOK == TypeOK /\ Progress /\ [Next]_vars => TypeOK'
<1> SUFFICES ASSUME TypeOK, Progress, [Next]_vars PROVE TypeOK'
  OBVIOUS
<1> USE DEF TypeOK, Goto, history
<1>1. ASSUME NEW p \in Proc, Migrate(p) PROVE TypeOK'
  BY <1>1, MigrationAssumption DEF Migrate
<1>2. ASSUME NEW p \in Proc, CopyFile(p) PROVE TypeOK'
  <2>1. files' \in [Proc -> [M -> {"absent", "copied", "replaced"}]]
    BY <1>2 DEF CopyFile
  <2> QED
    BY <2>1, <1>2 DEF CopyFile
<1>3. ASSUME NEW p \in Proc, ReplaceTextInFile(p) PROVE TypeOK'
  <2>1. files' \in [Proc -> [M -> {"absent", "copied", "replaced"}]]
    BY <1>3 DEF ReplaceTextInFile
  <2>2. next[p] \in 1..N
    BY <1>3 DEF ReplaceTextInFile, Progress, M
  <2>3. next' = next \/ next' = [next EXCEPT ![p] = @ + 1]
    BY <1>3 DEF ReplaceTextInFile
  <2>4. next' \in [Proc -> 1..(N + 1)]
    BY <2>2, <2>3, MigrationAssumption
  <2> QED
    BY <2>1, <2>4, <1>3 DEF ReplaceTextInFile
<1>4. ASSUME NEW p \in Proc, FailsEarly(p) \/ InitTables(p) PROVE TypeOK'
  BY <1>4 DEF FailsEarly, InitTables
<1>5. ASSUME NEW p \in Proc, Lock(p) PROVE TypeOK'
  BY <1>5 DEF Lock
<1>6. ASSUME NEW p \in Proc, LockFails(p) \/ UpDone(p) \/ Unlock(p) PROVE TypeOK'
  BY <1>6 DEF LockFails, UpDone, Unlock
<1>r. ASSUME NEW p \in Proc, Return(p) PROVE TypeOK'
  <2>1. files' \in [Proc -> [M -> {"absent", "copied", "replaced"}]]
    BY <1>r DEF Return
  <2> QED
    BY <2>1, <1>r DEF Return
<1>7. ASSUME NEW p \in Proc, Up(p) PROVE TypeOK'
  <2>1. next[p] \in M
    BY <1>7, MigrationAssumption DEF Up, M
  <2>2. applied' \subseteq M /\ executed' \in [M -> Nat] /\ templates' \subseteq M
    <3>1. CASE Execute(p)
      <4>1. executed' \in [M -> Nat]
        BY <2>1, <3>1 DEF Execute
      <4>2. templates' \subseteq M
        BY <2>1, <3>1 DEF Execute
      <4> QED
        BY <4>1, <4>2, <3>1 DEF Execute
    <3>2. CASE Mark(p)
      BY <2>1, <3>2 DEF Mark
    <3> QED
      BY <1>7, <3>1, <3>2 DEF Up
  <2>3. next' \in [Proc -> 1..(N + 1)] /\ half' \in [Proc -> BOOLEAN]
    BY <2>1, <1>7, MigrationAssumption DEF Up, M
  <2> QED
    BY <2>2, <2>3, <1>7 DEF Up
<1>8. ASSUME NEW p \in Proc, UpFails(p) \/ Kill(p) PROVE TypeOK'
  BY <1>8 DEF UpFails, Kill, Doubt
<1>9. CASE UNCHANGED vars
  BY <1>9 DEF vars
<1> QED
  BY <1>1, <1>2, <1>3, <1>4, <1>5, <1>6, <1>r, <1>7, <1>8, <1>9 DEF Next, Step

\* Every step keeps the lock true to who migrates.
LEMMA StepLock == TypeOK /\ LockIsTrue /\ [Next]_vars => LockIsTrue'
<1> SUFFICES ASSUME TypeOK, LockIsTrue, [Next]_vars PROVE LockIsTrue'
  OBVIOUS
<1> USE DEF LockIsTrue, Locked, Goto, history
<1>t. pc \in [Proc -> {"off", "copy", "replace", "init", "lock", "up", "unlock", "return"}]
      /\ lock \in BOOLEAN /\ stuck \in BOOLEAN
  BY DEF TypeOK
<1>1. ASSUME NEW p \in Proc,
             Migrate(p) \/ CopyFile(p) \/ ReplaceTextInFile(p) \/ FailsEarly(p) \/ InitTables(p)
      PROVE  LockIsTrue'
  <2>1. UNCHANGED <<lock, stuck>> /\ \A q \in Proc : Locked(q)' <=> Locked(q)
    BY <1>1, <1>t DEF Migrate, CopyFile, ReplaceTextInFile, FailsEarly, InitTables
  <2> QED
    BY <2>1
<1>2. ASSUME NEW p \in Proc, Lock(p) \/ LockFails(p) PROVE LockIsTrue'
  BY <1>2, <1>t DEF Lock, LockFails
<1>3. ASSUME NEW p \in Proc, Up(p) \/ UpFails(p) \/ UpDone(p) PROVE LockIsTrue'
  <2>1. UNCHANGED <<lock, stuck>> /\ \A q \in Proc : Locked(q)' <=> Locked(q)
    BY <1>3, <1>t DEF Up, UpFails, UpDone
  <2> QED
    BY <2>1
<1>4. ASSUME NEW p \in Proc, Unlock(p) \/ Return(p) PROVE LockIsTrue'
  BY <1>4, <1>t DEF Unlock, Return
<1>5. ASSUME NEW p \in Proc, Kill(p) PROVE LockIsTrue'
  BY <1>5, <1>t DEF Kill
<1>6. CASE UNCHANGED vars
  BY <1>6 DEF vars
<1> QED
  BY <1>1, <1>2, <1>3, <1>4, <1>5, <1>6 DEF Next, Step

\* Every step keeps what a process knows of its own files.
LEMMA StepReplaced == TypeOK /\ Replaced /\ [Next]_vars => Replaced'
<1> SUFFICES ASSUME TypeOK, Replaced, [Next]_vars PROVE Replaced'
  OBVIOUS
<1> USE DEF Replaced, Goto, history
<1>t. /\ pc \in [Proc -> {"off", "copy", "replace", "init", "lock", "up", "unlock", "return"}]
      /\ files \in [Proc -> [M -> {"absent", "copied", "replaced"}]]
      /\ next \in [Proc -> 1..(N + 1)]
  BY DEF TypeOK
<1>1. ASSUME NEW p \in Proc, Migrate(p) PROVE Replaced'
  BY <1>1, <1>t, MigrationAssumption DEF Migrate, M
<1>2. ASSUME NEW p \in Proc, CopyFile(p) PROVE Replaced'
  <2>1. \A q \in Proc, i \in M : q # p \/ i # next[p] => files'[q][i] = files[q][i]
    BY <1>2, <1>t DEF CopyFile
  <2> QED
    BY <2>1, <1>2, <1>t, MigrationAssumption DEF CopyFile, M
<1>3. ASSUME NEW p \in Proc, ReplaceTextInFile(p) PROVE Replaced'
  <2>1. \A q \in Proc, i \in M :
          files'[q][i] = IF q = p /\ i = next[p] THEN "replaced" ELSE files[q][i]
    BY <1>3, <1>t DEF ReplaceTextInFile
  <2>2. \A i \in M : i <= next[p] => files'[p][i] = "replaced"
    BY <2>1, <1>3, <1>t, MigrationAssumption DEF ReplaceTextInFile, M
  <2>3. CASE next[p] = N
    BY <2>1, <2>2, <2>3, <1>3, <1>t, MigrationAssumption DEF ReplaceTextInFile, M
  <2>4. CASE next[p] # N
    BY <2>1, <2>2, <2>4, <1>3, <1>t, MigrationAssumption DEF ReplaceTextInFile, M
  <2> QED
    BY <2>3, <2>4
<1>4. ASSUME NEW p \in Proc, FailsEarly(p) \/ InitTables(p) \/ UpDone(p) \/ Unlock(p)
      PROVE  Replaced'
  <2>1. UNCHANGED <<files, next>> /\ \A q \in Proc \ {p} : pc'[q] = pc[q]
    BY <1>4, <1>t DEF FailsEarly, InitTables, UpDone, Unlock
  <2>2. \/ pc'[p] = "return"
        \/ pc[p] \in {"init", "up"} /\ pc'[p] \in {"lock", "unlock"}
    BY <1>4, <1>t DEF FailsEarly, InitTables, UpDone, Unlock
  <2> QED
    BY <2>1, <2>2
<1>5. ASSUME NEW p \in Proc, Lock(p) \/ LockFails(p) \/ Up(p) PROVE Replaced'
  <2>1. UNCHANGED files /\ \A q \in Proc : q # p => pc'[q] = pc[q] /\ next'[q] = next[q]
    BY <1>5, <1>t DEF Lock, LockFails, Up
  <2>2. pc[p] \in {"lock", "up"} /\ pc'[p] \in {"up", "return"}
    BY <1>5, <1>t DEF Lock, LockFails, Up
  <2> QED
    BY <2>1, <2>2
<1>6. ASSUME NEW p \in Proc, UpFails(p) \/ Kill(p) PROVE Replaced'
  BY <1>6, <1>t DEF UpFails, Kill
<1>7. ASSUME NEW p \in Proc, Return(p) PROVE Replaced'
  BY <1>7, <1>t DEF Return
<1>8. CASE UNCHANGED vars
  BY <1>8 DEF vars
<1> QED
  BY <1>1, <1>2, <1>3, <1>4, <1>5, <1>6, <1>7, <1>8 DEF Next, Step

\* So no step executes a migration that holds the placeholder.
LEMMA StepPrefix == TypeOK /\ Replaced /\ PrefixIsReplaced /\ [Next]_vars => PrefixIsReplaced'
<1> SUFFICES ASSUME TypeOK, Replaced, PrefixIsReplaced, [Next]_vars PROVE PrefixIsReplaced'
  OBVIOUS
<1> USE DEF PrefixIsReplaced
<1>1. ASSUME NEW p \in Proc, Up(p) PROVE PrefixIsReplaced'
  <2>1. next[p] \in M /\ pc[p] = "up"
    BY <1>1, MigrationAssumption DEF Up, TypeOK, M
  <2>2. files[p][next[p]] = "replaced"
    BY <2>1 DEF Replaced
  <2> QED
    BY <2>2, <1>1 DEF Up, Execute, Mark
<1>2. ASSUME ~ \E p \in Proc : Up(p) PROVE UNCHANGED templates
  BY <1>2 DEF Next, Step, Migrate, CopyFile, ReplaceTextInFile, FailsEarly, InitTables, Lock,
              LockFails, UpFails, UpDone, Unlock, Return, Kill, history, vars
<1> QED
  BY <1>1, <1>2

\* A step of another process, or one that only adds doubts, leaves Applying alone.
LEMMA ApplyingKept ==
  ASSUME NEW q \in Proc, Applying(q), UNCHANGED <<applied, executed, markFirst>>,
         doubtful \subseteq doubtful', next'[q] = next[q], half'[q] = half[q]
  PROVE  Applying(q)'
BY DEF Applying

\* Every step keeps the changelog a prefix, and the applying process where it is.
LEMMA StepProgress == TypeOK /\ LockIsTrue /\ Progress /\ ChangelogIsTrue /\ [Next]_vars => Progress'
<1> SUFFICES ASSUME TypeOK, LockIsTrue, Progress, ChangelogIsTrue, [Next]_vars PROVE Progress'
  OBVIOUS
<1> USE DEF Goto, history
<1>t. /\ pc \in [Proc -> {"off", "copy", "replace", "init", "lock", "up", "unlock", "return"}]
      /\ next \in [Proc -> 1..(N + 1)] /\ half \in [Proc -> BOOLEAN]
      /\ markFirst \in BOOLEAN /\ applied \subseteq M /\ doubtful \subseteq M
      /\ executed \in [M -> Nat]
  BY DEF TypeOK
<1>p. \A i \in applied, j \in M : j < i => j \in applied
  BY DEF Progress
<1>1. ASSUME NEW p \in Proc,
             Migrate(p) \/ CopyFile(p) \/ ReplaceTextInFile(p) \/ FailsEarly(p) \/ InitTables(p)
      PROVE  Progress'
  <2>1. /\ UNCHANGED <<applied, executed, markFirst, doubtful>>
        /\ pc[p] # "up" /\ pc'[p] # "up"
        /\ \A q \in Proc \ {p} : pc'[q] = pc[q] /\ next'[q] = next[q] /\ half'[q] = half[q]
    BY <1>1, <1>t DEF Migrate, CopyFile, ReplaceTextInFile, FailsEarly, InitTables
  <2>2. pc'[p] = "return" \/ ~half'[p]
    BY <1>1, <1>t DEF Progress, Migrate, CopyFile, ReplaceTextInFile, FailsEarly, InitTables
  <2>3. pc'[p] \in {"copy", "replace"} => next'[p] \in M
    <3>1. CASE Migrate(p)
      BY <3>1, <1>t, MigrationAssumption DEF Migrate, M
    <3>2. CASE CopyFile(p)
      BY <3>2, <1>t DEF CopyFile, Progress
    <3>3. CASE ReplaceTextInFile(p)
      <4>1. next[p] \in 1..N
        BY <3>3 DEF ReplaceTextInFile, Progress, M
      <4>2. pc'[p] = "init" \/ (next[p] # N /\ next'[p] = next[p] + 1)
        BY <3>3, <1>t DEF ReplaceTextInFile
      <4> QED
        BY <4>1, <4>2, MigrationAssumption DEF M
    <3>4. CASE FailsEarly(p) \/ InitTables(p)
      BY <3>4, <1>t DEF FailsEarly, InitTables
    <3> QED
      BY <1>1, <3>1, <3>2, <3>3, <3>4
  <2>4. ASSUME NEW q \in Proc, pc'[q] = "up" PROVE Applying(q)'
    <3>1. Applying(q) /\ next'[q] = next[q] /\ half'[q] = half[q]
      BY <2>1, <2>4 DEF Progress
    <3> QED
      BY <2>1, <3>1, ApplyingKept
  <2> QED
    BY <2>1, <2>2, <2>3, <2>4 DEF Progress
<1>2. ASSUME NEW p \in Proc, Lock(p) PROVE Progress'
  <2>1. UNCHANGED <<applied, executed, half, markFirst, doubtful>> /\ pc[p] = "lock" /\ ~half[p]
    BY <1>2 DEF Lock, Progress
  <2>2. /\ pc'[p] \in {"up", "return"}
        /\ \A q \in Proc \ {p} : pc'[q] = pc[q] /\ next'[q] = next[q]
    BY <1>2, <1>t DEF Lock
  <2>3. ASSUME pc'[p] = "up" PROVE Applying(p)'
    <3>1. PICK k \in 1..(N + 1) : FirstPending(k) /\ next'[p] = k
      BY <2>3, <1>2, <1>t DEF Lock
    <3>2. \A i \in M : (i < k => i \in applied) /\ (i > k => i \notin applied)
      BY <3>1, <1>p, <1>t, MigrationAssumption DEF FirstPending, M
    <3>3. k \in M => k \notin applied
      BY <3>1 DEF FirstPending
    <3> QED
      BY <3>1, <3>2, <3>3, <2>1 DEF Applying
  <2>4. ASSUME NEW q \in Proc \ {p}, pc'[q] = "up" PROVE Applying(q)'
    <3>1. Applying(q) /\ next'[q] = next[q] /\ half'[q] = half[q]
      BY <2>1, <2>2, <2>4 DEF Progress
    <3> QED
      BY <2>1, <3>1, ApplyingKept
  <2> QED
    BY <2>1, <2>2, <2>3, <2>4, <1>p DEF Progress
<1>3. ASSUME NEW p \in Proc,
             LockFails(p) \/ UpDone(p) \/ Unlock(p) \/ Return(p) \/ UpFails(p) \/ Kill(p)
      PROVE  Progress'
  <2>1. UNCHANGED <<applied, executed, next, half, markFirst>> /\ doubtful \subseteq doubtful'
    BY <1>3 DEF LockFails, UpDone, Unlock, Return, UpFails, Kill, Doubt
  <2>2. \A q \in Proc : pc'[q] = pc[q] \/ pc'[q] \in {"off", "unlock", "return"}
    BY <1>3, <1>t DEF LockFails, UpDone, Unlock, Return, UpFails, Kill
  <2>3. ASSUME NEW q \in Proc, pc'[q] = "up" PROVE Applying(q)'
    <3>1. Applying(q)
      BY <2>2, <2>3 DEF Progress
    <3> QED
      BY <2>1, <3>1, ApplyingKept
  <2> QED
    BY <2>1, <2>2, <2>3, <1>p DEF Progress
<1>4. ASSUME NEW p \in Proc, Up(p) PROVE Progress'
  <2>1. next[p] \in M /\ pc[p] = "up" /\ UNCHANGED <<pc, markFirst, doubtful>>
    BY <1>4, <1>t, MigrationAssumption DEF Up, M
  <2>2. \A q \in Proc : pc[q] = "up" => q = p
    BY <2>1 DEF LockIsTrue, Locked
  <2>3. /\ \A i \in M : (i < next[p] => i \in applied) /\ (i > next[p] => i \notin applied)
        /\ next[p] \in applied <=> (half[p] /\ markFirst)
    BY <2>1 DEF Progress, Applying
  <2>4. half'[p] = ~half[p] /\ next'[p] = IF half[p] THEN next[p] + 1 ELSE next[p]
    BY <1>4, <1>t DEF Up
  <2>5. \A q \in Proc \ {p} : next'[q] = next[q] /\ half'[q] = half[q]
    BY <1>4, <1>t DEF Up
  <2>6. \/ half[p] = markFirst /\ Execute(p)
        \/ half[p] # markFirst /\ Mark(p)
    BY <1>4 DEF Up
  <2>7. applied' = IF half[p] # markFirst THEN applied \cup {next[p]} ELSE applied
    BY <2>6 DEF Execute, Mark
  <2>8. \A i \in applied', j \in M : j < i => j \in applied'
    BY <2>7, <2>3, <1>p, <1>t
  <2>9. CASE half[p]
    <3>1. next'[p] = next[p] + 1 /\ ~half'[p]
      BY <2>4, <2>9
    <3>2. next[p] \in applied'
      BY <2>3, <2>7, <2>9, <1>t
    <3>3. \A i \in M : i # next[p] => (i \in applied' <=> i \in applied)
      BY <2>7
    <3>4. \A i \in M : (i < next'[p] => i \in applied') /\ (i > next'[p] => i \notin applied')
      BY <3>1, <3>2, <3>3, <2>1, <2>3, MigrationAssumption DEF M
    <3>5. next'[p] \in M => next'[p] \notin applied'
      BY <3>1, <3>3, <2>1, <2>3, MigrationAssumption DEF M
    <3>6. Applying(p)'
      BY <3>1, <3>4, <3>5 DEF Applying
    <3> QED
      BY <3>1, <3>6, <2>1, <2>2, <2>5, <2>8 DEF Progress
  <2>10. CASE ~half[p]
    <3>1. next'[p] = next[p] /\ half'[p]
      BY <2>4, <2>10
    <3>2. next[p] \notin doubtful => executed[next[p]] = 0
      BY <2>1, <2>2, <2>3, <2>10 DEF ChangelogIsTrue
    <3>3. CASE markFirst
      <4>1. Mark(p) /\ applied' = applied \cup {next[p]} /\ markFirst'
        BY <3>3, <2>1, <2>6, <2>7, <2>10
      <4>2. \A i \in M : (i < next[p] => i \in applied') /\ (i > next[p] => i \notin applied')
        BY <4>1, <2>1, <2>3, <1>t, MigrationAssumption DEF M
      <4> QED
        BY <4>1, <4>2, <3>1, <3>2, <2>1, <2>2, <2>5, <2>8 DEF Progress, Applying, Mark
    <3>4. CASE ~markFirst
      <4>1. Execute(p) /\ UNCHANGED applied /\ ~markFirst'
        BY <3>4, <2>1, <2>6, <2>10, <1>t DEF Execute
      <4>2. next[p] \notin doubtful => executed'[next[p]] = 1
        BY <4>1, <3>2, <2>1, <1>t DEF Execute
      <4>3. next[p] \notin applied
        BY <2>3, <2>10
      <4> QED
        BY <4>1, <4>2, <4>3, <3>1, <2>1, <2>2, <2>3, <2>5, <2>8 DEF Progress, Applying
    <3> QED
      BY <3>3, <3>4
  <2> QED
    BY <2>9, <2>10
<1>5. CASE UNCHANGED vars
  BY <1>5 DEF vars, Progress, Applying
<1> QED
  BY <1>1, <1>2, <1>3, <1>4, <1>5 DEF Next, Step

\* Every step keeps the changelog true.
LEMMA StepChangelog ==
  TypeOK /\ LockIsTrue /\ Progress /\ ChangelogIsTrue /\ [Next]_vars => ChangelogIsTrue'
<1> SUFFICES ASSUME TypeOK, LockIsTrue, Progress, ChangelogIsTrue, [Next]_vars
             PROVE  ChangelogIsTrue'
  OBVIOUS
<1> USE DEF Goto, history
<1>t. /\ pc \in [Proc -> {"off", "copy", "replace", "init", "lock", "up", "unlock", "return"}]
      /\ next \in [Proc -> 1..(N + 1)] /\ half \in [Proc -> BOOLEAN]
      /\ markFirst \in BOOLEAN /\ applied \subseteq M /\ executed \in [M -> Nat]
  BY DEF TypeOK
<1>1. ASSUME NEW p \in Proc,
             \/ Migrate(p) \/ CopyFile(p) \/ ReplaceTextInFile(p) \/ FailsEarly(p) \/ InitTables(p)
             \/ Lock(p) \/ LockFails(p) \/ Unlock(p) \/ Return(p)
      PROVE  ChangelogIsTrue'
  <2>1. /\ UNCHANGED <<applied, executed, doubtful>> /\ pc[p] # "up"
        /\ \A q \in Proc \ {p} : pc'[q] = pc[q] /\ next'[q] = next[q] /\ half'[q] = half[q]
    BY <1>1, <1>t DEF Migrate, CopyFile, ReplaceTextInFile, FailsEarly, InitTables, Lock,
                      LockFails, Unlock, Return
  <2> QED
    BY <2>1 DEF ChangelogIsTrue
<1>2. ASSUME NEW p \in Proc, UpDone(p) PROVE ChangelogIsTrue'
  <2>1. ~half[p]
    BY <1>2, <1>t, MigrationAssumption DEF UpDone, Progress, Applying, M
  <2>2. /\ UNCHANGED <<applied, executed, doubtful, next, half>>
        /\ \A q \in Proc \ {p} : pc'[q] = pc[q]
    BY <1>2, <1>t DEF UpDone
  <2> QED
    BY <2>1, <2>2 DEF ChangelogIsTrue
<1>3. ASSUME NEW p \in Proc, UpFails(p) \/ Kill(p) PROVE ChangelogIsTrue'
  <2>1. /\ UNCHANGED <<applied, executed, next, half>> /\ doubtful \subseteq doubtful'
        /\ \A q \in Proc \ {p} : pc'[q] = pc[q]
        /\ pc[p] = "up" /\ next[p] \in M => next[p] \in doubtful'
    BY <1>3, <1>t DEF UpFails, Kill, Doubt
  <2> QED
    BY <2>1 DEF ChangelogIsTrue
<1>4. ASSUME NEW p \in Proc, Up(p) PROVE ChangelogIsTrue'
  <2>1. next[p] \in M /\ pc[p] = "up" /\ UNCHANGED <<pc, doubtful>>
    BY <1>4, <1>t, MigrationAssumption DEF Up, M
  <2>2. \A q \in Proc : pc[q] = "up" => q = p
    BY <2>1 DEF LockIsTrue, Locked
  <2>3. half' = [half EXCEPT ![p] = ~half[p]]
        /\ (~half[p] => next' = next)
    BY <1>4 DEF Up
  <2>4. \A i \in M \ {next[p]} :
          executed'[i] = executed[i] /\ (i \in applied' <=> i \in applied)
    BY <1>4, <2>1, <1>t DEF Up, Execute, Mark
  <2>5. \A i \in M \ doubtful : i # next[p] => executed[i] = IF i \in applied THEN 1 ELSE 0
    BY <2>2 DEF ChangelogIsTrue
  <2>6. CASE ~half[p]
    BY <2>1, <2>3, <2>4, <2>5, <2>6, <1>t DEF ChangelogIsTrue
  <2>7. CASE half[p]
    <3>1. /\ next[p] \in applied <=> markFirst
          /\ next[p] \notin doubtful => executed[next[p]] = IF markFirst THEN 0 ELSE 1
      BY <2>1, <2>7 DEF Progress, Applying
    <3>2. next[p] \notin doubtful => executed'[next[p]] = 1 /\ next[p] \in applied'
      <4>1. CASE markFirst
        <5>1. Execute(p)
          BY <4>1, <2>7, <1>4, <1>t DEF Up
        <5> QED
          BY <5>1, <4>1, <3>1, <2>1, <1>t DEF Execute
      <4>2. CASE ~markFirst
        <5>1. Mark(p)
          BY <4>2, <2>7, <1>4, <1>t DEF Up
        <5> QED
          BY <5>1, <4>2, <3>1, <2>1, <1>t DEF Mark
      <4> QED
        BY <4>1, <4>2
    <3> QED
      BY <3>2, <2>1, <2>4, <2>5 DEF ChangelogIsTrue
  <2> QED
    BY <2>6, <2>7
<1>5. CASE UNCHANGED vars
  BY <1>5 DEF vars, ChangelogIsTrue
<1> QED
  BY <1>1, <1>2, <1>3, <1>4, <1>5 DEF Next, Step

\* The inductive invariant: types, lock, progress, changelog and files.
THEOREM Inductive == Spec => []IInv
<1>1. IInv /\ [Next]_vars => IInv'
  BY StepTypeOK, StepLock, StepReplaced, StepPrefix, StepProgress, StepChangelog DEF IInv
<1> QED
  BY InitIInv, <1>1, PTL DEF Spec

\* The lock is taken exactly while one process applies migrations, or was left
\* behind, over any number of processes, failures and kills.
THEOREM LockTellsTheTruth == Spec => []LockIsTrue
BY Inductive, PTL DEF IInv

\* What the changelog says was executed once, and nothing else was, but for
\* migrations that failed or were killed in the middle.
THEOREM ChangelogTellsTheTruth == Spec => []ChangelogIsTrue
BY Inductive, PTL DEF IInv

\* The placeholder of the table prefix never reaches the database.
THEOREM PrefixesAreReplaced == Spec => []PrefixIsReplaced
BY Inductive, PTL DEF IInv
=============================================================================
