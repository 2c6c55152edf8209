--------------------------- MODULE FileBackup_proofs ---------------------------
(***************************************************************************)
(* Proofs about the file backup, for any events, hosts and number of       *)
(* saves: each saved event is in one place and has one line at most, and   *)
(* Flush leaves no batch behind.                                           *)
(***************************************************************************)
EXTENDS FileBackup, TLAPS

\* The initial state satisfies the inductive invariant.
LEMMA InitIInv == Init => IInv
<1> SUFFICES ASSUME Init PROVE IInv
  OBVIOUS
<1>1. TypeOK
  <2>1. lines \in [Backup -> [Event -> Nat]]
    BY DEF Init
  <2> QED
    BY <2>1 DEF Init, TypeOK, Empty, Batch
<1>2. \A b \in Backup : Batched(b) = {} /\ Settled(b) = {} /\ Lines(b) = {}
  BY DEF Init, Batched, Settled, Lines, Empty
<1>3. GroupsAreApart /\ OneLineEach
  BY <1>2 DEF Init, Empty, GroupsAreApart, OneLineEach, Disjoint, InBatcher
<1>4. DueIsTracked
  BY DEF Init, Empty, DueIsTracked, Past, Backup
<1> QED
  BY <1>1, <1>3, <1>4 DEF IInv

\* A batch replaced by one that holds no more: what the batches of each backup hold.
LEMMA ReplaceEffect ==
  ASSUME OneLineEach, TypeOK, NEW t \in batches, NEW u, Replace(t, u), u.backup = t.backup,
         Held(u) \subseteq Held(t)
  PROVE  /\ \A b \in Backup :
              Batched(b)' = IF b = t.backup THEN Batched(b) \ (Held(t) \ Held(u)) ELSE Batched(b)
         /\ \A b \in Backup, v, w \in batches' :
              v # w /\ v.backup = b /\ w.backup = b => Disjoint(Held(v), Held(w))
<1>1. batches' = (batches \ {t}) \cup {u}
  BY DEF Replace
<1>2. \A v \in batches : v # t /\ v.backup = t.backup => Disjoint(Held(v), Held(t))
  BY DEF OneLineEach, TypeOK, Batch
<1>3. \A b \in Backup, v, w \in batches' :
        v # w /\ v.backup = b /\ w.backup = b => Disjoint(Held(v), Held(w))
  BY <1>1, <1>2 DEF OneLineEach, Disjoint
<1>4. ASSUME NEW b \in Backup
      PROVE  Batched(b)' = IF b = t.backup THEN Batched(b) \ (Held(t) \ Held(u)) ELSE Batched(b)
  <2>1. CASE b # t.backup
    BY <2>1, <1>1 DEF Batched
  <2>2. CASE b = t.backup
    <3>1. ASSUME NEW e \in Event
          PROVE  e \in Batched(b)' <=> e \in Batched(b) /\ e \notin Held(t) \ Held(u)
      BY <2>2, <1>1, <1>2 DEF Batched, Disjoint
    <3>2. Batched(b)' \subseteq Event /\ Batched(b) \subseteq Event
      BY DEF Batched
    <3> QED
      BY <2>2, <3>1, <3>2
  <2> QED
    BY <2>1, <2>2
<1> QED
  BY <1>3, <1>4

\* A batch closed: the collected events are batched, and no more.
LEMMA CloseEffect ==
  ASSUME OneLineEach, TypeOK, NEW c \in Backup, CloseBatch(c)
  PROVE  /\ batches' \subseteq Batch
         /\ collecting' \in [Backup -> SUBSET Event]
         /\ \A b \in Backup :
              /\ Batched(b)' = IF b = c THEN Batched(b) \cup collecting[b] ELSE Batched(b)
              /\ collecting'[b] = IF b = c THEN {} ELSE collecting[b]
         /\ \A b \in Backup, v, w \in batches' :
              v # w /\ v.backup = b /\ w.backup = b => Disjoint(Held(v), Held(w))
         /\ GroupsAreApart => GroupsAreApart'
<1>t. collecting \in [Backup -> SUBSET Event] /\ batches \subseteq Batch
  BY DEF TypeOK
<1>1. CASE collecting[c] = {}
  <2>1. batches' = batches /\ collecting' = [collecting EXCEPT ![c] = {}]
    BY <1>1 DEF CloseBatch
  <2> QED
    BY <1>1, <1>t, <2>1 DEF Batched, OneLineEach, GroupsAreApart
<1>2. CASE collecting[c] # {}
  <2> DEFINE n == NewBatch(c)
  <2>1. batches' = batches \cup {n} /\ collecting' = [collecting EXCEPT ![c] = {}]
    BY <1>2 DEF CloseBatch
  <2>2. n \in Batch /\ n.backup = c /\ Held(n) = collecting[c] /\ Disjoint(n.events, n.group)
    BY <1>t DEF NewBatch, Batch, Held, Disjoint
  <2> HIDE DEF n
  <2>3. \A v \in batches : v.backup = c => Disjoint(Held(v), Held(n))
    <3>1. Disjoint(collecting[c], Batched(c))
      BY DEF OneLineEach, Disjoint
    <3>2. \A v \in batches, e \in Event : v.backup = c /\ e \in Held(v) => e \in Batched(c)
      BY DEF Batched
    <3>3. Held(n) \subseteq Event
      BY <2>2, <1>t
    <3> QED
      BY <2>2, <3>1, <3>2, <3>3 DEF Disjoint
  <2>4. \A b \in Backup, v, w \in batches' :
          v # w /\ v.backup = b /\ w.backup = b => Disjoint(Held(v), Held(w))
    BY <2>1, <2>2, <2>3 DEF OneLineEach, Disjoint
  <2>5. ASSUME NEW b \in Backup
        PROVE  Batched(b)' = IF b = c THEN Batched(b) \cup collecting[b] ELSE Batched(b)
    BY <2>1, <2>2, <1>t DEF Batched
  <2> QED
    BY <2>1, <2>2, <2>4, <2>5, <1>t DEF GroupsAreApart
<1> QED
  BY <1>1, <1>2

\* Steps before the batcher: SaveAsync and Submit move one event.
LEMMA SubmitKeepsIInv ==
  ASSUME IInv, NEW b \in Backup, NEW e \in Event, SaveAsync(b, e) \/ Submit(b, e)
  PROVE  IInv'
<1> USE DEF IInv
<1>t. TypeOK
  OBVIOUS
<1>1. UNCHANGED <<batches, lines, flushing, closedLast, exited, unwritten, due>>
  BY DEF SaveAsync, Submit
<1>2. \A c \in Backup : UNCHANGED <<Batched(c), Lines(c), Settled(c)>>
  BY <1>1 DEF Batched, Lines, Settled
<1>3. GroupsAreApart' /\ DueIsTracked'
  BY <1>1, <1>2 DEF GroupsAreApart, DueIsTracked, Past
<1>4. CASE SaveAsync(b, e)
  <2>1. /\ e \notin saved[b] /\ UNCHANGED collecting
        /\ saved' = [saved EXCEPT ![b] = @ \cup {e}]
        /\ starting' = [starting EXCEPT ![b] = @ \cup {e}]
    BY <1>4 DEF SaveAsync
  <2>2. TypeOK'
    BY <2>1, <1>1, <1>t DEF TypeOK
  <2>3. \A c \in Backup : /\ saved'[c] = IF c = b THEN saved[c] \cup {e} ELSE saved[c]
                          /\ starting'[c] = IF c = b THEN starting[c] \cup {e} ELSE starting[c]
    BY <2>1, <1>t DEF TypeOK
  <2>4. OneLineEach'
    <3>1. ASSUME NEW c \in Backup
          PROVE  /\ saved'[c] = starting'[c] \cup collecting'[c] \cup Batched(c)' \cup Settled(c)'
                 /\ Disjoint(starting'[c], InBatcher(c)' \cup Settled(c)')
                 /\ Disjoint(collecting'[c], Batched(c)' \cup Settled(c)')
      <4>1. Batched(c)' = Batched(c) /\ Settled(c)' = Settled(c)
        BY <1>2
      <4>2. /\ saved[c] = starting[c] \cup collecting[c] \cup Batched(c) \cup Settled(c)
            /\ Disjoint(starting[c], InBatcher(c) \cup Settled(c))
            /\ Disjoint(collecting[c], Batched(c) \cup Settled(c))
        BY DEF OneLineEach
      <4>3. CASE c # b
        BY <4>1, <4>2, <4>3, <2>1, <2>3 DEF InBatcher
      <4>4. CASE c = b
        BY <4>1, <4>2, <4>4, <2>1, <2>3 DEF InBatcher, Disjoint
      <4> QED
        BY <4>3, <4>4
    <3>3. \A c \in Backup : /\ Disjoint(Batched(c)', Settled(c)') /\ Disjoint(Lines(c)', unwritten'[c])
                            /\ \A x \in Event : lines'[c][x] <= 1
      BY <1>1, <1>2 DEF OneLineEach
    <3>4. \A c \in Backup, v, w \in batches' :
            v # w /\ v.backup = c /\ w.backup = c => Disjoint(Held(v), Held(w))
      BY <1>1 DEF OneLineEach
    <3> QED
      BY <3>1, <3>3, <3>4 DEF OneLineEach
  <2> QED
    BY <2>2, <2>4, <1>3
<1>5. CASE Submit(b, e)
  <2>1. /\ e \in starting[b] /\ UNCHANGED saved
        /\ starting' = [starting EXCEPT ![b] = @ \ {e}]
        /\ collecting' = [collecting EXCEPT ![b] = @ \cup {e}]
    BY <1>5 DEF Submit
  <2>2. TypeOK'
    BY <2>1, <1>1, <1>t DEF TypeOK
  <2>3. \A c \in Backup :
          /\ starting'[c] = IF c = b THEN starting[c] \ {e} ELSE starting[c]
          /\ collecting'[c] = IF c = b THEN collecting[c] \cup {e} ELSE collecting[c]
    BY <2>1, <1>t DEF TypeOK
  <2>4. OneLineEach'
    <3>1. ASSUME NEW c \in Backup
          PROVE  /\ saved'[c] = starting'[c] \cup collecting'[c] \cup Batched(c)' \cup Settled(c)'
                 /\ Disjoint(starting'[c], InBatcher(c)' \cup Settled(c)')
                 /\ Disjoint(collecting'[c], Batched(c)' \cup Settled(c)')
      <4>1. Batched(c)' = Batched(c) /\ Settled(c)' = Settled(c)
        BY <1>2
      <4>2. /\ saved[c] = starting[c] \cup collecting[c] \cup Batched(c) \cup Settled(c)
            /\ Disjoint(starting[c], InBatcher(c) \cup Settled(c))
            /\ Disjoint(collecting[c], Batched(c) \cup Settled(c))
        BY DEF OneLineEach
      <4>3. CASE c # b
        BY <4>1, <4>2, <4>3, <2>1, <2>3 DEF InBatcher
      <4>4. CASE c = b
        BY <4>1, <4>2, <4>4, <2>1, <2>3 DEF InBatcher, Disjoint
      <4> QED
        BY <4>3, <4>4
    <3>3. \A c \in Backup : /\ Disjoint(Batched(c)', Settled(c)') /\ Disjoint(Lines(c)', unwritten'[c])
                            /\ \A x \in Event : lines'[c][x] <= 1
      BY <1>1, <1>2 DEF OneLineEach
    <3>4. \A c \in Backup, v, w \in batches' :
            v # w /\ v.backup = c /\ w.backup = c => Disjoint(Held(v), Held(w))
      BY <1>1 DEF OneLineEach
    <3> QED
      BY <3>1, <3>3, <3>4 DEF OneLineEach
  <2> QED
    BY <2>2, <2>4, <1>3
<1> QED
  BY <1>4, <1>5

\* A batch closed by its timer or by Flush.
LEMMA CloseKeepsIInv ==
  ASSUME IInv, NEW b \in Backup, Timer(b) \/ FlushClose(b)
  PROVE  IInv'
<1> USE DEF IInv
<1>t. TypeOK
  OBVIOUS
<1>1. CloseBatch(b) /\ UNCHANGED <<starting, lines, exited, saved, unwritten>>
  BY DEF Timer, FlushClose
<1>2. /\ batches' \subseteq Batch /\ collecting' \in [Backup -> SUBSET Event] /\ GroupsAreApart'
      /\ \A c \in Backup :
           /\ Batched(c)' = IF c = b THEN Batched(c) \cup collecting[c] ELSE Batched(c)
           /\ collecting'[c] = IF c = b THEN {} ELSE collecting[c]
      /\ \A c \in Backup, v, w \in batches' :
              v # w /\ v.backup = c /\ w.backup = c => Disjoint(Held(v), Held(w))
  BY <1>1, CloseEffect
<1>3. \A c \in Backup : UNCHANGED <<Lines(c), Settled(c)>>
  BY <1>1 DEF Lines, Settled
<1>4. OneLineEach'
  <2>1. \A c \in Backup : saved'[c] = starting'[c] \cup collecting'[c] \cup Batched(c)' \cup Settled(c)'
    BY <1>1, <1>2, <1>3 DEF OneLineEach
  <2>2. \A c \in Backup : /\ Disjoint(starting'[c], InBatcher(c)' \cup Settled(c)')
                          /\ Disjoint(collecting'[c], Batched(c)' \cup Settled(c)')
                          /\ Disjoint(Batched(c)', Settled(c)')
    BY <1>1, <1>2, <1>3 DEF OneLineEach, InBatcher, Disjoint
  <2>3. \A c \in Backup : Disjoint(Lines(c)', unwritten'[c]) /\ \A e \in Event : lines'[c][e] <= 1
    BY <1>1, <1>3 DEF OneLineEach
  <2> QED
    BY <2>1, <2>2, <2>3, <1>2 DEF OneLineEach
<1>5. CASE Timer(b)
  <2>1. UNCHANGED <<flushing, closedLast, due>>
    BY <1>5 DEF Timer
  <2>2. TypeOK'
    BY <2>1, <1>1, <1>2, <1>t DEF TypeOK
  <2>3. DueIsTracked'
    BY <2>1, <1>2, <1>3 DEF DueIsTracked, Past
  <2> QED
    BY <2>2, <2>3, <1>2, <1>4
<1>6. CASE FlushClose(b)
  <2>1. /\ flushing = b \/ (flushing = "no" /\ b = "archive")
        /\ due' = [due EXCEPT ![b] = InBatcher(b)]
        /\ \/ flushing' = b /\ closedLast' = TRUE
           \/ flushing' = NextBackup(b) /\ closedLast' = FALSE /\ InBatcher(b) = {}
    BY <1>6 DEF FlushClose, Waits, GoesOn, InBatcher, Batched
  <2>2. InBatcher(b) \subseteq Event
    BY <1>t DEF InBatcher, Batched, TypeOK
  <2>3. TypeOK'
    <3>1. due' \in [Backup -> SUBSET Event]
      BY <2>1, <2>2, <1>t DEF TypeOK
    <3>2. flushing' \in Backup \cup {"no", "done"} /\ closedLast' \in BOOLEAN
      BY <2>1 DEF NextBackup, Backup
    <3> QED
      BY <3>1, <3>2, <1>1, <1>2, <1>t DEF TypeOK
  <2>4. \A c \in Backup : due'[c] = IF c = b THEN Batched(c) \cup collecting[c] ELSE due[c]
    BY <2>1, <1>t DEF TypeOK, InBatcher
  <2>5. ASSUME NEW c \in Backup, Past(c)'
        PROVE  (Past(c) /\ c # b) \/ (c = b /\ InBatcher(b) = {})
    <3>1. CASE flushing' = b
      BY <2>1, <2>5, <3>1 DEF Past, Backup
    <3>2. CASE flushing' = NextBackup(b) /\ InBatcher(b) = {}
      <4>1. c = b \/ Past(c)
        BY <2>1, <2>5, <3>2 DEF Past, Backup, NextBackup
      <4> QED
        BY <3>2, <4>1
    <3> QED
      BY <2>1, <3>1, <3>2
  <2>6. closedLast' => flushing' \in Backup
    BY <2>1
  <2>7. DueIsTracked'
    BY <2>4, <2>5, <2>6, <1>2, <1>3 DEF DueIsTracked, InBatcher
  <2> QED
    BY <2>3, <2>7, <1>2, <1>4
<1> QED
  BY <1>5, <1>6

\* The goroutine of a batch: what leaves the batch is settled.
LEMMA WorkKeepsIInv ==
  ASSUME IInv, NEW t \in batches,
         \/ CloseFile(t) \/ WriteString(t)
         \/ \E h \in Host : OpenFile(t, h) \/ OpenFails(t, h)
  PROVE  IInv'
<1> USE DEF IInv
<1>t. TypeOK /\ t \in Batch /\ t.backup \in Backup /\ Held(t) \subseteq Event
  BY DEF TypeOK, Batch, Held
<1> DEFINE Leaving(W, F) ==
        /\ lines' = [lines EXCEPT ![t.backup] =
                       [e \in Event |-> IF e \in W THEN @[e] + 1 ELSE @[e]]]
        /\ unwritten' = [unwritten EXCEPT ![t.backup] = @ \cup F]
<1> DEFINE Effect(u) ==
        /\ Replace(t, u) /\ u.backup = t.backup /\ Held(u) \subseteq Held(t)
        /\ Disjoint(u.events, u.group)
        /\ UNCHANGED <<starting, collecting, flushing, closedLast, exited, saved, due>>
        /\ \/ Held(u) = Held(t) /\ UNCHANGED <<lines, unwritten>>
           \/ /\ unwritten' = [unwritten EXCEPT ![t.backup] = @ \cup (Held(t) \ Held(u))]
              /\ UNCHANGED lines
           \/ \E W \in SUBSET (Held(t) \ Held(u)) : Leaving(W, (Held(t) \ Held(u)) \ W)
<1>e. \E u \in Batch : Effect(u)
  <2>d. Disjoint(t.events, t.group)
    BY DEF GroupsAreApart
  <2>1. CASE CloseFile(t)
    <3> DEFINE w == [t EXCEPT !.file = "closed"]
    <3>1. w \in Batch /\ w.backup = t.backup /\ w.events = t.events /\ w.group = t.group
      BY <1>t DEF Batch
    <3>2. Held(w) = Held(t) /\ Disjoint(w.events, w.group)
      BY <3>1, <2>d DEF Held
    <3>3. Replace(t, w) /\ UNCHANGED <<starting, collecting, lines, flushing, closedLast, exited,
                                      saved, unwritten, due>>
      BY <2>1 DEF CloseFile
    <3> HIDE DEF w
    <3> QED
      BY <3>1, <3>2, <3>3
  <2>2. CASE WriteString(t)
    <3> DEFINE w == [t EXCEPT !.group = {}, !.file = "none"]
    <3>1. w \in Batch /\ w.backup = t.backup /\ w.events = t.events /\ w.group = {}
      BY <1>t DEF Batch
    <3>2. Held(t) \ Held(w) = t.group /\ Held(w) \subseteq Held(t) /\ Disjoint(w.events, w.group)
      BY <3>1, <2>d DEF Held, Disjoint
    <3>3. Replace(t, w) /\ UNCHANGED <<starting, collecting, flushing, closedLast, exited, saved, due>>
      BY <2>2 DEF WriteString
    <3>4. \E W \in SUBSET t.group : Leaving(W, t.group \ W)
      BY <2>2 DEF WriteString, Leaves
    <3> HIDE DEF w
    <3> QED
      BY <3>1, <3>2, <3>3, <3>4
  <2>3. ASSUME NEW h \in Host, OpenFile(t, h) PROVE \E u \in Batch : Effect(u)
    <3> DEFINE w == [t EXCEPT !.events = @ \ OfHost(t.events, h),
                              !.group = OfHost(t.events, h), !.file = "open"]
    <3>1. /\ w \in Batch /\ w.backup = t.backup /\ w.group = OfHost(t.events, h)
          /\ w.events = t.events \ OfHost(t.events, h) /\ t.group = {}
      BY <2>3, <1>t DEF OpenFile, Batch, OfHost
    <3>2. Held(w) = Held(t) /\ Disjoint(w.events, w.group)
      BY <3>1 DEF Held, Disjoint, OfHost
    <3>3. Replace(t, w) /\ UNCHANGED <<starting, collecting, lines, flushing, closedLast, exited,
                                      saved, unwritten, due>>
      BY <2>3 DEF OpenFile
    <3> HIDE DEF w
    <3> QED
      BY <3>1, <3>2, <3>3
  <2>4. ASSUME NEW h \in Host, OpenFails(t, h) PROVE \E u \in Batch : Effect(u)
    <3> DEFINE w == [t EXCEPT !.events = @ \ OfHost(t.events, h)]
    <3>1. /\ w \in Batch /\ w.backup = t.backup /\ w.group = t.group /\ t.group = {}
          /\ w.events = t.events \ OfHost(t.events, h)
      BY <2>4, <1>t DEF OpenFails, Batch, OfHost
    <3>2. /\ Held(w) \subseteq Held(t) /\ Disjoint(w.events, w.group)
          /\ Held(t) \ Held(w) = OfHost(t.events, h)
      BY <3>1 DEF Held, Disjoint, OfHost
    <3>3. /\ Replace(t, w)
          /\ unwritten' = [unwritten EXCEPT ![t.backup] = @ \cup OfHost(t.events, h)]
          /\ UNCHANGED <<starting, collecting, lines, flushing, closedLast, exited, saved, due>>
      BY <2>4 DEF OpenFails
    <3> HIDE DEF w
    <3> QED
      BY <3>1, <3>2, <3>3
  <2> QED
    BY <2>1, <2>2, <2>3, <2>4
<1>1. PICK u \in Batch : Effect(u)
  BY <1>e
<1> DEFINE b == t.backup
           gone == Held(t) \ Held(u)
<1>2. /\ \A c \in Backup : Batched(c)' = IF c = b THEN Batched(c) \ gone ELSE Batched(c)
      /\ \A c \in Backup, v, w \in batches' :
              v # w /\ v.backup = c /\ w.backup = c => Disjoint(Held(v), Held(w))
  BY <1>1, <1>t, ReplaceEffect
<1>3. GroupsAreApart'
  BY <1>1 DEF GroupsAreApart, Replace
<1>4. gone \subseteq Batched(b)
  BY <1>t DEF Batched
<1>5. /\ \A c \in Backup : c # b => UNCHANGED <<Lines(c), Settled(c), unwritten[c], lines[c]>>
      /\ Settled(b)' = Settled(b) \cup gone
      /\ Disjoint(Lines(b)', unwritten'[b])
      /\ \A c \in Backup, e \in Event : lines'[c][e] <= 1
      /\ lines' \in [Backup -> [Event -> Nat]] /\ unwritten' \in [Backup -> SUBSET Event]
  <2>1. gone \subseteq Event /\ Disjoint(gone, Settled(b))
    BY <1>4, <1>t DEF OneLineEach, Disjoint
  <2>2. CASE Held(u) = Held(t) /\ UNCHANGED <<lines, unwritten>>
    BY <2>2, <1>t DEF Lines, Settled, OneLineEach, TypeOK
  <2>3. CASE unwritten' = [unwritten EXCEPT ![b] = @ \cup gone] /\ UNCHANGED lines
    <3>1. \A c \in Backup : Lines(c)' = Lines(c)
      BY <2>3 DEF Lines
    <3>2. unwritten'[b] = unwritten[b] \cup gone /\ \A c \in Backup : c # b => unwritten'[c] = unwritten[c]
      BY <2>3, <1>t DEF TypeOK
    <3>3. Disjoint(Lines(b)', unwritten'[b])
      BY <3>1, <3>2, <2>1, <1>t DEF Settled, OneLineEach, Disjoint
    <3>4. unwritten' \in [Backup -> SUBSET Event]
      BY <2>1, <2>3, <1>t DEF TypeOK
    <3>5. \A c \in Backup : c # b => Settled(c)' = Settled(c)
      BY <3>1, <3>2 DEF Settled
    <3>6. Settled(b)' = Settled(b) \cup gone
      BY <3>1, <3>2, <1>t DEF Settled
    <3>7. lines' = lines /\ lines \in [Backup -> [Event -> Nat]]
          /\ \A c \in Backup, e \in Event : lines[c][e] <= 1
      BY <2>3, <1>t DEF OneLineEach, TypeOK
    <3> QED
      BY <3>1, <3>2, <3>3, <3>4, <3>5, <3>6, <3>7
  <2>4. ASSUME NEW W \in SUBSET gone, Leaving(W, gone \ W)
        PROVE  /\ \A c \in Backup : c # b =>
                    UNCHANGED <<Lines(c), Settled(c), unwritten[c], lines[c]>>
               /\ Settled(b)' = Settled(b) \cup gone
               /\ Disjoint(Lines(b)', unwritten'[b])
               /\ \A c \in Backup, e \in Event : lines'[c][e] <= 1
               /\ lines' \in [Backup -> [Event -> Nat]]
               /\ unwritten' \in [Backup -> SUBSET Event]
    <3> HIDE DEF gone
    <3>1. lines' \in [Backup -> [Event -> Nat]]
      BY <2>4, <1>t DEF TypeOK
    <3>2. /\ \A e \in Event : lines'[b][e] = IF e \in W THEN lines[b][e] + 1 ELSE lines[b][e]
          /\ \A c \in Backup : c # b => lines'[c] = lines[c]
      BY <2>4, <1>t DEF TypeOK
    <3>3. \A e \in W : lines[b][e] = 0
      BY <2>1, <1>t DEF Settled, Lines, Disjoint, TypeOK
    <3>4. Lines(b)' = Lines(b) \cup W /\ \A c \in Backup : c # b => Lines(c)' = Lines(c)
      <4>1. \A e \in Event : lines[b][e] \in Nat
        BY <1>t DEF TypeOK
      <4>2. \A e \in Event : lines'[b][e] > 0 <=> lines[b][e] > 0 \/ e \in W
        BY <4>1, <3>2, <3>3
      <4> QED
        BY <4>2, <3>2, <2>1 DEF Lines
    <3>5. \A c \in Backup, e \in Event : lines'[c][e] <= 1
      <4>1. \A c \in Backup, e \in Event : lines[c][e] <= 1
        BY DEF OneLineEach
      <4>2. \A e \in Event : lines'[b][e] <= 1
        BY <4>1, <3>2, <3>3, <1>t
      <4> QED
        BY <4>1, <4>2, <3>2
    <3>6. /\ unwritten'[b] = unwritten[b] \cup (gone \ W)
          /\ \A c \in Backup : c # b => unwritten'[c] = unwritten[c]
      BY <2>4, <1>t DEF TypeOK
    <3>7. Disjoint(Lines(b)', unwritten'[b])
      <4>1. Disjoint(Lines(b), unwritten[b]) /\ Disjoint(gone, Lines(b) \cup unwritten[b])
        BY <2>1, <1>t DEF OneLineEach, Settled
      <4> QED
        BY <4>1, <3>4, <3>6 DEF Disjoint
    <3>8. Settled(b)' = Settled(b) \cup gone
      BY <3>4, <3>6 DEF Settled
    <3>9. \A c \in Backup : c # b => UNCHANGED <<Lines(c), Settled(c), unwritten[c], lines[c]>>
      BY <3>2, <3>4, <3>6 DEF Settled
    <3>10. unwritten' \in [Backup -> SUBSET Event]
      BY <2>1, <2>4, <1>t DEF TypeOK
    <3> QED
      BY <3>1, <3>5, <3>7, <3>8, <3>9, <3>10
  <2> QED
    BY <2>2, <2>3, <2>4, <1>1
<1>6. TypeOK'
  BY <1>1, <1>5, <1>t DEF TypeOK, Replace
<1>7. OneLineEach'
  <2>1. \A c \in Backup : saved'[c] = starting'[c] \cup collecting'[c] \cup Batched(c)' \cup Settled(c)'
    BY <1>1, <1>2, <1>4, <1>5 DEF OneLineEach
  <2>2. \A c \in Backup : /\ Disjoint(starting'[c], InBatcher(c)' \cup Settled(c)')
                          /\ Disjoint(collecting'[c], Batched(c)' \cup Settled(c)')
                          /\ Disjoint(Batched(c)', Settled(c)')
    BY <1>1, <1>2, <1>4, <1>5 DEF OneLineEach, InBatcher, Disjoint
  <2>3. \A c \in Backup : Disjoint(Lines(c)', unwritten'[c])
    BY <1>5 DEF OneLineEach
  <2> QED
    BY <2>1, <2>2, <2>3, <1>2, <1>5 DEF OneLineEach
<1>8. DueIsTracked'
  BY <1>1, <1>2, <1>5 DEF DueIsTracked, Past
<1> QED
  BY <1>3, <1>6, <1>7, <1>8

\* A batch that ends is empty.  Where Flush goes on to the next backup, nothing is
\* batched in the one it leaves, so what was due there is settled.
LEMMA DoneKeepsIInv ==
  ASSUME IInv, NEW t \in batches, BatchDone(t)
  PROVE  IInv'
<1> USE DEF IInv
<1>1. /\ t.events = {} /\ t.group = {} /\ batches' = batches \ {t}
      /\ UNCHANGED <<starting, collecting, lines, exited, saved, unwritten, due>>
  BY DEF BatchDone
<1>2. Held(t) = {}
  BY <1>1 DEF Held
<1>3. \A c \in Backup : UNCHANGED <<Batched(c), Lines(c), Settled(c)>>
  BY <1>1, <1>2 DEF Batched, Lines, Settled
<1>f. \/ UNCHANGED <<flushing, closedLast>>
      \/ /\ flushing = t.backup /\ t.backup \in Backup /\ Batched(t.backup) = {}
         /\ flushing' = NextBackup(t.backup) /\ closedLast' = FALSE
  <2>1. t.backup \in Backup
    BY DEF TypeOK, Batch
  <2> QED
    BY <1>2, <2>1 DEF BatchDone, GoesOn, Batched
<1>4. TypeOK' /\ GroupsAreApart'
  BY <1>1, <1>f DEF TypeOK, GroupsAreApart, NextBackup, Backup
<1>5. OneLineEach'
  <2>1. \A c \in Backup, v, w \in batches' :
          v # w /\ v.backup = c /\ w.backup = c => Disjoint(Held(v), Held(w))
    BY <1>1 DEF OneLineEach
  <2> QED
    BY <1>1, <1>3, <2>1 DEF OneLineEach, InBatcher
<1>6. \A c \in Backup : Past(c)' => Past(c) \/ Batched(c) = {}
  BY <1>f DEF Past, NextBackup, Backup
<1>7. closedLast' => flushing' \in Backup
  BY <1>f DEF DueIsTracked, Backup
<1>8. DueIsTracked'
  BY <1>1, <1>3, <1>6, <1>7 DEF DueIsTracked
<1> QED
  BY <1>4, <1>5, <1>8

\* A step that leaves the batches and their history alone.
LEMMA StutterKeepsIInv ==
  ASSUME IInv, exited' \in BOOLEAN,
         UNCHANGED <<starting, collecting, batches, lines, flushing, closedLast, saved,
                     unwritten, due>>
  PROVE  IInv'
<1>1. \A c \in Backup : UNCHANGED <<Batched(c), Lines(c), Settled(c), InBatcher(c), Past(c)>>
  BY DEF Batched, Lines, Settled, InBatcher, Past
<1>2. TypeOK' /\ GroupsAreApart'
  BY DEF IInv, TypeOK, GroupsAreApart
<1>3. OneLineEach' /\ DueIsTracked'
  BY <1>1 DEF IInv, OneLineEach, DueIsTracked
<1> QED
  BY <1>2, <1>3 DEF IInv

\* Every state the file backup reaches satisfies the inductive invariant, the types
\* of its variables included.
THEOREM Inductive == Spec => []IInv
<1>1. Init => IInv
  BY InitIInv
<1>2. IInv /\ [Next]_vars => IInv'
  <2> SUFFICES ASSUME IInv, [Next]_vars PROVE IInv'
    OBVIOUS
  <2>1. ASSUME NEW b \in Backup, NEW e \in Event, SaveAsync(b, e) \/ Submit(b, e) PROVE IInv'
    BY <2>1, SubmitKeepsIInv
  <2>2. ASSUME NEW b \in Backup, Timer(b) \/ FlushClose(b) PROVE IInv'
    BY <2>2, CloseKeepsIInv
  <2>4. ASSUME NEW t \in batches, BatchDone(t) PROVE IInv'
    BY <2>4, DoneKeepsIInv
  <2>5. ASSUME NEW t \in batches,
               \/ CloseFile(t) \/ WriteString(t)
               \/ \E h \in Host : OpenFile(t, h) \/ OpenFails(t, h)
        PROVE  IInv'
    BY <2>5, WorkKeepsIInv
  <2>6. CASE Work
    BY <2>4, <2>5, <2>6 DEF Work
  <2>7. CASE Flush
    BY <2>2, <2>7 DEF Flush
  <2>8. CASE Exit
    BY <2>8, StutterKeepsIInv DEF Exit
  <2>9. CASE UNCHANGED vars
    <3>1. exited' \in BOOLEAN
      BY <2>9 DEF IInv, TypeOK, vars
    <3> QED
      BY <2>9, <3>1, StutterKeepsIInv DEF vars
  <2> QED
    BY <2>1, <2>2, <2>6, <2>7, <2>8, <2>9 DEF Next, Stopped
<1> QED
  BY <1>1, <1>2, PTL DEF Spec

\* A saved event is in one place of its backup and its line is written at most once
\* (backup/single.go's batcher, backup.go's saveBackupList).
THEOREM OneLine == Spec => []OneLineEach
<1>1. IInv => OneLineEach
  BY DEF IInv
<1> QED
  BY <1>1, Inductive, PTL

\* When Flush returns, what was in the batchers when it reached them is written, or
\* its write has failed (backup/service.go, Flush).
THEOREM FlushLeavesNothing == Spec => []FlushProcessesBatches
<1>1. IInv => FlushProcessesBatches
  BY DEF IInv, DueIsTracked, Past, FlushProcessesBatches
<1> QED
  BY <1>1, Inductive, PTL

(***************************************************************************)
(* The file backup keeps the promise of Backing.                           *)
(***************************************************************************)
\* Nothing is in memory at first, and no line is written.
LEMMA InitPromise == Init => Promise!Init
<1> SUFFICES ASSUME Init PROVE Promise!Init
  OBVIOUS
<1>1. \A b \in Backup : Batched(b) = {} /\ Lines(b) = {}
  BY DEF Init, Batched, Lines
<1>2. \A b \in Backup : InMemory(b) = {} /\ unwritten = Empty
  BY <1>1 DEF Init, Empty, InMemory, InBatcher
<1> QED
  BY <1>1, <1>2 DEF Init, Empty, Promise!Init, Promise!Nothing

\* A step that moves events about in memory is none of the promise's.
LEMMA MovesAreHidden ==
  ASSUME \A b \in Backup : InMemory(b)' = InMemory(b), UNCHANGED <<lines, unwritten, exited>>
  PROVE  UNCHANGED Promise!vars
<1>1. \A b \in Backup : Lines(b)' = Lines(b)
  BY DEF Lines
<1> QED
  BY <1>1 DEF Promise!vars

\* SaveAsync collects one event, new to the backup: a saved event is in memory, or
\* settled.
LEMMA SaveCollects ==
  ASSUME IInv, NEW b \in Backup, NEW e \in Event, SaveAsync(b, e)
  PROVE  Promise!Collect(b, e)
<1>t. TypeOK
  BY DEF IInv
<1>1. /\ ~exited /\ e \notin saved[b] /\ starting' = [starting EXCEPT ![b] = @ \cup {e}]
      /\ UNCHANGED <<collecting, batches, lines, exited, unwritten>>
  BY DEF SaveAsync
<1>2. \A c \in Backup : /\ Batched(c)' = Batched(c) /\ Lines(c)' = Lines(c)
                        /\ starting'[c] = IF c = b THEN starting[c] \cup {e} ELSE starting[c]
  BY <1>1, <1>t DEF Batched, Lines, TypeOK
<1>3. ASSUME NEW c \in Backup
      PROVE  InMemory(c)' = IF c = b THEN InMemory(c) \cup {e} ELSE InMemory(c)
  <2>1. InMemory(c)' = starting'[c] \cup (collecting[c] \cup Batched(c))
    BY <1>1, <1>2 DEF InMemory, InBatcher
  <2> QED
    BY <2>1, <1>2 DEF InMemory, InBatcher
<1>4. e \notin InMemory(b) /\ e \notin Lines(b) /\ e \notin unwritten[b]
  BY <1>1 DEF IInv, OneLineEach, InMemory, InBatcher, Settled
<1> QED
  BY <1>1, <1>2, <1>3, <1>4 DEF Promise!Collect, Promise!Given

\* What is written leaves memory: an event of a batch is nowhere else in it.
LEMMA BatchLeavesMemory ==
  ASSUME IInv, NEW t \in batches, NEW u, Replace(t, u), u.backup = t.backup,
         Held(u) \subseteq Held(t), UNCHANGED <<starting, collecting>>
  PROVE  /\ Held(t) \subseteq InMemory(t.backup)
         /\ \A c \in Backup : InMemory(c)' = IF c = t.backup
                                             THEN InMemory(c) \ (Held(t) \ Held(u))
                                             ELSE InMemory(c)
<1>t. TypeOK /\ OneLineEach /\ t.backup \in Backup /\ Held(t) \subseteq Event
  BY DEF IInv, TypeOK, Batch, Held
<1>1. \A c \in Backup : Batched(c)' = IF c = t.backup THEN Batched(c) \ (Held(t) \ Held(u))
                                                      ELSE Batched(c)
  BY <1>t, ReplaceEffect
<1>2. Held(t) \subseteq Batched(t.backup)
  BY <1>t DEF Batched
<1>3. /\ Disjoint(starting[t.backup], Batched(t.backup))
      /\ Disjoint(collecting[t.backup], Batched(t.backup))
  BY <1>t DEF OneLineEach, InBatcher, Disjoint
<1> QED
  BY <1>1, <1>2, <1>3 DEF InMemory, InBatcher, Disjoint

\* The group of one file is written, or a part of it.
LEMMA WriteStringWrites ==
  ASSUME IInv, NEW t \in batches, WriteString(t)
  PROVE  \E B, W \in SUBSET Event : Promise!Write(t.backup, B, W)
<1>t. TypeOK /\ t \in Batch /\ t.backup \in Backup /\ t.group \subseteq Event
  BY DEF IInv, TypeOK, Batch
<1> DEFINE w == [t EXCEPT !.group = {}, !.file = "none"]
           b == t.backup
<1>1. /\ w.backup = b /\ Held(w) \subseteq Held(t) /\ Held(t) \ Held(w) = t.group
      /\ t.group \subseteq Held(t)
  <2>1. w.backup = t.backup /\ w.events = t.events /\ w.group = {}
    BY <1>t DEF Batch
  <2>2. Disjoint(t.events, t.group)
    BY DEF IInv, GroupsAreApart
  <2> HIDE DEF w
  <2> QED
    BY <2>1, <2>2 DEF Held, Disjoint
<1>2. /\ Replace(t, w) /\ ~exited /\ t.group # {}
      /\ UNCHANGED <<starting, collecting, exited>>
  BY DEF WriteString
<1> HIDE DEF w
<1>3. /\ t.group \subseteq InMemory(b)
      /\ \A c \in Backup : InMemory(c)' = IF c = b THEN InMemory(c) \ t.group ELSE InMemory(c)
  BY <1>1, <1>2, BatchLeavesMemory
<1>4. PICK W \in SUBSET t.group :
        /\ lines' = [lines EXCEPT ![b] = [e \in Event |-> IF e \in W THEN @[e] + 1 ELSE @[e]]]
        /\ unwritten' = [unwritten EXCEPT ![b] = @ \cup (t.group \ W)]
  BY DEF WriteString, Leaves
<1>5. /\ \A c \in Backup : c # b => lines'[c] = lines[c]
      /\ \A e \in Event : /\ lines[b][e] \in Nat
                          /\ lines'[b][e] = IF e \in W THEN lines[b][e] + 1 ELSE lines[b][e]
  BY <1>4, <1>t DEF TypeOK
<1>6. \A e \in Event : lines'[b][e] > 0 <=> lines[b][e] > 0 \/ e \in W
  BY <1>5
<1>7. \A c \in Backup : Lines(c)' = IF c = b THEN Lines(c) \cup W ELSE Lines(c)
  BY <1>5, <1>6, <1>t DEF Lines
<1>8. Promise!Write(b, t.group, W)
  BY <1>2, <1>3, <1>4, <1>t, <1>7 DEF Promise!Write
<1> QED
  BY <1>8, <1>t

\* A file that cannot be opened: what the batch has for its host is not written.
LEMMA OpenFailsWrites ==
  ASSUME IInv, NEW t \in batches, NEW h \in Host, OpenFails(t, h)
  PROVE  \E B, W \in SUBSET Event : Promise!Write(t.backup, B, W)
<1>t. TypeOK /\ t \in Batch /\ t.backup \in Backup /\ t.events \subseteq Event
  BY DEF IInv, TypeOK, Batch
<1> DEFINE w == [t EXCEPT !.events = @ \ OfHost(t.events, h)]
           B == OfHost(t.events, h)
           b == t.backup
<1>1. w.backup = b /\ Held(w) \subseteq Held(t) /\ Held(t) \ Held(w) = B /\ B \subseteq Held(t)
  <2>1. /\ w.backup = t.backup /\ w.group = t.group /\ t.group = {}
        /\ w.events = t.events \ OfHost(t.events, h)
    BY <1>t DEF OpenFails, Batch
  <2> HIDE DEF w
  <2> QED
    BY <2>1 DEF Held, OfHost
<1>2. /\ Replace(t, w) /\ ~exited /\ B # {} /\ unwritten' = [unwritten EXCEPT ![b] = @ \cup B]
      /\ UNCHANGED <<starting, collecting, lines, exited>>
  BY DEF OpenFails
<1>3. B \subseteq Event
  BY <1>t DEF OfHost
<1> HIDE DEF w, B
<1>4. /\ B \subseteq InMemory(b)
      /\ \A c \in Backup : InMemory(c)' = IF c = b THEN InMemory(c) \ B ELSE InMemory(c)
  BY <1>1, <1>2, BatchLeavesMemory
<1>5. \A c \in Backup : Lines(c)' = Lines(c)
  BY <1>2 DEF Lines
<1>6. Promise!Write(b, B, {})
  BY <1>2, <1>3, <1>4, <1>5, <1>t DEF Promise!Write
<1> QED
  BY <1>6, <1>3

\* What the batcher and the goroutines do with a batch before it is written, and the
\* end of a goroutine, happen in memory.
LEMMA BatchMoves ==
  ASSUME IInv,
         \/ \E b \in Backup, e \in Event : Submit(b, e)
         \/ \E b \in Backup : Timer(b) \/ FlushClose(b)
         \/ \E t \in batches : CloseFile(t) \/ BatchDone(t) \/ \E h \in Host : OpenFile(t, h)
  PROVE  UNCHANGED Promise!vars
<1>t. TypeOK /\ OneLineEach
  BY DEF IInv
<1>1. UNCHANGED <<lines, unwritten, exited>>
  BY DEF Submit, Timer, FlushClose, CloseFile, BatchDone, OpenFile
<1>2. ASSUME NEW b \in Backup, NEW e \in Event, Submit(b, e)
      PROVE  \A c \in Backup : InMemory(c)' = InMemory(c)
  <2>1. \A c \in Backup : Batched(c)' = Batched(c)
    BY <1>2 DEF Submit, Batched
  <2>2. \A c \in Backup :
          /\ starting'[c] = IF c = b THEN starting[c] \ {e} ELSE starting[c]
          /\ collecting'[c] = IF c = b THEN collecting[c] \cup {e} ELSE collecting[c]
          /\ e \in starting[b]
    BY <1>2, <1>t DEF Submit, TypeOK
  <2> QED
    BY <2>1, <2>2 DEF InMemory, InBatcher
<1>3. ASSUME NEW b \in Backup, Timer(b) \/ FlushClose(b)
      PROVE  \A c \in Backup : InMemory(c)' = InMemory(c)
  <2>1. CloseBatch(b) /\ UNCHANGED starting
    BY <1>3 DEF Timer, FlushClose
  <2>2. \A c \in Backup : /\ Batched(c)' = IF c = b THEN Batched(c) \cup collecting[c] ELSE Batched(c)
                          /\ collecting'[c] = IF c = b THEN {} ELSE collecting[c]
    BY <2>1, <1>t, CloseEffect
  <2> QED
    BY <2>1, <2>2 DEF InMemory, InBatcher
<1>5. ASSUME NEW t \in batches, BatchDone(t)
      PROVE  \A c \in Backup : InMemory(c)' = InMemory(c)
  <2>1. Held(t) = {} /\ batches' = batches \ {t} /\ UNCHANGED <<starting, collecting>>
    BY <1>5 DEF BatchDone, Held
  <2>2. \A c \in Backup : Batched(c)' = Batched(c)
    BY <2>1 DEF Batched
  <2> QED
    BY <2>1, <2>2 DEF InMemory, InBatcher
<1>6. ASSUME NEW t \in batches, CloseFile(t) \/ \E h \in Host : OpenFile(t, h)
      PROVE  \A c \in Backup : InMemory(c)' = InMemory(c)
  <2>t. t \in Batch
    BY <1>t DEF TypeOK
  <2>1. \E u : Replace(t, u) /\ u.backup = t.backup /\ Held(u) = Held(t)
    <3>1. CASE CloseFile(t)
      <4> DEFINE w == [t EXCEPT !.file = "closed"]
      <4>1. w.backup = t.backup /\ Held(w) = Held(t)
        BY <2>t DEF Batch, Held
      <4>2. Replace(t, w)
        BY <3>1 DEF CloseFile
      <4> QED
        BY <4>1, <4>2
    <3>2. ASSUME NEW h \in Host, OpenFile(t, h)
          PROVE  \E u : Replace(t, u) /\ u.backup = t.backup /\ Held(u) = Held(t)
      <4> DEFINE w == [t EXCEPT !.events = @ \ OfHost(t.events, h),
                                !.group = OfHost(t.events, h), !.file = "open"]
      <4>1. /\ w.backup = t.backup /\ w.events = t.events \ OfHost(t.events, h)
            /\ w.group = OfHost(t.events, h) /\ t.group = {} /\ Replace(t, w)
        BY <3>2, <2>t DEF OpenFile, Batch
      <4> HIDE DEF w
      <4>2. Held(w) = Held(t)
        BY <4>1 DEF Held, OfHost
      <4> QED
        BY <4>1, <4>2
    <3> QED
      BY <1>6, <3>1, <3>2
  <2>2. PICK u : Replace(t, u) /\ u.backup = t.backup /\ Held(u) = Held(t)
    BY <2>1
  <2>3. UNCHANGED <<starting, collecting>>
    BY <1>6 DEF CloseFile, OpenFile
  <2>4. \A c \in Backup : InMemory(c)' = IF c = t.backup THEN InMemory(c) \ (Held(t) \ Held(u))
                                                         ELSE InMemory(c)
    BY <2>2, <2>3, BatchLeavesMemory
  <2> QED
    BY <2>2, <2>4
<1>7. \A c \in Backup : InMemory(c)' = InMemory(c)
  BY <1>2, <1>3, <1>5, <1>6
<1> QED
  BY <1>1, <1>7, MovesAreHidden

\* The process ends with what is in memory.
LEMMA ExitDrops ==
  ASSUME IInv, Exit
  PROVE  Promise!Drop
<1>1. /\ ~exited /\ exited' = TRUE
      /\ UNCHANGED <<starting, collecting, batches, lines, unwritten>>
  BY DEF Exit
<1>2. \A b \in Backup : InMemory(b)' = InMemory(b) /\ Lines(b)' = Lines(b)
  BY <1>1 DEF InMemory, InBatcher, Batched, Lines
<1>3. \A b \in Backup : {} \cup InMemory(b) = InMemory(b)
  OBVIOUS
<1> QED
  BY <1>1, <1>2, <1>3 DEF Promise!Drop, Promise!Nothing

\* The batchers, their goroutines and the files do what Backing promises: a saved
\* event is collected once and leaves memory once, written, failed or dropped with
\* the process (backup/service.go, single.go, backup.go).
THEOREM KeepsThePromise == Spec => ImplementsBacking
<1>1. Init => Promise!Init
  BY InitPromise
<1>2. IInv /\ [Next]_vars => [Promise!Next]_(Promise!vars)
  <2> SUFFICES ASSUME IInv, [Next]_vars PROVE Promise!Next \/ UNCHANGED Promise!vars
    OBVIOUS
  <2>1. CASE \E b \in Backup, e \in Event : SaveAsync(b, e)
    BY <2>1, SaveCollects DEF Promise!Next
  <2>2. CASE \/ \E b \in Backup, e \in Event : Submit(b, e)
             \/ \E b \in Backup : Timer(b) \/ FlushClose(b)
             \/ \E t \in batches : CloseFile(t) \/ BatchDone(t) \/ \E h \in Host : OpenFile(t, h)
    BY <2>2, BatchMoves
  <2>3. ASSUME NEW t \in batches, WriteString(t) \/ \E h \in Host : OpenFails(t, h)
        PROVE  Promise!Next
    <3>1. t.backup \in Backup
      BY DEF IInv, TypeOK, Batch
    <3>2. \E B, W \in SUBSET Event : Promise!Write(t.backup, B, W)
      BY <2>3, WriteStringWrites, OpenFailsWrites
    <3> QED
      BY <3>1, <3>2 DEF Promise!Next
  <2>4. CASE Exit
    BY <2>4, ExitDrops DEF Promise!Next
  <2>5. CASE UNCHANGED vars
    <3>1. \A b \in Backup : InMemory(b)' = InMemory(b)
      BY <2>5 DEF vars, InMemory, InBatcher, Batched
    <3>2. UNCHANGED <<lines, unwritten, exited>>
      BY <2>5 DEF vars
    <3> QED
      BY <3>1, <3>2, MovesAreHidden
  <2> QED
    BY <2>1, <2>2, <2>3, <2>4, <2>5 DEF Next, Work, Flush, Stopped
<1> QED
  BY <1>1, <1>2, Inductive, PTL DEF Spec, ImplementsBacking, Promise!Spec
=============================================================================
