---------------------------- MODULE Texts_proofs ----------------------------
(***************************************************************************)
(* Proofs about the daily archive, for any hosts, lines, number of hours,  *)
(* hour of the job and faults, and about the decompression of beacons, for *)
(* any numbers, tokens and characters.                                     *)
(*                                                                         *)
(* Both put sequences together piece by piece and find the pieces again:   *)
(* hour files in a day file, tokens in a log.  The modules do it by        *)
(* FlattenSeq and other recursive functions; what these compute is proved  *)
(* here by induction from the fact that the order of the natural numbers   *)
(* is well-founded.                                                        *)
(***************************************************************************)
EXTENDS Archive, Decompress, SequenceTheorems, WellFoundedInduction, TLAPS

(***************************************************************************)
(* Induction, and what FlattenSeq computes.                                *)
(***************************************************************************)
\* A set of naturals with zero and every successor is all of them: otherwise the
\* least number outside it would have a predecessor outside it.
LEMMA NaturalsByInduction ==
  ASSUME NEW T \in SUBSET Nat, 0 \in T, \A n \in T : n + 1 \in T
  PROVE  T = Nat
<1> SUFFICES ASSUME Nat \ T # {} PROVE FALSE
  OBVIOUS
<1> DEFINE R == OpToRel(<, Nat)
<1>1. IsWellFoundedOn(R, Nat)
  BY NatLessThanWellFounded
<1>2. PICK x \in Nat \ T : \A y \in Nat \ T : <<y, x>> \notin R
  <2> HIDE DEF R
  <2> QED
    BY <1>1, WFMin
<1>3. x - 1 \in Nat /\ x - 1 < x
  OBVIOUS
<1>4. <<x - 1, x>> \in R
  BY <1>3 DEF OpToRel
<1>5. x - 1 \in T
  BY <1>2, <1>3, <1>4
<1> QED
  BY <1>3, <1>5

\* The function by which FlattenSeq is defined, for the first n members of s.
Flattens(g, s, n) == g = [i \in 1..n |-> IF i = 1 THEN s[i] ELSE g[i - 1] \o s[i]]

\* Its first value, and every next one.
Joins(g, s, n) == /\ n # 0 => g[1] = s[1]
                  /\ \A i \in Nat \ {0} : i < n => g[i + 1] = g[i] \o s[i + 1]

LEMMA FlatteningJoins ==
  ASSUME NEW s, NEW n \in Nat, NEW g, Flattens(g, s, n)
  PROVE  Joins(g, s, n)
<1>1. n # 0 => g[1] = s[1]
  BY DEF Flattens
<1>2. ASSUME NEW i \in Nat \ {0}, i < n PROVE g[i + 1] = g[i] \o s[i + 1]
  <2>1. i + 1 \in 1..n /\ i + 1 # 1 /\ (i + 1) - 1 = i
    BY <1>2
  <2>2. g[i + 1] = g[(i + 1) - 1] \o s[i + 1]
    BY <2>1 DEF Flattens
  <2> QED
    BY <2>1, <2>2
<1> QED
  BY <1>1, <1>2 DEF Joins

\* The recursion defines a function on any number of members.
LEMMA FlatteningExists ==
  ASSUME NEW s, NEW n \in Nat
  PROVE  \E g : Flattens(g, s, n)
<1> DEFINE T == {m \in Nat : \E g : Flattens(g, s, m)}
<1>1. 0 \in T
  <2>1. Flattens([i \in 1..0 |-> s[i]], s, 0)
    BY DEF Flattens
  <2> QED
    BY <2>1
<1>2. ASSUME NEW m \in T PROVE m + 1 \in T
  <2>1. PICK g : Flattens(g, s, m)
    OBVIOUS
  <2>2. m \in Nat
    OBVIOUS
  <2> DEFINE e == IF m = 0 THEN s[1] ELSE g[m] \o s[m + 1]
             f == [i \in 1..(m + 1) |-> IF i = m + 1 THEN e ELSE g[i]]
  <2> HIDE DEF T, e
  <2>3. f[m + 1] = e /\ \A i \in 1..m : f[i] = g[i]
    BY <2>2
  <2>4. f = [i \in 1..(m + 1) |-> f[i]]
    BY <2>2
  <2> HIDE DEF f
  <2>5. ASSUME NEW i \in 1..(m + 1)
        PROVE  f[i] = IF i = 1 THEN s[i] ELSE f[i - 1] \o s[i]
    <3>1. CASE i = m + 1 /\ m = 0
      BY <3>1, <2>3 DEF e
    <3>2. CASE i = m + 1 /\ m # 0
      <4>1. m \in 1..m /\ i - 1 = m /\ i # 1
        BY <3>2, <2>2
      <4>2. f[i - 1] = g[m] /\ f[i] = g[m] \o s[m + 1]
        BY <4>1, <3>2, <2>3 DEF e
      <4> QED
        BY <4>1, <4>2, <3>2
    <3>3. CASE i # m + 1
      <4>1. i \in 1..m /\ (i # 1 => i - 1 \in 1..m)
        BY <3>3, <2>2
      <4>2. g[i] = IF i = 1 THEN s[i] ELSE g[i - 1] \o s[i]
        BY <4>1, <2>1 DEF Flattens
      <4> QED
        BY <4>1, <4>2, <2>3
    <3> QED
      BY <3>1, <3>2, <3>3
  <2>6. Flattens(f, s, m + 1)
    BY <2>4, <2>5 DEF Flattens
  <2> QED
    BY <2>2, <2>6 DEF T
<1>3. T \in SUBSET Nat
  OBVIOUS
<1>4. T = Nat
  <2> HIDE DEF T
  <2> QED
    BY <1>1, <1>2, <1>3, NaturalsByInduction
<1> QED
  BY <1>4

\* Two such functions agree where their sequences do.
Agree(s, t, n) == \A i \in 1..n : s[i] = t[i]

LEMMA FlatteningUnique ==
  ASSUME NEW n \in Nat, NEW m \in Nat, n <= m, NEW s, NEW t, Agree(s, t, n),
         NEW g, Joins(g, s, n), NEW h, Joins(h, t, m)
  PROVE  Agree(g, h, n)
<1> DEFINE T == {i \in Nat : i \in 1..n => g[i] = h[i]}
<1>1. 0 \in T
  OBVIOUS
<1>2. ASSUME NEW i \in T PROVE i + 1 \in T
  <2> SUFFICES ASSUME i + 1 \in 1..n PROVE g[i + 1] = h[i + 1]
    OBVIOUS
  <2>0. i \in Nat /\ i < n /\ n # 0 /\ i < m /\ m # 0
    OBVIOUS
  <2>1. CASE i = 0
    <3>1. g[1] = s[1] /\ h[1] = t[1]
      BY <2>0 DEF Joins
    <3> QED
      BY <3>1, <2>1, <2>0 DEF Agree
  <2>2. CASE i # 0
    <3>1. g[i + 1] = g[i] \o s[i + 1] /\ h[i + 1] = h[i] \o t[i + 1]
      BY <2>0, <2>2 DEF Joins
    <3>2. g[i] = h[i] /\ s[i + 1] = t[i + 1]
      BY <2>2 DEF Agree
    <3> QED
      BY <3>1, <3>2
  <2> QED
    BY <2>1, <2>2
<1>3. T \in SUBSET Nat
  OBVIOUS
<1>4. T = Nat
  <2> HIDE DEF T
  <2> QED
    BY <1>1, <1>2, <1>3, NaturalsByInduction
<1> QED
  BY <1>4 DEF Agree

\* Its values are sequences over S when the members are.
LEMMA FlatteningTyped ==
  ASSUME NEW S, NEW n \in Nat, NEW s, \A i \in 1..n : s[i] \in Seq(S), NEW g, Joins(g, s, n)
  PROVE  \A i \in 1..n : g[i] \in Seq(S)
<1> DEFINE T == {i \in Nat : i \in 1..n => g[i] \in Seq(S)}
<1>1. 0 \in T
  OBVIOUS
<1>2. ASSUME NEW i \in T PROVE i + 1 \in T
  <2> SUFFICES ASSUME i + 1 \in 1..n PROVE g[i + 1] \in Seq(S)
    OBVIOUS
  <2>0. i \in Nat /\ i < n /\ n # 0
    OBVIOUS
  <2>1. CASE i = 0
    <3>1. g[1] = s[1]
      BY <2>0 DEF Joins
    <3> QED
      BY <3>1, <2>1
  <2>2. CASE i # 0
    <3>1. g[i + 1] = g[i] \o s[i + 1]
      BY <2>0, <2>2 DEF Joins
    <3>2. g[i] \in Seq(S) /\ s[i + 1] \in Seq(S)
      BY <2>2
    <3> QED
      BY <3>1, <3>2, ConcatProperties
  <2> QED
    BY <2>1, <2>2
<1>3. T \in SUBSET Nat
  OBVIOUS
<1>4. T = Nat
  <2> HIDE DEF T
  <2> QED
    BY <1>1, <1>2, <1>3, NaturalsByInduction
<1> QED
  BY <1>4

\* FlattenSeq is the last value of that function.
LEMMA FlattenSeqValue ==
  ASSUME NEW S, NEW n \in Nat \ {0}, NEW s \in [1..n -> S]
  PROVE  \E g : Joins(g, s, n) /\ FlattenSeq(s) = g[n]
<1>1. Len(s) = n
  OBVIOUS
<1>2. FlattenSeq(s) = (CHOOSE g : Flattens(g, s, n))[n]
  BY <1>1 DEF FlattenSeq, Flattens
<1>3. Flattens(CHOOSE g : Flattens(g, s, n), s, n)
  BY FlatteningExists
<1>4. Joins(CHOOSE g : Flattens(g, s, n), s, n)
  BY <1>3, FlatteningJoins
<1> QED
  BY <1>2, <1>4

\* One more member is concatenated at the end.
LEMMA FlattenSeqStep ==
  ASSUME NEW S, NEW n \in Nat, NEW s \in [1..n -> Seq(S)], NEW t \in [1..(n + 1) -> Seq(S)],
         \A i \in 1..n : s[i] = t[i]
  PROVE  /\ FlattenSeq(s) \in Seq(S)
         /\ FlattenSeq(t) = FlattenSeq(s) \o t[n + 1]
<1>1. PICK h : Joins(h, t, n + 1) /\ FlattenSeq(t) = h[n + 1]
  <2>1. n + 1 \in Nat \ {0}
    OBVIOUS
  <2> QED
    BY <2>1, FlattenSeqValue
<1>2. CASE n = 0
  <2>1. s = <<>> /\ FlattenSeq(s) = <<>>
    BY <1>2 DEF FlattenSeq
  <2>2. FlattenSeq(t) = t[n + 1] /\ t[n + 1] \in Seq(S)
    BY <1>1, <1>2 DEF Joins
  <2> QED
    BY <2>1, <2>2, ConcatEmptySeq, EmptySeq
<1>3. CASE n # 0
  <2>1. PICK g : Joins(g, s, n) /\ FlattenSeq(s) = g[n]
    <3>1. n \in Nat \ {0}
      BY <1>3
    <3> QED
      BY <3>1, FlattenSeqValue
  <2>2. g[n] = h[n]
    <3>1. n + 1 \in Nat /\ n <= n + 1
      OBVIOUS
    <3>2. Agree(s, t, n)
      BY DEF Agree
    <3>3. Agree(g, h, n)
      BY <1>1, <2>1, <3>1, <3>2, FlatteningUnique
    <3> QED
      BY <1>3, <3>3 DEF Agree
  <2>3. g[n] \in Seq(S)
    <3>1. \A i \in 1..n : s[i] \in Seq(S)
      OBVIOUS
    <3>2. \A i \in 1..n : g[i] \in Seq(S)
      BY <2>1, <3>1, FlatteningTyped
    <3> QED
      BY <1>3, <3>2
  <2>4. h[n + 1] = h[n] \o t[n + 1]
    <3>1. n \in Nat \ {0} /\ n < n + 1
      BY <1>3
    <3> QED
      BY <1>1, <3>1 DEF Joins
  <2> QED
    BY <1>1, <2>1, <2>2, <2>3, <2>4
<1> QED
  BY <1>2, <1>3

(***************************************************************************)
(* What the loop of collectHours reads and makes.                          *)
(***************************************************************************)
\* Each turn reads a file of the day, and the turns reach every file, each once; from
\* midnight on, the turn is the hour.
LEMMA FileReadIsABijection ==
  ASSUME runHour \in HourOfDay
  PROVE  /\ \A i \in Nat : FileRead(i) \in HourOfDay
         /\ \A h \in HourOfDay : \E i \in HourOfDay : FileRead(i) = h
         /\ \A i, j \in HourOfDay : FileRead(i) = FileRead(j) => i = j
         /\ runHour = 0 => \A i \in HourOfDay : FileRead(i) = i
<1>1. Hours \in Nat \ {0} /\ runHour \in 0..(Hours - 1)
  BY ArchiveAssumption DEF HourOfDay
<1>2. \A i \in Nat : FileRead(i) \in HourOfDay
  BY <1>1 DEF FileRead, HourOfDay
<1>3. ASSUME NEW h \in HourOfDay PROVE \E i \in HourOfDay : FileRead(i) = h
  <2>1. h \in 0..(Hours - 1)
    BY DEF HourOfDay
  <2>2. CASE h >= runHour
    <3>1. h - runHour \in HourOfDay /\ runHour + (h - runHour) = h /\ h % Hours = h
      BY <1>1, <2>1, <2>2 DEF HourOfDay
    <3> QED
      BY <3>1 DEF FileRead
  <2>3. CASE h < runHour
    <3>1. h - runHour + Hours \in HourOfDay /\ runHour + (h - runHour + Hours) = h + Hours
      BY <1>1, <2>1, <2>3 DEF HourOfDay
    <3>2. (h + Hours) % Hours = h
      BY <1>1, <2>1
    <3> QED
      BY <3>1, <3>2 DEF FileRead
  <2> QED
    BY <1>1, <2>1, <2>2, <2>3
<1>4. \A i \in HourOfDay :
        FileRead(i) = IF runHour + i < Hours THEN runHour + i ELSE runHour + i - Hours
  <2> TAKE i \in HourOfDay
  <2>1. i \in 0..(Hours - 1)
    BY DEF HourOfDay
  <2>2. runHour + i < Hours => (runHour + i) % Hours = runHour + i
    BY <1>1, <2>1
  <2>3. runHour + i >= Hours => (runHour + i) % Hours = runHour + i - Hours
    BY <1>1, <2>1
  <2> QED
    BY <1>1, <2>1, <2>2, <2>3 DEF FileRead
<1>5. \A i, j \in HourOfDay : FileRead(i) = FileRead(j) => i = j
  BY <1>1, <1>4 DEF HourOfDay
<1>6. runHour = 0 => \A i \in HourOfDay : FileRead(i) = i
  BY <1>1, <1>4 DEF HourOfDay
<1> QED
  BY <1>2, <1>3, <1>5, <1>6

DayFiles == [HourOfDay -> Seq(Line)]

\* What a turn adds to the day file.
LEMMA LinesBeforeStep ==
  ASSUME runHour \in HourOfDay, NEW files \in DayFiles, NEW i \in Nat
  PROVE  /\ LinesBefore(files, i) \in Seq(Line)
         /\ files[FileRead(i)] \in Seq(Line)
         /\ LinesBefore(files, i + 1) = LinesBefore(files, i) \o files[FileRead(i)]
<1> DEFINE s == [j \in 1..i |-> files[FileRead(j - 1)]]
           t == [j \in 1..(i + 1) |-> files[FileRead(j - 1)]]
<1>1. \A j \in 1..(i + 1) : files[FileRead(j - 1)] \in Seq(Line)
  <2> TAKE j \in 1..(i + 1)
  <2>1. j - 1 \in Nat
    OBVIOUS
  <2>2. FileRead(j - 1) \in HourOfDay
    BY <2>1, FileReadIsABijection
  <2> QED
    BY <2>2 DEF DayFiles
<1>2. s \in [1..i -> Seq(Line)] /\ t \in [1..(i + 1) -> Seq(Line)]
  BY <1>1
<1>3. \A j \in 1..i : s[j] = t[j]
  OBVIOUS
<1>4. t[i + 1] = files[FileRead(i)] /\ t[i + 1] \in Seq(Line)
  <2>1. i + 1 \in 1..(i + 1) /\ (i + 1) - 1 = i
    OBVIOUS
  <2> QED
    BY <1>1, <2>1
<1>5. LinesBefore(files, i) = FlattenSeq(s) /\ LinesBefore(files, i + 1) = FlattenSeq(t)
  BY DEF LinesBefore
<1> HIDE DEF s, t
<1> QED
  BY <1>2, <1>3, <1>4, <1>5, FlattenSeqStep

\* The members of a concatenation.
LEMMA ToSetOfConcat ==
  ASSUME NEW S, NEW s \in Seq(S), NEW t \in Seq(S)
  PROVE  ToSet(s \o t) = ToSet(s) \cup ToSet(t)
<1>1. Range(s \o t) = Range(s) \cup Range(t)
  BY RangeConcatenation
<1> QED
  BY <1>1 DEF ToSet, Range

\* The day file holds every line of every hour file.
LEMMA DayHoldsEveryLine ==
  ASSUME runHour \in HourOfDay, NEW files \in DayFiles, NEW h \in HourOfDay
  PROVE  /\ DayContent(files) \in Seq(Line)
         /\ ToSet(files[h]) \subseteq ToSet(DayContent(files))
<1> DEFINE Read(i) == \A j \in Nat :
             j < i => ToSet(files[FileRead(j)]) \subseteq ToSet(LinesBefore(files, i))
           T == {i \in Nat : Read(i)}
<1>1. 0 \in T
  OBVIOUS
<1>2. ASSUME NEW i \in T PROVE i + 1 \in T
  <2>1. i \in Nat /\ Read(i)
    OBVIOUS
  <2>2. ToSet(LinesBefore(files, i + 1)) =
          ToSet(LinesBefore(files, i)) \cup ToSet(files[FileRead(i)])
    <3> DEFINE L == LinesBefore(files, i)
               f == files[FileRead(i)]
    <3>1. L \in Seq(Line) /\ f \in Seq(Line) /\ LinesBefore(files, i + 1) = L \o f
      BY <2>1, LinesBeforeStep
    <3> HIDE DEF L, f
    <3>2. ToSet(L \o f) = ToSet(L) \cup ToSet(f)
      BY <3>1, ToSetOfConcat
    <3> QED
      BY <3>1, <3>2 DEF L, f
  <2>3. ASSUME NEW j \in Nat, j < i + 1
        PROVE  ToSet(files[FileRead(j)]) \subseteq ToSet(LinesBefore(files, i + 1))
    <3>1. CASE j = i
      BY <3>1, <2>2
    <3>2. CASE j # i
      <4>1. j < i
        BY <3>2, <2>1, <2>3
      <4>2. ToSet(files[FileRead(j)]) \subseteq ToSet(LinesBefore(files, i))
        BY <4>1, <2>1
      <4> QED
        BY <4>2, <2>2
    <3> QED
      BY <3>1, <3>2
  <2> QED
    BY <2>1, <2>3
<1>3. T \in SUBSET Nat
  OBVIOUS
<1>4. T = Nat
  <2> HIDE DEF T
  <2> QED
    BY <1>1, <1>2, <1>3, NaturalsByInduction
<1>5. Hours \in Nat /\ Read(Hours)
  BY <1>4, ArchiveAssumption
<1>6. PICK i \in HourOfDay : FileRead(i) = h
  BY FileReadIsABijection
<1>7. i \in Nat /\ i < Hours
  BY ArchiveAssumption DEF HourOfDay
<1>8. ToSet(files[FileRead(i)]) \subseteq ToSet(LinesBefore(files, Hours))
  BY <1>5, <1>7
<1> QED
  BY <1>5, <1>6, <1>8, LinesBeforeStep DEF DayContent

\* What a turn adds to the summary.
LEMMA SummaryBeforeStep ==
  ASSUME runHour \in HourOfDay, NEW files \in DayFiles, NEW i \in Nat
  PROVE  /\ SummaryBefore(files, i) \in Seq(Part)
         /\ PartOf(files, i) \in Seq(Part)
         /\ SummaryBefore(files, i + 1) = SummaryBefore(files, i) \o PartOf(files, i)
<1> DEFINE s == [j \in 1..i |-> PartOf(files, j - 1)]
           t == [j \in 1..(i + 1) |-> PartOf(files, j - 1)]
<1>1. ASSUME NEW n \in Nat PROVE PartOf(files, n) \in Seq(Part)
  <2>1. LinesBefore(files, n) \in Seq(Line) /\ LinesBefore(files, n + 1) \in Seq(Line)
    BY LinesBeforeStep
  <2>2. Len(LinesBefore(files, n)) \in Nat /\ Len(LinesBefore(files, n + 1)) \in Nat
    BY <2>1, LenProperties
  <2> DEFINE p == [hour |-> n, first |-> Len(LinesBefore(files, n)) + 1,
                   last |-> Len(LinesBefore(files, n + 1))]
  <2>3. p \in Part
    BY <2>2 DEF Part
  <2>4. PartOf(files, n) = IF files[FileRead(n)] = <<>> THEN <<>> ELSE <<p>>
    BY DEF PartOf
  <2> HIDE DEF p
  <2> QED
    BY <2>3, <2>4
<1>2. s \in [1..i -> Seq(Part)] /\ t \in [1..(i + 1) -> Seq(Part)]
  BY <1>1
<1>3. \A j \in 1..i : s[j] = t[j]
  OBVIOUS
<1>4. t[i + 1] = PartOf(files, i)
  <2>1. i + 1 \in 1..(i + 1) /\ (i + 1) - 1 = i
    OBVIOUS
  <2> QED
    BY <2>1
<1>5. SummaryBefore(files, i) = FlattenSeq(s) /\ SummaryBefore(files, i + 1) = FlattenSeq(t)
  BY DEF SummaryBefore
<1> HIDE DEF s, t
<1> QED
  BY <1>1, <1>2, <1>3, <1>4, <1>5, FlattenSeqStep

\* A part names the turn that read its file, and the turns follow one another.
OfTurns(m, day, files) ==
  \A k \in 1..Len(m) :
    /\ SubSeq(day, m[k].first, m[k].last) = files[FileRead(m[k].hour)]
    /\ files[FileRead(m[k].hour)] # <<>>
    /\ \A j \in 1..(k - 1) : m[j].hour < m[k].hour

\* So far, the parts cut what was read so far, and are of the turns so far: one for
\* each turn that read lines.
CutSoFar(m, day, files, i) ==
  /\ Pieces(m, day) /\ OfTurns(m, day, files)
  /\ \A k \in 1..Len(m) : m[k].last <= Len(day) /\ m[k].hour < i
  /\ \A j \in Nat : j < i /\ files[FileRead(j)] # <<>> =>
       \E k \in 1..Len(m) : m[k].hour = j

\* A turn that reads lines adds one part, which is these lines.
LEMMA CutStep ==
  ASSUME NEW files, NEW i \in Nat, NEW day \in Seq(Line), NEW m \in Seq(Part),
         CutSoFar(m, day, files, i),
         NEW f \in Seq(Line), f # <<>>, f = files[FileRead(i)]
  PROVE  CutSoFar(Append(m, [hour |-> i, first |-> Len(day) + 1, last |-> Len(day \o f)]),
                  day \o f, files, i + 1)
<1> DEFINE p == [hour |-> i, first |-> Len(day) + 1, last |-> Len(day \o f)]
           n == Append(m, p)
           both == day \o f
<1>1. /\ Len(day) \in Nat /\ Len(f) \in Nat \ {0} /\ Len(m) \in Nat
      /\ both \in Seq(Line) /\ Len(both) = Len(day) + Len(f)
  BY LenProperties, EmptySeq, ConcatProperties
<1>2. p \in Part /\ p.hour = i /\ p.first = Len(day) + 1 /\ p.last = Len(both)
  BY <1>1 DEF Part
<1>3. /\ Len(n) = Len(m) + 1 /\ n[Len(m) + 1] = p
      /\ \A k \in 1..Len(m) : n[k] = m[k] /\ m[k] \in Part
  <2> HIDE DEF p
  <2> QED
    BY <1>2, AppendProperties, ElementOfSeq
<1>4. SubSeq(both, Len(day) + 1, Len(both)) = f
  <2>1. /\ Len(day) + 1 \in Len(day)+1 .. Len(day)+Len(f)
        /\ Len(both) \in Len(day)+1 .. Len(day)+Len(f)
    BY <1>1
  <2>2. SubSeq(day \o f, Len(day) + 1, Len(both)) =
          SubSeq(f, (Len(day) + 1) - Len(day), Len(both) - Len(day))
    BY <2>1, SubSeqOfConcat2
  <2>3. (Len(day) + 1) - Len(day) = 1 /\ Len(both) - Len(day) = Len(f)
    BY <1>1
  <2> QED
    BY <2>2, <2>3, SubSeqFull
<1> HIDE DEF p, n, both
<1>5. \A k \in 1..(Len(m) + 1) : FirstLine(n, k) = FirstLine(m, k)
  <2> TAKE k \in 1..(Len(m) + 1)
  <2>1. k # 1 => k - 1 \in 1..Len(m)
    BY <1>1
  <2> QED
    BY <1>3, <2>1 DEF FirstLine
<1>6. FirstLine(n, Len(n) + 1) = Len(both) + 1
  <2>1. Len(n) + 1 # 1 /\ (Len(n) + 1) - 1 = Len(m) + 1
    BY <1>1, <1>3
  <2> QED
    BY <1>2, <1>3, <2>1 DEF FirstLine
<1>7. ASSUME NEW k \in 1..Len(m)
      PROVE  /\ n[k].first = FirstLine(n, k) /\ n[k].first <= n[k].last
             /\ SubSeq(both, n[k].first, n[k].last) = files[FileRead(n[k].hour)]
             /\ files[FileRead(n[k].hour)] # <<>>
             /\ \A j \in 1..(k - 1) : n[j].hour < n[k].hour
             /\ n[k].last <= Len(both) /\ n[k].hour < i + 1
  <2>0. /\ SubSeq(day, m[k].first, m[k].last) = files[FileRead(m[k].hour)]
        /\ files[FileRead(m[k].hour)] # <<>>
        /\ \A j \in 1..(k - 1) : m[j].hour < m[k].hour
    BY DEF CutSoFar, OfTurns
  <2>1. /\ m[k].first = FirstLine(m, k) /\ m[k].first <= m[k].last /\ m[k].last <= Len(day)
        /\ m[k].hour < i
    BY DEF CutSoFar, Pieces
  <2>2. m[k].first \in Nat /\ m[k].last \in Nat /\ m[k].hour \in Nat
    BY <1>3 DEF Part
  <2>3. FirstLine(m, k) >= 1
    <3>1. k # 1 => k - 1 \in 1..Len(m)
      BY <1>1
    <3>2. k # 1 => m[k - 1].last \in Nat
      BY <3>1, <1>3 DEF Part
    <3> QED
      BY <3>2 DEF FirstLine
  <2>4. m[k].first \in 1..Len(day) /\ m[k].last \in 1..Len(day)
    BY <1>1, <2>1, <2>2, <2>3
  <2>5. SubSeq(both, m[k].first, m[k].last) = SubSeq(day, m[k].first, m[k].last)
    BY <2>4, SubSeqOfConcat1 DEF both
  <2>6. k \in 1..(Len(m) + 1) /\ 1..(k - 1) \subseteq 1..Len(m)
    BY <1>1
  <2>7. n[k] = m[k] /\ \A j \in 1..(k - 1) : n[j] = m[j]
    BY <1>3, <2>6
  <2>8. FirstLine(n, k) = FirstLine(m, k)
    BY <1>5, <2>6
  <2>9. m[k].last <= Len(both) /\ m[k].hour < i + 1
    BY <1>1, <2>1, <2>2
  <2> QED
    BY <2>0, <2>1, <2>5, <2>7, <2>8, <2>9
<1>8. LET k == Len(m) + 1
      IN  /\ n[k].first = FirstLine(n, k) /\ n[k].first <= n[k].last
          /\ SubSeq(both, n[k].first, n[k].last) = files[FileRead(n[k].hour)]
          /\ files[FileRead(n[k].hour)] # <<>>
          /\ \A j \in 1..(k - 1) : n[j].hour < n[k].hour
          /\ n[k].last <= Len(both) /\ n[k].hour < i + 1
  <2>1. FirstLine(n, Len(m) + 1) = Len(day) + 1
    <3>1. FirstLine(m, Len(m) + 1) = Len(day) + 1
      BY DEF CutSoFar, Pieces
    <3>2. Len(m) + 1 \in 1..(Len(m) + 1)
      BY <1>1
    <3> QED
      BY <3>1, <3>2, <1>5
  <2>2. \A j \in 1..Len(m) : n[j].hour < i
    BY <1>3 DEF CutSoFar
  <2>3. /\ (Len(m) + 1) - 1 = Len(m) /\ i < i + 1
        /\ Len(day) + 1 <= Len(both) /\ Len(both) <= Len(both)
    BY <1>1
  <2> QED
    BY <1>2, <1>3, <1>4, <2>1, <2>2, <2>3
<1>9. \A k \in 1..Len(n) : k \in 1..Len(m) \/ k = Len(m) + 1
  BY <1>1, <1>3
<1>10. ASSUME NEW j \in Nat, j < i + 1, files[FileRead(j)] # <<>>
       PROVE  \E k \in 1..Len(n) : n[k].hour = j
  <2>1. CASE j = i
    <3>1. Len(n) \in 1..Len(n)
      BY <1>1, <1>3
    <3> QED
      BY <1>2, <1>3, <2>1, <3>1
  <2>2. CASE j # i
    <3>1. j < i
      BY <1>10, <2>2
    <3>2. PICK k \in 1..Len(m) : m[k].hour = j
      BY <1>10, <3>1 DEF CutSoFar
    <3>3. k \in 1..Len(n) /\ n[k] = m[k]
      BY <1>1, <1>3
    <3> QED
      BY <3>2, <3>3
  <2> QED
    BY <2>1, <2>2
<1>11. CutSoFar(n, both, files, i + 1)
  BY <1>6, <1>7, <1>8, <1>9, <1>10 DEF CutSoFar, Pieces, OfTurns
<1> QED
  BY <1>11 DEF n, p, both

\* The summary of the turns so far cuts the lines of the turns so far.
LEMMA SummaryCuts ==
  ASSUME runHour \in HourOfDay, NEW files \in DayFiles, NEW i \in Nat
  PROVE  CutSoFar(SummaryBefore(files, i), LinesBefore(files, i), files, i)
<1> DEFINE C(n) == CutSoFar(SummaryBefore(files, n), LinesBefore(files, n), files, n)
           T == {n \in Nat : C(n)}
<1>1. 0 \in T
  <2>1. SummaryBefore(files, 0) = <<>> /\ LinesBefore(files, 0) = <<>>
    BY DEF SummaryBefore, LinesBefore, FlattenSeq
  <2>2. Len(<<>>) = 0 /\ FirstLine(<<>>, 1) = 1 /\ 1..0 = {}
    BY DEF FirstLine
  <2>3. CutSoFar(<<>>, <<>>, files, 0)
    BY <2>2 DEF CutSoFar, Pieces, OfTurns
  <2> QED
    BY <2>1, <2>3
<1>2. ASSUME NEW n \in T PROVE n + 1 \in T
  <2>1. n \in Nat /\ C(n)
    OBVIOUS
  <2> HIDE DEF T
  <2> DEFINE day == LinesBefore(files, n)
             m == SummaryBefore(files, n)
             f == files[FileRead(n)]
  <2>2. day \in Seq(Line) /\ f \in Seq(Line) /\ LinesBefore(files, n + 1) = day \o f
    BY <2>1, LinesBeforeStep
  <2>3. m \in Seq(Part) /\ SummaryBefore(files, n + 1) = m \o PartOf(files, n)
    BY <2>1, SummaryBeforeStep
  <2>4. CutSoFar(m, day, files, n)
    BY <2>1
  <2>5. PartOf(files, n) = IF f = <<>> THEN <<>>
          ELSE << [hour |-> n, first |-> Len(day) + 1, last |-> Len(day \o f)] >>
    BY <2>2 DEF PartOf
  <2>6. f = files[FileRead(n)]
    OBVIOUS
  <2> HIDE DEF day, m, f
  <2>7. CASE f = <<>>
    <3>1. LinesBefore(files, n + 1) = day /\ SummaryBefore(files, n + 1) = m
      BY <2>2, <2>3, <2>5, <2>7, ConcatEmptySeq
    <3>2. CutSoFar(m, day, files, n + 1)
      <4>1. ASSUME NEW k \in 1..Len(m) PROVE m[k].hour \in Nat /\ m[k].hour < n
        <5>1. m[k] \in Part
          BY <2>3, ElementOfSeq
        <5> QED
          BY <2>4, <5>1 DEF CutSoFar, Part
      <4>2. \A k \in 1..Len(m) : m[k].hour < n + 1
        BY <4>1, <2>1
      <4>3. ASSUME NEW j \in Nat, j < n + 1, files[FileRead(j)] # <<>> PROVE j < n
        <5>1. j # n
          BY <2>6, <2>7, <4>3
        <5> QED
          BY <2>1, <4>3, <5>1
      <4> QED
        BY <2>4, <4>2, <4>3 DEF CutSoFar
    <3> QED
      BY <2>1, <3>1, <3>2 DEF T
  <2>8. CASE f # <<>>
    <3> DEFINE p == [hour |-> n, first |-> Len(day) + 1, last |-> Len(day \o f)]
    <3>1. CutSoFar(Append(m, p), day \o f, files, n + 1)
      BY <2>1, <2>2, <2>3, <2>4, <2>6, <2>8, CutStep
    <3>2. SummaryBefore(files, n + 1) = m \o <<p>>
      BY <2>3, <2>5, <2>8
    <3>3. p \in Part
      <4>1. Len(day) \in Nat /\ Len(f) \in Nat /\ Len(day \o f) = Len(day) + Len(f)
        BY <2>2, LenProperties, ConcatProperties
      <4> QED
        BY <2>1, <4>1 DEF Part
    <3> HIDE DEF p
    <3>4. m \o <<p>> = Append(m, p)
      BY <2>3, <3>3, AppendIsConcat
    <3>5. CutSoFar(SummaryBefore(files, n + 1), LinesBefore(files, n + 1), files, n + 1)
      BY <2>2, <3>1, <3>2, <3>4
    <3>6. n + 1 \in Nat
      BY <2>1
    <3> QED
      BY <3>5, <3>6 DEF T
  <2> QED
    BY <2>7, <2>8
<1>3. T \in SUBSET Nat
  OBVIOUS
<1>4. T = Nat
  <2> HIDE DEF T
  <2> QED
    BY <1>1, <1>2, <1>3, NaturalsByInduction
<1> QED
  BY <1>4

\* What the job makes of any hour files: a summary that cuts the day file.
LEMMA SummaryCutsTheDay ==
  ASSUME runHour \in HourOfDay, NEW files \in DayFiles
  PROVE  /\ DayContent(files) \in Seq(Line) /\ Summary(files) \in Seq(Part)
         /\ CutInto(Summary(files), DayContent(files), files)
<1> DEFINE m == Summary(files)
           day == DayContent(files)
           used == FilesInUse(files)
           file == [k \in 1..Len(m) |-> FileRead(m[k].hour)]
<1>1. Hours \in Nat
  BY ArchiveAssumption
<1>2. day \in Seq(Line) /\ m \in Seq(Part) /\ CutSoFar(m, day, files, Hours)
  BY <1>1, SummaryCuts, LinesBeforeStep, SummaryBeforeStep DEF DayContent, Summary
<1>3. \A k \in 1..Len(m) : m[k].hour \in HourOfDay
  <2> TAKE k \in 1..Len(m)
  <2>1. m[k] \in Part
    BY <1>2, ElementOfSeq
  <2>2. m[k].hour \in Nat /\ m[k].hour < Hours
    BY <1>2, <2>1 DEF CutSoFar, Part
  <2> QED
    BY <1>1, <2>2 DEF HourOfDay
<1>4. Len(m) \in Nat
  BY <1>2, LenProperties
<1> HIDE DEF m, day
<1>5. file \in [1..Len(m) -> used]
  <2>1. ASSUME NEW k \in 1..Len(m) PROVE FileRead(m[k].hour) \in used
    <3>1. m[k].hour \in Nat
      BY <1>1, <1>3 DEF HourOfDay
    <3>2. FileRead(m[k].hour) \in HourOfDay
      BY <3>1, FileReadIsABijection
    <3>3. files[FileRead(m[k].hour)] # <<>>
      BY <1>2 DEF CutSoFar, OfTurns
    <3> QED
      BY <3>2, <3>3 DEF FilesInUse
  <2> QED
    BY <2>1
<1>6. ASSUME NEW j \in 1..Len(m), NEW k \in 1..Len(m), file[j] = file[k] PROVE j = k
  <2>1. m[j].hour = m[k].hour
    <3>1. FileRead(m[j].hour) = FileRead(m[k].hour)
      BY <1>6
    <3> QED
      BY <1>3, <3>1, FileReadIsABijection
  <2>2. m[j].hour \in Nat
    BY <1>1, <1>3 DEF HourOfDay
  <2>3. j < k => m[j].hour < m[k].hour
    <3>1. j < k => j \in 1..(k - 1)
      OBVIOUS
    <3> QED
      BY <1>2, <3>1 DEF CutSoFar, OfTurns
  <2>4. k < j => m[k].hour < m[j].hour
    <3>1. k < j => k \in 1..(j - 1)
      OBVIOUS
    <3> QED
      BY <1>2, <3>1 DEF CutSoFar, OfTurns
  <2> QED
    BY <1>4, <2>1, <2>2, <2>3, <2>4
<1>7. ASSUME NEW h \in used PROVE \E k \in 1..Len(m) : file[k] = h
  <2>1. PICK i \in HourOfDay : FileRead(i) = h
    BY FileReadIsABijection DEF FilesInUse
  <2>2. i \in Nat /\ i < Hours /\ files[FileRead(i)] # <<>>
    BY <1>1, <2>1 DEF HourOfDay, FilesInUse
  <2>3. PICK k \in 1..Len(m) : m[k].hour = i
    BY <1>2, <2>2 DEF CutSoFar
  <2> QED
    BY <2>1, <2>3
<1>8. file \in Bijection(1..Len(m), used)
  BY <1>5, <1>6, <1>7 DEF Bijection, Injection, Surjection, IsInjective
<1>9. \A k \in 1..Len(m) : /\ PieceOf(m[k], day) = files[file[k]]
                           /\ runHour = 0 => m[k].hour = file[k]
  BY <1>2, <1>3, FileReadIsABijection DEF CutSoFar, OfTurns, PieceOf
<1>10. CutInto(m, day, files)
  BY <1>2, <1>8, <1>9 DEF CutInto, CutSoFar
<1> QED
  BY <1>2, <1>10 DEF m, day

(***************************************************************************)
(* The inductive invariant.                                                *)
(***************************************************************************)
\* Nothing is written yet.
LEMMA InitIInv == Init => IInv
<1> SUFFICES ASSUME Init PROVE IInv
  OBVIOUS
<1>1. runHour \in HourOfDay /\ fault \in {"none", "operations", "close"}
  BY ArchiveAssumption DEF Init, HourOfDay
<1>2. NoFiles \in [Host -> [HourOfDay -> Seq(Line)]]
  BY DEF NoFiles
<1>3. Absent \in File(Line) /\ Absent \in File(Part) /\ Absent.state = "absent"
  BY DEF Absent, File
<1>4. TypeOK
  BY <1>1, <1>2, <1>3, ArchiveAssumption DEF Init, TypeOK
<1>5. \A h \in Host : Untouched(h)
  BY <1>3 DEF Init, Untouched
<1> QED
  BY <1>4, <1>5, <1>3 DEF IInv, Init, JobIsAfterTheDay, HostInTurn, FilesOfTheDay, Ahead

\* The hour of the job and the faults are chosen once, so what the loop would make
\* of the batches' lines changes only with these lines.
LEMMA StepKeepsEnv ==
  ASSUME [Next]_vars
  PROVE  /\ UNCHANGED env
         /\ \A h \in Host : written'[h] = written[h] =>
              /\ DayContent(written[h])' = DayContent(written[h])
              /\ Summary(written[h])' = Summary(written[h])
<1>1. UNCHANGED env
  BY DEF Next, Job, AppendLine, HourPasses, StartDay, NextHost, EndDay, WriteDayFile, ReadFails,
         WriteHourlySummary, RemoveFile, RemoveDir, RemoveFails, Crash, Stopped, vars, env
<1>2. ASSUME NEW h \in Host, written'[h] = written[h]
      PROVE  /\ DayContent(written[h])' = DayContent(written[h])
             /\ Summary(written[h])' = Summary(written[h])
  BY <1>1, <1>2 DEF env, DayContent, Summary, SummaryBefore, PartOf, LinesBefore, FileRead
<1> QED
  BY <1>1, <1>2

\* A batch appends while the job has not started: nothing is archived yet.
LEMMA AppendIInv ==
  ASSUME IInv, NEW h \in Host, NEW l \in Line, AppendLine(h, l)
  PROVE  IInv'
<1>1. hour \in HourOfDay /\ pc = "idle"
  BY DEF AppendLine, IInv, JobIsAfterTheDay
<1>2. \A g \in Host : Untouched(g)
  BY <1>1 DEF IInv, HostInTurn, Ahead
<1>3. UNCHANGED <<env, hour, archive, meta, jobVars>>
  BY DEF AppendLine
<1>4. \A g \in Host : Untouched(g)'
  <2> TAKE g \in Host
  <2>1. CASE g = h
    BY <2>1, <1>2, <1>3 DEF AppendLine, Untouched, IInv, TypeOK
  <2>2. CASE g # h
    BY <2>2, <1>2, <1>3 DEF AppendLine, Untouched, IInv, TypeOK
  <2> QED
    BY <2>1, <2>2
<1>5. TypeOK'
  <2>1. /\ hourFile[h][hour] \in Seq(Line) /\ Append(hourFile[h][hour], l) \in Seq(Line)
        /\ written[h][hour] \in Seq(Line) /\ Append(written[h][hour], l) \in Seq(Line)
    BY <1>1, AppendProperties DEF IInv, TypeOK
  <2>2. /\ hourFile' \in [Host -> [HourOfDay -> Seq(Line)]]
        /\ written' \in [Host -> [HourOfDay -> Seq(Line)]]
        /\ dayDir' \in [Host -> BOOLEAN]
    BY <1>1, <2>1 DEF AppendLine, IInv, TypeOK
  <2> QED
    BY <1>3, <2>2 DEF IInv, TypeOK, env, jobVars
<1> QED
  BY <1>1, <1>3, <1>4, <1>5
     DEF IInv, JobIsAfterTheDay, HostInTurn, FilesOfTheDay, Ahead, Untouched, jobVars

\* The invariant of the files, host by host.
FilesOf(h) ==
  /\ archive[h].state = "complete" => archive[h].content = DayContent(written[h])
  /\ meta[h].state = "complete" => meta[h].content = Summary(written[h])
  /\ \/ hourFile[h] = written[h]
     \/ fault = "close"
     \/ archive[h].state = "complete" /\ meta[h].state = "complete"

\* It is about the files of the host and the lines written for it only.
LEMMA FilesFrame ==
  ASSUME FilesOfTheDay, [Next]_vars, UNCHANGED written,
         NEW h \in Host, UNCHANGED <<hourFile[h], archive[h], meta[h]>>
  PROVE  FilesOf(h)'
<1>1. /\ DayContent(written[h])' = DayContent(written[h])
      /\ Summary(written[h])' = Summary(written[h]) /\ UNCHANGED fault
  BY StepKeepsEnv DEF env
<1> QED
  BY <1>1 DEF FilesOfTheDay, FilesOf

\* The day file is written: with all of its host's lines, partly, or not at all.
LEMMA WriteDayFileIInv ==
  ASSUME IInv, WriteDayFile
  PROVE  IInv'
<1>1. /\ pc = "writeDay" /\ host \in Host /\ host \notin todo /\ Untouched(host)
      /\ hour \notin HourOfDay
      /\ UNCHANGED <<env, hour, hourFile, dayDir, meta, written, host, todo>>
  BY DEF WriteDayFile, WriteToFile, Abort, IInv, TypeOK, HostInTurn, JobIsAfterTheDay
<1>2. /\ DayContent(hourFile[host]) = DayContent(written[host])
      /\ DayContent(written[host]) \in Seq(Line)
  <2>1. runHour \in HourOfDay /\ written[host] \in DayFiles
    BY <1>1 DEF IInv, TypeOK, DayFiles
  <2> QED
    BY <1>1, <2>1, SummaryCutsTheDay DEF Untouched
<1>3. \/ /\ archive' = [archive EXCEPT ![host] = Complete(DayContent(written[host]))]
         /\ pc' = "writeMeta"
      \/ fault = "close" /\ archive' = [archive EXCEPT ![host] = Partial] /\ pc' = "writeMeta"
      \/ archive' \in {archive, [archive EXCEPT ![host] = Partial]} /\ pc' = "ended"
  BY <1>2 DEF WriteDayFile, WriteToFile, Abort
<1>4. /\ Complete(DayContent(written[host])) \in File(Line) /\ Partial \in File(Line)
      /\ Complete(DayContent(written[host])).state = "complete"
      /\ Complete(DayContent(written[host])).content = DayContent(written[host])
      /\ Partial.state = "partial"
  BY <1>2 DEF Complete, Partial, File
<1> HIDE DEF Complete
<1>5. \A h \in Host \ {host} : archive'[h] = archive[h]
  BY <1>3 DEF IInv, TypeOK
<1>6. archive \in [Host -> File(Line)]
  BY DEF IInv, TypeOK
<1>7. TypeOK'
  BY <1>1, <1>3, <1>4 DEF IInv, TypeOK, env
<1>8. HostInTurn'
  <2>1. pc' # "idle" /\ pc # "idle" /\ pc' \notin {"writeDay", "remove"}
    BY <1>1, <1>3
  <2>2. \A h \in todo : Untouched(h)'
    BY <1>1, <1>5, <2>1 DEF IInv, HostInTurn, Ahead, Untouched, TypeOK
  <2>3. pc' = "writeMeta" => /\ hourFile'[host] = written'[host] /\ meta'[host].state = "absent"
                             /\ fault # "close" => archive'[host].state = "complete"
    BY <1>1, <1>3, <1>4, <1>6 DEF Untouched
  <2> QED
    BY <1>1, <2>1, <2>2, <2>3 DEF HostInTurn, Ahead, env
<1>9. \A h \in Host : FilesOf(h)'
  <2> TAKE h \in Host
  <2>1. CASE h # host
    BY <1>1, <1>5, <2>1, FilesFrame DEF IInv, Next, Job
  <2>2. CASE h = host
    <3>1. DayContent(written[host])' = DayContent(written[host])
      BY <1>1, StepKeepsEnv DEF Next, Job
    <3>2. archive'[host].state = "complete" => archive'[host].content = DayContent(written[host])
      BY <1>1, <1>3, <1>4, <1>6 DEF Untouched
    <3> QED
      BY <1>1, <2>2, <3>1, <3>2 DEF FilesOf, Untouched
  <2> QED
    BY <2>1, <2>2
<1> QED
  BY <1>1, <1>7, <1>8, <1>9 DEF IInv, JobIsAfterTheDay, FilesOfTheDay, FilesOf

\* The summary is written after the day file.
LEMMA WriteHourlySummaryIInv ==
  ASSUME IInv, WriteHourlySummary
  PROVE  IInv'
<1>1. /\ pc = "writeMeta" /\ host \in Host /\ host \notin todo /\ hourFile[host] = written[host]
      /\ meta[host].state = "absent" /\ hour \notin HourOfDay
      /\ fault # "close" => archive[host].state = "complete"
      /\ UNCHANGED <<env, hour, hourFile, dayDir, archive, written, host, todo>>
  BY DEF WriteHourlySummary, WriteToFile, Abort, IInv, TypeOK, HostInTurn, JobIsAfterTheDay
<1>2. Summary(hourFile[host]) = Summary(written[host]) /\ Summary(written[host]) \in Seq(Part)
  <2>1. runHour \in HourOfDay /\ written[host] \in DayFiles
    BY <1>1 DEF IInv, TypeOK, DayFiles
  <2> QED
    BY <1>1, <2>1, SummaryCutsTheDay
<1>3. \/ meta' = [meta EXCEPT ![host] = Complete(Summary(written[host]))] /\ pc' = "remove"
      \/ fault = "close" /\ meta' = [meta EXCEPT ![host] = Partial] /\ pc' = "remove"
      \/ meta' \in {meta, [meta EXCEPT ![host] = Partial]} /\ pc' = "ended"
  BY <1>2 DEF WriteHourlySummary, WriteToFile, Abort
<1>4. /\ Complete(Summary(written[host])) \in File(Part) /\ Partial \in File(Part)
      /\ Complete(Summary(written[host])).state = "complete"
      /\ Complete(Summary(written[host])).content = Summary(written[host])
      /\ Partial.state = "partial"
  BY <1>2 DEF Complete, Partial, File
<1> HIDE DEF Complete
<1>5. \A h \in Host \ {host} : meta'[h] = meta[h]
  BY <1>3 DEF IInv, TypeOK
<1>6. meta \in [Host -> File(Part)]
  BY DEF IInv, TypeOK
<1>7. TypeOK'
  BY <1>1, <1>3, <1>4 DEF IInv, TypeOK, env
<1>8. HostInTurn'
  <2>1. pc' # "idle" /\ pc # "idle" /\ pc' \notin {"writeDay", "writeMeta"}
    BY <1>1, <1>3
  <2>2. \A h \in todo : Untouched(h)'
    BY <1>1, <1>5, <2>1 DEF IInv, HostInTurn, Ahead, Untouched, TypeOK
  <2>3. pc' = "remove" /\ fault # "close" =>
          archive'[host].state = "complete" /\ meta'[host].state = "complete"
    BY <1>1, <1>3, <1>4, <1>6
  <2> QED
    BY <1>1, <2>1, <2>2, <2>3 DEF HostInTurn, Ahead, env
<1>9. \A h \in Host : FilesOf(h)'
  <2> TAKE h \in Host
  <2>1. CASE h # host
    BY <1>1, <1>5, <2>1, FilesFrame DEF IInv, Next, Job
  <2>2. CASE h = host
    <3>1. /\ DayContent(written[host])' = DayContent(written[host])
          /\ Summary(written[host])' = Summary(written[host])
      BY <1>1, StepKeepsEnv DEF Next, Job
    <3>2. meta'[host].state = "complete" => meta'[host].content = Summary(written[host])
      BY <1>1, <1>3, <1>4, <1>6
    <3>3. archive[host].state = "complete" => archive[host].content = DayContent(written[host])
      BY <1>1 DEF IInv, FilesOfTheDay
    <3> QED
      BY <1>1, <2>2, <3>1, <3>2, <3>3 DEF FilesOf
  <2> QED
    BY <2>1, <2>2
<1> QED
  BY <1>1, <1>7, <1>8, <1>9 DEF IInv, JobIsAfterTheDay, FilesOfTheDay, FilesOf

\* Removing is of files whose lines are in complete files, but for an error of Close.
LEMMA RemoveFileIInv ==
  ASSUME IInv, NEW i \in HourOfDay, RemoveFile(i)
  PROVE  IInv'
<1>1. /\ pc = "remove" /\ host \in Host /\ host \notin todo /\ hour \notin HourOfDay
      /\ fault # "close" => archive[host].state = "complete" /\ meta[host].state = "complete"
      /\ UNCHANGED <<env, hour, dayDir, archive, meta, pc, host, todo, written>>
  BY DEF RemoveFile, IInv, TypeOK, HostInTurn, JobIsAfterTheDay, jobVars
<1>2. \A h \in Host \ {host} : hourFile'[h] = hourFile[h]
  BY DEF RemoveFile, IInv, TypeOK
<1>3. TypeOK'
  <2>1. hourFile' \in [Host -> [HourOfDay -> Seq(Line)]]
    BY <1>1 DEF RemoveFile, IInv, TypeOK
  <2> QED
    BY <1>1, <2>1 DEF IInv, TypeOK, env
<1>4. HostInTurn'
  <2>1. \A h \in todo : Untouched(h)'
    BY <1>1, <1>2 DEF IInv, HostInTurn, Ahead, Untouched, TypeOK
  <2> QED
    BY <1>1, <2>1 DEF HostInTurn, Ahead, env
<1>5. \A h \in Host : FilesOf(h)'
  <2> TAKE h \in Host
  <2>1. CASE h # host
    BY <1>1, <1>2, <2>1, FilesFrame DEF IInv, Next, Job
  <2>2. CASE h = host
    <3>1. /\ DayContent(written[host])' = DayContent(written[host])
          /\ Summary(written[host])' = Summary(written[host]) /\ UNCHANGED fault
      BY <1>1, StepKeepsEnv DEF Next, Job, env
    <3>2. /\ archive[host].state = "complete" => archive[host].content = DayContent(written[host])
          /\ meta[host].state = "complete" => meta[host].content = Summary(written[host])
      BY <1>1 DEF IInv, FilesOfTheDay
    <3> QED
      BY <1>1, <2>2, <3>1, <3>2 DEF FilesOf
  <2> QED
    BY <2>1, <2>2
<1> QED
  BY <1>1, <1>3, <1>4, <1>5 DEF IInv, JobIsAfterTheDay, FilesOfTheDay, FilesOf

\* The process dies, perhaps in the middle of a write: a file that may be partial is
\* that of the host in turn, which nothing was removed of.
LEMMA CrashIInv ==
  ASSUME IInv, Crash
  PROVE  IInv'
<1>1. /\ pc \in {"next", "writeDay", "writeMeta", "remove"} /\ pc' = "ended" /\ host \in Host
      /\ hour \notin HourOfDay
      /\ UNCHANGED <<env, hour, hourFile, dayDir, written, host, todo>>
  BY DEF Crash, Abort, IInv, TypeOK, JobIsAfterTheDay
<1>2. /\ \/ archive' = archive
         \/ pc = "writeDay" /\ archive' = [archive EXCEPT ![host] = Partial]
      /\ \/ meta' = meta
         \/ pc = "writeMeta" /\ meta' = [meta EXCEPT ![host] = Partial]
  BY DEF Crash
<1>3. Partial \in File(Line) /\ Partial \in File(Part) /\ Partial.state = "partial"
  BY DEF Partial, File
<1>4. archive \in [Host -> File(Line)] /\ meta \in [Host -> File(Part)]
  BY DEF IInv, TypeOK
<1>5. TypeOK'
  BY <1>1, <1>2, <1>3 DEF IInv, TypeOK, env
<1>6. pc \in {"writeDay", "writeMeta"} => host \notin todo /\ hourFile[host] = written[host]
  BY DEF IInv, HostInTurn, Untouched
<1>7. \A h \in todo : Untouched(h)'
  BY <1>1, <1>2, <1>4, <1>6 DEF IInv, HostInTurn, Ahead, Untouched, TypeOK
<1>8. \A h \in Host : FilesOf(h)'
  <2> TAKE h \in Host
  <2>1. CASE UNCHANGED <<archive[h], meta[h]>>
    BY <1>1, <2>1, FilesFrame DEF IInv, Next, Job
  <2>2. CASE ~UNCHANGED <<archive[h], meta[h]>>
    <3>1. h = host /\ hourFile[h] = written[h]
      BY <1>2, <1>4, <1>6, <2>2
    <3>2. /\ archive'[h].state = "complete" => archive'[h] = archive[h]
          /\ meta'[h].state = "complete" => meta'[h] = meta[h]
      BY <1>2, <1>3, <1>4
    <3>3. /\ DayContent(written[h])' = DayContent(written[h])
          /\ Summary(written[h])' = Summary(written[h])
      BY <1>1, StepKeepsEnv DEF Next, Job
    <3> QED
      BY <1>1, <3>1, <3>2, <3>3 DEF FilesOf, IInv, FilesOfTheDay
  <2> QED
    BY <2>1, <2>2
<1> QED
  BY <1>1, <1>5, <1>7, <1>8 DEF IInv, JobIsAfterTheDay, HostInTurn, Ahead, FilesOfTheDay, FilesOf

\* The steps that leave every file alone.
LEMMA OtherStepIInv ==
  ASSUME IInv,
         \/ HourPasses \/ StartDay \/ EndDay \/ ReadFails \/ RemoveDir \/ RemoveFails
         \/ \E h \in Host : NextHost(h)
         \/ UNCHANGED vars
  PROVE  IInv'
<1>1. [Next]_vars /\ UNCHANGED <<env, hourFile, archive, meta, written>>
  BY DEF HourPasses, StartDay, EndDay, ReadFails, RemoveDir, RemoveFails, NextHost, Next, Job,
         vars, env
<1>2. TypeOK'
  <2>1. hour' \in 0..Hours
    BY ArchiveAssumption DEF HourPasses, StartDay, EndDay, ReadFails, RemoveDir, RemoveFails,
       NextHost, vars, IInv, TypeOK, HourOfDay
  <2>2. dayDir' \in [Host -> BOOLEAN] /\ host' \in Host /\ todo' \in SUBSET Host
    BY DEF HourPasses, StartDay, EndDay, ReadFails, RemoveDir, RemoveFails, NextHost, Abort,
           jobVars, vars, IInv, TypeOK
  <2>3. pc' \in {"idle", "next", "writeDay", "writeMeta", "remove", "ended"}
    BY DEF HourPasses, StartDay, EndDay, ReadFails, RemoveDir, RemoveFails, NextHost, Abort,
           jobVars, vars, IInv, TypeOK
  <2> QED
    BY <1>1, <2>1, <2>2, <2>3 DEF IInv, TypeOK, env
<1>3. JobIsAfterTheDay'
  BY DEF HourPasses, StartDay, EndDay, ReadFails, RemoveDir, RemoveFails, NextHost, Abort,
         jobVars, vars, IInv, JobIsAfterTheDay
<1>4. HostInTurn'
  <2>1. \A h \in Host : Untouched(h) => Untouched(h)'
    BY <1>1 DEF Untouched
  <2>2. Ahead' \subseteq Ahead
    BY DEF HourPasses, StartDay, EndDay, ReadFails, RemoveDir, RemoveFails, NextHost, Abort,
           jobVars, vars, IInv, TypeOK, Ahead
  <2>3. CASE \E h \in Host : NextHost(h)
    <3>1. /\ pc = "next" /\ host' \in todo /\ todo' = todo \ {host'} /\ pc' = "writeDay"
      BY <2>3 DEF NextHost
    <3>2. Untouched(host')
      BY <3>1 DEF IInv, HostInTurn, Ahead
    <3>3. hourFile'[host'] = written'[host'] /\ archive'[host'].state = "absent"
          /\ meta'[host'].state = "absent"
      BY <1>1, <3>2 DEF Untouched
    <3>4. \A h \in Ahead' : Untouched(h)'
      BY <2>1, <2>2, <3>1 DEF IInv, HostInTurn, Ahead, TypeOK
    <3> QED
      BY <3>1, <3>3, <3>4 DEF HostInTurn, Untouched
  <2>4. CASE ~\E h \in Host : NextHost(h)
    <3>1. \/ pc' \in {"next", "ended", "idle"}
          \/ UNCHANGED <<pc, host, todo>>
      BY <2>4 DEF HourPasses, StartDay, EndDay, ReadFails, RemoveDir, RemoveFails, Abort,
                  jobVars, vars
    <3>2. \A h \in Ahead' : Untouched(h)'
      BY <2>1, <2>2 DEF IInv, HostInTurn, Ahead, TypeOK
    <3>3. UNCHANGED <<pc, host, todo>> => HostInTurn'
      BY <1>1, <3>2, <2>1 DEF IInv, HostInTurn, Ahead, Untouched, env
    <3> QED
      BY <3>1, <3>2, <3>3 DEF HostInTurn
  <2> QED
    BY <2>3, <2>4
<1>5. FilesOfTheDay'
  <2>1. \A h \in Host : FilesOf(h)'
    BY <1>1, FilesFrame DEF IInv
  <2> QED
    BY <2>1 DEF FilesOfTheDay, FilesOf
<1> QED
  BY <1>2, <1>3, <1>4, <1>5 DEF IInv

\* Every step keeps the invariant.
LEMMA StepIInv == IInv /\ [Next]_vars => IInv'
<1> SUFFICES ASSUME IInv, [Next]_vars PROVE IInv'
  OBVIOUS
<1>1. CASE \E h \in Host, l \in Line : AppendLine(h, l)
  BY <1>1, AppendIInv
<1>2. CASE WriteDayFile
  BY <1>2, WriteDayFileIInv
<1>3. CASE WriteHourlySummary
  BY <1>3, WriteHourlySummaryIInv
<1>4. CASE \E i \in HourOfDay : RemoveFile(i)
  BY <1>4, RemoveFileIInv
<1>5. CASE Crash
  BY <1>5, CrashIInv
<1>6. CASE \/ HourPasses \/ StartDay \/ EndDay \/ ReadFails \/ RemoveDir \/ RemoveFails
           \/ \E h \in Host : NextHost(h)
           \/ Stopped \/ UNCHANGED vars
  BY <1>6, OtherStepIInv DEF Stopped
<1> QED
  BY <1>1, <1>2, <1>3, <1>4, <1>5, <1>6 DEF Next, Job

\* The types, where the job is with its host, and what its files hold.
THEOREM Inductive == Spec => []IInv
BY InitIInv, StepIInv, PTL DEF Spec

\* Every variable has the type its declaration says, whatever fails.
THEOREM TypeCorrect == Spec => []TypeOK
BY Inductive, PTL DEF IInv

(***************************************************************************)
(* The properties.                                                         *)
(***************************************************************************)
\* No error that is noticed and no crash between two steps loses a line of the day
\* (archive.go removes the hour files after both files are written).
THEOREM NothingIsLost == Spec => []NoLineLost
<1>1. IInv => NoLineLost
  <2> SUFFICES ASSUME IInv, fault # "close", NEW h \in Host, NEW l \in LinesOf(written, h)
               PROVE  \/ l \in LinesOf(hourFile, h)
                      \/ /\ archive[h].state = "complete" /\ l \in ToSet(archive[h].content)
                         /\ meta[h].state = "complete"
    BY DEF NoLineLost
  <2>1. PICK i \in HourOfDay : l \in ToSet(written[h][i])
    BY DEF LinesOf
  <2>2. CASE hourFile[h] = written[h]
    BY <2>1, <2>2 DEF LinesOf
  <2>3. CASE archive[h].state = "complete" /\ meta[h].state = "complete"
    <3>1. archive[h].content = DayContent(written[h])
      BY <2>3 DEF IInv, FilesOfTheDay
    <3>2. runHour \in HourOfDay /\ written[h] \in DayFiles
      BY DEF IInv, TypeOK, DayFiles
    <3>3. ToSet(written[h][i]) \subseteq ToSet(DayContent(written[h]))
      BY <3>2, DayHoldsEveryLine
    <3> QED
      BY <2>1, <2>3, <3>1, <3>3
  <2> QED
    BY <2>2, <2>3 DEF IInv, FilesOfTheDay
<1> QED
  BY <1>1, Inductive, PTL

\* A complete summary cuts a complete day file into what the batches wrote in each
\* hour, for any number of hours and any lines (collectHours counts them).
THEOREM PartsCut == Spec => []PartsCutTheDayFile
<1>1. IInv => PartsCutTheDayFile
  <2> SUFFICES ASSUME IInv, NEW h \in Host,
                      meta[h].state = "complete", archive[h].state = "complete"
               PROVE  CutInto(meta[h].content, archive[h].content, written[h])
    BY DEF PartsCutTheDayFile
  <2>1. runHour \in HourOfDay /\ written[h] \in DayFiles
    BY DEF IInv, TypeOK, DayFiles
  <2>2. /\ archive[h].content = DayContent(written[h])
        /\ meta[h].content = Summary(written[h])
    BY DEF IInv, FilesOfTheDay
  <2> QED
    BY <2>1, <2>2, SummaryCutsTheDay
<1> QED
  BY <1>1, Inductive, PTL

(***************************************************************************)
(* The digits of a number and the number of digits.                        *)
(***************************************************************************)
\* Base36 as far as m.
Digits36(g, m) == g = [n \in 0..m |-> IF n < 36 THEN <<n>> ELSE Append(g[n \div 36], n % 36)]

\* One of its values.
DigitsOf(g, n) == /\ n < 36 => g[n] = <<n>>
                  /\ n >= 36 => g[n] = Append(g[n \div 36], n % 36)

LEMMA DigitsAre ==
  ASSUME NEW m, NEW g, Digits36(g, m), NEW n \in 0..m
  PROVE  DigitsOf(g, n)
<1>1. g[n] = IF n < 36 THEN <<n>> ELSE Append(g[n \div 36], n % 36)
  BY DEF Digits36
<1>2. ~(n < 36 /\ n >= 36)
  OBVIOUS
<1> QED
  BY <1>1, <1>2, Zenon DEF DigitsOf

\* A number with more than one digit is its last one and a smaller number.
LEMMA LastDigit ==
  ASSUME NEW n \in Nat, n >= 36
  PROVE  /\ n \div 36 \in 0..(n - 1) /\ n % 36 \in 0..35
         /\ n = 36 * (n \div 36) + (n % 36)
OBVIOUS

LEMMA DigitsExist ==
  ASSUME NEW m \in Nat
  PROVE  \E g : Digits36(g, m)
<1> DEFINE T == {k \in Nat : \E g : Digits36(g, k)}
<1>1. 0 \in T
  <2>1. Digits36([n \in 0..0 |-> <<n>>], 0)
    BY DEF Digits36
  <2> QED
    BY <2>1
<1>2. ASSUME NEW k \in T PROVE k + 1 \in T
  <2>1. PICK g : Digits36(g, k)
    OBVIOUS
  <2>2. k \in Nat
    OBVIOUS
  <2> DEFINE e == IF k + 1 < 36 THEN <<k + 1>> ELSE Append(g[(k + 1) \div 36], (k + 1) % 36)
             f == [n \in 0..(k + 1) |-> IF n = k + 1 THEN e ELSE g[n]]
  <2> HIDE DEF T, e
  <2>3. f[k + 1] = e /\ \A n \in 0..k : f[n] = g[n]
    BY <2>2
  <2>4. f = [n \in 0..(k + 1) |-> f[n]]
    BY <2>2
  <2> HIDE DEF f
  <2>5. ASSUME NEW n \in 0..(k + 1)
        PROVE  f[n] = IF n < 36 THEN <<n>> ELSE Append(f[n \div 36], n % 36)
    <3>1. n >= 36 => n \div 36 \in 0..k
      BY <2>2, LastDigit
    <3>2. CASE n = k + 1
      BY <3>1, <3>2, <2>3 DEF e
    <3>3. CASE n # k + 1
      <4>1. n \in 0..k
        BY <3>3, <2>2
      <4>2. g[n] = IF n < 36 THEN <<n>> ELSE Append(g[n \div 36], n % 36)
        BY <4>1, <2>1 DEF Digits36
      <4> QED
        BY <4>1, <4>2, <3>1, <2>3
    <3> QED
      BY <3>2, <3>3
  <2>6. Digits36(f, k + 1)
    BY <2>4, <2>5 DEF Digits36
  <2> QED
    BY <2>2, <2>6 DEF T
<1>3. T \in SUBSET Nat
  OBVIOUS
<1>4. T = Nat
  <2> HIDE DEF T
  <2> QED
    BY <1>1, <1>2, <1>3, NaturalsByInduction
<1> QED
  BY <1>4

\* Two of them agree as far as both go.
LEMMA DigitsAgree ==
  ASSUME NEW m \in Nat, NEW n \in Nat, m <= n, NEW g, Digits36(g, m), NEW h, Digits36(h, n)
  PROVE  g[m] = h[m]
<1> DEFINE T == {k \in Nat : \A j \in 0..m : j <= k => g[j] = h[j]}
<1>0. ASSUME NEW j \in 0..m PROVE DigitsOf(g, j) /\ DigitsOf(h, j)
  <2>1. j \in 0..n
    OBVIOUS
  <2> QED
    BY <2>1, DigitsAre
<1>1. 0 \in T
  <2>1. g[0] = h[0]
    <3>1. 0 \in 0..m /\ 0 < 36
      OBVIOUS
    <3> QED
      BY <3>1, <1>0 DEF DigitsOf
  <2> QED
    BY <2>1
<1>2. ASSUME NEW k \in T PROVE k + 1 \in T
  <2>1. k \in Nat /\ \A j \in 0..m : j <= k => g[j] = h[j]
    OBVIOUS
  <2>2. ASSUME NEW j \in 0..m, j = k + 1 PROVE g[j] = h[j]
    <3>0. DigitsOf(g, j) /\ DigitsOf(h, j)
      BY <1>0
    <3>1. CASE j < 36
      BY <3>0, <3>1 DEF DigitsOf
    <3>2. CASE j >= 36
      <4>1. j \div 36 \in 0..m /\ j \div 36 <= k
        BY <3>2, <2>1, <2>2, LastDigit
      <4>2. g[j \div 36] = h[j \div 36]
        BY <4>1, <2>1
      <4> QED
        BY <4>2, <3>0, <3>2 DEF DigitsOf
    <3>3. j < 36 \/ j >= 36
      BY <2>1, <2>2
    <3> QED
      BY <3>1, <3>2, <3>3
  <2>3. \A j \in 0..m : j <= k + 1 => g[j] = h[j]
    BY <2>1, <2>2
  <2> QED
    BY <2>1, <2>3
<1>3. T \in SUBSET Nat
  OBVIOUS
<1>4. T = Nat
  <2> HIDE DEF T
  <2> QED
    BY <1>1, <1>2, <1>3, NaturalsByInduction
<1> QED
  BY <1>4

\* The recursion that defines Base36.
LEMMA Base36Digits ==
  ASSUME NEW n \in Nat
  PROVE  DigitsOf(Base36, n)
<1> DEFINE Equation(f) == f = [k \in Nat |-> IF k < 36 THEN <<k>> ELSE Append(f[k \div 36], k % 36)]
           P(k) == CHOOSE g : Digits36(g, k)
           f == [k \in Nat |-> P(k)[k]]
<1>1. ASSUME NEW k \in Nat PROVE Digits36(P(k), k)
  BY DigitsExist
<1> HIDE DEF P
<1>2. ASSUME NEW k \in Nat
      PROVE  f[k] = IF k < 36 THEN <<k>> ELSE Append(f[k \div 36], k % 36)
  <2>1. DigitsOf(P(k), k)
    <3>1. k \in 0..k
      OBVIOUS
    <3> QED
      BY <3>1, <1>1, DigitsAre
  <2>2. ASSUME k >= 36 PROVE P(k)[k \div 36] = f[k \div 36]
    <3>1. k \div 36 \in Nat /\ k \div 36 <= k
      BY <2>2, LastDigit
    <3>2. P(k \div 36)[k \div 36] = P(k)[k \div 36]
      BY <3>1, <1>1, DigitsAgree
    <3> QED
      BY <3>1, <3>2
  <2>3. f[k] = P(k)[k]
    OBVIOUS
  <2> HIDE DEF f
  <2>4. k < 36 \/ (k >= 36 /\ ~(k < 36))
    OBVIOUS
  <2> QED
    BY <2>1, <2>2, <2>3, <2>4, Zenon DEF DigitsOf
<1>3. f = [k \in Nat |-> f[k]]
  OBVIOUS
<1> HIDE DEF f
<1>4. Equation(f)
  BY <1>2, <1>3
<1>5. Equation(CHOOSE b : Equation(b))
  <2> HIDE DEF Equation
  <2> QED
    BY <1>4
<1>6. Base36 = CHOOSE b : Equation(b)
  BY DEF Base36
<1> DEFINE B == Base36
<1>7. Equation(B)
  <2> HIDE DEF Equation
  <2> QED
    BY <1>5, <1>6
<1> HIDE DEF B
<1>8. B[n] = IF n < 36 THEN <<n>> ELSE Append(B[n \div 36], n % 36)
  BY <1>7
<1>9. n < 36 \/ (n >= 36 /\ ~(n < 36))
  OBVIOUS
<1>10. ~(n < 36 /\ n >= 36)
  OBVIOUS
<1>11. DigitsOf(B, n)
  BY <1>8, <1>9, <1>10, Zenon DEF DigitsOf
<1> QED
  BY <1>11 DEF B

(***************************************************************************)
(* The value of digits.                                                    *)
(***************************************************************************)
\* The values of the first n digits of s and less, and how they follow each other.
Horner(g, s, n) ==
  g = [k \in 0..n |-> IF k = 0 THEN 0 ELSE 36 * g[k - 1] + Digit36(s[k])]

Shifts(g, s, n) == /\ g[0] = 0
                   /\ \A k \in Nat : k < n => g[k + 1] = 36 * g[k] + Digit36(s[k + 1])

LEMMA HornerShifts ==
  ASSUME NEW s, NEW n \in Nat, NEW g, Horner(g, s, n)
  PROVE  Shifts(g, s, n)
<1>1. g[0] = 0
  BY DEF Horner
<1>2. ASSUME NEW k \in Nat, k < n PROVE g[k + 1] = 36 * g[k] + Digit36(s[k + 1])
  <2>1. k + 1 \in 0..n /\ k + 1 # 0 /\ (k + 1) - 1 = k
    BY <1>2
  <2> HIDE DEF Digit36
  <2>2. g[k + 1] = 36 * g[(k + 1) - 1] + Digit36(s[k + 1])
    BY <2>1 DEF Horner
  <2> QED
    BY <2>1, <2>2
<1> QED
  BY <1>1, <1>2 DEF Shifts

LEMMA HornerExists ==
  ASSUME NEW s, NEW n \in Nat
  PROVE  \E g : Horner(g, s, n)
<1> DEFINE T == {m \in Nat : \E g : Horner(g, s, m)}
<1>1. 0 \in T
  <2>1. Horner([k \in 0..0 |-> 0], s, 0)
    BY DEF Horner
  <2> QED
    BY <2>1
<1>2. ASSUME NEW m \in T PROVE m + 1 \in T
  <2>1. PICK g : Horner(g, s, m)
    OBVIOUS
  <2>2. m \in Nat
    OBVIOUS
  <2> DEFINE e == 36 * g[m] + Digit36(s[m + 1])
             f == [k \in 0..(m + 1) |-> IF k = m + 1 THEN e ELSE g[k]]
  <2> HIDE DEF T, e
  <2>3. f[m + 1] = e /\ \A k \in 0..m : f[k] = g[k]
    BY <2>2
  <2>4. f = [k \in 0..(m + 1) |-> f[k]]
    BY <2>2
  <2> HIDE DEF f
  <2>5. ASSUME NEW k \in 0..(m + 1)
        PROVE  f[k] = IF k = 0 THEN 0 ELSE 36 * f[k - 1] + Digit36(s[k])
    <3>1. CASE k = m + 1
      <4>1. m \in 0..m /\ k - 1 = m /\ k # 0
        BY <3>1, <2>2
      <4>2. f[k - 1] = g[m] /\ f[k] = 36 * g[m] + Digit36(s[m + 1])
        BY <4>1, <3>1, <2>3 DEF e
      <4> QED
        BY <4>1, <4>2, <3>1
    <3>2. CASE k # m + 1
      <4>1. k \in 0..m /\ (k # 0 => k - 1 \in 0..m)
        BY <3>2, <2>2
      <4>2. g[k] = IF k = 0 THEN 0 ELSE 36 * g[k - 1] + Digit36(s[k])
        BY <4>1, <2>1 DEF Horner
      <4> QED
        BY <4>1, <4>2, <2>3
    <3> QED
      BY <3>1, <3>2
  <2>6. Horner(f, s, m + 1)
    BY <2>4, <2>5 DEF Horner
  <2> QED
    BY <2>2, <2>6 DEF T
<1>3. T \in SUBSET Nat
  OBVIOUS
<1>4. T = Nat
  <2> HIDE DEF T
  <2> QED
    BY <1>1, <1>2, <1>3, NaturalsByInduction
<1> QED
  BY <1>4

\* Two of them agree where their digits do.
LEMMA HornerUnique ==
  ASSUME NEW n \in Nat, NEW m \in Nat, n <= m, NEW s, NEW t, Agree(s, t, n),
         NEW g, Shifts(g, s, n), NEW h, Shifts(h, t, m)
  PROVE  g[n] = h[n]
<1> DEFINE T == {k \in Nat : k <= n => g[k] = h[k]}
<1>1. 0 \in T
  BY DEF Shifts
<1>2. ASSUME NEW k \in T PROVE k + 1 \in T
  <2> SUFFICES ASSUME k + 1 <= n PROVE g[k + 1] = h[k + 1]
    OBVIOUS
  <2>1. k \in Nat /\ k < n /\ k < m /\ g[k] = h[k] /\ k + 1 \in 1..n
    OBVIOUS
  <2> HIDE DEF T
  <2>2. g[k + 1] = 36 * g[k] + Digit36(s[k + 1]) /\ h[k + 1] = 36 * h[k] + Digit36(t[k + 1])
    BY <2>1 DEF Shifts
  <2>3. s[k + 1] = t[k + 1]
    BY <2>1 DEF Agree
  <2> QED
    BY <2>1, <2>2, <2>3
<1>3. T \in SUBSET Nat
  OBVIOUS
<1>4. T = Nat
  <2> HIDE DEF T
  <2> QED
    BY <1>1, <1>2, <1>3, NaturalsByInduction
<1> QED
  BY <1>4

\* What Value36 is of a sequence of digits before it is cut to 64 bits.
ValueOf(s, v) == \E g : Shifts(g, s, Len(s)) /\ v = g[Len(s)]

LEMMA ValueHas ==
  ASSUME NEW S, NEW s \in Seq(S)
  PROVE  \E v : ValueOf(s, v) /\ Value36(s) = v % (MaxUint + 1)
<1> DEFINE g == CHOOSE f : Horner(f, s, Len(s))
<1>1. Len(s) \in Nat
  BY LenProperties
<1>2. Value36(s) = g[Len(s)] % (MaxUint + 1)
  BY DEF Value36, Horner
<1>3. Shifts(g, s, Len(s))
  BY <1>1, HornerExists, HornerShifts
<1> HIDE DEF g
<1>4. ValueOf(s, g[Len(s)])
  BY <1>3 DEF ValueOf
<1> QED
  BY <1>2, <1>4


\* One more digit.
LEMMA ValueStep ==
  ASSUME NEW S, NEW s \in Seq(S), NEW c \in S, NEW v, NEW w,
         ValueOf(s, v), ValueOf(Append(s, c), w)
  PROVE  w = 36 * v + Digit36(c)
<1> DEFINE t == Append(s, c)
           n == Len(s)
<1>1. n \in Nat /\ Len(t) = n + 1 /\ t[n + 1] = c /\ \A k \in 1..n : t[k] = s[k]
  BY LenProperties, AppendProperties
<1> HIDE DEF t, n
<1>2. PICK g : Shifts(g, s, n) /\ v = g[n]
  BY DEF ValueOf, n
<1>3. PICK h : Shifts(h, t, n + 1) /\ w = h[n + 1]
  BY <1>1 DEF ValueOf, t
<1>4. g[n] = h[n]
  <2>1. Agree(s, t, n) /\ n + 1 \in Nat /\ n <= n + 1
    BY <1>1 DEF Agree
  <2> QED
    BY <1>1, <1>2, <1>3, <2>1, HornerUnique
<1>5. h[n + 1] = 36 * h[n] + Digit36(t[n + 1])
  <2>1. n < n + 1
    BY <1>1
  <2> QED
    BY <1>1, <1>3, <2>1 DEF Shifts
<1> QED
  BY <1>1, <1>2, <1>3, <1>4, <1>5

\* What is written for a number is read as that number.
Written(n) == /\ Base36[n] \in Seq(0..35) /\ Base36[n] # <<>>
              /\ \A v : ValueOf(Base36[n], v) => v = n

LEMMA NumbersAreRead ==
  ASSUME NEW n \in Nat
  PROVE  Written(n)
<1> DEFINE T == {m \in Nat : \A k \in 0..m : Written(k)}
<1>1. ASSUME NEW k \in Nat, k < 36 PROVE Written(k)
  <2>1. Base36[k] = <<k>> /\ k \in 0..35
    BY <1>1, Base36Digits DEF DigitsOf
  <2>2. Base36[k] \in Seq(0..35) /\ Base36[k] # <<>>
    BY <2>1
  <2>3. ASSUME NEW v, ValueOf(<<k>>, v) PROVE v = k
    <3>1. PICK g : Shifts(g, <<k>>, 1) /\ v = g[1]
      BY <2>3 DEF ValueOf
    <3>2. g[0] = 0 /\ g[0 + 1] = 36 * g[0] + Digit36(<<k>>[0 + 1])
      BY <3>1 DEF Shifts
    <3>3. Digit36(k) = k
      BY <2>1 DEF Digit36
    <3> QED
      BY <3>1, <3>2, <3>3, <2>1
  <2> QED
    BY <2>1, <2>2, <2>3 DEF Written
<1>2. 0 \in T
  BY <1>1
<1>3. ASSUME NEW m \in T PROVE m + 1 \in T
  <2>1. m \in Nat /\ \A k \in 0..m : Written(k)
    OBVIOUS
  <2> HIDE DEF T
  <2>2. Written(m + 1)
    <3>1. CASE m + 1 < 36
      BY <2>1, <3>1, <1>1
    <3>2. CASE m + 1 >= 36
      <4> DEFINE q == (m + 1) \div 36
                 c == (m + 1) % 36
      <4>1. q \in 0..m /\ c \in 0..35 /\ m + 1 = 36 * q + c
        BY <2>1, <3>2, LastDigit
      <4>2. Base36[m + 1] = Append(Base36[q], c)
        BY <2>1, <3>2, Base36Digits DEF DigitsOf
      <4> HIDE DEF q, c
      <4>3. Written(q)
        BY <2>1, <4>1
      <4> DEFINE s == Base36[q]
      <4>4. s \in Seq(0..35) /\ \A v : ValueOf(s, v) => v = q
        BY <4>3 DEF Written
      <4>5. Base36[m + 1] = Append(s, c)
        BY <4>2
      <4> HIDE DEF s
      <4>6. Append(s, c) \in Seq(0..35) /\ Append(s, c) # <<>>
        BY <4>1, <4>4, AppendProperties
      <4>7. Digit36(c) = c
        BY <4>1 DEF Digit36
      <4>8. ASSUME NEW w, ValueOf(Append(s, c), w) PROVE w = m + 1
        <5>1. PICK v : ValueOf(s, v)
          BY <4>4, ValueHas
        <5>2. w = 36 * v + Digit36(c)
          BY <4>1, <4>4, <4>8, <5>1, ValueStep
        <5> QED
          BY <4>1, <4>4, <4>7, <5>1, <5>2
      <4> QED
        BY <4>5, <4>6, <4>8 DEF Written
    <3> QED
      BY <2>1, <3>1, <3>2
  <2>3. \A k \in 0..(m + 1) : Written(k)
    BY <2>1, <2>2
  <2> QED
    BY <2>1, <2>3 DEF T
<1>4. T \in SUBSET Nat
  OBVIOUS
<1>5. T = Nat
  <2> HIDE DEF T
  <2> QED
    BY <1>2, <1>3, <1>4, NaturalsByInduction
<1>6. n \in T /\ n \in 0..n
  BY <1>5
<1> QED
  BY <1>6

\* So it is for every number of 64 bits.
LEMMA DecodesBase36 ==
  ASSUME NEW n \in 0..MaxUint
  PROVE  /\ Base36[n] \in Seq(0..35) /\ Base36[n] # <<>>
         /\ Value36(Base36[n]) = n
<1>1. Written(n)
  BY NumbersAreRead
<1>2. PICK v : ValueOf(Base36[n], v) /\ Value36(Base36[n]) = v % (MaxUint + 1)
  BY <1>1, ValueHas DEF Written
<1>3. v = n
  BY <1>1, <1>2 DEF Written
<1>4. n % (MaxUint + 1) = n
  BY DecompressAssumption
<1> QED
  BY <1>1, <1>2, <1>3, <1>4 DEF Written

\* A character counts for less than 36.
LEMMA DigitIsSmall ==
  ASSUME NEW c \in 0..Comma
  PROVE  Digit36(c) \in Nat /\ Digit36(c) < 36
<1>1. c \in 0..66
  BY DEF Comma
<1>2. CASE c < 36
  <2>1. Digit36(c) = c
    BY <1>2 DEF Digit36
  <2> QED
    BY <1>1, <1>2, <2>1
<1>3. CASE c \in 36..61
  <2>1. ~(c < 36)
    BY <1>3
  <2>2. Digit36(c) = c - 26
    BY <1>3, <2>1 DEF Digit36
  <2> QED
    BY <1>3, <2>2
<1>4. CASE c \notin 36..61 /\ ~(c < 36)
  BY <1>4 DEF Digit36
<1> QED
  BY <1>2, <1>3, <1>4

\* Whatever the characters, their value is a number of 64 bits.
LEMMA ValuesAreNumbers ==
  ASSUME NEW s \in Seq(0..Comma)
  PROVE  Value36(s) \in 0..MaxUint
<1>1. PICK g : Shifts(g, s, Len(s)) /\ Value36(s) = g[Len(s)] % (MaxUint + 1)
  BY ValueHas DEF ValueOf
<1>2. Len(s) \in Nat
  BY LenProperties
<1> DEFINE T == {k \in Nat : k <= Len(s) => g[k] \in Nat}
<1>3. 0 \in T
  BY <1>1 DEF Shifts
<1>4. ASSUME NEW k \in T PROVE k + 1 \in T
  <2> SUFFICES ASSUME k + 1 <= Len(s) PROVE g[k + 1] \in Nat
    OBVIOUS
  <2>1. k \in Nat /\ k < Len(s) /\ g[k] \in Nat /\ k + 1 \in 1..Len(s)
    BY <1>2
  <2> HIDE DEF T
  <2>2. g[k + 1] = 36 * g[k] + Digit36(s[k + 1])
    BY <1>1, <2>1 DEF Shifts
  <2>3. s[k + 1] \in 0..Comma
    BY <2>1, ElementOfSeq
  <2>4. Digit36(s[k + 1]) \in Nat
    BY <2>3, DigitIsSmall
  <2> QED
    BY <2>1, <2>2, <2>4
<1>5. T \in SUBSET Nat
  OBVIOUS
<1>6. T = Nat
  <2> HIDE DEF T
  <2> QED
    BY <1>3, <1>4, <1>5, NaturalsByInduction
<1>7. g[Len(s)] \in Nat
  BY <1>2, <1>6
<1>8. \A v \in Nat : v % (MaxUint + 1) \in 0..MaxUint
  BY DecompressAssumption
<1> QED
  BY <1>1, <1>7, <1>8

(***************************************************************************)
(* Where a text lies in a log.                                             *)
(***************************************************************************)
\* The characters of x are those of l behind position p.
Lies(x, l, p) == p + Len(x) <= Len(l) /\ \A j \in 1..Len(x) : l[p + j] = x[j]

LEMMA PartsLie ==
  ASSUME NEW S, NEW x \in Seq(S), NEW y \in Seq(S), NEW l \in Seq(S), NEW p \in Nat,
         Lies(x \o y, l, p)
  PROVE  Lies(x, l, p) /\ Lies(y, l, p + Len(x))
<1> DEFINE n == Len(x)
           m == Len(y)
           xy == x \o y
           L == Len(l)
<1>1. n \in Nat /\ m \in Nat /\ L \in Nat /\ Len(xy) = n + m
  BY LenProperties, ConcatProperties
<1>2. \A j \in 1..(n + m) : xy[j] = IF j <= n THEN x[j] ELSE y[j - n]
  BY ConcatProperties
<1>3. p + Len(xy) <= L /\ \A j \in 1..Len(xy) : l[p + j] = xy[j]
  BY DEF Lies
<1> HIDE DEF n, m, xy, L
<1>4. ASSUME NEW j \in 1..n PROVE l[p + j] = x[j]
  <2>1. j \in 1..(n + m) /\ j <= n
    BY <1>1
  <2> QED
    BY <1>1, <1>2, <1>3, <2>1
<1>5. ASSUME NEW j \in 1..m PROVE l[(p + n) + j] = y[j]
  <2>1. n + j \in 1..(n + m) /\ ~(n + j <= n) /\ (n + j) - n = j /\ p + (n + j) = (p + n) + j
    BY <1>1
  <2>2. l[p + (n + j)] = xy[n + j]
    BY <1>1, <1>3, <2>1
  <2>3. xy[n + j] = y[(n + j) - n]
    BY <1>2, <2>1
  <2> QED
    BY <2>1, <2>2, <2>3
<1>6. p + n <= L /\ (p + n) + m <= L
  BY <1>1, <1>3
<1> QED
  BY <1>4, <1>5, <1>6 DEF Lies, n, m, L

\* What a sequence becomes by appending piece after piece begins with what it was.
Grows(X, Y, N, S) ==
  /\ \A n \in 0..N : X[n] \in Seq(S)
  /\ \A n \in Nat : n < N => Y[n + 1] \in Seq(S) /\ X[n + 1] = X[n] \o Y[n + 1]

LEMMA BeginsWith ==
  ASSUME NEW S, NEW N \in Nat, NEW X, NEW Y, Grows(X, Y, N, S), NEW k \in 0..N
  PROVE  Lies(X[k], X[N], 0)
<1> DEFINE T == {m \in Nat : k <= m /\ m <= N => Lies(X[k], X[m], 0)}
<1>1. 0 \in T
  <2> SUFFICES ASSUME k <= 0 PROVE Lies(X[k], X[0], 0)
    OBVIOUS
  <2>1. k = 0 /\ X[0] \in Seq(S)
    BY DEF Grows
  <2>2. Len(X[0]) \in Nat
    BY <2>1, LenProperties
  <2> QED
    BY <2>1, <2>2 DEF Lies
<1>2. ASSUME NEW m \in T PROVE m + 1 \in T
  <2> SUFFICES ASSUME k <= m + 1, m + 1 <= N PROVE Lies(X[k], X[m + 1], 0)
    OBVIOUS
  <2>1. m \in Nat /\ (k <= m => Lies(X[k], X[m], 0))
    OBVIOUS
  <2> HIDE DEF T
  <2>2. m \in 0..N /\ m < N /\ m + 1 \in 0..N
    BY <2>1
  <2> DEFINE x == X[m]
             y == Y[m + 1]
  <2>3. x \in Seq(S) /\ y \in Seq(S) /\ X[m + 1] = x \o y /\ X[k] \in Seq(S)
    BY <2>1, <2>2 DEF Grows
  <2>4. CASE k = m + 1
    <3>1. Len(X[k]) \in Nat
      BY <2>3, LenProperties
    <3> QED
      BY <2>4, <3>1 DEF Lies
  <2>5. CASE k # m + 1
    <3>1. Lies(X[k], x, 0)
      BY <2>1, <2>5
    <3> DEFINE z == X[k]
    <3>2. Len(z) \in Nat /\ Len(x) \in Nat /\ Len(y) \in Nat
      BY <2>3, LenProperties
    <3> HIDE DEF x, y, z
    <3>3. Len(x \o y) = Len(x) + Len(y) /\ \A j \in 1..Len(x) : (x \o y)[j] = x[j]
      BY <2>3, <3>2, ConcatProperties
    <3>4. Len(z) <= Len(x) /\ \A j \in 1..Len(z) : x[j] = z[j]
      BY <3>1, <3>2 DEF Lies, z
    <3>5. Lies(z, x \o y, 0)
      BY <3>2, <3>3, <3>4 DEF Lies
    <3> QED
      BY <2>3, <3>5 DEF z
  <2> QED
    BY <2>4, <2>5
<1>3. T \in SUBSET Nat
  OBVIOUS
<1>4. T = Nat
  <2> HIDE DEF T
  <2> QED
    BY <1>1, <1>2, <1>3, NaturalsByInduction
<1> QED
  BY <1>4

\* A piece lies behind what was before it.
LEMMA PieceLies ==
  ASSUME NEW S, NEW N \in Nat, NEW X, NEW Y, Grows(X, Y, N, S), NEW k \in Nat, k < N
  PROVE  Lies(Y[k + 1], X[N], Len(X[k]))
<1> DEFINE x == X[k]
           y == Y[k + 1]
           l == X[N]
<1>1. x \in Seq(S) /\ y \in Seq(S) /\ X[k + 1] = x \o y /\ l \in Seq(S)
  <2>1. k \in 0..N /\ N \in 0..N
    OBVIOUS
  <2> QED
    BY <2>1 DEF Grows
<1>2. Lies(X[k + 1], l, 0)
  <2>1. k + 1 \in 0..N
    OBVIOUS
  <2> QED
    BY <2>1, BeginsWith
<1> HIDE DEF x, y, l
<1>3. Lies(y, l, 0 + Len(x))
  BY <1>1, <1>2, PartsLie
<1>4. 0 + Len(x) = Len(x)
  BY <1>1, LenProperties
<1> QED
  BY <1>3, <1>4 DEF x, y, l

(***************************************************************************)
(* The texts of tokens and numbers.                                        *)
(***************************************************************************)
Character == 0..Comma

LEMMA DigitsAreCharacters ==
  ASSUME NEW n \in 0..MaxUint
  PROVE  Base36[n] \in Seq(Character) /\ Len(Base36[n]) \in Nat \ {0}
<1>1. Base36[n] \in Seq(0..35) /\ Base36[n] # <<>>
  BY DecodesBase36
<1>2. 0..35 \subseteq Character
  BY DEF Character, Comma
<1> QED
  BY <1>1, <1>2, SeqMonotonic, EmptySeq

LEMMA RepetitionText ==
  ASSUME NEW t \in Token
  PROVE  /\ Repetition(t) \in Seq(Character)
         /\ t.count = 1 => Repetition(t) = <<>>
         /\ t.count # 1 => /\ t.count \in 0..MaxUint
                           /\ Repetition(t) = <<Star>> \o Base36[t.count] \o <<Star>>
<1>1. t.count \in 0..MaxUint
  <2>1. t.count \in 1..MaxUint
    BY DecompressAssumption DEF Token
  <2> QED
    BY <2>1, DecompressAssumption
<1>2. <<Star>> \in Seq(Character)
  BY DEF Star, Character, Comma
<1>3. Base36[t.count] \in Seq(Character)
  BY <1>1, DigitsAreCharacters
<1>4. <<Star>> \o Base36[t.count] \o <<Star>> \in Seq(Character)
  BY <1>2, <1>3, ConcatProperties
<1>5. <<>> \in Seq(Character)
  BY EmptySeq
<1> QED
  BY <1>1, <1>4, <1>5, Zenon DEF Repetition

\* What a number of a mode may be.
Fits(m, n) == /\ m \in {"small", "large", "percent"} /\ n \in 0..MaxUint
              /\ m = "percent" => n <= 100

LEMMA NumberTexts ==
  ASSUME NEW m, NEW n, Fits(m, n), NEW last \in BOOLEAN
  PROVE  /\ NumberText(m, n, last) \in Seq(Character)
         /\ Len(NumberText(m, n, last)) \in Nat \ {0}
<1>1. n \in Nat /\ n \in 0..MaxUint
  BY DecompressAssumption DEF Fits
<1> DEFINE d == Base36[n]
<1>2. d \in Seq(Character) /\ Len(d) \in Nat \ {0}
  BY <1>1, DigitsAreCharacters
<1> HIDE DEF d
<1>3. CASE m = "small" /\ n < 64
  <2>1. NumberText(m, n, last) = <<n>>
    BY <1>3 DEF NumberText
  <2>2. n \in Character
    BY <1>1, <1>3 DEF Character, Comma
  <2> QED
    BY <2>1, <2>2
<1>4. CASE m = "small" /\ ~(n < 64)
  <2>1. NumberText(m, n, last) = <<Wrap>> \o d \o <<Wrap>>
    BY <1>4 DEF NumberText, d
  <2>2. <<Wrap>> \in Seq(Character) /\ Len(<<Wrap>>) = 1
    BY DEF Wrap, Character, Comma
  <2>3. <<Wrap>> \o d \in Seq(Character) /\ Len(<<Wrap>> \o d) = 1 + Len(d)
    BY <1>2, <2>2, ConcatProperties
  <2>4. /\ <<Wrap>> \o d \o <<Wrap>> \in Seq(Character)
        /\ Len(<<Wrap>> \o d \o <<Wrap>>) = (1 + Len(d)) + 1
    BY <2>2, <2>3, ConcatProperties
  <2> QED
    BY <1>2, <2>1, <2>4
<1>5. CASE m = "large" /\ last
  <2>1. NumberText(m, n, last) = d
    BY <1>5 DEF NumberText, d
  <2> QED
    BY <1>2, <2>1
<1>6. CASE m = "large" /\ ~last
  <2>1. NumberText(m, n, last) = Append(d, Comma)
    BY <1>6 DEF NumberText, d
  <2>2. Comma \in Character
    BY DEF Character, Comma
  <2> QED
    BY <1>2, <2>1, <2>2, AppendProperties
<1>7. CASE m = "percent" /\ n = 100
  <2>1. NumberText(m, n, last) = <<Underscore, Underscore>>
    BY <1>7 DEF NumberText
  <2>2. Underscore \in Character
    BY DEF Underscore, Character, Comma
  <2> QED
    BY <2>1, <2>2
<1>8. CASE m = "percent" /\ n # 100
  <2>1. NumberText(m, n, last) = <<n \div 10, n % 10>>
    BY <1>8 DEF NumberText
  <2>2. n <= 100
    BY <1>8 DEF Fits
  <2>3. n \div 10 \in 0..10 /\ n % 10 \in 0..9
    BY <1>1, <2>2
  <2>4. n \div 10 \in Character /\ n % 10 \in Character
    BY <2>3 DEF Character, Comma
  <2> QED
    BY <2>1, <2>4
<1> QED
  BY <1>3, <1>4, <1>5, <1>6, <1>7, <1>8 DEF Fits

\* A sender's tokens are of a known mode and its numbers.
LEMMA TokensFit ==
  ASSUME NEW m \in Modes, NEW ts \in Seq(Token), Encodable(m, ts), NEW k \in 1..Len(ts)
  PROVE  /\ ts[k] \in Token /\ Fits(m, ts[k].num) /\ ts[k].count \in 1..MaxUint
<1>1. ts[k] \in Token
  BY ElementOfSeq
<1>2. ts[k].num \in 0..MaxUint /\ ts[k].count \in 1..MaxUint
  BY <1>1, DecompressAssumption DEF Token
<1>3. m \in {"small", "large", "percent"}
  BY DecompressAssumption DEF Encodable
<1>4. m = "percent" => ts[k].num <= 100
  BY LenProperties DEF Encodable
<1> QED
  BY <1>1, <1>2, <1>3, <1>4 DEF Fits

LEMMA TokenTexts ==
  ASSUME NEW m \in Modes, NEW ts \in Seq(Token), Encodable(m, ts), NEW k \in 1..Len(ts)
  PROVE  /\ Repetition(ts[k]) \in Seq(Character)
         /\ NumberText(m, ts[k].num, k = Len(ts)) \in Seq(Character)
         /\ TokenText(m, ts, k) \in Seq(Character)
         /\ Len(TokenText(m, ts, k)) =
              Len(Repetition(ts[k])) + Len(NumberText(m, ts[k].num, k = Len(ts)))
<1>1. ts[k] \in Token /\ Fits(m, ts[k].num)
  BY TokensFit
<1> DEFINE r == Repetition(ts[k])
           x == NumberText(m, ts[k].num, k = Len(ts))
<1>2. r \in Seq(Character)
  BY <1>1, RepetitionText
<1>3. x \in Seq(Character)
  BY <1>1, NumberTexts
<1>4. TokenText(m, ts, k) = r \o x
  BY DEF TokenText
<1> HIDE DEF r, x
<1>5. r \o x \in Seq(Character) /\ Len(r \o x) = Len(r) + Len(x)
  BY <1>2, <1>3, ConcatProperties
<1> QED
  BY <1>2, <1>3, <1>4, <1>5 DEF r, x

\* X is what FlattenSeq makes of the first members of Y, for more and more of them.
Collects(X, Y, N) == \A n \in 0..N : X[n] = FlattenSeq([k \in 1..n |-> Y[k]])

LEMMA FlatteningGrows ==
  ASSUME NEW S, NEW N \in Nat, NEW Y \in [1..N -> Seq(S)], NEW X, Collects(X, Y, N)
  PROVE  Grows(X, Y, N, S)
<1>1. ASSUME NEW n \in Nat, n < N
      PROVE  X[n] \in Seq(S) /\ Y[n + 1] \in Seq(S) /\ X[n + 1] = X[n] \o Y[n + 1]
  <2> DEFINE s == [k \in 1..n |-> Y[k]]
             t == [k \in 1..(n + 1) |-> Y[k]]
  <2>1. s \in [1..n -> Seq(S)] /\ t \in [1..(n + 1) -> Seq(S)]
    BY <1>1
  <2>2. (\A k \in 1..n : s[k] = t[k]) /\ t[n + 1] = Y[n + 1] /\ Y[n + 1] \in Seq(S)
    BY <1>1
  <2>3. n \in 0..N /\ n + 1 \in 0..N
    BY <1>1
  <2>4. X[n] = FlattenSeq(s) /\ X[n + 1] = FlattenSeq(t)
    BY <2>3 DEF Collects
  <2> HIDE DEF s, t
  <2>5. FlattenSeq(s) \in Seq(S) /\ FlattenSeq(t) = FlattenSeq(s) \o t[n + 1]
    BY <2>1, <2>2, FlattenSeqStep
  <2> QED
    BY <2>2, <2>4, <2>5
<1>2. X[N] \in Seq(S)
  <2>1. CASE N = 0
    <3>1. X[0] = FlattenSeq([k \in 1..0 |-> Y[k]])
      BY <2>1 DEF Collects
    <3>2. X[0] = <<>>
      BY <3>1 DEF FlattenSeq
    <3> QED
      BY <2>1, <3>2, EmptySeq
  <2>2. CASE N # 0
    <3>1. N - 1 \in Nat /\ N - 1 < N /\ (N - 1) + 1 = N
      BY <2>2
    <3>2. X[N - 1] \in Seq(S) /\ Y[N] \in Seq(S) /\ X[N] = X[N - 1] \o Y[N]
      BY <1>1, <3>1
    <3> QED
      BY <3>2, ConcatProperties
  <2> QED
    BY <2>1, <2>2
<1>3. \A n \in 0..N : X[n] \in Seq(S)
  <2> TAKE n \in 0..N
  <2>1. n = N \/ (n \in Nat /\ n < N)
    OBVIOUS
  <2> QED
    BY <1>1, <1>2, <2>1
<1> QED
  BY <1>1, <1>3 DEF Grows

\* The text of the tokens so far grows by the next one's, their numbers by its copies.
TextSoFar(m, ts) == [n \in 0..Len(ts) |-> TextBefore(m, ts, n)]
TokenTextOf(m, ts) == [n \in 1..Len(ts) |-> TokenText(m, ts, n)]
NumbersSoFar(ts) == [n \in 0..Len(ts) |-> NumbersBefore(ts, n)]
CopiesOf(ts) == [n \in 1..Len(ts) |-> Copies(ts[n])]

LEMMA TextGrows ==
  ASSUME NEW m \in Modes, NEW ts \in Seq(Token), Encodable(m, ts)
  PROVE  Grows(TextSoFar(m, ts), TokenTextOf(m, ts), Len(ts), Character)
<1> DEFINE N == Len(ts)
           X == TextSoFar(m, ts)
           Y == TokenTextOf(m, ts)
<1>1. N \in Nat
  BY LenProperties
<1>2. \A k \in 1..N : TokenText(m, ts, k) \in Seq(Character)
  BY TokenTexts
<1>3. Y \in [1..N -> Seq(Character)]
  BY <1>2 DEF TokenTextOf
<1>4. ASSUME NEW n \in 0..N PROVE X[n] = FlattenSeq([k \in 1..n |-> Y[k]])
  <2>1. [k \in 1..n |-> Y[k]] = [k \in 1..n |-> TokenText(m, ts, k)]
    BY <1>1 DEF TokenTextOf
  <2>2. X[n] = TextBefore(m, ts, n)
    BY DEF TextSoFar
  <2> QED
    BY <2>1, <2>2 DEF TextBefore
<1> HIDE DEF N, X, Y
<1>5. Grows(X, Y, N, Character)
  BY <1>1, <1>3, <1>4, FlatteningGrows DEF Collects
<1> QED
  BY <1>5 DEF X, Y, N

LEMMA CopiesTyped ==
  ASSUME NEW t \in Token
  PROVE  Copies(t) \in Seq(0..MaxUint) /\ Len(Copies(t)) = t.count
<1>1. t.count \in 1..MaxUint /\ t.num \in 0..MaxUint
  BY DecompressAssumption DEF Token
<1>2. t.count \in Nat
  BY <1>1, DecompressAssumption
<1> DEFINE n == t.count
           c == t.num
<1>3. Copies(t) = [j \in 1..n |-> c]
  BY DEF Copies
<1>4. n \in Nat /\ c \in 0..MaxUint
  BY <1>1, <1>2
<1> HIDE DEF n, c
<1>5. [j \in 1..n |-> c] \in Seq(0..MaxUint) /\ Len([j \in 1..n |-> c]) = n
  BY <1>4
<1> QED
  BY <1>3, <1>5 DEF n

LEMMA NumbersGrow ==
  ASSUME NEW ts \in Seq(Token)
  PROVE  Grows(NumbersSoFar(ts), CopiesOf(ts), Len(ts), 0..MaxUint)
<1> DEFINE N == Len(ts)
           X == NumbersSoFar(ts)
           Y == CopiesOf(ts)
<1>1. N \in Nat
  BY LenProperties
<1>2. \A k \in 1..N : Copies(ts[k]) \in Seq(0..MaxUint)
  BY ElementOfSeq, CopiesTyped
<1>3. Y \in [1..N -> Seq(0..MaxUint)]
  BY <1>2 DEF CopiesOf
<1>4. ASSUME NEW n \in 0..N PROVE X[n] = FlattenSeq([k \in 1..n |-> Y[k]])
  <2>1. [k \in 1..n |-> Y[k]] = [k \in 1..n |-> Copies(ts[k])]
    BY <1>1 DEF CopiesOf
  <2>2. X[n] = NumbersBefore(ts, n)
    BY DEF NumbersSoFar
  <2> QED
    BY <2>1, <2>2 DEF NumbersBefore
<1> HIDE DEF N, X, Y
<1>5. Grows(X, Y, N, 0..MaxUint)
  BY <1>1, <1>3, <1>4, FlatteningGrows DEF Collects
<1> QED
  BY <1>5 DEF X, Y, N

(***************************************************************************)
(* Where the tokens of a log are, and what they stand for.                 *)
(***************************************************************************)
LEMMA TokenLies ==
  ASSUME NEW m \in Modes, NEW ts \in Seq(Token), Encodable(m, ts), NEW k \in Nat, k < Len(ts)
  PROVE  /\ TextBefore(m, ts, k) \in Seq(Character) /\ Encode(m, ts) \in Seq(Character)
         /\ Lies(Repetition(ts[k + 1]), Encode(m, ts), Len(TextBefore(m, ts, k)))
         /\ Lies(NumberText(m, ts[k + 1].num, k + 1 = Len(ts)), Encode(m, ts),
                 Len(TextBefore(m, ts, k)) + Len(Repetition(ts[k + 1])))
         /\ Len(TextBefore(m, ts, k + 1)) =
              Len(TextBefore(m, ts, k)) + Len(Repetition(ts[k + 1]))
                + Len(NumberText(m, ts[k + 1].num, k + 1 = Len(ts)))
         /\ Len(TextBefore(m, ts, k + 1)) <= Len(Encode(m, ts))
<1> DEFINE N == Len(ts)
           X == TextSoFar(m, ts)
           Y == TokenTextOf(m, ts)
           r == Repetition(ts[k + 1])
           x == NumberText(m, ts[k + 1].num, k + 1 = Len(ts))
           b == TextBefore(m, ts, k)
           a == TextBefore(m, ts, k + 1)
           l == Encode(m, ts)
<1>1. N \in Nat /\ k + 1 \in 1..N /\ k + 1 \in 0..N /\ k \in 0..N /\ N \in 0..N
  BY LenProperties
<1>2. /\ r \in Seq(Character) /\ x \in Seq(Character)
      /\ Len(TokenText(m, ts, k + 1)) = Len(r) + Len(x)
  BY <1>1, TokenTexts
<1>3. TokenText(m, ts, k + 1) = r \o x /\ Y[k + 1] = TokenText(m, ts, k + 1)
  BY <1>1 DEF TokenText, TokenTextOf
<1>4. X[k] = b /\ X[k + 1] = a /\ X[N] = l
  BY <1>1 DEF TextSoFar, Encode
<1> HIDE DEF r, x, a, b, l, N, X, Y
<1>5. Grows(X, Y, N, Character)
  BY TextGrows DEF X, Y, N
<1>6. k < N
  BY DEF N
<1>7. b \in Seq(Character) /\ a \in Seq(Character) /\ l \in Seq(Character) /\ a = b \o (r \o x)
  BY <1>1, <1>3, <1>4, <1>5, <1>6 DEF Grows
<1>8. Lies(r \o x, l, Len(b))
  BY <1>1, <1>3, <1>4, <1>5, <1>6, PieceLies
<1>9. Len(b) \in Nat
  BY <1>7, LenProperties
<1>10. Lies(r, l, Len(b)) /\ Lies(x, l, Len(b) + Len(r))
  BY <1>2, <1>7, <1>8, <1>9, PartsLie
<1>11. Len(a) = Len(b) + Len(r) + Len(x)
  <2> DEFINE rx == r \o x
  <2>1. rx \in Seq(Character) /\ Len(rx) = Len(r) + Len(x)
    BY <1>2, ConcatProperties
  <2>2. a = b \o rx
    BY <1>7
  <2> HIDE DEF rx
  <2>3. Len(a) = Len(b) + Len(rx)
    BY <1>7, <2>1, <2>2, ConcatProperties
  <2>4. Len(r) \in Nat /\ Len(x) \in Nat
    BY <1>2, LenProperties
  <2> QED
    BY <1>9, <2>1, <2>3, <2>4
<1>12. Len(a) <= Len(l)
  <2>1. Lies(a, l, 0)
    BY <1>1, <1>4, <1>5, BeginsWith
  <2>2. Len(a) \in Nat
    BY <1>7, LenProperties
  <2> QED
    BY <2>1, <2>2 DEF Lies
<1> QED
  BY <1>7, <1>10, <1>11, <1>12 DEF r, x, a, b, l

LEMMA NumbersLie ==
  ASSUME NEW ts \in Seq(Token), NEW k \in 0..Len(ts)
  PROVE  /\ NumbersBefore(ts, k) \in Seq(0..MaxUint) /\ Expand(ts) \in Seq(0..MaxUint)
         /\ IsPrefix(NumbersBefore(ts, k), Expand(ts))
         /\ k < Len(ts) => NumbersBefore(ts, k + 1) = NumbersBefore(ts, k) \o Copies(ts[k + 1])
<1> DEFINE N == Len(ts)
           X == NumbersSoFar(ts)
           Y == CopiesOf(ts)
           b == NumbersBefore(ts, k)
           l == Expand(ts)
<1>1. N \in Nat /\ N \in 0..N /\ k \in Nat
  BY LenProperties
<1>2. X[k] = b /\ X[N] = l
  BY <1>1 DEF NumbersSoFar, Expand
<1>3. k < N => X[k + 1] = NumbersBefore(ts, k + 1) /\ Y[k + 1] = Copies(ts[k + 1])
  BY <1>1 DEF NumbersSoFar, CopiesOf
<1>4. Grows(X, Y, N, 0..MaxUint) /\ k \in 0..N
  BY NumbersGrow
<1> HIDE DEF N, X, Y, b, l
<1>5. b \in Seq(0..MaxUint) /\ l \in Seq(0..MaxUint)
  BY <1>1, <1>2, <1>4 DEF Grows
<1>6. IsPrefix(b, l)
  <2>1. Lies(b, l, 0)
    BY <1>1, <1>2, <1>4, BeginsWith
  <2>2. Len(b) \in Nat /\ Len(l) \in Nat /\ SubSeq(b, 1, Len(b)) = b
    BY <1>5, LenProperties, SubSeqFull
  <2>3. Len(b) <= Len(l) /\ \A j \in 1..Len(b) : l[j] = b[j]
    BY <2>1, <2>2 DEF Lies
  <2>4. SubSeq(l, 1, Len(b)) = b
    <3>1. \A j \in 1..Len(b) : l[j] \in 0..MaxUint
      BY <1>5, <2>3, ElementOfSeq
    <3> DEFINE p == SubSeq(l, 1, Len(b))
    <3>2. /\ p \in Seq(0..MaxUint) /\ Len(p) = IF 1 <= Len(b) THEN Len(b) - 1 + 1 ELSE 0
          /\ \A j \in 1..(Len(b) - 1 + 1) : p[j] = l[1 + j - 1]
      BY <2>2, <3>1, SubSeqProperties
    <3> HIDE DEF p
    <3>3. Len(p) = Len(b) /\ \A j \in 1..Len(b) : p[j] = b[j]
      BY <2>2, <2>3, <3>2
    <3>4. p = b
      BY <1>5, <3>2, <3>3, SeqEqual
    <3> QED
      BY <3>4 DEF p
  <2> QED
    BY <2>2, <2>3, <2>4 DEF IsPrefix
<1>7. k < N => NumbersBefore(ts, k + 1) = b \o Copies(ts[k + 1])
  BY <1>1, <1>2, <1>3, <1>4 DEF Grows
<1> QED
  BY <1>5, <1>6, <1>7 DEF N, b, l

(***************************************************************************)
(* Marks.                                                                  *)
(***************************************************************************)
\* The first of the marks from k on is found.
IsNext(mark, k, j) ==
  j \in k..Len(logData) /\ logData[j] = mark /\ \A h \in k..(j - 1) : logData[h] # mark

LEMMA NextMarkIsFirst ==
  ASSUME ScanTypeOK, NEW mark, NEW k \in Nat, Marked(mark, k)
  PROVE  IsNext(mark, k, NextMark(mark, k))
<1>1. Len(logData) \in Nat
  BY LenProperties DEF ScanTypeOK
<1>2. PICK e \in k..Len(logData) : logData[e] = mark
  BY DEF Marked
<1> DEFINE Free(n) == \A h \in k..(k + n - 1) : logData[h] # mark
           T == {n \in Nat : Free(n) \/ \E j : IsNext(mark, k, j)}
<1>3. 0 \in T
  <2>1. k..(k + 0 - 1) = {}
    OBVIOUS
  <2> QED
    BY <2>1
<1>4. ASSUME NEW n \in T PROVE n + 1 \in T
  <2> SUFFICES ASSUME ~\E j : IsNext(mark, k, j) PROVE Free(n + 1)
    OBVIOUS
  <2>1. n \in Nat /\ Free(n)
    OBVIOUS
  <2> HIDE DEF T
  <2> SUFFICES ASSUME logData[k + n] = mark PROVE FALSE
    BY <2>1
  <2>2. k + n <= e
    <3>1. k + n > e => e \in k..(k + n - 1)
      BY <1>1, <2>1
    <3> QED
      BY <1>1, <1>2, <2>1, <3>1
  <2>3. k + n \in k..Len(logData)
    BY <1>1, <2>1, <2>2
  <2>4. IsNext(mark, k, k + n)
    BY <2>1, <2>3 DEF IsNext
  <2> QED
    BY <2>4
<1>5. T \in SUBSET Nat
  OBVIOUS
<1>6. T = Nat
  <2> HIDE DEF T
  <2> QED
    BY <1>3, <1>4, <1>5, NaturalsByInduction
<1>7. e - k + 1 \in Nat /\ e \in k..(k + (e - k + 1) - 1)
  BY <1>1
<1>8. ~Free(e - k + 1)
  BY <1>2, <1>7
<1>9. \E j : IsNext(mark, k, j)
  BY <1>6, <1>7, <1>8
<1>10. \E j \in k..Len(logData) : logData[j] = mark /\ \A h \in k..(j - 1) : logData[h] # mark
  BY <1>9 DEF IsNext
<1> QED
  BY <1>10 DEF NextMark, IsNext

\* What is between k and the next mark is made of characters.
LEMMA BetweenMarks ==
  ASSUME ScanTypeOK, NEW mark, NEW k \in Nat \ {0}, Marked(mark, k)
  PROVE  /\ NextMark(mark, k) \in k..Len(logData)
         /\ SubSeq(logData, k, NextMark(mark, k) - 1) \in Seq(0..Comma)
<1> DEFINE e == NextMark(mark, k)
<1>1. Len(logData) \in Nat /\ logData \in Seq(0..Comma)
  BY LenProperties DEF ScanTypeOK
<1>2. e \in k..Len(logData)
  BY NextMarkIsFirst DEF IsNext
<1> HIDE DEF e
<1>3. \A j \in k..(e - 1) : logData[j] \in 0..Comma
  <2> TAKE j \in k..(e - 1)
  <2>1. j \in 1..Len(logData)
    BY <1>1, <1>2
  <2> QED
    BY <1>1, <2>1, ElementOfSeq
<1>4. e - 1 \in Int /\ k \in Int
  BY <1>1, <1>2
<1>5. SubSeq(logData, k, e - 1) \in Seq(0..Comma)
  BY <1>3, <1>4, SubSeqProperties
<1> QED
  BY <1>2, <1>5 DEF e

\* Digits before a mark are found as such: no digit is a mark.
LEMMA DigitsUpToMark ==
  ASSUME ScanTypeOK, NEW mark \in {Star, Wrap, Comma}, NEW p \in Nat, NEW d \in Seq(0..35),
         Lies(d, logData, p), p + Len(d) + 1 <= Len(logData), logData[p + Len(d) + 1] = mark
  PROVE  /\ Marked(mark, p + 1)
         /\ NextMark(mark, p + 1) = p + 1 + Len(d)
         /\ SubSeq(logData, p + 1, NextMark(mark, p + 1) - 1) = d
<1> DEFINE e == p + Len(d) + 1
           x == NextMark(mark, p + 1)
<1>1. Len(d) \in Nat /\ Len(logData) \in Nat /\ e \in (p + 1)..Len(logData) /\ logData[e] = mark
  BY LenProperties DEF ScanTypeOK
<1>2. \A j \in 1..Len(d) : logData[p + j] \in 0..35
  BY ElementOfSeq DEF Lies
<1>3. ASSUME NEW h \in (p + 1)..(e - 1) PROVE logData[h] # mark
  <2>1. h - p \in 1..Len(d) /\ p + (h - p) = h
    BY <1>1
  <2>2. logData[h] \in 0..35
    BY <1>2, <2>1
  <2>3. mark \in {64, 65, 66}
    BY DEF Star, Wrap, Comma
  <2>4. \A c \in 0..35 : c \notin {64, 65, 66}
    OBVIOUS
  <2> QED
    BY <2>2, <2>3, <2>4
<1>4. Marked(mark, p + 1)
  BY <1>1 DEF Marked
<1>5. IsNext(mark, p + 1, x)
  <2>1. p + 1 \in Nat
    OBVIOUS
  <2> QED
    BY <1>4, <2>1, NextMarkIsFirst
<1> HIDE DEF e, x
<1>6. x = e
  <2>1. /\ x \in (p + 1)..Len(logData) /\ logData[x] = mark
        /\ \A h \in (p + 1)..(x - 1) : logData[h] # mark
    BY <1>5 DEF IsNext
  <2>2. ~(e \in (p + 1)..(x - 1)) /\ ~(x \in (p + 1)..(e - 1))
    BY <1>1, <1>3, <2>1
  <2> QED
    BY <1>1, <2>1, <2>2
<1>7. SubSeq(logData, p + 1, e - 1) = d
  <2> DEFINE s == SubSeq(logData, p + 1, e - 1)
  <2>1. e - 1 = p + Len(d) /\ (e - 1) - (p + 1) + 1 = Len(d) /\ e - 1 \in Int /\ p + 1 \in Int
    BY <1>1 DEF e
  <2>2. \A j \in (p + 1)..(e - 1) : logData[j] \in 0..35
    <3> TAKE j \in (p + 1)..(e - 1)
    <3>1. j - p \in 1..Len(d) /\ p + (j - p) = j
      BY <1>1, <2>1
    <3> QED
      BY <1>2, <3>1
  <2>3. /\ s \in Seq(0..35) /\ Len(s) = IF p + 1 <= e - 1 THEN (e - 1) - (p + 1) + 1 ELSE 0
        /\ \A j \in 1..((e - 1) - (p + 1) + 1) : s[j] = logData[(p + 1) + j - 1]
    BY <2>1, <2>2, SubSeqProperties
  <2> HIDE DEF s
  <2>4. Len(s) = Len(d)
    BY <1>1, <2>1, <2>3
  <2>5. ASSUME NEW j \in 1..Len(s) PROVE s[j] = d[j]
    <3>1. j \in 1..Len(d) /\ (p + 1) + j - 1 = p + j
      BY <2>4, <1>1
    <3>2. s[j] = logData[p + j]
      BY <2>1, <2>3, <3>1
    <3> QED
      BY <3>1, <3>2 DEF Lies
  <2>6. s = d
    BY <2>3, <2>4, <2>5, SeqEqual
  <2> QED
    BY <2>6 DEF s
<1> QED
  BY <1>1, <1>4, <1>6, <1>7 DEF e, x

(***************************************************************************)
(* The types of the scanner.                                               *)
(***************************************************************************)
\* Behind the log by at most one, and that behind a last large number.
End == Len(logData) + IF mode = "large" THEN 1 ELSE 0

LEMMA EmitTyped ==
  ASSUME ScanTypeOK, NEW n \in 0..MaxUint, NEW taken, pos + taken \in 0..End, Emit(n, taken)
  PROVE  ScanTypeOK'
<1> DEFINE c == IF repeat > 1 THEN repeat ELSE 1
           s == [j \in 1..c |-> n]
<1>1. MaxUint \in Nat /\ MaxUint >= 100
  BY DecompressAssumption
<1>2. c \in Nat
  BY <1>1 DEF ScanTypeOK
<1>3. s \in Seq(0..MaxUint)
  <2> HIDE DEF c
  <2> QED
    BY <1>2
<1>4. out' = out \o s
  BY DEF Emit
<1> HIDE DEF c, s
<1>5. out' \in Seq(0..MaxUint)
  BY <1>3, <1>4, ConcatProperties DEF ScanTypeOK
<1>6. 1 \in 0..MaxUint
  BY <1>1
<1>7. /\ num' = n /\ repeat' = 1 /\ pos' = pos + taken /\ scan' = scan
      /\ mode' = mode /\ logData' = logData /\ tokens' = tokens /\ encoded' = encoded
  BY DEF Emit, log
<1>8. pos' \in 0..End
  BY <1>7
<1> QED
  BY <1>5, <1>6, <1>7, <1>8 DEF ScanTypeOK, End

LEMMA PercentTyped ==
  ASSUME NEW a \in 0..Comma, NEW b \in 0..Comma
  PROVE  Percent(a, b) \in 0..MaxUint
<1>1. MaxUint \in Nat /\ MaxUint >= 100 /\ a \in 0..66 /\ b \in 0..66
  BY DecompressAssumption DEF Comma
<1> QED
  BY <1>1 DEF Percent

LEMMA StepTyped ==
  ASSUME ScanTypeOK, [ScanNext]_scanVars
  PROVE  ScanTypeOK'
<1>1. MaxUint \in Nat /\ MaxUint >= 100
  BY DecompressAssumption
<1>2. /\ Len(logData) \in Nat /\ logData \in Seq(0..Comma) /\ pos \in 0..End
      /\ pos \in Nat /\ End \in Nat /\ Len(logData) <= End
  BY LenProperties DEF ScanTypeOK, End
<1>3. Turn => /\ pos < Len(logData) /\ Here \in 0..Comma
              /\ pos + 1 \in Nat \ {0} /\ pos + 2 \in Nat \ {0}
  <2>1. Turn => pos + 1 \in 1..Len(logData)
    BY <1>2 DEF Turn
  <2>2. Turn => logData[pos + 1] \in 0..Comma
    BY <1>2, <2>1, ElementOfSeq
  <2> QED
    BY <1>2, <2>2 DEF Turn, Here
<1>4. \A c \in 0..Comma : c \in 0..MaxUint /\ Digit36(c) \in 0..MaxUint
  <2> TAKE c \in 0..Comma
  <2>1. c \in 0..66
    BY DEF Comma
  <2>2. Digit36(c) \in Nat /\ Digit36(c) < 36
    BY DigitIsSmall
  <2> HIDE DEF Digit36
  <2> QED
    BY <1>1, <2>1, <2>2
<1>5. CASE LoneMark
  <2>1. pos + 1 \in 0..End
    BY <1>2, <1>3, <1>5 DEF LoneMark
  <2> QED
    BY <1>5, <2>1 DEF LoneMark, log, ScanTypeOK, End
<1>6. CASE Repeat
  <2> DEFINE e == NextMark(Star, pos + 2)
             v == Value36(SubSeq(logData, pos + 2, e - 1))
  <2>1. e \in (pos + 2)..Len(logData) /\ SubSeq(logData, pos + 2, e - 1) \in Seq(0..Comma)
    BY <1>3, <1>6, BetweenMarks DEF Repeat
  <2>2. v \in 0..MaxUint
    BY <2>1, ValuesAreNumbers
  <2>3. repeat' = v /\ pos' = e /\ UNCHANGED <<log, num, out, scan>>
    BY <1>6 DEF Repeat
  <2> HIDE DEF e, v
  <2>4. e \in 0..End
    BY <1>2, <2>1
  <2> QED
    BY <2>2, <2>3, <2>4 DEF log, ScanTypeOK, End
<1>7. CASE WrappedNumber
  <2> DEFINE e == NextMark(Wrap, pos + 2)
             v == Value36(SubSeq(logData, pos + 2, e - 1))
  <2>1. e \in (pos + 2)..Len(logData) /\ SubSeq(logData, pos + 2, e - 1) \in Seq(0..Comma)
    BY <1>3, <1>7, BetweenMarks DEF WrappedNumber
  <2>2. v \in 0..MaxUint
    BY <2>1, ValuesAreNumbers
  <2>3. Emit(v, e - pos)
    BY <1>7 DEF WrappedNumber
  <2> HIDE DEF e, v
  <2>4. pos + (e - pos) \in 0..End
    BY <1>2, <2>1
  <2> QED
    BY <2>2, <2>3, <2>4, EmitTyped
<1>8. CASE SmallNumber
  <2> DEFINE n == IF Here = Comma THEN 0 ELSE Here
  <2>1. Turn /\ Emit(n, 1)
    BY <1>8 DEF SmallNumber, Plain
  <2>2. n \in 0..MaxUint
    BY <1>1, <1>3, <1>4, <2>1
  <2>3. pos + 1 \in 0..End
    BY <1>2, <1>3, <2>1
  <2> HIDE DEF n
  <2> QED
    BY <2>1, <2>2, <2>3, EmitTyped
<1>9. CASE LargeNumber
  <2> DEFINE e == NextMark(Comma, pos + 1)
             v == Value36(SubSeq(logData, pos + 1, e - 1))
  <2>1. e \in (pos + 1)..Len(logData) /\ SubSeq(logData, pos + 1, e - 1) \in Seq(0..Comma)
    BY <1>3, <1>9, BetweenMarks DEF LargeNumber, Plain
  <2>2. v \in 0..MaxUint
    BY <2>1, ValuesAreNumbers
  <2>3. Emit(v, e - pos)
    BY <1>9 DEF LargeNumber
  <2> HIDE DEF e, v
  <2>4. pos + (e - pos) \in 0..End
    BY <1>2, <2>1
  <2> QED
    BY <2>2, <2>3, <2>4, EmitTyped
<1>10. CASE LastLargeNumber
  <2> DEFINE n == Digit36(Here)
  <2>1. Turn /\ mode = "large" /\ Emit(n, Len(logData) + 1 - pos)
    BY <1>10 DEF LastLargeNumber, Plain
  <2>2. n \in 0..MaxUint
    BY <1>3, <1>4, <2>1
  <2>3. pos + (Len(logData) + 1 - pos) \in 0..End
    BY <1>2, <2>1 DEF End
  <2> HIDE DEF n
  <2> QED
    BY <2>1, <2>2, <2>3, EmitTyped
<1>11. CASE PercentNumber
  <2> DEFINE n == Percent(Here, logData[pos + 2])
  <2>1. Turn /\ pos + 2 <= Len(logData) /\ Emit(n, 2)
    BY <1>11 DEF PercentNumber, Plain
  <2>2. logData[pos + 2] \in 0..Comma
    <3>1. pos + 2 \in 1..Len(logData)
      BY <1>2, <2>1
    <3> QED
      BY <1>2, <3>1, ElementOfSeq
  <2>3. n \in 0..MaxUint
    BY <1>3, <2>1, <2>2, PercentTyped
  <2>4. pos + 2 \in 0..End
    BY <1>2, <2>1
  <2> HIDE DEF n
  <2> QED
    BY <2>1, <2>3, <2>4, EmitTyped
<1>12. CASE UnknownMode
  <2>1. Turn /\ Emit(num, 1) /\ num \in 0..MaxUint
    BY <1>12 DEF UnknownMode, Plain, ScanTypeOK
  <2>2. pos + 1 \in 0..End
    BY <1>2, <1>3, <2>1
  <2> QED
    BY <2>1, <2>2, EmitTyped
<1>13. CASE Panic \/ Return \/ UNCHANGED scanVars
  BY <1>13 DEF Panic, Return, scanVars, log, ScanTypeOK, End
<1> QED
  BY <1>5, <1>6, <1>7, <1>8, <1>9, <1>10, <1>11, <1>12, <1>13 DEF ScanNext

(***************************************************************************)
(* The scanner at a token.                                                 *)
(***************************************************************************)
\* Digits between two marks.
Between(mark, n) == <<mark>> \o Base36[n] \o <<mark>>

LEMMA BetweenLies ==
  ASSUME ScanTypeOK, NEW mark \in {Star, Wrap}, NEW n \in 0..MaxUint,
         Lies(Between(mark, n), logData, pos)
  PROVE  /\ pos < Len(logData) /\ Here = mark
         /\ Marked(mark, pos + 2)
         /\ NextMark(mark, pos + 2) = pos + Len(Between(mark, n))
         /\ Value36(SubSeq(logData, pos + 2, NextMark(mark, pos + 2) - 1)) = n
<1> DEFINE d == Base36[n]
           md == <<mark>> \o d
           L == Len(d)
<1>1. d \in Seq(0..35) /\ L \in Nat /\ Value36(d) = n
  BY DecodesBase36, LenProperties
<1>2. mark \in Character /\ <<mark>> \in Seq(Character) /\ Len(<<mark>>) = 1
  BY DEF Character, Comma, Star, Wrap
<1>3. d \in Seq(Character)
  BY DigitsAreCharacters
<1>4. logData \in Seq(Character) /\ Len(logData) \in Nat /\ pos \in Nat
  BY LenProperties DEF ScanTypeOK, Character
<1>5. Between(mark, n) = md \o <<mark>>
  BY DEF Between
<1> HIDE DEF d
<1>6. md \in Seq(Character) /\ Len(md) = 1 + L
  BY <1>2, <1>3, ConcatProperties
<1> HIDE DEF md
<1>7. Len(Between(mark, n)) = (1 + L) + 1
  BY <1>2, <1>5, <1>6, ConcatProperties
<1>8. Lies(md, logData, pos) /\ Lies(<<mark>>, logData, pos + (1 + L))
  BY <1>2, <1>4, <1>5, <1>6, PartsLie
<1>9. Lies(<<mark>>, logData, pos) /\ Lies(d, logData, pos + 1)
  BY <1>2, <1>3, <1>4, <1>8, PartsLie DEF md
<1> HIDE DEF L
<1>10. pos + 1 <= Len(logData) /\ logData[pos + 1] = mark
  <2>1. 1 \in 1..Len(<<mark>>) /\ <<mark>>[1] = mark
    OBVIOUS
  <2> QED
    BY <1>2, <1>9, <2>1 DEF Lies
<1>11. (pos + (1 + L)) + 1 <= Len(logData) /\ logData[(pos + (1 + L)) + 1] = mark
  <2>1. 1 \in 1..Len(<<mark>>) /\ <<mark>>[1] = mark
    OBVIOUS
  <2> QED
    BY <1>2, <1>8, <2>1 DEF Lies
<1> DEFINE p == pos + 1
<1>12. p \in Nat /\ p + L + 1 = (pos + (1 + L)) + 1 /\ p + 1 = pos + 2
       /\ p + 1 + L = pos + ((1 + L) + 1)
  BY <1>1, <1>4
<1>13. p + L + 1 <= Len(logData) /\ logData[p + L + 1] = mark /\ Lies(d, logData, p)
  BY <1>9, <1>11, <1>12
<1> HIDE DEF p
<1>14. mark \in {Star, Wrap, Comma}
  OBVIOUS
<1>15. /\ Marked(mark, p + 1) /\ NextMark(mark, p + 1) = p + 1 + L
       /\ SubSeq(logData, p + 1, NextMark(mark, p + 1) - 1) = d
  BY <1>1, <1>12, <1>13, <1>14, DigitsUpToMark DEF L
<1>16. NextMark(mark, pos + 2) = pos + Len(Between(mark, n))
  BY <1>7, <1>12, <1>15
<1>17. Marked(mark, pos + 2) /\ Value36(SubSeq(logData, pos + 2, NextMark(mark, pos + 2) - 1)) = n
  BY <1>1, <1>12, <1>15
<1>18. pos < Len(logData)
  BY <1>4, <1>10
<1> QED
  BY <1>10, <1>16, <1>17, <1>18 DEF Here

\* Stars are not wraps, and neither is a digit or a comma.
LEMMA MarksDiffer == Star # Wrap /\ \A c \in 0..63 : c # Star /\ c # Wrap
BY DEF Star, Wrap

\* At a repetition, the scanner reads its count.
LEMMA RepetitionStep ==
  ASSUME ScanTypeOK, NEW n \in 0..MaxUint, Lies(Between(Star, n), logData, pos), ScanNext
  PROVE  /\ repeat' = n /\ pos' = pos + Len(Between(Star, n))
         /\ UNCHANGED <<log, num, out, scan>>
<1>1. /\ pos < Len(logData) /\ Here = Star /\ Marked(Star, pos + 2)
      /\ NextMark(Star, pos + 2) = pos + Len(Between(Star, n))
      /\ Value36(SubSeq(logData, pos + 2, NextMark(Star, pos + 2) - 1)) = n
  BY BetweenLies
<1>2. ~(pos >= Len(logData))
  BY <1>1, LenProperties DEF ScanTypeOK
<1>3. Repeat
  BY <1>1, <1>2, MarksDiffer
     DEF ScanNext, LoneMark, WrappedNumber, SmallNumber, LargeNumber, LastLargeNumber,
         PercentNumber, Panic, UnknownMode, Return, Plain
<1> QED
  BY <1>1, <1>3 DEF Repeat

\* What a number's turn does: the number is appended as often as it is repeated.
Takes(n, len) ==
  /\ out' = out \o [j \in 1..(IF repeat > 1 THEN repeat ELSE 1) |-> n]
  /\ repeat' = 1 /\ pos' = pos + len /\ UNCHANGED <<log, scan>>

LEMMA WrappedStep ==
  ASSUME ScanTypeOK, NEW n \in 0..MaxUint, Lies(Between(Wrap, n), logData, pos), ScanNext
  PROVE  Takes(n, Len(Between(Wrap, n)))
<1> DEFINE L == Len(Between(Wrap, n))
<1>1. /\ pos < Len(logData) /\ Here = Wrap /\ Marked(Wrap, pos + 2)
      /\ NextMark(Wrap, pos + 2) = pos + L
      /\ Value36(SubSeq(logData, pos + 2, NextMark(Wrap, pos + 2) - 1)) = n
  BY BetweenLies
<1>2. ~(pos >= Len(logData)) /\ pos \in Nat
  BY <1>1, LenProperties DEF ScanTypeOK
<1>3. WrappedNumber
  BY <1>1, <1>2, MarksDiffer
     DEF ScanNext, LoneMark, Repeat, SmallNumber, LargeNumber, LastLargeNumber,
         PercentNumber, Panic, UnknownMode, Return, Plain
<1>4. Emit(n, NextMark(Wrap, pos + 2) - pos)
  BY <1>1, <1>3 DEF WrappedNumber
<1>5. pos + (NextMark(Wrap, pos + 2) - pos) = pos + L
  <2>1. NextMark(Wrap, pos + 2) \in Int
    <3>1. pos + 2 \in Nat \ {0}
      BY <1>2
    <3> QED
      BY <1>1, <3>1, BetweenMarks
  <2> QED
    BY <1>1, <1>2, <2>1
<1> HIDE DEF L
<1> QED
  BY <1>4, <1>5 DEF Emit, Takes, L

\* A turn at a character that is no mark is the one of the mode.
LEMMA PlainStep ==
  ASSUME ScanTypeOK, pos < Len(logData), Here \in 0..63, ScanNext
  PROVE  /\ mode = "small" => Emit(Here, 1)
         /\ mode = "large" => LargeNumber \/ LastLargeNumber
         /\ mode = "percent" /\ pos + 2 <= Len(logData) => Emit(Percent(Here, logData[pos + 2]), 2)
<1>1. ~(pos >= Len(logData)) /\ Here # Star /\ Here # Wrap /\ Here # Comma
  <2>1. Here # Comma
    BY DEF Comma
  <2>2. pos \in Nat /\ Len(logData) \in Nat
    BY LenProperties DEF ScanTypeOK
  <2>3. ~(pos >= Len(logData))
    BY <2>2
  <2> QED
    BY <2>1, <2>3, MarksDiffer
<1>2. SmallNumber \/ LargeNumber \/ LastLargeNumber \/ PercentNumber \/ Panic \/ UnknownMode
  BY <1>1 DEF ScanNext, LoneMark, Repeat, WrappedNumber, Return
<1>3. mode = "small" => Emit(Here, 1)
  BY <1>1, <1>2 DEF SmallNumber, LargeNumber, LastLargeNumber, PercentNumber, Panic, UnknownMode
<1>4. mode = "large" => LargeNumber \/ LastLargeNumber
  BY <1>2 DEF SmallNumber, PercentNumber, Panic, UnknownMode
<1>5. ~(pos + 2 <= Len(logData) /\ pos + 2 > Len(logData))
  BY LenProperties DEF ScanTypeOK
<1>6. mode = "percent" /\ pos + 2 <= Len(logData) => Emit(Percent(Here, logData[pos + 2]), 2)
  BY <1>2, <1>5 DEF SmallNumber, LargeNumber, LastLargeNumber, PercentNumber, Panic, UnknownMode
<1> QED
  BY <1>3, <1>4, <1>6

\* It goes to the end of the number's text x, or behind the log.
Taken(n, x, last) ==
  \E len \in Nat : Takes(n, len) /\ (len = Len(x) \/ (last /\ pos + len >= Len(logData)))

\* At a number, the scanner takes it.  Of a last large number the code reads one
\* character, and leaves the log.
LEMMA NumberStep ==
  ASSUME ScanTypeOK, ScanNext, NEW n, Fits(mode, n), NEW last \in BOOLEAN,
         Lies(NumberText(mode, n, last), logData, pos),
         last => pos + Len(NumberText(mode, n, last)) = Len(logData),
         mode = "large" /\ last => n < 36
  PROVE  Taken(n, NumberText(mode, n, last), last)
<1> DEFINE x == NumberText(mode, n, last)
<1>1. n \in Nat /\ n \in 0..MaxUint
  BY DecompressAssumption DEF Fits
<1>2. pos \in Nat /\ Len(logData) \in Nat
  BY LenProperties DEF ScanTypeOK
<1>3. Lies(x, logData, pos) /\ (last => pos + Len(x) = Len(logData))
  OBVIOUS
<1>4. ASSUME NEW c, x = <<c>>
      PROVE  Len(x) = 1 /\ pos + 1 <= Len(logData) /\ pos < Len(logData) /\ Here = c
  <2>1. Len(x) = 1 /\ x[1] = c
    BY <1>4
  <2> HIDE DEF x
  <2> QED
    BY <1>2, <1>3, <2>1 DEF Lies, Here
<1>5. CASE mode = "small" /\ n < 64
  <2>1. x = <<n>>
    BY <1>5 DEF NumberText
  <2>2. Len(x) = 1 /\ pos < Len(logData) /\ Here = n
    BY <1>4, <2>1
  <2>3. Emit(n, 1)
    BY <1>1, <1>5, <2>2, PlainStep
  <2> HIDE DEF x
  <2>4. Takes(n, 1) /\ 1 \in Nat /\ 1 = Len(x)
    BY <2>2, <2>3 DEF Emit, Takes
  <2> QED
    BY <2>4 DEF Taken, x
<1>6. CASE mode = "small" /\ ~(n < 64)
  <2>1. x = Between(Wrap, n)
    BY <1>6 DEF NumberText, Between
  <2>2. Takes(n, Len(x))
    BY <1>1, <1>3, <2>1, WrappedStep
  <2>3. Len(x) \in Nat
    BY NumberTexts
  <2> HIDE DEF x
  <2> QED
    BY <2>2, <2>3 DEF Taken, x
<1>7. CASE mode = "large" /\ ~last
  <2> DEFINE d == Base36[n]
             L == Len(d)
  <2>1. x = Append(d, Comma)
    BY <1>7 DEF NumberText
  <2>2. d \in Seq(0..35) /\ L \in Nat \ {0} /\ Value36(d) = n
    BY <1>1, DecodesBase36, EmptySeq
  <2>3. d \in Seq(Character) /\ <<Comma>> \in Seq(Character) /\ logData \in Seq(Character)
        /\ Comma \in Character
    BY <1>1, DigitsAreCharacters DEF ScanTypeOK, Character, Comma
  <2> HIDE DEF d, x
  <2>4. x = d \o <<Comma>> /\ Len(x) = L + 1
    BY <2>1, <2>3, AppendIsConcat, AppendProperties
  <2>5. Lies(d, logData, pos) /\ Lies(<<Comma>>, logData, pos + L)
    BY <1>2, <1>3, <2>3, <2>4, PartsLie
  <2> HIDE DEF L
  <2>6. pos + L + 1 <= Len(logData) /\ logData[pos + L + 1] = Comma
    <3>1. Len(<<Comma>>) = 1 /\ <<Comma>>[1] = Comma /\ 1 \in 1..1
      OBVIOUS
    <3> QED
      BY <2>5, <3>1 DEF Lies
  <2>7. Here \in 0..63 /\ pos < Len(logData)
    <3>1. 1 \in 1..L /\ d[1] \in 0..35
      <4>1. 1 \in 1..L
        BY <2>2
      <4>2. d[1] \in 0..35
        BY <2>2, <4>1, ElementOfSeq DEF L
      <4> QED
        BY <4>1, <4>2
    <3>2. logData[pos + 1] = d[1]
      BY <2>5, <3>1 DEF Lies, L
    <3> QED
      BY <1>2, <2>2, <2>6, <3>1, <3>2 DEF Here
  <2>8. /\ Marked(Comma, pos + 1) /\ NextMark(Comma, pos + 1) = pos + 1 + L
        /\ SubSeq(logData, pos + 1, NextMark(Comma, pos + 1) - 1) = d
    BY <1>2, <2>2, <2>5, <2>6, DigitsUpToMark DEF L
  <2>9. LargeNumber
    BY <1>7, <2>7, <2>8, PlainStep DEF LastLargeNumber
  <2>10. Emit(n, NextMark(Comma, pos + 1) - pos)
    BY <2>2, <2>8, <2>9 DEF LargeNumber
  <2>11. NextMark(Comma, pos + 1) - pos = L + 1
    BY <1>2, <2>2, <2>8
  <2>12. Takes(n, L + 1) /\ L + 1 \in Nat
    BY <2>2, <2>10, <2>11 DEF Emit, Takes
  <2>13. Takes(n, Len(x)) /\ Len(x) \in Nat
    BY <2>4, <2>12
  <2> QED
    BY <2>13 DEF Taken, x
<1>8. CASE mode = "large" /\ last
  <2>1. x = <<n>> /\ n < 36
    BY <1>1, <1>8, Base36Digits DEF NumberText, DigitsOf
  <2>2. Len(x) = 1 /\ pos < Len(logData) /\ Here = n /\ pos + 1 = Len(logData)
    BY <1>3, <1>4, <1>8, <2>1
  <2>3. ~Marked(Comma, pos + 1)
    <3>1. \A j \in (pos + 1)..Len(logData) : j = pos + 1
      BY <1>2, <2>2
    <3>2. Here # Comma
      BY <1>1, <2>1, <2>2 DEF Comma
    <3> QED
      BY <3>1, <3>2 DEF Marked, Here
  <2>4. LastLargeNumber
    BY <1>1, <1>8, <2>1, <2>2, <2>3, PlainStep DEF LargeNumber
  <2>5. Emit(n, Len(logData) + 1 - pos)
    <3>1. Digit36(n) = n
      BY <2>1 DEF Digit36
    <3> QED
      BY <2>2, <2>4, <3>1 DEF LastLargeNumber
  <2>6. Len(logData) + 1 - pos \in Nat /\ pos + (Len(logData) + 1 - pos) >= Len(logData)
    BY <1>2, <2>2
  <2>7. Takes(n, Len(logData) + 1 - pos)
    BY <2>5 DEF Emit, Takes
  <2> HIDE DEF x
  <2> QED
    BY <1>8, <2>6, <2>7 DEF Taken, x
<1>9. CASE mode = "percent"
  <2> DEFINE a == IF n = 100 THEN Underscore ELSE n \div 10
             b == IF n = 100 THEN Underscore ELSE n % 10
  <2>1. n <= 100
    BY <1>9 DEF Fits
  <2>2. n # 100 => n \div 10 \in 0..9 /\ n % 10 \in 0..9 /\ n = 10 * (n \div 10) + (n % 10)
    BY <1>1, <2>1
  <2>3. x = <<a, b>>
    BY <1>9 DEF NumberText
  <2>4. a \in 0..63 /\ b \in 0..63 /\ Percent(a, b) = n
    <3>1. CASE n = 100
      BY <3>1 DEF Percent, Underscore
    <3>2. CASE n # 100
      BY <2>2, <3>2 DEF Percent, Underscore
    <3> QED
      BY <3>1, <3>2
  <2> HIDE DEF a, b
  <2>5. Len(x) = 2 /\ x[1] = a /\ x[2] = b /\ 1 \in 1..2 /\ 2 \in 1..2
    BY <2>3
  <2> HIDE DEF x
  <2>6. pos + 2 <= Len(logData) /\ pos < Len(logData) /\ Here = a /\ logData[pos + 2] = b
    BY <1>2, <1>3, <2>5 DEF Lies, Here
  <2>7. Emit(n, 2)
    BY <1>9, <2>4, <2>6, PlainStep
  <2>8. Takes(n, 2) /\ 2 \in Nat /\ 2 = Len(x)
    BY <2>5, <2>7 DEF Emit, Takes
  <2> QED
    BY <2>8 DEF Taken, x
<1> QED
  BY <1>5, <1>6, <1>7, <1>8, <1>9 DEF Fits

(***************************************************************************)
(* The invariant of the scanner.                                           *)
(***************************************************************************)
LEMMA BoundedSequences ==
  ASSUME NEW S, NEW n \in Nat, NEW s \in SeqOf(S, n)
  PROVE  s \in Seq(S)
<1>1. PICK m \in 0..n : s \in [1..m -> S]
  BY DEF SeqOf
<1>2. m \in Nat
  OBVIOUS
<1> QED
  BY <1>1, <1>2

LEMMA EncodeTyped ==
  ASSUME NEW m \in Modes, NEW ts \in Seq(Token), Encodable(m, ts)
  PROVE  Encode(m, ts) \in Seq(0..Comma)
<1>1. Len(ts) \in Nat /\ Len(ts) \in 0..Len(ts)
  BY LenProperties
<1>2. TextSoFar(m, ts)[Len(ts)] = Encode(m, ts)
  BY <1>1 DEF TextSoFar, Encode
<1>3. TextSoFar(m, ts)[Len(ts)] \in Seq(Character)
  BY <1>1, TextGrows DEF Grows
<1> QED
  BY <1>2, <1>3 DEF Character

LEMMA InitScan == ScanInit => ScanIInv
<1> SUFFICES ASSUME ScanInit PROVE ScanIInv
  OBVIOUS
<1>1. tokens \in Seq(Token) /\ encoded \in BOOLEAN /\ mode \in Modes
  <2>1. tokens \in SeqOf(Token, MaxTokens) => tokens \in Seq(Token)
    BY BoundedSequences, DecompressAssumption
  <2>2. <<>> \in Seq(Token)
    BY EmptySeq
  <2> QED
    BY <2>1, <2>2 DEF ScanInit
<1>2. IsEncoded
  BY DEF ScanInit, IsEncoded
<1>3. logData \in Seq(0..Comma)
  <2>1. CASE encoded
    BY <1>1, <1>2, <2>1, EncodeTyped DEF IsEncoded
  <2>2. CASE ~encoded
    <3>1. logData \in SeqOf(Char, MaxText)
      BY <2>2 DEF ScanInit
    <3>2. Char \subseteq 0..Comma /\ MaxText \in Nat
      BY DecompressAssumption
    <3>3. logData \in Seq(Char)
      BY <3>1, <3>2, BoundedSequences
    <3> QED
      BY <3>2, <3>3, SeqMonotonic
  <2> QED
    BY <1>1, <2>1, <2>2
<1>4. ScanTypeOK
  <2>1. MaxUint \in Nat /\ 1 \in 0..MaxUint /\ 0 \in 0..MaxUint
    BY DecompressAssumption
  <2>2. 0 \in 0..(Len(logData) + IF mode = "large" THEN 1 ELSE 0)
    BY <1>3, LenProperties
  <2>3. <<>> \in Seq(0..MaxUint)
    BY EmptySeq
  <2> QED
    BY <1>1, <1>3, <2>1, <2>2, <2>3 DEF ScanInit, ScanTypeOK
<1>5. Scanned
  <2>1. TextBefore(mode, tokens, 0) = <<>> /\ NumbersBefore(tokens, 0) = <<>>
    BY DEF TextBefore, NumbersBefore, FlattenSeq
  <2>2. 0 \in 0..Len(tokens)
    BY <1>1, LenProperties
  <2>3. out = NumbersBefore(tokens, 0) /\ AtToken(0) /\ scan = "loop"
    BY <2>1, EmptySeq DEF ScanInit, AtToken
  <2> QED
    BY <2>2, <2>3 DEF Scanned
<1> QED
  BY <1>2, <1>4, <1>5 DEF ScanIInv

\* A log of a sender whose last large number is one digit.
OfASender == encoded /\ LastIsRead

\* The scanner with k numbers taken.
Reached(k) == /\ k \in 0..Len(tokens) /\ out = NumbersBefore(tokens, k)
              /\ AtToken(k) \/ AtNumber(k) \/ AtEnd(k)

\* Inside the log it is before the text of a number, or of a repetition.
LEMMA InsideTheLog ==
  ASSUME ScanIInv, OfASender, NEW k, Reached(k), pos < Len(logData)
  PROVE  /\ k \in Nat /\ k < Len(tokens) /\ k + 1 \in 1..Len(tokens)
         /\ AtToken(k) \/ AtNumber(k)
<1>1. Len(tokens) \in Nat /\ Len(logData) \in Nat /\ pos \in Nat
  BY LenProperties DEF ScanIInv, ScanTypeOK
<1>2. k \in 0..Len(tokens)
  BY DEF Reached
<1>3. ~AtEnd(k)
  BY <1>1 DEF AtEnd
<1>4. k # Len(tokens)
  <2> SUFFICES ASSUME k = Len(tokens) PROVE FALSE
    OBVIOUS
  <2>1. ~AtNumber(k)
    BY <1>1 DEF AtNumber
  <2>2. pos = Len(TextBefore(mode, tokens, k))
    BY <1>3, <2>1 DEF Reached, AtToken
  <2>3. logData = TextBefore(mode, tokens, k)
    BY DEF ScanIInv, IsEncoded, OfASender, Encode
  <2> QED
    BY <1>1, <2>2, <2>3
<1> QED
  BY <1>1, <1>2, <1>3, <1>4 DEF Reached

\* One turn takes it from there to the next place.
LEMMA TokenStep ==
  ASSUME ScanIInv, OfASender, NEW k, Reached(k), pos < Len(logData), ScanNext
  PROVE  scan' = scan /\ (Reached(k) \/ Reached(k + 1))'
<1>1. ScanTypeOK /\ mode \in Modes /\ tokens \in Seq(Token) /\ Encodable(mode, tokens)
      /\ logData = Encode(mode, tokens)
  BY DEF ScanIInv, ScanTypeOK, IsEncoded, OfASender
<1>2. k \in Nat /\ k < Len(tokens) /\ k + 1 \in 1..Len(tokens) /\ (AtToken(k) \/ AtNumber(k))
  BY InsideTheLog
<1> DEFINE t == tokens[k + 1]
           last == k + 1 = Len(tokens)
           b == TextBefore(mode, tokens, k)
           r == Repetition(t)
           x == NumberText(mode, t.num, last)
           N == Len(tokens)
<1>3. t \in Token /\ Fits(mode, t.num) /\ t.count \in 1..MaxUint /\ t.count \in 0..MaxUint
  <2>1. t \in Token /\ Fits(mode, t.num) /\ t.count \in 1..MaxUint
    BY <1>1, <1>2, TokensFit
  <2> QED
    BY <2>1, RepetitionText, DecompressAssumption
<1>4. /\ Lies(r, logData, Len(b)) /\ Lies(x, logData, Len(b) + Len(r))
      /\ Len(TextBefore(mode, tokens, k + 1)) = Len(b) + Len(r) + Len(x)
      /\ b \in Seq(Character)
  BY <1>1, <1>2, TokenLies
<1>5. /\ r \in Seq(Character) /\ (t.count = 1 => r = <<>>)
      /\ t.count # 1 => r = Between(Star, t.count)
  BY <1>3, RepetitionText DEF Between
<1>6. Len(x) \in Nat \ {0}
  BY <1>3, NumberTexts
<1>7. Len(b) \in Nat /\ Len(r) \in Nat /\ N \in Nat /\ pos \in Nat /\ Len(logData) \in Nat
  BY <1>1, <1>4, <1>5, LenProperties DEF ScanTypeOK
<1>8. out = NumbersBefore(tokens, k)
  BY DEF Reached
<1>9. CASE AtToken(k) /\ t.count # 1
  <2>1. Lies(Between(Star, t.count), logData, pos)
    BY <1>4, <1>5, <1>9 DEF AtToken
  <2>2. /\ repeat' = t.count /\ pos' = pos + Len(r)
        /\ UNCHANGED <<log, num, out, scan>>
    BY <1>1, <1>3, <1>5, <1>9, <2>1, RepetitionStep
  <2>3. mode' = mode /\ tokens' = tokens
    BY <2>2 DEF log
  <2>4. AtNumber(k)'
    BY <1>2, <1>9, <2>2, <2>3 DEF AtNumber, AtToken
  <2>5. Reached(k)'
    BY <1>2, <1>7, <1>8, <2>2, <2>3, <2>4 DEF Reached
  <2> QED
    BY <2>2, <2>5
<1>10. CASE (AtToken(k) /\ t.count = 1) \/ AtNumber(k)
  <2>1. pos = Len(b) + Len(r) /\ repeat = t.count
    <3>1. CASE AtToken(k) /\ t.count = 1
      <4>1. Len(r) = 0
        BY <1>5, <3>1, EmptySeq
      <4>2. pos = Len(b) /\ repeat = 1
        BY <3>1 DEF AtToken
      <4> QED
        BY <1>7, <3>1, <4>1, <4>2
    <3>2. CASE AtNumber(k)
      BY <3>2 DEF AtNumber
    <3> QED
      BY <1>10, <3>1, <3>2
  <2>2. Lies(x, logData, pos)
    BY <1>4, <2>1
  <2>3. last => pos + Len(x) = Len(logData)
    <3>1. last => logData = TextBefore(mode, tokens, k + 1)
      BY <1>1 DEF Encode
    <3> QED
      BY <1>4, <2>1, <3>1
  <2>4. mode = "large" /\ last => t.num < 36
    <3>1. tokens # <<>>
      BY <1>2, EmptySeq
    <3>2. last => Last(tokens) = t
      BY DEF Last
    <3> QED
      BY <3>1, <3>2 DEF OfASender, LastIsRead
  <2>5. last \in BOOLEAN
    OBVIOUS
  <2> HIDE DEF last
  <2>6. Taken(t.num, x, last)
    BY <1>1, <1>3, <2>2, <2>3, <2>4, <2>5, NumberStep
  <2>7. PICK len \in Nat : /\ Takes(t.num, len)
                           /\ len = Len(x) \/ (last /\ pos + len >= Len(logData))
    BY <2>6 DEF Taken
  <2>8. /\ out' = out \o [j \in 1..(IF repeat > 1 THEN repeat ELSE 1) |-> t.num]
        /\ repeat' = 1 /\ pos' = pos + len /\ scan' = scan
        /\ mode' = mode /\ tokens' = tokens /\ logData' = logData
    BY <2>7 DEF Takes, log
  <2>9. out' = NumbersBefore(tokens, k + 1)
    <3>1. (IF repeat > 1 THEN repeat ELSE 1) = t.count
      BY <1>3, <2>1, DecompressAssumption
    <3>2. [j \in 1..(IF repeat > 1 THEN repeat ELSE 1) |-> t.num] = Copies(t)
      BY <3>1 DEF Copies
    <3>3. k \in 0..Len(tokens)
      BY <1>2, <1>7
    <3>4. NumbersBefore(tokens, k + 1) = NumbersBefore(tokens, k) \o Copies(t)
      BY <1>1, <1>2, <3>3, NumbersLie
    <3> QED
      BY <1>8, <2>8, <3>2, <3>4
  <2>10. (AtToken(k + 1) \/ AtEnd(k + 1))'
    <3>1. CASE len = Len(x)
      <4>1. pos' = Len(TextBefore(mode, tokens, k + 1))
        BY <1>4, <2>1, <2>8, <3>1
      <4> QED
        BY <2>8, <4>1 DEF AtToken
    <3>2. CASE last /\ pos + len >= Len(logData)
      BY <2>8, <3>2 DEF AtEnd, last
    <3> QED
      BY <2>7, <3>1, <3>2
  <2>11. k + 1 \in 0..Len(tokens)
    BY <1>2, <1>7
  <2>12. Reached(k + 1)'
    BY <2>8, <2>9, <2>10, <2>11 DEF Reached
  <2> QED
    BY <2>8, <2>12
<1>11. t.count = 1 \/ t.count # 1
  OBVIOUS
<1> QED
  BY <1>2, <1>9, <1>10, <1>11

\* Every turn keeps the invariant.
LEMMA StepScan == ScanIInv /\ [ScanNext]_scanVars => ScanIInv'
<1> SUFFICES ASSUME ScanIInv, [ScanNext]_scanVars PROVE ScanIInv'
  OBVIOUS
<1>1. ScanTypeOK'
  BY StepTyped DEF ScanIInv
<1>2. UNCHANGED log
  BY DEF ScanNext, LoneMark, Repeat, WrappedNumber, SmallNumber, LargeNumber, LastLargeNumber,
         PercentNumber, Panic, UnknownMode, Return, Emit, scanVars, log
<1>3. IsEncoded'
  BY <1>2 DEF ScanIInv, IsEncoded, log
<1>4. Scanned'
  <2> SUFFICES ASSUME OfASender PROVE Scanned'
    BY <1>2 DEF Scanned, OfASender, LastIsRead, log
  <2>1. PICK k : Reached(k)
    BY DEF ScanIInv, Scanned, OfASender, Reached
  <2>2. scan \in {"loop", "done"} /\ (scan = "done" => pos >= Len(logData))
    BY DEF ScanIInv, ScanTypeOK, Scanned, OfASender
  <2>3. pos \in Nat /\ Len(logData) \in Nat
    BY LenProperties DEF ScanIInv, ScanTypeOK
  <2>4. CASE UNCHANGED scanVars
    BY <2>4 DEF ScanIInv, Scanned, LastIsRead, AtToken, AtNumber, AtEnd, scanVars
  <2>5. CASE ScanNext /\ pos < Len(logData)
    <3>1. scan' = scan /\ (Reached(k) \/ Reached(k + 1))'
      BY <2>1, <2>5, TokenStep
    <3>2. scan' = "loop"
      BY <2>2, <2>3, <2>5, <3>1
    <3>3. \E h \in 0..Len(tokens') :
            out' = NumbersBefore(tokens', h) /\ (AtToken(h) \/ AtNumber(h) \/ AtEnd(h))'
      BY <3>1 DEF Reached
    <3> QED
      BY <3>2, <3>3 DEF Scanned
  <2>6. CASE ScanNext /\ ~(pos < Len(logData))
    <3>1. Return
      BY <2>6 DEF ScanNext, LoneMark, Repeat, WrappedNumber, SmallNumber, LargeNumber,
         LastLargeNumber, PercentNumber, Panic, UnknownMode, Plain, Turn
    <3>2. /\ scan' = "done" /\ pos >= Len(logData)
          /\ UNCHANGED <<mode, logData, tokens, pos, repeat, out>>
      BY <3>1 DEF Return, log
    <3>3. Reached(k)'
      BY <2>1, <3>2 DEF Reached, AtToken, AtNumber, AtEnd
    <3>4. \E h \in 0..Len(tokens') :
            out' = NumbersBefore(tokens', h) /\ (AtToken(h) \/ AtNumber(h) \/ AtEnd(h))'
      BY <3>3 DEF Reached
    <3> QED
      BY <3>2, <3>4 DEF Scanned
  <2> QED
    BY <2>4, <2>5, <2>6
<1> QED
  BY <1>1, <1>3, <1>4 DEF ScanIInv

THEOREM ScanInductive == ScanSpec => []ScanIInv
BY InitScan, StepScan, PTL DEF ScanSpec

\* Whatever the text and the mode, every variable has the type its declaration says,
\* and the scanner goes behind the log by one at most (decompress.go:46-129).
THEOREM ScanTypeCorrect == ScanSpec => []ScanTypeOK
BY ScanInductive, PTL DEF ScanIInv

\* What a sender wrote comes out of DecompressBucketLog: any numbers of 64 bits, any
\* number of them, repeated any number of times.
THEOREM WhatWasEncodedIsDecoded == ScanSpec => []DecodesWhatWasEncoded
<1>1. ScanIInv => DecodesWhatWasEncoded
  <2> SUFFICES ASSUME ScanIInv, OfASender
               PROVE  /\ IsPrefix(out, Expand(tokens))
                      /\ scan = "done" => out = Expand(tokens)
                      /\ scan # "panic"
    BY DEF DecodesWhatWasEncoded, OfASender
  <2>1. PICK k : Reached(k)
    BY DEF ScanIInv, Scanned, OfASender, Reached
  <2>2. tokens \in Seq(Token) /\ k \in 0..Len(tokens) /\ out = NumbersBefore(tokens, k)
    BY <2>1 DEF ScanIInv, ScanTypeOK, Reached
  <2>3. IsPrefix(out, Expand(tokens))
    BY <2>2, NumbersLie
  <2>4. ASSUME scan = "done" PROVE out = Expand(tokens)
    <3>1. pos >= Len(logData)
      BY <2>4 DEF ScanIInv, Scanned, OfASender
    <3>2. k = Len(tokens)
      <4> SUFFICES ASSUME k # Len(tokens) PROVE FALSE
        OBVIOUS
      <4>1. mode \in Modes /\ Encodable(mode, tokens) /\ logData = Encode(mode, tokens)
        BY DEF ScanIInv, ScanTypeOK, IsEncoded, OfASender
      <4>2. k \in Nat /\ k < Len(tokens) /\ k + 1 \in 1..Len(tokens)
        BY <2>2, LenProperties
      <4> DEFINE b == TextBefore(mode, tokens, k)
                 r == Repetition(tokens[k + 1])
                 x == NumberText(mode, tokens[k + 1].num, k + 1 = Len(tokens))
      <4>3. /\ b \in Seq(Character) /\ Lies(x, logData, Len(b) + Len(r))
        BY <2>2, <4>1, <4>2, TokenLies
      <4>4. r \in Seq(Character) /\ Len(x) \in Nat \ {0}
        BY <2>2, <4>1, <4>2, TokenTexts, TokensFit, NumberTexts
      <4>5. Len(b) \in Nat /\ Len(r) \in Nat /\ Len(logData) \in Nat
        BY <4>3, <4>4, LenProperties DEF ScanIInv, ScanTypeOK
      <4>6. pos = Len(b) \/ pos = Len(b) + Len(r)
        BY <2>1, <4>2 DEF Reached, AtToken, AtNumber, AtEnd
      <4>7. Len(b) + Len(r) + Len(x) <= Len(logData)
        BY <4>3 DEF Lies
      <4> QED
        BY <3>1, <4>4, <4>5, <4>6, <4>7
    <3> QED
      BY <2>2, <3>2 DEF Expand
  <2>5. scan # "panic"
    BY DEF ScanIInv, Scanned, OfASender
  <2> QED
    BY <2>3, <2>4, <2>5
<1> QED
  BY <1>1, ScanInductive, PTL
=============================================================================
