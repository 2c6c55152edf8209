----------------------------- MODULE Decompress -----------------------------
(***************************************************************************)
(* DecompressBucketLog (beacon/decompress.go), one turn of its loop at a   *)
(* time: a scanner that takes a log of numbers apart.  The first character *)
(* of the log is its mode; in every mode *n* before a number repeats it n  *)
(* times, and .n. is a number beyond the mode's own.                       *)
(*                                                                         *)
(* A character is its value among 0-9 a-z A-Z _ - or one of three marks.   *)
(* The scanner is run on what a sender that keeps to the format may write, *)
(* and on any short text.  (Scan in a name: Texts_proofs is about Archive, *)
(* too.)                                                                   *)
(***************************************************************************)
EXTENDS Integers, Sequences, SequencesExt

CONSTANTS Modes,
          Number, Count,  \* the numbers a log holds, how often each is repeated
          MaxTokens,      \* bound of the numbers in a log, repetitions apart
          Char, MaxText,  \* characters and length of the other texts
          MaxUint         \* the largest of the 64-bit numbers

Star == 64
Wrap == 65
Comma == 66
Underscore == 62

ASSUME DecompressAssumption ==
  /\ Modes \subseteq {"small", "large", "percent", "unknown"}
  /\ MaxUint \in Nat /\ MaxUint >= 100
  /\ Number \subseteq 0..MaxUint /\ Count \subseteq 1..MaxUint
  /\ MaxTokens \in Nat
  /\ Char \subseteq 0..Comma /\ MaxText \in Nat

(***************************************************************************)
(* The format.                                                             *)
(***************************************************************************)
Base36[n \in Nat] == IF n < 36 THEN <<n>> ELSE Append(Base36[n \div 36], n % 36)

Token == [num : Number, count : Count]

Repetition(t) == IF t.count = 1 THEN <<>> ELSE <<Star>> \o Base36[t.count] \o <<Star>>

NumberText(m, n, last) ==
  CASE m = "small"   -> IF n < 64 THEN <<n>> ELSE <<Wrap>> \o Base36[n] \o <<Wrap>>
    [] m = "large"   -> IF last THEN Base36[n] ELSE Append(Base36[n], Comma)
    [] m = "percent" -> IF n = 100 THEN <<Underscore, Underscore>> ELSE <<n \div 10, n % 10>>

TokenText(m, ts, k) == Repetition(ts[k]) \o NumberText(m, ts[k].num, k = Len(ts))

\* The text of the first n tokens and of all, and the numbers they stand for.
TextBefore(m, ts, n) == FlattenSeq([k \in 1..n |-> TokenText(m, ts, k)])
Encode(m, ts) == TextBefore(m, ts, Len(ts))

Copies(t) == [j \in 1..t.count |-> t.num]
NumbersBefore(ts, n) == FlattenSeq([k \in 1..n |-> Copies(ts[k])])
Expand(ts) == NumbersBefore(ts, Len(ts))

Encodable(m, ts) ==
  /\ m # "unknown"
  /\ m = "percent" => \A k \in DOMAIN ts : ts[k].num <= 100

(***************************************************************************)
(* The scanner.                                                            *)
(***************************************************************************)
VARIABLES mode, logData,
          pos,      \* i: the characters behind the scanner
          repeat, num, out,
          scan,     \* whether the loop is running, or how it ended
          tokens,   \* what the log was written for
          encoded   \* it was written by a sender that keeps to the format

scanVars == <<mode, logData, pos, repeat, num, out, scan, tokens, encoded>>
log == <<mode, logData, tokens, encoded>>

ScanInit ==
  /\ mode \in Modes
  /\ \/ /\ encoded = TRUE /\ tokens \in SeqOf(Token, MaxTokens)
        /\ Encodable(mode, tokens) /\ logData = Encode(mode, tokens)
     \/ encoded = FALSE /\ tokens = <<>> /\ logData \in SeqOf(Char, MaxText)
  /\ pos = 0 /\ repeat = 1 /\ num = 0 /\ out = <<>> /\ scan = "loop"

\* base36.Decode: capital letters count as small ones, other characters as zero.  (A
\* value beyond 64 bits, which no sender writes, is wrapped.)
Digit36(c) == CASE c < 36 -> c [] c \in 36..61 -> c - 26 [] OTHER -> 0
Value36(s) == LET value[n \in 0..Len(s)] ==
                    IF n = 0 THEN 0 ELSE 36 * value[n - 1] + Digit36(s[n])
              IN  value[Len(s)] % (MaxUint + 1)

\* The characters between the scanner's and the next mark from k on.
Marked(mark, k) == \E j \in k..Len(logData) : logData[j] = mark
NextMark(mark, k) == CHOOSE j \in k..Len(logData) :
                    logData[j] = mark /\ \A h \in k..(j - 1) : logData[h] # mark

Turn == scan = "loop" /\ pos < Len(logData)
Here == logData[pos + 1]

EmitKeepsRepeat(n, taken) ==
  /\ num' = n
  /\ out' = out \o [j \in 1..(IF repeat > 1 THEN repeat ELSE 1) |-> n]
  /\ pos' = pos + taken
  /\ UNCHANGED <<log, scan, repeat>>

\* A number is appended at least once.
Emit(n, taken) ==
  /\ num' = n
  /\ out' = out \o [j \in 1..(IF repeat > 1 THEN repeat ELSE 1) |-> n]
  /\ repeat' = 1 /\ pos' = pos + taken
  /\ UNCHANGED <<log, scan>>

LoneMarkStays ==
  /\ Turn /\ Here \in {Star, Wrap} /\ ~Marked(Here, pos + 2)
  /\ UNCHANGED scanVars

\* A mark without a second one is passed over.
LoneMark ==
  /\ Turn /\ Here \in {Star, Wrap} /\ ~Marked(Here, pos + 2)
  /\ pos' = pos + 1
  /\ UNCHANGED <<log, repeat, num, out, scan>>

Repeat ==
  /\ Turn /\ Here = Star /\ Marked(Star, pos + 2)
  /\ LET end == NextMark(Star, pos + 2) IN
       /\ repeat' = Value36(SubSeq(logData, pos + 2, end - 1))
       /\ pos' = end
  /\ UNCHANGED <<log, num, out, scan>>

WrappedNumber ==
  /\ Turn /\ Here = Wrap /\ Marked(Wrap, pos + 2)
  /\ LET end == NextMark(Wrap, pos + 2)
     IN  Emit(Value36(SubSeq(logData, pos + 2, end - 1)), end - pos)

Plain == Turn /\ Here \notin {Star, Wrap}

\* decompressBucketLogNumber: an unknown character is zero.
SmallNumber ==
  /\ Plain /\ mode = "small"
  /\ Emit(IF Here = Comma THEN 0 ELSE Here, 1)

LargeNumber ==
  /\ Plain /\ mode = "large" /\ Marked(Comma, pos + 1)
  /\ LET end == NextMark(Comma, pos + 1)
     IN  Emit(Value36(SubSeq(logData, pos + 1, end - 1)), end - pos)

\* Of the last number, the code takes one character.
LastLargeNumber ==
  /\ Plain /\ mode = "large" /\ ~Marked(Comma, pos + 1)
  /\ Emit(Digit36(Here), Len(logData) + 1 - pos)

\* strconv.Atoi, whose error is ignored.
Percent(a, b) == IF a = Underscore /\ b = Underscore THEN 100
                 ELSE IF a < 10 /\ b < 10 THEN 10 * a + b ELSE 0

PercentOneCharacter ==
  /\ Plain /\ mode = "percent" /\ pos + 2 <= Len(logData)
  /\ Emit(Percent(Here, logData[pos + 2]), 1)

PercentNumber ==
  /\ Plain /\ mode = "percent" /\ pos + 2 <= Len(logData)
  /\ Emit(Percent(Here, logData[pos + 2]), 2)

\* The slice of two characters is out of range.
Panic ==
  /\ Plain /\ mode = "percent" /\ pos + 2 > Len(logData)
  /\ scan' = "panic"
  /\ UNCHANGED <<log, pos, repeat, num, out>>

\* The number that was found last is appended again.
UnknownMode ==
  /\ Plain /\ mode = "unknown"
  /\ Emit(num, 1)

Return ==
  /\ scan = "loop" /\ pos >= Len(logData)
  /\ scan' = "done"
  /\ UNCHANGED <<log, pos, repeat, num, out>>

ScanNext == \/ LoneMark \/ Repeat \/ WrappedNumber
            \/ SmallNumber \/ LargeNumber \/ LastLargeNumber
            \/ PercentNumber \/ Panic \/ UnknownMode \/ Return

\* The function runs until it returns.
ScanSpec == ScanInit /\ [][ScanNext]_scanVars /\ WF_scanVars(ScanNext)

(***************************************************************************)
(* Properties.                                                             *)
(***************************************************************************)
\* The code reads only the first character of a last large number.
LastIsRead == mode = "large" /\ tokens # <<>> => Last(tokens).num < 36

\* Whatever was written comes out again: as far as the scanner is, and all of it in
\* the end; and no two characters are sliced beyond the end of such a log.
DecodesWhatWasEncoded ==
  encoded /\ LastIsRead =>
    /\ IsPrefix(out, Expand(tokens))
    /\ scan = "done" => out = Expand(tokens)
    /\ scan # "panic"

\* The function returns, or panics, on any text.
Terminates == <>(scan # "loop")

(***************************************************************************)
(* What makes the first inductive.                                         *)
(***************************************************************************)
\* Every variable has the type its declaration says; the scanner leaves the log only
\* behind a last large number.
ScanTypeOK ==
  /\ mode \in Modes /\ logData \in Seq(0..Comma) /\ tokens \in Seq(Token) /\ encoded \in BOOLEAN
  /\ pos \in 0..(Len(logData) + IF mode = "large" THEN 1 ELSE 0)
  /\ repeat \in 0..MaxUint /\ num \in 0..MaxUint /\ out \in Seq(0..MaxUint)
  /\ scan \in {"loop", "done", "panic"}

\* With the numbers of k tokens taken, the scanner is before the next token, between
\* its repetition and its number, or behind the log.
AtToken(k) == pos = Len(TextBefore(mode, tokens, k)) /\ repeat = 1

AtNumber(k) ==
  /\ k < Len(tokens) /\ tokens[k + 1].count # 1 /\ repeat = tokens[k + 1].count
  /\ pos = Len(TextBefore(mode, tokens, k)) + Len(Repetition(tokens[k + 1]))

AtEnd(k) == k = Len(tokens) /\ pos >= Len(logData)

Scanned ==
  encoded /\ LastIsRead =>
    /\ \E k \in 0..Len(tokens) :
         out = NumbersBefore(tokens, k) /\ (AtToken(k) \/ AtNumber(k) \/ AtEnd(k))
    /\ scan = "done" => pos >= Len(logData)
    /\ scan # "panic"

\* The log is what the sender wrote.
IsEncoded == encoded => Encodable(mode, tokens) /\ logData = Encode(mode, tokens)

ScanIInv == ScanTypeOK /\ IsEncoded /\ Scanned
=============================================================================
