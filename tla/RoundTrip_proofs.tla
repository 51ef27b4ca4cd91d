-------------------------- MODULE RoundTrip_proofs --------------------------
(***************************************************************************)
(* The scan of split_on_line_endings stays in range, cuts no character,    *)
(* keeps no terminator byte and finds the lines TextLines.tla defines, for *)
(* every text; and what write_lines wrote comes back, whatever the lines   *)
(* and however the bytes are read.                                         *)
(***************************************************************************)
EXTENDS RoundTrip, TextLines_proofs

(* What is between start and i was looked at and is no terminator.         *)
OpenLineBare == \A k \in start .. i - 1 : At(k) \notin {CR, LF}

SplitInv == SplitTypeOK /\ LinesAreBare /\ OpenLineBare

(* A slice of bytes that are no terminators is a bare line. *)
LEMMA SliceBare ==
  ASSUME s \in Seq(Byte), NEW a \in 0 .. Len(s), NEW b \in a .. Len(s),
         \A k \in a .. b - 1 : At(k) \notin {CR, LF}
  PROVE  Slice(a, b) \in Seq(Byte) /\ Bare(Slice(a, b))
<1>1. /\ Slice(a, b) \in Seq(Byte)
      /\ Len(Slice(a, b)) = b - a
      /\ \A k \in 1 .. b - a : Slice(a, b)[k] = s[a + k]
  BY DEF Slice
<1>2. ASSUME NEW k \in DOMAIN Slice(a, b)
      PROVE  Slice(a, b)[k] \notin {CR, LF}
  <2>1. k \in 1 .. b - a
    BY <1>1
  <2>2. a + k - 1 \in a .. b - 1 /\ (a + k - 1) + 1 = a + k
    BY <2>1
  <2>3. At(a + k - 1) \notin {CR, LF}
    BY <2>2
  <2> QED
    BY <1>1, <2>1, <2>2, <2>3 DEF At
<1> QED
  BY <1>1, <1>2 DEF Bare

(* A bare line can be added to bare lines. *)
LEMMA AppendBare ==
  ASSUME lines \in Seq(Seq(Byte)), LinesAreBare,
         NEW line \in Seq(Byte), Bare(line), lines' = Append(lines, line)
  PROVE  lines' \in Seq(Seq(Byte)) /\ LinesAreBare'
<1>1. /\ lines' \in Seq(Seq(Byte)) /\ Len(lines') = Len(lines) + 1
      /\ \A k \in 1 .. Len(lines) : lines'[k] = lines[k]
      /\ lines'[Len(lines) + 1] = line
  OBVIOUS
<1>2. ASSUME NEW k \in DOMAIN lines'
      PROVE  Bare(lines'[k])
  <2>1. k \in 1 .. Len(lines) \/ k = Len(lines) + 1
    BY <1>1
  <2>2. CASE k \in 1 .. Len(lines)
    BY <1>1, <2>2 DEF LinesAreBare
  <2>3. CASE k = Len(lines) + 1
    BY <1>1, <2>3
  <2> QED
    BY <2>1, <2>2, <2>3
<1>3. LinesAreBare'
  BY <1>2 DEF LinesAreBare
<1> QED
  BY <1>1, <1>3

(* Ending the line at i and going on at n keeps the invariant. *)
LEMMA CloseLineKeeps ==
  ASSUME SplitInv, NEW n \in i .. Len(s), CloseLine(n)
  PROVE  SplitInv'
<1>1. /\ s \in Seq(Byte) /\ i \in 0 .. Len(s) /\ start \in 0 .. i
      /\ start \in 0 .. Len(s) /\ i \in start .. Len(s) /\ Len(s) \in Nat
  BY DEF SplitInv, SplitTypeOK
<1>2. Slice(start, i) \in Seq(Byte) /\ Bare(Slice(start, i))
  BY <1>1, SliceBare DEF SplitInv, OpenLineBare
<1>3. lines' \in Seq(Seq(Byte)) /\ LinesAreBare'
  BY <1>2, AppendBare DEF SplitInv, SplitTypeOK, CloseLine
<1>4. s' = s /\ i' = n /\ start' = n /\ done' = done
  BY DEF CloseLine
<1>5. SplitTypeOK'
  BY <1>1, <1>3, <1>4 DEF SplitInv, SplitTypeOK
<1>6. OpenLineBare'
  BY <1>1, <1>4 DEF OpenLineBare
<1> QED
  BY <1>3, <1>5, <1>6 DEF SplitInv

(* The scan of any text starts in it. *)
LEMMA ScanStart ==
  ASSUME s \in Seq(Byte), i = 0, start = 0, lines = << >>, done = FALSE
  PROVE  SplitInv
<1>1. SplitTypeOK
  <2>1. i \in 0 .. Len(s) /\ start \in 0 .. i
    OBVIOUS
  <2>2. << >> \in Seq(Seq(Byte))
    OBVIOUS
  <2>3. lines \in Seq(Seq(Byte)) /\ done \in BOOLEAN
    BY <2>2
  <2> QED
    BY <2>1, <2>3 DEF SplitTypeOK
<1>2. LinesAreBare /\ OpenLineBare
  BY DEF LinesAreBare, OpenLineBare
<1> QED
  BY <1>1, <1>2 DEF SplitInv

(* No step of the scan breaks the invariant. *)
LEMMA ScanStep ==
  ASSUME SplitInv, [SplitNext]_splitVars
  PROVE  SplitInv'
<1>1. /\ s \in Seq(Byte) /\ i \in 0 .. Len(s) /\ start \in 0 .. i
      /\ Len(s) \in Nat
  BY DEF SplitInv, SplitTypeOK
<1>2. CASE CarriageReturn
  <2>1. PICK n \in i .. Len(s) : CloseLine(n)
    BY <1>1, <1>2 DEF CarriageReturn, AfterReturn
  <2> QED
    BY <2>1, CloseLineKeeps
<1>3. CASE LineFeed
  <2>1. i + 1 \in i .. Len(s) /\ CloseLine(i + 1)
    BY <1>1, <1>3 DEF LineFeed
  <2> QED
    BY <2>1, CloseLineKeeps
<1>4. CASE OtherByte
  <2>1. /\ i < Len(s) /\ At(i) \notin {CR, LF}
        /\ i' = i + 1 /\ s' = s /\ start' = start
        /\ lines' = lines /\ done' = done
    BY <1>4 DEF OtherByte
  <2>2. SplitTypeOK' /\ LinesAreBare'
    BY <1>1, <2>1 DEF SplitInv, SplitTypeOK, LinesAreBare
  <2>3. ASSUME NEW k \in start .. i
        PROVE  At(k) \notin {CR, LF}
    BY <1>1, <2>1, <2>3 DEF SplitInv, OpenLineBare
  <2>4. OpenLineBare'
    BY <1>1, <2>1, <2>3 DEF OpenLineBare, At
  <2> QED
    BY <2>2, <2>4 DEF SplitInv
<1>5. CASE ReturnTail
  <2>1. /\ i = Len(s) /\ i' = i /\ s' = s /\ start' = start /\ done' = TRUE
    BY <1>1, <1>5 DEF ReturnTail
  <2>2. Slice(start, Len(s)) \in Seq(Byte) /\ Bare(Slice(start, Len(s)))
    BY <1>1, <2>1, SliceBare DEF SplitInv, OpenLineBare
  <2>3. lines' \in Seq(Seq(Byte)) /\ LinesAreBare'
    <3>1. CASE lines' = lines
      BY <3>1 DEF SplitInv, SplitTypeOK, LinesAreBare
    <3>2. CASE lines' = Append(lines, Slice(start, Len(s)))
      BY <2>2, <3>2, AppendBare DEF SplitInv, SplitTypeOK
    <3> QED
      BY <1>5, <3>1, <3>2 DEF ReturnTail
  <2>4. SplitTypeOK' /\ OpenLineBare'
    BY <2>1, <2>3 DEF SplitInv, SplitTypeOK, OpenLineBare, At
  <2> QED
    BY <2>3, <2>4 DEF SplitInv
<1>6. CASE UNCHANGED splitVars
  BY <1>6
  DEF splitVars, SplitInv, SplitTypeOK, LinesAreBare, OpenLineBare, At
<1> QED
  BY <1>2, <1>3, <1>4, <1>5, <1>6 DEF SplitNext

-----------------------------------------------------------------------------
(* Where the terminators of s end. *)
Ends == LineFeeds(s) \cup BareReturns(s)

(* The lines found are those that end at the terminators passed, the last  *)
(* of which is the one before start.                                       *)
LinesSoFar ==
  /\ start = 0 \/ start \in Ends
  /\ LastIn(Ends, start) = start
  /\ ~done => lines = LinesEnded(s, Ends, start)

ScanInv == SplitInv /\ LinesSoFar /\ SplitRight

(* The scan of any text starts with no line found. *)
LEMMA NothingFound ==
  ASSUME start = 0, lines = << >>, done = FALSE
  PROVE  LinesSoFar /\ SplitRight
  BY LinesEndedFirst DEF LinesSoFar, SplitRight

(* No terminator ends between start and i. *)
LEMMA NoneInOpenLine ==
  ASSUME SplitInv, NEW p \in start + 1 .. i
  PROVE  p \notin Ends
<1>1. start \in Nat /\ i \in Nat
  BY DEF SplitInv, SplitTypeOK
<1>2. p - 1 \in start .. i - 1 /\ (p - 1) + 1 = p
  BY <1>1
<1>3. s[p] \notin {CR, LF}
  BY <1>2 DEF SplitInv, OpenLineBare, At
<1> QED
  BY <1>3 DEF Ends, LineFeeds, BareReturns

(* A line is closed where the next terminator starts, and the next one     *)
(* starts where it ends.                                                   *)
LEMMA CloseLineFinds ==
  ASSUME SplitInv, LinesSoFar, ~done, NEW n \in i + 1 .. Len(s), CloseLine(n),
         n \in Ends, \A p \in i + 1 .. n - 1 : p \notin Ends,
         n - TerminatorLength(s, n) = i
  PROVE  LinesSoFar' /\ SplitRight'
<1>1. start \in Nat /\ i \in Nat /\ Len(s) \in Nat /\ start <= i
  BY DEF SplitInv, SplitTypeOK
<1>2. n \in Nat /\ start < n
  BY <1>1
<1>3. \A p \in start + 1 .. n - 1 : p \notin Ends
  <2> SUFFICES ASSUME NEW p \in start + 1 .. n - 1
               PROVE  p \notin Ends
    OBVIOUS
  <2>1. p \in start + 1 .. i \/ p \in i + 1 .. n - 1
    BY <1>1, <1>2
  <2> QED
    BY <2>1, NoneInOpenLine
<1> DEFINE P == Ends
<1>4. /\ LastIn(P, start) = start /\ lines = LinesEnded(s, P, start)
      /\ n \in P /\ \A p \in start + 1 .. n - 1 : p \notin P
  BY <1>3 DEF LinesSoFar
<1>5. s' = s /\ start' = n /\ done' = done /\ P' = P
      /\ lines' = Append(lines, SubSeq(s, start + 1, i))
  BY DEF CloseLine, Slice, Ends, LineFeeds, BareReturns
<1> HIDE DEF P
<1>6. /\ LinesEnded(s, P, n) =
           Append(LinesEnded(s, P, start),
                  SubSeq(s, LastIn(P, start) + 1, n - TerminatorLength(s, n)))
      /\ LastIn(P, n) = n
  BY ONLY <1>1, <1>2, <1>4, LinesEndedNext
<1>7. lines' = LinesEnded(s, P, n) /\ LastIn(P, n) = n
  BY <1>4, <1>5, <1>6
<1>8. LinesSoFar'
  BY <1>4, <1>5, <1>7 DEF LinesSoFar, P
<1> QED
  BY <1>5, <1>8 DEF SplitRight

(* No step of the scan breaks that. *)
LEMMA ScanStepFinds ==
  ASSUME ScanInv, [SplitNext]_splitVars
  PROVE  LinesSoFar' /\ SplitRight'
<1>1. /\ SplitInv /\ LinesSoFar /\ SplitRight
      /\ s \in Seq(Byte) /\ i \in Nat /\ i <= Len(s) /\ start \in 0 .. i
      /\ Len(s) \in Nat /\ DOMAIN s = 1 .. Len(s)
  BY DEF ScanInv, SplitInv, SplitTypeOK
<1>2. CR # LF
  BY ByteAssumption
<1>3. CASE CarriageReturn
  <2>1. /\ ~done /\ i + 1 \in 1 .. Len(s) /\ s[i + 1] = CR /\ CloseLine(AfterReturn)
        /\ (i + 1) + 1 = i + 2
    BY <1>1, <1>3 DEF CarriageReturn, At
  <2>2. CASE i + 1 < Len(s) /\ s[i + 2] = LF
    <3>1. AfterReturn = i + 2 /\ i + 2 \in i + 1 .. Len(s) /\ i + 2 > 1
          /\ (i + 2) - 1 = i + 1 /\ (i + 2) - 2 = i
      BY <1>1, <2>1, <2>2 DEF AfterReturn, At
    <3>2. i + 2 \in Ends
      BY <1>1, <2>2, <3>1 DEF Ends, LineFeeds
    <3>3. i + 1 \notin Ends
      BY <1>2, <2>1, <2>2 DEF Ends, LineFeeds, BareReturns
    <3>4. \A p \in i + 1 .. (i + 2) - 1 : p \notin Ends
      BY <1>1, <3>3
    <3>5. (i + 2) - TerminatorLength(s, i + 2) = i
      BY <2>1, <2>2, <3>1 DEF TerminatorLength
    <3> QED
      BY <1>1, <2>1, <3>1, <3>2, <3>4, <3>5, CloseLineFinds
  <2>3. CASE ~(i + 1 < Len(s) /\ s[i + 2] = LF)
    <3>1. AfterReturn = i + 1 /\ i + 1 \in i + 1 .. Len(s) /\ (i + 1) - 1 = i
      BY <1>1, <2>1, <2>3 DEF AfterReturn, At
    <3>2. i + 1 \in Ends
      BY <1>1, <2>1, <2>3 DEF Ends, BareReturns
    <3>3. \A p \in i + 1 .. (i + 1) - 1 : p \notin Ends
      BY <1>1
    <3>4. (i + 1) - TerminatorLength(s, i + 1) = i
      BY <1>2, <2>1, <3>1 DEF TerminatorLength
    <3> QED
      BY <1>1, <2>1, <3>1, <3>2, <3>3, <3>4, CloseLineFinds
  <2> QED
    BY <2>2, <2>3
<1>4. CASE LineFeed
  <2>1. /\ ~done /\ i + 1 \in i + 1 .. Len(s) /\ s[i + 1] = LF /\ CloseLine(i + 1)
        /\ (i + 1) - 1 = i /\ i + 1 \in 1 .. Len(s)
    BY <1>1, <1>4 DEF LineFeed, At
  <2>2. i + 1 \in Ends
    BY <1>1, <2>1 DEF Ends, LineFeeds
  <2>3. \A p \in i + 1 .. (i + 1) - 1 : p \notin Ends
    BY <1>1
  <2>4. i + 1 > 1 => s[i] # CR
    <3>1. CASE start < i
      <4>1. i - 1 \in start .. i - 1 /\ (i - 1) + 1 = i
        BY <1>1, <3>1
      <4> QED
        BY <1>1, <4>1 DEF SplitInv, OpenLineBare, At
    <3>2. CASE start = i /\ i # 0
      <4>1. i \in Ends /\ i < Len(s)
        BY <1>1, <2>1, <3>2 DEF LinesSoFar
      <4> QED
        BY <1>2, <2>1, <4>1 DEF Ends, LineFeeds, BareReturns
    <3> QED
      BY <1>1, <3>1, <3>2
  <2>5. (i + 1) - TerminatorLength(s, i + 1) = i
    BY <2>1, <2>4 DEF TerminatorLength
  <2> QED
    BY <1>1, <2>1, <2>2, <2>3, <2>5, CloseLineFinds
<1>5. CASE ReturnTail
  <2> DEFINE tail == SubSeq(s, start + 1, Len(s))
             P == Ends
  <2>1. /\ ~done /\ i = Len(s) /\ s' = s /\ start' = start /\ done' = TRUE
        /\ lines' = IF tail = << >> THEN lines ELSE Append(lines, tail)
    <3>1. i >= Len(s)
      BY <1>5 DEF ReturnTail
    <3>2. i \in Nat /\ Len(s) \in Nat /\ i <= Len(s)
      BY <1>1
    <3>3. i = Len(s)
      BY ONLY <3>1, <3>2
    <3> QED
      BY <1>5, <3>3 DEF ReturnTail, Slice
  <2>2. LastIn(P, start) = start /\ lines = LinesEnded(s, P, start)
    BY <1>1, <2>1 DEF LinesSoFar
  <2>3. \A p \in start + 1 .. Len(s) : p \notin P
    BY <1>1, <2>1, NoneInOpenLine
  <2>4. LinesOf(s) = LinesBetween(s, P)
    BY DEF LinesOf, Ends
  <2>5. lines \in Seq(Seq(Byte)) /\ tail \in Seq(Byte)
    BY <1>1 DEF SplitInv, SplitTypeOK
  <2>6. LinesSoFar'
    BY <1>1, <2>1 DEF LinesSoFar, Ends
  <2> HIDE DEF P
  <2>7. InOrder(P, Len(s)) = InOrder(P, start)
    BY <1>1, <2>3, InOrderSkip
  <2>8. LinesEnded(s, P, Len(s)) = lines /\ LastIn(P, Len(s)) = start
    BY <2>2, <2>7 DEF LinesEnded, LastIn
  <2>9. LinesBetween(s, P) = lines \o (IF tail = << >> THEN << >> ELSE <<tail>>)
    BY <2>8 DEF LinesBetween
  <2> HIDE DEF tail
  <2>10. lines \o << >> = lines /\ Append(lines, tail) = lines \o <<tail>>
    BY <2>5, ConcatEmptySeq, AppendIsConcat
  <2>11. lines' = LinesOf(s)
    BY <2>1, <2>4, <2>9, <2>10
  <2> QED
    BY <2>1, <2>6, <2>11 DEF SplitRight
<1>6. CASE OtherByte \/ UNCHANGED splitVars
  <2>1. s' = s /\ start' = start /\ lines' = lines /\ done' = done
    BY <1>6 DEF OtherByte, splitVars
  <2> QED
    BY <1>1, <2>1 DEF LinesSoFar, SplitRight, Ends
<1> QED
  BY <1>3, <1>4, <1>5, <1>6 DEF SplitNext

(* Every line found is bare, every slice is in range and the lines are     *)
(* those of the text, for every text.                                      *)
THEOREM ScanInvariant == SplitSpec => []ScanInv
<1>1. SplitInit => ScanInv
  <2> SUFFICES ASSUME NEW text \in Texts, SplitOf(text)
               PROVE  ScanInv
    BY DEF SplitInit
  <2>1. /\ s \in Seq(Byte) /\ i = 0 /\ start = 0 /\ lines = << >> /\ done = FALSE
    BY TextsAssumption DEF SplitOf
  <2> QED
    BY <2>1, ScanStart, NothingFound DEF ScanInv
<1>2. ScanInv /\ [SplitNext]_splitVars => ScanInv'
  BY ScanStep, ScanStepFinds DEF ScanInv
<1> QED
  BY <1>1, <1>2, PTL DEF SplitSpec

(* The lines of every text are bare. *)
THEOREM ScannedLinesAreBare == SplitSpec => []LinesAreBare
  BY ScanInvariant, PTL DEF ScanInv, SplitInv

(* The scan takes no slice out of range, on any text. *)
THEOREM ScanStaysInRange == SplitSpec => []SplitTypeOK
  BY ScanInvariant, PTL DEF ScanInv, SplitInv

(* What follows a terminator starts a character, in a text of whole ones.  *)
LEMMA TerminatorEndsCharacter ==
  ASSUME s \in Seq(Byte), Utf8(s), NEW n \in 1 .. Len(s), s[n] \in {CR, LF}
  PROVE  n = Len(s) \/ At(n) # Cont
<1> SUFFICES ASSUME n # Len(s), At(n) = Cont PROVE FALSE
  OBVIOUS
<1>1. n + 1 \in DOMAIN s /\ s[n + 1] = Cont /\ n + 1 - 1 = n
  BY DEF At
<1>2. s[n] = Lead
  BY <1>1 DEF Utf8
<1> QED
  BY <1>2, CharacterAssumption

(* A text of whole characters is not cut within one. *)
Whole == Utf8(s) /\ SlicesAtBoundaries

LEMMA WholeStart ==
  ASSUME s \in Seq(Byte), Utf8(s), start = 0
  PROVE  Whole
<1>1. CASE Len(s) # 0
  <2>1. 1 \in DOMAIN s
    BY <1>1
  <2>2. s[1] # Cont
    BY <2>1 DEF Utf8
  <2> QED
    BY <2>2 DEF Whole, SlicesAtBoundaries, At
<1>2. CASE Len(s) = 0
  BY <1>2 DEF Whole, SlicesAtBoundaries
<1> QED
  BY <1>1, <1>2

LEMMA ScanStepCuts ==
  ASSUME SplitInv, Whole, [SplitNext]_splitVars
  PROVE  Whole'
<1>1. Utf8(s) /\ SlicesAtBoundaries /\ s \in Seq(Byte) /\ i \in 0 .. Len(s) /\ Len(s) \in Nat
  BY DEF Whole, SplitInv, SplitTypeOK
<1>2. s' = s
  BY DEF SplitNext, CarriageReturn, LineFeed, CloseLine, OtherByte, ReturnTail, splitVars
<1>3. CASE start' = start
  BY <1>1, <1>2, <1>3 DEF Whole, Utf8, SlicesAtBoundaries, At
<1>4. ASSUME NEW n \in 1 .. Len(s), s[n] \in {CR, LF}, start' = n
      PROVE  Whole'
  BY <1>1, <1>2, <1>4, TerminatorEndsCharacter DEF Whole, Utf8, SlicesAtBoundaries, At
<1>5. CASE CarriageReturn
  <2>1. start' = AfterReturn /\ i + 1 \in 1 .. Len(s) /\ s[i + 1] = CR
    BY <1>1, <1>5 DEF CarriageReturn, CloseLine, At
  <2>2. CASE AfterReturn = i + 1
    <3>1. start' = i + 1
      BY <2>1, <2>2
    <3> QED
      BY <1>4, <2>1, <3>1
  <2>3. CASE AfterReturn # i + 1
    <3>1. AfterReturn = i + 2 /\ i + 2 \in 1 .. Len(s) /\ s[i + 2] = LF
      BY <1>1, <2>3 DEF AfterReturn, At
    <3>2. start' = i + 2
      BY <2>1, <3>1
    <3> QED
      BY <1>4, <3>1, <3>2
  <2> QED
    BY <1>2, <2>2, <2>3
<1>6. CASE LineFeed
  <2>1. start' = i + 1 /\ i + 1 \in 1 .. Len(s) /\ s[i + 1] = LF
    BY <1>1, <1>6 DEF LineFeed, CloseLine, At
  <2> QED
    BY <1>2, <1>4, <2>1
<1> QED
  BY <1>2, <1>3, <1>5, <1>6 DEF SplitNext, OtherByte, ReturnTail, splitVars, Whole

(* No slice of the scan cuts a character, in texts of whole ones.          *)
THEOREM ScanCutsAtBoundaries ==
  ASSUME \A text \in Texts : Utf8(text)
  PROVE  SplitSpec => []SlicesAtBoundaries
<1>1. SplitInit => Whole
  <2> SUFFICES ASSUME NEW text \in Texts, SplitOf(text)
               PROVE  Whole
    BY DEF SplitInit
  <2>1. s \in Seq(Byte) /\ Utf8(s) /\ start = 0
    BY TextsAssumption DEF SplitOf
  <2> QED
    BY <2>1, WholeStart
<1>2. SplitInv /\ Whole /\ [SplitNext]_splitVars => Whole'
  BY ScanStepCuts
<1>3. Whole => SlicesAtBoundaries
  BY DEF Whole
<1>4. ScanInv => SplitInv
  BY DEF ScanInv
<1> QED
  BY <1>1, <1>2, <1>3, <1>4, ScanInvariant, PTL DEF SplitSpec

-----------------------------------------------------------------------------
(***************************************************************************)
(* What is read is what was written, and what is split is what was read.   *)
(***************************************************************************)
Transported ==
  /\ stage \in {"reading", "splitting", "failed"}
  /\ incoming \in Seq(Byte) /\ bytes \in Seq(Byte)
  /\ given # NoBuffer =>
       /\ given \in Buffers /\ ending \in Endings
       /\ bytes \o incoming = Rendered(given, ending)
  /\ stage # "splitting" => i = 0 /\ start = 0 /\ lines = << >> /\ done = FALSE
  /\ stage = "splitting" => s = bytes /\ incoming = << >>

RInv == ScanInv /\ Whole /\ Transported

(* What write_lines writes is bytes. *)
LEMMA RenderedType ==
  ASSUME NEW ls \in Seq(Seq(Byte)), NEW e \in Endings
  PROVE  Rendered(ls, e) \in Seq(Byte)
<1>1. e \in Seq(Byte)
  BY ByteAssumption, EndingType
<1>2. CASE ls = << >>
  BY <1>2, RenderedEmpty, EmptySeq
<1>3. CASE ls # << >>
  <2>1. PICK f \in Seq(Seq(Byte)), l \in Seq(Byte) : ls = Append(f, l)
    BY <1>3, SequenceEmptyOrAppend
  <2>2. Rendered(ls, e) = Terminated(f, e) \o l /\ Terminated(f, e) \in Seq(Byte)
    BY <1>1, <2>1, TerminatedAppend
  <2> QED
    BY <2>2, ConcatProperties
<1> QED
  BY <1>2, <1>3

(* The load starts with nothing read. *)
LEMMA LoadStart == RoundTripInit => RInv
<1> SUFFICES ASSUME RoundTripInit PROVE RInv
  OBVIOUS
<1>1. /\ s = << >> /\ i = 0 /\ start = 0 /\ lines = << >> /\ done = FALSE
      /\ bytes = << >> /\ stage = "reading"
  BY DEF RoundTripInit, SplitOf
<1>2. s \in Seq(Byte) /\ Utf8(s) /\ << >> \in Seq(Byte)
  BY <1>1, EmptySeq DEF Utf8
<1>3. ScanInv /\ Whole
  BY <1>1, <1>2, ScanStart, NothingFound, WholeStart DEF ScanInv
<1>4. CASE given \in Buffers /\ ending \in Endings /\ incoming = Rendered(given, ending)
  <2>1. given \in Seq(Seq(Byte))
    BY <1>4, BuffersAssumption
  <2>2. incoming \in Seq(Byte)
    BY <1>4, <2>1, RenderedType
  <2>3. << >> \o incoming = Rendered(given, ending)
    BY <1>4, <2>2, ConcatEmptySeq
  <2> QED
    BY <1>1, <1>2, <1>3, <1>4, <2>2, <2>3 DEF RInv, Transported
<1>5. CASE given = NoBuffer /\ incoming \in Files
  <2>1. incoming \in Seq(Byte)
    BY <1>5, FilesAssumption
  <2> QED
    BY <1>1, <1>2, <1>3, <1>5, <2>1 DEF RInv, Transported
<1> QED
  BY <1>4, <1>5 DEF RoundTripInit

(* A scan that a step starts. *)
LEMMA ScanStartNext ==
  ASSUME s' \in Seq(Byte), Utf8(s)', i' = 0, start' = 0, lines' = << >>, done' = FALSE
  PROVE  ScanInv' /\ Whole'
<1>1. Len(s') \in Nat
  OBVIOUS
<1>2. SplitTypeOK'
  <2>1. i' \in 0 .. Len(s') /\ start' \in 0 .. i'
    BY <1>1
  <2>2. lines' \in Seq(Seq(Byte))
    BY EmptySeq
  <2>3. done' \in BOOLEAN
    OBVIOUS
  <2> QED
    BY <2>1, <2>2, <2>3 DEF SplitTypeOK
<1>3. LinesAreBare' /\ OpenLineBare'
  BY DEF LinesAreBare, OpenLineBare
<1>4. LinesSoFar' /\ SplitRight'
  <2> DEFINE P == Ends'
  <2>1. LinesEnded(s', P, 0) = << >> /\ LastIn(P, 0) = 0
    <3> HIDE DEF P
    <3> QED
      BY LinesEndedFirst
  <2> QED
    BY <2>1 DEF LinesSoFar, SplitRight
<1>5. Whole'
  <2>1. CASE Len(s') # 0
    <3>1. 1 \in DOMAIN s'
      BY <1>1, <2>1
    <3>2. s'[1] # Cont
      BY <3>1 DEF Utf8
    <3> QED
      BY <3>2 DEF Whole, SlicesAtBoundaries, At
  <2>2. CASE Len(s') = 0
    BY <2>2 DEF Whole, SlicesAtBoundaries
  <2> QED
    BY <2>1, <2>2
<1> QED
  BY <1>2, <1>3, <1>4, <1>5 DEF ScanInv, SplitInv

(* No step of a load breaks the invariant. *)
LEMMA LoadStep ==
  ASSUME RInv, [RNext]_rvars
  PROVE  RInv'
<1>1. ScanInv /\ SplitInv /\ Whole /\ Transported
  BY DEF RInv, ScanInv
<1>2. CASE (ReadBytes \/ ReadFails) /\ UNCHANGED <<given, ending>>
  <2>1. UNCHANGED splitVars /\ given' = given /\ ending' = ending
        /\ stage = "reading" /\ stage' \in {"reading", "failed"}
    BY <1>2 DEF ReadBytes, ReadFails
  <2>2. ScanInv' /\ Whole'
    <3>1. [SplitNext]_splitVars
      BY <2>1
    <3> QED
      BY <1>1, <3>1, ScanStep, ScanStepFinds, ScanStepCuts DEF ScanInv
  <2>3. /\ bytes' \in Seq(Byte) /\ incoming' \in Seq(Byte)
        /\ bytes' \o incoming' = bytes \o incoming
    <3>1. CASE ReadBytes
      <4>1. PICK k \in 1 .. Len(incoming) :
              /\ bytes' = bytes \o SubSeq(incoming, 1, k)
              /\ incoming' = SubSeq(incoming, k + 1, Len(incoming))
        BY <3>1 DEF ReadBytes
      <4>2. bytes \in Seq(Byte) /\ incoming \in Seq(Byte)
        BY <1>1 DEF Transported
      <4>3. k \in 0 .. Len(incoming)
        BY <4>1
      <4>4. /\ bytes \o SubSeq(incoming, 1, k) \in Seq(Byte)
            /\ SubSeq(incoming, k + 1, Len(incoming)) \in Seq(Byte)
            /\ Moved(bytes, incoming, bytes \o SubSeq(incoming, 1, k),
                     SubSeq(incoming, k + 1, Len(incoming)))
        BY <4>2, <4>3, PartMoves
      <4> QED
        BY <4>1, <4>4 DEF Moved
    <3>2. CASE ReadFails
      BY <1>1, <3>2 DEF ReadFails, Transported
    <3> QED
      BY <1>2, <3>1, <3>2
  <2>4. Transported'
    BY <1>1, <2>1, <2>3 DEF Transported, splitVars
  <2> QED
    BY <2>2, <2>4 DEF RInv
<1>3. CASE Decode /\ UNCHANGED <<given, ending>>
  <2>1. /\ stage = "reading" /\ incoming = << >>
        /\ UNCHANGED <<i, start, lines, done, incoming, bytes, given, ending>>
        /\ \/ Utf8(bytes) /\ s' = bytes /\ stage' = "splitting"
           \/ s' = s /\ stage' = "failed"
    BY <1>3 DEF Decode, Decodes, EndOfFile
  <2>2. /\ i' = 0 /\ start' = 0 /\ lines' = << >> /\ done' = FALSE
    BY <1>1, <2>1 DEF Transported
  <2>3. s' \in Seq(Byte) /\ Utf8(s)'
    BY <1>1, <2>1 DEF Transported, SplitInv, SplitTypeOK, Whole, Utf8
  <2>4. ScanInv' /\ Whole'
    BY <2>2, <2>3, ScanStartNext
  <2>5. Transported'
    BY <1>1, <2>1, <2>2 DEF Transported
  <2> QED
    BY <2>4, <2>5 DEF RInv
<1>4. CASE Split /\ UNCHANGED <<given, ending>>
  <2>1. /\ stage = "splitting" /\ SplitNext
        /\ UNCHANGED <<incoming, bytes, stage, given, ending>>
    BY <1>4 DEF Split, readVars
  <2>2. ScanInv' /\ Whole'
    BY <1>1, <2>1, ScanStep, ScanStepFinds, ScanStepCuts DEF ScanInv
  <2>3. s' = s
    BY <2>1 DEF SplitNext, CarriageReturn, LineFeed, CloseLine, OtherByte, ReturnTail
  <2>4. Transported'
    BY <1>1, <2>1, <2>3 DEF Transported
  <2> QED
    BY <2>2, <2>4 DEF RInv
<1>5. CASE UNCHANGED rvars
  <2>1. UNCHANGED splitVars /\ UNCHANGED <<given, ending, incoming, bytes, stage>>
    BY <1>5 DEF rvars, readVars
  <2>2. [SplitNext]_splitVars
    BY <2>1
  <2>3. ScanInv' /\ Whole'
    BY <1>1, <2>2, ScanStep, ScanStepFinds, ScanStepCuts DEF ScanInv
  <2>4. Transported'
    BY <1>1, <2>1 DEF Transported, splitVars
  <2> QED
    BY <2>3, <2>4 DEF RInv
<1> QED
  BY <1>2, <1>3, <1>4, <1>5 DEF RNext

THEOREM LoadInvariant == RoundTripSpec => []RInv
  BY LoadStart, LoadStep, PTL DEF RoundTripSpec

(* Of whatever bytes a load decodes, however they are read, the lines are  *)
(* those between the terminators and have no byte of one, and every slice  *)
(* of the split is in range and at the start of a character.               *)
THEOREM LoadFindsTheLines == RoundTripSpec => []SplitRight
  BY LoadInvariant, PTL DEF RInv, ScanInv

THEOREM LoadedLinesAreBare == RoundTripSpec => []LinesAreBare
  BY LoadInvariant, PTL DEF RInv, ScanInv, SplitInv

THEOREM LoadStaysInRange == RoundTripSpec => []SplitTypeOK
  BY LoadInvariant, PTL DEF RInv, ScanInv, SplitInv

THEOREM LoadCutsAtBoundaries == RoundTripSpec => []SlicesAtBoundaries
  BY LoadInvariant, PTL DEF RInv, Whole

(* What write_lines wrote comes back from from_reader, whatever the lines, *)
(* the line ending and the pieces in which it is read.                     *)
THEOREM WrittenLinesComeBack == RoundTripSpec => []RoundTripLaw
<1>1. RInv => RoundTripLaw
  <2> SUFFICES ASSUME RInv, done, given # NoBuffer,
                      \A k \in DOMAIN given : Bare(given[k])
               PROVE  lines = IF given # << >> /\ Last(given) = << >>
                                THEN Front(given) ELSE given
    BY DEF RoundTripLaw
  <2>1. lines = LinesOf(s) /\ Transported
    BY DEF RInv, ScanInv, SplitRight
  <2>2. stage = "splitting" /\ s = bytes /\ incoming = << >>
        /\ given \in Buffers /\ ending \in Endings
        /\ bytes \in Seq(Byte) /\ bytes \o incoming = Rendered(given, ending)
    BY <2>1 DEF Transported
  <2>3. s = Rendered(given, ending)
    BY <2>2, ConcatEmptySeq
  <2>4. given \in Seq(Seq(Byte)) /\ \A k \in 1 .. Len(given) : Bare(given[k])
    BY <2>2, BuffersAssumption
  <2> QED
    BY <2>1, <2>2, <2>3, <2>4, ByteAssumption, LinesOfRendered
<1> QED
  BY <1>1, LoadInvariant, PTL
=============================================================================
