---------------------------- MODULE LineEndings ----------------------------
(***************************************************************************)
(* How text becomes lines: the scan of split_on_line_endings               *)
(* (line_buffer.rs:245), one byte class per step, checked against the      *)
(* lines of TextLines.tla.  Positions i and start are 0-based, as in the   *)
(* code.                                                                   *)
(***************************************************************************)
EXTENDS TextLines

CONSTANTS Lead,  \* the first byte of a character of two bytes
          Cont,  \* and its second one
          Texts  \* the texts that are split

ASSUME CharacterAssumption == {Lead, Cont} \subseteq Byte \ {CR, LF} /\ Lead # Cont
ASSUME TextsAssumption == Texts \subseteq Seq(Byte)

(* A &str is valid UTF-8: every character is whole. *)
Utf8(t) ==
  \A k \in DOMAIN t :
    /\ t[k] = Lead => k < Len(t) /\ t[k + 1] = Cont
    /\ t[k] = Cont => k > 1 /\ t[k - 1] = Lead

VARIABLES s,      \* the text
          i,      \* the next byte to look at
          start,  \* where the current line starts
          lines,  \* the lines found so far
          done    \* the function returned

splitVars == <<s, i, start, lines, done>>

(* s[a..b] of the code, which panics unless a <= b <= Len(s) and both are  *)
(* character boundaries.  A bug to catch: the terminator is kept.          *)
SliceInclusive(a, b) == SubSeq(s, a + 1, IF b < Len(s) THEN b + 1 ELSE b)
Slice(a, b) == SubSeq(s, a + 1, b)
At(k) == s[k + 1]

SplitOf(text) ==
  /\ s = text
  /\ i = 0 /\ start = 0 /\ lines = << >>
  /\ done = FALSE

(* The current line ends before i; the next one starts at n. *)
CloseLine(n) ==
  /\ lines' = Append(lines, Slice(start, i))
  /\ i' = n
  /\ start' = n
  /\ UNCHANGED <<s, done>>

(* Where the line after a CR starts.  Bugs to catch: CRLF ends two lines;  *)
(* the byte after a CR is not looked at.                                   *)
AfterReturnAlone == i + 1
AfterReturnPair == i + 2
AfterReturn == IF i + 1 < Len(s) /\ At(i + 1) = LF THEN i + 2 ELSE i + 1

CarriageReturn ==
  /\ ~done /\ i < Len(s) /\ At(i) = CR
  /\ CloseLine(AfterReturn)

LineFeed ==
  /\ ~done /\ i < Len(s) /\ At(i) = LF
  /\ CloseLine(i + 1)

(* A bug to catch: the loop does not advance. *)
OtherByteAgain ==
  /\ ~done /\ i < Len(s) /\ At(i) \notin {CR, LF}
  /\ UNCHANGED splitVars

OtherByte ==
  /\ ~done /\ i < Len(s) /\ At(i) \notin {CR, LF}
  /\ i' = i + 1
  /\ UNCHANGED <<s, start, lines, done>>

(* What follows the last terminator is a line unless it is empty. *)
ReturnTail ==
  /\ ~done /\ i >= Len(s)
  /\ LET tail == Slice(start, Len(s))
     IN  lines' = IF tail = << >> THEN lines ELSE Append(lines, tail)
  /\ done' = TRUE
  /\ UNCHANGED <<s, i, start>>

SplitInit == \E text \in Texts : SplitOf(text)

SplitNext == CarriageReturn \/ LineFeed \/ OtherByte \/ ReturnTail

(* A loop that waits for nothing: it runs to its end. *)
SplitSpec == SplitInit /\ [][SplitNext]_splitVars /\ WF_splitVars(SplitNext)

-----------------------------------------------------------------------------
(* The scan finds the lines between the terminators, where CRLF is one     *)
(* terminator, and no empty line after a final one.                        *)
(* (line_buffer.rs:242-244)                                                *)
SplitRight == done => lines = LinesOf(s)

(* The positions stay in range too: no slice panics, and the two-byte step *)
(* over CRLF does not pass the end.  (line_buffer.rs:253-269)              *)
SplitTypeOK ==
  /\ s \in Seq(Byte) /\ lines \in Seq(Seq(Byte))
  /\ i \in 0 .. Len(s) /\ start \in 0 .. i
  /\ done \in BOOLEAN

(* No slice starts within a character, which would panic: every start is   *)
(* one, in a text that is valid UTF-8.  (line_buffer.rs:253, 262, 269)     *)
SlicesAtBoundaries == start = Len(s) \/ At(start) # Cont

(***************************************************************************)
(* No line keeps a byte of a terminator, which the pool and write_lines    *)
(* rely on.  (line_source.rs:11-12, line_buffer.rs:173)                    *)
(***************************************************************************)
LinesAreBare == \A k \in DOMAIN lines : Bare(lines[k])
=============================================================================
