----------------------------- MODULE TextLines -----------------------------
(***************************************************************************)
(* Texts and their lines.  A text is a sequence of bytes (or characters),  *)
(* of which only the two terminators matter here.  The lines of a text are *)
(* defined by where its terminators end, without a scan.                   *)
(***************************************************************************)
EXTENDS Integers, Sequences, SequencesExt

CONSTANTS Byte, CR, LF

ASSUME ByteAssumption == CR \in Byte /\ LF \in Byte /\ CR # LF

(* The endings a text can be written with: --line-ending lf, crlf, cr.     *)
Endings == {<<LF>>, <<CR, LF>>, <<CR>>}

Bare(line) == \A k \in DOMAIN line : line[k] \notin {CR, LF}

-----------------------------------------------------------------------------
(* The terminator that ends at position p (1-based) is CRLF, or one byte.  *)
TerminatorLength(t, p) ==
  IF t[p] = LF /\ p > 1 /\ t[p - 1] = CR THEN 2 ELSE 1

(* The numbers from 1 to n that are in P, in order. *)
InOrder(P, n) ==
  LET upTo[k \in Nat] ==
        IF k = 0 THEN << >>
        ELSE IF k \in P THEN Append(upTo[k - 1], k) ELSE upTo[k - 1]
  IN  upTo[n]

(* The items of s that are in S, in order. *)
ItemsIn(s, S) ==
  LET at == InOrder({k \in DOMAIN s : s[k] \in S}, Len(s))
  IN  [k \in DOMAIN at |-> s[at[k]]]

(* The last of the positions in P up to n, or 0. *)
LastIn(P, n) ==
  LET ps == InOrder(P, n) IN IF ps = << >> THEN 0 ELSE Last(ps)

(* The lines that end at the positions in P up to n, where their           *)
(* terminators end.                                                        *)
LinesEnded(t, P, n) ==
  LET ends == InOrder(P, n)
  IN  [k \in DOMAIN ends |->
         SubSeq(t, (IF k = 1 THEN 0 ELSE ends[k - 1]) + 1,
                ends[k] - TerminatorLength(t, ends[k]))]

(* The lines of t when terminators end at the positions in P.  What        *)
(* follows the last of them is a line unless it is empty.                  *)
LinesBetween(t, P) ==
  LET rest == SubSeq(t, LastIn(P, Len(t)) + 1, Len(t))
  IN  LinesEnded(t, P, Len(t)) \o (IF rest = << >> THEN << >> ELSE <<rest>>)

LineFeeds(t) == {p \in DOMAIN t : t[p] = LF}

(* A CR that no LF follows. *)
BareReturns(t) ==
  {p \in DOMAIN t : t[p] = CR /\ ~(p < Len(t) /\ t[p + 1] = LF)}

(* LineBuffer::from_str splits on LF, CRLF and bare CR.                    *)
LinesOf(t) == LinesBetween(t, LineFeeds(t) \cup BareReturns(t))

(* str::lines of Rust splits on LF and CRLF; a bare CR stays in its line.  *)
StrLines(t) == LinesBetween(t, LineFeeds(t))

-----------------------------------------------------------------------------
(* Each line followed by the ending. *)
Terminated(ls, e) == FlattenSeq([k \in DOMAIN ls |-> ls[k] \o e])

(* The lines with the ending between two of them, as write_lines writes    *)
(* them.                                                                   *)
Rendered(ls, e) ==
  FlattenSeq([k \in DOMAIN ls |-> IF k < Len(ls) THEN ls[k] \o e ELSE ls[k]])
=============================================================================
