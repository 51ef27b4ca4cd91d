--------------------------- MODULE Medlin_proofs ---------------------------
(***************************************************************************)
(* What sessions of medlin promise of the files, for all files, encodings, *)
(* lines and numbers of sessions: a file holds a prefix of what was saved  *)
(* to it last, and all of it after a save that was reported and met no     *)
(* write error; what is loaded from it are the lines that were saved.      *)
(* And of the command loop, for every input: a line is split into words as *)
(* it was typed, and a command does to the lines and the files what was    *)
(* typed and nothing else.  Nothing said of MSpec uses an assumption of    *)
(* CommandLoop.                                                            *)
(***************************************************************************)
EXTENDS CommandLoop, TextLines_proofs

(***************************************************************************)
(* What the operators of Medlin.tla come to for an encoding enc, or none,  *)
(* an ending e and the lines ls: the same in every state of a run.         *)
(***************************************************************************)
Args(enc, e) == enc \in Encodings \cup {NoEncoding} /\ e \in Endings

EncodableIn(enc, line) == \A k \in DOMAIN line : Encoder[enc][line[k]] # Bad
EncodedIn(enc, text) ==
  IF enc # NoEncoding THEN [k \in DOMAIN text |-> Encoder[enc][text[k]]] ELSE text
DecodedIn(enc, t) == IF enc # NoEncoding THEN Decode(enc, t) ELSE t
AcceptedIn(enc, line) == enc # NoEncoding => Over(line, Ascii) \/ EncodableIn(enc, line)

(* The lines that may be in a buffer.                                      *)
Shown(enc) == {line \in Seq(Char \ {LF}) : AcceptedIn(enc, line)}

(* The text that a save of these lines has. *)
SavedText(enc, e, ls) ==
  EncodedIn(enc, IF enc # NoEncoding THEN Terminated(ls, e) ELSE Rendered(ls, e))

(* What the first n calls of the writer passed to it. *)
PieceOf(enc, e, ls, k) == IF enc # NoEncoding \/ k < Len(ls) THEN ls[k] \o e ELSE ls[k]
Pieces(enc, e, ls) == [k \in DOMAIN ls |-> PieceOf(enc, e, ls, k)]
TextUpTo(enc, e, ls, n) == EncodedIn(enc, FlattenSeq(SubSeq(Pieces(enc, e, ls), 1, n)))

(* What a load shows, of a text and of a file that has the bytes t. *)
LinesIn(enc, text) == IF enc # NoEncoding THEN StrLines(text) ELSE LinesOf(text)
LinesFrom(enc, text) ==
  IF enc # NoEncoding
    THEN ItemsIn(LinesIn(enc, text),
                 {line \in Range(LinesIn(enc, text)) : AcceptedIn(enc, line)})
    ELSE LinesIn(enc, text)
Loaded(enc, t) == LinesFrom(enc, DecodedIn(enc, t))

(* They are these. *)
LEMMA SameEverywhere ==
  /\ \A text : Encoded(text) = EncodedIn(encoding, text)
  /\ \A line : Accepted(line) <=> AcceptedIn(encoding, line)
  /\ \A line : Encodable(line) <=> EncodableIn(encoding, line)
  /\ forced <=> encoding # NoEncoding
  /\ WholeText = SavedText(encoding, ending, buf)
  /\ \A n \in Nat : Piece(n) = PieceOf(encoding, ending, buf, n + 1)
  /\ \A t : /\ Decoded(t) = DecodedIn(encoding, t)
            /\ IF forced THEN ForcedLines(t) = LinesFrom(encoding, t)
               ELSE LinesOf(t) = LinesFrom(encoding, t)
            /\ LinesOnDisk(t) = LinesIn(encoding, DecodedIn(encoding, t))
  BY DEF Decoded, DecodedIn, LinesOnDisk, LinesIn, LinesFrom, Encoded, EncodedIn, Accepted, AcceptedIn, Encodable, EncodableIn, forced,
         WholeText, SavedText, Piece, PieceOf, ForcedLines, AcceptedOf, Loaded

-----------------------------------------------------------------------------
BufferOK ==
  /\ buf \in Seq(Shown(encoding))
  /\ past \in Seq(Seq(Shown(encoding))) /\ future \in Seq(Seq(Shown(encoding)))

(* What an unedited buffer was loaded from, when it was saved. *)
FromOK(enc, s) ==
  s.from # << >> =>
    /\ s.from[1] \in Seq(Byte) /\ Over(DecodedIn(enc, s.from[1]), Char)
    /\ s.lines = Loaded(enc, s.from[1])

(* The content f of a file, and the last save s to it. *)
SavedOK(enc, e, f, s) ==
  /\ s \in [lines : Seq(Shown(enc)), text : Seq(Byte), from : Seq(Seq(Byte)),
            reported : BOOLEAN, failed : BOOLEAN]
  /\ s.text = SavedText(enc, e, s.lines) /\ FromOK(enc, s)
  /\ GoesOn(Byte, f, s.text)
  /\ s.reported /\ ~s.failed => f = s.text

(* The same while that save, w, is under way, of the lines ls. *)
UnderWay(enc, e, ls, f, s, w) ==
  /\ w \in [path : Paths, n : 0 .. Len(ls), buffered : Seq(Byte), said : BOOLEAN]
  /\ s.lines = ls /\ ~s.reported
  /\ f \o w.buffered = TextUpTo(enc, e, ls, w.n)
  /\ w.said => w.n = Len(ls)

FilesOK ==
  /\ DOMAIN files \subseteq Paths /\ \A p \in DOMAIN files : files[p] \in Seq(Byte)
  /\ DOMAIN saves \subseteq DOMAIN files
  /\ \A p \in DOMAIN saves : SavedOK(encoding, ending, files[p], saves[p])

SaveOK ==
  /\ phase \in {"off", "editing", "saving", "closing"}
  /\ IF phase \in {"saving", "closing"}
       THEN /\ save.path \in DOMAIN saves
            /\ UnderWay(encoding, ending, buf, files[save.path], saves[save.path], save)
       ELSE save = NoSave

FreshOK ==
  fresh # NoPath =>
    /\ phase = "editing" /\ fresh \in DOMAIN files
    /\ Decodes(files[fresh]) /\ buf = Loaded(encoding, files[fresh])

(***************************************************************************)
(* The inductive invariant.                                                *)
(***************************************************************************)
MInv == Args(encoding, ending) /\ BufferOK /\ FilesOK /\ SaveOK /\ FreshOK

-----------------------------------------------------------------------------
LEMMA ByteTypes == ByteAssumption /\ Char \subseteq Byte /\ CR \in Char /\ LF \in Char
  BY ByteAssumption, CharAssumption DEF ByteAssumption

LEMMA EndingsType == \A e \in Endings : e \in Seq(Char)
<1>1. CR \in Char /\ LF \in Char
  BY ByteTypes
<1>2. <<LF>> \in Seq(Char) /\ <<CR, LF>> \in Seq(Char) /\ <<CR>> \in Seq(Char)
  BY ONLY <1>1
<1> QED
  BY <1>2 DEF Endings

(* A byte order mark is a piece of its own; an encoding is one of those    *)
(* that the program knows.                                                 *)
LEMMA EncoderIs ==
  ASSUME NEW enc \in Encoding
  PROVE  /\ Encoder[enc] \in [Char -> Byte] /\ DOMAIN Decoder = Encoding
         /\ Encoder[enc][CR] = CR /\ Encoder[enc][LF] = LF
         /\ enc \in Wide => Decoder[enc] \in [Byte \X Byte -> Char \cup {Bad}]
         /\ enc \notin Wide =>
              /\ Decoder[enc] \in [Byte -> Char \cup {Bad}]
              /\ Decoder[enc][CR] = CR /\ Decoder[enc][LF] = LF
  BY EncodingAssumption

(* An encoded text is as long. *)
LEMMA EncodedType ==
  ASSUME NEW enc \in Encoding \cup {NoEncoding}, NEW text \in Seq(Char)
  PROVE  EncodedIn(enc, text) \in Seq(Byte) /\ Len(EncodedIn(enc, text)) = Len(text)
<1>1. CASE enc = NoEncoding
  BY <1>1, ByteTypes, SeqWider DEF EncodedIn
<1>2. CASE enc # NoEncoding
  <2>1. Encoder[enc] \in [Char -> Byte]
    BY <1>2, EncoderIs
  <2>2. Len(text) \in Nat /\ DOMAIN text = 1 .. Len(text)
        /\ \A k \in 1 .. Len(text) : text[k] \in Char
    OBVIOUS
  <2>3. EncodedIn(enc, text) \in [1 .. Len(text) -> Byte]
    BY <1>2, <2>1, <2>2 DEF EncodedIn
  <2> QED
    BY <2>2, <2>3, FunctionIsSeq
<1> QED
  BY <1>1, <1>2

LEMMA ArgsEncoding ==
  ASSUME NEW enc, NEW e, Args(enc, e)
  PROVE  enc \in Encoding \cup {NoEncoding}
  BY EncodingAssumption DEF Args

(* A text that decodes has characters only. *)
LEMMA DecodedType ==
  ASSUME NEW enc \in Encoding \cup {NoEncoding}, NEW t \in Seq(Byte),
         Over(DecodedIn(enc, t), Char)
  PROVE  DecodedIn(enc, t) \in Seq(Char)
<1>1. ASSUME NEW r, NEW n \in Nat, DOMAIN r = 1 .. n, r = [k \in 1 .. n |-> r[k]],
             Over(r, Char)
      PROVE  r \in Seq(Char)
  <2>1. r \in [1 .. n -> Char]
    BY <1>1 DEF Over
  <2> QED
    BY <2>1, FunctionIsSeq
<1>2. ASSUME NEW en, NEW u \in Seq(Byte), Over(Read(en, u), Char)
      PROVE  Read(en, u) \in Seq(Char)
  <2>1. Len(u) \in Nat /\ DOMAIN u = 1 .. Len(u) /\ (Len(u) + 1) \div 2 \in Nat
    OBVIOUS
  <2> DEFINE r == Read(en, u)
             n == IF en \in Wide THEN (Len(u) + 1) \div 2 ELSE Len(u)
  <2>2. n \in Nat /\ DOMAIN r = 1 .. n /\ r = [k \in 1 .. n |-> r[k]]
    <3>1. CASE en \in Wide
      BY <2>1, <3>1 DEF Read
    <3>2. CASE en \notin Wide
      BY <2>1, <3>2 DEF Read
    <3> QED
      BY <3>1, <3>2
  <2>3. Over(r, Char)
    BY <1>2
  <2> HIDE DEF r, n
  <2>4. r \in Seq(Char)
    BY <1>1, <2>2, <2>3
  <2> QED
    BY <2>4 DEF r
<1>3. CASE enc = NoEncoding
  <2>1. t = [k \in 1 .. Len(t) |-> t[k]] /\ Len(t) \in Nat /\ DOMAIN t = 1 .. Len(t)
    OBVIOUS
  <2>2. Over(t, Char)
    BY <1>3 DEF DecodedIn
  <2>3. t \in Seq(Char)
    BY <1>1, <2>1, <2>2
  <2> QED
    BY <1>3, <2>3 DEF DecodedIn
<1>4. CASE enc # NoEncoding
  <2>1. CASE t # << >> /\ Head(t) \in DOMAIN Marks
    <3>1. DecodedIn(enc, t) = Read(Marks[Head(t)], Tail(t))
      BY <1>4, <2>1 DEF DecodedIn, Decode
    <3>2. Tail(t) \in Seq(Byte)
      BY <2>1
    <3> QED
      BY <1>2, <3>1, <3>2
  <2>2. CASE ~(t # << >> /\ Head(t) \in DOMAIN Marks)
    <3>1. DecodedIn(enc, t) = Read(enc, t)
      BY <1>4, <2>2 DEF DecodedIn, Decode
    <3> QED
      BY <1>2, <3>1
  <2> QED
    BY <2>1, <2>2
<1> QED
  BY <1>3, <1>4

LEMMA EncodedConcat ==
  ASSUME NEW enc, NEW a \in Seq(Char), NEW b \in Seq(Char)
  PROVE  EncodedIn(enc, a \o b) = EncodedIn(enc, a) \o EncodedIn(enc, b)
<1>1. CASE enc = NoEncoding
  BY <1>1 DEF EncodedIn
<1>2. CASE enc # NoEncoding
  <2> DEFINE E(t) == [k \in 1 .. Len(t) |-> Encoder[enc][t[k]]]
  <2>1. /\ Len(a) \in Nat /\ Len(b) \in Nat /\ a \o b \in Seq(Char)
        /\ Len(a \o b) = Len(a) + Len(b)
        /\ \A k \in 1 .. Len(a) : (a \o b)[k] = a[k]
        /\ \A k \in Len(a) + 1 .. Len(a) + Len(b) : (a \o b)[k] = b[k - Len(a)]
    BY ConcatProperties
  <2>2. /\ DOMAIN a = 1 .. Len(a) /\ DOMAIN b = 1 .. Len(b)
        /\ DOMAIN (a \o b) = 1 .. Len(a) + Len(b)
    BY <2>1
  <2>3. EncodedIn(enc, a) = E(a) /\ EncodedIn(enc, b) = E(b)
    BY <1>2, <2>2 DEF EncodedIn
  <2>4. EncodedIn(enc, a \o b) = [k \in 1 .. Len(a) + Len(b) |-> Encoder[enc][(a \o b)[k]]]
    BY <1>2, <2>2 DEF EncodedIn
  <2>5. Len(E(a)) = Len(a) /\ Len(E(b)) = Len(b)
    BY <2>1
  <2>6. E(a) \o E(b) = [k \in 1 .. Len(a) + Len(b) |->
                          IF k <= Len(a) THEN E(a)[k] ELSE E(b)[k - Len(a)]]
    BY <2>1, <2>5
  <2>7. ASSUME NEW k \in 1 .. Len(a) + Len(b)
        PROVE  Encoder[enc][(a \o b)[k]] = IF k <= Len(a) THEN E(a)[k] ELSE E(b)[k - Len(a)]
    <3>1. CASE k <= Len(a)
      <4>1. k \in 1 .. Len(a)
        BY <2>1, <3>1
      <4> QED
        BY <2>1, <3>1, <4>1
    <3>2. CASE ~(k <= Len(a))
      <4>1. k \in Len(a) + 1 .. Len(a) + Len(b) /\ k - Len(a) \in 1 .. Len(b)
        BY <2>1, <3>2
      <4> QED
        BY <2>1, <3>2, <4>1
    <3> QED
      BY <3>1, <3>2
  <2> HIDE DEF E
  <2> QED
    BY <2>3, <2>4, <2>6, <2>7
<1> QED
  BY <1>1, <1>2

LEMMA EncodedEmpty == \A enc : EncodedIn(enc, << >>) = << >>
  BY DEF EncodedIn

(* The lines of the buffer are made of characters.                         *)
LEMMA ShownType ==
  ASSUME NEW enc
  PROVE  Seq(Shown(enc)) \subseteq Seq(Seq(Char))
<1>1. Shown(enc) \subseteq Seq(Char \ {LF})
  BY DEF Shown
<1>2. Seq(Char \ {LF}) \subseteq Seq(Char)
  BY SeqWider
<1>3. Shown(enc) \subseteq Seq(Char)
  BY ONLY <1>1, <1>2
<1> QED
  BY <1>3, SeqWider

LEMMA PiecesAre ==
  ASSUME NEW enc, NEW e, Args(enc, e), NEW ls \in Seq(Shown(enc))
  PROVE  /\ Pieces(enc, e, ls) \in Seq(Seq(Char)) /\ Len(Pieces(enc, e, ls)) = Len(ls)
         /\ \A k \in 1 .. Len(ls) : Pieces(enc, e, ls)[k] = PieceOf(enc, e, ls, k)
         /\ EncodedIn(enc, FlattenSeq(Pieces(enc, e, ls))) = SavedText(enc, e, ls)
<1>1. /\ ls \in Seq(Seq(Char)) /\ e \in Seq(Char)
      /\ Len(ls) \in Nat /\ DOMAIN ls = 1 .. Len(ls)
  BY ShownType, EndingsType DEF Args
<1>2. \A k \in 1 .. Len(ls) :
        PieceOf(enc, e, ls, k) =
          IF enc # NoEncoding \/ k < Len(ls) THEN ls[k] \o e ELSE ls[k]
  BY DEF PieceOf
<1>3. \A k \in 1 .. Len(ls) : PieceOf(enc, e, ls, k) \in Seq(Char)
  <2>1. \A k \in 1 .. Len(ls) : ls[k] \in Seq(Char) /\ ls[k] \o e \in Seq(Char)
    BY ONLY <1>1, ConcatProperties
  <2> QED
    BY <1>2, <2>1
<1>4. Pieces(enc, e, ls) \in [1 .. Len(ls) -> Seq(Char)]
  BY <1>1, <1>3 DEF Pieces
<1>5. Pieces(enc, e, ls) \in Seq(Seq(Char)) /\ Len(Pieces(enc, e, ls)) = Len(ls)
  BY <1>1, <1>4, FunctionIsSeq
<1>6. \A k \in 1 .. Len(ls) : Pieces(enc, e, ls)[k] = PieceOf(enc, e, ls, k)
  BY <1>1 DEF Pieces
<1>7. CASE enc # NoEncoding
  <2>1. Pieces(enc, e, ls) = [k \in DOMAIN ls |-> ls[k] \o e]
    BY <1>1, <1>2, <1>7 DEF Pieces
  <2> QED
    BY <1>5, <1>6, <1>7, <2>1 DEF SavedText, Terminated
<1>8. CASE enc = NoEncoding
  <2>1. Pieces(enc, e, ls) = [k \in DOMAIN ls |-> IF k < Len(ls) THEN ls[k] \o e ELSE ls[k]]
    BY <1>1, <1>2, <1>8 DEF Pieces
  <2> QED
    BY <1>5, <1>6, <1>8, <2>1 DEF SavedText, Rendered
<1> QED
  BY <1>7, <1>8

(* What the writer got is the start of what is to be saved, and all of it  *)
(* in the end.                                                             *)
LEMMA WrittenUpTo ==
  ASSUME NEW enc, NEW e, Args(enc, e), NEW ls \in Seq(Shown(enc))
  PROVE  /\ TextUpTo(enc, e, ls, 0) = << >>
         /\ TextUpTo(enc, e, ls, Len(ls)) = SavedText(enc, e, ls)
         /\ \A n \in 0 .. Len(ls) :
              /\ TextUpTo(enc, e, ls, n) \in Seq(Byte)
              /\ GoesOn(Byte, TextUpTo(enc, e, ls, n), SavedText(enc, e, ls))
         /\ \A n \in 0 .. Len(ls) - 1 :
              /\ PieceOf(enc, e, ls, n + 1) \in Seq(Char)
              /\ TextUpTo(enc, e, ls, n + 1) =
                   TextUpTo(enc, e, ls, n) \o EncodedIn(enc, PieceOf(enc, e, ls, n + 1))
<1> DEFINE ps == Pieces(enc, e, ls)
           F(n) == FlattenSeq(SubSeq(ps, 1, n))
<1>1. /\ ps \in Seq(Seq(Char)) /\ Len(ps) = Len(ls) /\ Len(ls) \in Nat
      /\ \A k \in 1 .. Len(ls) : ps[k] = PieceOf(enc, e, ls, k)
      /\ EncodedIn(enc, FlattenSeq(ps)) = SavedText(enc, e, ls)
  BY PiecesAre
<1> HIDE DEF ps
<1>2. \A n \in 0 .. Len(ls) : TextUpTo(enc, e, ls, n) = EncodedIn(enc, F(n))
  BY DEF TextUpTo, ps
<1>3. TextUpTo(enc, e, ls, 0) = << >>
  <2>1. SubSeq(ps, 1, 0) = << >>
    OBVIOUS
  <2>2. FlattenSeq(SubSeq(ps, 1, 0)) = << >>
    BY <2>1, FlattenEmpty
  <2> QED
    BY <2>2, EncodedEmpty DEF TextUpTo, ps
<1>4. TextUpTo(enc, e, ls, Len(ls)) = SavedText(enc, e, ls)
  <2>1. SubSeq(ps, 1, Len(ls)) = ps
    BY <1>1
  <2>2. TextUpTo(enc, e, ls, Len(ls)) = EncodedIn(enc, FlattenSeq(SubSeq(ps, 1, Len(ls))))
    BY DEF TextUpTo, ps
  <2> QED
    BY <1>1, <2>1, <2>2
<1>5. ASSUME NEW n \in 0 .. Len(ls)
      PROVE  /\ TextUpTo(enc, e, ls, n) \in Seq(Byte)
             /\ GoesOn(Byte, TextUpTo(enc, e, ls, n), SavedText(enc, e, ls))
  <2>1. n \in 0 .. Len(ps)
    BY <1>1
  <2>2. F(n) \in Seq(Char) /\ GoesOn(Char, F(n), FlattenSeq(ps))
    BY <1>1, <2>1, FlattenPrefix, FlattenType
  <2> HIDE DEF F
  <2>3. PICK rest \in Seq(Char) : FlattenSeq(ps) = F(n) \o rest
    BY <2>2 DEF GoesOn
  <2>4. EncodedIn(enc, F(n)) \in Seq(Byte) /\ EncodedIn(enc, rest) \in Seq(Byte)
    BY <2>2, EncodedType, ArgsEncoding
  <2>5. SavedText(enc, e, ls) = EncodedIn(enc, F(n)) \o EncodedIn(enc, rest)
    BY <1>1, <2>2, <2>3, EncodedConcat
  <2> QED
    BY <1>2, <2>4, <2>5 DEF GoesOn
<1>6. ASSUME NEW n \in 0 .. Len(ls) - 1
      PROVE  /\ PieceOf(enc, e, ls, n + 1) \in Seq(Char)
             /\ TextUpTo(enc, e, ls, n + 1) =
                  TextUpTo(enc, e, ls, n) \o EncodedIn(enc, PieceOf(enc, e, ls, n + 1))
  <2> DEFINE piece == PieceOf(enc, e, ls, n + 1)
  <2>1. n \in 0 .. Len(ps) /\ n < Len(ps) /\ n + 1 \in 1 .. Len(ls) /\ (n + 1) - 1 = n
        /\ n \in 0 .. Len(ls) /\ n + 1 \in 0 .. Len(ls)
    BY <1>1
  <2>2. ps[n + 1] = piece /\ piece \in Seq(Char)
    BY <1>1, <2>1
  <2>3. SubSeq(ps, 1, n) \in Seq(Seq(Char))
        /\ SubSeq(ps, 1, n + 1) = Append(SubSeq(ps, 1, n), piece)
    BY <1>1, <2>1, <2>2, FirstLines
  <2>4. F(n + 1) = F(n) \o piece /\ F(n) \in Seq(Char)
    BY <2>2, <2>3, FlattenAppend, FlattenType
  <2> HIDE DEF F
  <2>5. EncodedIn(enc, F(n + 1)) = EncodedIn(enc, F(n)) \o EncodedIn(enc, piece)
    BY <2>2, <2>4, EncodedConcat
  <2> QED
    BY <1>2, <2>1, <2>2, <2>5
<1> QED
  BY <1>3, <1>4, <1>5, <1>6

-----------------------------------------------------------------------------
(* The edits of a sequence give sequences of the same elements.            *)
LEMMA InsertAtType ==
  ASSUME NEW S, NEW s \in Seq(S), NEW n \in 1 .. Len(s) + 1, NEW x \in S
  PROVE  InsertAt(s, n, x) \in Seq(S)
<1>1. n - 1 \in 0 .. Len(s) /\ (n - 1) + 1 = n
  OBVIOUS
<1>2. SubSeq(s, 1, n - 1) \in Seq(S) /\ SubSeq(s, n, Len(s)) \in Seq(S)
  BY <1>1, CutAt
<1>3. <<x>> \in Seq(S)
  OBVIOUS
<1> QED
  BY ONLY <1>2, <1>3, ConcatProperties DEF InsertAt

LEMMA RemoveAtType ==
  ASSUME NEW S, NEW s \in Seq(S), NEW n \in 1 .. Len(s)
  PROVE  RemoveAt(s, n) \in Seq(S)
<1>1. n - 1 \in 0 .. Len(s) /\ n \in 0 .. Len(s)
  OBVIOUS
<1>2. SubSeq(s, 1, n - 1) \in Seq(S) /\ SubSeq(s, n + 1, Len(s)) \in Seq(S)
  BY <1>1, CutAt
<1> QED
  BY ONLY <1>2, ConcatProperties DEF RemoveAt

LEMMA ReplaceAtType ==
  ASSUME NEW S, NEW s \in Seq(S), NEW n \in 1 .. Len(s), NEW x \in S
  PROVE  ReplaceAt(s, n, x) \in Seq(S)
  BY ExceptSeq DEF ReplaceAt

LEMMA LastFrontType ==
  ASSUME NEW S, NEW s \in Seq(S), s # << >>
  PROVE  Last(s) \in S /\ Front(s) \in Seq(S)
<1>1. PICK f \in Seq(S), l \in S : s = Append(f, l)
  BY SequenceEmptyOrAppend
<1> QED
  BY <1>1, FrontOfAppend

(* What a text goes on from is a prefix of it.                             *)
LEMMA GoesOnIsPrefix ==
  ASSUME NEW X, NEW a \in Seq(X), NEW b, GoesOn(X, a, b)
  PROVE  IsPrefix(a, b)
<1>1. PICK rest \in Seq(X) : b = a \o rest
  BY DEF GoesOn
<1>2. /\ Len(a) \in Nat /\ Len(rest) \in Nat /\ b \in Seq(X) /\ Len(b) = Len(a) + Len(rest)
      /\ \A k \in 1 .. Len(a) : b[k] = a[k]
  BY <1>1, ConcatProperties
<1>3. SubSeq(a, 1, Len(a)) = [k \in 1 .. Len(a) |-> a[k]]
  BY <1>2
<1>4. SubSeq(b, 1, Len(a)) = [k \in 1 .. Len(a) |-> b[k]]
  BY <1>2
<1>5. SubSeq(a, 1, Len(a)) = SubSeq(b, 1, Len(a))
  BY <1>2, <1>3, <1>4
<1> QED
  BY <1>2, <1>5 DEF IsPrefix

-----------------------------------------------------------------------------
(* A step that leaves the files alone, and no save under way.              *)
LEMMA BufferMoves ==
  ASSUME MInv, UNCHANGED <<files, saves, argVars>>,
         phase' \in {"off", "editing"}, save' = NoSave,
         NEW ls \in Seq(Shown(encoding)), buf' = ls,
         past' \in Seq(Seq(Shown(encoding))), future' \in Seq(Seq(Shown(encoding))),
         fresh' # NoPath =>
           /\ phase' = "editing" /\ fresh' \in DOMAIN files
           /\ Decodes(files[fresh']) /\ ls = Loaded(encoding, files[fresh'])
  PROVE  MInv'
<1>1. encoding' = encoding /\ ending' = ending /\ files' = files /\ saves' = saves
  BY DEF argVars
<1>2. Args(encoding, ending)'
  BY <1>1 DEF MInv
<1>3. BufferOK'
  BY <1>1 DEF BufferOK
<1>4. FilesOK'
  BY <1>1 DEF MInv, FilesOK
<1>5. SaveOK'
  BY DEF SaveOK
<1>6. FreshOK'
  BY <1>1 DEF FreshOK, Decodes, Decoded, forced
<1> QED
  BY <1>2, <1>3, <1>4, <1>5, <1>6 DEF MInv

(* The commands of an open session, on any line number and text.           *)
LEMMA EditKeeps ==
  ASSUME MInv, NEW ls \in Seq(Shown(encoding)), EditTo(ls)
  PROVE  MInv'
<1>1. /\ phase = "editing" /\ phase' = "editing" /\ save' = save
      /\ buf' = ls /\ past' = Append(past, buf) /\ future' = << >> /\ fresh' = NoPath
      /\ UNCHANGED <<files, saves, argVars>>
  BY DEF EditTo
<1>2. save = NoSave
  BY <1>1 DEF MInv, SaveOK
<1>3. past' \in Seq(Seq(Shown(encoding))) /\ future' \in Seq(Seq(Shown(encoding)))
  BY <1>1, AppendProperties, EmptySeq DEF MInv, BufferOK
<1> QED
  BY <1>1, <1>2, <1>3, BufferMoves

LEMMA InsertKeeps ==
  ASSUME MInv, NEW n \in Nat, NEW text \in Seq(Char \ {LF}), InsertCommand(n, text)
  PROVE  MInv'
<1> DEFINE k == IF n - 1 < Len(buf) THEN n ELSE Len(buf) + 1
           ls == InsertAt(buf, k, text)
<1>1. n > 0 /\ Accepted(text) /\ EditTo(ls) /\ buf \in Seq(Shown(encoding))
  BY DEF InsertCommand, MInv, BufferOK
<1>2. text \in Shown(encoding)
  BY <1>1, SameEverywhere DEF Shown
<1>3. k \in 1 .. Len(buf) + 1
  BY <1>1
<1> HIDE DEF k
<1>4. ls \in Seq(Shown(encoding))
  BY <1>1, <1>2, <1>3, InsertAtType
<1> HIDE DEF ls
<1> QED
  BY <1>1, <1>4, EditKeeps

LEMMA ReplaceKeeps ==
  ASSUME MInv, NEW n, NEW text \in Seq(Char \ {LF}), ReplaceCommand(n, text)
  PROVE  MInv'
<1> DEFINE ls == ReplaceAt(buf, n, text)
<1>1. Accepted(text) /\ EditTo(ls) /\ buf \in Seq(Shown(encoding)) /\ n \in 1 .. Len(buf)
  BY DEF ReplaceCommand, MInv, BufferOK
<1>2. text \in Shown(encoding)
  BY <1>1, SameEverywhere DEF Shown
<1>3. ls \in Seq(Shown(encoding))
  BY <1>1, <1>2, ReplaceAtType
<1> HIDE DEF ls
<1> QED
  BY <1>1, <1>3, EditKeeps

LEMMA DeleteKeeps ==
  ASSUME MInv, NEW n, DeleteCommand(n)
  PROVE  MInv'
<1> DEFINE ls == RemoveAt(buf, n)
<1>1. EditTo(ls) /\ buf \in Seq(Shown(encoding)) /\ n \in 1 .. Len(buf)
  BY DEF DeleteCommand, MInv, BufferOK
<1>2. ls \in Seq(Shown(encoding))
  BY <1>1, RemoveAtType
<1> HIDE DEF ls
<1> QED
  BY <1>1, <1>2, EditKeeps

LEMMA UndoKeeps ==
  ASSUME MInv, UndoCommand \/ RedoCommand
  PROVE  MInv'
<1>1. /\ buf \in Seq(Shown(encoding)) /\ past \in Seq(Seq(Shown(encoding)))
      /\ future \in Seq(Seq(Shown(encoding)))
  BY DEF MInv, BufferOK
<1>2. /\ phase = "editing" /\ phase' = "editing" /\ save' = save /\ fresh' = NoPath
      /\ UNCHANGED <<files, saves, argVars>>
  BY DEF UndoCommand, RedoCommand
<1>3. save = NoSave
  BY <1>2 DEF MInv, SaveOK
<1>4. CASE UndoCommand
  <2>1. /\ past # << >>
        /\ buf' = Last(past) /\ past' = Front(past) /\ future' = Append(future, buf)
    BY <1>4 DEF UndoCommand
  <2>2. /\ Last(past) \in Seq(Shown(encoding))
        /\ past' \in Seq(Seq(Shown(encoding)))
    BY <1>1, <2>1, LastFrontType
  <2>3. future' \in Seq(Seq(Shown(encoding)))
    BY <1>1, <2>1, AppendProperties
  <2> QED
    BY <1>2, <1>3, <2>1, <2>2, <2>3, BufferMoves
<1>5. CASE RedoCommand
  <2>1. /\ future # << >>
        /\ buf' = Last(future) /\ past' = Append(past, buf) /\ future' = Front(future)
    BY <1>5 DEF RedoCommand
  <2>2. /\ Last(future) \in Seq(Shown(encoding))
        /\ future' \in Seq(Seq(Shown(encoding)))
    BY <1>1, <2>1, LastFrontType
  <2>3. past' \in Seq(Seq(Shown(encoding)))
    BY <1>1, <2>1, AppendProperties
  <2> QED
    BY <1>2, <1>3, <2>1, <2>2, <2>3, BufferMoves
<1> QED
  BY <1>4, <1>5

LEMMA EndKeeps ==
  ASSUME MInv, End
  PROVE  MInv'
<1>1. /\ phase' = "off" /\ save' = NoSave /\ fresh' = NoPath
      /\ buf' = << >> /\ past' = << >> /\ future' = << >>
      /\ UNCHANGED <<files, saves, argVars>>
  BY DEF End
<1>2. /\ << >> \in Seq(Shown(encoding)) /\ past' \in Seq(Seq(Shown(encoding)))
      /\ future' \in Seq(Seq(Shown(encoding)))
  BY <1>1, EmptySeq
<1> QED
  BY <1>1, <1>2, BufferMoves

(* What is loaded are lines that may be in a buffer.                       *)
LEMMA LoadedType ==
  ASSUME NEW enc, NEW t \in Seq(Char)
  PROVE  LinesFrom(enc, t) \in Seq(Shown(enc))
<1> DEFINE Lines == Seq(Char \ {LF})
           ls == LinesIn(enc, t)
<1>1. ls \in Seq(Lines)
  BY SplitType DEF LinesIn
<1> HIDE DEF Lines, ls
<1>2. CASE enc = NoEncoding
  <2>1. Lines \subseteq Shown(enc)
    BY <1>2 DEF Shown, AcceptedIn, Lines
  <2>2. Seq(Lines) \subseteq Seq(Shown(enc))
    BY <2>1, SeqWider
  <2> QED
    BY <1>1, <1>2, <2>2 DEF LinesFrom, ls
<1>3. CASE enc # NoEncoding
  <2> DEFINE S == {line \in Range(ls) : AcceptedIn(enc, line)}
             Some == {line \in Lines : line \in S}
  <2>1. ItemsIn(ls, S) \in Seq(Some)
    BY <1>1, ItemsType
  <2>2. Some \subseteq Shown(enc)
    BY DEF Shown, Lines
  <2> HIDE DEF Some
  <2>3. Seq(Some) \subseteq Seq(Shown(enc))
    BY <2>2, SeqWider
  <2>4. LinesFrom(enc, t) = ItemsIn(ls, S)
    BY <1>3 DEF LinesFrom, ls
  <2> QED
    BY <2>1, <2>3, <2>4
<1> QED
  BY <1>2, <1>3

(* The versions before each line of a forced load.                         *)
LEMMA PrefixesType ==
  ASSUME NEW S, NEW ls \in Seq(S)
  PROVE  [k \in DOMAIN ls |-> SubSeq(ls, 1, k - 1)] \in Seq(Seq(S))
<1>1. Len(ls) \in Nat /\ DOMAIN ls = 1 .. Len(ls)
  OBVIOUS
<1>2. ASSUME NEW k \in 1 .. Len(ls)
      PROVE  SubSeq(ls, 1, k - 1) \in Seq(S)
  <2>1. k - 1 \in 0 .. Len(ls)
    BY <1>1
  <2> QED
    BY <2>1, CutAt
<1>3. [k \in DOMAIN ls |-> SubSeq(ls, 1, k - 1)] \in [1 .. Len(ls) -> Seq(S)]
  BY <1>1, <1>2
<1> QED
  BY <1>1, <1>3, FunctionIsSeq

LEMMA StartKeeps ==
  ASSUME MInv, NEW f \in Paths \cup {NoPath}, Start(f)
  PROVE  MInv'
<1> DEFINE Lines == Seq(Shown(encoding))
<1>1. phase' = "editing" /\ save' = save /\ UNCHANGED <<files, saves, argVars>>
      /\ phase = "off"
  BY DEF Start
<1>2. save = NoSave
  BY <1>1 DEF MInv, SaveOK
<1>3. << >> \in Lines /\ << >> \in Seq(Lines)
  BY EmptySeq
<1>4. CASE LoadEmpty /\ fresh' = NoPath
  <2>1. buf' = << >> /\ past' \in Seq(Lines) /\ future' \in Seq(Lines)
    BY <1>3, <1>4 DEF LoadEmpty
  <2> QED
    BY <1>1, <1>2, <1>3, <1>4, <2>1, BufferMoves
<1>5. CASE /\ f \in DOMAIN files /\ Load(files[f])
           /\ fresh' = IF Decodes(files[f]) THEN f ELSE NoPath
  <2>1. files[f] \in Seq(Byte)
    BY <1>5 DEF MInv, FilesOK
  <2>2. CASE ~Decodes(files[f])
    <3>1. /\ buf' = << >> /\ past' \in Seq(Lines) /\ future' \in Seq(Lines)
          /\ fresh' = NoPath
      BY <1>3, <1>5, <2>2 DEF Load, LoadEmpty
    <3> QED
      BY <1>1, <1>2, <1>3, <3>1, BufferMoves
  <2>3. CASE Decodes(files[f])
    <3> DEFINE ls == Loaded(encoding, files[f])
    <3>1. buf' = ls /\ fresh' = f
      BY <1>5, <2>3, SameEverywhere DEF Load, Loaded
    <3>2. ls \in Lines
      <4>1. DecodedIn(encoding, files[f]) \in Seq(Char)
        BY <2>1, <2>3, DecodedType, ArgsEncoding, SameEverywhere DEF Decodes, MInv
      <4> QED
        BY <4>1, LoadedType DEF Loaded
    <3>3. past' \in Seq(Lines) /\ future' \in Seq(Lines)
      <4>1. /\ past' = [k \in DOMAIN ls |-> SubSeq(ls, 1, k - 1)] \/ past' = << >>
            /\ future' = << >>
        BY <1>5, <2>3, <3>1 DEF Load
      <4> HIDE DEF ls, Lines
      <4>2. [k \in DOMAIN ls |-> SubSeq(ls, 1, k - 1)] \in Seq(Lines)
        BY <3>2, PrefixesType DEF Lines
      <4> QED
        BY <1>3, <4>1, <4>2
    <3>4. fresh' \in DOMAIN files /\ Decodes(files[fresh'])
          /\ ls = Loaded(encoding, files[fresh'])
      BY <1>5, <2>3, <3>1
    <3> HIDE DEF ls
    <3> QED
      BY <1>1, <1>2, <3>1, <3>2, <3>3, <3>4, BufferMoves
  <2> QED
    BY <2>2, <2>3
<1> QED
  BY <1>4, <1>5 DEF Start

-----------------------------------------------------------------------------
(* h is what g is, with the value v at p.                                  *)
Changes(g, h, p, v) ==
  DOMAIN h = DOMAIN g /\ \A q \in DOMAIN g : h[q] = IF q = p THEN v ELSE g[q]

LEMMA ChangesExcept ==
  \A g, h, p, v : h = [g EXCEPT ![p] = v] => Changes(g, h, p, v)
  BY DEF Changes

LEMMA ChangesNothing ==
  \A g, h, p, v : h = g /\ v = g[p] => Changes(g, h, p, v)
  BY DEF Changes

(* A save that gives the file p the content f, and a record s that fits.   *)
LEMMA FileMoves ==
  ASSUME FilesOK, UNCHANGED argVars, NEW p \in DOMAIN saves, NEW f \in Seq(Byte), NEW s,
         Changes(files, files', p, f), Changes(saves, saves', p, s),
         SavedOK(encoding, ending, f, s)
  PROVE  FilesOK'
<1>1. encoding' = encoding /\ ending' = ending
  BY DEF argVars
<1>2. DOMAIN files' = DOMAIN files /\ DOMAIN saves' = DOMAIN saves /\ p \in DOMAIN files
  BY DEF FilesOK, Changes
<1>3. \A q \in DOMAIN files : files'[q] = IF q = p THEN f ELSE files[q]
  BY DEF Changes
<1>4. \A q \in DOMAIN saves : saves'[q] = IF q = p THEN s ELSE saves[q]
  BY DEF Changes
<1>5. \A q \in DOMAIN files' : files'[q] \in Seq(Byte)
  BY <1>2, <1>3 DEF FilesOK
<1>6. ASSUME NEW q \in DOMAIN saves'
      PROVE  SavedOK(encoding, ending, files'[q], saves'[q])
  <2>1. q \in DOMAIN saves /\ q \in DOMAIN files
    BY <1>2 DEF FilesOK
  <2>2. CASE q = p
    BY <1>3, <1>4, <2>1, <2>2
  <2>3. CASE q # p
    <3>1. files'[q] = files[q] /\ saves'[q] = saves[q]
      BY <1>3, <1>4, <2>1, <2>3
    <3> QED
      BY <2>1, <3>1 DEF FilesOK
  <2> QED
    BY <2>2, <2>3
<1> QED
  BY <1>1, <1>2, <1>5, <1>6 DEF FilesOK

(* What is known while a save is under way. *)
SaveFacts(p, f, s) ==
  /\ p = save.path /\ f = files[p] /\ s = saves[p]
  /\ p \in DOMAIN saves /\ p \in Paths /\ f \in Seq(Byte)
  /\ save \in [path : Paths, n : 0 .. Len(buf), buffered : Seq(Byte), said : BOOLEAN]
  /\ s \in [lines : Seq(Shown(encoding)), text : Seq(Byte), from : Seq(Seq(Byte)),
            reported : BOOLEAN, failed : BOOLEAN]
  /\ s.lines = buf /\ ~s.reported /\ s.text = SavedText(encoding, ending, buf)
  /\ f \o save.buffered = TextUpTo(encoding, ending, buf, save.n)
  /\ save.said => save.n = Len(buf)
  /\ Args(encoding, ending) /\ buf \in Seq(Shown(encoding)) /\ fresh = NoPath
  /\ FromOK(encoding, s)

LEMMA UnderWayFacts ==
  ASSUME MInv, phase \in {"saving", "closing"}
  PROVE  SaveFacts(save.path, files[save.path], saves[save.path])
<1> DEFINE p == save.path
<1>1. p \in DOMAIN saves /\ UnderWay(encoding, ending, buf, files[p], saves[p], save)
  BY DEF MInv, SaveOK
<1>2. p \in DOMAIN files /\ files[p] \in Seq(Byte) /\ p \in Paths
      /\ SavedOK(encoding, ending, files[p], saves[p])
  BY <1>1 DEF MInv, FilesOK
<1>3. /\ saves[p] \in [lines : Seq(Shown(encoding)), text : Seq(Byte), from : Seq(Seq(Byte)),
                       reported : BOOLEAN, failed : BOOLEAN]
      /\ saves[p].text = SavedText(encoding, ending, saves[p].lines)
      /\ FromOK(encoding, saves[p])
  BY <1>2 DEF SavedOK
<1>4. /\ save \in [path : Paths, n : 0 .. Len(buf), buffered : Seq(Byte), said : BOOLEAN]
      /\ saves[p].lines = buf /\ ~saves[p].reported
      /\ files[p] \o save.buffered = TextUpTo(encoding, ending, buf, save.n)
      /\ save.said => save.n = Len(buf)
  BY <1>1 DEF UnderWay
<1>5. fresh = NoPath
  BY DEF MInv, FreshOK
<1>6. Args(encoding, ending) /\ buf \in Seq(Shown(encoding))
  BY DEF MInv, BufferOK
<1> HIDE DEF p
<1>7. SaveFacts(p, files[p], saves[p])
  BY <1>1, <1>2, <1>3, <1>4, <1>5, <1>6 DEF SaveFacts, p
<1> QED
  BY <1>7 DEF p

(* A step of the save that goes on: the file has f, the record is s, and   *)
(* the writer is at w.                                                     *)
LEMMA SaveMoves ==
  ASSUME MInv, phase \in {"saving", "closing"}, phase' \in {"saving", "closing"}, SaveStep,
         NEW f \in Seq(Byte), NEW s, NEW w,
         Changes(files, files', save.path, f), Changes(saves, saves', save.path, s),
         save' = w, w.path = save.path,
         s \in [lines : Seq(Shown(encoding)), text : Seq(Byte), from : Seq(Seq(Byte)),
                reported : BOOLEAN, failed : BOOLEAN],
         s.text = saves[save.path].text, s.from = saves[save.path].from,
         UnderWay(encoding, ending, buf, f, s, w)
  PROVE  MInv'
<1> DEFINE p == save.path
<1>1. SaveFacts(p, files[p], saves[p])
  BY UnderWayFacts
<1>2. /\ encoding' = encoding /\ ending' = ending /\ buf' = buf /\ past' = past
      /\ future' = future /\ fresh' = fresh
  BY DEF SaveStep, bufferVars, argVars
<1>3. /\ w \in [path : Paths, n : 0 .. Len(buf), buffered : Seq(Byte), said : BOOLEAN]
      /\ s.lines = buf /\ ~s.reported /\ f \o w.buffered = TextUpTo(encoding, ending, buf, w.n)
  BY DEF UnderWay
<1>4. Args(encoding, ending) /\ buf \in Seq(Shown(encoding)) /\ p \in DOMAIN saves
      /\ s.text = SavedText(encoding, ending, buf) /\ fresh = NoPath
      /\ saves[p].lines = buf /\ FromOK(encoding, saves[p])
  BY <1>1 DEF SaveFacts
<1>5. GoesOn(Byte, f, s.text)
  <2>1. w.n \in 0 .. Len(buf)
    BY <1>3
  <2>2. GoesOn(Byte, TextUpTo(encoding, ending, buf, w.n), SavedText(encoding, ending, buf))
    BY <1>4, <2>1, WrittenUpTo
  <2>3. w.buffered \in Seq(Byte)
    BY <1>3
  <2>4. GoesOn(Byte, f \o w.buffered, SavedText(encoding, ending, buf))
    BY <1>3, <2>2
  <2>5. GoesOn(Byte, f, SavedText(encoding, ending, buf))
    BY ONLY <2>3, <2>4, GoesOnEarlier
  <2> QED
    BY <1>4, <2>5
<1>6. SavedOK(encoding, ending, f, s)
  <2>1. FromOK(encoding, s)
    BY <1>3, <1>4 DEF FromOK
  <2> QED
    BY <1>3, <1>4, <1>5, <2>1 DEF SavedOK
<1>7. FilesOK'
  <2>1. FilesOK /\ UNCHANGED argVars
    BY DEF MInv, SaveStep
  <2> QED
    BY <1>4, <1>6, <2>1, FileMoves
<1>8. SaveOK'
  <2>1. p \in DOMAIN files /\ p \in DOMAIN saves
    BY <1>4 DEF MInv, FilesOK
  <2>2. files'[p] = f /\ saves'[p] = s /\ p \in DOMAIN saves'
    BY <2>1 DEF Changes
  <2>3. save'.path = p
    OBVIOUS
  <2> HIDE DEF p
  <2> QED
    BY <1>2, <2>2, <2>3 DEF SaveOK
<1>9. BufferOK' /\ Args(encoding, ending)'
  BY <1>2 DEF MInv, BufferOK
<1>10. FreshOK'
  BY <1>2, <1>4 DEF FreshOK
<1> QED
  BY <1>7, <1>8, <1>9, <1>10 DEF MInv

-----------------------------------------------------------------------------
LEMMA SaveStarts ==
  ASSUME MInv, NEW p \in Paths, SaveCommand(p)
  PROVE  MInv'
<1> DEFINE text == SavedText(encoding, ending, buf)
           s == [lines |-> buf, text |-> text, from |-> Unedited,
                 reported |-> FALSE, failed |-> FALSE]
           w == [path |-> p, n |-> 0, buffered |-> << >>, said |-> FALSE]
<1>1. /\ encoding' = encoding /\ ending' = ending /\ buf' = buf /\ past' = past
      /\ future' = future /\ fresh' = NoPath /\ phase' = "saving"
      /\ files' = Updated(files, p, << >>) /\ saves' = Updated(saves, p, s) /\ save' = w
  BY SameEverywhere DEF SaveCommand, Created, NoSave, bufferVars, argVars
<1>2. Args(encoding, ending) /\ buf \in Seq(Shown(encoding)) /\ Len(buf) \in Nat
  BY DEF MInv, BufferOK
<1>3. 0 \in 0 .. Len(buf) /\ Len(buf) \in 0 .. Len(buf)
  BY <1>2
<1>4. TextUpTo(encoding, ending, buf, 0) = << >>
  BY <1>2, WrittenUpTo
<1>5. GoesOn(Byte, << >>, text)
  BY <1>2, <1>3, <1>4, WrittenUpTo
<1>6. text \in Seq(Byte)
  BY <1>2, <1>3, WrittenUpTo
<1> HIDE DEF text
<1>7. SavedOK(encoding, ending, << >>, s)
  <2>1. s.text = SavedText(encoding, ending, s.lines)
    BY DEF text
  <2>2. /\ Unedited \in Seq(Seq(Byte))
        /\ Unedited # << >> =>
             /\ Unedited[1] \in Seq(Byte) /\ Over(DecodedIn(encoding, Unedited[1]), Char)
             /\ buf = Loaded(encoding, Unedited[1])
    <3>1. CASE fresh = NoPath
      BY <3>1, EmptySeq DEF Unedited
    <3>2. CASE fresh # NoPath
      <4>1. /\ Unedited = <<files[fresh]>> /\ files[fresh] \in Seq(Byte)
            /\ Over(DecodedIn(encoding, files[fresh]), Char)
            /\ buf = Loaded(encoding, files[fresh])
        BY <3>2, SameEverywhere DEF Unedited, MInv, FilesOK, FreshOK, Decodes
      <4> QED
        BY ONLY <4>1
    <3> QED
      BY <3>1, <3>2
  <2> HIDE DEF s
  <2>3. /\ s.lines = buf /\ s.text = text /\ s.from = Unedited
        /\ s.reported = FALSE /\ s.failed = FALSE
        /\ s \in [lines : Seq(Shown(encoding)), text : Seq(Byte), from : Seq(Seq(Byte)),
                  reported : BOOLEAN, failed : BOOLEAN]
    BY <1>2, <1>6, <2>2 DEF s
  <2>4. FromOK(encoding, s)
    BY <2>2, <2>3 DEF FromOK
  <2> QED
    BY <1>5, <2>1, <2>3, <2>4 DEF SavedOK
<1>8. UnderWay(encoding, ending, buf, << >>, s, w)
  <2>1. w \in [path : Paths, n : 0 .. Len(buf), buffered : Seq(Byte), said : BOOLEAN]
    BY <1>3, EmptySeq
  <2>2. << >> \o w.buffered = TextUpTo(encoding, ending, buf, w.n)
    BY <1>4
  <2> QED
    BY <2>1, <2>2 DEF UnderWay
<1> HIDE DEF s, w
<1>9. /\ DOMAIN files' = DOMAIN files \cup {p} /\ DOMAIN saves' = DOMAIN saves \cup {p}
      /\ \A q \in DOMAIN files' : files'[q] = IF q = p THEN << >> ELSE files[q]
      /\ \A q \in DOMAIN saves' : saves'[q] = IF q = p THEN s ELSE saves[q]
  BY <1>1 DEF Updated
<1>10. FilesOK'
  <2>1. DOMAIN files' \subseteq Paths /\ DOMAIN saves' \subseteq DOMAIN files'
    BY <1>9 DEF MInv, FilesOK
  <2>2. \A q \in DOMAIN files' : files'[q] \in Seq(Byte)
    BY <1>9, EmptySeq DEF MInv, FilesOK
  <2>3. ASSUME NEW q \in DOMAIN saves'
        PROVE  SavedOK(encoding, ending, files'[q], saves'[q])
    <3>1. CASE q = p
      BY <1>7, <1>9, <2>1, <3>1
    <3>2. CASE q # p
      <4>1. q \in DOMAIN saves /\ files'[q] = files[q] /\ saves'[q] = saves[q]
        BY <1>9, <2>1, <3>2
      <4> QED
        BY <4>1 DEF MInv, FilesOK
    <3> QED
      BY <3>1, <3>2
  <2> QED
    BY <1>1, <2>1, <2>2, <2>3 DEF FilesOK
<1>11. SaveOK'
  <2>1. save'.path = p
    BY <1>1 DEF w
  <2>2. p \in DOMAIN saves' /\ files'[p] = << >> /\ saves'[p] = s
    BY <1>9
  <2> QED
    BY <1>1, <1>8, <2>1, <2>2 DEF SaveOK
<1>12. BufferOK' /\ Args(encoding, ending)' /\ FreshOK'
  BY <1>1 DEF MInv, BufferOK, FreshOK
<1> QED
  BY <1>10, <1>11, <1>12 DEF MInv

(* What the writer passes on is what it holds, a part of it or nothing.    *)
LEMMA WriteLineKeeps ==
  ASSUME MInv, WriteLine
  PROVE  MInv'
<1> DEFINE p == save.path
           n == save.n
           piece == PieceOf(encoding, ending, buf, n + 1)
           b == save.buffered \o EncodedIn(encoding, piece)
           w == [save EXCEPT !.n = n + 1, !.buffered = b]
           f == files[p]
           s == saves[p]
<1>1. /\ phase = "saving" /\ phase' = "saving" /\ SaveStep /\ files' = files /\ saves' = saves
      /\ n < Len(buf) /\ SaveFacts(p, f, s)
  BY UnderWayFacts DEF WriteLine
<1>2. /\ p \in DOMAIN saves /\ p \in Paths /\ f \in Seq(Byte)
      /\ save \in [path : Paths, n : 0 .. Len(buf), buffered : Seq(Byte), said : BOOLEAN]
      /\ s \in [lines : Seq(Shown(encoding)), text : Seq(Byte), from : Seq(Seq(Byte)),
                reported : BOOLEAN, failed : BOOLEAN]
      /\ s.lines = buf /\ ~s.reported
      /\ f \o save.buffered = TextUpTo(encoding, ending, buf, n)
      /\ save.said => n = Len(buf)
      /\ Args(encoding, ending) /\ buf \in Seq(Shown(encoding))
  BY <1>1 DEF SaveFacts
<1>3. /\ n \in Nat /\ n \in 0 .. Len(buf) - 1 /\ n + 1 \in 0 .. Len(buf) /\ n # Len(buf)
      /\ save.buffered \in Seq(Byte)
  BY <1>1, <1>2
<1>4. /\ piece \in Seq(Char)
      /\ TextUpTo(encoding, ending, buf, n + 1)
           = TextUpTo(encoding, ending, buf, n) \o EncodedIn(encoding, piece)
  <2>1. Args(encoding, ending) /\ buf \in Seq(Shown(encoding))
    BY <1>2
  <2>2. \A m \in 0 .. Len(buf) - 1 :
          /\ PieceOf(encoding, ending, buf, m + 1) \in Seq(Char)
          /\ TextUpTo(encoding, ending, buf, m + 1) = TextUpTo(encoding, ending, buf, m)
               \o EncodedIn(encoding, PieceOf(encoding, ending, buf, m + 1))
    BY ONLY <2>1, WrittenUpTo
  <2> QED
    BY ONLY <1>3, <2>2
<1>5. Piece(n) = piece
  BY <1>3, SameEverywhere
<1>6. save' = w
  BY <1>5, SameEverywhere DEF WriteLine
<1> HIDE DEF piece
<1>8. EncodedIn(encoding, piece) \in Seq(Byte)
  BY <1>2, <1>4, EncodedType, ArgsEncoding
<1>9. b \in Seq(Byte)
  BY <1>3, <1>8, ConcatProperties
<1>10. f \o b = TextUpTo(encoding, ending, buf, n + 1)
  <2> DEFINE more == EncodedIn(encoding, piece)
             held == save.buffered
  <2>1. f \in Seq(Byte) /\ held \in Seq(Byte) /\ more \in Seq(Byte)
    BY <1>2, <1>3, <1>8
  <2> HIDE DEF more, held, f
  <2>2. Associates(f, held, more)
    BY <2>1, ConcatThree
  <2>3. f \o b = (f \o save.buffered) \o EncodedIn(encoding, piece)
    BY <2>2 DEF Associates, more, held
  <2> QED
    BY <1>2, <1>4, <2>3 DEF f
<1> HIDE DEF b
<1>11. /\ w \in [path : Paths, n : 0 .. Len(buf), buffered : Seq(Byte), said : BOOLEAN]
       /\ w.path = p /\ w.n = n + 1 /\ w.buffered = b /\ w.said = save.said /\ ~save.said
  BY ONLY <1>2, <1>3, <1>9
<1> HIDE DEF w
<1>12. UnderWay(encoding, ending, buf, f, s, w)
  BY <1>2, <1>10, <1>11 DEF UnderWay
<1>13. Changes(files, files', p, f) /\ Changes(saves, saves', p, s)
  BY <1>1, ChangesNothing
<1> HIDE DEF f, s, n
<1> QED
  BY <1>1, <1>2, <1>6, <1>11, <1>12, <1>13, SaveMoves DEF s

(* Of what the writer holds, the first k characters reach the file. *)
LEMMA CutBuffered ==
  ASSUME NEW f \in Seq(Byte), NEW b \in Seq(Byte), NEW k \in 0 .. Len(b)
  PROVE  /\ f \o SubSeq(b, 1, k) \in Seq(Byte) /\ SubSeq(b, k + 1, Len(b)) \in Seq(Byte)
         /\ (f \o SubSeq(b, 1, k)) \o SubSeq(b, k + 1, Len(b)) = f \o b
         /\ k = Len(b) => f \o SubSeq(b, 1, k) = f \o b
<1>1. SubSeq(b, k + 1, Len(b)) \in Seq(Byte)
  BY CutAt
<1>3. /\ f \o SubSeq(b, 1, k) \in Seq(Byte)
      /\ Moved(f, b, f \o SubSeq(b, 1, k), SubSeq(b, k + 1, Len(b)))
  BY PartMoves
<1>4. k = Len(b) => SubSeq(b, 1, k) = b
  OBVIOUS
<1> QED
  BY <1>1, <1>3, <1>4 DEF Moved

(* A step that gives the file the first k characters of what the writer    *)
(* holds, and leaves it the others.                                        *)
LEMMA FlushKeeps ==
  ASSUME MInv, phase = "saving", phase' \in {"saving", "closing"}, SaveStep,
         NEW k \in 0 .. Len(save.buffered), NEW failed \in BOOLEAN, NEW said \in BOOLEAN,
         said => save.n = Len(buf),
         Changes(files, files', save.path, files[save.path] \o SubSeq(save.buffered, 1, k)),
         Changes(saves, saves', save.path, [saves[save.path] EXCEPT !.failed = failed]),
         save' = [save EXCEPT !.said = said,
                              !.buffered = SubSeq(save.buffered, k + 1, Len(save.buffered))]
  PROVE  MInv'
<1> DEFINE p == save.path
           b == SubSeq(save.buffered, k + 1, Len(save.buffered))
           f == files[p] \o SubSeq(save.buffered, 1, k)
           s == [saves[p] EXCEPT !.failed = failed]
           w == [save EXCEPT !.said = said, !.buffered = b]
<1>1. SaveFacts(p, files[p], saves[p])
  BY UnderWayFacts
<1>2. /\ p \in DOMAIN saves /\ p \in Paths /\ files[p] \in Seq(Byte)
      /\ save \in [path : Paths, n : 0 .. Len(buf), buffered : Seq(Byte), said : BOOLEAN]
      /\ saves[p] \in [lines : Seq(Shown(encoding)), text : Seq(Byte), from : Seq(Seq(Byte)),
                       reported : BOOLEAN, failed : BOOLEAN]
      /\ saves[p].lines = buf /\ ~saves[p].reported
      /\ files[p] \o save.buffered = TextUpTo(encoding, ending, buf, save.n)
  BY <1>1 DEF SaveFacts
<1>3. save.buffered \in Seq(Byte)
  BY <1>2
<1>4. f \in Seq(Byte) /\ b \in Seq(Byte) /\ f \o b = files[p] \o save.buffered
  BY ONLY <1>2, <1>3, CutBuffered
<1> HIDE DEF b, f
<1>5. /\ w \in [path : Paths, n : 0 .. Len(buf), buffered : Seq(Byte), said : BOOLEAN]
      /\ w.path = p /\ w.n = save.n /\ w.buffered = b /\ w.said = said
  BY ONLY <1>2, <1>4
<1>6. /\ s \in [lines : Seq(Shown(encoding)), text : Seq(Byte), from : Seq(Seq(Byte)),
                reported : BOOLEAN, failed : BOOLEAN]
      /\ s.lines = buf /\ ~s.reported /\ s.text = saves[p].text
      /\ s.from = saves[p].from
  BY ONLY <1>2
<1>7. save' = w
  BY DEF b
<1>8. Changes(files, files', p, f) /\ Changes(saves, saves', p, s)
  BY DEF f
<1> HIDE DEF w, s
<1>9. UnderWay(encoding, ending, buf, f, s, w)
  BY <1>2, <1>4, <1>5, <1>6 DEF UnderWay
<1> QED
  BY <1>4, <1>5, <1>6, <1>7, <1>8, <1>9, SaveMoves

LEMMA SaveStepKeeps ==
  ASSUME MInv, AbortSave \/ FlushFull \/ FlushFails \/ ReportSaved
  PROVE  MInv'
<1> DEFINE p == save.path
           f == files[p]
           s == saves[p]
<1>1. phase = "saving" /\ phase' \in {"saving", "closing"} /\ SaveStep
  BY DEF AbortSave, FlushFull, FlushFails, ReportSaved
<1>2. SaveFacts(p, f, s)
  BY <1>1, UnderWayFacts
<1>3. /\ f \in Seq(Byte) /\ p \in DOMAIN saves
      /\ save \in [path : Paths, n : 0 .. Len(buf), buffered : Seq(Byte), said : BOOLEAN]
      /\ s \in [lines : Seq(Shown(encoding)), text : Seq(Byte), from : Seq(Seq(Byte)),
                reported : BOOLEAN, failed : BOOLEAN]
      /\ save.said => save.n = Len(buf)
  BY <1>2 DEF SaveFacts
<1>4. /\ save.buffered \in Seq(Byte) /\ Len(save.buffered) \in Nat
      /\ save.said \in BOOLEAN /\ s.failed \in BOOLEAN /\ [s EXCEPT !.failed = s.failed] = s
  BY <1>3
<1>5. /\ SubSeq(save.buffered, 1, 0) = << >> /\ f \o << >> = f
      /\ SubSeq(save.buffered, 1, Len(save.buffered)) = save.buffered
      /\ SubSeq(save.buffered, Len(save.buffered) + 1, Len(save.buffered)) = << >>
      /\ SubSeq(save.buffered, 0 + 1, Len(save.buffered)) = save.buffered
  BY <1>3, <1>4
<1>6. 0 \in 0 .. Len(save.buffered) /\ Len(save.buffered) \in 0 .. Len(save.buffered)
  BY <1>4
<1> HIDE DEF f, s
<1>7. CASE AbortSave \/ ReportSaved
  <2> DEFINE said == IF ReportSaved THEN TRUE ELSE save.said
  <2>1. said \in BOOLEAN /\ (said => save.n = Len(buf))
    BY <1>3, <1>4, <1>7 DEF ReportSaved
  <2>2. files' = files /\ saves' = saves /\ save' = [save EXCEPT !.said = said]
    BY <1>3, <1>7 DEF AbortSave, ReportSaved
  <2> HIDE DEF said
  <2>3. save' = [save EXCEPT !.said = said,
                   !.buffered = SubSeq(save.buffered, 0 + 1, Len(save.buffered))]
    BY <1>3, <1>5, <2>2
  <2>4. /\ Changes(files, files', p, f \o SubSeq(save.buffered, 1, 0))
        /\ Changes(saves, saves', p, [s EXCEPT !.failed = s.failed])
    BY <1>4, <1>5, <2>2, ChangesNothing DEF f, s
  <2> QED
    BY <1>1, <1>4, <1>6, <2>1, <2>3, <2>4, FlushKeeps DEF f, s
<1>8. CASE FlushFull
  <2> DEFINE l == Len(save.buffered)
  <2>1. /\ files' = [files EXCEPT ![p] = f \o save.buffered] /\ saves' = saves
        /\ save' = [save EXCEPT !.buffered = << >>]
    BY <1>8 DEF FlushFull, WriteTo, f
  <2>2. save' = [save EXCEPT !.said = save.said,
                   !.buffered = SubSeq(save.buffered, l + 1, l)]
    BY <1>3, <1>5, <2>1
  <2>3. /\ Changes(files, files', p, f \o SubSeq(save.buffered, 1, l))
        /\ Changes(saves, saves', p, [s EXCEPT !.failed = s.failed])
    BY <1>4, <1>5, <2>1, ChangesExcept, ChangesNothing DEF s
  <2> QED
    BY <1>1, <1>3, <1>4, <1>6, <2>2, <2>3, FlushKeeps DEF f, s
<1>9. CASE FlushFails
  <2>1. PICK k \in 0 .. Len(save.buffered) - 1 :
          /\ files' = [files EXCEPT ![p] = f \o SubSeq(save.buffered, 1, k)]
          /\ save' = [save EXCEPT !.buffered = SubSeq(@, k + 1, Len(@))]
    BY <1>9 DEF FlushFails, WriteTo, f
  <2>2. saves' = [saves EXCEPT ![p].failed = TRUE]
    BY <1>9 DEF FlushFails
  <2>3. k \in 0 .. Len(save.buffered)
    BY <1>4
  <2>4. save' = [save EXCEPT !.said = save.said,
                   !.buffered = SubSeq(save.buffered, k + 1, Len(save.buffered))]
    BY <1>3, <2>1
  <2>5. /\ Changes(files, files', p, f \o SubSeq(save.buffered, 1, k))
        /\ Changes(saves, saves', p, [s EXCEPT !.failed = TRUE])
    BY <2>1, <2>2, ChangesExcept DEF s
  <2> QED
    BY <1>1, <1>3, <1>4, <2>3, <2>4, <2>5, FlushKeeps DEF f, s
<1> QED
  BY <1>7, <1>8, <1>9

LEMMA CloseKeeps ==
  ASSUME MInv, Close
  PROVE  MInv'
<1> DEFINE p == save.path
           b == save.buffered
           text == SavedText(encoding, ending, buf)
<1>1. /\ phase = "closing" /\ phase' = "editing" /\ save' = NoSave /\ SaveStep
  BY DEF Close
<1>2. SaveFacts(p, files[p], saves[p])
  BY <1>1, UnderWayFacts
<1>3. PICK k \in 0 .. Len(b) :
        /\ files' = [files EXCEPT ![p] = files[p] \o SubSeq(b, 1, k)]
        /\ saves' = [saves EXCEPT ![p] = [saves[p] EXCEPT
                       !.reported = save.said, !.failed = saves[p].failed \/ k < Len(b)]]
  BY DEF Close, WriteTo, OnDrop
<1> DEFINE f == files[p] \o SubSeq(b, 1, k)
           s == [saves[p] EXCEPT !.reported = save.said,
                                 !.failed = saves[p].failed \/ k < Len(b)]
<1>4. /\ p \in DOMAIN saves /\ files[p] \in Seq(Byte)
      /\ save \in [path : Paths, n : 0 .. Len(buf), buffered : Seq(Byte), said : BOOLEAN]
      /\ saves[p] \in [lines : Seq(Shown(encoding)), text : Seq(Byte), from : Seq(Seq(Byte)),
                       reported : BOOLEAN, failed : BOOLEAN]
      /\ saves[p].lines = buf /\ saves[p].text = text
      /\ files[p] \o b = TextUpTo(encoding, ending, buf, save.n)
      /\ save.said => save.n = Len(buf)
      /\ Args(encoding, ending) /\ buf \in Seq(Shown(encoding)) /\ fresh = NoPath
      /\ FromOK(encoding, saves[p])
  BY <1>2 DEF SaveFacts
<1>5. b \in Seq(Byte) /\ save.n \in 0 .. Len(buf) /\ Len(b) \in Nat
  BY <1>4
<1>6. /\ f \in Seq(Byte) /\ SubSeq(b, k + 1, Len(b)) \in Seq(Byte)
      /\ f \o SubSeq(b, k + 1, Len(b)) = files[p] \o b
      /\ k = Len(b) => f = files[p] \o b
  <2>1. files[p] \in Seq(Byte) /\ b \in Seq(Byte) /\ k \in 0 .. Len(b)
    BY <1>4, <1>5
  <2> DEFINE g == files[p]
             more == SubSeq(b, k + 1, Len(b))
  <2> HIDE DEF g, b
  <2>2. /\ g \o SubSeq(b, 1, k) \in Seq(Byte) /\ more \in Seq(Byte)
        /\ (g \o SubSeq(b, 1, k)) \o more = g \o b
        /\ k = Len(b) => g \o SubSeq(b, 1, k) = g \o b
    BY <2>1, CutBuffered DEF g
  <2> QED
    BY <2>2 DEF g, more
<1>7. /\ GoesOn(Byte, files[p] \o b, text)
      /\ save.said => files[p] \o b = text
  BY <1>4, <1>5, WrittenUpTo
<1>8. /\ s \in [lines : Seq(Shown(encoding)), text : Seq(Byte), from : Seq(Seq(Byte)),
                reported : BOOLEAN, failed : BOOLEAN]
      /\ s.lines = saves[p].lines /\ s.lines = buf /\ s.from = saves[p].from
      /\ s.text = text /\ s.reported = save.said
      /\ s.failed <=> saves[p].failed \/ k < Len(b)
  BY <1>4
<1>9. Changes(files, files', p, f) /\ Changes(saves, saves', p, s)
  BY <1>3, ChangesExcept
<1> HIDE DEF s, f
<1>10. GoesOn(Byte, f, text)
  BY <1>6, <1>7, GoesOnEarlier
<1>11. s.reported /\ ~s.failed => f = text
  <2>1. ~(k < Len(b)) => k = Len(b)
    BY <1>5
  <2> QED
    BY <1>6, <1>7, <1>8, <2>1
<1>12. SavedOK(encoding, ending, f, s)
  <2>1. FromOK(encoding, s)
    BY <1>4, <1>8 DEF FromOK
  <2> QED
    BY <1>8, <1>10, <1>11, <2>1 DEF SavedOK
<1>13. FilesOK'
  <2>1. FilesOK /\ UNCHANGED argVars
    BY <1>1 DEF MInv, SaveStep
  <2> QED
    BY <1>4, <1>6, <1>9, <1>12, <2>1, FileMoves
<1>14. /\ encoding' = encoding /\ ending' = ending /\ buf' = buf /\ past' = past
       /\ future' = future /\ fresh' = NoPath
  BY <1>1, <1>4 DEF SaveStep, bufferVars, argVars
<1>15. BufferOK' /\ Args(encoding, ending)' /\ FreshOK' /\ SaveOK'
  BY <1>1, <1>14 DEF MInv, BufferOK, FreshOK, SaveOK
<1> QED
  BY <1>13, <1>15 DEF MInv

LEMMA InvInit == MInit => MInv
<1> SUFFICES ASSUME MInit PROVE MInv
  OBVIOUS
<1>1. files \in FirstFiles /\ DOMAIN files \subseteq Paths /\ Range(files) \subseteq Seq(Byte)
  BY PathAssumption DEF MInit
<1>2. \A p \in DOMAIN files : files[p] \in Seq(Byte)
  BY <1>1 DEF Range
<1>3. saves = << >> /\ DOMAIN saves = {} /\ buf = << >> /\ past = << >> /\ future = << >>
      /\ phase = "off" /\ save = NoSave /\ fresh = NoPath
  BY DEF MInit
<1>4. Args(encoding, ending)
  BY DEF MInit, Args
<1>5. BufferOK
  BY <1>3, EmptySeq DEF BufferOK
<1>6. FilesOK
  BY <1>1, <1>2, <1>3 DEF FilesOK
<1> QED
  BY <1>3, <1>4, <1>5, <1>6 DEF MInv, SaveOK, FreshOK

LEMMA InvStep == MInv /\ [MNext]_mvars => MInv'
<1> SUFFICES ASSUME MInv, [MNext]_mvars PROVE MInv'
  OBVIOUS
<1>1. Typed \subseteq Seq(Char \ {LF}) /\ 1 .. MaxLines \subseteq Nat
  BY CharAssumption, BoundAssumption
<1>2. ASSUME NEW f \in Paths \cup {NoPath}, Start(f) PROVE MInv'
  BY <1>2, StartKeeps
<1>3. ASSUME NEW n \in 1 .. MaxLines, DeleteCommand(n) PROVE MInv'
  BY <1>3, DeleteKeeps
<1>4. ASSUME NEW n \in 1 .. MaxLines, NEW text \in Typed, InsertCommand(n, text) PROVE MInv'
  <2>1. n \in Nat /\ text \in Seq(Char \ {LF})
    BY <1>1
  <2> QED
    BY <1>4, <2>1, InsertKeeps
<1>5. ASSUME NEW n \in 1 .. MaxLines, NEW text \in Typed, ReplaceCommand(n, text) PROVE MInv'
  <2>1. text \in Seq(Char \ {LF})
    BY <1>1
  <2> QED
    BY <1>5, <2>1, ReplaceKeeps
<1>6. CASE UndoCommand \/ RedoCommand
  BY <1>6, UndoKeeps
<1>7. ASSUME NEW p \in Paths, SaveCommand(p) PROVE MInv'
  BY <1>7, SaveStarts
<1>8. CASE WriteLine
  BY <1>8, WriteLineKeeps
<1>9. CASE AbortSave \/ FlushFull \/ FlushFails \/ ReportSaved
  BY <1>9, SaveStepKeeps
<1>10. CASE Close
  BY <1>10, CloseKeeps
<1>11. CASE End
  BY <1>11, EndKeeps
<1>12. CASE UNCHANGED mvars
  BY <1>12 DEF mvars, bufferVars, argVars, MInv, Args, BufferOK, FilesOK, SaveOK, FreshOK,
               Decodes, Decoded, forced
<1> QED
  BY <1>2, <1>3, <1>4, <1>5, <1>6, <1>7, <1>8, <1>9, <1>10, <1>11, <1>12
  DEF MNext, Command, SaveNext

THEOREM MedlinInvariant == MSpec => []MInv
  BY InvInit, InvStep, PTL DEF MSpec

-----------------------------------------------------------------------------
LEMMA VersionsShown ==
  ASSUME MInv, NEW ls \in Versions
  PROVE  ls \in Seq(Shown(encoding)) /\ ls \in Seq(Line)
<1>1. /\ buf \in Seq(Shown(encoding)) /\ past \in Seq(Seq(Shown(encoding)))
      /\ future \in Seq(Seq(Shown(encoding)))
  BY DEF MInv, BufferOK
<1>2. ls \in Seq(Shown(encoding))
  BY <1>1 DEF Versions, Range
<1> QED
  BY <1>2, ShownType DEF Line

LEMMA InvTypes == MInv => MTypeOK
<1> SUFFICES ASSUME MInv PROVE MTypeOK
  OBVIOUS
<1>1. /\ DOMAIN files \subseteq Paths /\ \A p \in DOMAIN files : files[p] \in Seq(Byte)
      /\ DOMAIN saves \subseteq DOMAIN files
      /\ \A p \in DOMAIN saves : SavedOK(encoding, ending, files[p], saves[p])
  BY DEF MInv, FilesOK
<1>2. Range(files) \subseteq Seq(Byte)
  BY <1>1 DEF Range
<1>3. /\ encoding \in Encodings \cup {NoEncoding} /\ ending \in Endings
      /\ phase \in {"off", "editing", "saving", "closing"}
  BY DEF MInv, Args, SaveOK
<1>4. Versions \subseteq Seq(Line)
  BY VersionsShown
<1>5. save \in [path : Paths \cup {NoPath}, n : 0 .. Len(buf), buffered : Seq(Byte),
                said : BOOLEAN]
  <2>1. CASE phase \in {"saving", "closing"}
    BY <2>1 DEF MInv, SaveOK, UnderWay
  <2>2. CASE phase \notin {"saving", "closing"}
    <3>1. save = NoSave
      BY <2>2 DEF MInv, SaveOK
    <3>2. << >> \in Seq(Byte) /\ 0 \in 0 .. Len(buf)
      <4>1. Len(buf) \in Nat
        BY DEF MInv, BufferOK
      <4> QED
        BY <4>1, EmptySeq
    <3> QED
      BY <3>1, <3>2 DEF NoSave
  <2> QED
    BY <2>1, <2>2
<1>6. Range(saves) \subseteq [lines : Seq(Line), text : Seq(Byte), from : Seq(Seq(Byte)),
                              reported : BOOLEAN, failed : BOOLEAN]
  <2>1. Seq(Shown(encoding)) \subseteq Seq(Line)
    BY ShownType DEF Line
  <2>2. \A p \in DOMAIN saves :
          saves[p] \in [lines : Seq(Shown(encoding)), text : Seq(Byte), from : Seq(Seq(Byte)),
                        reported : BOOLEAN, failed : BOOLEAN]
    BY <1>1 DEF SavedOK
  <2>3. \A p \in DOMAIN saves :
          saves[p] \in [lines : Seq(Line), text : Seq(Byte), from : Seq(Seq(Byte)),
                        reported : BOOLEAN, failed : BOOLEAN]
    BY ONLY <2>1, <2>2
  <2> QED
    BY <2>3 DEF Range
<1>7. fresh \in Paths \cup {NoPath}
  BY <1>1 DEF MInv, FreshOK
<1> QED
  BY <1>1, <1>2, <1>3, <1>4, <1>5, <1>6, <1>7 DEF MTypeOK

(***************************************************************************)
(* The types of a session's variables: in particular, no undecodable byte  *)
(* is ever in the buffer.  (medlin.rs:139-186)                             *)
(***************************************************************************)
THEOREM MedlinTypes == MSpec => []MTypeOK
  BY MedlinInvariant, InvTypes, PTL

LEMMA InvNeverMixed == MInv => NeverMixed
<1> SUFFICES ASSUME MInv, NEW p \in DOMAIN saves
             PROVE  IsPrefix(files[p], saves[p].text)
  BY DEF NeverMixed
<1>1. files[p] \in Seq(Byte) /\ GoesOn(Byte, files[p], saves[p].text)
  BY DEF MInv, FilesOK, SavedOK
<1> QED
  BY <1>1, GoesOnIsPrefix

(***************************************************************************)
(* A file that was saved to holds a prefix of the text of the last save,   *)
(* at every moment of the save and after it, whatever failed and whenever  *)
(* the editor was killed.  (medlin.rs:191-235)                             *)
(***************************************************************************)
THEOREM NoFileIsMixed == MSpec => []NeverMixed
  BY InvNeverMixed, MedlinInvariant, PTL

LEMMA InvWritten == MInv => SavedUnlessDiskFails
  BY DEF MInv, FilesOK, SavedOK, SavedUnlessDiskFails, Written

(***************************************************************************)
(* After a save that printed "saved to", and in which no write to the file *)
(* failed, the file is the whole text: what the writer holds back until it *)
(* is dropped gets there.  (medlin.rs:198-236)                             *)
(***************************************************************************)
THEOREM ReportedSaveIsWritten == MSpec => []SavedUnlessDiskFails
  BY InvWritten, MedlinInvariant, PTL

LEMMA InvRepresentable == MInv => AsciiRepresentable
<1> SUFFICES ASSUME MInv, forced, HasAscii, NEW ls \in Versions, NEW k \in DOMAIN ls
             PROVE  Encodable(ls[k])
  BY DEF AsciiRepresentable, Representable
<1>1. ls[k] \in Shown(encoding)
  BY VersionsShown
<1>2. Over(ls[k], Ascii) \/ EncodableIn(encoding, ls[k])
  BY <1>1 DEF Shown, AcceptedIn, forced
<1>3. Over(ls[k], Ascii) => EncodableIn(encoding, ls[k])
  BY DEF Over, HasAscii, EncodableIn
<1> QED
  BY <1>2, <1>3, SameEverywhere

(***************************************************************************)
(* With a forced encoding that has all of ASCII, every line of the buffer  *)
(* and of every version undo and redo lead to can be written in it.        *)
(* (medlin.rs:14-24, 97-98)                                                *)
(***************************************************************************)
THEOREM VersionsCanBeWritten == MSpec => []AsciiRepresentable
  BY InvRepresentable, MedlinInvariant, PTL

-----------------------------------------------------------------------------
(* The characters an encoding gives back as they are. *)
KeptBy(enc) == {c \in Char : Decoder[enc][Encoder[enc][c]] = c}

LEMMA TextKept ==
  ASSUME NEW enc \in Encodings, enc \notin Wide, NEW text \in Seq(KeptBy(enc))
  PROVE  text \in Seq(Char) /\ Read(enc, EncodedIn(enc, text)) = text
<1>1. enc # NoEncoding /\ KeptBy(enc) \subseteq Char
  BY EncodingAssumption DEF KeptBy
<1>2. text \in Seq(Char)
  BY <1>1, SeqWider
<1>3. Len(text) \in Nat /\ DOMAIN text = 1 .. Len(text)
      /\ \A k \in 1 .. Len(text) : text[k] \in KeptBy(enc)
  OBVIOUS
<1> DEFINE b == EncodedIn(enc, text)
<1>4. b = [k \in 1 .. Len(text) |-> Encoder[enc][text[k]]]
  BY <1>1, <1>3 DEF EncodedIn
<1>5. DOMAIN b = 1 .. Len(text) /\ \A k \in 1 .. Len(text) : b[k] = Encoder[enc][text[k]]
  BY <1>4
<1> HIDE DEF b
<1>6. Read(enc, b) = [k \in 1 .. Len(text) |-> Decoder[enc][b[k]]]
  BY <1>5 DEF Read
<1>7. \A k \in 1 .. Len(text) : Decoder[enc][b[k]] = text[k]
  BY <1>3, <1>5 DEF KeptBy
<1>8. Read(enc, b) = [k \in 1 .. Len(text) |-> text[k]]
  BY <1>6, <1>7
<1>9. text = [k \in 1 .. Len(text) |-> text[k]]
  BY <1>3
<1> QED
  BY <1>2, <1>8, <1>9 DEF b

LEMMA TailIs ==
  ASSUME NEW X, NEW s \in Seq(X), s # << >>
  PROVE  /\ Len(s) \in Nat /\ Len(s) >= 1 /\ s[1] \in X /\ Head(s) = s[1]
         /\ Tail(s) \in Seq(X) /\ Len(Tail(s)) = Len(s) - 1
         /\ \A k \in 1 .. Len(s) - 1 : k + 1 \in 1 .. Len(s) /\ Tail(s)[k] = s[k + 1]
  OBVIOUS

(* The first character of a text, and the others. *)
LEMMA EncodedTail ==
  ASSUME NEW enc \in Encodings, NEW text \in Seq(Char), text # << >>
  PROVE  /\ EncodedIn(enc, text) # << >>
         /\ Head(EncodedIn(enc, text)) = Encoder[enc][Head(text)]
         /\ Tail(EncodedIn(enc, text)) = EncodedIn(enc, Tail(text))
<1> DEFINE b == EncodedIn(enc, text)
           r == Tail(text)
           c == EncodedIn(enc, r)
<1>1. enc # NoEncoding /\ enc \in Encoding
  BY EncodingAssumption
<1>2. /\ Len(text) \in Nat /\ Len(text) >= 1 /\ Head(text) = text[1]
      /\ r \in Seq(Char) /\ Len(r) = Len(text) - 1
      /\ \A k \in 1 .. Len(text) - 1 : k + 1 \in 1 .. Len(text) /\ r[k] = text[k + 1]
  BY ONLY text \in Seq(Char), text # << >>, TailIs
<1>3. DOMAIN text = 1 .. Len(text)
  OBVIOUS
<1> HIDE DEF r
<1>4. DOMAIN r = 1 .. Len(text) - 1
  BY <1>2
<1>5. b \in Seq(Byte) /\ Len(b) = Len(text) /\ c \in Seq(Byte) /\ Len(c) = Len(text) - 1
  BY <1>1, <1>2, EncodedType
<1>6. /\ \A k \in 1 .. Len(text) : b[k] = Encoder[enc][text[k]]
      /\ \A k \in 1 .. Len(text) - 1 : c[k] = Encoder[enc][r[k]]
  BY <1>1, <1>3, <1>4 DEF EncodedIn
<1> HIDE DEF b, c
<1>7. b # << >>
  BY <1>2, <1>5
<1>8. /\ Head(b) = b[1] /\ Tail(b) \in Seq(Byte) /\ Len(Tail(b)) = Len(b) - 1
      /\ \A k \in 1 .. Len(b) - 1 : Tail(b)[k] = b[k + 1]
  BY ONLY <1>5, <1>7, TailIs
<1>9. \A k \in 1 .. Len(Tail(b)) : Tail(b)[k] = c[k]
  <2>1. 1 .. Len(Tail(b)) = 1 .. Len(text) - 1 /\ 1 .. Len(b) - 1 = 1 .. Len(text) - 1
    BY <1>5, <1>8
  <2> SUFFICES ASSUME NEW k \in 1 .. Len(text) - 1 PROVE Tail(b)[k] = c[k]
    BY <2>1
  <2>2. k + 1 \in 1 .. Len(text) /\ r[k] = text[k + 1] /\ c[k] = Encoder[enc][r[k]]
    BY <1>2, <1>6
  <2>3. b[k + 1] = Encoder[enc][text[k + 1]]
    BY <1>6, <2>2
  <2>4. Tail(b)[k] = b[k + 1]
    BY <1>8, <2>1
  <2> QED
    BY ONLY <2>2, <2>3, <2>4
<1>10. Tail(b) = c
  BY <1>5, <1>8, <1>9, SeqEqual
<1>11. b[1] = Encoder[enc][Head(text)]
  BY <1>2, <1>6
<1> QED
  BY <1>7, <1>8, <1>10, <1>11 DEF b, c, r

LEMMA ConcatTail ==
  ASSUME NEW X, NEW a \in Seq(X), a # << >>, NEW b \in Seq(X)
  PROVE  /\ a \o b \in Seq(X) /\ a \o b # << >> /\ Head(a \o b) = Head(a)
         /\ Tail(a) \in Seq(X) /\ Tail(a \o b) = Tail(a) \o b
<1> DEFINE c == a \o b
           d == Tail(a) \o b
<1>1. /\ Len(a) \in Nat /\ Len(b) \in Nat /\ Len(a) >= 1 /\ Head(a) = a[1]
      /\ Tail(a) \in Seq(X) /\ Len(Tail(a)) = Len(a) - 1
      /\ \A k \in 1 .. Len(a) - 1 : Tail(a)[k] = a[k + 1]
  BY TailIs
<1>2. /\ c \in Seq(X) /\ Len(c) = Len(a) + Len(b)
      /\ \A k \in 1 .. Len(a) : c[k] = a[k]
      /\ \A k \in Len(a) + 1 .. Len(a) + Len(b) : c[k] = b[k - Len(a)]
  BY <1>1, ConcatProperties
<1>3. /\ d \in Seq(X) /\ Len(d) = (Len(a) - 1) + Len(b)
      /\ \A k \in 1 .. Len(a) - 1 : d[k] = Tail(a)[k]
      /\ \A k \in (Len(a) - 1) + 1 .. (Len(a) - 1) + Len(b) : d[k] = b[k - (Len(a) - 1)]
  BY <1>1, ConcatProperties
<1> HIDE DEF c, d
<1>4. c # << >>
  BY <1>1, <1>2
<1>5. /\ Head(c) = c[1] /\ Tail(c) \in Seq(X) /\ Len(Tail(c)) = Len(c) - 1
      /\ \A k \in 1 .. Len(c) - 1 : Tail(c)[k] = c[k + 1]
  BY ONLY <1>2, <1>4, TailIs
<1>6. ASSUME NEW k \in 1 .. (Len(a) + Len(b)) - 1
      PROVE  c[k + 1] = d[k]
  <2>1. CASE k <= Len(a) - 1
    <3>1. k \in 1 .. Len(a) - 1 /\ k + 1 \in 1 .. Len(a)
      BY <1>1, <2>1
    <3> QED
      BY <1>1, <1>2, <1>3, <3>1
  <2>2. CASE ~(k <= Len(a) - 1)
    <3>1. /\ k + 1 \in Len(a) + 1 .. Len(a) + Len(b)
          /\ k \in (Len(a) - 1) + 1 .. (Len(a) - 1) + Len(b)
          /\ (k + 1) - Len(a) = k - (Len(a) - 1)
      BY <1>1, <2>2
    <3> QED
      BY <1>2, <1>3, <3>1
  <2> QED
    BY <2>1, <2>2
<1>7. Tail(c) = d
  <2>1. Len(Tail(c)) = Len(d) /\ \A k \in 1 .. Len(Tail(c)) : Tail(c)[k] = d[k]
    BY <1>1, <1>2, <1>3, <1>5, <1>6
  <2> QED
    BY <1>3, <1>5, <2>1, SeqEqual
<1>8. c[1] = a[1]
  BY <1>1, <1>2
<1> QED
  BY <1>1, <1>2, <1>4, <1>5, <1>7, <1>8 DEF c, d

(* What follows the first line does not depend on it. *)
WithFirst(ls, x) == [ls EXCEPT ![1] = x]
Follows(X, ls, e, rest) ==
  \A x \in Seq(X) : Terminated(WithFirst(ls, x), e) = (x \o e) \o rest

LEMMA WithFirstIs ==
  ASSUME NEW S, NEW ls \in Seq(S), ls # << >>, NEW x \in S
  PROVE  /\ WithFirst(ls, x) \in Seq(S) /\ Len(WithFirst(ls, x)) = Len(ls)
         /\ \A k \in 1 .. Len(ls) : WithFirst(ls, x)[k] = IF k = 1 THEN x ELSE ls[k]
<1>1. Len(ls) \in Nat /\ Len(ls) >= 1 /\ DOMAIN ls = 1 .. Len(ls)
  OBVIOUS
<1> QED
  BY <1>1, ExceptSeq DEF WithFirst

LEMMA WithFirstAppend ==
  ASSUME NEW S, NEW f \in Seq(S), f # << >>, NEW l \in S, NEW x \in S
  PROVE  WithFirst(Append(f, l), x) = Append(WithFirst(f, x), l)
<1> DEFINE ls == Append(f, l)
           g == WithFirst(f, x)
           more == Append(g, l)
           h == WithFirst(ls, x)
<1>1. /\ Len(f) \in Nat /\ Len(f) >= 1
      /\ ls \in Seq(S) /\ ls # << >> /\ Len(ls) = Len(f) + 1 /\ ls[Len(f) + 1] = l
      /\ \A k \in 1 .. Len(f) : ls[k] = f[k]
  BY AppendProperties
<1>2. /\ g \in Seq(S) /\ Len(g) = Len(f)
      /\ \A k \in 1 .. Len(f) : g[k] = IF k = 1 THEN x ELSE f[k]
  BY ONLY f \in Seq(S), f # << >>, x \in S, WithFirstIs
<1> HIDE DEF ls, g
<1>3. /\ more \in Seq(S) /\ Len(more) = Len(f) + 1 /\ more[Len(f) + 1] = l
      /\ \A k \in 1 .. Len(f) : more[k] = g[k]
  BY <1>1, <1>2, AppendProperties
<1>4. /\ h \in Seq(S) /\ Len(h) = Len(f) + 1
      /\ \A k \in 1 .. Len(f) + 1 : h[k] = IF k = 1 THEN x ELSE ls[k]
  <2>1. /\ h \in Seq(S) /\ Len(h) = Len(ls)
        /\ \A k \in 1 .. Len(ls) : h[k] = IF k = 1 THEN x ELSE ls[k]
    <3> DEFINE P(seq) == /\ WithFirst(seq, x) \in Seq(S) /\ Len(WithFirst(seq, x)) = Len(seq)
                         /\ \A k \in 1 .. Len(seq) :
                              WithFirst(seq, x)[k] = IF k = 1 THEN x ELSE seq[k]
    <3>1. \A seq \in Seq(S) : seq # << >> => P(seq)
      BY WithFirstIs
    <3> HIDE DEF P
    <3>2. P(ls)
      BY <1>1, <3>1
    <3> QED
      BY <3>2 DEF P
  <2> QED
    BY <1>1, <2>1
<1> HIDE DEF more, h
<1>5. \A k \in 1 .. Len(f) + 1 : h[k] = more[k]
  <2>1. \A k \in 1 .. Len(f) + 1 : k \in 1 .. Len(f) \/ k = Len(f) + 1
    BY <1>1
  <2>2. Len(f) + 1 # 1 /\ Len(f) + 1 \in 1 .. Len(f) + 1
    BY <1>1
  <2> QED
    BY <1>1, <1>2, <1>3, <1>4, <2>1, <2>2
<1>6. h = more
  BY <1>3, <1>4, <1>5, SeqEqual
<1> QED
  BY <1>6 DEF h, more, g, ls

EndsWith(ls, line, e) ==
  Terminated(Append(ls, line), e) = Terminated(ls, e) \o (line \o e)

LEMMA OneEnded ==
  ASSUME NEW X, NEW ls \in Seq(Seq(X)), NEW line \in Seq(X), NEW e \in Seq(X)
  PROVE  EndsWith(ls, line, e)
  BY TerminatedAppend DEF EndsWith

LEMMA FirstOfOne ==
  ASSUME NEW X, NEW e \in Seq(X), NEW l \in Seq(X)
  PROVE  Follows(X, Append(<< >>, l), e, << >>)
<1> SUFFICES ASSUME NEW x \in Seq(X)
             PROVE  Terminated(WithFirst(Append(<< >>, l), x), e) = (x \o e) \o << >>
  BY DEF Follows
<1>1. WithFirst(Append(<< >>, l), x) = Append(<< >>, x)
  BY DEF WithFirst
<1>2. << >> \in Seq(Seq(X))
  BY EmptySeq
<1>3. Terminated(Append(<< >>, x), e) = Terminated(<< >>, e) \o (x \o e)
  <2>1. EndsWith(<< >>, x, e)
    BY <1>2, OneEnded
  <2> QED
    BY <2>1 DEF EndsWith
<1> DEFINE xe == x \o e
<1>4. xe \in Seq(X)
  BY ConcatProperties
<1> HIDE DEF xe
<1>5. << >> \o xe = xe /\ xe \o << >> = xe
  BY <1>4
<1> QED
  BY <1>1, <1>3, <1>5, TerminatedEmpty DEF xe

LEMMA FirstOfMore ==
  ASSUME NEW X, NEW e \in Seq(X), NEW f \in Seq(Seq(X)), f # << >>, NEW l \in Seq(X),
         NEW rest \in Seq(X), Follows(X, f, e, rest)
  PROVE  /\ rest \o (l \o e) \in Seq(X)
         /\ Follows(X, Append(f, l), e, rest \o (l \o e))
<1> DEFINE le == l \o e
<1>1. le \in Seq(X)
  BY ConcatProperties
<1>2. ASSUME NEW x \in Seq(X)
      PROVE  Terminated(WithFirst(Append(f, l), x), e) = (x \o e) \o (rest \o le)
  <2> DEFINE g == WithFirst(f, x)
             xe == x \o e
  <2>1. g \in Seq(Seq(X)) /\ WithFirst(Append(f, l), x) = Append(g, l)
    BY WithFirstIs, WithFirstAppend
  <2>2. Terminated(g, e) = xe \o rest /\ xe \in Seq(X)
    BY ConcatProperties DEF Follows
  <2> HIDE DEF g, xe
  <2>3. Terminated(Append(g, l), e) = Terminated(g, e) \o (l \o e)
    <3>1. EndsWith(g, l, e)
      BY <2>1, OneEnded
    <3> QED
      BY <3>1 DEF EndsWith
  <2>4. Associates(xe, rest, le)
    BY <1>1, <2>2, ConcatThree
  <2> HIDE DEF le
  <2> QED
    BY <2>1, <2>2, <2>3, <2>4 DEF Associates, xe, le
<1> HIDE DEF le
<1>3. rest \o le \in Seq(X)
  BY <1>1, ConcatProperties
<1> QED
  BY <1>2, <1>3 DEF Follows, le

LEMMA FirstLineApart ==
  ASSUME NEW X, NEW e \in Seq(X)
  PROVE  \A ls \in Seq(Seq(X)) : ls # << >> => \E rest \in Seq(X) : Follows(X, ls, e, rest)
<1> DEFINE Splits(ls) == ls # << >> => \E rest \in Seq(X) : Follows(X, ls, e, rest)
           Good == {n \in Nat : \A ls \in Seq(Seq(X)) : Len(ls) = n => Splits(ls)}
<1>1. ASSUME NEW f \in Seq(Seq(X)), NEW l \in Seq(X), Splits(f)
      PROVE  Splits(Append(f, l))
  <2>1. CASE f = << >>
    BY <2>1, FirstOfOne, EmptySeq
  <2>2. CASE f # << >>
    <3>1. PICK rest \in Seq(X) : Follows(X, f, e, rest)
      BY <1>1, <2>2
    <3> QED
      BY <2>2, <3>1, FirstOfMore
  <2> QED
    BY <2>1, <2>2
<1>2. Splits(<< >>)
  OBVIOUS
<1> HIDE DEF Splits
<1>3. 0 \in Good
  <2>1. \A ls \in Seq(Seq(X)) : Len(ls) = 0 => ls = << >>
    BY EmptySeq
  <2> QED
    BY <1>2, <2>1
<1>4. ASSUME NEW n \in Nat, n \in Good
      PROVE  n + 1 \in Good
  <2>1. ASSUME NEW ls \in Seq(Seq(X)), Len(ls) = n + 1 PROVE Splits(ls)
    <3>1. ls # << >>
      BY <2>1
    <3>2. PICK f \in Seq(Seq(X)), l \in Seq(X) : ls = Append(f, l)
      BY <3>1, SequenceEmptyOrAppend
    <3>3. Len(f) = n
      BY <2>1, <3>2, AppendProperties
    <3> QED
      BY <1>1, <1>4, <3>2, <3>3
  <2> QED
    BY <2>1
<1>5. \A n \in Nat : n \in Good
  <2> HIDE DEF Good
  <2> QED
    BY <1>3, <1>4, SetInduction
<1>6. \A ls \in Seq(Seq(X)) : Splits(ls)
  <2>1. \A ls \in Seq(Seq(X)) : Len(ls) \in Nat
    OBVIOUS
  <2> QED
    BY <1>5, <2>1
<1> QED
  BY <1>6 DEF Splits

(* The first character of terminated lines, and the others.                *)
LEMMA TerminatedTail ==
  ASSUME NEW X, NEW e \in Seq(X), e # << >>, NEW ls \in Seq(Seq(X)), ls # << >>
  PROVE  /\ ls[1] = << >> => Head(Terminated(ls, e)) = Head(e)
         /\ ls[1] # << >> =>
              /\ Terminated(ls, e) # << >> /\ Head(Terminated(ls, e)) = Head(ls[1])
              /\ Tail(Terminated(ls, e)) = Terminated(WithFirst(ls, Tail(ls[1])), e)
<1>1. ls[1] \in Seq(X) /\ WithFirst(ls, ls[1]) = ls
  BY DEF WithFirst
<1>2. PICK rest \in Seq(X) : Follows(X, ls, e, rest)
  BY FirstLineApart
<1> DEFINE l == ls[1]
<1>3. Terminated(ls, e) = (l \o e) \o rest
  BY <1>1, <1>2 DEF Follows
<1>4. CASE l = << >>
  <2>1. l \o e = e
    BY <1>4
  <2>2. Head(e \o rest) = Head(e)
    BY ConcatTail
  <2> QED
    BY <1>3, <1>4, <2>1, <2>2
<1>5. CASE l # << >>
  <2> HIDE DEF l
  <2>1. /\ l \in Seq(X) /\ l \o e \in Seq(X) /\ l \o e # << >> /\ Head(l \o e) = Head(l)
        /\ Tail(l) \in Seq(X) /\ Tail(l \o e) = Tail(l) \o e
    <3>1. l \in Seq(X) /\ l # << >> /\ e \in Seq(X)
      BY <1>1, <1>5 DEF l
    <3> QED
      BY ONLY <3>1, ConcatTail
  <2> DEFINE le == l \o e
  <2> HIDE DEF le
  <2>2. le \o rest # << >> /\ Head(le \o rest) = Head(le) /\ Tail(le \o rest) = Tail(le) \o rest
    BY ONLY <2>1, rest \in Seq(X), ConcatTail DEF le
  <2>3. Terminated(WithFirst(ls, Tail(l)), e) = (Tail(l) \o e) \o rest
    BY <1>2, <2>1 DEF Follows
  <2> QED
    BY <1>3, <1>5, <2>1, <2>2, <2>3 DEF le, l
<1> QED
  BY <1>4, <1>5

(* What a save of lines writes is read as these lines, of lines that the   *)
(* encoding keeps.                                                         *)
FaithfulIn(enc, line) ==
  \A k \in DOMAIN line : Decoder[enc][Encoder[enc][line[k]]] = line[k]
BeginsMarkedIn(enc, ls) ==
  ls # << >> /\ ls[1] # << >> /\ Encoder[enc][ls[1][1]] \in DOMAIN Marks
ReloadedIn(enc, ls) ==
  IF enc # NoEncoding
    THEN IF BeginsMarkedIn(enc, ls) THEN WithFirst(ls, Tail(ls[1])) ELSE ls
    ELSE IF ls # << >> /\ Last(ls) = << >> THEN Front(ls) ELSE ls
ReloadableIn(enc, e, ls) ==
  IF enc # NoEncoding
    THEN /\ e # <<CR>> /\ enc \notin Wide
         /\ \A k \in DOMAIN ls :
              FaithfulIn(enc, ls[k]) /\ (ls[k] = << >> \/ Last(ls[k]) # CR)
         /\ BeginsMarkedIn(enc, ls) => Marks[Encoder[enc][ls[1][1]]] = enc
    ELSE \A k \in DOMAIN ls : Bare(ls[k])

(* Lines that str::lines keeps apart. *)
StrText(ls) == \A k \in 1 .. Len(ls) : StrLine(ls[k])

LEMMA ForcedLinesKept ==
  ASSUME NEW enc \in Encodings, NEW e \in Endings, NEW ls \in Seq(Seq(Char \ {LF})),
         ReloadableIn(enc, e, ls)
  PROVE  /\ enc \notin Wide /\ e \in StrEndings /\ e \in Seq(KeptBy(enc)) /\ e # << >>
         /\ ls \in Seq(Seq(KeptBy(enc))) /\ StrText(ls)
<1>1. enc # NoEncoding /\ enc \in Encoding
  BY EncodingAssumption
<1>2. /\ e # <<CR>> /\ enc \notin Wide
      /\ \A k \in DOMAIN ls : FaithfulIn(enc, ls[k]) /\ (ls[k] = << >> \/ Last(ls[k]) # CR)
  BY <1>1 DEF ReloadableIn
<1>3. e \in StrEndings
  BY <1>2 DEF Endings, StrEndings
<1>4. e \in Seq(KeptBy(enc)) /\ e # << >>
  <2>1. CR \in KeptBy(enc) /\ LF \in KeptBy(enc)
    BY <1>1, <1>2, EncoderIs, ByteTypes DEF KeptBy
  <2>2. /\ <<LF>> \in Seq(KeptBy(enc)) /\ <<CR, LF>> \in Seq(KeptBy(enc))
        /\ <<LF>> # << >> /\ <<CR, LF>> # << >>
    BY ONLY <2>1
  <2>3. e = <<LF>> \/ e = <<CR, LF>>
    BY <1>3 DEF StrEndings
  <2> QED
    BY ONLY <2>2, <2>3
<1>5. /\ Len(ls) \in Nat /\ DOMAIN ls = 1 .. Len(ls)
      /\ \A k \in 1 .. Len(ls) : ls[k] \in Seq(Char \ {LF})
  OBVIOUS
<1>6. ASSUME NEW k \in 1 .. Len(ls)
      PROVE  ls[k] \in Seq(KeptBy(enc)) /\ StrLine(ls[k])
  <2> DEFINE l == ls[k]
  <2>1. l \in Seq(Char \ {LF}) /\ FaithfulIn(enc, l) /\ (l = << >> \/ Last(l) # CR)
    BY <1>2, <1>5
  <2> HIDE DEF l
  <2>2. /\ Len(l) \in Nat /\ DOMAIN l = 1 .. Len(l)
        /\ \A j \in 1 .. Len(l) : l[j] \in Char /\ l[j] # LF
    BY <2>1
  <2>3. l \in [1 .. Len(l) -> KeptBy(enc)]
    <3>1. \A j \in 1 .. Len(l) : l[j] \in KeptBy(enc)
      BY <2>1, <2>2 DEF FaithfulIn, KeptBy
    <3>2. l = [j \in 1 .. Len(l) |-> l[j]]
      BY <2>1
    <3> QED
      BY <3>1, <3>2
  <2>4. l \in Seq(KeptBy(enc))
    BY <2>2, <2>3, FunctionIsSeq
  <2> QED
    BY <2>1, <2>2, <2>4 DEF StrLine, l
<1>7. ls \in [1 .. Len(ls) -> Seq(KeptBy(enc))]
  <2>1. ls = [k \in 1 .. Len(ls) |-> ls[k]]
    BY <1>5
  <2> QED
    BY <1>6, <2>1
<1>8. ls \in Seq(Seq(KeptBy(enc)))
  BY <1>5, <1>7, FunctionIsSeq
<1> QED
  BY <1>2, <1>3, <1>4, <1>6, <1>8 DEF StrText

(* A line without its first character is a line. *)
LEMMA TailOfLine ==
  ASSUME NEW X, NEW l \in Seq(X), l # << >>
  PROVE  /\ Tail(l) \in Seq(X) /\ Len(Tail(l)) = Len(l) - 1
         /\ \A k \in 1 .. Len(l) - 1 : k + 1 \in 1 .. Len(l) /\ Tail(l)[k] = l[k + 1]
         /\ StrLine(l) => StrLine(Tail(l))
<1> DEFINE r == Tail(l)
<1>1. /\ r \in Seq(X) /\ Len(r) = Len(l) - 1 /\ Len(l) \in Nat
      /\ \A k \in 1 .. Len(l) - 1 : k + 1 \in 1 .. Len(l) /\ r[k] = l[k + 1]
  BY TailIs
<1> HIDE DEF r
<1>2. ASSUME StrLine(l) PROVE StrLine(r)
  <2>1. \A j \in 1 .. Len(r) : r[j] # LF
    BY <1>1, <1>2 DEF StrLine
  <2>2. r # << >> => Last(r) # CR
    <3>1. r # << >> => Len(r) \in 1 .. Len(l) - 1 /\ Len(r) + 1 = Len(l)
      BY <1>1, EmptySeq
    <3> QED
      BY <1>1, <1>2, <3>1 DEF StrLine, Last
  <2> QED
    BY <2>1, <2>2 DEF StrLine
<1> QED
  BY <1>1, <1>2 DEF r

LEMMA StrLinesKept ==
  ASSUME NEW e \in StrEndings, NEW ls \in Seq(Seq(Char)), StrText(ls)
  PROVE  StrLines(Terminated(ls, e)) = ls
<1>1. ls \in Seq(Seq(Byte))
  <2>1. Seq(Char) \subseteq Seq(Byte)
    BY ByteTypes, SeqWider
  <2> QED
    BY <2>1, SeqWider
<1>2. \A k \in 1 .. Len(ls) : StrLine(ls[k])
  BY DEF StrText
<1> QED
  BY <1>1, <1>2, ByteTypes, StrLinesOfTerminated

LEMMA ForcedReload ==
  ASSUME NEW enc \in Encodings, NEW e \in Endings, NEW ls \in Seq(Seq(Char \ {LF})),
         ReloadableIn(enc, e, ls)
  PROVE  LinesIn(enc, DecodedIn(enc, SavedText(enc, e, ls))) = ReloadedIn(enc, ls)
<1> DEFINE K == KeptBy(enc)
           t == Terminated(ls, e)
           b == EncodedIn(enc, t)
<1>1. enc # NoEncoding /\ enc \in Encoding /\ K \subseteq Char
  BY EncodingAssumption DEF KeptBy
<1>2. /\ enc \notin Wide /\ e \in StrEndings /\ e \in Seq(K) /\ e # << >>
      /\ ls \in Seq(Seq(K)) /\ StrText(ls)
  BY ForcedLinesKept
<1> HIDE DEF K
<1>3. Seq(K) \subseteq Seq(Char) /\ ls \in Seq(Seq(Char)) /\ e \in Seq(Char)
  <2>1. Seq(K) \subseteq Seq(Char)
    BY <1>1, SeqWider
  <2>2. Seq(Seq(K)) \subseteq Seq(Seq(Char))
    BY <2>1, SeqWider
  <2> QED
    BY <1>2, <2>1, <2>2
<1>4. t \in Seq(K) /\ t \in Seq(Char)
  BY <1>2, <1>3, TerminatedType
<1>5. SavedText(enc, e, ls) = b
  BY <1>1 DEF SavedText
<1>6. \A u \in Seq(K) : Read(enc, EncodedIn(enc, u)) = u
  BY <1>2, TextKept DEF K
<1>7. t # << >> => /\ b # << >> /\ Head(b) = Encoder[enc][Head(t)]
                   /\ Tail(b) = EncodedIn(enc, Tail(t))
  BY <1>4, EncodedTail
<1>8. ls # << >> =>
        /\ ls[1] = << >> => Head(t) = Head(e)
        /\ ls[1] # << >> =>
             /\ t # << >> /\ Head(t) = Head(ls[1])
             /\ Tail(t) = Terminated(WithFirst(ls, Tail(ls[1])), e)
  BY <1>2, TerminatedTail
<1>9. CASE BeginsMarkedIn(enc, ls)
  <2>1. /\ ls # << >> /\ ls[1] # << >> /\ Encoder[enc][ls[1][1]] \in DOMAIN Marks
        /\ Marks[Encoder[enc][ls[1][1]]] = enc
    BY <1>1, <1>9 DEF BeginsMarkedIn, ReloadableIn
  <2> DEFINE l == ls[1]
             l2 == Tail(l)
             ls2 == WithFirst(ls, l2)
             t2 == Terminated(ls2, e)
  <2>2. l \in Seq(K) /\ Head(l) = l[1] /\ StrLine(l)
    <3>1. Len(ls) \in Nat /\ 1 \in 1 .. Len(ls)
      BY <1>2, <2>1
    <3> QED
      BY <1>2, <2>1, <3>1 DEF StrText
  <2>3. l2 \in Seq(K) /\ StrLine(l2)
    BY <2>1, <2>2, TailOfLine
  <2>4. ls2 \in Seq(Seq(K)) /\ StrText(ls2)
    <3> HIDE DEF l2
    <3>1. /\ ls2 \in Seq(Seq(K)) /\ Len(ls2) = Len(ls)
          /\ \A k \in 1 .. Len(ls) : ls2[k] = IF k = 1 THEN l2 ELSE ls[k]
      BY ONLY <1>2, <2>1, <2>3, WithFirstIs
    <3> HIDE DEF ls2
    <3> QED
      BY <1>2, <2>3, <3>1 DEF StrText
  <2> HIDE DEF l, l2, ls2
  <2>5. t2 \in Seq(K)
    BY <1>2, <2>4, TerminatedType
  <2>6. ls2 \in Seq(Seq(Char))
    <3>1. Seq(Seq(K)) \subseteq Seq(Seq(Char))
      BY <1>3, SeqWider
    <3> QED
      BY <2>4, <3>1
  <2>7. /\ t # << >> /\ Head(t) = l[1] /\ Tail(t) = t2
    BY <1>8, <2>1, <2>2 DEF l, l2, ls2
  <2> HIDE DEF t, b, t2
  <2>8. /\ b # << >> /\ Head(b) \in DOMAIN Marks /\ Marks[Head(b)] = enc
        /\ Tail(b) = EncodedIn(enc, t2)
    BY <1>7, <2>1, <2>7 DEF l
  <2>9. DecodedIn(enc, b) = t2
    BY <1>1, <1>6, <2>5, <2>8 DEF DecodedIn, Decode
  <2>10. StrLines(t2) = ls2
    BY <1>2, <2>4, <2>6, StrLinesKept DEF t2
  <2> QED
    BY <1>1, <1>5, <1>9, <2>9, <2>10 DEF LinesIn, ReloadedIn, l, l2, ls2
<1>10. CASE ~BeginsMarkedIn(enc, ls)
  <2>1. ~(b # << >> /\ Head(b) \in DOMAIN Marks)
    <3> SUFFICES ASSUME b # << >>, Head(b) \in DOMAIN Marks PROVE FALSE
      OBVIOUS
    <3>1. t # << >>
      BY EncodedEmpty
    <3>2. ls # << >>
      BY <3>1, TerminatedEmpty
    <3>3. Head(b) = Encoder[enc][Head(t)]
      BY <1>7, <3>1
    <3> HIDE DEF b
    <3>4. CASE ls[1] = << >>
      <4>1. Head(e) = CR \/ Head(e) = LF
        BY <1>2 DEF StrEndings
      <4>2. Head(b) = CR \/ Head(b) = LF
        BY <1>1, <1>8, <3>2, <3>3, <3>4, <4>1, EncoderIs
      <4> QED
        BY <4>2, EncodingAssumption
    <3>5. CASE ls[1] # << >>
      <4>1. Head(ls[1]) = ls[1][1]
        <5>1. ls[1] \in Seq(K)
          BY <1>2, <3>2
        <5> QED
          BY <5>1
      <4>2. Head(b) = Encoder[enc][ls[1][1]]
        BY <1>8, <3>2, <3>3, <3>5, <4>1
      <4> QED
        BY <1>10, <3>2, <3>5, <4>2 DEF BeginsMarkedIn
    <3> QED
      BY <3>4, <3>5
  <2>2. DecodedIn(enc, b) = t
    <3>1. DecodedIn(enc, b) = Read(enc, b)
      BY <1>1, <2>1 DEF DecodedIn, Decode
    <3> QED
      BY <1>4, <1>6, <3>1
  <2>3. StrLines(t) = ls
    BY <1>2, <1>3, StrLinesKept
  <2> HIDE DEF t, b
  <2> QED
    BY <1>1, <1>5, <1>10, <2>2, <2>3 DEF LinesIn, ReloadedIn
<1> QED
  BY <1>9, <1>10

(* The lines that come back were all accepted, and still are. *)
LEMMA ReloadedShown ==
  ASSUME NEW enc \in Encodings, NEW ls \in Seq(Shown(enc))
  PROVE  LET back == ReloadedIn(enc, ls)
         IN  ItemsIn(back, {line \in Range(back) : AcceptedIn(enc, line)}) = back
<1> DEFINE back == ReloadedIn(enc, ls)
<1>1. enc # NoEncoding
  BY EncodingAssumption
<1>2. back \in Seq(Shown(enc))
  <2>1. CASE ~BeginsMarkedIn(enc, ls)
    BY <1>1, <2>1 DEF ReloadedIn
  <2>2. CASE BeginsMarkedIn(enc, ls)
    <3> DEFINE l == ls[1]
               r == Tail(l)
    <3>1. back = WithFirst(ls, r) /\ l # << >> /\ ls # << >>
      BY <1>1, <2>2 DEF ReloadedIn, BeginsMarkedIn
    <3>2. l \in Seq(Char \ {LF}) /\ AcceptedIn(enc, l)
      BY <3>1 DEF Shown
    <3> HIDE DEF l
    <3>3. /\ r \in Seq(Char \ {LF}) /\ Len(r) = Len(l) - 1 /\ Len(l) \in Nat
          /\ DOMAIN l = 1 .. Len(l) /\ DOMAIN r = 1 .. Len(r)
          /\ \A k \in 1 .. Len(l) - 1 : k + 1 \in 1 .. Len(l) /\ r[k] = l[k + 1]
      BY <3>1, <3>2, TailOfLine
    <3> HIDE DEF r
    <3>4. AcceptedIn(enc, r)
      <4>1. Over(l, Ascii) => Over(r, Ascii)
        BY <3>3 DEF Over
      <4>2. EncodableIn(enc, l) => EncodableIn(enc, r)
        BY <3>3 DEF EncodableIn
      <4> QED
        BY <3>2, <4>1, <4>2 DEF AcceptedIn
    <3>5. r \in Shown(enc)
      BY <3>3, <3>4 DEF Shown
    <3> QED
      BY <3>1, <3>5, WithFirstIs
  <2> QED
    BY <2>1, <2>2
<1> HIDE DEF back
<1>3. \A k \in 1 .. Len(back) : back[k] \in {line \in Range(back) : AcceptedIn(enc, line)}
  <2>1. \A k \in 1 .. Len(back) : back[k] \in Range(back)
    BY <1>2 DEF Range
  <2>2. \A k \in 1 .. Len(back) : back[k] \in Shown(enc)
    BY <1>2
  <2>3. \A line \in Shown(enc) : AcceptedIn(enc, line)
    BY DEF Shown
  <2> QED
    BY ONLY <2>1, <2>2, <2>3
<1>4. ItemsIn(back, {line \in Range(back) : AcceptedIn(enc, line)}) = back
  BY <1>2, <1>3, ItemsAll
<1> QED
  BY <1>4 DEF back

LEMMA SavedReload ==
  ASSUME NEW enc, NEW e, Args(enc, e), NEW ls \in Seq(Shown(enc)), ReloadableIn(enc, e, ls)
  PROVE  /\ LinesIn(enc, DecodedIn(enc, SavedText(enc, e, ls))) = ReloadedIn(enc, ls)
         /\ Loaded(enc, SavedText(enc, e, ls)) = ReloadedIn(enc, ls)
<1>1. ls \in Seq(Seq(Char \ {LF}))
  <2>1. Shown(enc) \subseteq Seq(Char \ {LF})
    BY DEF Shown
  <2> QED
    BY <2>1, SeqWider
<1>2. CASE enc # NoEncoding
  <2>1. enc \in Encodings /\ e \in Endings
    BY <1>2 DEF Args
  <2>2. LinesIn(enc, DecodedIn(enc, SavedText(enc, e, ls))) = ReloadedIn(enc, ls)
    BY <1>1, <2>1, ForcedReload
  <2> DEFINE back == ReloadedIn(enc, ls)
  <2>3. ItemsIn(back, {line \in Range(back) : AcceptedIn(enc, line)}) = back
    BY <2>1, ReloadedShown
  <2> HIDE DEF back
  <2>4. Loaded(enc, SavedText(enc, e, ls)) = back
    BY <1>2, <2>2, <2>3 DEF Loaded, LinesFrom, back
  <2> QED
    BY <2>2, <2>4 DEF back
<1>3. CASE enc = NoEncoding
  <2>1. e \in Endings
    BY DEF Args
  <2>2. ls \in Seq(Seq(Byte))
    <3>1. Seq(Char) \subseteq Seq(Byte)
      BY ByteTypes, SeqWider
    <3> QED
      BY <3>1, ShownType, SeqWider
  <2>3. \A k \in 1 .. Len(ls) : Bare(ls[k])
    BY <1>3, <2>2 DEF ReloadableIn
  <2>4. LinesOf(Rendered(ls, e)) = IF ls # << >> /\ Last(ls) = << >> THEN Front(ls) ELSE ls
    BY <2>1, <2>2, <2>3, ByteTypes, LinesOfRendered
  <2>5. SavedText(enc, e, ls) = Rendered(ls, e)
    BY <1>3 DEF SavedText, EncodedIn
  <2> QED
    BY <1>3, <2>4, <2>5 DEF Loaded, LinesFrom, LinesIn, DecodedIn, ReloadedIn
<1> QED
  BY <1>2, <1>3

(* They are what Medlin.tla says. *)
LEMMA ReloadEverywhere ==
  /\ \A ls : Reloaded(ls) = ReloadedIn(encoding, ls)
  /\ \A ls : Reloadable(ls) <=> ReloadableIn(encoding, ending, ls)
  BY DEF Reloaded, ReloadedIn, Reloadable, ReloadableIn, BeginsMarked, BeginsMarkedIn,
         Faithful, FaithfulIn, WithFirst, forced

LEMMA InvReload == MInv => ReloadShowsSaved
<1> SUFFICES ASSUME MInv, fresh \in DOMAIN saves, Written(fresh),
                    Reloadable(saves[fresh].lines)
             PROVE  buf = Reloaded(saves[fresh].lines)
  BY DEF ReloadShowsSaved
<1> DEFINE ls == saves[fresh].lines
<1>1. fresh \in Paths /\ fresh # NoPath
  BY PathAssumption DEF MInv, FilesOK
<1>2. SavedOK(encoding, ending, files[fresh], saves[fresh])
  BY DEF MInv, FilesOK
<1>3. ls \in Seq(Shown(encoding)) /\ files[fresh] = SavedText(encoding, ending, ls)
  BY <1>2 DEF SavedOK, Written
<1>4. buf = Loaded(encoding, SavedText(encoding, ending, ls))
  BY <1>1, <1>3 DEF MInv, FreshOK
<1>5. Args(encoding, ending) /\ ReloadableIn(encoding, ending, ls)
  BY ReloadEverywhere DEF MInv
<1> HIDE DEF ls
<1>6. buf = ReloadedIn(encoding, ls)
  BY <1>3, <1>4, <1>5, SavedReload
<1> QED
  BY <1>6, ReloadEverywhere DEF ls

(***************************************************************************)
(* A session that loads what an earlier one saved, without an error, has   *)
(* the lines that were saved but for a U+FEFF at the start, for every      *)
(* encoding and ending and all lines that Reloadable allows, whatever byte *)
(* order marks there are.  (medlin.rs:139-236)                             *)
(***************************************************************************)
THEOREM SavedLinesComeBack == MSpec => []ReloadShowsSaved
  BY InvReload, MedlinInvariant, PTL

LEMMA InvUnedited == MInv => UneditedSaveKeepsLines
<1> SUFFICES ASSUME MInv, NEW p \in DOMAIN saves, Written(p), saves[p].from # << >>, HasAscii,
                    Reloadable(Writable(LinesOnDisk(saves[p].from[1])))
             PROVE  LinesOnDisk(files[p]) = Reloaded(Writable(LinesOnDisk(saves[p].from[1])))
  BY DEF UneditedSaveKeepsLines
<1> DEFINE t == DecodedIn(encoding, saves[p].from[1])
           read == LinesIn(encoding, t)
           ls == saves[p].lines
<1>1. Args(encoding, ending) /\ SavedOK(encoding, ending, files[p], saves[p])
  BY DEF MInv, FilesOK
<1>2. /\ ls \in Seq(Shown(encoding)) /\ files[p] = SavedText(encoding, ending, ls)
      /\ ls = LinesFrom(encoding, t)
  BY <1>1 DEF SavedOK, FromOK, Written, Loaded
<1>3. LinesOnDisk(saves[p].from[1]) = read
  BY SameEverywhere
<1> HIDE DEF t, read, ls
<1>4. Writable(read) = ls
  <2>1. CASE forced
    <3>1. \A l : AcceptedIn(encoding, l) <=> Encodable(l)
      <4>1. \A l : Over(l, Ascii) => Encodable(l)
        BY <2>1 DEF HasAscii, Over, Encodable
      <4> QED
        BY <2>1, <4>1, SameEverywhere DEF AcceptedIn, forced
    <3>2. {l \in Range(read) : AcceptedIn(encoding, l)} = {l \in Range(read) : Encodable(l)}
      BY <3>1
    <3>3. ls = ItemsIn(read, {l \in Range(read) : AcceptedIn(encoding, l)})
      BY <1>2, <2>1 DEF LinesFrom, read, forced
    <3> QED
      BY <2>1, <3>2, <3>3 DEF Writable
  <2>2. CASE ~forced
    BY <1>2, <2>2 DEF LinesFrom, Writable, read, forced
  <2> QED
    BY <2>1, <2>2
<1>5. ReloadableIn(encoding, ending, ls)
  BY <1>3, <1>4, ReloadEverywhere
<1>6. LinesIn(encoding, DecodedIn(encoding, files[p])) = ReloadedIn(encoding, ls)
  BY <1>1, <1>2, <1>5, SavedReload
<1> QED
  BY <1>3, <1>4, <1>6, SameEverywhere, ReloadEverywhere

(***************************************************************************)
(* A file that is loaded and saved unedited, there or elsewhere, has in    *)
(* the end all the lines that it had, but for those that a forced encoding *)
(* cannot write, as a later load reads them.  (medlin.rs:148-230)          *)
(***************************************************************************)
THEOREM UneditedSaveDropsNoMore == MSpec => []UneditedSaveKeepsLines
  BY InvUnedited, MedlinInvariant, PTL

-----------------------------------------------------------------------------
(* The characters of a part of a sequence. *)
LEMMA PartIs ==
  ASSUME NEW X, NEW s \in Seq(X), NEW m \in Nat, m >= 1, NEW n \in Nat, n <= Len(s), m <= n + 1
  PROVE  /\ SubSeq(s, m, n) \in Seq(X) /\ Len(SubSeq(s, m, n)) = (n + 1) - m
         /\ DOMAIN SubSeq(s, m, n) = 1 .. (n + 1) - m
         /\ \A k \in 1 .. (n + 1) - m : SubSeq(s, m, n)[k] = s[(m + k) - 1]
<1> DEFINE f == [k \in 1 .. (n + 1) - m |-> s[(m + k) - 1]]
<1>1. (n + 1) - m \in Nat /\ \A k \in 1 .. (n + 1) - m : (m + k) - 1 \in 1 .. Len(s)
  OBVIOUS
<1>2. SubSeq(s, m, n) = f
  BY <1>1
<1>3. f \in [1 .. (n + 1) - m -> X]
  BY <1>1, ElementOfSeq
<1>4. DOMAIN f = 1 .. (n + 1) - m /\ \A k \in 1 .. (n + 1) - m : f[k] = s[(m + k) - 1]
  OBVIOUS
<1> HIDE DEF f
<1> QED
  BY <1>1, <1>2, <1>3, <1>4, FunctionIsSeq

(* A part of a part. *)
LEMMA PartOfPart ==
  ASSUME NEW X, NEW s \in Seq(X), NEW n \in 0 .. Len(s), NEW a \in 0 .. n,
         NEW i \in Nat, i >= 1, NEW j \in Nat, a + j <= n, i <= j + 1
  PROVE  SubSeq(SubSeq(s, a + 1, n), i, j) = SubSeq(s, a + i, a + j)
<1> DEFINE r == SubSeq(s, a + 1, n)
<1>1. /\ Len(s) \in Nat /\ r \in Seq(X) /\ Len(r) = n - a
      /\ \A k \in 1 .. n - a : r[k] = s[a + k]
  <2>1. /\ Len(s) \in Nat /\ n \in Nat /\ n <= Len(s)
        /\ a + 1 \in Nat /\ a + 1 >= 1 /\ a + 1 <= n + 1
        /\ (n + 1) - (a + 1) = n - a
        /\ \A k \in 1 .. n - a : ((a + 1) + k) - 1 = a + k
    OBVIOUS
  <2>2. /\ r \in Seq(X) /\ Len(r) = (n + 1) - (a + 1)
        /\ \A k \in 1 .. (n + 1) - (a + 1) : r[k] = s[((a + 1) + k) - 1]
    BY ONLY <2>1, PartIs, s \in Seq(X)
  <2> HIDE DEF r
  <2> QED
    BY <2>1, <2>2
<1> HIDE DEF r
<1>2. SubSeq(r, i, j) = [k \in 1 .. (j + 1) - i |-> s[(a + i + k) - 1]]
  <2>1. /\ Len(r) \in Nat /\ j <= Len(r)
        /\ \A k \in 1 .. (j + 1) - i : (i + k) - 1 \in 1 .. n - a
                                     /\ a + ((i + k) - 1) = (a + i + k) - 1
    BY <1>1
  <2>2. SubSeq(r, i, j) = [k \in 1 .. (j + 1) - i |-> r[(i + k) - 1]]
    BY <1>1, <2>1
  <2> QED
    BY <1>1, <2>1, <2>2
<1>3. SubSeq(s, a + i, a + j) = [k \in 1 .. (j + 1) - i |-> s[(a + i + k) - 1]]
  OBVIOUS
<1> QED
  BY <1>2, <1>3 DEF r

(* Sequences of the same length and elements. *)
LEMMA SameSeq ==
  ASSUME NEW X, NEW a \in Seq(X), NEW b \in Seq(X), Len(a) = Len(b),
         \A k \in 1 .. Len(a) : a[k] = b[k]
  PROVE  a = b
  OBVIOUS

-----------------------------------------------------------------------------
(* What is typed ends at position n, but for blanks.                       *)
EndsAt(s, n) ==
  /\ n \in 0 .. Len(s) /\ (n = 0 \/ s[n] \notin Blanks)
  /\ \A k \in n + 1 .. Len(s) : s[k] \in Blanks

LEMMA TrimmedIs ==
  ASSUME NEW X, NEW s \in Seq(X)
  PROVE  \E n \in 0 .. Len(s) : EndsAt(s, n) /\ Trimmed(s) = SubSeq(s, 1, n)
<1> DEFINE T == {0} \cup {k \in DOMAIN s : s[k] \notin Blanks}
           n == Max(T)
<1>1. Len(s) \in Nat /\ DOMAIN s = 1 .. Len(s) /\ T \subseteq 0 .. Len(s) /\ T # {}
  OBVIOUS
<1>2. n \in T /\ \A k \in T : k <= n
  <2> HIDE DEF T
  <2> QED
    BY <1>1, MaxIs
<1>3. Trimmed(s) = SubSeq(s, 1, n)
  BY DEF Trimmed
<1> HIDE DEF n
<1>4. EndsAt(s, n)
  BY <1>1, <1>2 DEF EndsAt
<1> QED
  BY <1>3, <1>4 DEF EndsAt

(* It ends at one position only. *)
LEMMA TrimmedAt ==
  ASSUME NEW X, NEW s \in Seq(X), NEW n, EndsAt(s, n)
  PROVE  Trimmed(s) = SubSeq(s, 1, n)
<1>1. PICK m \in 0 .. Len(s) : EndsAt(s, m) /\ Trimmed(s) = SubSeq(s, 1, m)
  BY TrimmedIs
<1>2. m = n
  BY <1>1 DEF EndsAt
<1> QED
  BY <1>1, <1>2

(* The first space of s from position m on is at b; from m to n there is   *)
(* none.                                                                   *)
SpaceAt(s, m, b) == b \in m .. Len(s) /\ s[b] = Space /\ \A k \in m .. b - 1 : s[k] # Space
NoSpace(s, m, n) == \A k \in m .. n : s[k] # Space

LEMMA CutIs ==
  ASSUME NEW X, NEW s \in Seq(X)
  PROVE  \/ NoSpace(s, 1, Len(s)) /\ Cut(s) = <<s>>
         \/ \E b \in 1 .. Len(s) :
              /\ SpaceAt(s, 1, b)
              /\ Cut(s) = <<SubSeq(s, 1, b - 1), SubSeq(s, b + 1, Len(s))>>
<1> DEFINE I == {k \in 1 .. Len(s) : s[k] = Space}
           b == FirstSpace(s)
<1>1. b = IF I # {} THEN Min(I) ELSE 0
  BY DEF FirstSpace, SelectInSeq
<1>2. Cut(s) = IF b = 0 THEN <<s>> ELSE <<SubSeq(s, 1, b - 1), SubSeq(s, b + 1, Len(s))>>
  BY DEF Cut
<1>3. CASE I = {}
  BY <1>1, <1>2, <1>3 DEF NoSpace
<1>4. CASE I # {}
  <2>1. I \subseteq Nat
    OBVIOUS
  <2>2. Min(I) \in I /\ \A k \in I : Min(I) <= k
    <3> HIDE DEF I
    <3> QED
      BY <1>4, <2>1, MinIs
  <2>3. b = Min(I)
    BY <1>1, <1>4
  <2> HIDE DEF b
  <2>4. b \in I /\ \A k \in I : b <= k
    BY <2>2, <2>3
  <2>5. SpaceAt(s, 1, b) /\ b # 0 /\ b \in 1 .. Len(s)
    BY <2>4 DEF SpaceAt
  <2> QED
    BY <1>2, <2>5
<1> QED
  BY <1>3, <1>4

(* The parts of the first n characters of s. *)
OnePart(s, n, parts) == NoSpace(s, 1, n) /\ parts = <<SubSeq(s, 1, n)>>
TwoParts(s, n, b, parts) ==
  /\ b \in 1 .. n /\ SpaceAt(s, 1, b) /\ NoSpace(s, b + 1, n)
  /\ parts = <<SubSeq(s, 1, b - 1), SubSeq(s, b + 1, n)>>
ThreeParts(s, n, b, d, parts) ==
  /\ b \in 1 .. n /\ SpaceAt(s, 1, b) /\ d \in b + 1 .. n /\ SpaceAt(s, b + 1, d)
  /\ parts = <<SubSeq(s, 1, b - 1), SubSeq(s, b + 1, d - 1), SubSeq(s, d + 1, n)>>
Divided(s, n, parts) ==
  \/ OnePart(s, n, parts)
  \/ \E b \in 1 .. n : TwoParts(s, n, b, parts)
  \/ \E b \in 1 .. n, d \in 1 .. n : ThreeParts(s, n, b, d, parts)

LEMMA CutFrom ==
  ASSUME NEW X, NEW s \in Seq(X), NEW n \in 0 .. Len(s), NEW a \in 0 .. n
  PROVE  \/ NoSpace(s, a + 1, n) /\ Cut(SubSeq(s, a + 1, n)) = <<SubSeq(s, a + 1, n)>>
         \/ \E b \in a + 1 .. n :
              /\ SpaceAt(s, a + 1, b)
              /\ Cut(SubSeq(s, a + 1, n)) = <<SubSeq(s, a + 1, b - 1), SubSeq(s, b + 1, n)>>
<1> DEFINE r == SubSeq(s, a + 1, n)
<1>1. /\ Len(s) \in Nat /\ n \in Nat /\ a \in Nat /\ n <= Len(s) /\ a <= n
      /\ r \in Seq(X) /\ Len(r) = n - a /\ \A k \in 1 .. n - a : r[k] = s[a + k]
  <2>1. /\ Len(s) \in Nat /\ n \in Nat /\ n <= Len(s) /\ a \in Nat /\ a <= n
        /\ a + 1 \in Nat /\ a + 1 >= 1 /\ a + 1 <= n + 1
        /\ (n + 1) - (a + 1) = n - a
        /\ \A k \in 1 .. n - a : ((a + 1) + k) - 1 = a + k
    OBVIOUS
  <2>2. /\ r \in Seq(X) /\ Len(r) = (n + 1) - (a + 1)
        /\ \A k \in 1 .. (n + 1) - (a + 1) : r[k] = s[((a + 1) + k) - 1]
    BY ONLY <2>1, PartIs, s \in Seq(X)
  <2> HIDE DEF r
  <2> QED
    BY <2>1, <2>2
<1>2. ASSUME NEW i \in Nat, i >= 1, NEW j \in Nat, a + j <= n, i <= j + 1
      PROVE  SubSeq(r, i, j) = SubSeq(s, a + i, a + j)
  BY ONLY <1>2, PartOfPart, s \in Seq(X), n \in 0 .. Len(s), a \in 0 .. n
<1> HIDE DEF r
<1>3. CASE NoSpace(r, 1, Len(r)) /\ Cut(r) = <<r>>
  <2>1. \A k \in a + 1 .. n : k - a \in 1 .. n - a /\ a + (k - a) = k
    BY <1>1
  <2>2. NoSpace(s, a + 1, n)
    BY <1>1, <1>3, <2>1 DEF NoSpace
  <2> QED
    BY <1>3, <2>2 DEF r
<1>4. ASSUME NEW e \in 1 .. Len(r), SpaceAt(r, 1, e),
             Cut(r) = <<SubSeq(r, 1, e - 1), SubSeq(r, e + 1, Len(r))>>
      PROVE  \E b \in a + 1 .. n :
               /\ SpaceAt(s, a + 1, b)
               /\ Cut(r) = <<SubSeq(s, a + 1, b - 1), SubSeq(s, b + 1, n)>>
  <2> DEFINE b == a + e
  <2>1. /\ b \in a + 1 .. n /\ b \in a + 1 .. Len(s) /\ e \in 1 .. n - a
        /\ a + (e - 1) = b - 1 /\ a + (e + 1) = b + 1 /\ a + Len(r) = n
        /\ e - 1 \in Nat /\ e + 1 \in Nat /\ Len(r) \in Nat
        /\ \A k \in a + 1 .. b - 1 : k - a \in 1 .. e - 1 /\ a + (k - a) = k /\ k - a \in 1 .. n - a
    BY <1>1
  <2>2. r[e] = s[b] /\ r[e] = Space /\ \A k \in 1 .. e - 1 : r[k] # Space
    BY <1>1, <1>4, <2>1 DEF SpaceAt
  <2>3. SpaceAt(s, a + 1, b)
    <3>1. ASSUME NEW k \in a + 1 .. b - 1 PROVE s[k] # Space
      <4>1. k - a \in 1 .. e - 1 /\ a + (k - a) = k /\ k - a \in 1 .. n - a
        BY <2>1, <3>1
      <4>2. r[k - a] = s[a + (k - a)] /\ r[k - a] # Space
        BY <1>1, <2>2, <4>1
      <4> QED
        BY <4>1, <4>2
    <3>2. s[b] = Space /\ b \in a + 1 .. Len(s)
      BY <2>1, <2>2
    <3> QED
      BY <3>1, <3>2 DEF SpaceAt
  <2>4. SubSeq(r, 1, e - 1) = SubSeq(s, a + 1, b - 1)
    <3>1. a + (e - 1) <= n /\ 1 <= (e - 1) + 1 /\ 1 \in Nat /\ 1 >= 1
      BY <1>1, <2>1
    <3>2. SubSeq(r, 1, e - 1) = SubSeq(s, a + 1, a + (e - 1))
      BY ONLY <1>2, <2>1, <3>1
    <3> QED
      BY <2>1, <3>2
  <2>5. SubSeq(r, e + 1, Len(r)) = SubSeq(s, b + 1, n)
    <3>1. a + Len(r) <= n /\ e + 1 <= Len(r) + 1 /\ e + 1 >= 1
      BY <1>1, <2>1
    <3>2. SubSeq(r, e + 1, Len(r)) = SubSeq(s, a + (e + 1), a + Len(r))
      BY ONLY <1>2, <2>1, <3>1
    <3> QED
      BY <2>1, <3>2
  <2> HIDE DEF b
  <2> QED
    BY <1>4, <2>1, <2>3, <2>4, <2>5
<1>5. \/ NoSpace(r, 1, Len(r)) /\ Cut(r) = <<r>>
      \/ \E e \in 1 .. Len(r) :
           /\ SpaceAt(r, 1, e)
           /\ Cut(r) = <<SubSeq(r, 1, e - 1), SubSeq(r, e + 1, Len(r))>>
  BY ONLY <1>1, CutIs
<1> QED
  BY <1>3, <1>4, <1>5 DEF r

LEMMA TuplesJoin ==
  ASSUME NEW w, NEW r, NEW v
  PROVE  <<w>> \o <<r>> = <<w, r>> /\ <<w>> \o <<r, v>> = <<w, r, v>>
<1> DEFINE X == {w, r, v}
<1>1. /\ <<w>> \in Seq(X) /\ <<r>> \in Seq(X) /\ <<r, v>> \in Seq(X)
      /\ <<w, r>> \in Seq(X) /\ <<w, r, v>> \in Seq(X)
      /\ Len(<<w>>) = 1 /\ Len(<<r>>) = 1 /\ Len(<<r, v>>) = 2
  OBVIOUS
<1>2. /\ <<w>> \o <<r>> \in Seq(X) /\ Len(<<w>> \o <<r>>) = 2
      /\ (<<w>> \o <<r>>)[1] = w /\ (<<w>> \o <<r>>)[2] = r
  BY <1>1, ConcatProperties
<1>3. /\ <<w>> \o <<r, v>> \in Seq(X) /\ Len(<<w>> \o <<r, v>>) = 3
      /\ (<<w>> \o <<r, v>>)[1] = w /\ (<<w>> \o <<r, v>>)[2] = r
      /\ (<<w>> \o <<r, v>>)[3] = v
  BY <1>1, ConcatProperties
<1>4. /\ <<w, r>>[1] = w /\ <<w, r>>[2] = r /\ Len(<<w, r>>) = 2
      /\ <<w, r, v>>[1] = w /\ <<w, r, v>>[2] = r /\ <<w, r, v>>[3] = v /\ Len(<<w, r, v>>) = 3
  OBVIOUS
<1>5. ASSUME NEW a \in Seq(X), NEW b \in Seq(X), Len(a) = Len(b), \A k \in 1 .. Len(a) : a[k] = b[k]
      PROVE  a = b
  BY ONLY <1>5, SameSeq
<1> DEFINE two == <<w>> \o <<r>>
           three == <<w>> \o <<r, v>>
<1>6. two = <<w, r>>
  <2>1. /\ two \in Seq(X) /\ Len(two) = 2 /\ \A k \in 1 .. 2 : two[k] = <<w, r>>[k]
    <3> HIDE DEF X
    <3> QED
      BY <1>2, <1>4
  <2> HIDE DEF X, two
  <2> QED
    BY <1>1, <1>4, <1>5, <2>1
<1>7. three = <<w, r, v>>
  <2>1. /\ three \in Seq(X) /\ Len(three) = 3 /\ \A k \in 1 .. 3 : three[k] = <<w, r, v>>[k]
    <3> HIDE DEF X
    <3> QED
      BY <1>3, <1>4
  <2> HIDE DEF X, three
  <2> QED
    BY <1>1, <1>4, <1>5, <2>1
<1> QED
  BY <1>6, <1>7

LEMMA PartsAre ==
  ASSUME NEW X, NEW s \in Seq(X), NEW n \in 0 .. Len(s)
  PROVE  Divided(s, n, Parts(SubSeq(s, 1, n)))
<1> DEFINE t == SubSeq(s, 1, n)
           c == Cut(t)
<1>0. Len(s) \in Nat /\ n \in Nat /\ 0 \in 0 .. n /\ 0 + 1 = 1
  OBVIOUS
<1>1. \/ NoSpace(s, 1, n) /\ c = <<t>>
      \/ \E b \in 1 .. n :
           SpaceAt(s, 1, b) /\ c = <<SubSeq(s, 1, b - 1), SubSeq(s, b + 1, n)>>
  <2>1. \/ NoSpace(s, 0 + 1, n) /\ Cut(SubSeq(s, 0 + 1, n)) = <<SubSeq(s, 0 + 1, n)>>
        \/ \E b \in 0 + 1 .. n :
             /\ SpaceAt(s, 0 + 1, b)
             /\ Cut(SubSeq(s, 0 + 1, n)) = <<SubSeq(s, 0 + 1, b - 1), SubSeq(s, b + 1, n)>>
    BY ONLY <1>0, CutFrom, s \in Seq(X), n \in 0 .. Len(s)
  <2> QED
    BY ONLY <1>0, <2>1
<1>2. Parts(t) = IF Len(c) = 1 THEN c ELSE <<c[1]>> \o Cut(c[2])
  BY DEF Parts
<1> HIDE DEF c
<1>3. ASSUME NoSpace(s, 1, n), c = <<t>>
      PROVE  Divided(s, n, Parts(t))
  <2>1. Parts(t) = <<t>>
    BY ONLY <1>2, <1>3
  <2> QED
    BY <1>3, <2>1 DEF Divided, OnePart
<1>4. ASSUME NEW b \in 1 .. n, SpaceAt(s, 1, b),
             c = <<SubSeq(s, 1, b - 1), SubSeq(s, b + 1, n)>>
      PROVE  Divided(s, n, Parts(t))
  <2> DEFINE w == SubSeq(s, 1, b - 1)
             r == SubSeq(s, b + 1, n)
  <2>1. Parts(t) = <<w>> \o Cut(r)
    <3>1. c = <<w, r>>
      BY <1>4
    <3> HIDE DEF w, r, t
    <3> QED
      BY ONLY <1>2, <3>1
  <2>2. b \in 0 .. n
    OBVIOUS
  <2>3. \/ NoSpace(s, b + 1, n) /\ Cut(r) = <<r>>
        \/ \E d \in b + 1 .. n :
             /\ SpaceAt(s, b + 1, d)
             /\ Cut(r) = <<SubSeq(s, b + 1, d - 1), SubSeq(s, d + 1, n)>>
    BY ONLY <2>2, CutFrom, s \in Seq(X), n \in 0 .. Len(s)
  <2>4. CASE NoSpace(s, b + 1, n) /\ Cut(r) = <<r>>
    <3>1. Parts(t) = <<w, r>>
      <4> HIDE DEF w, r, t
      <4> QED
        BY ONLY <2>1, <2>4, TuplesJoin
    <3>2. TwoParts(s, n, b, Parts(t))
      BY <1>4, <2>4, <3>1 DEF TwoParts
    <3> HIDE DEF t
    <3> QED
      BY <3>2 DEF Divided
  <2>5. ASSUME NEW d \in b + 1 .. n, SpaceAt(s, b + 1, d),
               Cut(r) = <<SubSeq(s, b + 1, d - 1), SubSeq(s, d + 1, n)>>
        PROVE  Divided(s, n, Parts(t))
    <3> DEFINE v == SubSeq(s, b + 1, d - 1)
               x == SubSeq(s, d + 1, n)
    <3>1. Parts(t) = <<w, v, x>>
      <4>1. Cut(r) = <<v, x>>
        BY <2>5
      <4> HIDE DEF w, r, t, v, x
      <4>2. <<w>> \o <<v, x>> = <<w, v, x>>
        BY ONLY TuplesJoin
      <4> QED
        BY ONLY <2>1, <4>1, <4>2
    <3>2. ThreeParts(s, n, b, d, Parts(t)) /\ d \in 1 .. n
      BY <1>4, <2>5, <3>1 DEF ThreeParts
    <3> HIDE DEF t
    <3> QED
      BY <3>2 DEF Divided
  <2> QED
    BY <2>3, <2>4, <2>5
<1> HIDE DEF t
<1>5. Divided(s, n, Parts(t))
  BY <1>1, <1>3, <1>4
<1> QED
  BY <1>5 DEF t

LEMMA PartsType ==
  ASSUME NEW X, NEW s \in Seq(X), NEW n \in 0 .. Len(s), NEW parts, Divided(s, n, parts)
  PROVE  /\ Len(parts) \in 1 .. 3 /\ TextOf(parts) \in Seq(X)
         /\ Len(parts) > 1 => parts[2] \in Seq(X)
<1>1. ASSUME NEW i \in 1 .. n, NEW j \in i .. n PROVE SubSeq(s, i + 1, j) \in Seq(X)
  <2>1. i + 1 \in Nat /\ i + 1 >= 1 /\ j \in Nat /\ j <= Len(s) /\ i + 1 <= j + 1
    OBVIOUS
  <2> QED
    BY <2>1, PartIs
<1>2. CASE OnePart(s, n, parts)
  BY <1>2, EmptySeq DEF OnePart, TextOf
<1>3. ASSUME NEW b \in 1 .. n, TwoParts(s, n, b, parts)
      PROVE  /\ Len(parts) \in 1 .. 3 /\ TextOf(parts) \in Seq(X)
             /\ Len(parts) > 1 => parts[2] \in Seq(X)
  <2>1. SubSeq(s, b + 1, n) \in Seq(X)
    BY <1>1
  <2> QED
    BY <1>3, <2>1, EmptySeq DEF TwoParts, TextOf
<1>4. ASSUME NEW b \in 1 .. n, NEW d \in 1 .. n, ThreeParts(s, n, b, d, parts)
      PROVE  /\ Len(parts) \in 1 .. 3 /\ TextOf(parts) \in Seq(X)
             /\ Len(parts) > 1 => parts[2] \in Seq(X)
  <2>1. d \in b + 1 .. n /\ d - 1 \in b .. n
    BY <1>4 DEF ThreeParts
  <2>2. SubSeq(s, b + 1, d - 1) \in Seq(X) /\ SubSeq(s, d + 1, n) \in Seq(X)
    BY <1>1, <2>1
  <2> QED
    BY <1>4, <2>2 DEF ThreeParts, TextOf
<1> QED
  BY <1>2, <1>3, <1>4 DEF Divided

-----------------------------------------------------------------------------
(***************************************************************************)
(* The inductive invariant of the loop: a save that is under way writes to *)
(* a file that was named.                                                  *)
(***************************************************************************)
LoopOK ==
  /\ script \in Scripts /\ at \in Nat /\ at >= 1
  /\ file \in Paths \cup {NoPath} /\ output \in Paths \cup {NoPath}
SavesNamed == phase \in {"saving", "closing"} => save.path \in Named
LoopInv == MInv /\ LoopOK /\ SavesNamed

(* What a line of the input does, by its parts. *)
EditsBy(parts) ==
  \/ parts[1] = <<"i">> /\ Indexed(parts) /\ InsertCommand(WithLine(parts), TextOf(parts))
  \/ parts[1] = <<"r">> /\ Indexed(parts) /\ ReplaceCommand(WithLine(parts), TextOf(parts))
  \/ parts[1] = <<"d">> /\ Indexed(parts) /\ DeleteCommand(WithLine(parts))
  \/ parts[1] = <<"u">> /\ UndoCommand
  \/ parts[1] = <<"e">> /\ RedoCommand
PathOf(parts) == IF Len(parts) > 1 THEN parts[2] ELSE DefaultOutput
SavesBy(parts) ==
  parts[1] = <<"s">> /\ PathOf(parts) \in Paths /\ SaveCommand(PathOf(parts))

LEMMA LineDoes ==
  ASSUME NEW parts, Dispatch(parts)
  PROVE  UNCHANGED mvars \/ End \/ EditsBy(parts) \/ SavesBy(parts)
<1>1. CASE parts[1] = <<"p">> /\ Show(parts)
  BY <1>1 DEF Show, Nothing
<1>2. CASE parts[1] = <<"i">> /\ Insert(parts)
  BY <1>2 DEF Insert, Nothing, EditsBy
<1>3. CASE parts[1] = <<"r">> /\ Replace(parts)
  BY <1>3 DEF Replace, Nothing, EditsBy, OnLine
<1>4. CASE parts[1] = <<"d">> /\ Delete(parts)
  BY <1>4 DEF Delete, Nothing, EditsBy, OnLine
<1>5. CASE parts[1] = <<"u">> /\ IF past # << >> THEN UndoCommand ELSE Nothing
  BY <1>5 DEF Nothing, EditsBy
<1>6. CASE parts[1] = <<"e">> /\ IF future # << >> THEN RedoCommand ELSE Nothing
  BY <1>6 DEF Nothing, EditsBy
<1>7. CASE parts[1] = <<"s">> /\ Save(parts)
  BY <1>7 DEF Save, Nothing, SavesBy, PathOf
<1> QED
  BY <1>1, <1>2, <1>3, <1>4, <1>5, <1>6, <1>7 DEF Dispatch, Nothing

(* The line that is dispatched, and its parts. *)
Parted(line, parts) ==
  /\ line \in Seq(Char \ {LF})
  /\ \E n \in 0 .. Len(line) : EndsAt(line, n) /\ Divided(line, n, parts)

LEMMA LineRead ==
  ASSUME LoopOK, Reading, Readable
  PROVE  /\ Parsed[script[at]] = Parts(Trimmed(script[at]))
         /\ Parted(script[at], Parsed[script[at]])
<1> DEFINE line == script[at]
<1>1. /\ script \in Seq(Seq(Byte \ {LF})) /\ script \in Scripts /\ at \in DOMAIN script
      /\ \A k \in DOMAIN line : line[k] \in Char
  BY LoopAssumption DEF LoopOK, Reading, Readable, Over
<1>2. line \in Seq(Byte \ {LF}) /\ line \in Range(script)
  BY <1>1 DEF Range
<1>3. Parsed[line] = Parts(Trimmed(line))
  <2> HIDE DEF line
  <2> QED
    BY <1>1, <1>2 DEF Parsed
<1>4. line \in Seq(Char \ {LF})
  <2> HIDE DEF line
  <2>1. /\ Len(line) \in Nat /\ DOMAIN line = 1 .. Len(line)
        /\ \A k \in 1 .. Len(line) : line[k] \in Byte \ {LF}
        /\ line = [k \in 1 .. Len(line) |-> line[k]]
    BY <1>2
  <2>2. line \in [1 .. Len(line) -> Char \ {LF}]
    BY <1>1, <2>1
  <2> QED
    BY <2>1, <2>2, FunctionIsSeq
<1> HIDE DEF line
<1>5. PICK n \in 0 .. Len(line) : EndsAt(line, n) /\ Trimmed(line) = SubSeq(line, 1, n)
  BY <1>4, TrimmedIs
<1>6. Divided(line, n, Parts(SubSeq(line, 1, n)))
  BY <1>4, PartsAre
<1>7. Parted(line, Parsed[line])
  BY <1>3, <1>4, <1>5, <1>6 DEF Parted
<1> QED
  BY <1>3, <1>7 DEF line

-----------------------------------------------------------------------------
LEMMA LoopStart == LoopInit => LoopInv
  BY InvInit DEF LoopInit, LoopInv, LoopOK, SavesNamed, MInit

(* The steps between two lines of the input. *)
Between == Boot \/ ReadError \/ EndOfInput \/ Saving \/ Killed

LEMMA SaveNextKeeps ==
  ASSUME MInv, SaveNext
  PROVE  MInv'
  BY WriteLineKeeps, SaveStepKeeps, CloseKeeps DEF SaveNext

LEMMA BetweenKeeps ==
  ASSUME LoopInv, Between
  PROVE  LoopInv' /\ UNCHANGED loopVars
<1>1. UNCHANGED loopVars /\ UNCHANGED <<script, at, file, output>>
  BY DEF Between, Boot, ReadError, EndOfInput, Saving, Killed, loopVars
<1>2. MInv /\ LoopOK /\ SavesNamed
  BY DEF LoopInv
<1>3. LoopOK' /\ Named' = Named
  BY <1>1, <1>2 DEF LoopOK, Named, NamedBy
<1>4. CASE Boot
  <2>1. Start(file) /\ file \in Paths \cup {NoPath}
    BY <1>2, <1>4 DEF Boot, LoopOK
  <2>2. MInv'
    BY <1>2, <2>1, StartKeeps
  <2>3. phase' = "editing"
    BY <2>1 DEF Start
  <2> QED
    BY <1>1, <1>3, <2>2, <2>3 DEF LoopInv, SavesNamed
<1>5. CASE ReadError \/ EndOfInput \/ Killed
  <2>1. End
    BY <1>5 DEF ReadError, AfterReadError, EndOfInput, Killed
  <2>2. MInv'
    BY <1>2, <2>1, EndKeeps
  <2>3. phase' = "off"
    BY <2>1 DEF End
  <2> QED
    BY <1>1, <1>3, <2>2, <2>3 DEF LoopInv, SavesNamed
<1>6. CASE Saving
  <2>1. SaveNext
    BY <1>6 DEF Saving
  <2>2. MInv'
    BY <1>2, <2>1, SaveNextKeeps
  <2>3. /\ phase \in {"saving", "closing"}
        /\ phase' \in {"saving", "closing"} => save'.path = save.path
    <3>1. phase \in {"saving", "closing"} /\ save = [save EXCEPT !.path = @]
      BY <1>2, <2>1 DEF SaveNext, WriteLine, AbortSave, FlushFull, FlushFails, ReportSaved, Close,
                        MInv, SaveOK, UnderWay
    <3> QED
      BY <1>2, <2>1, <3>1 DEF SaveNext, WriteLine, AbortSave, FlushFull, FlushFails, ReportSaved,
                              Close, MInv, SaveOK, UnderWay
  <2>4. SavesNamed'
    BY <1>2, <1>3, <2>3 DEF SavesNamed
  <2> QED
    BY <1>1, <1>3, <2>2, <2>4 DEF LoopInv
<1> QED
  BY <1>4, <1>5, <1>6 DEF Between

(* Parts of a line: where its first letter is, and the second part.        *)
LEMMA FirstLetter ==
  ASSUME NEW X, NEW s \in Seq(X), NEW b \in 1 .. Len(s), Len(SubSeq(s, 1, b - 1)) = 1
  PROVE  b = 2 /\ s[1] = SubSeq(s, 1, b - 1)[1]
<1> DEFINE w == SubSeq(s, 1, b - 1)
<1>1. b - 1 \in Nat /\ Len(s) \in Nat /\ (b - 1) + 1 = b /\ 1 <= b /\ b - 1 <= Len(s)
  OBVIOUS
<1>2. Len(w) = ((b - 1) + 1) - 1 /\ \A k \in 1 .. ((b - 1) + 1) - 1 : w[k] = s[(1 + k) - 1]
  BY ONLY <1>1, PartIs, s \in Seq(X), 1 \in Nat, 1 >= 1
<1>3. Len(w) = 1
  OBVIOUS
<1> HIDE DEF w
<1>4. ((b - 1) + 1) - 1 = 1
  BY <1>2, <1>3
<1>5. b = 2
  BY <1>4
<1>6. w[1] = s[1]
  <2>1. 1 \in 1 .. ((b - 1) + 1) - 1 /\ (1 + 1) - 1 = 1
    BY <1>4
  <2> QED
    BY ONLY <1>2, <2>1
<1> QED
  BY <1>5, <1>6 DEF w

LEMMA TwoPartsAre ==
  ASSUME NEW X, NEW s \in Seq(X), NEW n \in 0 .. Len(s), NEW b, NEW parts,
         TwoParts(s, n, b, parts), Len(parts[1]) = 1
  PROVE  /\ b = 2 /\ s[1] = parts[1][1] /\ SpaceAt(s, 1, 2) /\ n \in 2 .. Len(s) /\ NoSpace(s, 3, n)
         /\ Len(parts) = 2 /\ parts[2] = SubSeq(s, 3, n)
<1> DEFINE w == SubSeq(s, 1, b - 1)
           v == SubSeq(s, b + 1, n)
<1>1. b \in 1 .. Len(s) /\ SpaceAt(s, 1, b) /\ NoSpace(s, b + 1, n) /\ parts = <<w, v>> /\ b <= n
  BY DEF TwoParts
<1>2. parts[1] = w /\ parts[2] = v /\ Len(parts) = 2
  <2> HIDE DEF w, v
  <2> QED
    BY <1>1
<1>3. b = 2 /\ s[1] = parts[1][1]
  BY ONLY <1>1, <1>2, Len(parts[1]) = 1, FirstLetter, s \in Seq(X)
<1>4. b + 1 = 3
  BY <1>3
<1> QED
  BY <1>1, <1>2, <1>3, <1>4

LEMMA ThreePartsAre ==
  ASSUME NEW X, NEW s \in Seq(X), NEW n \in 0 .. Len(s), NEW b, NEW d, NEW parts,
         ThreeParts(s, n, b, d, parts), Len(parts[1]) = 1
  PROVE  /\ b = 2 /\ s[1] = parts[1][1] /\ SpaceAt(s, 1, 2)
         /\ d \in 3 .. n /\ n \in Nat /\ SpaceAt(s, 3, d)
         /\ Len(parts) = 3 /\ parts[2] = SubSeq(s, 3, d - 1) /\ parts[3] = SubSeq(s, d + 1, n)
<1> DEFINE w == SubSeq(s, 1, b - 1)
           v == SubSeq(s, b + 1, d - 1)
           x == SubSeq(s, d + 1, n)
<1>1. /\ b \in 1 .. Len(s) /\ SpaceAt(s, 1, b) /\ d \in b + 1 .. n /\ SpaceAt(s, b + 1, d)
      /\ parts = <<w, v, x>>
  BY DEF ThreeParts
<1>2. parts[1] = w /\ parts[2] = v /\ parts[3] = x /\ Len(parts) = 3
  <2> HIDE DEF w, v, x
  <2> QED
    BY <1>1
<1>3. b = 2 /\ s[1] = parts[1][1]
  BY ONLY <1>1, <1>2, Len(parts[1]) = 1, FirstLetter, s \in Seq(X)
<1>4. b + 1 = 3 /\ n \in Nat
  BY <1>3
<1> QED
  BY <1>1, <1>2, <1>3, <1>4

(* A save by a line writes to a file that the line names, or the arguments *)
(* do.                                                                     *)
LEMMA SavesToNamed ==
  ASSUME NEW line, NEW parts, Parted(line, parts), parts[1] = <<"s">>, Len(parts) > 1,
         parts[2] \in Paths
  PROVE  parts[2] \in NamedBy(line)
<1> DEFINE p == parts[2]
<1>1. line \in Seq(Char \ {LF}) /\ Len(line) \in Nat
  BY DEF Parted
<1>3. Len(parts[1]) = 1 /\ parts[1][1] = "s"
  OBVIOUS
<1>2. PICK n \in 0 .. Len(line) : EndsAt(line, n) /\ Divided(line, n, parts)
  BY DEF Parted
<1>4. ASSUME NEW e \in 2 .. n, p = SubSeq(line, 3, e),
             SpaceAt(line, 1, 2), line[1] = "s",
             e = Len(line) \/ line[e + 1] \in Blanks
      PROVE  p \in NamedBy(line)
  <2> DEFINE q == <<"s", Space>> \o p
  <2>1. p \in Seq(Char \ {LF}) /\ Len(p) = e - 2 /\ \A k \in 1 .. e - 2 : p[k] = line[k + 2]
    <3>1. /\ 3 \in Nat /\ 3 >= 1 /\ e \in Nat /\ e <= Len(line) /\ 3 <= e + 1
          /\ (e + 1) - 3 = e - 2 /\ \A k \in Nat : (3 + k) - 1 = k + 2
      BY <1>1
    <3> QED
      BY <1>1, <1>4, <3>1, PartIs
  <2>2. line[1] = "s" /\ line[2] = Space /\ {"s", Space} \subseteq {"s", Space} \cup Char
    BY <1>4 DEF SpaceAt
  <2> DEFINE X == {"s", Space} \cup (Char \ {LF})
  <2>3. <<"s", Space>> \in Seq(X) /\ Len(<<"s", Space>>) = 2 /\ p \in Seq(X)
    BY <2>1, SeqWider
  <2> HIDE DEF X, p
  <2>4. /\ q \in Seq(X) /\ Len(q) = e
        /\ q[1] = "s" /\ q[2] = Space /\ \A k \in 3 .. e : q[k] = p[k - 2]
    BY <2>1, <2>3, ConcatProperties
  <2> HIDE DEF q
  <2>5. \A k \in 1 .. e : q[k] = line[k]
    <3>1. ASSUME NEW k \in 3 .. e PROVE q[k] = line[k]
      <4>1. k - 2 \in 1 .. e - 2 /\ (k - 2) + 2 = k
        BY <3>1
      <4> QED
        BY <2>1, <2>4, <4>1
    <3> QED
      BY <2>2, <2>4, <3>1
  <2>6. SubSeq(q, 1, Len(q)) = SubSeq(line, 1, Len(q)) /\ Len(q) <= Len(line)
    <3>1. /\ SubSeq(q, 1, e) = [k \in 1 .. e |-> q[k]]
          /\ SubSeq(line, 1, e) = [k \in 1 .. e |-> line[k]]
      BY <1>1, <2>4
    <3> QED
      BY <1>1, <2>4, <2>5, <3>1
  <2>7. IsPrefix(<<"s", Space>> \o p, line)
    BY <2>6 DEF IsPrefix, q
  <2>8. Len(line) = Len(p) + 2 \/ line[Len(p) + 3] \in Blanks
    <3>1. Len(p) + 2 = e /\ Len(p) + 3 = e + 1
      BY <2>1
    <3> QED
      BY <1>4, <3>1
  <2> QED
    BY <2>7, <2>8 DEF NamedBy, p
<1>5. ASSUME NEW b \in 1 .. n, TwoParts(line, n, b, parts) PROVE p \in NamedBy(line)
  <2>1. line[1] = "s" /\ SpaceAt(line, 1, 2) /\ p = SubSeq(line, 3, n) /\ n \in 2 .. n
    <3> DEFINE X == Char \ {LF}
    <3>1. line \in Seq(X) /\ n \in 0 .. Len(line)
      BY <1>1
    <3> HIDE DEF X
    <3> QED
      BY ONLY <1>3, <1>5, <3>1, TwoPartsAre
  <2>2. n = Len(line) \/ line[n + 1] \in Blanks
    BY <1>1, <1>2 DEF EndsAt
  <2> QED
    BY <1>4, <2>1, <2>2
<1>6. ASSUME NEW b \in 1 .. n, NEW d \in 1 .. n, ThreeParts(line, n, b, d, parts)
      PROVE  p \in NamedBy(line)
  <2>1. /\ line[1] = "s" /\ SpaceAt(line, 1, 2)
        /\ p = SubSeq(line, 3, d - 1) /\ d \in 3 .. n /\ SpaceAt(line, 3, d)
    <3> DEFINE X == Char \ {LF}
    <3>1. line \in Seq(X) /\ n \in 0 .. Len(line)
      BY <1>1
    <3> HIDE DEF X
    <3> QED
      BY ONLY <1>3, <1>6, <3>1, ThreePartsAre
  <2>2. d - 1 \in 2 .. n /\ (d - 1) + 1 = d
    BY <2>1
  <2>3. line[(d - 1) + 1] \in Blanks
    BY <2>1, <2>2 DEF SpaceAt, Blanks
  <2> QED
    BY ONLY <1>4, <2>1, <2>2, <2>3
<1>7. CASE OnePart(line, n, parts)
  BY <1>7 DEF OnePart
<1> QED
  BY <1>2, <1>5, <1>6, <1>7 DEF Divided

LEMMA PathIsNamed ==
  ASSUME LoopOK, Reading, Readable, NEW parts, parts = Parsed[script[at]],
         parts[1] = <<"s">>, PathOf(parts) \in Paths,
         at' = at + 1, UNCHANGED <<script, file, output>>
  PROVE  PathOf(parts) \in Named'
<1>1. at \in Nat /\ at >= 1 /\ at \in 1 .. at' - 1
  BY DEF LoopOK
<1>2. Named' = {output} \cup (IF output = NoPath THEN {file} ELSE {})
                 \cup UNION {NamedBy(script[k]) : k \in 1 .. at' - 1}
  BY DEF Named, NamedBy
<1>3. CASE Len(parts) > 1
  <2>1. PathOf(parts) = parts[2]
    BY <1>3 DEF PathOf
  <2>2. Parted(script[at], parts)
    BY LineRead
  <2>3. parts[2] \in NamedBy(script[at])
    BY <1>3, <2>1, <2>2, SavesToNamed
  <2>4. NamedBy(script[at]) \in {NamedBy(script[k]) : k \in 1 .. at' - 1}
    BY <1>1
  <2>5. parts[2] \in UNION {NamedBy(script[k]) : k \in 1 .. at' - 1}
    BY ONLY <2>3, <2>4
  <2> QED
    BY ONLY <1>2, <2>1, <2>5
<1>4. CASE ~(Len(parts) > 1)
  <2>1. PathOf(parts) = DefaultOutput
    BY <1>4 DEF PathOf
  <2> QED
    BY <1>2, <2>1 DEF DefaultOutput
<1> QED
  BY <1>3, <1>4

LEMMA EditsKeep ==
  ASSUME MInv, NEW parts, TextOf(parts) \in Seq(Char \ {LF}), EditsBy(parts)
  PROVE  MInv' /\ phase' = "editing"
<1>1. ASSUME Indexed(parts) PROVE WithLine(parts) \in Nat
  <2>1. Number(Digits(parts[2])) \in 1 .. UsizeMax
    BY <1>1 DEF Indexed
  <2> QED
    BY <2>1, LoopAssumption DEF WithLine, Index
<1>2. CASE Indexed(parts) /\ InsertCommand(WithLine(parts), TextOf(parts))
  BY <1>1, <1>2, InsertKeeps DEF InsertCommand, EditTo
<1>3. CASE Indexed(parts) /\ ReplaceCommand(WithLine(parts), TextOf(parts))
  BY <1>3, ReplaceKeeps DEF ReplaceCommand, EditTo
<1>4. CASE Indexed(parts) /\ DeleteCommand(WithLine(parts))
  BY <1>4, DeleteKeeps DEF DeleteCommand, EditTo
<1>5. CASE UndoCommand \/ RedoCommand
  BY <1>5, UndoKeeps DEF UndoCommand, RedoCommand
<1> QED
  BY <1>2, <1>3, <1>4, <1>5 DEF EditsBy

LEMMA LineKeeps ==
  ASSUME LoopInv, DispatchLine
  PROVE  LoopInv'
<1> DEFINE parts == Parsed[script[at]]
<1>1. /\ MInv /\ LoopOK /\ SavesNamed
      /\ Reading /\ Readable /\ phase = "editing"
      /\ at' = at + 1 /\ UNCHANGED <<script, file, output>> /\ Dispatch(parts)
  BY DEF LoopInv, DispatchLine, Reading
<1>2. LoopOK'
  BY <1>1 DEF LoopOK
<1>3. Parted(script[at], parts)
  BY <1>1, LineRead
<1>4. TextOf(parts) \in Seq(Char \ {LF})
  BY <1>3, PartsType DEF Parted
<1>5. UNCHANGED mvars \/ End \/ EditsBy(parts) \/ SavesBy(parts)
  BY <1>1, LineDoes
<1>6. CASE UNCHANGED mvars
  <2>1. MInv' /\ phase' = "editing"
    BY <1>1, <1>6, InvStep DEF mvars
  <2> QED
    BY <1>2, <2>1 DEF LoopInv, SavesNamed
<1>7. CASE End
  <2>1. MInv' /\ phase' = "off"
    BY <1>1, <1>7, EndKeeps DEF End
  <2> QED
    BY <1>2, <2>1 DEF LoopInv, SavesNamed
<1>8. CASE EditsBy(parts)
  <2>1. MInv' /\ phase' = "editing"
    BY ONLY <1>1, <1>4, <1>8, EditsKeep
  <2> QED
    BY <1>2, <2>1 DEF LoopInv, SavesNamed
<1>9. CASE SavesBy(parts)
  <2> DEFINE path == PathOf(parts)
  <2>1. parts[1] = <<"s">> /\ path \in Paths /\ SaveCommand(path)
    BY <1>9 DEF SavesBy
  <2>2. MInv'
    BY <1>1, <2>1, SaveStarts
  <2>3. path \in Named'
    BY ONLY <1>1, <2>1, PathIsNamed
  <2>4. save'.path = path
    BY <2>1 DEF SaveCommand, NoSave
  <2> HIDE DEF path
  <2> QED
    BY <1>2, <2>2, <2>3, <2>4 DEF LoopInv, SavesNamed
<1> QED
  BY <1>5, <1>6, <1>7, <1>8, <1>9

LEMMA LoopStep == LoopInv /\ [LoopNext]_cmdVars => LoopInv'
<1> SUFFICES ASSUME LoopInv, [LoopNext]_cmdVars PROVE LoopInv'
  OBVIOUS
<1>1. CASE DispatchLine
  BY <1>1, LineKeeps
<1>2. CASE Between
  BY <1>2, BetweenKeeps
<1>3. CASE UNCHANGED cmdVars
  <2>1. UNCHANGED mvars /\ UNCHANGED <<script, at, file, output>> /\ phase' = phase /\ save' = save
    BY <1>3 DEF cmdVars, loopVars, mvars
  <2>2. MInv'
    BY <2>1, InvStep DEF LoopInv
  <2> QED
    BY <2>1, <2>2 DEF LoopInv, LoopOK, SavesNamed, Named, NamedBy
<1> QED
  BY <1>1, <1>2, <1>3 DEF LoopNext, RunLoop, Between

(***************************************************************************)
(* Whatever lines the input has, the session keeps the invariant of        *)
(* Medlin, and only ever writes to a file that was named.                  *)
(* (medlin.rs:253-434)                                                     *)
(***************************************************************************)
THEOREM LoopInvariant == LoopSpec => []LoopInv
  BY LoopStart, LoopStep, PTL DEF LoopSpec

(***************************************************************************)
(* What sessions promise of their files, where the lines come from a       *)
(* script and are whatever they are; the lines of Medlin are those of      *)
(* Typed.  (medlin.rs:139-236, 253-434)                                    *)
(***************************************************************************)
THEOREM LinesKeepThePromises ==
  LoopSpec =>
    [](/\ MTypeOK /\ NeverMixed /\ SavedUnlessDiskFails /\ AsciiRepresentable
       /\ ReloadShowsSaved /\ UneditedSaveKeepsLines)
<1>1. LoopInv =>
        /\ MTypeOK /\ NeverMixed /\ SavedUnlessDiskFails /\ AsciiRepresentable
        /\ ReloadShowsSaved /\ UneditedSaveKeepsLines
  BY InvTypes, InvNeverMixed, InvWritten, InvRepresentable, InvReload, InvUnedited
  DEF LoopInv
<1> QED
  BY <1>1, LoopInvariant, PTL

-----------------------------------------------------------------------------
(***************************************************************************)
(* No file changes that the arguments or a save command did not name,      *)
(* whatever the input is and whatever fails.  (medlin.rs:350-359, 417)     *)
(***************************************************************************)
THEOREM OnlyNamedFilesAreWritten == LoopSpec => OnlyNamedFilesChange
<1> DEFINE A == \A p \in Paths : Content(p)' # Content(p) => p \in Named'
<1>1. LoopInv /\ LoopInv' /\ [LoopNext]_cmdVars => A
  <2> SUFFICES ASSUME LoopInv, LoopInv', [LoopNext]_cmdVars PROVE A
    OBVIOUS
  <2>1. CASE files' = files
    BY <2>1 DEF Content
  <2>2. ASSUME NEW path, path \in Named',
               \A p : p # path => /\ p \in DOMAIN files' <=> p \in DOMAIN files
                                  /\ p \in DOMAIN files => files'[p] = files[p]
        PROVE  A
    BY <2>2 DEF Content
  <2>3. CASE DispatchLine
    <3> DEFINE parts == Parsed[script[at]]
               path == PathOf(parts)
    <3>1. /\ LoopOK /\ Reading /\ Readable /\ Dispatch(parts)
          /\ at' = at + 1 /\ UNCHANGED <<script, file, output>>
      BY <2>3 DEF LoopInv, DispatchLine
    <3>2. UNCHANGED mvars \/ End \/ EditsBy(parts) \/ SavesBy(parts)
      BY <3>1, LineDoes
    <3>3. CASE UNCHANGED mvars \/ End
      BY <2>1, <3>3 DEF mvars, End
    <3>4. CASE EditsBy(parts)
      BY <2>1, <3>4 DEF EditsBy, InsertCommand, ReplaceCommand, DeleteCommand, EditTo,
                        UndoCommand, RedoCommand
    <3>5. CASE SavesBy(parts)
      <4>1. parts[1] = <<"s">> /\ path \in Paths /\ files' = Updated(files, path, << >>)
        BY <3>5 DEF SavesBy, SaveCommand, Created
      <4>2. path \in Named'
        BY ONLY <3>1, <4>1, PathIsNamed
      <4> HIDE DEF path
      <4> QED
        BY <2>2, <4>1, <4>2 DEF Updated
    <3> QED
      BY <3>2, <3>3, <3>4, <3>5
  <2>4. CASE Saving
    <3>1. SaveNext /\ Named' = Named
      BY <2>4 DEF Saving, loopVars, Named, NamedBy
    <3>2. CASE WriteLine \/ AbortSave \/ ReportSaved
      BY <2>1, <3>2 DEF WriteLine, AbortSave, ReportSaved
    <3>3. CASE FlushFull \/ FlushFails \/ Close
      <4>1. PICK text : files' = [files EXCEPT ![save.path] = @ \o text]
        BY <3>3 DEF FlushFull, FlushFails, Close, WriteTo
      <4>2. save.path \in Named'
        BY <3>1, <3>3 DEF FlushFull, FlushFails, Close, LoopInv, SavesNamed
      <4> QED
        BY <2>2, <4>1, <4>2
    <3> QED
      BY <3>1, <3>2, <3>3 DEF SaveNext
  <2>5. CASE Boot \/ ReadError \/ EndOfInput \/ Killed \/ UNCHANGED cmdVars
    BY <2>1, <2>5 DEF Boot, Start, ReadError, AfterReadError, EndOfInput, Killed, End, cmdVars,
                      mvars
  <2> QED
    BY <2>3, <2>4, <2>5 DEF LoopNext, RunLoop
<1> QED
  BY <1>1, LoopInvariant, PTL DEF OnlyNamedFilesChange, LoopSpec

-----------------------------------------------------------------------------
(* The numerals. *)
LEMMA NumberIs ==
  ASSUME NEW ds \in Seq(DOMAIN Digit)
  PROVE  /\ Len(ds) = 1 => Number(ds) = Digit[ds[1]]
         /\ Len(ds) = 2 => Number(ds) = 10 * Digit[ds[1]] + Digit[ds[2]]
<1> DEFINE D(f) == [k \in 0 .. Len(ds) |-> IF k = 0 THEN 0 ELSE 10 * f[k - 1] + Digit[ds[k]]]
           f == CHOOSE g : g = D(g)
<1>1. Number(ds) = f[Len(ds)]
  BY DEF Number
<1>2. \A d \in DOMAIN Digit : Digit[d] \in Int
  BY LoopAssumption DEF Range
<1>3. CASE Len(ds) = 1
  <2> DEFINE h == [k \in 0 .. 1 |-> IF k = 0 THEN 0 ELSE Digit[ds[1]]]
  <2>1. ds[1] \in DOMAIN Digit /\ Digit[ds[1]] \in Int
    BY <1>2, <1>3
  <2>2. h = D(h)
    BY <1>3, <2>1
  <2>3. f = D(f)
    BY <2>2
  <2> HIDE DEF f, h
  <2>4. f[0] = 0 /\ f[1] = 10 * f[0] + Digit[ds[1]]
    BY <1>3, <2>3
  <2> QED
    BY <1>1, <1>3, <2>1, <2>4
<1>4. CASE Len(ds) = 2
  <2> DEFINE h == [k \in 0 .. 2 |-> IF k = 0 THEN 0
                                    ELSE IF k = 1 THEN Digit[ds[1]]
                                    ELSE 10 * Digit[ds[1]] + Digit[ds[2]]]
  <2>1. /\ ds[1] \in DOMAIN Digit /\ Digit[ds[1]] \in Int
        /\ ds[2] \in DOMAIN Digit /\ Digit[ds[2]] \in Int
    <3>1. 1 \in 1 .. Len(ds) /\ 2 \in 1 .. Len(ds)
      BY <1>4
    <3> QED
      BY <1>2, <3>1, ElementOfSeq
  <2>2. h = D(h)
    BY <1>4, <2>1
  <2>3. f = D(f)
    BY <2>2
  <2> HIDE DEF f, h
  <2>4. f[0] = 0 /\ f[1] = 10 * f[0] + Digit[ds[1]] /\ f[2] = 10 * f[1] + Digit[ds[2]]
    BY <1>4, <2>3
  <2> QED
    BY <1>1, <1>4, <2>1, <2>4
<1> QED
  BY <1>3, <1>4

LEMMA NumeralIs ==
  ASSUME NEW n \in Numerable
  PROVE  /\ Numeral(n) \in Seq(DOMAIN Digit) /\ Numeral(n) # << >>
         /\ Number(Numeral(n)) = n
<1> DEFINE D(v) == CHOOSE d \in DOMAIN Digit : Digit[d] = v
<1>1. n \in 1 .. 99 /\ n \div 10 \in Range(Digit) /\ n % 10 \in Range(Digit)
  BY DEF Numerable
<1>2. ASSUME NEW v \in Range(Digit) PROVE D(v) \in DOMAIN Digit /\ Digit[D(v)] = v
  BY DEF Range
<1>3. Numeral(n) = IF n < 10 THEN <<D(n)>> ELSE <<D(n \div 10), D(n % 10)>>
  BY DEF Numeral
<1> HIDE DEF D
<1>4. CASE n < 10
  <2>1. n % 10 = n
    BY <1>1, <1>4
  <2>2. D(n) \in DOMAIN Digit /\ Digit[D(n)] = n
    BY <1>1, <1>2, <2>1
  <2>3. Numeral(n) = <<D(n)>>
    BY <1>3, <1>4
  <2>4. Numeral(n) \in Seq(DOMAIN Digit) /\ Len(Numeral(n)) = 1 /\ Numeral(n)[1] = D(n)
    BY <2>2, <2>3
  <2> QED
    BY <2>2, <2>4, NumberIs
<1>5. CASE ~(n < 10)
  <2>1. 10 * (n \div 10) + (n % 10) = n
    BY <1>1
  <2>2. /\ D(n \div 10) \in DOMAIN Digit /\ Digit[D(n \div 10)] = n \div 10
        /\ D(n % 10) \in DOMAIN Digit /\ Digit[D(n % 10)] = n % 10
    BY <1>1, <1>2
  <2>3. Numeral(n) = <<D(n \div 10), D(n % 10)>>
    BY <1>3, <1>5
  <2>4. /\ Numeral(n) \in Seq(DOMAIN Digit) /\ Len(Numeral(n)) = 2
        /\ Numeral(n)[1] = D(n \div 10) /\ Numeral(n)[2] = D(n % 10)
    BY <2>2, <2>3
  <2> QED
    BY <2>1, <2>2, <2>4, NumberIs
<1> QED
  BY <1>4, <1>5

-----------------------------------------------------------------------------
(* What InsertAt and RemoveAt do, they undo.                               *)
LEMMA InsertedIs ==
  ASSUME NEW S, NEW s \in Seq(S), NEW n \in 1 .. Len(s) + 1, NEW x \in S
  PROVE  /\ n \in DOMAIN InsertAt(s, n, x) /\ InsertAt(s, n, x)[n] = x
         /\ RemoveAt(InsertAt(s, n, x), n) = s
<1> DEFINE a == SubSeq(s, 1, n - 1)
           b == SubSeq(s, n, Len(s))
           ls == InsertAt(s, n, x)
<1>1. /\ a \in Seq(S) /\ b \in Seq(S) /\ a \o b = s /\ Len(a) = n - 1
      /\ n - 1 \in Nat /\ n \in Nat /\ Len(s) \in Nat
  <2>1. n - 1 \in 0 .. Len(s) /\ (n - 1) + 1 = n
    OBVIOUS
  <2>2. Len(a) = n - 1
    BY <2>1, FirstLines
  <2>3. /\ SubSeq(s, 1, n - 1) \in Seq(S) /\ SubSeq(s, (n - 1) + 1, Len(s)) \in Seq(S)
        /\ SubSeq(s, 1, n - 1) \o SubSeq(s, (n - 1) + 1, Len(s)) = s
    BY ONLY <2>1, CutAt, s \in Seq(S)
  <2>4. n - 1 \in Nat /\ n \in Nat /\ Len(s) \in Nat
    BY <2>1
  <2> QED
    BY ONLY <2>1, <2>2, <2>3, <2>4
<1>2. ls = (a \o <<x>>) \o b
  BY DEF InsertAt
<1> HIDE DEF a, b, ls
<1>3. /\ a \o <<x>> \in Seq(S) /\ Len(a \o <<x>>) = n /\ (a \o <<x>>)[n] = x
      /\ \A k \in 1 .. n - 1 : (a \o <<x>>)[k] = a[k]
  BY <1>1, ConcatProperties
<1> DEFINE c == a \o <<x>>
<1> HIDE DEF c
<1>4. /\ ls \in Seq(S) /\ Len(ls) = n + Len(b) /\ Len(b) \in Nat
      /\ ls[n] = x /\ \A k \in 1 .. n - 1 : ls[k] = a[k]
      /\ \A k \in 1 .. Len(b) : ls[n + k] = b[k]
  <2>1. /\ c \in Seq(S) /\ Len(c) = n /\ c[n] = x /\ ls = c \o b
        /\ \A k \in 1 .. n - 1 : c[k] = a[k]
    BY <1>2, <1>3 DEF c
  <2>2. /\ Len(b) \in Nat /\ ls \in Seq(S) /\ Len(ls) = Len(c) + Len(b)
        /\ \A k \in 1 .. Len(ls) : ls[k] = IF k <= Len(c) THEN c[k] ELSE b[k - Len(c)]
    BY <1>1, <2>1, ConcatProperties
  <2>3. ASSUME NEW k \in 1 .. Len(b) PROVE ls[n + k] = b[k]
    <3>1. n + k \in 1 .. Len(ls) /\ ~(n + k <= Len(c)) /\ (n + k) - Len(c) = k
      BY <1>1, <2>1, <2>2
    <3> QED
      BY <2>2, <3>1
  <2> QED
    BY <1>1, <2>1, <2>2, <2>3
<1>5. SubSeq(ls, 1, n - 1) = a
  <2>1. \A j \in 1 .. Len(a) : ls[0 + j] = a[j]
    BY <1>1, <1>4
  <2>2. SubSeq(ls, 0 + 1, 0 + Len(a)) = a
    BY ONLY <1>1, <2>1, StretchIs, 0 \in Nat
  <2>3. 0 + 1 = 1 /\ 0 + Len(a) = n - 1
    BY <1>1
  <2> QED
    BY <2>2, <2>3
<1>6. SubSeq(ls, n + 1, Len(ls)) = b
  <2>1. SubSeq(ls, n + 1, n + Len(b)) = b
    BY ONLY <1>1, <1>4, StretchIs
  <2> QED
    BY <1>4, <2>1
<1>7. RemoveAt(ls, n) = s
  BY <1>1, <1>5, <1>6 DEF RemoveAt
<1>8. n \in DOMAIN ls
  BY <1>1, <1>4
<1> QED
  BY <1>4, <1>7, <1>8 DEF ls

LEMMA RemovedIs ==
  ASSUME NEW S, NEW s \in Seq(S), NEW n \in 1 .. Len(s)
  PROVE  InsertAt(RemoveAt(s, n), n, s[n]) = s
<1> DEFINE a == SubSeq(s, 1, n - 1)
           b == SubSeq(s, n + 1, Len(s))
           ls == RemoveAt(s, n)
<1>1. /\ n - 1 \in Nat /\ n \in Nat /\ Len(s) \in Nat /\ s[n] \in S
      /\ n - 1 \in 0 .. Len(s) /\ n \in 0 .. Len(s) /\ (n - 1) + 1 = n
  OBVIOUS
<1>2. /\ a \in Seq(S) /\ Len(a) = n - 1 /\ SubSeq(s, 1, n) = Append(a, s[n])
      /\ SubSeq(s, 1, n) \in Seq(S)
  <2>1. n - 1 < Len(s)
    OBVIOUS
  <2>2. /\ SubSeq(s, 1, n - 1) \in Seq(S) /\ Len(SubSeq(s, 1, n - 1)) = n - 1
        /\ SubSeq(s, 1, (n - 1) + 1) = Append(SubSeq(s, 1, n - 1), s[(n - 1) + 1])
    BY ONLY <1>1, <2>1, FirstLines, s \in Seq(S)
  <2>3. SubSeq(s, 1, n) \in Seq(S)
    BY ONLY <1>1, FirstLines, s \in Seq(S)
  <2> QED
    BY <1>1, <2>2, <2>3
<1>3. b \in Seq(S) /\ SubSeq(s, 1, n) \o b = s
  BY <1>1, CutAt
<1>4. ls = a \o b
  BY DEF RemoveAt
<1> HIDE DEF a, b, ls
<1>5. /\ Len(b) \in Nat /\ ls \in Seq(S) /\ Len(ls) = (n - 1) + Len(b)
      /\ \A k \in 1 .. Len(ls) : ls[k] = IF k <= Len(a) THEN a[k] ELSE b[k - Len(a)]
  BY <1>2, <1>3, <1>4, ConcatProperties
<1>6. SubSeq(ls, 1, n - 1) = a
  <2>1. ASSUME NEW j \in 1 .. Len(a) PROVE ls[0 + j] = a[j]
    <3>1. 0 + j = j /\ j \in 1 .. Len(ls) /\ j <= Len(a)
      BY <1>1, <1>2, <1>5
    <3> QED
      BY <1>5, <3>1
  <2>2. SubSeq(ls, 0 + 1, 0 + Len(a)) = a
    BY ONLY <1>2, <2>1, StretchIs, 0 \in Nat
  <2>3. 0 + 1 = 1 /\ 0 + Len(a) = n - 1
    BY <1>1, <1>2
  <2> QED
    BY <2>2, <2>3
<1>7. SubSeq(ls, n, Len(ls)) = b
  <2>1. ASSUME NEW j \in 1 .. Len(b) PROVE ls[(n - 1) + j] = b[j]
    <3>1. (n - 1) + j \in 1 .. Len(ls) /\ ~((n - 1) + j <= Len(a)) /\ ((n - 1) + j) - Len(a) = j
      BY <1>1, <1>2, <1>5
    <3> QED
      BY <1>5, <3>1
  <2>2. SubSeq(ls, (n - 1) + 1, (n - 1) + Len(b)) = b
    BY ONLY <1>1, <1>3, <2>1, StretchIs
  <2> QED
    BY <1>1, <1>5, <2>2
<1>8. Append(a, s[n]) = a \o <<s[n]>>
  BY <1>1, <1>2
<1>9. InsertAt(ls, n, s[n]) = (a \o <<s[n]>>) \o b
  BY <1>6, <1>7 DEF InsertAt
<1> QED
  BY <1>2, <1>3, <1>8, <1>9 DEF ls

-----------------------------------------------------------------------------
(* A line typed: c, a space and ds.                                        *)
StartsWith(line, c, ds) ==
  /\ Len(ds) + 2 <= Len(line) /\ line[1] = c /\ line[2] = Space
  /\ \A k \in 1 .. Len(ds) : line[k + 2] = ds[k]

(* After them, a space and a text. *)
GoesOnWith(line, m, text) ==
  /\ (m + 1) + Len(text) <= Len(line) /\ line[m + 1] = Space
  /\ \A k \in 1 .. Len(text) : line[(m + 1) + k] = text[k]

BlankFrom(line, m) == \A k \in m + 1 .. Len(line) : line[k] \in Blanks

LEMMA TypedElements ==
  ASSUME NEW X, NEW line \in Seq(X), NEW Y, NEW s \in Seq(Y), Types(line, s)
  PROVE  /\ Len(s) \in Nat /\ Len(s) <= Len(line) /\ BlankFrom(line, Len(s))
         /\ \A k \in 1 .. Len(s) : line[k] = s[k]
<1>1. /\ Len(s) \in Nat /\ Len(line) \in Nat /\ Len(s) <= Len(line)
      /\ SubSeq(s, 1, Len(s)) = SubSeq(line, 1, Len(s))
      /\ \A k \in Len(s) + 1 .. Len(line) : line[k] \in Blanks
  BY DEF Types, IsPrefix
<1>2. /\ SubSeq(s, 1, Len(s)) = [k \in 1 .. Len(s) |-> s[k]]
      /\ SubSeq(line, 1, Len(s)) = [k \in 1 .. Len(s) |-> line[k]]
  BY <1>1
<1>3. ASSUME NEW k \in 1 .. Len(s) PROVE line[k] = s[k]
  <2>1. [i \in 1 .. Len(s) |-> s[i]][k] = [i \in 1 .. Len(s) |-> line[i]][k]
    BY ONLY <1>1, <1>2
  <2> QED
    BY <2>1
<1> QED
  BY <1>1, <1>3 DEF BlankFrom

LEMMA LineElements ==
  ASSUME NEW Y, NEW c \in Y, Space \in Y, NEW ds \in Seq(Y)
  PROVE  LET s == <<c, Space>> \o ds
         IN  /\ s \in Seq(Y) /\ Len(s) = Len(ds) + 2 /\ s[1] = c /\ s[2] = Space
             /\ \A k \in 1 .. Len(ds) : s[k + 2] = ds[k]
<1> DEFINE s == <<c, Space>> \o ds
<1>1. /\ <<c, Space>> \in Seq(Y) /\ Len(<<c, Space>>) = 2 /\ Len(ds) \in Nat
      /\ <<c, Space>>[1] = c /\ <<c, Space>>[2] = Space
  OBVIOUS
<1>2. /\ s \in Seq(Y) /\ Len(s) = 2 + Len(ds)
      /\ \A k \in 1 .. 2 : s[k] = <<c, Space>>[k]
      /\ \A k \in 1 .. Len(ds) : s[2 + k] = ds[k]
  <2> DEFINE w == <<c, Space>>
  <2>1. w \in Seq(Y) /\ Len(w) = 2 /\ s = w \o ds
    BY <1>1
  <2> HIDE DEF w, s
  <2>2. /\ s \in Seq(Y) /\ Len(s) = Len(w) + Len(ds)
        /\ \A k \in 1 .. Len(w) + Len(ds) : s[k] = IF k <= Len(w) THEN w[k] ELSE ds[k - Len(w)]
    BY ONLY <2>1, ConcatProperties, ds \in Seq(Y)
  <2>3. ASSUME NEW k \in 1 .. 2 PROVE s[k] = w[k]
    <3>1. k \in 1 .. Len(s) /\ k <= Len(w)
      BY <1>1, <2>1, <2>2
    <3> QED
      BY <2>2, <3>1
  <2>4. ASSUME NEW k \in 1 .. Len(ds) PROVE s[2 + k] = ds[k]
    <3>1. 2 + k \in 1 .. Len(s) /\ ~(2 + k <= Len(w)) /\ (2 + k) - Len(w) = k
      BY <1>1, <2>1, <2>2
    <3> QED
      BY <2>2, <3>1
  <2> QED
    BY <2>1, <2>2, <2>3, <2>4 DEF w
<1> HIDE DEF s
<1>3. s \in Seq(Y) /\ Len(s) = Len(ds) + 2 /\ s[1] = c /\ s[2] = Space
  BY <1>1, <1>2
<1>4. \A k \in 1 .. Len(ds) : s[k + 2] = ds[k]
  BY <1>2
<1> QED
  BY <1>3, <1>4 DEF s

LEMMA TextElements ==
  ASSUME NEW Y, Space \in Y, NEW s \in Seq(Y), NEW text \in Seq(Y)
  PROVE  LET t == s \o <<Space>> \o text
         IN  /\ t \in Seq(Y) /\ Len(t) = (Len(s) + 1) + Len(text)
             /\ \A k \in 1 .. Len(s) : t[k] = s[k]
             /\ GoesOnWith(t, Len(s), text)
<1> DEFINE w == s \o <<Space>>
           t == w \o text
<1>1. /\ <<Space>> \in Seq(Y) /\ Len(<<Space>>) = 1 /\ <<Space>>[1] = Space
      /\ Len(s) \in Nat /\ Len(text) \in Nat
  OBVIOUS
<1>2. w \in Seq(Y) /\ Len(w) = Len(s) + 1 /\ w[Len(s) + 1] = Space
      /\ \A k \in 1 .. Len(s) : w[k] = s[k]
  BY <1>1, ConcatProperties
<1> HIDE DEF w
<1>3. /\ t \in Seq(Y) /\ Len(t) = Len(w) + Len(text)
      /\ \A k \in 1 .. Len(t) : t[k] = IF k <= Len(w) THEN w[k] ELSE text[k - Len(w)]
  BY <1>1, <1>2, ConcatProperties
<1> HIDE DEF t
<1>4. ASSUME NEW k \in 1 .. Len(s) + 1 PROVE t[k] = w[k]
  <2>1. k \in 1 .. Len(t) /\ k <= Len(w)
    BY <1>1, <1>2, <1>3
  <2> QED
    BY <1>3, <2>1
<1>5. ASSUME NEW k \in 1 .. Len(text) PROVE t[(Len(s) + 1) + k] = text[k]
  <2>1. /\ (Len(s) + 1) + k \in 1 .. Len(t) /\ ~((Len(s) + 1) + k <= Len(w))
        /\ ((Len(s) + 1) + k) - Len(w) = k
    BY <1>1, <1>2, <1>3
  <2> QED
    BY <1>3, <2>1
<1>6. /\ Len(s) + 1 \in 1 .. Len(s) + 1 /\ (Len(s) + 1) + Len(text) <= Len(t)
      /\ Len(t) = (Len(s) + 1) + Len(text) /\ \A k \in 1 .. Len(s) : k \in 1 .. Len(s) + 1
  BY <1>1, <1>2, <1>3
<1>7. GoesOnWith(t, Len(s), text)
  BY <1>2, <1>4, <1>5, <1>6 DEF GoesOnWith
<1>8. \A k \in 1 .. Len(s) : t[k] = s[k]
  BY <1>2, <1>4, <1>6
<1> QED
  BY <1>3, <1>6, <1>7, <1>8 DEF t, w

LEMMA LettersAre ==
  /\ \A c \in Letters : c \notin Blanks /\ c # Space
  /\ \A d \in DOMAIN Digit : d \notin Blanks /\ d # Space /\ d # "+"
  /\ Space \in Blanks
<1>1. Space \in Blanks
  BY DEF Blanks
<1> QED
  BY <1>1, SyntaxAssumption

LEMMA FirstOnly ==
  ASSUME NEW X, NEW s \in Seq(X), 1 <= Len(s)
  PROVE  SubSeq(s, 1, 1) = <<s[1]>>
<1> DEFINE w == SubSeq(s, 1, 1)
           v == <<s[1]>>
<1>1. 1 \in Nat /\ 1 >= 1 /\ 1 <= 1 + 1 /\ (1 + 1) - 1 = 1 /\ s[1] \in X
  OBVIOUS
<1>2. /\ w \in Seq(X) /\ Len(w) = (1 + 1) - 1
      /\ \A k \in 1 .. (1 + 1) - 1 : w[k] = s[(1 + k) - 1]
  BY ONLY <1>1, PartIs, s \in Seq(X), 1 <= Len(s)
<1>3. v \in Seq(X) /\ Len(v) = 1 /\ v[1] = s[1]
  BY <1>1
<1> HIDE DEF w, v
<1>4. Len(w) = Len(v) /\ \A k \in 1 .. Len(w) : w[k] = v[k]
  BY <1>1, <1>2, <1>3
<1> QED
  BY <1>2, <1>3, <1>4, SameSeq DEF w, v

(* The parts of a line of a letter and a number. *)
LEMMA TwoTyped ==
  ASSUME NEW X, NEW line \in Seq(X), NEW c \in Letters,
         NEW ds \in Seq(DOMAIN Digit), ds # << >>,
         StartsWith(line, c, ds), BlankFrom(line, Len(ds) + 2)
  PROVE  LET parts == Parts(Trimmed(line))
         IN  Len(parts) = 2 /\ parts[1] = <<c>> /\ parts[2] = ds
<1> DEFINE n == Len(ds) + 2
           parts == Parts(Trimmed(line))
<1>1. /\ Len(line) \in Nat /\ Len(ds) \in Nat /\ Len(ds) # 0
      /\ n \in 3 .. Len(line) /\ n \in 0 .. Len(line) /\ n \in Nat /\ n - 2 = Len(ds) /\ 3 - 1 = 2
  BY EmptySeq DEF StartsWith
<1>2. /\ line[1] = c /\ line[2] = Space
      /\ \A k \in 1 .. Len(ds) : line[k + 2] = ds[k] /\ ds[k] \in DOMAIN Digit
  BY ElementOfSeq DEF StartsWith
<1>3. BlankFrom(line, n) /\ n = Len(ds) + 2
  OBVIOUS
<1> HIDE DEF n
<1>4. ASSUME NEW k \in 3 .. n PROVE line[k] \notin Blanks /\ line[k] # Space
  <2>1. k - 2 \in 1 .. Len(ds) /\ (k - 2) + 2 = k
    BY <1>1
  <2>2. line[k] \in DOMAIN Digit
    BY <1>2, <2>1
  <2> QED
    BY <2>2, LettersAre
<1>5. EndsAt(line, n)
  <2>1. n \in 3 .. n
    BY <1>1
  <2> QED
    BY <1>1, <1>3, <1>4, <2>1 DEF EndsAt, BlankFrom
<1>6. Trimmed(line) = SubSeq(line, 1, n)
  BY <1>5, TrimmedAt
<1>7. Divided(line, n, parts)
  BY ONLY <1>1, <1>6, PartsAre, line \in Seq(X)
<1> HIDE DEF parts
<1>8. c # Space
  BY LettersAre
<1>9. ~OnePart(line, n, parts)
  BY <1>1, <1>2 DEF OnePart, NoSpace
<1>10. ASSUME NEW b, SpaceAt(line, 1, b) PROVE b = 2
  BY <1>1, <1>2, <1>8, <1>10 DEF SpaceAt
<1>11. ASSUME NEW b \in 1 .. n, NEW d \in 1 .. n PROVE ~ThreeParts(line, n, b, d, parts)
  <2> SUFFICES ASSUME ThreeParts(line, n, b, d, parts) PROVE FALSE
    OBVIOUS
  <2>1. SpaceAt(line, 1, b) /\ d \in b + 1 .. n /\ SpaceAt(line, b + 1, d)
    BY DEF ThreeParts
  <2>2. b = 2
    BY ONLY <1>10, <2>1
  <2>3. d \in 3 .. n /\ line[d] = Space
    BY ONLY <2>1, <2>2 DEF SpaceAt
  <2> QED
    BY <1>4, <2>3
<1>12. TwoParts(line, n, 2, parts)
  <2>1. PICK b \in 1 .. n : TwoParts(line, n, b, parts)
    BY <1>7, <1>9, <1>11 DEF Divided
  <2>2. b = 2
    BY <1>10, <2>1 DEF TwoParts
  <2> QED
    BY <2>1, <2>2
<1>13. parts = <<SubSeq(line, 1, 1), SubSeq(line, 3, n)>>
  <2>1. 2 - 1 = 1 /\ 2 + 1 = 3
    OBVIOUS
  <2> QED
    BY <1>12, <2>1 DEF TwoParts
<1>14. SubSeq(line, 3, n) = ds
  <2>1. \A j \in 1 .. Len(ds) : line[2 + j] = ds[j]
    BY <1>1, <1>2
  <2>2. SubSeq(line, 2 + 1, 2 + Len(ds)) = ds
    BY ONLY <2>1, StretchIs, 2 \in Nat, ds \in Seq(DOMAIN Digit)
  <2> QED
    BY <1>1, <1>3, <2>2
<1>15. SubSeq(line, 1, 1) = <<c>>
  <2>1. 1 <= Len(line)
    BY <1>1
  <2> QED
    BY <1>2, <2>1, FirstOnly
<1>16. Len(parts) = 2 /\ parts[1] = <<c>> /\ parts[2] = ds
  BY ONLY <1>13, <1>14, <1>15
<1> QED
  BY <1>16 DEF parts

(* And those of a line with a text as well. *)
LEMMA ThreeTyped ==
  ASSUME NEW X, NEW line \in Seq(X), NEW c \in Letters,
         NEW ds \in Seq(DOMAIN Digit), ds # << >>, StartsWith(line, c, ds),
         NEW Y, NEW text \in Seq(Y), text # << >>, text[Len(text)] \notin Blanks,
         GoesOnWith(line, Len(ds) + 2, text),
         BlankFrom(line, (Len(ds) + 3) + Len(text))
  PROVE  LET parts == Parts(Trimmed(line))
         IN  Len(parts) = 3 /\ parts[1] = <<c>> /\ parts[2] = ds /\ parts[3] = text
<1> DEFINE m == Len(ds) + 3
           n == m + Len(text)
           parts == Parts(Trimmed(line))
<1>1. /\ Len(line) \in Nat /\ Len(ds) \in Nat /\ Len(ds) # 0 /\ Len(text) \in Nat /\ Len(text) # 0
      /\ m \in Nat /\ m = Len(ds) + 3 /\ m = (Len(ds) + 2) + 1
      /\ n = m + Len(text) /\ BlankFrom(line, n)
  BY EmptySeq
<1>2. /\ line[1] = c /\ line[2] = Space
      /\ \A k \in 1 .. Len(ds) : line[k + 2] = ds[k] /\ ds[k] \in DOMAIN Digit
  BY ElementOfSeq DEF StartsWith
<1>3. /\ line[m] = Space /\ m + Len(text) <= Len(line)
      /\ \A k \in 1 .. Len(text) : line[m + k] = text[k]
  BY <1>1 DEF GoesOnWith
<1> HIDE DEF m, n
<1>4. n \in Nat /\ n \in 0 .. Len(line) /\ m \in 4 .. n - 1 /\ 3 <= m
  BY <1>1, <1>3
<1>5. ASSUME NEW k \in 3 .. m - 1 PROVE line[k] # Space
  <2>1. k - 2 \in 1 .. Len(ds) /\ (k - 2) + 2 = k
    BY <1>1
  <2>2. line[k] \in DOMAIN Digit
    BY <1>2, <2>1
  <2> QED
    BY <2>2, LettersAre
<1>6. EndsAt(line, n)
  <2>1. Len(text) \in 1 .. Len(text)
    BY <1>1
  <2>2. line[n] \notin Blanks
    BY <1>1, <1>3, <2>1
  <2> QED
    BY <1>1, <1>4, <2>2 DEF EndsAt, BlankFrom
<1>7. Trimmed(line) = SubSeq(line, 1, n)
  BY <1>6, TrimmedAt
<1>8. Divided(line, n, parts)
  BY ONLY <1>4, <1>7, PartsAre, line \in Seq(X)
<1> HIDE DEF parts
<1>9. c # Space
  BY LettersAre
<1>10. ~OnePart(line, n, parts)
  BY <1>2, <1>4 DEF OnePart, NoSpace
<1>11. ASSUME NEW b, SpaceAt(line, 1, b) PROVE b = 2
  BY <1>1, <1>2, <1>9, <1>11 DEF SpaceAt
<1>12. ASSUME NEW b \in 1 .. n PROVE ~TwoParts(line, n, b, parts)
  <2> SUFFICES ASSUME TwoParts(line, n, b, parts) PROVE FALSE
    OBVIOUS
  <2>1. b = 2 /\ NoSpace(line, b + 1, n)
    BY <1>11 DEF TwoParts
  <2>2. m \in b + 1 .. n
    BY <1>4, <2>1
  <2> QED
    BY <1>3, <2>1, <2>2 DEF NoSpace
<1>13. ThreeParts(line, n, 2, m, parts)
  <2>1. PICK b \in 1 .. n, d \in 1 .. n : ThreeParts(line, n, b, d, parts)
    BY <1>8, <1>10, <1>12 DEF Divided
  <2>2. b = 2
    BY <1>11, <2>1 DEF ThreeParts
  <2>3. /\ d \in 3 .. n /\ line[d] = Space /\ \A k \in 3 .. d - 1 : line[k] # Space
    BY <2>1, <2>2 DEF ThreeParts, SpaceAt
  <2>4. d = m
    <3>1. ~(d < m)
      BY <1>4, <1>5, <2>3
    <3>2. ~(d > m)
      BY <1>3, <1>4, <2>3
    <3> QED
      BY <1>4, <2>3, <3>1, <3>2
  <2> QED
    BY <2>1, <2>2, <2>4
<1>14. parts = <<SubSeq(line, 1, 1), SubSeq(line, 3, m - 1), SubSeq(line, m + 1, n)>>
  <2>1. 2 - 1 = 1 /\ 2 + 1 = 3
    OBVIOUS
  <2> QED
    BY <1>13, <2>1 DEF ThreeParts
<1>15. SubSeq(line, 3, m - 1) = ds
  <2>1. \A j \in 1 .. Len(ds) : line[2 + j] = ds[j]
    BY <1>1, <1>2
  <2>2. SubSeq(line, 2 + 1, 2 + Len(ds)) = ds
    BY ONLY <2>1, StretchIs, 2 \in Nat, ds \in Seq(DOMAIN Digit)
  <2>3. 2 + 1 = 3 /\ 2 + Len(ds) = m - 1
    BY <1>1
  <2> QED
    BY <2>2, <2>3
<1>16. SubSeq(line, m + 1, n) = text
  <2>1. SubSeq(line, m + 1, m + Len(text)) = text
    BY ONLY <1>1, <1>3, StretchIs, text \in Seq(Y)
  <2> QED
    BY <1>1, <2>1
<1>17. SubSeq(line, 1, 1) = <<c>>
  <2>1. 1 <= Len(line)
    BY <1>1, <1>4
  <2> QED
    BY <1>2, <2>1, FirstOnly
<1>18. Len(parts) = 3 /\ parts[1] = <<c>> /\ parts[2] = ds /\ parts[3] = text
  BY ONLY <1>14, <1>15, <1>16, <1>17
<1> QED
  BY <1>18 DEF parts

LEMMA LineTyped ==
  ASSUME NEW X, NEW line \in Seq(X), NEW c \in Letters, NEW n \in Numerable,
         Types(line, OneLine(c, n))
  PROVE  LET parts == Parts(Trimmed(line))
         IN  Len(parts) = 2 /\ parts[1] = <<c>> /\ parts[2] = Numeral(n)
<1> DEFINE ds == Numeral(n)
           Y == Letters \cup {Space} \cup DOMAIN Digit
           s == <<c, Space>> \o ds
<1>1. ds \in Seq(DOMAIN Digit) /\ ds # << >> /\ Len(ds) \in Nat
  BY NumeralIs
<1>2. Types(line, s)
  BY DEF OneLine
<1> HIDE DEF ds
<1>3. c \in Y /\ Space \in Y /\ ds \in Seq(Y)
  BY <1>1, SeqWider
<1> HIDE DEF Y
<1>4. /\ s \in Seq(Y) /\ Len(s) = Len(ds) + 2 /\ s[1] = c /\ s[2] = Space
      /\ \A k \in 1 .. Len(ds) : s[k + 2] = ds[k]
  BY ONLY <1>3, LineElements
<1> HIDE DEF s
<1>5. /\ Len(s) \in Nat /\ Len(s) <= Len(line) /\ BlankFrom(line, Len(s))
      /\ \A k \in 1 .. Len(s) : line[k] = s[k]
  BY <1>2, <1>4, TypedElements
<1>6. StartsWith(line, c, ds) /\ BlankFrom(line, Len(ds) + 2)
  BY <1>1, <1>4, <1>5 DEF StartsWith
<1> QED
  BY <1>1, <1>6, TwoTyped DEF ds

LEMMA TextTyped ==
  ASSUME NEW line \in Seq(Char \ {LF}), NEW c \in Letters, NEW n \in Numerable,
         NEW text \in TypedWhole, Types(line, OneText(c, n, text))
  PROVE  LET parts == Parts(Trimmed(line))
         IN  /\ Len(parts) > 1 /\ parts[1] = <<c>> /\ parts[2] = Numeral(n)
             /\ TextOf(parts) = text
<1> DEFINE ds == Numeral(n)
           Y == Letters \cup {Space} \cup DOMAIN Digit \cup (Char \ {LF})
           s == <<c, Space>> \o ds
           t == s \o <<Space>> \o text
           parts == Parts(Trimmed(line))
<1>1. ds \in Seq(DOMAIN Digit) /\ ds # << >> /\ Len(ds) \in Nat
  BY NumeralIs
<1>2. Types(line, t)
  BY DEF OneText, OneLine
<1>3. /\ text \in Seq(Char \ {LF}) /\ Len(text) \in Nat
      /\ text # << >> => text[Len(text)] \notin Blanks
  BY CharAssumption DEF TypedWhole, Last
<1> HIDE DEF ds, parts
<1>4. c \in Y /\ Space \in Y /\ ds \in Seq(Y) /\ text \in Seq(Y)
  BY <1>1, <1>3, SeqWider
<1> HIDE DEF Y
<1>5. /\ s \in Seq(Y) /\ Len(s) = Len(ds) + 2 /\ s[1] = c /\ s[2] = Space
      /\ \A k \in 1 .. Len(ds) : s[k + 2] = ds[k]
  BY ONLY <1>4, LineElements
<1> HIDE DEF s
<1>6. /\ t \in Seq(Y) /\ Len(t) = (Len(s) + 1) + Len(text)
      /\ \A k \in 1 .. Len(s) : t[k] = s[k]
      /\ GoesOnWith(t, Len(s), text)
  BY ONLY <1>4, <1>5, TextElements
<1> HIDE DEF t
<1>7. /\ Len(t) \in Nat /\ Len(t) <= Len(line) /\ BlankFrom(line, Len(t))
      /\ \A k \in 1 .. Len(t) : line[k] = t[k]
  BY <1>2, <1>6, TypedElements
<1>8. StartsWith(line, c, ds)
  <2>1. \A k \in 1 .. Len(s) : line[k] = s[k]
    BY <1>1, <1>3, <1>5, <1>6, <1>7
  <2>2. Len(ds) + 2 <= Len(line)
    BY <1>1, <1>3, <1>5, <1>6, <1>7
  <2> QED
    BY <1>1, <1>5, <2>1, <2>2 DEF StartsWith
<1>9. GoesOnWith(line, Len(ds) + 2, text)
  <2>1. line[Len(s) + 1] = Space
    BY <1>1, <1>3, <1>5, <1>6, <1>7 DEF GoesOnWith
  <2>2. ASSUME NEW k \in 1 .. Len(text) PROVE line[(Len(s) + 1) + k] = text[k]
    <3>1. (Len(s) + 1) + k \in 1 .. Len(t)
      BY <1>1, <1>3, <1>5, <1>6
    <3> QED
      BY <1>6, <1>7, <3>1 DEF GoesOnWith
  <2> QED
    BY <1>5, <1>6, <1>7, <2>1, <2>2 DEF GoesOnWith
<1>10. BlankFrom(line, (Len(ds) + 3) + Len(text))
  <2>1. Len(t) = (Len(ds) + 3) + Len(text)
    BY <1>1, <1>3, <1>5, <1>6
  <2> QED
    BY <1>7, <2>1
<1>11. CASE text = << >>
  <2>1. Len(text) = 0
    BY <1>11
  <2>2. ASSUME NEW k \in (Len(ds) + 2) + 1 .. Len(line) PROVE line[k] \in Blanks
    <3>1. CASE k = (Len(ds) + 2) + 1
      BY <1>9, <3>1, LettersAre DEF GoesOnWith
    <3>2. CASE k # (Len(ds) + 2) + 1
      <4>1. k \in ((Len(ds) + 3) + Len(text)) + 1 .. Len(line)
        BY <1>1, <2>1, <3>2
      <4> QED
        BY <1>10, <4>1 DEF BlankFrom
    <3> QED
      BY <3>1, <3>2
  <2>3. BlankFrom(line, Len(ds) + 2)
    BY <2>2 DEF BlankFrom
  <2>4. Len(parts) = 2 /\ parts[1] = <<c>> /\ parts[2] = ds
    BY <1>1, <1>8, <2>3, TwoTyped DEF parts
  <2> QED
    BY <1>11, <2>4 DEF TextOf, parts, ds
<1>12. CASE text # << >>
  <2>1. Len(parts) = 3 /\ parts[1] = <<c>> /\ parts[2] = ds /\ parts[3] = text
    BY <1>1, <1>3, <1>8, <1>9, <1>10, <1>12, ThreeTyped DEF parts
  <2> QED
    BY <2>1 DEF TextOf, parts, ds
<1> QED
  BY <1>11, <1>12

LEMMA NumberedLine ==
  ASSUME NEW parts, NEW n \in Numerable, Len(parts) > 1, parts[2] = Numeral(n)
  PROVE  Indexed(parts) /\ WithLine(parts) = n
<1> DEFINE ds == Numeral(n)
<1>1. ds \in Seq(DOMAIN Digit) /\ ds # << >> /\ Number(ds) = n /\ n \in 1 .. 99
  BY NumeralIs DEF Numerable
<1> HIDE DEF ds
<1>2. Digits(ds) = ds
  <2>1. Head(ds) \in DOMAIN Digit
    BY <1>1
  <2> QED
    BY <2>1, LettersAre DEF Digits
<1>3. Over(ds, DOMAIN Digit)
  BY <1>1 DEF Over
<1>4. n \in 1 .. UsizeMax
  BY <1>1, LoopAssumption
<1>5. Indexed(parts)
  BY <1>1, <1>2, <1>3, <1>4 DEF Indexed, ds
<1>6. WithLine(parts) = (n - 1) + 1
  BY <1>1, <1>2 DEF WithLine, Index, ds
<1> QED
  BY <1>1, <1>5, <1>6

(* The command that a letter stands for. *)
LEMMA CommandOf ==
  ASSUME NEW parts, Dispatch(parts)
  PROVE  /\ parts[1] = <<"p">> => Show(parts)
         /\ parts[1] = <<"i">> => Insert(parts)
         /\ parts[1] = <<"r">> => Replace(parts)
         /\ parts[1] = <<"d">> => Delete(parts)
<1>1. \A x, y : <<x>> = <<y>> => x = y
  OBVIOUS
<1> QED
  BY <1>1 DEF Dispatch, Letters

(***************************************************************************)
(* The numbered commands do to the lines what was typed.                   *)
(* (medlin.rs:106-118, 255-336)                                            *)
(***************************************************************************)
THEOREM CommandsActAsTyped == LoopSpec => ActsAsTyped
<1> DEFINE A == at' = at + 1 => TypedCommand(script[at])
<1>1. LoopInv /\ [LoopNext]_cmdVars => A
  <2> SUFFICES ASSUME LoopInv, [LoopNext]_cmdVars, at' = at + 1
               PROVE  TypedCommand(script[at])
    OBVIOUS
  <2> DEFINE line == script[at]
             parts == Parsed[line]
  <2>1. LoopOK /\ MInv /\ at \in Nat
    BY DEF LoopInv, LoopOK
  <2>2. DispatchLine
    <3>1. at' # at
      BY <2>1
    <3> QED
      BY <3>1 DEF LoopNext, RunLoop, Boot, ReadError, EndOfInput, Saving, Killed, loopVars, cmdVars
  <2>3. Reading /\ Readable /\ Dispatch(parts)
    BY <2>2 DEF DispatchLine
  <2>4. line \in Seq(Char \ {LF}) /\ parts = Parts(Trimmed(line))
    BY <2>1, <2>3, LineRead DEF Parted
  <2>5. buf \in Seq(Shown(encoding))
    BY <2>1 DEF MInv, BufferOK
  <2> HIDE DEF line, parts
  <2>6. ASSUME NEW n \in Numerable, NEW text \in TypedWhole
        PROVE  /\ Types(line, OneText("i", n, text)) /\ Accepted(text)
                    => /\ AtEnd(n) \in DOMAIN buf' /\ buf'[AtEnd(n)] = text
                       /\ RemoveAt(buf', AtEnd(n)) = buf
               /\ Types(line, OneText("r", n, text)) /\ Accepted(text) /\ n \in DOMAIN buf
                    => /\ Len(buf') = Len(buf) /\ buf'[n] = text
                       /\ Kept(DOMAIN buf \ {n})
    <3>1. n \in 1 .. 99 /\ text \in Seq(Char \ {LF})
      BY CharAssumption DEF Numerable, TypedWhole
    <3>2. ASSUME Types(line, OneText("i", n, text)), Accepted(text)
          PROVE  /\ AtEnd(n) \in DOMAIN buf' /\ buf'[AtEnd(n)] = text
                 /\ RemoveAt(buf', AtEnd(n)) = buf
      <4>1. /\ Len(parts) > 1 /\ parts[1] = <<"i">> /\ parts[2] = Numeral(n)
            /\ TextOf(parts) = text
        BY <2>4, <3>2, TextTyped DEF Letters
      <4>2. Insert(parts) /\ Indexed(parts) /\ WithLine(parts) = n
        BY <2>3, <4>1, CommandOf, NumberedLine
      <4>3. buf' = InsertAt(buf, IF n - 1 < Len(buf) THEN n ELSE Len(buf) + 1, text)
        BY <3>2, <4>1, <4>2 DEF Insert, InsertCommand, EditTo
      <4>4. /\ AtEnd(n) \in 1 .. Len(buf) + 1
            /\ AtEnd(n) = IF n - 1 < Len(buf) THEN n ELSE Len(buf) + 1
        BY <2>5, <3>1 DEF AtEnd
      <4>5. buf' = InsertAt(buf, AtEnd(n), text) /\ text \in Shown(encoding)
        BY <3>1, <3>2, <4>3, <4>4, SameEverywhere DEF Shown
      <4> QED
        BY ONLY <2>5, <4>4, <4>5, InsertedIs
    <3>3. ASSUME Types(line, OneText("r", n, text)), Accepted(text), n \in DOMAIN buf
          PROVE  /\ Len(buf') = Len(buf) /\ buf'[n] = text
                 /\ Kept(DOMAIN buf \ {n})
      <4>1. /\ Len(parts) > 1 /\ parts[1] = <<"r">> /\ parts[2] = Numeral(n)
            /\ TextOf(parts) = text
        BY <2>4, <3>3, TextTyped DEF Letters
      <4>2. Replace(parts) /\ Indexed(parts) /\ WithLine(parts) = n
        BY <2>3, <4>1, CommandOf, NumberedLine
      <4>3. buf' = [buf EXCEPT ![n] = text]
        BY <3>3, <4>1, <4>2 DEF Replace, OnLine, ReplaceCommand, EditTo, ReplaceAt
      <4> QED
        BY <2>5, <3>3, <4>3 DEF Kept
    <3> QED
      BY <3>2, <3>3
  <2>7. ASSUME NEW n \in Numerable \cap DOMAIN buf
        PROVE  /\ Types(line, OneLine("d", n)) => InsertAt(buf', n, buf[n]) = buf
               /\ Types(line, OneLine("p", n)) => shown' = <<buf[n]>>
    <3>1. ASSUME Types(line, OneLine("d", n)) PROVE InsertAt(buf', n, buf[n]) = buf
      <4>1. Len(parts) > 1 /\ parts[1] = <<"d">> /\ parts[2] = Numeral(n)
        BY <2>4, <3>1, LineTyped DEF Letters
      <4>2. Delete(parts) /\ Indexed(parts) /\ WithLine(parts) = n
        BY <2>3, <4>1, CommandOf, NumberedLine
      <4>3. buf' = RemoveAt(buf, n) /\ n \in 1 .. Len(buf)
        BY <2>5, <4>2 DEF Delete, OnLine, DeleteCommand, EditTo
      <4> QED
        BY ONLY <2>5, <4>3, RemovedIs
    <3>2. ASSUME Types(line, OneLine("p", n)) PROVE shown' = <<buf[n]>>
      <4>1. Len(parts) > 1 /\ parts[1] = <<"p">> /\ parts[2] = Numeral(n)
        BY <2>4, <3>2, LineTyped DEF Letters
      <4>2. Show(parts) /\ Indexed(parts) /\ WithLine(parts) = n
        BY <2>3, <4>1, CommandOf, NumberedLine
      <4> QED
        BY <4>2 DEF Show, OnLine
    <3> QED
      BY <3>1, <3>2
  <2> QED
    BY <2>6, <2>7 DEF TypedCommand, line
<1> QED
  BY <1>1, LoopInvariant, PTL DEF ActsAsTyped, LoopSpec

-----------------------------------------------------------------------------
(* What is read of a line whose first word is one letter. *)
LEMMA EditLetter ==
  ASSUME NEW line, NEW parts, Parted(line, parts), Len(parts[1]) = 1
  PROVE  /\ line[1] = parts[1][1]
         /\ Len(line) = 1 \/ line[2] \in Blanks
         /\ Len(parts) > 1 =>
              /\ line[2] = Space
              /\ \E m \in 2 .. Len(line) :
                   /\ parts[2] = SubSeq(line, 3, m)
                   /\ m = Len(line) \/ line[m + 1] \in Blanks
<1>1. line \in Seq(Char \ {LF}) /\ Len(line) \in Nat
  BY DEF Parted
<1>2. PICK n \in 0 .. Len(line) : EndsAt(line, n) /\ Divided(line, n, parts)
  BY DEF Parted
<1>3. n = Len(line) \/ (n + 1 \in 1 .. Len(line) /\ line[n + 1] \in Blanks)
  BY <1>1, <1>2 DEF EndsAt
<1>4. CASE OnePart(line, n, parts)
  <2>1. parts = <<SubSeq(line, 1, n)>> /\ Len(parts) = 1 /\ parts[1] = SubSeq(line, 1, n)
    BY <1>4 DEF OnePart
  <2>2. n \in Nat /\ n <= Len(line) /\ 1 <= n + 1 /\ (n + 1) - 1 = n /\ (1 + 1) - 1 = 1
        /\ 1 \in Nat /\ 1 >= 1
    BY <1>1
  <2>3. Len(parts[1]) = (n + 1) - 1
        /\ \A k \in 1 .. (n + 1) - 1 : parts[1][k] = line[(1 + k) - 1]
    BY ONLY <1>1, <2>1, <2>2, PartIs
  <2>4. n = 1
    BY ONLY <2>2, <2>3, Len(parts[1]) = 1
  <2>5. line[1] = parts[1][1]
    BY <2>3, <2>4
  <2> QED
    BY <1>3, <2>1, <2>4, <2>5
<1>5. ASSUME NEW b \in 1 .. n, TwoParts(line, n, b, parts)
      PROVE  /\ line[1] = parts[1][1] /\ line[2] = Space
             /\ \E m \in 2 .. Len(line) : /\ parts[2] = SubSeq(line, 3, m)
                                          /\ m = Len(line) \/ line[m + 1] \in Blanks
  <2>1. /\ line[1] = parts[1][1] /\ SpaceAt(line, 1, 2) /\ n \in 2 .. Len(line)
        /\ parts[2] = SubSeq(line, 3, n)
    <3> DEFINE X == Char \ {LF}
    <3>1. line \in Seq(X) /\ n \in 0 .. Len(line)
      BY <1>1
    <3> HIDE DEF X
    <3> QED
      BY ONLY <1>5, <3>1, TwoPartsAre, Len(parts[1]) = 1
  <2> QED
    BY <1>3, <2>1 DEF SpaceAt
<1>6. ASSUME NEW b \in 1 .. n, NEW d \in 1 .. n, ThreeParts(line, n, b, d, parts)
      PROVE  /\ line[1] = parts[1][1] /\ line[2] = Space
             /\ \E m \in 2 .. Len(line) : /\ parts[2] = SubSeq(line, 3, m)
                                          /\ m = Len(line) \/ line[m + 1] \in Blanks
  <2>1. /\ line[1] = parts[1][1] /\ SpaceAt(line, 1, 2) /\ SpaceAt(line, 3, d) /\ d \in 3 .. n
        /\ parts[2] = SubSeq(line, 3, d - 1)
    <3> DEFINE X == Char \ {LF}
    <3>1. line \in Seq(X) /\ n \in 0 .. Len(line)
      BY <1>1
    <3> HIDE DEF X
    <3> QED
      BY ONLY <1>6, <3>1, ThreePartsAre, Len(parts[1]) = 1
  <2>2. d - 1 \in 2 .. Len(line) /\ (d - 1) + 1 = d /\ line[d] = Space /\ line[2] = Space
    BY <1>1, <2>1 DEF SpaceAt
  <2>3. line[(d - 1) + 1] \in Blanks
    BY <2>2 DEF Blanks
  <2> QED
    BY ONLY <2>1, <2>2, <2>3
<1>7. Space \in Blanks
  BY DEF Blanks
<1> QED
  BY <1>2, <1>4, <1>5, <1>6, <1>7 DEF Divided

(* The line that an edit is made by, and the line that it edits. *)
EditAsTyped(line) ==
  \/ line[1] \in {"u", "e"} /\ (Len(line) = 1 \/ line[2] \in Blanks)
  \/ /\ line[2] = Space
     /\ \E n \in 1 .. UsizeMax : Says(line, n) /\ EditsLine(line[1], n)

LEMMA EditIsTyped ==
  ASSUME MInv, NEW line, NEW parts, Parted(line, parts), EditsBy(parts)
  PROVE  EditAsTyped(line)
<1>1. Len(parts[1]) = 1
  BY DEF EditsBy
<1>2. /\ line[1] = parts[1][1]
      /\ Len(line) = 1 \/ line[2] \in Blanks
      /\ Len(parts) > 1 =>
           /\ line[2] = Space
           /\ \E m \in 2 .. Len(line) : /\ parts[2] = SubSeq(line, 3, m)
                                        /\ m = Len(line) \/ line[m + 1] \in Blanks
  BY <1>1, EditLetter
<1>3. CASE parts[1] \in {<<"u">>, <<"e">>}
  <2>1. parts[1][1] \in {"u", "e"}
    BY <1>3
  <2> QED
    BY <1>2, <2>1 DEF EditAsTyped
<1>4. CASE /\ Indexed(parts)
           /\ \/ parts[1] = <<"i">> /\ InsertCommand(WithLine(parts), TextOf(parts))
              \/ parts[1] = <<"r">> /\ ReplaceCommand(WithLine(parts), TextOf(parts))
              \/ parts[1] = <<"d">> /\ DeleteCommand(WithLine(parts))
  <2> DEFINE ds == Digits(parts[2])
             n == Number(ds)
             c == parts[1][1]
             text == TextOf(parts)
  <2>1. /\ Len(parts) > 1 /\ ds # << >> /\ Over(ds, DOMAIN Digit) /\ n \in 1 .. UsizeMax
    BY <1>4 DEF Indexed
  <2>2. n \in Nat /\ WithLine(parts) = n /\ n >= 1
    <3>1. WithLine(parts) = (n - 1) + 1
      BY DEF WithLine, Index
    <3> HIDE DEF n
    <3> QED
      BY <2>1, <3>1, LoopAssumption
  <2>3. Says(line, n)
    <3>1. PICK m \in 2 .. Len(line) : /\ parts[2] = SubSeq(line, 3, m)
                                      /\ m = Len(line) \/ line[m + 1] \in Blanks
      BY <1>2, <2>1
    <3>2. m \in 3 .. Len(line)
      <4>1. m # 2
        <5> SUFFICES ASSUME m = 2 PROVE FALSE
          OBVIOUS
        <5>1. parts[2] = << >>
          BY <3>1
        <5> QED
          BY <2>1, <5>1 DEF Digits
      <4>2. line \in Seq(Char \ {LF})
        BY DEF Parted
      <4>3. Len(line) \in Nat
        BY <4>2
      <4> QED
        BY <4>1, <4>3
    <3> QED
      BY <2>1, <3>1, <3>2 DEF Says
  <2> HIDE DEF n, ds
  <2>4. buf \in Seq(Shown(encoding)) /\ text \in Seq(Char \ {LF})
        /\ Len(buf) \in Nat /\ DOMAIN buf = 1 .. Len(buf)
    <3>1. buf \in Seq(Shown(encoding))
      BY DEF MInv, BufferOK
    <3>2. text \in Seq(Char \ {LF})
      BY PartsType DEF Parted
    <3> QED
      BY <3>1, <3>2
  <2> HIDE DEF text
  <2>5. EditsLine(c, n)
    <3>1. CASE parts[1] = <<"i">> /\ InsertCommand(n, text)
      <4>1. /\ Accepted(text) /\ c = "i"
            /\ buf' = InsertAt(buf, IF n - 1 < Len(buf) THEN n ELSE Len(buf) + 1, text)
        BY <3>1 DEF InsertCommand, EditTo
      <4>2. /\ AtEnd(n) \in 1 .. Len(buf) + 1
            /\ AtEnd(n) = IF n - 1 < Len(buf) THEN n ELSE Len(buf) + 1
        BY <2>2, <2>4 DEF AtEnd
      <4>3. buf' = InsertAt(buf, AtEnd(n), text) /\ text \in Shown(encoding)
        BY <2>4, <4>1, <4>2, SameEverywhere DEF Shown
      <4>4. RemoveAt(buf', AtEnd(n)) = buf
        BY ONLY <2>4, <4>2, <4>3, InsertedIs
      <4> QED
        BY <4>1, <4>4 DEF EditsLine
    <3>2. CASE parts[1] = <<"r">> /\ ReplaceCommand(n, text)
      <4>1. c = "r" /\ n \in DOMAIN buf /\ buf' = [buf EXCEPT ![n] = text]
        BY <3>2 DEF ReplaceCommand, EditTo, ReplaceAt
      <4>2. Len(buf') = Len(buf) /\ Kept(DOMAIN buf \ {n})
        BY <2>4, <4>1 DEF Kept
      <4> QED
        BY <4>1, <4>2 DEF EditsLine
    <3>3. CASE parts[1] = <<"d">> /\ DeleteCommand(n)
      <4>1. c = "d" /\ n \in DOMAIN buf /\ buf' = RemoveAt(buf, n)
        BY <3>3 DEF DeleteCommand, EditTo
      <4>2. n \in 1 .. Len(buf)
        BY <2>4, <4>1
      <4>3. InsertAt(buf', n, buf[n]) = buf
        BY ONLY <2>4, <4>1, <4>2, RemovedIs
      <4> QED
        BY <4>1, <4>3 DEF EditsLine
    <3> QED
      BY <1>4, <2>2, <3>1, <3>2, <3>3 DEF text
  <2> QED
    BY <1>2, <2>1, <2>3, <2>5 DEF EditAsTyped
<1> QED
  BY <1>3, <1>4 DEF EditsBy

(***************************************************************************)
(* The buffer changes by the lines of edits alone, whatever the input is:  *)
(* the line that such a line names by a number from 1 to usize::MAX is the *)
(* only one that is edited, and if there is no such line, none is.         *)
(* (medlin.rs:238-364)                                                     *)
(***************************************************************************)
THEOREM OnlyEditsChangeTheBuffer == LoopSpec => EditsOnlyAsTyped
<1> DEFINE A == phase' = phase /\ buf' # buf
                  => LET line == script[at]
                     IN  \/ /\ line[1] \in {"u", "e"}
                            /\ Len(line) = 1 \/ line[2] \in Blanks
                         \/ /\ line[2] = Space
                            /\ \E n \in 1 .. UsizeMax : Says(line, n) /\ EditsLine(line[1], n)
<1>1. LoopInv /\ [LoopNext]_cmdVars => A
  <2> SUFFICES ASSUME LoopInv, [LoopNext]_cmdVars, phase' = phase, buf' # buf
               PROVE  EditAsTyped(script[at])
    BY DEF EditAsTyped
  <2> DEFINE parts == Parsed[script[at]]
  <2>1. DispatchLine
    <3>1. ~Boot
      BY DEF Boot, Start
    <3>2. ~End
      BY DEF End
    <3>3. ~Saving
      BY DEF Saving, SaveNext, WriteLine, AbortSave, FlushFull, FlushFails, ReportSaved, Close,
             SaveStep, bufferVars
    <3>4. ~UNCHANGED cmdVars
      BY DEF cmdVars, mvars, bufferVars
    <3> QED
      BY <3>1, <3>2, <3>3, <3>4
      DEF LoopNext, RunLoop, ReadError, AfterReadError, EndOfInput, Killed
  <2>2. /\ LoopOK /\ Reading /\ Readable /\ Dispatch(parts)
    BY <2>1 DEF LoopInv, DispatchLine
  <2>3. UNCHANGED mvars \/ End \/ EditsBy(parts) \/ SavesBy(parts)
    BY <2>2, LineDoes
  <2>4. EditsBy(parts) /\ MInv
    BY <2>3 DEF LoopInv, mvars, bufferVars, End, SavesBy, SaveCommand
  <2>5. Parted(script[at], parts)
    BY <2>2, LineRead
  <2> HIDE DEF parts
  <2> QED
    BY <2>4, <2>5, EditIsTyped
<1> QED
  BY <1>1, LoopInvariant, PTL DEF EditsOnlyAsTyped, LoopSpec
=============================================================================
