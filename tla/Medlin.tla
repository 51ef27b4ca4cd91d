------------------------------- MODULE Medlin -------------------------------
(***************************************************************************)
(* Sessions of the line editor medlin.rs on files: a session loads a file, *)
(* edits the lines, saves them any number of times and quits or is killed; *)
(* a later session may load what was saved.  The buffer is what            *)
(* UndoHistory.tla promises of a branch: the lines, and whole versions to  *)
(* undo and redo to.                                                       *)
(*                                                                         *)
(* A file is a sequence of pieces, each the bytes of one character in some *)
(* encoding, or bytes that no character has.  A character is its bytes in  *)
(* UTF-8.  All sessions use the same encoding.  A save passes its text to  *)
(* a BufWriter, which hands it on to the file when it is full and when it  *)
(* is dropped.                                                             *)
(***************************************************************************)
EXTENDS TextLines

CONSTANTS Char,        \* the characters: the pieces that are UTF-8
          Ascii,       \* the characters up to U+007F
          Bad,         \* bytes that no encoding decodes
          Encoder,     \* of each encoding: the piece of a character, or Bad
                       \* if it has none; for UTF-16 that is its UTF-8
          Decoder,     \* of each encoding: the character of a piece, or Bad
          Wide,        \* the encodings that decode two pieces to a character
          Marks,       \* byte order mark -> the encoding it stands for
          Encodings,   \* what --force-encoding may be
          NoEncoding,  \* the argument is not given
          Typed,       \* what is typed, on one line
          Paths,
          NoPath,      \* an argument that is not given
          FirstFiles,  \* what there may be on disk at first
          MaxLines,    \* bound: lines in a buffer
          MaxEdits,    \* bound: edits
          MaxSessions  \* bound: sessions

Line == Seq(Char)
Encoding == DOMAIN Encoder

ASSUME CharAssumption ==
  /\ Bad \in Byte \ Char /\ Char \subseteq Byte
  /\ Ascii \cup {CR, LF} \subseteq Char
  /\ Typed \subseteq Seq(Char \ {LF})
(* encoding_rs: every encoder writes CR and LF as UTF-8 does.              *)
ASSUME EncodingAssumption ==
  /\ Encodings \subseteq Encoding /\ NoEncoding \notin Encodings
  /\ Encoder \in [Encoding -> [Char -> Byte]]
  /\ DOMAIN Decoder = Encoding
  /\ \A enc \in Encoding :
       /\ Decoder[enc] \in [IF enc \in Wide THEN Byte \X Byte ELSE Byte -> Char \cup {Bad}]
       /\ \A c \in {CR, LF} : Encoder[enc][c] = c
       /\ enc \notin Wide => \A c \in {CR, LF, Bad} : Decoder[enc][c] = c
  /\ DOMAIN Marks \subseteq Byte \ {CR, LF} /\ Range(Marks) \subseteq Encoding
ASSUME PathAssumption ==
  /\ NoPath \notin Paths
  /\ \A fs \in FirstFiles : DOMAIN fs \subseteq Paths /\ Range(fs) \subseteq Seq(Byte)
ASSUME BoundAssumption ==
  {MaxLines, MaxEdits, MaxSessions} \subseteq Nat

VARIABLES files,    \* path -> text, for the files that exist
          encoding, \* --force-encoding
          ending,   \* --line-ending
          phase,    \* "off", "editing", "saving", "closing" (the writer)
          buf,      \* the lines of the buffer
          past,     \* the versions an undo goes back to
          future,   \* the versions a redo returns to
          save,     \* the save under way
          edits, sessions,
          saves,    \* history: path -> the last save to it
          fresh     \* history: the file the buffer was loaded from, as
                    \* long as it is not edited or saved

bufferVars == <<buf, past, future>>
argVars == <<encoding, ending>>
countVars == <<edits, sessions>>
mvars == <<files, phase, save, bufferVars, argVars, countVars, saves, fresh>>

NoSave == [path |-> NoPath, n |-> 0, buffered |-> << >>, said |-> FALSE]

MInit ==
  /\ files \in FirstFiles
  /\ encoding \in Encodings \cup {NoEncoding} /\ ending \in Endings
  /\ phase = "off"
  /\ buf = << >> /\ past = << >> /\ future = << >>
  /\ save = NoSave
  /\ edits = 0 /\ sessions = 0
  /\ saves = << >> /\ fresh = NoPath

-----------------------------------------------------------------------------
forced == encoding # NoEncoding

Over(line, S) == \A k \in DOMAIN line : line[k] \in S
Encodable(line) == \A k \in DOMAIN line : Encoder[encoding][line[k]] # Bad
Encoded(text) ==
  IF forced THEN [k \in DOMAIN text |-> Encoder[encoding][text[k]]] ELSE text

(* The characters that an encoding reads, with Bad where it can read none; *)
(* in UTF-16 half a character at the end is an error.                      *)
Read(enc, t) ==
  IF enc \in Wide
    THEN [k \in 1 .. (Len(t) + 1) \div 2 |->
            IF 2 * k <= Len(t) THEN Decoder[enc][t[2 * k - 1], t[2 * k]] ELSE Bad]
    ELSE [k \in DOMAIN t |-> Decoder[enc][t[k]]]

(* Encoding::decode: a byte order mark at the start takes precedence over  *)
(* the encoding, and is not part of the text.                              *)
Decode(enc, t) ==
  IF t # << >> /\ Head(t) \in DOMAIN Marks
    THEN Read(Marks[Head(t)], Tail(t)) ELSE Read(enc, t)

(* The text of a file that has the bytes t. *)
Decoded(t) == IF forced THEN Decode(encoding, t) ELSE t

(* ForcedEncodingValidator: pure ASCII is not tried on the encoder.        *)
Accepted(line) == forced => Over(line, Ascii) \/ Encodable(line)

(* The bytes decode as a whole.  A bug to catch: those that do not are     *)
(* replaced.                                                               *)
DecodesLossy(t) == TRUE
Decodes(t) == Over(Decoded(t), Char)

LoadEmpty == buf' = << >> /\ past' = << >> /\ future' = << >>

(* The lines of a forced load: those the validator rejects are skipped.    *)
(* Bugs to catch: they are not validated; they are split like from_str     *)
(* does; the first that is rejected ends the load.                         *)
AcceptedOf(ls) == ItemsIn(ls, {line \in Range(ls) : Accepted(line)})
ForcedUnchecked(t) == StrLines(t)
ForcedSplitting(t) == AcceptedOf(LinesOf(t))
ForcedUntilRejected(t) ==
  LET ls == StrLines(t)
      k  == SelectInSeq(ls, LAMBDA l : ~Accepted(l))
  IN  IF k = 0 THEN ls ELSE SubSeq(ls, 1, k - 1)
ForcedLines(t) == AcceptedOf(StrLines(t))

(* load_file.  With a forced encoding the lines are inserted one by one,   *)
(* so that the load can be undone.                                         *)
Load(t) ==
  IF ~Decodes(t)
    THEN LoadEmpty
    ELSE /\ buf' = IF forced THEN ForcedLines(Decoded(t)) ELSE LinesOf(Decoded(t))
         /\ past' = IF forced THEN [k \in DOMAIN buf' |-> SubSeq(buf', 1, k - 1)]
                              ELSE << >>
         /\ future' = << >>

(* main, with --file f.  A file that is absent or cannot be read is an     *)
(* empty buffer.                                                           *)
Start(f) ==
  /\ phase = "off" /\ sessions < MaxSessions
  /\ \/ /\ f \in DOMAIN files
        /\ Load(files[f])
        /\ fresh' = IF Decodes(files[f]) THEN f ELSE NoPath
     \/ LoadEmpty /\ fresh' = NoPath
  /\ phase' = "editing"
  /\ sessions' = sessions + 1
  /\ UNCHANGED <<files, argVars, edits, save, saves>>

-----------------------------------------------------------------------------
(* The commands that edit, with 1-based line numbers.  One that is refused *)
(* prints a message and changes nothing.                                   *)
EditTo(ls) ==
  /\ phase = "editing" /\ edits < MaxEdits
  /\ edits' = edits + 1
  /\ buf' = ls
  /\ past' = Append(past, buf)
  /\ future' = << >>
  /\ fresh' = NoPath
  /\ UNCHANGED <<files, phase, save, argVars, sessions, saves>>

(* i N: a number past the end appends.                                     *)
InsertCommand(n, text) ==
  /\ n > 0 /\ Accepted(text) /\ Len(buf) < MaxLines
  /\ EditTo(InsertAt(buf, IF n - 1 < Len(buf) THEN n ELSE Len(buf) + 1, text))

ReplaceCommand(n, text) ==
  /\ n \in DOMAIN buf /\ Accepted(text)
  /\ EditTo(ReplaceAt(buf, n, text))

DeleteCommand(n) ==
  /\ n \in DOMAIN buf
  /\ EditTo(RemoveAt(buf, n))

UndoCommand ==
  /\ phase = "editing" /\ past # << >>
  /\ buf' = Last(past) /\ past' = Front(past) /\ future' = Append(future, buf)
  /\ fresh' = NoPath
  /\ UNCHANGED <<files, phase, save, argVars, countVars, saves>>

RedoCommand ==
  /\ phase = "editing" /\ future # << >>
  /\ buf' = Last(future) /\ past' = Append(past, buf) /\ future' = Front(future)
  /\ fresh' = NoPath
  /\ UNCHANGED <<files, phase, save, argVars, countVars, saves>>

-----------------------------------------------------------------------------
(* save.  What is passed to the writer for line n + 1: write_lines puts an *)
(* ending between lines, the forced save after each.                       *)
Piece(n) == IF forced \/ n + 1 < Len(buf) THEN buf[n + 1] \o ending ELSE buf[n + 1]
WholeText ==
  Encoded(IF forced THEN Terminated(buf, ending) ELSE Rendered(buf, ending))

(* The function that gives p the value v, and the others what f does.      *)
Updated(f, p, v) == [q \in DOMAIN f \cup {p} |-> IF q = p THEN v ELSE f[q]]

(* File::create.  A bug to catch: the file is opened and not truncated.    *)
Opened(p) == IF p \in DOMAIN files THEN files ELSE Updated(files, p, << >>)
Created(p) == Updated(files, p, << >>)

(* History: the bytes that an unedited buffer was loaded from.             *)
Unedited == IF fresh = NoPath THEN << >> ELSE <<files[fresh]>>

(* s p, or s with --output or --file p; if the file cannot be created,     *)
(* nothing changes.                                                        *)
SaveCommand(p) ==
  /\ phase = "editing"
  /\ phase' = "saving"
  /\ files' = Created(p)
  /\ save' = [NoSave EXCEPT !.path = p]
  /\ saves' = Updated(saves, p, [lines |-> buf, text |-> WholeText, from |-> Unedited,
                                 reported |-> FALSE, failed |-> FALSE])
  /\ fresh' = NoPath
  /\ UNCHANGED <<bufferVars, argVars, countVars>>

WriteTo(p, text) == files' = [files EXCEPT ![p] = @ \o text]
SaveStep == UNCHANGED <<bufferVars, argVars, countVars, fresh>>

WriteLine ==
  /\ phase = "saving" /\ save.n < Len(buf)
  /\ forced => Encodable(Piece(save.n))
  /\ save' = [save EXCEPT !.n = @ + 1, !.buffered = @ \o Encoded(Piece(save.n))]
  /\ SaveStep /\ UNCHANGED <<files, phase, saves>>

(* "cannot be encoded; save aborted". *)
AbortSave ==
  /\ phase = "saving" /\ save.n < Len(buf)
  /\ forced /\ ~Encodable(Piece(save.n))
  /\ phase' = "closing"
  /\ SaveStep /\ UNCHANGED <<files, save, saves>>

(* The writer is full. *)
FlushFull ==
  /\ phase = "saving" /\ save.buffered # << >>
  /\ WriteTo(save.path, save.buffered)
  /\ save' = [save EXCEPT !.buffered = << >>]
  /\ SaveStep /\ UNCHANGED <<phase, saves>>

(* Writing to the file fails partway, and the save returns. *)
FlushFails ==
  /\ phase = "saving"
  /\ \E k \in 0 .. Len(save.buffered) - 1 :
       /\ WriteTo(save.path, SubSeq(save.buffered, 1, k))
       /\ save' = [save EXCEPT !.buffered = SubSeq(@, k + 1, Len(@))]
  /\ phase' = "closing"
  /\ saves' = [saves EXCEPT ![save.path].failed = TRUE]
  /\ SaveStep

(* "saved to", printed before the writer is dropped. *)
ReportSaved ==
  /\ phase = "saving" /\ save.n = Len(buf)
  /\ save' = [save EXCEPT !.said = TRUE]
  /\ phase' = "closing"
  /\ SaveStep /\ UNCHANGED <<files, saves>>

(* What the writer flushes when it is dropped.  A bug to catch: it is      *)
(* taken apart instead.                                                    *)
Unflushed == << >>
OnDrop == save.buffered

(* The writer is dropped, and an error of its flush is not seen.           *)
Close ==
  /\ phase = "closing"
  /\ \E k \in 0 .. Len(OnDrop) :
       /\ WriteTo(save.path, SubSeq(OnDrop, 1, k))
       /\ saves' = [saves EXCEPT ![save.path].reported = save.said,
                                 ![save.path].failed = @ \/ k < Len(OnDrop)]
  /\ phase' = "editing"
  /\ save' = NoSave
  /\ SaveStep

(* q, the end of the commands, or the process is killed, with what the     *)
(* writer holds.                                                           *)
End ==
  /\ phase # "off"
  /\ phase' = "off"
  /\ buf' = << >> /\ past' = << >> /\ future' = << >>
  /\ save' = NoSave /\ fresh' = NoPath
  /\ UNCHANGED <<files, argVars, countVars, saves>>

Command ==
  \/ \E n \in 1 .. MaxLines :
       \/ DeleteCommand(n)
       \/ \E text \in Typed : InsertCommand(n, text) \/ ReplaceCommand(n, text)
  \/ UndoCommand \/ RedoCommand
  \/ \E p \in Paths : SaveCommand(p)

SaveNext ==
  \/ WriteLine \/ AbortSave \/ FlushFull \/ FlushFails \/ ReportSaved \/ Close

MNext ==
  \/ \E f \in Paths \cup {NoPath} : Start(f)
  \/ Command \/ SaveNext \/ End

MSpec == MInit /\ [][MNext]_mvars

-----------------------------------------------------------------------------
Versions == Range(past) \cup {buf} \cup Range(future)

(* No undecodable byte is ever in the buffer. *)
MTypeOK ==
  /\ DOMAIN files \subseteq Paths /\ Range(files) \subseteq Seq(Byte)
  /\ encoding \in Encodings \cup {NoEncoding} /\ ending \in Endings
  /\ phase \in {"off", "editing", "saving", "closing"}
  /\ Versions \subseteq Seq(Line)
  /\ save \in [path : Paths \cup {NoPath}, n : 0 .. Len(buf), buffered : Seq(Byte),
               said : BOOLEAN]
  /\ DOMAIN saves \subseteq DOMAIN files
  /\ Range(saves) \subseteq [lines : Seq(Line), text : Seq(Byte), from : Seq(Seq(Byte)),
                           reported : BOOLEAN, failed : BOOLEAN]
  /\ fresh \in Paths \cup {NoPath}

(***************************************************************************)
(* A file that was saved to holds a prefix of the text of the last save,   *)
(* whatever failed and whenever the editor was killed: never a mixture of  *)
(* an old text and a new one.  (medlin.rs:191-235)                         *)
(***************************************************************************)
NeverMixed == \A p \in DOMAIN saves : IsPrefix(files[p], saves[p].text)

(***************************************************************************)
(* When a save has printed "saved to" and returned, the whole text is in   *)
(* the file.  (medlin.rs:235)                                              *)
(***************************************************************************)
SavedMeansWritten ==
  \A p \in DOMAIN saves : saves[p].reported => files[p] = saves[p].text

(***************************************************************************)
(* The same if no write to the file failed during the save: the steps of   *)
(* save itself lose nothing.  (medlin.rs:198-236)                          *)
(***************************************************************************)
Written(p) == saves[p].reported /\ ~saves[p].failed
SavedUnlessDiskFails ==
  \A p \in DOMAIN saves : Written(p) => files[p] = saves[p].text

(***************************************************************************)
(* With a forced encoding, every line of the buffer and of every version   *)
(* undo and redo lead to can be written in it: "the buffer validator       *)
(* enforces that every line is representable in this encoding"             *)
(* (medlin.rs:97-98).                                                      *)
(***************************************************************************)
Representable == \A ls \in Versions : \A k \in DOMAIN ls : Encodable(ls[k])
AlwaysRepresentable == forced => Representable

(***************************************************************************)
(* The same of an encoding that has all of ASCII, the assumption the       *)
(* validator makes.  (medlin.rs:14-17)                                     *)
(***************************************************************************)
HasAscii == forced => \A c \in Ascii : Encoder[encoding][c] # Bad
AsciiRepresentable == forced /\ HasAscii => Representable

(* A line of which the encoding reads what it wrote.                       *)
Faithful(line) ==
  \A k \in DOMAIN line : Decoder[encoding][Encoder[encoding][line[k]]] = line[k]

(* The bytes of the first character are a byte order mark.                 *)
BeginsMarked(ls) ==
  ls # << >> /\ ls[1] # << >> /\ Encoder[encoding][ls[1][1]] \in DOMAIN Marks

(* The lines that come back, and when.                                     *)
Reloaded(ls) ==
  IF forced THEN IF BeginsMarked(ls) THEN [ls EXCEPT ![1] = Tail(@)] ELSE ls
  ELSE IF ls # << >> /\ Last(ls) = << >> THEN Front(ls) ELSE ls

Reloadable(ls) ==
  IF forced
    THEN /\ ending # <<CR>> /\ encoding \notin Wide
         /\ \A k \in DOMAIN ls :
              Faithful(ls[k]) /\ (ls[k] = << >> \/ Last(ls[k]) # CR)
         /\ BeginsMarked(ls) => Marks[Encoder[encoding][ls[1][1]]] = encoding
    ELSE \A k \in DOMAIN ls : Bare(ls[k])

(***************************************************************************)
(* A session that loads what an earlier one saved has the lines that were  *)
(* saved.  With a forced encoding, all of them but for a U+FEFF that the   *)
(* first begins with, unless lines end in CR or have characters that are   *)
(* encoded as others, the encoding is UTF-16, or the first line looks like *)
(* the byte order mark of another; without one, if no line contains a CR,  *)
(* all but an empty last line.  (medlin.rs:139-236)                        *)
(***************************************************************************)
ReloadShowsSaved ==
  fresh \in DOMAIN saves /\ Written(fresh) /\ Reloadable(saves[fresh].lines)
    => buf = Reloaded(saves[fresh].lines)

(* The lines of a file that has the bytes t, and those of them that the    *)
(* encoding can write.                                                     *)
LinesOnDisk(t) == IF forced THEN StrLines(Decoded(t)) ELSE LinesOf(Decoded(t))
Writable(ls) == IF forced THEN ItemsIn(ls, {l \in Range(ls) : Encodable(l)}) ELSE ls

(***************************************************************************)
(* When a file is loaded and saved unedited, the file written has the      *)
(* lines of the one loaded, wherever they are, without those that a forced *)
(* encoding cannot write and no others: of lines as ReloadShowsSaved has   *)
(* them, and an encoding that has all of ASCII.  (medlin.rs:148-230)       *)
(***************************************************************************)
UneditedSaveKeepsLines ==
  \A p \in DOMAIN saves : Written(p) /\ saves[p].from # << >> /\ HasAscii
    => LET ls == Writable(LinesOnDisk(saves[p].from[1]))
       IN  Reloadable(ls) => LinesOnDisk(files[p]) = Reloaded(ls)

(***************************************************************************)
(* "after a force-encoding save the output can be reloaded and re-saved    *)
(* without changing any bytes (idempotency)"                               *)
(* (tests/edlin_integration.rs:366-367)                                    *)
(***************************************************************************)
ForcedSaveIdempotent ==
  forced /\ fresh \in DOMAIN saves /\ Written(fresh)
    => WholeText = files[fresh]
=============================================================================
