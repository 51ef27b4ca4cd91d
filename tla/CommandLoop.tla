----------------------------- MODULE CommandLoop -----------------------------
(***************************************************************************)
(* The command loop of medlin.rs: which of the commands of Medlin.tla a    *)
(* line of the input is.  A line is a sequence of characters, as is a      *)
(* path; the input is the sequence of lines that the reader gives, and one *)
(* with Bad in it is a read error.                                         *)
(***************************************************************************)
EXTENDS Medlin

CONSTANTS Space, Tab,
          Digit,     \* the value of each digit
          UsizeMax,  \* the largest usize, which has 16 bits at least
          Scripts    \* the inputs there may be: BufRead::lines gives a line
                     \* without its LF

ASSUME LoopAssumption ==
  /\ {Space, Tab} \cup DOMAIN Digit \subseteq Ascii
  /\ Range(Digit) \subseteq 0 .. 9
  /\ UsizeMax \in Nat /\ UsizeMax > 99
  /\ Scripts \subseteq Seq(Seq(Byte \ {LF}))
  /\ Paths \subseteq Line

VARIABLES script,        \* the input, --input-file or stdin
          at,            \* the line to be read next
          file, output,  \* --file and --output
          shown          \* the lines of the buffer that a command printed

loopVars == <<script, at, file, output, shown>>
cmdVars == <<mvars, loopVars>>

LoopInit ==
  /\ MInit
  /\ script \in Scripts /\ at = 1
  /\ file \in Paths \cup {NoPath} /\ output \in Paths \cup {NoPath}
  /\ shown = << >>

-----------------------------------------------------------------------------
Blanks == {Space, Tab, CR, LF}
Letters == {"p", "l", "q", "i", "r", "d", "u", "e", "s"}

(* They are characters of their own.                                       *)
ASSUME SyntaxAssumption ==
  /\ Blanks \cap (Letters \cup DOMAIN Digit) = {}
  /\ "+" \notin DOMAIN Digit

Trimmed(s) == SubSeq(s, 1, Max({0} \cup {k \in DOMAIN s : s[k] \notin Blanks}))

(* One step of splitn: s at its first space.                               *)
FirstSpace(s) == SelectInSeq(s, LAMBDA c : c = Space)
Cut(s) ==
  LET b == FirstSpace(s)
  IN  IF b = 0 THEN <<s>> ELSE <<SubSeq(s, 1, b - 1), SubSeq(s, b + 1, Len(s))>>

(* The command, its argument, and the rest of the line.                    *)
Parts(s) == LET c == Cut(s) IN IF Len(c) = 1 THEN c ELSE <<c[1]>> \o Cut(c[2])
TextOf(parts) == IF Len(parts) = 3 THEN parts[3] ELSE << >>

Parsed == [line \in UNION {Range(s) : s \in Scripts} |-> Parts(Trimmed(line))]

(* str::parse::<usize>. *)
Digits(token) == IF token # << >> /\ Head(token) = "+" THEN Tail(token) ELSE token
Number(ds) ==
  LET upTo[k \in 0 .. Len(ds)] ==
        IF k = 0 THEN 0 ELSE 10 * upTo[k - 1] + Digit[ds[k]]
  IN  upTo[Len(ds)]

(* parse_line_number: the 0-based index.  A bug to catch: the 1 is not     *)
(* subtracted.                                                             *)
Indexed(parts) ==
  /\ Len(parts) > 1
  /\ LET ds == Digits(parts[2])
     IN  ds # << >> /\ Over(ds, DOMAIN Digit) /\ Number(ds) \in 1 .. UsizeMax
IndexOneBased(token) == Number(Digits(token))
Index(token) == Number(Digits(token)) - 1

-----------------------------------------------------------------------------
(* What a command does to the buffer, the files and the session; n is the  *)
(* index of its line, counted from 1 as Medlin does.                       *)
Nothing == UNCHANGED mvars
Quiet == shown' = << >>

(* A bug to catch: a number past the end is taken for the last line's.     *)
WithLineClamped(parts) == Min({Index(parts[2]) + 1, Len(buf)})
WithLine(parts) == Index(parts[2]) + 1
OnLine(parts) == Indexed(parts) /\ WithLine(parts) \in DOMAIN buf

Show(parts) ==
  /\ shown' = IF OnLine(parts) THEN <<buf[WithLine(parts)]>> ELSE << >>
  /\ Nothing

Insert(parts) ==
  IF Indexed(parts) /\ Accepted(TextOf(parts))
    THEN InsertCommand(WithLine(parts), TextOf(parts)) ELSE Nothing

Replace(parts) ==
  IF OnLine(parts) /\ Accepted(TextOf(parts))
    THEN ReplaceCommand(WithLine(parts), TextOf(parts)) ELSE Nothing

Delete(parts) ==
  IF OnLine(parts) THEN DeleteCommand(WithLine(parts)) ELSE Nothing

(* The default output.  A bug to catch: --file is preferred.               *)
FileFirst == IF file # NoPath THEN file ELSE output
DefaultOutput == IF output # NoPath THEN output ELSE file

(* The file may not be one that can be created.                            *)
Save(parts) ==
  LET path == IF Len(parts) > 1 THEN parts[2] ELSE DefaultOutput
  IN  Nothing \/ (path \in Paths /\ SaveCommand(path))

(* dispatch, of the parts of a line. *)
Dispatch(parts) ==
  LET Is(c) == parts[1] = <<c>>
  IN  \/ Is("p") /\ Show(parts)
      \/ Is("l") /\ shown' = buf /\ Nothing
      \/ /\ Quiet
         /\ \/ Is("q") /\ End
            \/ Is("i") /\ Insert(parts)
            \/ Is("r") /\ Replace(parts)
            \/ Is("d") /\ Delete(parts)
            \/ Is("u") /\ IF past # << >> THEN UndoCommand ELSE Nothing
            \/ Is("e") /\ IF future # << >> THEN RedoCommand ELSE Nothing
            \/ Is("s") /\ Save(parts)
            \/ (\A c \in Letters : ~Is(c)) /\ Nothing

-----------------------------------------------------------------------------
(* main, up to the loop. *)
Boot ==
  /\ Start(file)
  /\ UNCHANGED loopVars

Reading == phase = "editing" /\ at \in DOMAIN script
Readable == Over(script[at], Char)

DispatchLine ==
  /\ Reading /\ Readable
  /\ at' = at + 1
  /\ Dispatch(Parsed[script[at]])
  /\ UNCHANGED <<script, file, output>>

(* A read error ends the loop.  A bug to catch: it is ignored, and the     *)
(* next read fails as well.                                                *)
KeepReading == UNCHANGED mvars
AfterReadError == End
ReadError == Reading /\ ~Readable /\ AfterReadError /\ UNCHANGED loopVars

EndOfInput ==
  phase = "editing" /\ at \notin DOMAIN script /\ End /\ UNCHANGED loopVars

Saving == SaveNext /\ UNCHANGED loopVars

Killed == End /\ UNCHANGED loopVars

RunLoop == DispatchLine \/ ReadError \/ EndOfInput \/ Saving

LoopNext == Boot \/ RunLoop \/ Killed

(* The loop goes on: reads and writes return.                              *)
LoopSpec == LoopInit /\ [][LoopNext]_cmdVars /\ WF_cmdVars(RunLoop)

-----------------------------------------------------------------------------
(* How commands are typed; what may follow: nothing, or blanks.            *)
Numeral(n) ==
  LET D(v) == CHOOSE d \in DOMAIN Digit : Digit[d] = v
  IN  IF n < 10 THEN <<D(n)>> ELSE <<D(n \div 10), D(n % 10)>>

OneLine(c, n) == <<c, Space>> \o Numeral(n)
OneText(c, n, text) == OneLine(c, n) \o <<Space>> \o text
Types(line, s) ==
  IsPrefix(s, line) /\ \A k \in Len(s) + 1 .. Len(line) : line[k] \in Blanks

(* A text that ends in blanks loses them. *)
TypedWhole == {text \in Typed : text = << >> \/ Last(text) \notin Blanks}

Numerable == {n \in 1 .. 99 : {n \div 10, n % 10} \subseteq Range(Digit)}
AtEnd(n) == IF n > Len(buf) THEN Len(buf) + 1 ELSE n
Kept(S) == \A k \in S : k \in DOMAIN buf' /\ buf'[k] = buf[k]

(***************************************************************************)
(* Line N of a command is the N-th line that l lists, and the text of a    *)
(* line typed is what follows one space after N, its own spaces included:  *)
(* i N makes it line N, or the last one; r N puts it in the place of line  *)
(* N alone; d N removes just line N; p N prints it.                        *)
(* (medlin.rs:106-118, 255-336)                                            *)
(***************************************************************************)
TypedCommand(line) ==
  /\ \A n \in Numerable, text \in TypedWhole :
       /\ Types(line, OneText("i", n, text)) /\ Accepted(text)
            => /\ AtEnd(n) \in DOMAIN buf' /\ buf'[AtEnd(n)] = text
               /\ RemoveAt(buf', AtEnd(n)) = buf
       /\ Types(line, OneText("r", n, text)) /\ Accepted(text) /\ n \in DOMAIN buf
            => /\ Len(buf') = Len(buf) /\ buf'[n] = text
               /\ Kept(DOMAIN buf \ {n})
  /\ \A n \in Numerable \cap DOMAIN buf :
       /\ Types(line, OneLine("d", n)) => InsertAt(buf', n, buf[n]) = buf
       /\ Types(line, OneLine("p", n)) => shown' = <<buf[n]>>
ActsAsTyped == [][at' = at + 1 => TypedCommand(script[at])]_cmdVars

(* The word at the third character of a line is the number n.              *)
Says(line, n) ==
  \E m \in 3 .. Len(line) :
    /\ m = Len(line) \/ line[m + 1] \in Blanks
    /\ LET ds == Digits(SubSeq(line, 3, m))
       IN  ds # << >> /\ Over(ds, DOMAIN Digit) /\ Number(ds) = n

(* No line but the n-th is inserted, replaced or deleted.                  *)
EditsLine(c, n) ==
  \/ c = "i" /\ RemoveAt(buf', AtEnd(n)) = buf
  \/ c = "r" /\ n \in DOMAIN buf /\ Len(buf') = Len(buf) /\ Kept(DOMAIN buf \ {n})
  \/ c = "d" /\ n \in DOMAIN buf /\ InsertAt(buf', n, buf[n]) = buf

(***************************************************************************)
(* Nothing else edits the buffer: a line that does is an undo or a redo,   *)
(* or i, r or d, one space and a whole word that is a number from 1 to     *)
(* usize::MAX, and that line is the one it edits, which r and d must find  *)
(* in the buffer.  A missing number, 0, one that overflows or is past the  *)
(* end, or anything but a number edits nothing.  (medlin.rs:238-364)       *)
(***************************************************************************)
EditsOnlyAsTyped ==
  [][phase' = phase /\ buf' # buf
       => LET line == script[at]
          IN  \/ line[1] \in {"u", "e"} /\ (Len(line) = 1 \/ line[2] \in Blanks)
              \/ /\ line[2] = Space
                 /\ \E n \in 1 .. UsizeMax : Says(line, n) /\ EditsLine(line[1], n)]_cmdVars

(***************************************************************************)
(* Only files that were named change: --output, or --file where it is not  *)
(* given ("saves go here regardless of --file", medlin.rs:83-85), and the  *)
(* first word after s, of a path with spaces that word only.               *)
(* (medlin.rs:350-359, 417)                                                *)
(***************************************************************************)
NamedBy(line) ==
  {p \in Paths : /\ IsPrefix(<<"s", Space>> \o p, line)
                 /\ \/ Len(line) = Len(p) + 2
                    \/ line[Len(p) + 3] \in Blanks}
Named == {output} \cup (IF output = NoPath THEN {file} ELSE {})
           \cup UNION {NamedBy(script[k]) : k \in 1 .. at - 1}
Content(p) == {files[q] : q \in {p} \cap DOMAIN files}
OnlyNamedFilesChange ==
  [][\A p \in Paths : Content(p)' # Content(p) => p \in Named']_cmdVars

(***************************************************************************)
(* A session ends, after the last line of its input at the latest,         *)
(* whatever its lines are and whatever fails.  (medlin.rs:370-384)         *)
(***************************************************************************)
SessionEnds == phase # "off" ~> phase = "off"
=============================================================================
