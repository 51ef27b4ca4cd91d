----------------------------- MODULE RoundTrip -----------------------------
(***************************************************************************)
(* What comes back when a buffer is written by write_lines and the bytes   *)
(* are loaded by from_reader (line_buffer.rs:143-158 and 204-213): all     *)
(* bytes are read, in pieces of any size, decoded as a whole and split.    *)
(* A reader may also give bytes that no buffer wrote.                      *)
(***************************************************************************)
EXTENDS LineEndings

CONSTANTS Buffers,  \* the lines a buffer may hold when it is written
          Files,    \* other byte sequences that may be read
          NoBuffer  \* the bytes were not written by a buffer

ASSUME BuffersAssumption == Buffers \subseteq Seq(Seq(Byte))
ASSUME FilesAssumption == Files \subseteq Seq(Byte)

VARIABLES given,     \* the lines that were written, or NoBuffer
          ending,    \* the line ending they were written with
          incoming,  \* what the reader has not given yet
          bytes,     \* what read_to_end has collected
          stage      \* "reading", "splitting", "failed"

readVars == <<incoming, bytes, stage>>
rvars == <<splitVars, given, ending, readVars>>

RoundTripInit ==
  /\ \/ /\ given \in Buffers /\ ending \in Endings
        /\ incoming = Rendered(given, ending)
     \/ given = NoBuffer /\ ending = << >> /\ incoming \in Files
  /\ bytes = << >> /\ stage = "reading"
  /\ SplitOf(<< >>)

(* One read of read_to_end. *)
ReadBytes ==
  /\ stage = "reading"
  /\ \E k \in 1 .. Len(incoming) :
       /\ bytes' = bytes \o SubSeq(incoming, 1, k)
       /\ incoming' = SubSeq(incoming, k + 1, Len(incoming))
  /\ UNCHANGED <<splitVars, stage>>

ReadFails ==
  /\ stage = "reading"
  /\ stage' = "failed"
  /\ UNCHANGED <<splitVars, incoming, bytes>>

(* When the bytes are decoded.  A bug to catch: after each read. *)
AfterEachRead == bytes # << >>
EndOfFile == incoming = << >>

(* from_utf8.  A bug to catch: from_utf8_unchecked. *)
Unchecked == TRUE
Decodes == Utf8(bytes)

Decode ==
  /\ stage = "reading" /\ EndOfFile
  /\ IF Decodes THEN s' = bytes /\ stage' = "splitting"
                ELSE s' = s /\ stage' = "failed"
  /\ UNCHANGED <<i, start, lines, done, incoming, bytes>>

(* from_str. *)
Split ==
  /\ stage = "splitting"
  /\ SplitNext
  /\ UNCHANGED readVars

RNext == (ReadBytes \/ ReadFails \/ Decode \/ Split) /\ UNCHANGED <<given, ending>>

RoundTripSpec == RoundTripInit /\ [][RNext]_rvars /\ WF_rvars(RNext)

-----------------------------------------------------------------------------
(***************************************************************************)
(* Lines without terminator bytes come back as they were written, whatever *)
(* the ending and however the bytes are cut when they are read, except     *)
(* that a last line that is empty is lost.                                 *)
(***************************************************************************)
RoundTripLaw ==
  done /\ given # NoBuffer /\ (\A k \in DOMAIN given : Bare(given[k])) =>
    lines = IF given # << >> /\ Last(given) = << >> THEN Front(given) ELSE given

(* The lines that are not empty. *)
HasText(line) == line # << >>
WithText(ls) == SelectSeq(ls, HasText)

(***************************************************************************)
(* Any content may be inserted as a line, terminators in it too            *)
(* (branch.rs:121-128).  Written and loaded again, such a line falls apart *)
(* at its own terminators and nowhere else: no text is lost or moves to    *)
(* another line, and no two lines become one, even when a CR at the end of *)
(* one meets the LF that is written after it.                              *)
(***************************************************************************)
TextComesBack ==
  done /\ given # NoBuffer =>
    WithText(lines) =
      FlattenSeq([k \in DOMAIN given |-> WithText(LinesOf(given[k]))])

(* Every load returns, with a buffer or an error. *)
Returns == <>(done \/ stage = "failed")
=============================================================================
