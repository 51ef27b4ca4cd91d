---------------------------- MODULE LineBuffer ----------------------------
(***************************************************************************)
(* A LineBuffer: it loads its root branch line by line (from_source and    *)
(* from_str, line_buffer.rs:48 and 176), applies the validator it was      *)
(* built with to every later edit of the root, and hands out forks, which  *)
(* share the pool but not the validator.                                   *)
(***************************************************************************)
EXTENDS Branch

CONSTANTS Root,     \* the branch the buffer owns
          NonAscii, \* the contents with a character above U+007F
          Rejects,  \* those that a validator of the caller's rejects
          Sources,  \* the line sequences it may be loaded from
          NoError

ASSUME RootAssumption == Root \in Branches
ASSUME RejectsAssumption == NonAscii \subseteq Content /\ Rejects \subseteq Content
ASSUME SourcesAssumption == Sources \subseteq Seq(Content)

(* EncodingValidator: a pure function, so that a validator is the set of   *)
(* contents it accepts; without one everything is accepted, as by the      *)
(* Utf8Validator.                                                          *)
Utf8Validator == Content
AsciiValidator == Content \ NonAscii

(* One that the caller supplies: any set.                                  *)
CallerValidator == Content \ Rejects

EncodingValidators == {Utf8Validator, AsciiValidator, CallerValidator}

(* The error made of a line, without its description.                      *)
EncodingError(line) == [line |-> line]

ASSUME NoErrorAssumption == \A line \in Content : NoError # EncodingError(line)

VARIABLES validator, \* the buffer's
          phase,     \* the function that loads, or "open" or "rejected"
          src,       \* the source
          loaded,    \* how many of its lines were looked at
          error      \* the EncodingError of the load, or NoError

loadVars == <<validator, phase, src, loaded, error>>
lvars == <<vars, loadVars>>

Loaders == {"from_source", "from_str"}

LInit ==
  /\ Init
  /\ phase \in Loaders /\ loaded = 0 /\ error = NoError
  /\ src \in Sources
  /\ validator \in EncodingValidators

(* A LineSource: for_each_line calls back with each line, in order.        *)
Offers == phase \in Loaders /\ loaded < Len(src)
Offered == src[loaded + 1]

(* from_source cannot stop the source, which goes on calling: from the     *)
(* first error on it does nothing.  A bug to catch: it is not remembered.  *)
NotRemembered == FALSE
Ignores == error # NoError

(* Loading leaves nothing to undo.  A bug to catch: it uses insert_line.   *)
LoadRecorded(id) ==
  [undo_stack EXCEPT ![Root] = Append(@, InsertEdit(Len(lines[Root]), id))]
LoadHistory(id) == undo_stack

AcceptLine(line) ==
  /\ Intern(line)
  /\ LET id == IdOf(pool, line)
     IN  /\ lines' = [lines EXCEPT ![Root] = Append(@, id)]
         /\ undo_stack' = LoadHistory(id)
  /\ UNCHANGED <<phase, error>>

(* What the function returns: the buffer, or nothing of what it built.     *)
ReturnBuffer == phase' = "open" /\ live' = {Root} /\ UNCHANGED <<pool, lines>>
ReturnError ==
  /\ phase' = "rejected"
  /\ pool' = EmptyPool /\ lines' = [lines EXCEPT ![Root] = << >>]

(* from_str returns at once. *)
RejectLine(line) ==
  /\ error' = EncodingError(line)
  /\ IF phase = "from_str" THEN ReturnError ELSE UNCHANGED <<phase, pool, lines>>
  /\ UNCHANGED undo_stack

LoadLine ==
  /\ Offers
  /\ LET line == Offered
     IN  IF Ignores THEN UNCHANGED <<pool, lines, undo_stack, phase, error>>
         ELSE IF line \in validator THEN AcceptLine(line)
         ELSE RejectLine(line)
  /\ loaded' = loaded + 1
  /\ UNCHANGED <<live, redo_stack, validator, src>>

(* The end of the source. *)
Open ==
  /\ phase \in Loaders /\ loaded = Len(src)
  /\ IF error = NoError THEN ReturnBuffer ELSE ReturnError /\ UNCHANGED live
  /\ UNCHANGED <<undo_stack, redo_stack, validator, src, loaded, error>>

(* The validator of the root.  A bug to catch: a line the pool knows is    *)
(* taken to be valid.                                                      *)
AcceptsKnown == validator \cup DOMAIN pool.index
RootValidator == validator

(* insert_line and replace_line of the buffer. *)
RootEdit ==
  \E n \in 0 .. MaxLines, s \in Content :
    InsertLine(Root, n, s, RootValidator) \/ ReplaceLine(Root, n, s, RootValidator)

RootStep ==
  RootEdit \/ (\E n \in 0 .. MaxLines : DeleteLine(Root, n)) \/ Undo(Root) \/ Redo(Root)

(* A fork is edited with the validator its user passes, or with none. *)
ForkStep(b) ==
  \/ \E parent \in Branches : Fork(parent, b)
  \/ b # Root /\ (Edit(b) \/ Undo(b) \/ Redo(b))

LNext ==
  \/ LoadLine
  \/ Open
  \/ /\ phase = "open"
     /\ RootStep \/ \E b \in Branches : ForkStep(b)
     /\ UNCHANGED loadVars

LSpec == LInit /\ [][LNext]_lvars

-----------------------------------------------------------------------------
(***************************************************************************)
(* Every line the root shows, or would show after undos and redos, is one  *)
(* its validator accepts, though the pool it shares holds lines that forks *)
(* interned without it.  (line_buffer.rs:16-17; "Undo/redo stacks remain   *)
(* clean", src/README.md:44)                                               *)
(***************************************************************************)
RootAccepted ==
  \A id \in ReachableIds(Root) : CanGet(pool, id) /\ Get(pool, id) \in validator

(***************************************************************************)
(* Undoing everything leads back to the text that was loaded, the whole    *)
(* source and no less, and no further.  (line_buffer.rs:43-47)             *)
(***************************************************************************)
UndoStopsAtLoad ==
  phase = "open" /\ undo_stack[Root] = << >> =>
    [k \in DOMAIN lines[Root] |-> Get(pool, lines[Root][k])] = src

(***************************************************************************)
(* A load fails exactly if some line is rejected, and reports the first    *)
(* one, whatever the source offers after it.  ("Returns Err on the first   *)
(* validation failure; no partial state is retained", line_buffer.rs:46-47)*)
(***************************************************************************)
FirstErrorReported ==
  /\ phase = "open" => \A k \in DOMAIN src : src[k] \in validator
  /\ phase = "rejected" =>
       \E k \in DOMAIN src :
         /\ src[k] \notin validator /\ error.line = src[k]
         /\ \A j \in 1 .. k - 1 : src[j] \in validator
=============================================================================
