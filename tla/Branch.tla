------------------------------ MODULE Branch ------------------------------
(***************************************************************************)
(* The versioned line sequences of branch.rs: every branch holds a vector  *)
(* of line ids and two stacks of edits, and all the branches share one     *)
(* GreenPool.  A branch is owned by one caller (`&mut self`), and the pool *)
(* is touched once per edit, under its lock, so that an edit is one step   *)
(* of its branch.  Positions are 0-based, as in the code.                  *)
(*                                                                         *)
(* A call that returns Err or false leaves everything as it was: it is a   *)
(* stuttering step, and its condition is the negation of a guard below.    *)
(***************************************************************************)
EXTENDS GreenPool, SequencesExt

CONSTANTS Branches,    \* names for the branches that may exist
          Validators,  \* what a validator accepts; Content for "no validator"
          MaxLines,    \* bound: lines in a branch
          MaxHistory   \* bound: edits on an undo stack

ASSUME ValidatorsAssumption == Validators \subseteq SUBSET Content
ASSUME BoundsAssumption == MaxLines \in Nat /\ MaxHistory \in Nat

VARIABLES live,        \* the branches that exist
          lines,       \* branch -> Vec<GreenLineId>
          undo_stack,  \* branch -> Vec<BranchEdit>, the most recent one last
          redo_stack   \* branch -> Vec<BranchEdit>, the next one to redo last

branchVars == <<live, lines, undo_stack, redo_stack>>
vars == <<pool, branchVars>>

(* The edits.  A Delete keeps the id it removed and a Replace the one it   *)
(* overwrote, which is all an undo needs.                                  *)
InsertEdit(at, id) == [kind |-> "Insert", at |-> at, id |-> id]
DeleteEdit(at, id) == [kind |-> "Delete", at |-> at, id |-> id]
ReplaceEdit(at, old_id, new_id) ==
  [kind |-> "Replace", at |-> at, old_id |-> old_id, new_id |-> new_id]

BranchEdit ==
  [kind : {"Insert", "Delete"}, at : Nat, id : GreenLineId]
    \cup [kind : {"Replace"}, at : Nat, old_id : GreenLineId, new_id : GreenLineId]

(* Vec::insert and Vec::remove, which panic outside of these bounds, and   *)
(* assignment to an element.                                               *)
VecInsert(v, at, id) == InsertAt(v, at + 1, id)
VecRemove(v, at) == RemoveAt(v, at + 1)
VecSet(v, at, id) == [v EXCEPT ![at + 1] = id]

(* The lines after an edit is redone, and after it is undone.              *)
Redone(v, e) ==
  CASE e.kind = "Insert" -> VecInsert(v, e.at, e.id)
    [] e.kind = "Delete" -> VecRemove(v, e.at)
    [] e.kind = "Replace" -> VecSet(v, e.at, e.new_id)
Undone(v, e) ==
  CASE e.kind = "Insert" -> VecRemove(v, e.at)
    [] e.kind = "Delete" -> VecInsert(v, e.at, e.id)
    [] e.kind = "Replace" -> VecSet(v, e.at, e.old_id)

(* The vector operation does not panic. *)
CanRedo(v, e) == IF e.kind = "Insert" THEN e.at <= Len(v) ELSE e.at < Len(v)
CanUndo(v, e) == IF e.kind = "Delete" THEN e.at <= Len(v) ELSE e.at < Len(v)

-----------------------------------------------------------------------------
Init ==
  /\ PoolInit
  /\ live = {}
  /\ lines = [b \in Branches |-> << >>]
  /\ undo_stack = [b \in Branches |-> << >>]
  /\ redo_stack = [b \in Branches |-> << >>]

(* Branch::new: an empty branch on the shared pool. *)
New(b) ==
  /\ b \notin live
  /\ live' = live \cup {b}
  /\ lines' = [lines EXCEPT ![b] = << >>]
  /\ undo_stack' = [undo_stack EXCEPT ![b] = << >>]
  /\ redo_stack' = [redo_stack EXCEPT ![b] = << >>]
  /\ UNCHANGED pool

(* redo_stack.clear().  A bug to catch: what was undone can still be       *)
(* redone.                                                                 *)
RedoKept(b) == redo_stack[b]
RedoAfterEdit(b) == << >>

(* An accepted edit is recorded, and ends what could be redone. *)
Record(b, e) ==
  /\ Len(undo_stack[b]) < MaxHistory
  /\ undo_stack' = [undo_stack EXCEPT ![b] = Append(@, e)]
  /\ redo_stack' = [redo_stack EXCEPT ![b] = RedoAfterEdit(b)]

InsertLine(b, n, s, validator) ==
  /\ b \in live
  /\ n <= Len(lines[b])
  /\ s \in validator
  /\ Len(lines[b]) < MaxLines
  /\ Intern(s)
  /\ LET id == IdOf(pool, s)
     IN  /\ lines' = [lines EXCEPT ![b] = VecInsert(@, n, id)]
         /\ Record(b, InsertEdit(n, id))
  /\ UNCHANGED live

(* The id that a replacement overwrites.  A bug to catch: it is read after *)
(* it was overwritten.                                                     *)
OldIdReadLate(b, n) == lines'[b][n + 1]
OldId(b, n) == lines[b][n + 1]

(* Replacing a line by its own content is recorded like any other edit. *)
ReplaceLine(b, n, s, validator) ==
  /\ b \in live
  /\ n < Len(lines[b])
  /\ s \in validator
  /\ Intern(s)
  /\ LET new_id == IdOf(pool, s)
     IN  /\ lines' = [lines EXCEPT ![b] = VecSet(@, n, new_id)]
         /\ Record(b, ReplaceEdit(n, OldId(b, n), new_id))
  /\ UNCHANGED live

DeleteLine(b, n) ==
  /\ b \in live
  /\ n < Len(lines[b])
  /\ lines' = [lines EXCEPT ![b] = VecRemove(@, n)]
  /\ Record(b, DeleteEdit(n, lines[b][n + 1]))
  /\ UNCHANGED <<pool, live>>

Undo(b) ==
  /\ b \in live
  /\ undo_stack[b] # << >>
  /\ LET edit == Last(undo_stack[b])
     IN  /\ lines' = [lines EXCEPT ![b] = Undone(@, edit)]
         /\ redo_stack' = [redo_stack EXCEPT ![b] = Append(@, edit)]
  /\ undo_stack' = [undo_stack EXCEPT ![b] = Front(@)]
  /\ UNCHANGED <<pool, live>>

Redo(b) ==
  /\ b \in live
  /\ redo_stack[b] # << >>
  /\ LET edit == Last(redo_stack[b])
     IN  /\ lines' = [lines EXCEPT ![b] = Redone(@, edit)]
         /\ undo_stack' = [undo_stack EXCEPT ![b] = Append(@, edit)]
  /\ redo_stack' = [redo_stack EXCEPT ![b] = Front(@)]
  /\ UNCHANGED <<pool, live>>

(* fork: the lines of b, with a history of its own that starts here. *)
Fork(b, c) ==
  /\ b \in live /\ c \notin live
  /\ live' = live \cup {c}
  /\ lines' = [lines EXCEPT ![c] = lines[b]]
  /\ undo_stack' = [undo_stack EXCEPT ![c] = << >>]
  /\ redo_stack' = [redo_stack EXCEPT ![c] = << >>]
  /\ UNCHANGED pool

Edit(b) ==
  \/ \E n \in 0 .. MaxLines, s \in Content, v \in Validators :
       InsertLine(b, n, s, v) \/ ReplaceLine(b, n, s, v)
  \/ \E n \in 0 .. MaxLines : DeleteLine(b, n)

Next ==
  \E b \in Branches :
    \/ New(b)
    \/ Edit(b)
    \/ Undo(b)
    \/ Redo(b)
    \/ \E c \in Branches : Fork(b, c)

Spec == Init /\ [][Next]_vars

-----------------------------------------------------------------------------
TypeOK ==
  /\ PoolTypeOK
  /\ live \subseteq Branches
  /\ lines \in [Branches -> Seq(GreenLineId)]
  /\ undo_stack \in [Branches -> Seq(BranchEdit)]
  /\ redo_stack \in [Branches -> Seq(BranchEdit)]

(***************************************************************************)
(* No undo or redo reaches past the end of the lines: the indexing         *)
(* operations at branch.rs:201-209 and 227-235, which carry no check of    *)
(* their own, never panic, after any sequence of edits on any branch.      *)
(***************************************************************************)
NoIndexPanic ==
  \A b \in live :
    /\ undo_stack[b] # << >> => CanUndo(lines[b], Last(undo_stack[b]))
    /\ redo_stack[b] # << >> => CanRedo(lines[b], Last(redo_stack[b]))

IdsOf(e) == IF e.kind = "Replace" THEN {e.old_id, e.new_id} ELSE {e.id}

(* Every id a branch can still put in front of a reader, be it current or  *)
(* waiting on a stack.                                                     *)
ReachableIds(b) ==
  Range(lines[b])
    \cup UNION {IdsOf(e) : e \in Range(undo_stack[b]) \cup Range(redo_stack[b])}

(* No id a branch shows now, or would show after undos or redos, makes     *)
(* GreenPool::get panic (green.rs:183), though the branch never asks the   *)
(* pool whether it knows the id.                                           *)
NoDanglingId == \A b \in live : \A id \in ReachableIds(b) : CanGet(pool, id)
=============================================================================
