-------------------------- MODULE BranchHistory --------------------------
(***************************************************************************)
(* The branches of Branch.tla with a record of every version they went     *)
(* through.  The code keeps no versions: undo and redo rebuild them from   *)
(* edits of one line each (branch.rs:195-241).  past and future are        *)
(* history variables, read by no action of Branch; they let us say that    *)
(* the rebuilt versions are the ones that existed, and they are the        *)
(* witnesses of the refinement of UndoHistory.                             *)
(***************************************************************************)
EXTENDS Branch

VARIABLES past,    \* branch -> the versions before each edit of undo_stack
          future   \* branch -> the versions after each edit of redo_stack

hvars == <<vars, past, future>>

HInit ==
  /\ Init
  /\ past = [b \in Branches |-> << >>]
  /\ future = [b \in Branches |-> << >>]

HStart(b) ==
  /\ New(b) \/ \E parent \in Branches : Fork(parent, b)
  /\ past' = [past EXCEPT ![b] = << >>]
  /\ future' = [future EXCEPT ![b] = << >>]

HEdit(b) ==
  /\ Edit(b)
  /\ past' = [past EXCEPT ![b] = Append(@, lines[b])]
  /\ future' = [future EXCEPT ![b] = << >>]

HUndo(b) ==
  /\ Undo(b)
  /\ past' = [past EXCEPT ![b] = Front(@)]
  /\ future' = [future EXCEPT ![b] = Append(@, lines[b])]

HRedo(b) ==
  /\ Redo(b)
  /\ past' = [past EXCEPT ![b] = Append(@, lines[b])]
  /\ future' = [future EXCEPT ![b] = Front(@)]

HNext == \E b \in Branches : HStart(b) \/ HEdit(b) \/ HUndo(b) \/ HRedo(b)

HSpec == HInit /\ [][HNext]_hvars

-----------------------------------------------------------------------------
(* e is the edit between the versions v and w, in both directions, and its *)
(* indices are in range in both.                                           *)
Links(e, v, w) ==
  /\ CanRedo(v, e) /\ w = Redone(v, e)
  /\ CanUndo(w, e) /\ v = Undone(w, e)

(* The version that follows the k-th one of a stack of versions.           *)
After(versions, k, now) == IF k = Len(versions) THEN now ELSE versions[k + 1]

UndoLinked(edits, versions, now) ==
  /\ Len(edits) = Len(versions)
  /\ \A k \in 1 .. Len(versions) :
       Links(edits[k], versions[k], After(versions, k, now))

RedoLinked(edits, versions, now) ==
  /\ Len(edits) = Len(versions)
  /\ \A k \in 1 .. Len(versions) :
       Links(edits[k], After(versions, k, now), versions[k])

HTypeOK ==
  /\ TypeOK
  /\ past \in [Branches -> Seq(Seq(GreenLineId))]
  /\ future \in [Branches -> Seq(Seq(GreenLineId))]

(***************************************************************************)
(* The undo stack leads back through every version the branch had before   *)
(* its edits: each entry links two consecutive versions, the last one      *)
(* being the current lines.  (undo, branch.rs:195)                         *)
(***************************************************************************)
UndoChain ==
  \A b \in Branches : UndoLinked(undo_stack[b], past[b], lines[b])

(***************************************************************************)
(* The redo stack leads forward through every version that was undone, and *)
(* starts at the current lines: no entry survives an edit that would make  *)
(* it apply to another text.  (redo, branch.rs:221; clear at 131, 171, 186)*)
(***************************************************************************)
RedoChain ==
  \A b \in Branches : RedoLinked(redo_stack[b], future[b], lines[b])

(* What every step of every branch keeps. *)
HInv == HTypeOK /\ UndoChain /\ RedoChain

-----------------------------------------------------------------------------
(* What a reader sees of a version, line by line through the pool          *)
(* (get_line, branch.rs:91).                                               *)
Text(p, v) == [i \in DOMAIN v |-> Get(p, v[i])]
Texts(p, versions) == [k \in DOMAIN versions |-> Text(p, versions[k])]

Promise ==
  INSTANCE UndoHistory WITH
    present <- [b \in Branches |-> Text(pool, lines[b])],
    past <- [b \in Branches |-> Texts(pool, past[b])],
    future <- [b \in Branches |-> Texts(pool, future[b])]

(***************************************************************************)
(* The branches implement the undo history of whole texts: whatever else   *)
(* is interned in the shared pool and whatever other branches do, an undo  *)
(* shows the text before the last edit and a redo the text undone, and a   *)
(* fork starts on its parent's text and is touched by no one else.         *)
(***************************************************************************)
ImplementsUndoHistory == Promise!Spec
=============================================================================
