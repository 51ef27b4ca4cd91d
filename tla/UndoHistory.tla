--------------------------- MODULE UndoHistory ---------------------------
(***************************************************************************)
(* What a branch promises, without ids, pool or edit stacks: each branch   *)
(* has a present text and remembers whole texts, the versions an undo goes *)
(* back to and the versions a redo returns to.  A text is the sequence of  *)
(* the contents of its lines.  (doc comments of branch.rs:57-61, 190-194,  *)
(* 217-220, 243-247)                                                       *)
(***************************************************************************)
EXTENDS Naturals, SequencesExt

CONSTANTS Content, Branches

VARIABLES live,     \* the branches that exist
          past,     \* branch -> texts to undo to, the latest one last
          present,  \* branch -> the text a reader sees
          future    \* branch -> texts to redo to, the next one last

vars == <<live, past, present, future>>

Init ==
  /\ live = {}
  /\ past = [b \in Branches |-> << >>]
  /\ present = [b \in Branches |-> << >>]
  /\ future = [b \in Branches |-> << >>]

(* A branch starts with no history, on some text. *)
Start(b, t) ==
  /\ b \notin live
  /\ live' = live \cup {b}
  /\ present' = [present EXCEPT ![b] = t]
  /\ past' = [past EXCEPT ![b] = << >>]
  /\ future' = [future EXCEPT ![b] = << >>]

(* A new present; what was undone before is forgotten. *)
Edit(b, t) ==
  /\ b \in live
  /\ present' = [present EXCEPT ![b] = t]
  /\ past' = [past EXCEPT ![b] = Append(@, present[b])]
  /\ future' = [future EXCEPT ![b] = << >>]
  /\ UNCHANGED live

(* Every edit inserts, replaces or deletes one line. *)
EditLine(b) ==
  \/ \E i \in 1 .. Len(present[b]) + 1, s \in Content :
       Edit(b, InsertAt(present[b], i, s))
  \/ \E i \in 1 .. Len(present[b]), s \in Content :
       Edit(b, [present[b] EXCEPT ![i] = s])
  \/ \E i \in 1 .. Len(present[b]) : Edit(b, RemoveAt(present[b], i))

Undo(b) ==
  /\ b \in live
  /\ past[b] # << >>
  /\ present' = [present EXCEPT ![b] = Last(past[b])]
  /\ past' = [past EXCEPT ![b] = Front(@)]
  /\ future' = [future EXCEPT ![b] = Append(@, present[b])]
  /\ UNCHANGED live

Redo(b) ==
  /\ b \in live
  /\ future[b] # << >>
  /\ present' = [present EXCEPT ![b] = Last(future[b])]
  /\ past' = [past EXCEPT ![b] = Append(@, present[b])]
  /\ future' = [future EXCEPT ![b] = Front(@)]
  /\ UNCHANGED live

Next ==
  \E b \in Branches :
    \/ Start(b, << >>)
    \/ \E c \in live : Start(b, present[c])
    \/ EditLine(b)
    \/ Undo(b)
    \/ Redo(b)

Spec == Init /\ [][Next]_vars
=============================================================================
