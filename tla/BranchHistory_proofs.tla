----------------------- MODULE BranchHistory_proofs -----------------------
(***************************************************************************)
(* The branches, for every number of branches, lines, edits and contents   *)
(* and every id width: first the vector operations an edit is made of;     *)
(* then that the undo and redo stacks rebuild the versions that existed;   *)
(* last that the branches implement the undo history of whole texts of     *)
(* UndoHistory.tla.                                                        *)
(***************************************************************************)
EXTENDS BranchHistory, GreenPool_proofs, SequenceTheorems

(* The vector operations of an edit, and what the edits do to each other.  *)

(* Element by element, what Vec::insert returns. *)
LEMMA VecInsertFacts ==
  ASSUME NEW S, NEW v \in Seq(S), NEW at \in 0 .. Len(v), NEW id \in S
  PROVE  /\ VecInsert(v, at, id) \in Seq(S)
         /\ Len(VecInsert(v, at, id)) = Len(v) + 1
         /\ \A j \in 1 .. Len(v) + 1 :
              VecInsert(v, at, id)[j] =
                IF j <= at THEN v[j] ELSE IF j = at + 1 THEN id ELSE v[j - 1]
<1> DEFINE a == SubSeq(v, 1, at)
           c == SubSeq(v, at + 1, Len(v))
<1>1. /\ a \in Seq(S) /\ Len(a) = at
      /\ \A j \in 1 .. at : a[j] = v[j]
  OBVIOUS
<1>2. /\ c \in Seq(S) /\ Len(c) = Len(v) - at
      /\ \A j \in 1 .. Len(v) - at : c[j] = v[at + j]
  OBVIOUS
<1>3. VecInsert(v, at, id) = a \o <<id>> \o c
  <2>1. (at + 1) - 1 = at
    OBVIOUS
  <2> QED
    BY <2>1 DEF VecInsert, InsertAt
<1> HIDE DEF a, c
<1> DEFINE d == a \o <<id>>
<1>4. /\ d \in Seq(S) /\ Len(d) = at + 1
      /\ \A j \in 1 .. at : d[j] = v[j]
      /\ d[at + 1] = id
  BY <1>1
<1> HIDE DEF d
<1> DEFINE w == d \o c
<1>5. /\ w \in Seq(S) /\ Len(w) = Len(v) + 1
      /\ \A j \in 1 .. at + 1 : w[j] = d[j]
      /\ \A j \in at + 2 .. Len(v) + 1 : w[j] = c[j - (at + 1)]
  BY <1>2, <1>4
<1>6. VecInsert(v, at, id) = w
  BY <1>3 DEF d
<1> HIDE DEF w
<1>7. \A j \in at + 2 .. Len(v) + 1 : w[j] = v[j - 1]
  <2> SUFFICES ASSUME NEW j \in at + 2 .. Len(v) + 1
               PROVE  w[j] = v[j - 1]
    OBVIOUS
  <2>1. j - (at + 1) \in 1 .. Len(v) - at /\ at + (j - (at + 1)) = j - 1
    OBVIOUS
  <2> QED
    BY <1>2, <1>5, <2>1
<1> QED
  BY <1>4, <1>5, <1>6, <1>7

(* An inserted id is where it was inserted. *)
LEMMA InsertedThere ==
  ASSUME NEW S, NEW v \in Seq(S), NEW at \in 0 .. Len(v), NEW id \in S
  PROVE  Len(VecInsert(v, at, id)) = Len(v) + 1 /\ VecInsert(v, at, id)[at + 1] = id
<1>1. \A j \in 1 .. Len(v) + 1 :
        VecInsert(v, at, id)[j] =
          IF j <= at THEN v[j] ELSE IF j = at + 1 THEN id ELSE v[j - 1]
  BY VecInsertFacts
<1>2. ~(at + 1 <= at) /\ at + 1 \in 1 .. Len(v) + 1
  OBVIOUS
<1>3. VecInsert(v, at, id)[at + 1] = id
  BY <1>1, <1>2
<1> QED
  BY <1>3, VecInsertFacts

(* Element by element, what Vec::remove leaves. *)
LEMMA VecRemoveFacts ==
  ASSUME NEW S, NEW v \in Seq(S), NEW at \in 0 .. Len(v) - 1
  PROVE  /\ VecRemove(v, at) \in Seq(S)
         /\ Len(VecRemove(v, at)) = Len(v) - 1
         /\ \A j \in 1 .. Len(v) - 1 :
              VecRemove(v, at)[j] = IF j <= at THEN v[j] ELSE v[j + 1]
<1> DEFINE a == SubSeq(v, 1, at)
           c == SubSeq(v, at + 2, Len(v))
<1>1. /\ a \in Seq(S) /\ Len(a) = at
      /\ \A j \in 1 .. at : a[j] = v[j]
  OBVIOUS
<1>2. /\ c \in Seq(S) /\ Len(c) = Len(v) - at - 1
      /\ \A j \in 1 .. Len(v) - at - 1 : c[j] = v[at + 1 + j]
  OBVIOUS
<1>3. VecRemove(v, at) = a \o c
  <2>1. (at + 1) - 1 = at /\ (at + 1) + 1 = at + 2
    OBVIOUS
  <2> QED
    BY <2>1 DEF VecRemove, RemoveAt
<1> HIDE DEF a, c
<1> DEFINE w == a \o c
<1>4. /\ w \in Seq(S) /\ Len(w) = Len(v) - 1
      /\ \A j \in 1 .. at : w[j] = a[j]
      /\ \A j \in at + 1 .. Len(v) - 1 : w[j] = c[j - at]
  <2>1. a \in Seq(S) /\ c \in Seq(S)
    BY <1>1, <1>2
  <2>2. /\ w \in Seq(S) /\ Len(w) = Len(a) + Len(c)
        /\ \A j \in 1 .. Len(a) + Len(c) :
             w[j] = IF j <= Len(a) THEN a[j] ELSE c[j - Len(a)]
    BY <2>1, ConcatProperties
  <2> HIDE DEF w
  <2>3. Len(a) + Len(c) = Len(v) - 1 /\ Len(v) \in Nat /\ at \in Nat
    BY <1>1, <1>2
  <2>4. \A j \in 1 .. at : w[j] = a[j]
    BY <1>1, <2>2, <2>3
  <2>5. \A j \in at + 1 .. Len(v) - 1 : w[j] = c[j - at]
    BY <1>1, <2>2, <2>3
  <2> QED
    BY <2>2, <2>3, <2>4, <2>5
<1>5. VecRemove(v, at) = w
  BY <1>3
<1> HIDE DEF w
<1>6. \A j \in at + 1 .. Len(v) - 1 : w[j] = v[j + 1]
  <2> SUFFICES ASSUME NEW j \in at + 1 .. Len(v) - 1
               PROVE  w[j] = v[j + 1]
    OBVIOUS
  <2>1. j - at \in 1 .. Len(v) - at - 1 /\ at + 1 + (j - at) = j + 1
    OBVIOUS
  <2> QED
    BY <1>2, <1>4, <2>1
<1> QED
  BY <1>1, <1>4, <1>5, <1>6

(* Element by element, an assignment to one line. *)
LEMMA VecSetFacts ==
  ASSUME NEW S, NEW v \in Seq(S), NEW at \in 0 .. Len(v) - 1, NEW id \in S
  PROVE  /\ VecSet(v, at, id) \in Seq(S)
         /\ Len(VecSet(v, at, id)) = Len(v)
         /\ \A j \in 1 .. Len(v) :
              VecSet(v, at, id)[j] = IF j = at + 1 THEN id ELSE v[j]
  BY DEF VecSet

(* Removing what was just inserted gives the old lines back. *)
LEMMA RemoveInserted ==
  ASSUME NEW S, NEW v \in Seq(S), NEW at \in 0 .. Len(v), NEW id \in S
  PROVE  VecRemove(VecInsert(v, at, id), at) = v
<1> DEFINE w == VecInsert(v, at, id)
           u == VecRemove(w, at)
<1>1. /\ w \in Seq(S) /\ Len(w) = Len(v) + 1
      /\ \A j \in 1 .. Len(v) + 1 :
           w[j] = IF j <= at THEN v[j] ELSE IF j = at + 1 THEN id ELSE v[j - 1]
  BY VecInsertFacts
<1> HIDE DEF w
<1>2. at \in 0 .. Len(w) - 1 /\ Len(v) \in Nat
  BY <1>1
<1>3. /\ u \in Seq(S) /\ Len(u) = Len(w) - 1
      /\ \A j \in 1 .. Len(w) - 1 : u[j] = IF j <= at THEN w[j] ELSE w[j + 1]
  BY <1>1, <1>2, VecRemoveFacts
<1> HIDE DEF u
<1>4. ASSUME NEW j \in 1 .. Len(v)
      PROVE  u[j] = v[j]
  <2>1. /\ j \in 1 .. Len(w) - 1 /\ j \in 1 .. Len(v) + 1
        /\ j + 1 \in 1 .. Len(v) + 1 /\ (j + 1) - 1 = j
    BY <1>1, <1>2
  <2>2. u[j] = IF j <= at THEN w[j] ELSE w[j + 1]
    BY <1>3, <2>1
  <2>3. CASE j <= at
    BY <1>1, <2>1, <2>2, <2>3
  <2>4. CASE ~(j <= at)
    <3>1. ~(j + 1 <= at) /\ j + 1 # at + 1
      BY <2>4
    <3> QED
      BY <1>1, <2>1, <2>2, <2>4, <3>1
  <2> QED
    BY <2>3, <2>4
<1>5. u = v
  <2>1. Len(u) = Len(v)
    BY <1>1, <1>2, <1>3
  <2> QED
    BY <1>3, <1>4, <2>1, SeqEqual
<1> QED
  BY <1>5 DEF u, w

(* Inserting a removed line where it was gives the old lines back. *)
LEMMA InsertRemoved ==
  ASSUME NEW S, NEW v \in Seq(S), NEW at \in 0 .. Len(v) - 1
  PROVE  VecInsert(VecRemove(v, at), at, v[at + 1]) = v
<1> DEFINE w == VecRemove(v, at)
           id == v[at + 1]
           u == VecInsert(w, at, id)
<1>1. /\ w \in Seq(S) /\ Len(w) = Len(v) - 1
      /\ \A j \in 1 .. Len(v) - 1 : w[j] = IF j <= at THEN v[j] ELSE v[j + 1]
  BY VecRemoveFacts
<1>2. id \in S
  OBVIOUS
<1> HIDE DEF w
<1>3. at \in 0 .. Len(w) /\ Len(v) \in Nat
  BY <1>1
<1>4. w \in Seq(S)
  BY <1>1
<1> HIDE DEF id
<1>5. /\ u \in Seq(S) /\ Len(u) = Len(w) + 1
      /\ \A j \in 1 .. Len(w) + 1 :
           u[j] = IF j <= at THEN w[j] ELSE IF j = at + 1 THEN id ELSE w[j - 1]
  <2> HIDE DEF u
  <2>1. ASSUME NEW i \in S
        PROVE  LET x == VecInsert(w, at, i)
               IN  /\ x \in Seq(S) /\ Len(x) = Len(w) + 1
                   /\ \A j \in 1 .. Len(w) + 1 :
                        x[j] = IF j <= at THEN w[j] ELSE IF j = at + 1 THEN i ELSE w[j - 1]
    BY <1>3, <1>4, VecInsertFacts
  <2> QED
    BY <1>2, <2>1 DEF u
<1> HIDE DEF u
<1>6. ASSUME NEW j \in 1 .. Len(v)
      PROVE  u[j] = v[j]
  <2>1. j \in 1 .. Len(w) + 1 /\ (j - 1) + 1 = j
    BY <1>1, <1>3
  <2>2. CASE j <= at
    <3>1. j \in 1 .. Len(v) - 1
      BY <1>3, <2>2
    <3> QED
      BY <1>1, <1>5, <2>1, <2>2, <3>1
  <2>3. CASE j = at + 1
    BY <1>5, <2>1, <2>3 DEF id
  <2>4. CASE j > at + 1
    <3>1. j - 1 \in 1 .. Len(v) - 1 /\ ~(j - 1 <= at) /\ ~(j <= at) /\ j # at + 1
      BY <1>3, <2>4
    <3> QED
      BY <1>1, <1>5, <2>1, <3>1
  <2> QED
    BY <2>2, <2>3, <2>4
<1>7. u = v
  <2>1. Len(u) = Len(v)
    BY <1>1, <1>3, <1>5
  <2> QED
    BY <1>5, <1>6, <2>1, SeqEqual
<1> QED
  BY <1>7 DEF u, w, id

(* Restoring an overwritten line gives the old lines back. *)
LEMMA SetBack ==
  ASSUME NEW S, NEW v \in Seq(S), NEW at \in 0 .. Len(v) - 1, NEW id \in S
  PROVE  VecSet(VecSet(v, at, id), at, v[at + 1]) = v
<1>1. v = [j \in 1 .. Len(v) |-> v[j]] /\ at + 1 \in 1 .. Len(v)
  OBVIOUS
<1> DEFINE w == VecSet(v, at, id)
           u == VecSet(w, at, v[at + 1])
<1>2. w = [j \in 1 .. Len(v) |-> IF j = at + 1 THEN id ELSE v[j]]
  BY <1>1 DEF VecSet
<1>3. u = [j \in 1 .. Len(v) |-> IF j = at + 1 THEN v[at + 1] ELSE w[j]]
  BY <1>1, <1>2 DEF VecSet
<1>4. u = [j \in 1 .. Len(v) |-> v[j]]
  BY <1>2, <1>3
<1> QED
  BY <1>1, <1>4

-----------------------------------------------------------------------------
(* The stacks rebuild the versions that existed.                           *)

(* What Last and Front are of a stack that is not empty. *)
LEMMA StackFacts ==
  ASSUME NEW S, NEW s \in Seq(S), s # << >>
  PROVE  /\ Len(s) \in Nat \ {0}
         /\ Last(s) = s[Len(s)] /\ Last(s) \in S
         /\ Front(s) \in Seq(S) /\ Len(Front(s)) = Len(s) - 1
         /\ \A k \in 1 .. Len(s) - 1 : Front(s)[k] = s[k]
<1>1. Len(s) \in Nat \ {0}
  BY EmptySeq
<1>2. Last(s) = s[Len(s)] /\ Last(s) \in S
  BY <1>1 DEF Last
<1>3. /\ SubSeq(s, 1, Len(s) - 1) \in Seq(S)
      /\ Len(SubSeq(s, 1, Len(s) - 1)) = Len(s) - 1
      /\ \A k \in 1 .. Len(s) - 1 : SubSeq(s, 1, Len(s) - 1)[k] = s[k]
  <2> DEFINE m == Len(s) - 1
             f == SubSeq(s, 1, m)
  <2>1. m \in Nat /\ 1 \in 1 .. Len(s) + 1 /\ m \in 0 .. Len(s)
    BY <1>1
  <2>2. f = [i \in 1 .. m |-> s[i]] /\ f \in Seq(S)
    BY <1>1, <2>1, SubSeqProperties
  <2>3. Len(f) = m
    <3>1. Len(f) = IF 1 <= m THEN m - 1 + 1 ELSE 0
      BY <1>1, <2>1, SubSeqProperties
    <3> HIDE DEF m, f
    <3> QED
      BY <2>1, <3>1
  <2> QED
    BY <2>2, <2>3
<1> QED
  BY <1>1, <1>2, <1>3 DEF Front

(* An inserted line links the lines before and after. *)
LEMMA InsertLinks ==
  ASSUME NEW S, NEW v \in Seq(S), NEW n \in 0 .. Len(v), NEW id \in S
  PROVE  Links(InsertEdit(n, id), v, VecInsert(v, n, id))
<1>1. Len(VecInsert(v, n, id)) = Len(v) + 1 /\ Len(v) \in Nat
  BY VecInsertFacts
<1>2. VecRemove(VecInsert(v, n, id), n) = v
  BY RemoveInserted
<1> QED
  BY <1>1, <1>2 DEF Links, InsertEdit, CanRedo, CanUndo, Redone, Undone

(* So does a deleted one. *)
LEMMA DeleteLinks ==
  ASSUME NEW S, NEW v \in Seq(S), NEW n \in 0 .. Len(v) - 1
  PROVE  Links(DeleteEdit(n, v[n + 1]), v, VecRemove(v, n))
<1>1. Len(VecRemove(v, n)) = Len(v) - 1 /\ Len(v) \in Nat
  BY VecRemoveFacts
<1>2. VecInsert(VecRemove(v, n), n, v[n + 1]) = v
  BY InsertRemoved
<1> QED
  BY <1>1, <1>2 DEF Links, DeleteEdit, CanRedo, CanUndo, Redone, Undone

(* So does a replaced one. *)
LEMMA ReplaceLinks ==
  ASSUME NEW S, NEW v \in Seq(S), NEW n \in 0 .. Len(v) - 1, NEW id \in S
  PROVE  Links(ReplaceEdit(n, v[n + 1], id), v, VecSet(v, n, id))
<1>1. Len(VecSet(v, n, id)) = Len(v) /\ Len(v) \in Nat
  BY VecSetFacts
<1>2. VecSet(VecSet(v, n, id), n, v[n + 1]) = v
  BY SetBack
<1> QED
  BY <1>1, <1>2 DEF Links, ReplaceEdit, CanRedo, CanUndo, Redone, Undone

-----------------------------------------------------------------------------
(* Recording an edit extends the chain of the undo stack. *)
LEMMA PushUndo ==
  ASSUME NEW E, NEW S, NEW edits \in Seq(E), NEW versions \in Seq(S),
         NEW v \in S, NEW w \in S, NEW e \in E,
         UndoLinked(edits, versions, v), Links(e, v, w)
  PROVE  UndoLinked(Append(edits, e), Append(versions, v), w)
<1> DEFINE es == Append(edits, e)
           vs == Append(versions, v)
<1>1. Len(edits) = Len(versions) /\ Len(versions) \in Nat
  BY DEF UndoLinked
<1>2. /\ Len(es) = Len(edits) + 1 /\ Len(vs) = Len(versions) + 1
      /\ \A k \in 1 .. Len(versions) : es[k] = edits[k] /\ vs[k] = versions[k]
      /\ es[Len(vs)] = e /\ vs[Len(vs)] = v
  BY <1>1
<1> HIDE DEF es, vs
<1>3. ASSUME NEW k \in 1 .. Len(versions)
      PROVE  Links(es[k], vs[k], After(vs, k, w))
  <2>1. After(vs, k, w) = After(versions, k, v)
    BY <1>1, <1>2 DEF After
  <2> QED
    BY <1>2, <2>1 DEF UndoLinked
<1>4. Links(es[Len(vs)], vs[Len(vs)], After(vs, Len(vs), w))
  BY <1>2 DEF After
<1> QED
  BY <1>1, <1>2, <1>3, <1>4 DEF UndoLinked, es, vs

(* The last edit of an undo stack links the last version to the lines, and *)
(* without it the chain ends at that version.                              *)
LEMMA PopUndo ==
  ASSUME NEW E, NEW S, NEW edits \in Seq(E), NEW versions \in Seq(S), NEW w,
         UndoLinked(edits, versions, w), edits # << >>
  PROVE  /\ versions # << >>
         /\ Links(Last(edits), Last(versions), w)
         /\ UndoLinked(Front(edits), Front(versions), Last(versions))
<1>1. Len(edits) = Len(versions) /\ Len(versions) \in Nat \ {0} /\ versions # << >>
  BY StackFacts DEF UndoLinked
<1>2. Links(Last(edits), Last(versions), w)
  <2>1. Links(edits[Len(versions)], versions[Len(versions)],
              After(versions, Len(versions), w))
    BY <1>1 DEF UndoLinked
  <2>2. /\ Last(edits) = edits[Len(versions)]
        /\ Last(versions) = versions[Len(versions)]
        /\ After(versions, Len(versions), w) = w
    BY <1>1, StackFacts DEF After
  <2> QED
    BY <2>1, <2>2
<1> DEFINE es == Front(edits)
           vs == Front(versions)
<1>3. /\ Len(es) = Len(versions) - 1 /\ Len(vs) = Len(versions) - 1
      /\ \A k \in 1 .. Len(versions) - 1 : es[k] = edits[k] /\ vs[k] = versions[k]
      /\ Last(versions) = versions[Len(versions)]
  BY <1>1, StackFacts
<1> HIDE DEF es, vs
<1>4. ASSUME NEW k \in 1 .. Len(vs)
      PROVE  Links(es[k], vs[k], After(vs, k, Last(versions)))
  <2>1. k \in 1 .. Len(versions) /\ k \in 1 .. Len(versions) - 1 /\ k # Len(versions)
    BY <1>1, <1>3
  <2>2. After(vs, k, Last(versions)) = After(versions, k, w)
    BY <1>1, <1>3, <2>1 DEF After
  <2> QED
    BY <1>3, <2>1, <2>2 DEF UndoLinked
<1> QED
  BY <1>1, <1>2, <1>3, <1>4 DEF UndoLinked, es, vs

(* Undoing an edit extends the chain of the redo stack. *)
LEMMA PushRedo ==
  ASSUME NEW E, NEW S, NEW edits \in Seq(E), NEW versions \in Seq(S),
         NEW v \in S, NEW w \in S, NEW e \in E,
         RedoLinked(edits, versions, w), Links(e, v, w)
  PROVE  RedoLinked(Append(edits, e), Append(versions, w), v)
<1> DEFINE es == Append(edits, e)
           vs == Append(versions, w)
<1>1. Len(edits) = Len(versions) /\ Len(versions) \in Nat
  BY DEF RedoLinked
<1>2. /\ Len(es) = Len(edits) + 1 /\ Len(vs) = Len(versions) + 1
      /\ \A k \in 1 .. Len(versions) : es[k] = edits[k] /\ vs[k] = versions[k]
      /\ es[Len(vs)] = e /\ vs[Len(vs)] = w
  BY <1>1
<1> HIDE DEF es, vs
<1>3. ASSUME NEW k \in 1 .. Len(versions)
      PROVE  Links(es[k], After(vs, k, v), vs[k])
  <2>1. After(vs, k, v) = After(versions, k, w)
    BY <1>1, <1>2 DEF After
  <2> QED
    BY <1>2, <2>1 DEF RedoLinked
<1>4. Links(es[Len(vs)], After(vs, Len(vs), v), vs[Len(vs)])
  BY <1>2 DEF After
<1> QED
  BY <1>1, <1>2, <1>3, <1>4 DEF RedoLinked, es, vs

(* The last edit of a redo stack links the lines to the last version, and  *)
(* without it the chain starts at that version.                            *)
LEMMA PopRedo ==
  ASSUME NEW E, NEW S, NEW edits \in Seq(E), NEW versions \in Seq(S), NEW v,
         RedoLinked(edits, versions, v), edits # << >>
  PROVE  /\ versions # << >>
         /\ Links(Last(edits), v, Last(versions))
         /\ RedoLinked(Front(edits), Front(versions), Last(versions))
<1>1. Len(edits) = Len(versions) /\ Len(versions) \in Nat \ {0} /\ versions # << >>
  BY StackFacts DEF RedoLinked
<1>2. Links(Last(edits), v, Last(versions))
  <2>1. Links(edits[Len(versions)], After(versions, Len(versions), v),
              versions[Len(versions)])
    BY <1>1 DEF RedoLinked
  <2>2. /\ Last(edits) = edits[Len(versions)]
        /\ Last(versions) = versions[Len(versions)]
        /\ After(versions, Len(versions), v) = v
    BY <1>1, StackFacts DEF After
  <2> QED
    BY <2>1, <2>2
<1> DEFINE es == Front(edits)
           vs == Front(versions)
<1>3. /\ Len(es) = Len(versions) - 1 /\ Len(vs) = Len(versions) - 1
      /\ \A k \in 1 .. Len(versions) - 1 : es[k] = edits[k] /\ vs[k] = versions[k]
      /\ Last(versions) = versions[Len(versions)]
  BY <1>1, StackFacts
<1> HIDE DEF es, vs
<1>4. ASSUME NEW k \in 1 .. Len(vs)
      PROVE  Links(es[k], After(vs, k, Last(versions)), vs[k])
  <2>1. k \in 1 .. Len(versions) /\ k \in 1 .. Len(versions) - 1 /\ k # Len(versions)
    BY <1>1, <1>3
  <2>2. After(vs, k, Last(versions)) = After(versions, k, v)
    BY <1>1, <1>3, <2>1 DEF After
  <2> QED
    BY <1>3, <2>1, <2>2 DEF RedoLinked
<1> QED
  BY <1>1, <1>2, <1>3, <1>4 DEF RedoLinked, es, vs

(* An empty stack is linked to any lines. *)
LEMMA NothingLinked ==
  ASSUME NEW w
  PROVE  UndoLinked(<< >>, << >>, w) /\ RedoLinked(<< >>, << >>, w)
  BY DEF UndoLinked, RedoLinked

-----------------------------------------------------------------------------
(* What an accepted edit of a branch does: it moves the branch from its    *)
(* lines to lines w by an edit e that links the two, and records e.        *)
EditsTo(b, e, w) ==
  /\ Links(e, lines[b], w)
  /\ lines' = [lines EXCEPT ![b] = w]
  /\ undo_stack' = [undo_stack EXCEPT ![b] = Append(@, e)]
  /\ redo_stack' = [redo_stack EXCEPT ![b] = << >>]
  /\ live' = live
  /\ IsPool(pool')

(* Each of the three edits does that, whatever the validator, and the new  *)
(* lines have no id but those of the old ones and the one that was issued  *)
(* (branch.rs:105-188).                                                    *)
IdsFrom(w, ids) == \A i \in DOMAIN w : w[i] \in ids

LEMMA InsertStep ==
  ASSUME NEW b \in Branches, lines[b] \in Seq(GreenLineId), IsPool(pool),
         NEW n \in 0 .. MaxLines, NEW s \in Content, NEW validator,
         InsertLine(b, n, s, validator)
  PROVE  \E e \in BranchEdit, w \in Seq(GreenLineId) :
           EditsTo(b, e, w) /\ IdsFrom(w, Range(lines[b]) \cup {IdOf(pool, s)})
<1> DEFINE v == lines[b]
           id == IdOf(pool, s)
           e == InsertEdit(n, id)
           w == VecInsert(v, n, id)
<1>1. id \in GreenLineId /\ IsPool(Interned(pool, s))
  BY InternedType
<1>2. n \in 0 .. Len(v)
  BY BoundsAssumption DEF InsertLine
<1>3. e \in BranchEdit
  BY <1>1 DEF InsertEdit, BranchEdit
<1> HIDE DEF id
<1>4. /\ w \in Seq(GreenLineId) /\ Len(w) = Len(v) + 1
      /\ \A j \in 1 .. Len(v) + 1 :
           w[j] = IF j <= n THEN v[j] ELSE IF j = n + 1 THEN id ELSE v[j - 1]
  <2>1. v \in Seq(GreenLineId)
    OBVIOUS
  <2> HIDE DEF v
  <2> QED
    BY ONLY <1>1, <1>2, <2>1, VecInsertFacts
<1>5. Links(e, v, w)
  BY <1>1, <1>2, InsertLinks
<1>6. EditsTo(b, e, w)
  BY <1>1, <1>5 DEF InsertLine, Record, RedoAfterEdit, Intern, EditsTo, id
<1> HIDE DEF e, w
<1>7. IdsFrom(w, Range(v) \cup {id})
  <2> SUFFICES ASSUME NEW i \in DOMAIN w
               PROVE  w[i] \in Range(v) \cup {id}
    BY DEF IdsFrom
  <2>1. i \in 1 .. Len(v) + 1 /\ Len(v) \in Nat
    BY <1>4
  <2>2. i \in DOMAIN v \/ i - 1 \in DOMAIN v \/ i = n + 1
    BY <1>2, <2>1
  <2>3. i <= n \/ i = n + 1 \/ i - 1 \in DOMAIN v
    BY <1>2, <2>1
  <2>4. i <= n => i \in DOMAIN v
    BY <1>2, <2>1
  <2> QED
    BY <1>4, <2>1, <2>3, <2>4 DEF Range
<1> QED
  BY <1>3, <1>4, <1>6, <1>7 DEF id

LEMMA ReplaceStep ==
  ASSUME NEW b \in Branches, lines[b] \in Seq(GreenLineId), IsPool(pool),
         NEW n \in 0 .. MaxLines, NEW s \in Content, NEW validator,
         ReplaceLine(b, n, s, validator)
  PROVE  \E e \in BranchEdit, w \in Seq(GreenLineId) :
           EditsTo(b, e, w) /\ IdsFrom(w, Range(lines[b]) \cup {IdOf(pool, s)})
<1> DEFINE v == lines[b]
           id == IdOf(pool, s)
           e == ReplaceEdit(n, v[n + 1], id)
           w == VecSet(v, n, id)
<1>1. id \in GreenLineId /\ IsPool(Interned(pool, s))
  BY InternedType
<1>2. n \in 0 .. Len(v) - 1
  BY BoundsAssumption DEF ReplaceLine
<1>3. e \in BranchEdit
  BY <1>1, <1>2 DEF ReplaceEdit, BranchEdit
<1> HIDE DEF id
<1>4. /\ w \in Seq(GreenLineId) /\ Len(w) = Len(v)
      /\ \A j \in 1 .. Len(v) : w[j] = IF j = n + 1 THEN id ELSE v[j]
  BY <1>1, <1>2, VecSetFacts
<1>5. Links(e, v, w)
  BY <1>1, <1>2, ReplaceLinks
<1>6. EditsTo(b, e, w)
  BY <1>1, <1>5 DEF ReplaceLine, Record, RedoAfterEdit, OldId, Intern, EditsTo, id
<1> HIDE DEF e, w
<1>7. IdsFrom(w, Range(v) \cup {id})
  BY <1>4 DEF IdsFrom, Range
<1> QED
  BY <1>3, <1>4, <1>6, <1>7 DEF id

LEMMA DeleteStep ==
  ASSUME NEW b \in Branches, lines[b] \in Seq(GreenLineId), IsPool(pool),
         NEW n \in 0 .. MaxLines, DeleteLine(b, n)
  PROVE  \E e \in BranchEdit, w \in Seq(GreenLineId) :
           EditsTo(b, e, w) /\ IdsFrom(w, Range(lines[b]))
<1> DEFINE v == lines[b]
           e == DeleteEdit(n, v[n + 1])
           w == VecRemove(v, n)
<1>1. n \in 0 .. Len(v) - 1
  BY BoundsAssumption DEF DeleteLine
<1>2. e \in BranchEdit
  BY <1>1 DEF DeleteEdit, BranchEdit
<1>3. /\ w \in Seq(GreenLineId) /\ Len(w) = Len(v) - 1
      /\ \A j \in 1 .. Len(v) - 1 : w[j] = IF j <= n THEN v[j] ELSE v[j + 1]
  BY <1>1, VecRemoveFacts
<1>4. Links(e, v, w)
  BY <1>1, DeleteLinks
<1>5. EditsTo(b, e, w)
  BY <1>4 DEF DeleteLine, Record, RedoAfterEdit, EditsTo
<1> HIDE DEF e, w
<1>6. IdsFrom(w, Range(v))
  <2> SUFFICES ASSUME NEW i \in DOMAIN w
               PROVE  w[i] \in Range(v)
    BY DEF IdsFrom
  <2>1. i \in 1 .. Len(v) - 1 /\ Len(v) \in Nat
    BY <1>3
  <2>2. i \in DOMAIN v /\ i + 1 \in DOMAIN v
    BY <2>1
  <2> QED
    BY <1>3, <2>1, <2>2 DEF Range
<1> QED
  BY <1>2, <1>3, <1>5, <1>6

LEMMA EditStep ==
  ASSUME TypeOK, NEW b \in Branches, Edit(b)
  PROVE  \E e \in BranchEdit, w \in Seq(GreenLineId) : EditsTo(b, e, w)
<1>1. lines[b] \in Seq(GreenLineId) /\ IsPool(pool)
  BY DEF TypeOK, PoolTypeOK
<1> QED
  BY <1>1, InsertStep, ReplaceStep, DeleteStep DEF Edit

(* A step that gives one branch new values and leaves the others alone     *)
(* keeps the invariant if it keeps that branch's part of it.               *)
LEMMA OneBranchStep ==
  ASSUME HInv, NEW b \in Branches,
         NEW l, NEW us, NEW rs, NEW ps, NEW fs,
         lines' = [lines EXCEPT ![b] = l],
         undo_stack' = [undo_stack EXCEPT ![b] = us],
         redo_stack' = [redo_stack EXCEPT ![b] = rs],
         past' = [past EXCEPT ![b] = ps],
         future' = [future EXCEPT ![b] = fs],
         live' \subseteq Branches, IsPool(pool'),
         l \in Seq(GreenLineId),
         us \in Seq(BranchEdit), rs \in Seq(BranchEdit),
         ps \in Seq(Seq(GreenLineId)), fs \in Seq(Seq(GreenLineId)),
         UndoLinked(us, ps, l), RedoLinked(rs, fs, l)
  PROVE  HInv'
<1>1. HTypeOK'
  BY DEF HInv, HTypeOK, TypeOK, PoolTypeOK
<1>2. UndoChain'
  BY DEF HInv, HTypeOK, TypeOK, UndoChain
<1>3. RedoChain'
  BY DEF HInv, HTypeOK, TypeOK, RedoChain
<1> QED
  BY <1>1, <1>2, <1>3 DEF HInv

(* The invariant holds of no branches and no lines.                        *)
LEMMA HistoryInit == ASSUME HInit PROVE HInv
<1>1. HTypeOK
  BY EmptyPoolFacts
  DEF HInit, Init, PoolInit, HTypeOK, TypeOK, PoolTypeOK
<1>2. UndoChain /\ RedoChain
  BY NothingLinked DEF HInit, Init, UndoChain, RedoChain
<1> QED
  BY <1>1, <1>2 DEF HInv

(* Every step of every branch keeps it.                                    *)
LEMMA HistoryStep == ASSUME HInv, [HNext]_hvars PROVE HInv'
<1>1. /\ IsPool(pool) /\ live \subseteq Branches
      /\ << >> \in Seq(BranchEdit) /\ << >> \in Seq(Seq(GreenLineId))
      /\ << >> \in Seq(GreenLineId)
  BY DEF HInv, HTypeOK, TypeOK, PoolTypeOK
<1>2. ASSUME NEW b \in Branches
      PROVE  /\ lines[b] \in Seq(GreenLineId)
             /\ undo_stack[b] \in Seq(BranchEdit)
             /\ redo_stack[b] \in Seq(BranchEdit)
             /\ past[b] \in Seq(Seq(GreenLineId))
             /\ future[b] \in Seq(Seq(GreenLineId))
             /\ UndoLinked(undo_stack[b], past[b], lines[b])
             /\ RedoLinked(redo_stack[b], future[b], lines[b])
  BY DEF HInv, HTypeOK, TypeOK, UndoChain, RedoChain
<1>3. ASSUME NEW b \in Branches, HStart(b)
      PROVE  HInv'
  <2>1. CASE New(b)
    BY <1>1, <1>3, <2>1, NothingLinked, OneBranchStep DEF HStart, New
  <2>2. ASSUME NEW c \in Branches, Fork(c, b)
        PROVE  HInv'
    BY <1>1, <1>2, <1>3, <2>2, NothingLinked, OneBranchStep DEF HStart, Fork
  <2> QED
    BY <1>3, <2>1, <2>2 DEF HStart
<1>4. ASSUME NEW b \in Branches, HEdit(b)
      PROVE  HInv'
  <2>1. PICK e \in BranchEdit, w \in Seq(GreenLineId) : EditsTo(b, e, w)
    BY <1>4, EditStep DEF HEdit, HInv, HTypeOK
  <2>2. UndoLinked(Append(undo_stack[b], e), Append(past[b], lines[b]), w)
    BY <1>2, <2>1, PushUndo DEF EditsTo
  <2>3. /\ Append(undo_stack[b], e) \in Seq(BranchEdit)
        /\ Append(past[b], lines[b]) \in Seq(Seq(GreenLineId))
    BY <1>2, AppendProperties
  <2>4. /\ undo_stack' = [undo_stack EXCEPT ![b] = Append(undo_stack[b], e)]
        /\ past' = [past EXCEPT ![b] = Append(past[b], lines[b])]
        /\ future' = [future EXCEPT ![b] = << >>]
    BY <1>4, <2>1 DEF HEdit, EditsTo
  <2> QED
    BY <1>1, <2>1, <2>2, <2>3, <2>4, NothingLinked, OneBranchStep DEF EditsTo
<1>5. ASSUME NEW b \in Branches, HUndo(b)
      PROVE  HInv'
  <2> DEFINE e == Last(undo_stack[b])
             v == Last(past[b])
  <2>1. undo_stack[b] # << >>
    BY <1>5 DEF HUndo, Undo
  <2>2. /\ past[b] # << >>
        /\ Links(e, v, lines[b])
        /\ UndoLinked(Front(undo_stack[b]), Front(past[b]), v)
    BY <1>2, <2>1, PopUndo
  <2>3. /\ e \in BranchEdit /\ v \in Seq(GreenLineId)
        /\ Front(undo_stack[b]) \in Seq(BranchEdit)
        /\ Front(past[b]) \in Seq(Seq(GreenLineId))
    BY <1>2, <2>1, <2>2, StackFacts
  <2>4. v = Undone(lines[b], e)
    BY <2>2 DEF Links
  <2>5. /\ lines' = [lines EXCEPT ![b] = v]
        /\ undo_stack' = [undo_stack EXCEPT ![b] = Front(undo_stack[b])]
        /\ redo_stack' = [redo_stack EXCEPT ![b] = Append(redo_stack[b], e)]
        /\ past' = [past EXCEPT ![b] = Front(past[b])]
        /\ future' = [future EXCEPT ![b] = Append(future[b], lines[b])]
        /\ live' = live /\ pool' = pool
    BY <1>5, <2>4 DEF HUndo, Undo
  <2> HIDE DEF e, v
  <2>6. RedoLinked(Append(redo_stack[b], e), Append(future[b], lines[b]), v)
    BY <1>2, <2>2, <2>3, PushRedo
  <2>7. /\ Append(redo_stack[b], e) \in Seq(BranchEdit)
        /\ Append(future[b], lines[b]) \in Seq(Seq(GreenLineId))
    BY <1>2, <2>3, AppendProperties
  <2> QED
    BY <1>1, <2>2, <2>3, <2>5, <2>6, <2>7, OneBranchStep
<1>6. ASSUME NEW b \in Branches, HRedo(b)
      PROVE  HInv'
  <2> DEFINE e == Last(redo_stack[b])
             w == Last(future[b])
  <2>1. redo_stack[b] # << >>
    BY <1>6 DEF HRedo, Redo
  <2>2. /\ future[b] # << >>
        /\ Links(e, lines[b], w)
        /\ RedoLinked(Front(redo_stack[b]), Front(future[b]), w)
    BY <1>2, <2>1, PopRedo
  <2>3. /\ e \in BranchEdit /\ w \in Seq(GreenLineId)
        /\ Front(redo_stack[b]) \in Seq(BranchEdit)
        /\ Front(future[b]) \in Seq(Seq(GreenLineId))
    BY <1>2, <2>1, <2>2, StackFacts
  <2>4. w = Redone(lines[b], e)
    BY <2>2 DEF Links
  <2>5. /\ lines' = [lines EXCEPT ![b] = w]
        /\ redo_stack' = [redo_stack EXCEPT ![b] = Front(redo_stack[b])]
        /\ undo_stack' = [undo_stack EXCEPT ![b] = Append(undo_stack[b], e)]
        /\ future' = [future EXCEPT ![b] = Front(future[b])]
        /\ past' = [past EXCEPT ![b] = Append(past[b], lines[b])]
        /\ live' = live /\ pool' = pool
    BY <1>6, <2>4 DEF HRedo, Redo
  <2> HIDE DEF e, w
  <2>6. UndoLinked(Append(undo_stack[b], e), Append(past[b], lines[b]), w)
    BY <1>2, <2>2, <2>3, PushUndo
  <2>7. /\ Append(undo_stack[b], e) \in Seq(BranchEdit)
        /\ Append(past[b], lines[b]) \in Seq(Seq(GreenLineId))
    BY <1>2, <2>3, AppendProperties
  <2> QED
    BY <1>1, <2>2, <2>3, <2>5, <2>6, <2>7, OneBranchStep
<1>7. CASE UNCHANGED hvars
  BY <1>7
  DEF hvars, vars, branchVars, HInv, HTypeOK, TypeOK, PoolTypeOK,
      UndoChain, RedoChain
<1> QED
  BY <1>3, <1>4, <1>5, <1>6, <1>7 DEF HNext

(***************************************************************************)
(* After any sequence of calls on any branches, both stacks of every       *)
(* branch lead, entry by entry, through the versions that existed, and     *)
(* every value has its type (branch.rs:105-255).                           *)
(***************************************************************************)
THEOREM HistoryInvariant == HSpec => []HInv
<1>1. HInv /\ [HNext]_hvars => HInv'
  BY HistoryStep
<1> QED
  BY <1>1, HistoryInit, PTL DEF HSpec

(* Every undo goes back through real versions, down to the first.          *)
THEOREM UndoChainHolds == HSpec => []UndoChain
  BY HistoryInvariant, PTL DEF HInv

(* Every redo goes forward through real versions, up to the last undone.   *)
THEOREM RedoChainHolds == HSpec => []RedoChain
  BY HistoryInvariant, PTL DEF HInv

(* Lines, stacks and histories keep their types.                           *)
THEOREM TypesHold == HSpec => []HTypeOK
  BY HistoryInvariant, PTL DEF HInv

(* The unchecked vector accesses of undo and redo never panic.             *)
THEOREM NeverPanics == HSpec => []NoIndexPanic
<1>1. HInv => NoIndexPanic
  <2> SUFFICES ASSUME HInv, NEW b \in live
               PROVE  /\ undo_stack[b] # << >>
                           => CanUndo(lines[b], Last(undo_stack[b]))
                      /\ redo_stack[b] # << >>
                           => CanRedo(lines[b], Last(redo_stack[b]))
    BY DEF NoIndexPanic
  <2>1. b \in Branches
    BY DEF HInv, HTypeOK, TypeOK
  <2>2. /\ undo_stack[b] \in Seq(BranchEdit)
        /\ redo_stack[b] \in Seq(BranchEdit)
        /\ past[b] \in Seq(Seq(GreenLineId))
        /\ future[b] \in Seq(Seq(GreenLineId))
        /\ UndoLinked(undo_stack[b], past[b], lines[b])
        /\ RedoLinked(redo_stack[b], future[b], lines[b])
    BY <2>1 DEF HInv, HTypeOK, TypeOK, UndoChain, RedoChain
  <2>3. ASSUME undo_stack[b] # << >>
        PROVE  CanUndo(lines[b], Last(undo_stack[b]))
    BY <2>2, <2>3, PopUndo DEF Links
  <2>4. ASSUME redo_stack[b] # << >>
        PROVE  CanRedo(lines[b], Last(redo_stack[b]))
    BY <2>2, <2>4, PopRedo DEF Links
  <2> QED
    BY <2>3, <2>4
<1> QED
  BY <1>1, HistoryInvariant, PTL

-----------------------------------------------------------------------------
(* The refinement of UndoHistory.                                          *)

(* The pool knows every id of a version. *)
Known(p, v) == \A i \in DOMAIN v : CanGet(p, v[i])

AllKnown(p, versions) == \A k \in DOMAIN versions : Known(p, versions[k])

KnownVersions ==
  \A b \in Branches :
    /\ Known(pool, lines[b])
    /\ AllKnown(pool, past[b])
    /\ AllKnown(pool, future[b])

(* The invariant of the refinement. *)
RInv == HInv /\ InternedOnce /\ KnownVersions

(* The id intern returns is known to the pool it leaves. *)
LEMMA InternedKnown ==
  ASSUME NEW p, IsPool(p), IndexMatchesLines(p), NEW s \in Content
  PROVE  CanGet(Interned(p, s), IdOf(p, s))
<1>1. CASE s \in DOMAIN p.index
  <2>1. PICK i \in DOMAIN p.lines : p.lines[i] = s
    BY <1>1 DEF IndexMatchesLines
  <2>2. p.index[s] = AsId(i - 1) /\ i \in 1 .. Len(p.lines)
    BY <2>1 DEF IndexMatchesLines, IsPool
  <2>3. i - 1 \in Nat /\ Len(p.lines) \in Nat
    BY <2>2 DEF IsPool
  <2>4. AsId(i - 1) <= i - 1 /\ AsId(i - 1) \in Int
    BY <2>3, AsIdType DEF GreenLineId
  <2>5. AsId(i - 1) < Len(p.lines)
    BY <2>2, <2>3, <2>4
  <2> QED
    BY <1>1, <2>2, <2>5 DEF CanGet, Interned, Added, IdOf
<1>2. CASE s \notin DOMAIN p.index
  <2>1. Len(p.lines) \in Nat /\ Len(Append(p.lines, s)) = Len(p.lines) + 1
    BY DEF IsPool
  <2>2. AsId(Len(p.lines)) <= Len(p.lines) /\ AsId(Len(p.lines)) \in Int
    BY <2>1, AsIdType DEF GreenLineId
  <2>3. AsId(Len(p.lines)) < Len(p.lines) + 1
    BY <2>1, <2>2
  <2> QED
    BY <1>2, <2>1, <2>3 DEF CanGet, Interned, Added, IdOf
<1> QED
  BY <1>1, <1>2

(* Versions stay known, and show the same text, as the pool grows. *)
LEMMA KnownStable ==
  ASSUME NEW p, NEW q, IsPool(p), IsPool(q), Extends(p, q),
         NEW v \in Seq(GreenLineId), Known(p, v)
  PROVE  Known(q, v) /\ Text(q, v) = Text(p, v)
<1>1. Len(p.lines) \in Nat /\ Len(q.lines) \in Nat /\ Len(p.lines) <= Len(q.lines)
  BY DEF IsPool, Extends
<1>2. ASSUME NEW i \in DOMAIN v
      PROVE  CanGet(q, v[i]) /\ Get(q, v[i]) = Get(p, v[i])
  <2>1. v[i] \in Nat /\ v[i] < Len(p.lines)
    BY IdSpaceAssumption DEF Known, CanGet, GreenLineId
  <2>2. v[i] + 1 \in DOMAIN p.lines /\ v[i] < Len(q.lines)
    BY <1>1, <2>1 DEF IsPool
  <2> QED
    BY <2>2 DEF CanGet, Get, Extends
<1> QED
  BY <1>2 DEF Known, Text

(* The text of a known version is a sequence of contents, line for line.   *)
LEMMA TextType ==
  ASSUME NEW p, IsPool(p), NEW v \in Seq(GreenLineId), Known(p, v)
  PROVE  /\ Text(p, v) \in Seq(Content)
         /\ Len(Text(p, v)) = Len(v)
         /\ \A i \in 1 .. Len(v) : Text(p, v)[i] = Get(p, v[i])
<1>1. ASSUME NEW i \in 1 .. Len(v)
      PROVE  Get(p, v[i]) \in Content
  <2>1. v[i] \in Nat /\ v[i] < Len(p.lines) /\ Len(p.lines) \in Nat
    BY IdSpaceAssumption DEF Known, CanGet, GreenLineId, IsPool
  <2>2. v[i] + 1 \in 1 .. Len(p.lines)
    BY <2>1
  <2> QED
    BY <2>2 DEF Get, IsPool
<1>2. DOMAIN v = 1 .. Len(v) /\ Len(v) \in Nat
  OBVIOUS
<1>3. Text(p, v) = [i \in 1 .. Len(v) |-> Get(p, v[i])]
  BY <1>2 DEF Text
<1> QED
  BY <1>1, <1>2, <1>3

(* Inserting an id inserts its content in the text. *)
LEMMA TextInsert ==
  ASSUME NEW p, IsPool(p), NEW v \in Seq(GreenLineId), Known(p, v),
         NEW n \in 0 .. Len(v), NEW id \in GreenLineId, CanGet(p, id)
  PROVE  /\ Known(p, VecInsert(v, n, id))
         /\ Text(p, VecInsert(v, n, id)) = VecInsert(Text(p, v), n, Get(p, id))
<1> DEFINE w == VecInsert(v, n, id)
           t == Text(p, v)
           s == Get(p, id)
           u == VecInsert(t, n, s)
<1> HIDE DEF t, s, u
<1>1. /\ w \in Seq(GreenLineId) /\ Len(w) = Len(v) + 1
      /\ \A j \in 1 .. Len(v) + 1 :
           w[j] = IF j <= n THEN v[j] ELSE IF j = n + 1 THEN id ELSE v[j - 1]
  BY VecInsertFacts
<1>2. /\ t \in Seq(Content) /\ Len(t) = Len(v)
      /\ \A i \in 1 .. Len(v) : t[i] = Get(p, v[i])
  BY TextType DEF t
<1>3. s \in Content
  <2>1. id \in Nat /\ id < Len(p.lines) /\ Len(p.lines) \in Nat
    BY IdSpaceAssumption DEF CanGet, GreenLineId, IsPool
  <2>2. id + 1 \in 1 .. Len(p.lines)
    BY <2>1
  <2> QED
    BY <2>2 DEF Get, IsPool, s
<1> HIDE DEF w
<1>4. n \in 0 .. Len(t)
  BY <1>2
<1>5. t \in Seq(Content)
  BY <1>2
<1>6. /\ u \in Seq(Content) /\ Len(u) = Len(t) + 1
      /\ \A j \in 1 .. Len(t) + 1 :
           u[j] = IF j <= n THEN t[j] ELSE IF j = n + 1 THEN s ELSE t[j - 1]
  BY <1>3, <1>4, <1>5, VecInsertFacts DEF u
<1>7. ASSUME NEW j \in 1 .. Len(v) + 1
      PROVE  CanGet(p, w[j]) /\ Get(p, w[j]) = u[j]
  <2>1. Len(v) \in Nat /\ \A i \in 1 .. Len(v) : CanGet(p, v[i])
    BY DEF Known
  <2>2. CASE j <= n
    <3>1. j \in 1 .. Len(v) /\ j \in 1 .. Len(t) + 1
      BY <1>2, <2>1, <2>2
    <3>2. w[j] = v[j] /\ u[j] = t[j]
      BY <1>1, <1>6, <2>2, <3>1
    <3> QED
      BY <1>2, <2>1, <3>1, <3>2
  <2>3. CASE j = n + 1
    <3>1. ~(j <= n) /\ j \in 1 .. Len(t) + 1
      BY <1>2, <2>1, <2>3
    <3>2. w[j] = id /\ u[j] = s
      BY <1>1, <1>6, <2>3, <3>1
    <3> QED
      BY <3>2 DEF s
  <2>4. CASE j > n + 1
    <3>1. j - 1 \in 1 .. Len(v) /\ j \in 1 .. Len(t) + 1
          /\ ~(j <= n) /\ j # n + 1
      BY <1>2, <2>1, <2>4
    <3>2. w[j] = v[j - 1] /\ u[j] = t[j - 1]
      BY <1>1, <1>6, <3>1
    <3> QED
      BY <1>2, <2>1, <3>1, <3>2
  <2> QED
    BY <2>2, <2>3, <2>4
<1>8. DOMAIN w = 1 .. Len(v) + 1
  BY <1>1
<1>9. Known(p, w)
  BY <1>7, <1>8 DEF Known
<1>10. /\ Text(p, w) \in Seq(Content) /\ Len(Text(p, w)) = Len(u)
       /\ \A j \in 1 .. Len(u) : Text(p, w)[j] = u[j]
  <2>1. Len(w) = Len(u) /\ Len(u) = Len(v) + 1
    BY <1>1, <1>2, <1>6
  <2> QED
    BY <1>1, <1>7, <1>9, <2>1, TextType
<1>11. Text(p, w) = u
  BY <1>6, <1>10, SeqEqual
<1> QED
  BY <1>9, <1>11 DEF w, u, t, s

(* Removing an id removes its content from the text. *)
LEMMA TextRemove ==
  ASSUME NEW p, IsPool(p), NEW v \in Seq(GreenLineId), Known(p, v),
         NEW n \in 0 .. Len(v) - 1
  PROVE  /\ Known(p, VecRemove(v, n))
         /\ Text(p, VecRemove(v, n)) = VecRemove(Text(p, v), n)
<1> DEFINE w == VecRemove(v, n)
           t == Text(p, v)
           u == VecRemove(t, n)
<1>1. /\ w \in Seq(GreenLineId) /\ Len(w) = Len(v) - 1 /\ Len(v) \in Nat
      /\ \A j \in 1 .. Len(v) - 1 : w[j] = IF j <= n THEN v[j] ELSE v[j + 1]
  BY VecRemoveFacts
<1>2. /\ t \in Seq(Content) /\ Len(t) = Len(v)
      /\ \A i \in 1 .. Len(v) : t[i] = Get(p, v[i])
  BY TextType
<1> HIDE DEF w, t
<1>3. n \in 0 .. Len(t) - 1 /\ t \in Seq(Content)
  BY <1>2
<1>4. /\ u \in Seq(Content) /\ Len(u) = Len(t) - 1
      /\ \A j \in 1 .. Len(t) - 1 : u[j] = IF j <= n THEN t[j] ELSE t[j + 1]
  BY <1>3, VecRemoveFacts
<1> HIDE DEF u
<1>5. ASSUME NEW j \in 1 .. Len(v) - 1
      PROVE  CanGet(p, w[j]) /\ Get(p, w[j]) = u[j]
  <2>1. j \in 1 .. Len(v) /\ j + 1 \in 1 .. Len(v)
    BY <1>1
  <2>2. \A i \in 1 .. Len(v) : CanGet(p, v[i])
    BY DEF Known
  <2>3. CASE j <= n
    <3>1. w[j] = v[j] /\ u[j] = t[j]
      BY <1>1, <1>2, <1>4, <2>3
    <3> QED
      BY <1>2, <2>2, <2>1, <3>1
  <2>4. CASE ~(j <= n)
    <3>1. w[j] = v[j + 1] /\ u[j] = t[j + 1]
      BY <1>1, <1>2, <1>4, <2>4
    <3> QED
      BY <1>2, <2>2, <2>1, <3>1
  <2> QED
    BY <2>3, <2>4
<1>6. DOMAIN w = 1 .. Len(v) - 1
  BY <1>1
<1>7. Known(p, w)
  BY <1>5, <1>6 DEF Known
<1>8. /\ Text(p, w) \in Seq(Content) /\ Len(Text(p, w)) = Len(u)
      /\ \A j \in 1 .. Len(u) : Text(p, w)[j] = u[j]
  <2>1. Len(w) = Len(u) /\ Len(u) = Len(v) - 1
    BY <1>1, <1>2, <1>4
  <2> QED
    BY <1>1, <1>5, <1>7, <2>1, TextType
<1>9. Text(p, w) = u
  BY <1>4, <1>8, SeqEqual
<1> QED
  BY <1>7, <1>9 DEF w, u, t

(* Overwriting an id overwrites its content in the text. *)
LEMMA TextSet ==
  ASSUME NEW p, IsPool(p), NEW v \in Seq(GreenLineId), Known(p, v),
         NEW n \in 0 .. Len(v) - 1, NEW id \in GreenLineId, CanGet(p, id)
  PROVE  /\ Known(p, VecSet(v, n, id))
         /\ Text(p, VecSet(v, n, id)) = [Text(p, v) EXCEPT ![n + 1] = Get(p, id)]
<1>1. n + 1 \in 1 .. Len(v) /\ DOMAIN v = 1 .. Len(v)
  OBVIOUS
<1>2. VecSet(v, n, id) = [i \in 1 .. Len(v) |-> IF i = n + 1 THEN id ELSE v[i]]
  BY <1>1 DEF VecSet
<1>3. Known(p, VecSet(v, n, id))
  BY <1>1, <1>2 DEF Known
<1>4. Text(p, VecSet(v, n, id)) =
        [i \in 1 .. Len(v) |-> IF i = n + 1 THEN Get(p, id) ELSE Get(p, v[i])]
  BY <1>1, <1>2 DEF Text
<1>5. [Text(p, v) EXCEPT ![n + 1] = Get(p, id)] =
        [i \in 1 .. Len(v) |-> IF i = n + 1 THEN Get(p, id) ELSE Get(p, v[i])]
  BY <1>1 DEF Text
<1> QED
  BY <1>3, <1>4, <1>5

(* The texts of a stack of versions are a sequence, version for version. *)
LEMMA TextsType ==
  ASSUME NEW p, NEW vs \in Seq(Seq(GreenLineId))
  PROVE  /\ Texts(p, vs) \in Seq({Text(p, vs[k]) : k \in 1 .. Len(vs)})
         /\ Len(Texts(p, vs)) = Len(vs)
         /\ Texts(p, vs) = [k \in 1 .. Len(vs) |-> Text(p, vs[k])]
<1> DEFINE m == Len(vs)
           ts == Texts(p, vs)
           R == {Text(p, vs[k]) : k \in 1 .. m}
<1>1. m \in Nat /\ DOMAIN vs = 1 .. m
  OBVIOUS
<1>2. ts = [k \in 1 .. m |-> Text(p, vs[k])]
  BY <1>1 DEF Texts
<1>3. ts \in [1 .. m -> R]
  BY <1>2
<1> HIDE DEF m, ts, R
<1>4. ts \in Seq(R) /\ Len(ts) = m
  BY <1>1, <1>3
<1> QED
  BY <1>2, <1>4 DEF m, ts, R

(* The texts of a grown and of a shrunk stack of versions. *)
LEMMA TextsPush ==
  ASSUME NEW p, NEW vs \in Seq(Seq(GreenLineId)), NEW v \in Seq(GreenLineId)
  PROVE  Texts(p, Append(vs, v)) = Append(Texts(p, vs), Text(p, v))
<1> DEFINE m == Len(vs)
           us == Append(vs, v)
<1>1. m \in Nat /\ DOMAIN vs = 1 .. m
  OBVIOUS
<1>2. /\ DOMAIN us = 1 .. m + 1
      /\ \A k \in 1 .. m : us[k] = vs[k]
      /\ us[m + 1] = v
  OBVIOUS
<1>3. Texts(p, vs) = [k \in 1 .. m |-> Text(p, vs[k])]
  BY <1>1 DEF Texts
<1>4. Len(Texts(p, vs)) = m
  BY TextsType
<1> HIDE DEF m, us
<1>5. Append(Texts(p, vs), Text(p, v)) =
        [k \in 1 .. m + 1 |-> IF k = m + 1 THEN Text(p, v) ELSE Text(p, vs[k])]
  BY <1>1, <1>3, <1>4
<1>6. Texts(p, us) =
        [k \in 1 .. m + 1 |-> IF k = m + 1 THEN Text(p, v) ELSE Text(p, vs[k])]
  BY <1>1, <1>2 DEF Texts
<1> QED
  BY <1>5, <1>6 DEF us

(* Popping a version from a stack pops its text from the stack of texts.   *)
LEMMA TextsPop ==
  ASSUME NEW p, NEW vs \in Seq(Seq(GreenLineId)), vs # << >>
  PROVE  /\ Texts(p, vs) # << >>
         /\ Last(Texts(p, vs)) = Text(p, Last(vs))
         /\ Front(Texts(p, vs)) = Texts(p, Front(vs))
<1> DEFINE m == Len(vs)
           ts == Texts(p, vs)
<1>1. m \in Nat \ {0} /\ DOMAIN vs = 1 .. m
  BY StackFacts
<1> DEFINE R == {Text(p, vs[k]) : k \in 1 .. m}
<1>2. ts = [k \in 1 .. m |-> Text(p, vs[k])]
  BY TextsType
<1>3. ts \in Seq(R) /\ Len(ts) = m
  BY TextsType
<1>4. ts # << >>
  BY <1>1, <1>3
<1> HIDE DEF R
<1>5. /\ Last(ts) = ts[m]
      /\ Front(ts) \in Seq(R) /\ Len(Front(ts)) = m - 1
      /\ \A k \in 1 .. m - 1 : Front(ts)[k] = ts[k]
  BY <1>3, <1>4, StackFacts
<1>6. /\ Last(vs) = vs[m]
      /\ Front(vs) \in Seq(Seq(GreenLineId)) /\ Len(Front(vs)) = m - 1
      /\ \A k \in 1 .. m - 1 : Front(vs)[k] = vs[k]
  BY StackFacts
<1>7. Last(ts) = Text(p, Last(vs))
  BY <1>1, <1>2, <1>5, <1>6
<1>8. Texts(p, Front(vs)) = [k \in 1 .. m - 1 |-> Text(p, vs[k])]
  <2> DEFINE us == Front(vs)
  <2>1. us \in Seq(Seq(GreenLineId)) /\ Len(us) = m - 1
        /\ \A k \in 1 .. m - 1 : us[k] = vs[k]
    BY <1>6
  <2> HIDE DEF us, m
  <2>2. Texts(p, us) = [k \in 1 .. m - 1 |-> Text(p, us[k])]
    <3>1. Texts(p, us) = [k \in 1 .. Len(us) |-> Text(p, us[k])]
      BY <2>1, TextsType
    <3> QED
      BY <2>1, <3>1
  <2>3. Texts(p, us) = [k \in 1 .. m - 1 |-> Text(p, vs[k])]
    BY <2>1, <2>2
  <2> QED
    BY <2>3 DEF us
<1>9. Front(ts) = [k \in 1 .. m - 1 |-> Text(p, vs[k])]
  <2>1. Front(ts) = [k \in 1 .. m - 1 |-> Front(ts)[k]]
    BY <1>5
  <2>2. \A k \in 1 .. m - 1 : Front(ts)[k] = Text(p, vs[k])
    <3> HIDE DEF m, ts
    <3>1. \A k \in 1 .. m - 1 : k \in 1 .. m
      BY <1>1
    <3> QED
      BY <1>2, <1>5, <3>1
  <2> QED
    BY <2>1, <2>2
<1> QED
  BY <1>4, <1>7, <1>8, <1>9

(* The abstract state of the refinement. *)
APresent == [b \in Branches |-> Text(pool, lines[b])]
APast == [b \in Branches |-> Texts(pool, past[b])]
AFuture == [b \in Branches |-> Texts(pool, future[b])]

(* A stack of known versions shows the same texts as the pool grows. *)
LEMMA TextsStable ==
  ASSUME NEW p, NEW q, IsPool(p), IsPool(q), Extends(p, q),
         NEW vs \in Seq(Seq(GreenLineId)), AllKnown(p, vs)
  PROVE  /\ AllKnown(q, vs)
         /\ Texts(q, vs) = Texts(p, vs)
<1>1. ASSUME NEW k \in DOMAIN vs
      PROVE  Known(q, vs[k]) /\ Text(q, vs[k]) = Text(p, vs[k])
  <2>1. vs[k] \in Seq(GreenLineId)
    OBVIOUS
  <2> QED
    BY <2>1, KnownStable DEF AllKnown
<1> QED
  BY <1>1 DEF Texts, AllKnown

(* The function g is f with the value x at b. *)
IsUpdate(g, f, b, x) == g = [f EXCEPT ![b] = x]

(* A step that gives one branch new values changes the abstract state of   *)
(* that branch only, although the pool may have grown for all.             *)
LEMMA OneBranchMap ==
  ASSUME RInv, NEW b \in Branches, NEW l, NEW ps, NEW fs,
         lines' = [lines EXCEPT ![b] = l],
         past' = [past EXCEPT ![b] = ps],
         future' = [future EXCEPT ![b] = fs],
         IsPool(pool'), Extends(pool, pool'),
         Known(pool', l),
         AllKnown(pool', ps),
         AllKnown(pool', fs)
  PROVE  /\ KnownVersions'
         /\ IsUpdate(APresent', APresent, b, Text(pool', l))
         /\ IsUpdate(APast', APast, b, Texts(pool', ps))
         /\ IsUpdate(AFuture', AFuture, b, Texts(pool', fs))
<1>1. /\ IsPool(pool)
      /\ lines \in [Branches -> Seq(GreenLineId)]
      /\ past \in [Branches -> Seq(Seq(GreenLineId))]
      /\ future \in [Branches -> Seq(Seq(GreenLineId))]
  BY DEF RInv, HInv, HTypeOK, TypeOK, PoolTypeOK
<1>2. ASSUME NEW c \in Branches, c # b
      PROVE  /\ Known(pool', lines[c]) /\ Text(pool', lines[c]) = Text(pool, lines[c])
             /\ AllKnown(pool', past[c])
             /\ AllKnown(pool', future[c])
             /\ Texts(pool', past[c]) = Texts(pool, past[c])
             /\ Texts(pool', future[c]) = Texts(pool, future[c])
  <2>1. /\ Known(pool, lines[c])
        /\ AllKnown(pool, past[c])
        /\ AllKnown(pool, future[c])
    BY DEF RInv, KnownVersions
  <2>2. /\ lines[c] \in Seq(GreenLineId)
        /\ past[c] \in Seq(Seq(GreenLineId))
        /\ future[c] \in Seq(Seq(GreenLineId))
    BY <1>1
  <2> QED
    BY <1>1, <2>1, <2>2, KnownStable, TextsStable
<1>3. KnownVersions'
  BY <1>1, <1>2 DEF KnownVersions
<1>4. IsUpdate(APresent', APresent, b, Text(pool', l))
  BY <1>1, <1>2 DEF APresent, IsUpdate
<1>5. IsUpdate(APast', APast, b, Texts(pool', ps))
  BY <1>1, <1>2 DEF APast, IsUpdate
<1>6. IsUpdate(AFuture', AFuture, b, Texts(pool', fs))
  BY <1>1, <1>2 DEF AFuture, IsUpdate
<1> QED
  BY <1>3, <1>4, <1>5, <1>6

-----------------------------------------------------------------------------
(* The text u is one line edit away from t. *)
OneEditAway(t, u) ==
  \/ \E i \in 1 .. Len(t) + 1, s \in Content : u = Promise!InsertAt(t, i, s)
  \/ \E i \in 1 .. Len(t), s \in Content : u = [t EXCEPT ![i] = s]
  \/ \E i \in 1 .. Len(t) : u = Promise!RemoveAt(t, i)

(* What an accepted edit does to the text a reader sees. *)
EditsText(b, w) ==
  /\ lines' = [lines EXCEPT ![b] = w]
  /\ live' = live /\ b \in live
  /\ IsPool(pool') /\ IndexMatchesLines(pool') /\ Extends(pool, pool')
  /\ Known(pool', w)
  /\ IdsSuffice => OneEditAway(Text(pool, lines[b]), Text(pool', w))

(* The id intern returns leads to the interned content. *)
LEMMA IdOfResolves ==
  ASSUME NEW p, IsPool(p), IndexMatchesLines(p), IdsSuffice, NEW s \in Content
  PROVE  Get(Interned(p, s), IdOf(p, s)) = s
<1> DEFINE q == Interned(p, s)
<1>1. s \in DOMAIN q.index /\ q.index[s] = IdOf(p, s)
  BY DEF Interned, Added, IdOf
<1>2. IsPool(q) /\ IndexMatchesLines(q)
  BY InternedType, InternedMatches
<1>3. ResolvesIn(q)
  <2> HIDE DEF q
  <2> QED
    BY <1>2, MatchingPoolResolves
<1> QED
  BY <1>1, <1>3 DEF ResolvesIn

(* A pool that nothing was interned in extends itself.                     *)
LEMMA ExtendsItself == ASSUME NEW p, IsPool(p) PROVE Extends(p, p)
  BY DEF IsPool, Extends

(* Each of the three edits takes the text one line further. *)
LEMMA EditText ==
  ASSUME RInv, NEW b \in Branches, Edit(b)
  PROVE  \E w \in Seq(GreenLineId) : EditsText(b, w)
<1> DEFINE v == lines[b]
           t == Text(pool, v)
<1>1. /\ v \in Seq(GreenLineId) /\ IsPool(pool) /\ IndexMatchesLines(pool)
      /\ Known(pool, v)
  BY DEF RInv, HInv, HTypeOK, TypeOK, PoolTypeOK, InternedOnce, KnownVersions
<1>2. /\ t \in Seq(Content) /\ Len(t) = Len(v) /\ Len(v) \in Nat
  BY <1>1, TextType
<1>3. ASSUME NEW s \in Content
      PROVE  LET q == Interned(pool, s)
                 id == IdOf(pool, s)
             IN  /\ IsPool(q) /\ IndexMatchesLines(q) /\ Extends(pool, q)
                 /\ id \in GreenLineId /\ CanGet(q, id)
                 /\ IdsSuffice => Get(q, id) = s
                 /\ Known(q, v) /\ Text(q, v) = t
  <2>1. /\ IsPool(Interned(pool, s)) /\ IndexMatchesLines(Interned(pool, s))
        /\ Extends(pool, Interned(pool, s))
        /\ IdOf(pool, s) \in GreenLineId
        /\ CanGet(Interned(pool, s), IdOf(pool, s))
        /\ IdsSuffice => Get(Interned(pool, s), IdOf(pool, s)) = s
    BY <1>1, InternedType, InternedMatches, InternedExtends, InternedKnown,
       IdOfResolves
  <2>2. /\ Known(Interned(pool, s), v)
        /\ Text(Interned(pool, s), v) = t
    BY <1>1, <2>1, KnownStable
  <2> QED
    BY <2>1, <2>2
<1>4. ASSUME NEW n \in 0 .. MaxLines, NEW s \in Content, NEW a \in Validators,
             InsertLine(b, n, s, a)
      PROVE  \E w \in Seq(GreenLineId) : EditsText(b, w)
  <2> DEFINE q == Interned(pool, s)
             id == IdOf(pool, s)
             w == VecInsert(v, n, id)
  <2>1. n \in 0 .. Len(v) /\ pool' = q /\ lines' = [lines EXCEPT ![b] = w]
        /\ live' = live /\ b \in live
    BY <1>2, <1>4 DEF InsertLine, Intern
  <2>2. /\ IsPool(q) /\ IndexMatchesLines(q) /\ Extends(pool, q)
        /\ id \in GreenLineId /\ CanGet(q, id)
        /\ IdsSuffice => Get(q, id) = s
        /\ Known(q, v) /\ Text(q, v) = t
    BY <1>3
  <2> HIDE DEF q, id
  <2>3. w \in Seq(GreenLineId)
    BY <1>1, <2>1, <2>2, VecInsertFacts
  <2>4. Known(q, w) /\ Text(q, w) = VecInsert(t, n, Get(q, id))
    BY <1>1, <2>1, <2>2, TextInsert
  <2>5. ASSUME IdsSuffice PROVE OneEditAway(t, Text(q, w))
    <3>1. Text(q, w) = Promise!InsertAt(t, n + 1, s)
      BY <2>2, <2>4, <2>5 DEF VecInsert, InsertAt, Promise!InsertAt
    <3>2. n + 1 \in 1 .. Len(t) + 1
      BY <1>2, <2>1
    <3> QED
      BY <3>1, <3>2 DEF OneEditAway
  <2> QED
    BY <2>1, <2>2, <2>3, <2>4, <2>5 DEF EditsText
<1>5. ASSUME NEW n \in 0 .. MaxLines, NEW s \in Content, NEW a \in Validators,
             ReplaceLine(b, n, s, a)
      PROVE  \E w \in Seq(GreenLineId) : EditsText(b, w)
  <2> DEFINE q == Interned(pool, s)
             id == IdOf(pool, s)
             w == VecSet(v, n, id)
  <2>1. n \in 0 .. Len(v) - 1 /\ pool' = q /\ lines' = [lines EXCEPT ![b] = w]
        /\ live' = live /\ b \in live
    BY <1>2, <1>5 DEF ReplaceLine, Intern
  <2>2. /\ IsPool(q) /\ IndexMatchesLines(q) /\ Extends(pool, q)
        /\ id \in GreenLineId /\ CanGet(q, id)
        /\ IdsSuffice => Get(q, id) = s
        /\ Known(q, v) /\ Text(q, v) = t
    BY <1>3
  <2> HIDE DEF q, id
  <2>3. w \in Seq(GreenLineId)
    BY <1>1, <2>1, <2>2, VecSetFacts
  <2>4. Known(q, w) /\ Text(q, w) = [t EXCEPT ![n + 1] = Get(q, id)]
    BY <1>1, <2>1, <2>2, TextSet
  <2>5. ASSUME IdsSuffice PROVE OneEditAway(t, Text(q, w))
    <3>1. Text(q, w) = [t EXCEPT ![n + 1] = s]
      BY <2>2, <2>4, <2>5
    <3>2. n + 1 \in 1 .. Len(t)
      BY <1>2, <2>1
    <3> QED
      BY <3>1, <3>2 DEF OneEditAway
  <2> QED
    BY <2>1, <2>2, <2>3, <2>4, <2>5 DEF EditsText
<1>6. ASSUME NEW n \in 0 .. MaxLines, DeleteLine(b, n)
      PROVE  \E w \in Seq(GreenLineId) : EditsText(b, w)
  <2> DEFINE w == VecRemove(v, n)
  <2>1. n \in 0 .. Len(v) - 1 /\ pool' = pool /\ lines' = [lines EXCEPT ![b] = w]
        /\ live' = live /\ b \in live
    BY <1>2, <1>6 DEF DeleteLine
  <2>2. w \in Seq(GreenLineId)
    BY <1>1, <2>1, VecRemoveFacts
  <2>3. Known(pool, w) /\ Text(pool, w) = VecRemove(t, n)
    BY <1>1, <2>1, TextRemove
  <2>4. OneEditAway(t, Text(pool, w))
    <3>1. Text(pool, w) = Promise!RemoveAt(t, n + 1)
      BY <2>3 DEF VecRemove, RemoveAt, Promise!RemoveAt
    <3>2. n + 1 \in 1 .. Len(t)
      BY <1>2, <2>1
    <3> QED
      BY <3>1, <3>2 DEF OneEditAway
  <2>5. Extends(pool, pool)
    BY <1>1, ExtendsItself
  <2> QED
    BY <1>1, <2>1, <2>2, <2>3, <2>4, <2>5 DEF EditsText
<1> QED
  BY <1>4, <1>5, <1>6 DEF Edit

-----------------------------------------------------------------------------
(* The parts of the invariant, for one branch. *)
LEMMA BranchFacts ==
  ASSUME RInv, NEW b \in Branches
  PROVE  /\ lines[b] \in Seq(GreenLineId)
         /\ past[b] \in Seq(Seq(GreenLineId))
         /\ future[b] \in Seq(Seq(GreenLineId))
         /\ undo_stack[b] \in Seq(BranchEdit)
         /\ redo_stack[b] \in Seq(BranchEdit)
         /\ UndoLinked(undo_stack[b], past[b], lines[b])
         /\ RedoLinked(redo_stack[b], future[b], lines[b])
         /\ Known(pool, lines[b])
         /\ AllKnown(pool, past[b])
         /\ AllKnown(pool, future[b])
         /\ APresent[b] = Text(pool, lines[b])
         /\ APast[b] = Texts(pool, past[b])
         /\ AFuture[b] = Texts(pool, future[b])
  BY DEF RInv, HInv, HTypeOK, TypeOK, UndoChain, RedoChain, KnownVersions,
         APresent, APast, AFuture

(* What the invariant says of the pool, before and after a step.           *)
LEMMA PoolFacts ==
  ASSUME RInv
  PROVE  IsPool(pool) /\ IndexMatchesLines(pool) /\ Extends(pool, pool)
  BY ExtendsItself
  DEF RInv, HInv, HTypeOK, TypeOK, PoolTypeOK, InternedOnce

(* Pushing a known version on a stack of known versions. *)
LEMMA KnownPush ==
  ASSUME NEW p, NEW vs \in Seq(Seq(GreenLineId)), NEW v \in Seq(GreenLineId),
         AllKnown(p, vs), Known(p, v)
  PROVE  AllKnown(p, Append(vs, v))
<1>1. \A k \in DOMAIN Append(vs, v) :
        \/ k \in DOMAIN vs /\ Append(vs, v)[k] = vs[k]
        \/ Append(vs, v)[k] = v
  OBVIOUS
<1> QED
  BY <1>1 DEF AllKnown

(* Popping a stack of known versions. *)
LEMMA KnownPop ==
  ASSUME NEW p, NEW vs \in Seq(Seq(GreenLineId)), vs # << >>,
         AllKnown(p, vs)
  PROVE  /\ Last(vs) \in Seq(GreenLineId) /\ Known(p, Last(vs))
         /\ Front(vs) \in Seq(Seq(GreenLineId))
         /\ AllKnown(p, Front(vs))
<1>1. /\ Len(vs) \in Nat \ {0}
      /\ Last(vs) = vs[Len(vs)] /\ Last(vs) \in Seq(GreenLineId)
      /\ Front(vs) \in Seq(Seq(GreenLineId)) /\ Len(Front(vs)) = Len(vs) - 1
      /\ \A k \in 1 .. Len(vs) - 1 : Front(vs)[k] = vs[k]
  BY StackFacts
<1>2. DOMAIN Front(vs) = 1 .. Len(vs) - 1 /\ DOMAIN vs = 1 .. Len(vs)
  BY <1>1
<1>3. Known(p, Last(vs))
  BY <1>1, <1>2 DEF AllKnown
<1>4. AllKnown(p, Front(vs))
  <2> SUFFICES ASSUME NEW k \in 1 .. Len(vs) - 1 PROVE Known(p, Front(vs)[k])
    BY <1>2 DEF AllKnown
  <2>1. k \in DOMAIN vs
    BY <1>1, <1>2
  <2> QED
    BY <1>1, <2>1 DEF AllKnown
<1> QED
  BY <1>1, <1>3, <1>4

(* A branch starts: on no lines, or on its parent's. *)
LEMMA StartMap ==
  ASSUME RInv, NEW b \in Branches, HStart(b)
  PROVE  /\ InternedOnce' /\ KnownVersions'
         /\ \/ Promise!Start(b, << >>)
            \/ \E c \in live : Promise!Start(b, APresent[c])
<1> DEFINE none == << >>
<1>1. /\ AllKnown(pool, none)
      /\ Known(pool, none) /\ Text(pool, none) = << >> /\ Texts(pool, none) = << >>
  BY DEF Known, AllKnown, Text, Texts
<1>2. pool' = pool /\ InternedOnce'
  BY PoolFacts DEF HStart, New, Fork, InternedOnce
<1>3. /\ past' = [past EXCEPT ![b] = none]
      /\ future' = [future EXCEPT ![b] = none]
  BY DEF HStart
<1> HIDE DEF none
<1>4. ASSUME NEW l, Known(pool, l), lines' = [lines EXCEPT ![b] = l]
      PROVE  /\ KnownVersions'
             /\ IsUpdate(APresent', APresent, b, Text(pool, l))
             /\ IsUpdate(APast', APast, b, << >>)
             /\ IsUpdate(AFuture', AFuture, b, << >>)
  <2>1. /\ KnownVersions'
        /\ IsUpdate(APresent', APresent, b, Text(pool', l))
        /\ IsUpdate(APast', APast, b, Texts(pool', none))
        /\ IsUpdate(AFuture', AFuture, b, Texts(pool', none))
    BY <1>1, <1>2, <1>3, <1>4, PoolFacts, OneBranchMap
  <2> QED
    BY <1>1, <1>2, <2>1
<1>5. CASE New(b)
  <2>1. lines' = [lines EXCEPT ![b] = none]
    BY <1>5 DEF New, none
  <2>2. /\ KnownVersions'
        /\ IsUpdate(APresent', APresent, b, << >>)
        /\ IsUpdate(APast', APast, b, << >>)
        /\ IsUpdate(AFuture', AFuture, b, << >>)
    BY <1>1, <1>4, <2>1
  <2>3. Promise!Start(b, << >>)
    BY <1>5, <2>2 DEF New, Promise!Start, APresent, APast, AFuture, IsUpdate
  <2> QED
    BY <1>2, <2>2, <2>3
<1>6. ASSUME NEW c \in Branches, Fork(c, b)
      PROVE  /\ KnownVersions'
             /\ c \in live /\ Promise!Start(b, APresent[c])
  <2>1. lines' = [lines EXCEPT ![b] = lines[c]] /\ c \in live
    BY <1>6 DEF Fork
  <2>2. Known(pool, lines[c]) /\ APresent[c] = Text(pool, lines[c])
    BY BranchFacts
  <2>3. /\ KnownVersions'
        /\ IsUpdate(APresent', APresent, b, APresent[c])
        /\ IsUpdate(APast', APast, b, << >>)
        /\ IsUpdate(AFuture', AFuture, b, << >>)
    BY <1>4, <2>1, <2>2
  <2>4. Promise!Start(b, APresent[c])
    BY <1>6, <2>3 DEF Fork, Promise!Start, APresent, APast, AFuture, IsUpdate
  <2> QED
    BY <2>1, <2>3, <2>4
<1> QED
  BY <1>2, <1>5, <1>6 DEF HStart

(* An accepted edit is an edit of the text. *)
LEMMA EditMap ==
  ASSUME RInv, NEW b \in Branches, HEdit(b)
  PROVE  /\ InternedOnce' /\ KnownVersions'
         /\ IdsSuffice => Promise!EditLine(b)
<1> DEFINE v == lines[b]
           none == << >>
<1>1. PICK w \in Seq(GreenLineId) : EditsText(b, w)
  BY EditText DEF HEdit
<1>2. /\ lines' = [lines EXCEPT ![b] = w]
      /\ past' = [past EXCEPT ![b] = Append(past[b], v)]
      /\ future' = [future EXCEPT ![b] = none]
      /\ live' = live /\ b \in live
      /\ IsPool(pool') /\ IndexMatchesLines(pool') /\ Extends(pool, pool')
      /\ Known(pool', w)
      /\ IdsSuffice => OneEditAway(Text(pool, v), Text(pool', w))
  BY <1>1 DEF EditsText, HEdit
<1>3. /\ AllKnown(pool', none)
      /\ Texts(pool', none) = << >>
  BY DEF Texts, AllKnown
<1> HIDE DEF none
<1>4. /\ v \in Seq(GreenLineId) /\ past[b] \in Seq(Seq(GreenLineId))
      /\ Known(pool, v) /\ AllKnown(pool, past[b])
      /\ APresent[b] = Text(pool, v) /\ APast[b] = Texts(pool, past[b])
  BY BranchFacts
<1>5. /\ Known(pool', v) /\ Text(pool', v) = Text(pool, v)
      /\ AllKnown(pool', past[b])
      /\ Texts(pool', past[b]) = Texts(pool, past[b])
  BY <1>2, <1>4, PoolFacts, KnownStable, TextsStable
<1>6. AllKnown(pool', Append(past[b], v))
  BY <1>4, <1>5, KnownPush
<1>7. Texts(pool', Append(past[b], v)) = Append(APast[b], APresent[b])
  BY <1>4, <1>5, TextsPush
<1> HIDE DEF v
<1>8. /\ KnownVersions'
      /\ IsUpdate(APresent', APresent, b, Text(pool', w))
      /\ IsUpdate(APast', APast, b, Append(APast[b], APresent[b]))
      /\ IsUpdate(AFuture', AFuture, b, << >>)
  <2>1. /\ KnownVersions'
        /\ IsUpdate(APresent', APresent, b, Text(pool', w))
        /\ IsUpdate(APast', APast, b, Texts(pool', Append(past[b], v)))
        /\ IsUpdate(AFuture', AFuture, b, Texts(pool', none))
    BY <1>2, <1>3, <1>6, OneBranchMap
  <2> QED
    BY <1>3, <1>7, <2>1
<1>9. ASSUME IdsSuffice PROVE Promise!EditLine(b)
  <2>1. Promise!Edit(b, Text(pool', w))
    BY <1>2, <1>8 DEF Promise!Edit, APresent, APast, AFuture, IsUpdate
  <2>2. OneEditAway(APresent[b], Text(pool', w))
    BY <1>2, <1>4, <1>9
  <2> DEFINE t == Text(pool', w)
             u == APresent[b]
  <2> HIDE DEF t
  <2>3. Promise!Edit(b, t) /\ OneEditAway(u, t)
    BY <2>1, <2>2 DEF t
  <2>4. [c \in Branches |-> Text(pool, lines[c])][b] = u
    BY DEF APresent
  <2> HIDE DEF u
  <2>5. CASE \E i \in 1 .. Len(u) + 1, s \in Content : t = Promise!InsertAt(u, i, s)
    BY <2>3, <2>4, <2>5 DEF Promise!EditLine
  <2>6. CASE \E i \in 1 .. Len(u), s \in Content : t = [u EXCEPT ![i] = s]
    <3>1. \E i \in 1 .. Len(u), s \in Content : Promise!Edit(b, [u EXCEPT ![i] = s])
      BY <2>3, <2>6, Zenon
    <3> QED
      BY <2>4, <3>1 DEF Promise!EditLine
  <2>7. CASE \E i \in 1 .. Len(u) : t = Promise!RemoveAt(u, i)
    BY <2>3, <2>4, <2>7 DEF Promise!EditLine
  <2> QED
    BY <2>3, <2>5, <2>6, <2>7 DEF OneEditAway
<1> QED
  BY <1>2, <1>8, <1>9 DEF InternedOnce

(* An undo goes back to the text before, a redo forward to the text after. *)
LEMMA UndoMap ==
  ASSUME RInv, NEW b \in Branches, HUndo(b)
  PROVE  InternedOnce' /\ KnownVersions' /\ Promise!Undo(b)
<1> DEFINE v == lines[b]
           l == Last(past[b])
           ps == Front(past[b])
           fs == Append(future[b], v)
<1>1. undo_stack[b] # << >> /\ b \in live /\ live' = live /\ pool' = pool
  BY DEF HUndo, Undo
<1>2. past[b] # << >> /\ Links(Last(undo_stack[b]), l, v)
  BY <1>1, BranchFacts, PopUndo
<1>3. l = Undone(v, Last(undo_stack[b]))
  BY <1>2 DEF Links
<1>4. /\ lines' = [lines EXCEPT ![b] = l]
      /\ past' = [past EXCEPT ![b] = ps]
      /\ future' = [future EXCEPT ![b] = fs]
  BY <1>3 DEF HUndo, Undo
<1>5. /\ Known(pool, l) /\ AllKnown(pool, ps)
      /\ AllKnown(pool, fs)
  BY <1>2, BranchFacts, KnownPop, KnownPush
<1>6. /\ APast[b] # << >>
      /\ Text(pool, l) = Last(APast[b])
      /\ Texts(pool, ps) = Front(APast[b])
      /\ Texts(pool, fs) = Append(AFuture[b], APresent[b])
  <2>1. /\ past[b] \in Seq(Seq(GreenLineId)) /\ APast[b] = Texts(pool, past[b])
        /\ future[b] \in Seq(Seq(GreenLineId)) /\ AFuture[b] = Texts(pool, future[b])
        /\ v \in Seq(GreenLineId) /\ APresent[b] = Text(pool, v)
    BY BranchFacts
  <2>2. /\ APast[b] # << >>
        /\ Text(pool, l) = Last(APast[b])
        /\ Texts(pool, ps) = Front(APast[b])
    BY <1>2, <2>1, TextsPop
  <2>3. Texts(pool, fs) = Append(AFuture[b], APresent[b])
    BY <2>1, TextsPush
  <2> QED
    BY <2>2, <2>3
<1> HIDE DEF v, l, ps, fs
<1>7. /\ KnownVersions'
      /\ IsUpdate(APresent', APresent, b, Last(APast[b]))
      /\ IsUpdate(APast', APast, b, Front(APast[b]))
      /\ IsUpdate(AFuture', AFuture, b, Append(AFuture[b], APresent[b]))
  <2>1. /\ KnownVersions'
        /\ IsUpdate(APresent', APresent, b, Text(pool', l))
        /\ IsUpdate(APast', APast, b, Texts(pool', ps))
        /\ IsUpdate(AFuture', AFuture, b, Texts(pool', fs))
    BY <1>1, <1>4, <1>5, PoolFacts, OneBranchMap
  <2> QED
    BY <1>1, <1>6, <2>1
<1>8. Promise!Undo(b)
  BY <1>1, <1>6, <1>7
  DEF Promise!Undo, Promise!Last, Promise!Front, Last, Front,
      APresent, APast, AFuture, IsUpdate
<1> QED
  BY <1>1, <1>7, <1>8, PoolFacts DEF InternedOnce

(* A redo of a branch is a redo of its texts.                              *)
LEMMA RedoMap ==
  ASSUME RInv, NEW b \in Branches, HRedo(b)
  PROVE  InternedOnce' /\ KnownVersions' /\ Promise!Redo(b)
<1> DEFINE v == lines[b]
           l == Last(future[b])
           fs == Front(future[b])
           ps == Append(past[b], v)
<1>1. redo_stack[b] # << >> /\ b \in live /\ live' = live /\ pool' = pool
  BY DEF HRedo, Redo
<1>2. future[b] # << >> /\ Links(Last(redo_stack[b]), v, l)
  BY <1>1, BranchFacts, PopRedo
<1>3. l = Redone(v, Last(redo_stack[b]))
  BY <1>2 DEF Links
<1>4. /\ lines' = [lines EXCEPT ![b] = l]
      /\ past' = [past EXCEPT ![b] = ps]
      /\ future' = [future EXCEPT ![b] = fs]
  BY <1>3 DEF HRedo, Redo
<1>5. /\ Known(pool, l) /\ AllKnown(pool, fs)
      /\ AllKnown(pool, ps)
  BY <1>2, BranchFacts, KnownPop, KnownPush
<1>6. /\ AFuture[b] # << >>
      /\ Text(pool, l) = Last(AFuture[b])
      /\ Texts(pool, fs) = Front(AFuture[b])
      /\ Texts(pool, ps) = Append(APast[b], APresent[b])
  <2>1. /\ future[b] \in Seq(Seq(GreenLineId)) /\ AFuture[b] = Texts(pool, future[b])
        /\ past[b] \in Seq(Seq(GreenLineId)) /\ APast[b] = Texts(pool, past[b])
        /\ v \in Seq(GreenLineId) /\ APresent[b] = Text(pool, v)
    BY BranchFacts
  <2>2. /\ AFuture[b] # << >>
        /\ Text(pool, l) = Last(AFuture[b])
        /\ Texts(pool, fs) = Front(AFuture[b])
    BY <1>2, <2>1, TextsPop
  <2>3. Texts(pool, ps) = Append(APast[b], APresent[b])
    BY <2>1, TextsPush
  <2> QED
    BY <2>2, <2>3
<1> HIDE DEF v, l, ps, fs
<1>7. /\ KnownVersions'
      /\ IsUpdate(APresent', APresent, b, Last(AFuture[b]))
      /\ IsUpdate(AFuture', AFuture, b, Front(AFuture[b]))
      /\ IsUpdate(APast', APast, b, Append(APast[b], APresent[b]))
  <2>1. /\ KnownVersions'
        /\ IsUpdate(APresent', APresent, b, Text(pool', l))
        /\ IsUpdate(AFuture', AFuture, b, Texts(pool', fs))
        /\ IsUpdate(APast', APast, b, Texts(pool', ps))
    BY <1>1, <1>4, <1>5, PoolFacts, OneBranchMap
  <2> QED
    BY <1>1, <1>6, <2>1
<1>8. Promise!Redo(b)
  BY <1>1, <1>6, <1>7
  DEF Promise!Redo, Promise!Last, Promise!Front, Last, Front,
      APresent, APast, AFuture, IsUpdate
<1> QED
  BY <1>1, <1>7, <1>8, PoolFacts DEF InternedOnce

(* The invariant holds at first.                                           *)
LEMMA RefinementInit == ASSUME HInit PROVE RInv
<1>1. InternedOnce /\ KnownVersions
  BY EmptyPoolFacts
  DEF HInit, Init, PoolInit, InternedOnce, KnownVersions, Known, AllKnown
<1> QED
  BY <1>1, HistoryInit DEF RInv

(* Every step of every branch keeps it.                                    *)
LEMMA RefinementStep == ASSUME RInv, [HNext]_hvars PROVE RInv'
<1>1. HInv'
  BY HistoryStep DEF RInv
<1>2. CASE UNCHANGED hvars
  BY <1>1, <1>2
  DEF hvars, vars, branchVars, RInv, InternedOnce, KnownVersions
<1>3. CASE HNext
  BY <1>1, <1>3, StartMap, EditMap, UndoMap, RedoMap DEF HNext, RInv
<1> QED
  BY <1>2, <1>3

-----------------------------------------------------------------------------
(* The pool stays in order and knows every version of every branch,        *)
(* however narrow the ids are.                                             *)
THEOREM RefinementInvariant == HSpec => []RInv
<1>1. RInv /\ [HNext]_hvars => RInv'
  BY RefinementStep
<1> QED
  BY <1>1, RefinementInit, PTL DEF HSpec

(* The ids an edit carries are ids of the versions it links. *)
LEMMA LinkedIds ==
  ASSUME NEW e \in BranchEdit,
         NEW v \in Seq(GreenLineId), NEW w \in Seq(GreenLineId),
         Links(e, v, w)
  PROVE  \A id \in IdsOf(e) : id \in Range(v) \/ id \in Range(w)
<1>1. e.at \in Nat /\ Len(v) \in Nat /\ Len(w) \in Nat
  BY DEF BranchEdit
<1>2. /\ \A i \in 1 .. Len(v) : v[i] \in Range(v)
      /\ \A i \in 1 .. Len(w) : w[i] \in Range(w)
  BY DEF Range
<1>3. CASE e.kind = "Insert"
  <2>1. e.id \in GreenLineId /\ e.at \in 0 .. Len(v)
    BY <1>1, <1>3 DEF BranchEdit, Links, CanRedo
  <2>2. w = VecInsert(v, e.at, e.id)
    BY <1>3 DEF Links, Redone
  <2>3. Len(w) = Len(v) + 1 /\ w[e.at + 1] = e.id
    BY <2>1, <2>2, InsertedThere
  <2>4. e.at + 1 \in 1 .. Len(w)
    BY <1>1, <2>1, <2>3
  <2> QED
    BY <1>2, <1>3, <2>3, <2>4 DEF IdsOf
<1>4. CASE e.kind = "Delete"
  <2>1. e.id \in GreenLineId /\ e.at \in 0 .. Len(w)
    BY <1>1, <1>4 DEF BranchEdit, Links, CanUndo
  <2>2. v = VecInsert(w, e.at, e.id)
    BY <1>4 DEF Links, Undone
  <2>3. Len(v) = Len(w) + 1 /\ v[e.at + 1] = e.id
    BY <2>1, <2>2, InsertedThere
  <2>4. e.at + 1 \in 1 .. Len(v)
    BY <1>1, <2>1, <2>3
  <2> QED
    BY <1>2, <1>4, <2>3, <2>4 DEF IdsOf
<1>5. CASE e.kind = "Replace"
  <2>1. e.at + 1 \in 1 .. Len(v) /\ e.at + 1 \in 1 .. Len(w)
    BY <1>1, <1>5 DEF Links, CanRedo, CanUndo
  <2>2. w = VecSet(v, e.at, e.new_id) /\ v = VecSet(w, e.at, e.old_id)
    BY <1>5 DEF Links, Redone, Undone
  <2>3. w[e.at + 1] = e.new_id /\ v[e.at + 1] = e.old_id
    BY <2>1, <2>2 DEF VecSet
  <2> QED
    BY <1>2, <1>5, <2>1, <2>3 DEF IdsOf
<1> QED
  BY <1>3, <1>4, <1>5 DEF BranchEdit

(* No id a branch can show makes get panic, however narrow the ids are.    *)
THEOREM NeverDangles == HSpec => []NoDanglingId
<1>1. RInv => NoDanglingId
  <2> SUFFICES ASSUME RInv, NEW b \in live, NEW id \in ReachableIds(b)
               PROVE  CanGet(pool, id)
    BY DEF NoDanglingId
  <2>1. b \in Branches
    BY DEF RInv, HInv, HTypeOK, TypeOK
  <2>2. /\ lines[b] \in Seq(GreenLineId) /\ Known(pool, lines[b])
        /\ past[b] \in Seq(Seq(GreenLineId)) /\ AllKnown(pool, past[b])
        /\ future[b] \in Seq(Seq(GreenLineId)) /\ AllKnown(pool, future[b])
        /\ undo_stack[b] \in Seq(BranchEdit) /\ redo_stack[b] \in Seq(BranchEdit)
        /\ UndoLinked(undo_stack[b], past[b], lines[b])
        /\ RedoLinked(redo_stack[b], future[b], lines[b])
    BY <2>1, BranchFacts
  <2>3. CASE id \in Range(lines[b])
    BY <2>2, <2>3 DEF Range, Known
  <2>4. ASSUME NEW vs \in Seq(Seq(GreenLineId)), AllKnown(pool, vs),
               NEW k \in 1 .. Len(vs)
        PROVE  /\ vs[k] \in Seq(GreenLineId) /\ Known(pool, vs[k])
               /\ After(vs, k, lines[b]) \in Seq(GreenLineId)
               /\ Known(pool, After(vs, k, lines[b]))
    <3>1. vs[k] \in Seq(GreenLineId) /\ Known(pool, vs[k])
      BY <2>4 DEF AllKnown
    <3>2. CASE k = Len(vs)
      BY <2>2, <3>1, <3>2 DEF After
    <3>3. CASE k # Len(vs)
      <4>1. k + 1 \in 1 .. Len(vs) /\ k + 1 \in DOMAIN vs
        BY <3>3
      <4>2. vs[k + 1] \in Seq(GreenLineId) /\ Known(pool, vs[k + 1])
        BY <2>4, <4>1 DEF AllKnown
      <4> QED
        BY <3>1, <3>3, <4>2 DEF After
    <3> QED
      BY <3>2, <3>3
  <2>5. ASSUME NEW e \in Range(undo_stack[b]), id \in IdsOf(e)
        PROVE  CanGet(pool, id)
    <3>1. PICK k \in 1 .. Len(past[b]) : e = undo_stack[b][k]
      <4>1. DOMAIN undo_stack[b] = 1 .. Len(past[b])
        BY <2>2 DEF UndoLinked
      <4> QED
        BY <4>1 DEF Range
    <3>2. Links(e, past[b][k], After(past[b], k, lines[b])) /\ e \in BranchEdit
      BY <2>2, <3>1 DEF UndoLinked
    <3>3. id \in Range(past[b][k]) \/ id \in Range(After(past[b], k, lines[b]))
      BY <2>2, <2>4, <2>5, <3>2, LinkedIds
    <3> QED
      BY <2>2, <2>4, <3>3 DEF Known, Range
  <2>6. ASSUME NEW e \in Range(redo_stack[b]), id \in IdsOf(e)
        PROVE  CanGet(pool, id)
    <3>1. PICK k \in 1 .. Len(future[b]) : e = redo_stack[b][k]
      <4>1. DOMAIN redo_stack[b] = 1 .. Len(future[b])
        BY <2>2 DEF RedoLinked
      <4> QED
        BY <4>1 DEF Range
    <3>2. Links(e, After(future[b], k, lines[b]), future[b][k]) /\ e \in BranchEdit
      BY <2>2, <3>1 DEF RedoLinked
    <3>3. id \in Range(After(future[b], k, lines[b])) \/ id \in Range(future[b][k])
      BY <2>2, <2>4, <2>6, <3>2, LinkedIds
    <3> QED
      BY <2>2, <2>4, <3>3 DEF Known, Range
  <2> QED
    BY <2>3, <2>5, <2>6 DEF ReachableIds
<1> QED
  BY <1>1, RefinementInvariant, PTL

(* Every step of every branch is one of the undo history, or none.         *)
LEMMA RefinementMap ==
  ASSUME IdsSuffice, RInv, [HNext]_hvars
  PROVE  Promise!Next \/ UNCHANGED Promise!vars
<1>1. ASSUME NEW b \in Branches, HStart(b)
      PROVE  Promise!Next
  <2>1. \/ Promise!Start(b, << >>)
        \/ \E c \in live : Promise!Start(b, APresent[c])
    BY <1>1, StartMap
  <2> QED
    BY <2>1 DEF Promise!Next, APresent
<1>2. ASSUME NEW b \in Branches, HEdit(b)
      PROVE  Promise!Next
  BY <1>2, EditMap DEF Promise!Next
<1>3. ASSUME NEW b \in Branches, HUndo(b)
      PROVE  Promise!Next
  BY <1>3, UndoMap DEF Promise!Next
<1>4. ASSUME NEW b \in Branches, HRedo(b)
      PROVE  Promise!Next
  BY <1>4, RedoMap DEF Promise!Next
<1>5. CASE UNCHANGED hvars
  BY <1>5 DEF hvars, vars, branchVars, Promise!vars
<1> QED
  BY <1>1, <1>2, <1>3, <1>4, <1>5 DEF HNext

(* No history yet.                                                         *)
LEMMA RefinementStart == ASSUME HInit PROVE Promise!Init
  BY DEF HInit, Init, Promise!Init, Text, Texts

(***************************************************************************)
(* The branches implement the undo history of whole texts (UndoHistory),   *)
(* if the ids suffice for the contents.                                    *)
(***************************************************************************)
THEOREM BranchesImplementHistory ==
  ASSUME IdsSuffice PROVE HSpec => ImplementsUndoHistory
<1>1. RInv /\ [HNext]_hvars => [Promise!Next]_Promise!vars
  BY RefinementMap
<1> QED
  BY <1>1, RefinementStart, RefinementInvariant, PTL
  DEF HSpec, ImplementsUndoHistory, Promise!Spec
=============================================================================
