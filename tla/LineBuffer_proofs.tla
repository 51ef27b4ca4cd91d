------------------------- MODULE LineBuffer_proofs -------------------------
(***************************************************************************)
(* A load reports the first line that is rejected; the root of a buffer    *)
(* leads back to the text that was loaded and no further, and never to a   *)
(* line its validator rejects, for every source, validator and number of   *)
(* forks.                                                                  *)
(***************************************************************************)
EXTENDS LineBuffer, BranchHistory_proofs

(* The validator's answers on the first n lines of the source. *)
AcceptedUpTo(n) == \A j \in 1 .. n : src[j] \in validator

(* The error is made of the first of the n lines that is rejected. *)
FirstRejected(n) ==
  \E k \in 1 .. n :
    src[k] \notin validator /\ error = EncodingError(src[k]) /\ AcceptedUpTo(k - 1)

(***************************************************************************)
(* What is known of the lines looked at so far.                            *)
(***************************************************************************)
LoadInv ==
  /\ src \in Seq(Content) /\ loaded \in 0 .. Len(src) /\ validator \subseteq Content
  /\ phase \in Loaders \cup {"open", "rejected"}
  /\ error = NoError => AcceptedUpTo(loaded)
  /\ error # NoError => FirstRejected(loaded)
  /\ phase = "open" => error = NoError /\ loaded = Len(src)
  /\ phase = "rejected" => error # NoError

LEMMA LoadInitially == ASSUME LInit PROVE LoadInv
<1>1. /\ src \in Seq(Content) /\ loaded = 0 /\ error = NoError /\ phase \in Loaders
  BY SourcesAssumption DEF LInit
<1>2. validator \subseteq Content
  BY DEF LInit, EncodingValidators, Utf8Validator, AsciiValidator, CallerValidator
<1>3. phase # "open" /\ phase # "rejected" /\ phase \in Loaders \cup {"open", "rejected"}
  BY <1>1 DEF Loaders
<1>4. loaded \in 0 .. Len(src) /\ AcceptedUpTo(loaded)
  BY <1>1 DEF AcceptedUpTo
<1> QED
  BY <1>1, <1>2, <1>3, <1>4 DEF LoadInv

(* No step breaks it. *)
LEMMA LoadingStep == ASSUME LoadInv, [LNext]_lvars PROVE LoadInv'
<1>1. /\ src \in Seq(Content) /\ Len(src) \in Nat /\ loaded \in Nat /\ loaded <= Len(src)
  BY DEF LoadInv
<1>2. CASE LoadLine
  <2> DEFINE line == src[loaded + 1]
  <2>1. /\ phase \in Loaders /\ loaded < Len(src) /\ loaded' = loaded + 1
        /\ validator' = validator /\ src' = src
    BY <1>2 DEF LoadLine, Offers
  <2>2. loaded + 1 \in 1 .. Len(src) /\ line \in Content /\ loaded' \in 0 .. Len(src)
        /\ (loaded + 1) - 1 = loaded
    BY <1>1, <2>1
  <2>3. CASE Ignores
    <3>1. error' = error /\ phase' = phase /\ error # NoError
      BY <1>2, <2>3 DEF LoadLine, Ignores
    <3>2. PICK k \in 1 .. loaded :
            src[k] \notin validator /\ error = EncodingError(src[k]) /\ AcceptedUpTo(k - 1)
      BY <3>1 DEF LoadInv, FirstRejected
    <3>3. k \in 1 .. loaded'
      BY <1>1, <2>1
    <3>4. FirstRejected(loaded)'
      BY <2>1, <3>1, <3>2, <3>3 DEF FirstRejected, AcceptedUpTo
    <3> QED
      BY <2>1, <2>2, <3>1, <3>4 DEF LoadInv, Loaders
  <2>4. CASE ~Ignores /\ line \in validator
    <3>1. error' = error /\ phase' = phase /\ error = NoError
      BY <1>2, <2>4 DEF LoadLine, Ignores, AcceptLine, Offered
    <3>2. AcceptedUpTo(loaded)
      BY <3>1 DEF LoadInv
    <3>3. \A j \in 1 .. loaded + 1 : j \in 1 .. loaded \/ j = loaded + 1
      BY <1>1
    <3>4. AcceptedUpTo(loaded)'
      BY <2>1, <2>4, <3>2, <3>3 DEF AcceptedUpTo
    <3> QED
      BY <2>1, <2>2, <3>1, <3>4 DEF LoadInv, Loaders
  <2>5. CASE ~Ignores /\ line \notin validator
    <3>1. /\ error' = EncodingError(line) /\ error = NoError
          /\ phase' = phase \/ phase' = "rejected"
      BY <1>2, <2>5 DEF LoadLine, Ignores, RejectLine, ReturnError, Offered
    <3>2. error' # NoError
      BY <2>2, <3>1, NoErrorAssumption
    <3>3. AcceptedUpTo(loaded)
      BY <3>1 DEF LoadInv
    <3>4. loaded + 1 \in 1 .. loaded'
      BY <1>1, <2>1
    <3>5. FirstRejected(loaded)'
      BY <2>1, <2>2, <2>5, <3>1, <3>3, <3>4 DEF FirstRejected, AcceptedUpTo
    <3> QED
      BY <2>1, <2>2, <3>1, <3>2, <3>5 DEF LoadInv, Loaders
  <2> QED
    BY <2>3, <2>4, <2>5
<1>3. CASE Open
  <2>1. /\ loaded = Len(src) /\ UNCHANGED <<validator, src, loaded, error>>
        /\ \/ error = NoError /\ phase' = "open"
           \/ error # NoError /\ phase' = "rejected"
    BY <1>3 DEF Open, ReturnBuffer, ReturnError
  <2> QED
    BY <1>1, <2>1 DEF LoadInv, AcceptedUpTo, FirstRejected
<1>4. CASE UNCHANGED loadVars
  BY <1>4 DEF loadVars, LoadInv, AcceptedUpTo, FirstRejected
<1> QED
  BY <1>2, <1>3, <1>4 DEF LNext, lvars

THEOREM LoadingInvariant == LSpec => []LoadInv
<1>1. LoadInv /\ [LNext]_lvars => LoadInv'
  BY LoadingStep
<1> QED
  BY <1>1, LoadInitially, PTL DEF LSpec

(* A load fails exactly if a line is rejected, and says which was the      *)
(* first, whether the loader stops there or not (line_buffer.rs:43-78).    *)
THEOREM LoadReportsFirstError == LSpec => []FirstErrorReported
<1>1. LoadInv => FirstErrorReported
  <2> SUFFICES ASSUME LoadInv PROVE FirstErrorReported
    OBVIOUS
  <2>1. src \in Seq(Content) /\ loaded \in Nat /\ loaded <= Len(src) /\ Len(src) \in Nat
        /\ DOMAIN src = 1 .. Len(src)
    BY DEF LoadInv
  <2>2. phase = "open" => \A k \in DOMAIN src : src[k] \in validator
    BY <2>1 DEF LoadInv, AcceptedUpTo
  <2>3. ASSUME phase = "rejected"
        PROVE  \E k \in DOMAIN src :
                 /\ src[k] \notin validator /\ error.line = src[k]
                 /\ \A j \in 1 .. k - 1 : src[j] \in validator
    <3>1. PICK k \in 1 .. loaded :
            src[k] \notin validator /\ error = EncodingError(src[k]) /\ AcceptedUpTo(k - 1)
      BY <2>3 DEF LoadInv, FirstRejected
    <3>2. k \in DOMAIN src
      BY <2>1
    <3>3. error.line = src[k]
      BY <3>1 DEF EncodingError
    <3> QED
      BY <3>1, <3>2, <3>3 DEF AcceptedUpTo
  <2> QED
    BY <2>2, <2>3 DEF FirstErrorReported
<1> QED
  BY <1>1, LoadingInvariant, PTL

-----------------------------------------------------------------------------
(* The pool knows the lines of a version and the validator accepts them.   *)
Accepted(p, v) == \A i \in DOMAIN v : CanGet(p, v[i]) /\ Get(p, v[i]) \in validator

AllAccepted(p, vs) == \A k \in DOMAIN vs : Accepted(p, vs[k])

(* The version that undoing everything leads to. *)
Oldest(vs, now) == IF vs = << >> THEN now ELSE vs[1]

(* The root's stacks lead through these versions, all accepted, from the   *)
(* text that was loaded.                                                   *)
RootVersions(ps, fs) ==
  /\ UndoLinked(undo_stack[Root], ps, lines[Root])
  /\ RedoLinked(redo_stack[Root], fs, lines[Root])
  /\ AllAccepted(pool, ps) /\ AllAccepted(pool, fs)
  /\ phase = "open" => Text(pool, Oldest(ps, lines[Root])) = src

RootTyped ==
  /\ IsPool(pool) /\ IndexMatchesLines(pool)
  /\ DOMAIN lines = Branches /\ DOMAIN undo_stack = Branches /\ DOMAIN redo_stack = Branches
  /\ lines[Root] \in Seq(GreenLineId)
  /\ undo_stack[Root] \in Seq(BranchEdit) /\ redo_stack[Root] \in Seq(BranchEdit)
  /\ phase = "open" => Root \in live
  /\ phase # "open" => undo_stack[Root] = << >> /\ redo_stack[Root] = << >>

RootInv ==
  /\ RootTyped
  /\ Accepted(pool, lines[Root])
  /\ phase \in Loaders /\ error = NoError =>
       Text(pool, lines[Root]) = SubSeq(src, 1, loaded)
  /\ \E ps, fs \in Seq(Seq(GreenLineId)) : RootVersions(ps, fs)

(* What is accepted stays accepted as the pool grows. *)
LEMMA AcceptedStable ==
  ASSUME NEW p, NEW q, IsPool(p), IsPool(q), Extends(p, q),
         NEW v \in Seq(GreenLineId), Accepted(p, v)
  PROVE  Accepted(q, v) /\ Text(q, v) = Text(p, v)
<1>1. Known(p, v)
  BY DEF Known, Accepted
<1>2. Known(q, v) /\ Text(q, v) = Text(p, v)
  BY <1>1, KnownStable
<1>3. ASSUME NEW i \in DOMAIN v
      PROVE  Get(q, v[i]) = Get(p, v[i])
  <2>1. Text(q, v)[i] = Get(q, v[i]) /\ Text(p, v)[i] = Get(p, v[i])
    BY DEF Text
  <2> QED
    BY <1>2, <2>1
<1> QED
  BY <1>2, <1>3 DEF Accepted, Known

LEMMA AllAcceptedStable ==
  ASSUME NEW p, NEW q, IsPool(p), IsPool(q), Extends(p, q),
         NEW vs \in Seq(Seq(GreenLineId)), AllAccepted(p, vs)
  PROVE  AllAccepted(q, vs)
<1> SUFFICES ASSUME NEW k \in DOMAIN vs
             PROVE  Accepted(q, vs[k])
  BY DEF AllAccepted
<1>1. vs[k] \in Seq(GreenLineId) /\ Accepted(p, vs[k])
  BY DEF AllAccepted
<1> QED
  BY <1>1, AcceptedStable

(* A version that is put on a stack, or taken from it. *)
LEMMA AcceptedPush ==
  ASSUME NEW p, NEW vs \in Seq(Seq(GreenLineId)), NEW v \in Seq(GreenLineId),
         AllAccepted(p, vs), Accepted(p, v)
  PROVE  /\ Append(vs, v) \in Seq(Seq(GreenLineId)) /\ AllAccepted(p, Append(vs, v))
         /\ \A w : Oldest(Append(vs, v), w) = Oldest(vs, v)
<1> DEFINE more == Append(vs, v)
<1>1. /\ more \in Seq(Seq(GreenLineId)) /\ more # << >> /\ Len(more) = Len(vs) + 1
      /\ \A k \in 1 .. Len(vs) : more[k] = vs[k]
      /\ more[Len(vs) + 1] = v
  BY AppendProperties
<1>2. Len(vs) \in Nat /\ DOMAIN vs = 1 .. Len(vs)
  BY LenProperties
<1> HIDE DEF more
<1>3. ASSUME NEW k \in DOMAIN more
      PROVE  Accepted(p, more[k])
  <2>1. k \in 1 .. Len(vs) \/ k = Len(vs) + 1
    BY <1>1, <1>2
  <2> QED
    BY <1>1, <1>2, <2>1 DEF AllAccepted
<1>4. more[1] = IF vs = << >> THEN v ELSE vs[1]
  <2>1. CASE vs = << >>
    BY <1>1, <2>1
  <2>2. CASE vs # << >>
    <3>1. 1 \in 1 .. Len(vs)
      BY <1>2, <2>2
    <3> QED
      BY <1>1, <2>2, <3>1
  <2> QED
    BY <2>1, <2>2
<1> QED
  BY <1>1, <1>3, <1>4 DEF AllAccepted, Oldest, more

LEMMA AcceptedPop ==
  ASSUME NEW p, NEW vs \in Seq(Seq(GreenLineId)), vs # << >>, AllAccepted(p, vs)
  PROVE  /\ Last(vs) \in Seq(GreenLineId) /\ Accepted(p, Last(vs))
         /\ Front(vs) \in Seq(Seq(GreenLineId)) /\ AllAccepted(p, Front(vs))
         /\ \A w : Oldest(Front(vs), Last(vs)) = Oldest(vs, w)
<1>1. /\ Len(vs) \in Nat \ {0}
      /\ Last(vs) = vs[Len(vs)] /\ Last(vs) \in Seq(GreenLineId)
      /\ Front(vs) \in Seq(Seq(GreenLineId)) /\ Len(Front(vs)) = Len(vs) - 1
      /\ \A k \in 1 .. Len(vs) - 1 : Front(vs)[k] = vs[k]
  BY StackFacts
<1>2. DOMAIN vs = 1 .. Len(vs) /\ DOMAIN Front(vs) = 1 .. Len(vs) - 1 /\ Len(vs) \in DOMAIN vs
  BY <1>1
<1>3. Accepted(p, Last(vs))
  BY <1>1, <1>2 DEF AllAccepted
<1>4. ASSUME NEW k \in DOMAIN Front(vs)
      PROVE  Accepted(p, Front(vs)[k])
  <2>1. k \in 1 .. Len(vs) - 1 /\ k \in DOMAIN vs
    BY <1>1, <1>2
  <2> QED
    BY <1>1, <2>1 DEF AllAccepted
<1>5. Oldest(Front(vs), Last(vs)) = vs[1]
  <2>1. CASE Front(vs) = << >>
    <3>1. Len(vs) = 1
      BY <1>1, <2>1
    <3> QED
      BY <1>1, <2>1, <3>1 DEF Oldest
  <2>2. CASE Front(vs) # << >>
    <3>1. 1 \in 1 .. Len(vs) - 1
      BY <1>1, <2>2
    <3> QED
      BY <1>1, <2>2, <3>1 DEF Oldest
  <2> QED
    BY <2>1, <2>2
<1> QED
  BY <1>1, <1>3, <1>4, <1>5 DEF AllAccepted, Oldest

-----------------------------------------------------------------------------
(* A step of an open buffer that gives the root new values that are in     *)
(* order keeps the invariant.                                              *)
LEMMA RootMoves ==
  ASSUME RootInv, phase = "open", UNCHANGED loadVars, Root \in live',
         IsPool(pool'), IndexMatchesLines(pool'),
         NEW l \in Seq(GreenLineId), NEW us \in Seq(BranchEdit), NEW rs \in Seq(BranchEdit),
         NEW ps \in Seq(Seq(GreenLineId)), NEW fs \in Seq(Seq(GreenLineId)),
         lines' = [lines EXCEPT ![Root] = l],
         undo_stack' = [undo_stack EXCEPT ![Root] = us],
         redo_stack' = [redo_stack EXCEPT ![Root] = rs],
         UndoLinked(us, ps, l), RedoLinked(rs, fs, l),
         Accepted(pool', l), AllAccepted(pool', ps), AllAccepted(pool', fs),
         Text(pool', Oldest(ps, l)) = src
  PROVE  RootInv'
<1>1. Root \in DOMAIN lines /\ Root \in DOMAIN undo_stack /\ Root \in DOMAIN redo_stack
  BY RootAssumption DEF RootInv, RootTyped
<1>2. lines'[Root] = l /\ undo_stack'[Root] = us /\ redo_stack'[Root] = rs
  BY <1>1
<1>3. /\ DOMAIN lines' = Branches /\ DOMAIN undo_stack' = Branches
      /\ DOMAIN redo_stack' = Branches
  BY DEF RootInv, RootTyped
<1>4. /\ phase' = "open" /\ src' = src /\ validator' = validator /\ phase' \notin Loaders
  BY DEF loadVars, Loaders
<1>5. RootTyped'
  BY <1>2, <1>3, <1>4 DEF RootTyped
<1>6. Accepted(pool, lines[Root])'
  BY <1>2, <1>4 DEF Accepted
<1>7. RootVersions(ps, fs)'
  BY <1>2, <1>4 DEF RootVersions, AllAccepted, Accepted, Oldest, UndoLinked, RedoLinked,
                    After
<1> QED
  BY <1>4, <1>5, <1>6, <1>7 DEF RootInv

(* An edit of the root that its validator accepted. *)
LEMMA RootEdited ==
  ASSUME RootInv, phase = "open", UNCHANGED loadVars,
         NEW e \in BranchEdit, NEW w \in Seq(GreenLineId), EditsTo(Root, e, w),
         IndexMatchesLines(pool'), Extends(pool, pool'), Accepted(pool', w)
  PROVE  RootInv'
<1>1. PICK ps, fs \in Seq(Seq(GreenLineId)) : RootVersions(ps, fs)
  BY DEF RootInv
<1> DEFINE v == lines[Root]
           us == undo_stack[Root]
           qs == Append(ps, v)
<1>2. /\ IsPool(pool) /\ IsPool(pool') /\ v \in Seq(GreenLineId) /\ us \in Seq(BranchEdit)
      /\ Accepted(pool, v) /\ AllAccepted(pool, ps) /\ Root \in live
      /\ Text(pool, Oldest(ps, v)) = src /\ UndoLinked(us, ps, v)
  BY <1>1 DEF RootInv, RootTyped, RootVersions, EditsTo
<1>3. Accepted(pool', v) /\ AllAccepted(pool', ps)
  BY <1>2, AcceptedStable, AllAcceptedStable
<1>4. /\ qs \in Seq(Seq(GreenLineId)) /\ AllAccepted(pool', qs)
      /\ Oldest(qs, w) = Oldest(ps, v)
  BY <1>2, <1>3, AcceptedPush
<1>5. Text(pool', Oldest(ps, v)) = src
  <2>1. Oldest(ps, v) \in Seq(GreenLineId) /\ Accepted(pool, Oldest(ps, v))
    <3>1. CASE ps = << >>
      BY <1>2, <3>1 DEF Oldest
    <3>2. CASE ps # << >>
      <4>1. 1 \in DOMAIN ps
        BY <3>2
      <4> QED
        BY <1>2, <3>2, <4>1 DEF Oldest, AllAccepted
    <3> QED
      BY <3>1, <3>2
  <2> QED
    BY <1>2, <2>1, AcceptedStable
<1>6. Links(e, v, w)
  BY DEF EditsTo
<1> HIDE DEF v, us
<1>7. UndoLinked(Append(us, e), qs, w)
  BY <1>2, <1>6, PushUndo
<1>8. Append(us, e) \in Seq(BranchEdit)
  BY <1>2, AppendProperties
<1>9. /\ << >> \in Seq(BranchEdit) /\ << >> \in Seq(Seq(GreenLineId))
      /\ RedoLinked(<< >>, << >>, w) /\ AllAccepted(pool', << >>)
  BY NothingLinked, EmptySeq DEF AllAccepted
<1>10. /\ lines' = [lines EXCEPT ![Root] = w]
       /\ undo_stack' = [undo_stack EXCEPT ![Root] = Append(us, e)]
       /\ redo_stack' = [redo_stack EXCEPT ![Root] = << >>]
       /\ Root \in live'
  BY <1>2 DEF EditsTo, us
<1>11. Text(pool', Oldest(qs, w)) = src
  BY <1>4, <1>5
<1> HIDE DEF qs
<1> QED
  BY <1>2, <1>4, <1>7, <1>8, <1>9, <1>10, <1>11, RootMoves

(* What interning an accepted line does to the pool. *)
LEMMA InternAccepted ==
  ASSUME IsPool(pool), IndexMatchesLines(pool), IdsSuffice,
         NEW s \in Content, s \in validator,
         NEW v \in Seq(GreenLineId), Accepted(pool, v),
         NEW w, IdsFrom(w, Range(v) \cup {IdOf(pool, s)})
  PROVE  LET q == Interned(pool, s)
         IN  /\ IsPool(q) /\ IndexMatchesLines(q) /\ Extends(pool, q) /\ Accepted(q, w)
             /\ Get(q, IdOf(pool, s)) = s
<1> DEFINE q == Interned(pool, s)
           id == IdOf(pool, s)
<1>1. IsPool(q) /\ IndexMatchesLines(q) /\ Extends(pool, q) /\ CanGet(q, id) /\ Get(q, id) = s
  BY InternedType, InternedMatches, InternedExtends, InternedKnown, IdOfResolves
<1> HIDE DEF q, id
<1>2. Accepted(q, v)
  BY <1>1, AcceptedStable
<1>3. \A x \in Range(v) : CanGet(q, x) /\ Get(q, x) \in validator
  BY <1>2 DEF Accepted, Range
<1>4. Accepted(q, w)
  BY <1>1, <1>3 DEF Accepted, IdsFrom, id
<1> QED
  BY <1>1, <1>4 DEF q, id

(* Each step of the root keeps the invariant. *)
LEMMA RootStepKeeps ==
  ASSUME LoadInv, RootInv, IdsSuffice, phase = "open", UNCHANGED loadVars, RootStep
  PROVE  RootInv'
<1>1. /\ IsPool(pool) /\ IndexMatchesLines(pool) /\ Root \in Branches
      /\ lines[Root] \in Seq(GreenLineId) /\ Accepted(pool, lines[Root])
      /\ undo_stack[Root] \in Seq(BranchEdit) /\ redo_stack[Root] \in Seq(BranchEdit)
      /\ Root \in live
  BY RootAssumption DEF RootInv, RootTyped
<1>2. ASSUME NEW n \in 0 .. MaxLines, NEW s \in Content,
             InsertLine(Root, n, s, validator) \/ ReplaceLine(Root, n, s, validator)
      PROVE  RootInv'
  <2>1. PICK e \in BranchEdit, w \in Seq(GreenLineId) :
          EditsTo(Root, e, w) /\ IdsFrom(w, Range(lines[Root]) \cup {IdOf(pool, s)})
    BY <1>1, <1>2, InsertStep, ReplaceStep
  <2>2. pool' = Interned(pool, s) /\ s \in validator
    BY <1>2 DEF InsertLine, ReplaceLine, Intern
  <2>3. IndexMatchesLines(pool') /\ Extends(pool, pool') /\ Accepted(pool', w)
    BY <1>1, <2>1, <2>2, InternAccepted
  <2> QED
    BY <2>1, <2>3, RootEdited
<1>3. ASSUME NEW n \in 0 .. MaxLines, DeleteLine(Root, n)
      PROVE  RootInv'
  <2>1. PICK e \in BranchEdit, w \in Seq(GreenLineId) :
          EditsTo(Root, e, w) /\ IdsFrom(w, Range(lines[Root]))
    BY <1>1, <1>3, DeleteStep
  <2>2. pool' = pool
    BY <1>3 DEF DeleteLine
  <2>3. IndexMatchesLines(pool') /\ Extends(pool, pool')
    BY <1>1, <2>2, ExtendsItself
  <2>4. Accepted(pool', w)
    BY <1>1, <2>1, <2>2 DEF Accepted, IdsFrom, Range
  <2> QED
    BY <2>1, <2>3, <2>4, RootEdited
<1>4. PICK ps, fs \in Seq(Seq(GreenLineId)) : RootVersions(ps, fs)
  BY DEF RootInv
<1>5. /\ UndoLinked(undo_stack[Root], ps, lines[Root])
      /\ RedoLinked(redo_stack[Root], fs, lines[Root])
      /\ AllAccepted(pool, ps) /\ AllAccepted(pool, fs)
      /\ Text(pool, Oldest(ps, lines[Root])) = src
  BY <1>4 DEF RootVersions
<1>6. CASE Undo(Root)
  <2> DEFINE e == Last(undo_stack[Root])
             v == Last(ps)
             us == Front(undo_stack[Root])
             rs == Append(redo_stack[Root], e)
             gs == Append(fs, lines[Root])
  <2>1. undo_stack[Root] # << >>
    BY <1>6 DEF Undo
  <2>2. ps # << >> /\ Links(e, v, lines[Root]) /\ UndoLinked(us, Front(ps), v)
    BY <1>1, <1>5, <2>1, PopUndo
  <2>3. e \in BranchEdit /\ us \in Seq(BranchEdit)
    BY <1>1, <2>1, StackFacts
  <2>4. /\ v \in Seq(GreenLineId) /\ Accepted(pool, v)
        /\ Front(ps) \in Seq(Seq(GreenLineId)) /\ AllAccepted(pool, Front(ps))
        /\ Oldest(Front(ps), v) = Oldest(ps, lines[Root])
    BY <1>5, <2>2, AcceptedPop
  <2>5. v = Undone(lines[Root], e)
    BY <2>2 DEF Links
  <2>6. /\ lines' = [lines EXCEPT ![Root] = v]
        /\ undo_stack' = [undo_stack EXCEPT ![Root] = us]
        /\ redo_stack' = [redo_stack EXCEPT ![Root] = rs]
        /\ live' = live /\ pool' = pool
    BY <1>6, <2>5 DEF Undo
  <2>7. gs \in Seq(Seq(GreenLineId)) /\ AllAccepted(pool, gs)
    BY <1>1, <1>5, AcceptedPush
  <2> HIDE DEF e, v, us
  <2>8. rs \in Seq(BranchEdit)
    BY <1>1, <2>3, AppendProperties
  <2>9. RedoLinked(rs, gs, v)
    BY <1>1, <1>5, <2>2, <2>3, <2>4, PushRedo
  <2>10. Text(pool, Oldest(Front(ps), v)) = src
    BY <1>5, <2>4
  <2> HIDE DEF rs, gs
  <2> QED
    BY <1>1, <2>2, <2>3, <2>4, <2>6, <2>7, <2>8, <2>9, <2>10, RootMoves
<1>7. CASE Redo(Root)
  <2> DEFINE e == Last(redo_stack[Root])
             w == Last(fs)
             rs == Front(redo_stack[Root])
             us == Append(undo_stack[Root], e)
             qs == Append(ps, lines[Root])
  <2>1. redo_stack[Root] # << >>
    BY <1>7 DEF Redo
  <2>2. fs # << >> /\ Links(e, lines[Root], w) /\ RedoLinked(rs, Front(fs), w)
    BY <1>1, <1>5, <2>1, PopRedo
  <2>3. e \in BranchEdit /\ rs \in Seq(BranchEdit)
    BY <1>1, <2>1, StackFacts
  <2>4. /\ w \in Seq(GreenLineId) /\ Accepted(pool, w)
        /\ Front(fs) \in Seq(Seq(GreenLineId)) /\ AllAccepted(pool, Front(fs))
    BY <1>5, <2>2, AcceptedPop
  <2>5. w = Redone(lines[Root], e)
    BY <2>2 DEF Links
  <2>6. /\ lines' = [lines EXCEPT ![Root] = w]
        /\ redo_stack' = [redo_stack EXCEPT ![Root] = rs]
        /\ undo_stack' = [undo_stack EXCEPT ![Root] = us]
        /\ live' = live /\ pool' = pool
    BY <1>7, <2>5 DEF Redo
  <2>7. /\ qs \in Seq(Seq(GreenLineId)) /\ AllAccepted(pool, qs)
        /\ Oldest(qs, w) = Oldest(ps, lines[Root])
    BY <1>1, <1>5, AcceptedPush
  <2> HIDE DEF e, w, rs
  <2>8. us \in Seq(BranchEdit)
    BY <1>1, <2>3, AppendProperties
  <2>9. UndoLinked(us, qs, w)
    BY <1>1, <1>5, <2>2, <2>3, <2>4, PushUndo
  <2>10. Text(pool, Oldest(qs, w)) = src
    BY <1>5, <2>7
  <2> HIDE DEF us, qs
  <2> QED
    BY <1>1, <2>2, <2>3, <2>4, <2>6, <2>7, <2>8, <2>9, <2>10, RootMoves
<1> QED
  BY <1>2, <1>3, <1>6, <1>7 DEF RootStep, RootEdit, RootValidator

-----------------------------------------------------------------------------
(* A step that leaves the root with nothing to undo or redo.               *)
LEMMA RootUnedited ==
  ASSUME RootTyped', Accepted(pool, lines[Root])',
         undo_stack'[Root] = << >>, redo_stack'[Root] = << >>,
         phase' \in Loaders /\ error' = NoError =>
           Text(pool', lines'[Root]) = SubSeq(src', 1, loaded'),
         phase' = "open" => Text(pool', lines'[Root]) = src'
  PROVE  RootInv'
<1> DEFINE none == << >>
<1>1. none \in Seq(Seq(GreenLineId))
  BY EmptySeq
<1>2. /\ UndoLinked(undo_stack'[Root], none, lines'[Root])
      /\ RedoLinked(redo_stack'[Root], none, lines'[Root])
  BY NothingLinked
<1>3. AllAccepted(pool, none)'
  BY DEF AllAccepted
<1>4. Oldest(none, lines'[Root]) = lines'[Root]
  BY DEF Oldest
<1>5. RootVersions(none, none)'
  BY <1>2, <1>3, <1>4 DEF RootVersions, UndoLinked, RedoLinked, After, Oldest
<1>6. \E ps, fs \in Seq(Seq(GreenLineId)) : RootVersions(ps, fs)'
  BY <1>1, <1>5
<1> HIDE DEF none
<1> QED
  BY <1>6 DEF RootInv

(* The text with one more line that is interned. *)
LEMMA TextAppend ==
  ASSUME NEW p, NEW v \in Seq(GreenLineId), NEW id \in GreenLineId
  PROVE  Text(p, Append(v, id)) = Append(Text(p, v), Get(p, id))
<1>1. /\ Len(v) \in Nat /\ DOMAIN v = 1 .. Len(v)
      /\ DOMAIN Append(v, id) = 1 .. Len(v) + 1
      /\ \A i \in 1 .. Len(v) : Append(v, id)[i] = v[i]
      /\ Append(v, id)[Len(v) + 1] = id
  BY AppendProperties, LenProperties
<1>2. Len(Text(p, v)) = Len(v)
  BY <1>1 DEF Text
<1>3. Append(Text(p, v), Get(p, id)) =
        [i \in 1 .. Len(v) + 1 |-> IF i = Len(v) + 1 THEN Get(p, id) ELSE Get(p, v[i])]
  BY <1>1, <1>2 DEF Text
<1>4. Text(p, Append(v, id)) =
        [i \in 1 .. Len(v) + 1 |-> Get(p, Append(v, id)[i])]
  BY <1>1 DEF Text
<1> QED
  BY <1>1, <1>3, <1>4

(* The line that a load takes next extends the text to one more line. *)
LEMMA NextLine ==
  ASSUME LoadInv, Offers
  PROVE  /\ Offered \in Content
         /\ SubSeq(src, 1, loaded + 1) = Append(SubSeq(src, 1, loaded), Offered)
<1>1. src \in Seq(Content) /\ loaded \in Nat /\ Len(src) \in Nat /\ loaded < Len(src)
  BY DEF LoadInv, Offers
<1>2. loaded + 1 \in 1 .. Len(src)
  BY <1>1
<1>3. Offered \in Content
  BY <1>1, <1>2 DEF Offered
<1>4. /\ Len(SubSeq(src, 1, loaded)) = loaded
      /\ \A i \in 1 .. loaded : SubSeq(src, 1, loaded)[i] = src[i]
  BY <1>1
<1>5. SubSeq(src, 1, loaded + 1) = [i \in 1 .. loaded + 1 |-> src[i]]
  BY <1>1
<1>6. Append(SubSeq(src, 1, loaded), Offered) = [i \in 1 .. loaded + 1 |-> src[i]]
  BY <1>1, <1>4 DEF Offered
<1> QED
  BY <1>3, <1>5, <1>6

(* A step of the load keeps the invariant: it adds the line, or nothing,   *)
(* or gives everything up.                                                 *)
LEMMA RootLoads ==
  ASSUME LoadInv, RootInv, IdsSuffice, LoadLine
  PROVE  RootInv'
<1>1. /\ phase \in Loaders /\ phase # "open" /\ Offers /\ loaded' = loaded + 1
      /\ live' = live /\ redo_stack' = redo_stack /\ validator' = validator /\ src' = src
  BY DEF LoadLine, Offers, Loaders
<1>2. /\ IsPool(pool) /\ IndexMatchesLines(pool) /\ Root \in Branches
      /\ DOMAIN lines = Branches /\ DOMAIN undo_stack = Branches
      /\ DOMAIN redo_stack = Branches
      /\ lines[Root] \in Seq(GreenLineId) /\ Accepted(pool, lines[Root])
      /\ undo_stack[Root] = << >> /\ redo_stack[Root] = << >>
  BY <1>1, RootAssumption DEF RootInv, RootTyped
<1>3. << >> \in Seq(BranchEdit) /\ << >> \in Seq(GreenLineId)
  BY EmptySeq
<1>4. /\ Offered \in Content
      /\ SubSeq(src, 1, loaded + 1) = Append(SubSeq(src, 1, loaded), Offered)
  BY <1>1, NextLine
<1>5. CASE Ignores
  <2>1. UNCHANGED <<pool, lines, undo_stack, phase, error>> /\ error # NoError
    BY <1>5 DEF LoadLine, Ignores
  <2>2. RootTyped'
    BY <1>1, <1>2, <1>3, <2>1 DEF RootTyped
  <2>3. Accepted(pool, lines[Root])'
    BY <1>1, <1>2, <2>1 DEF Accepted
  <2> QED
    BY <1>1, <1>2, <2>1, <2>2, <2>3, RootUnedited
<1>6. CASE ~Ignores /\ Offered \in validator
  <2> DEFINE v == lines[Root]
             id == IdOf(pool, Offered)
             w == Append(v, id)
  <2>1. /\ pool' = Interned(pool, Offered) /\ lines' = [lines EXCEPT ![Root] = w]
        /\ undo_stack' = undo_stack /\ phase' = phase /\ error' = error
        /\ error = NoError
    BY <1>6 DEF LoadLine, Ignores, AcceptLine, Intern, LoadHistory
  <2>2. id \in GreenLineId
    BY <1>2, <1>4, InternedType
  <2>3. /\ w \in Seq(GreenLineId) /\ DOMAIN w = 1 .. Len(v) + 1 /\ Len(v) \in Nat
        /\ DOMAIN v = 1 .. Len(v)
        /\ \A i \in 1 .. Len(v) : w[i] = v[i]
        /\ w[Len(v) + 1] = id /\ v \in Seq(GreenLineId) /\ Accepted(pool, v)
    BY <1>2, <2>2, AppendProperties
  <2>4. IdsFrom(w, Range(v) \cup {id})
    <3> SUFFICES ASSUME NEW i \in DOMAIN w PROVE w[i] \in Range(v) \cup {id}
      BY DEF IdsFrom
    <3>1. i \in 1 .. Len(v) \/ i = Len(v) + 1
      BY <2>3
    <3>2. \A j \in 1 .. Len(v) : v[j] \in Range(v)
      BY <2>3 DEF Range
    <3> QED
      BY <2>3, <3>1, <3>2
  <2>5. /\ IsPool(pool') /\ IndexMatchesLines(pool') /\ Extends(pool, pool')
        /\ Accepted(pool', w) /\ Get(pool', id) = Offered
    BY <1>2, <1>4, <1>6, <2>1, <2>4, InternAccepted
  <2>6. Text(pool, v) = SubSeq(src, 1, loaded)
    BY <1>1, <2>1 DEF RootInv
  <2>7. Text(pool', v) = SubSeq(src, 1, loaded)
    <3> HIDE DEF v, w, id
    <3>1. Text(pool', v) = Text(pool, v)
      BY ONLY <1>2, <2>3, <2>5, AcceptedStable
    <3> QED
      BY <2>6, <3>1
  <2>8. Text(pool', w) = SubSeq(src, 1, loaded + 1)
    <3> HIDE DEF v, id
    <3>1. Text(pool', w) = Append(Text(pool', v), Get(pool', id))
      BY ONLY <2>2, <2>3, TextAppend DEF w
    <3> QED
      BY <1>4, <2>5, <2>7, <3>1
  <2> HIDE DEF w, id
  <2>9. lines'[Root] = w /\ DOMAIN lines' = Branches
    BY <1>2, <2>1
  <2>10. RootTyped'
    BY <1>1, <1>2, <1>3, <2>1, <2>3, <2>5, <2>9 DEF RootTyped
  <2>11. Accepted(pool, lines[Root])'
    BY <1>1, <2>5, <2>9 DEF Accepted
  <2> QED
    BY <1>1, <1>2, <2>1, <2>8, <2>9, <2>10, <2>11, RootUnedited
<1>7. CASE ~Ignores /\ Offered \notin validator
  <2>1. /\ error' # NoError /\ undo_stack' = undo_stack
        /\ \/ phase' = "rejected" /\ pool' = EmptyPool
              /\ lines' = [lines EXCEPT ![Root] = << >>]
           \/ phase' = phase /\ pool' = pool /\ lines' = lines
    BY <1>4, <1>7, NoErrorAssumption DEF LoadLine, RejectLine, ReturnError
  <2>2. phase' # "open"
    BY <1>1, <2>1
  <2>3. /\ IsPool(pool') /\ IndexMatchesLines(pool') /\ DOMAIN lines' = Branches
        /\ lines'[Root] \in Seq(GreenLineId)
    BY <1>2, <1>3, <2>1, EmptyPoolFacts
  <2>4. RootTyped'
    BY <1>1, <1>2, <1>3, <2>1, <2>2, <2>3 DEF RootTyped
  <2>5. Accepted(pool, lines[Root])'
    BY <1>1, <1>2, <2>1 DEF Accepted
  <2> QED
    BY <1>1, <1>2, <2>1, <2>2, <2>4, <2>5, RootUnedited
<1> QED
  BY <1>5, <1>6, <1>7

(* So does the end of the source. *)
LEMMA RootOpens ==
  ASSUME LoadInv, RootInv, Open
  PROVE  RootInv'
<1>1. /\ phase \in Loaders /\ phase # "open" /\ loaded = Len(src)
      /\ UNCHANGED <<undo_stack, redo_stack, validator, src, loaded, error>>
  BY DEF Open, Loaders
<1>2. /\ IsPool(pool) /\ IndexMatchesLines(pool) /\ Root \in Branches
      /\ DOMAIN lines = Branches /\ DOMAIN undo_stack = Branches
      /\ DOMAIN redo_stack = Branches
      /\ lines[Root] \in Seq(GreenLineId) /\ Accepted(pool, lines[Root])
      /\ undo_stack[Root] = << >> /\ redo_stack[Root] = << >>
  BY <1>1, RootAssumption DEF RootInv, RootTyped
<1>3. << >> \in Seq(BranchEdit) /\ << >> \in Seq(GreenLineId)
  BY EmptySeq
<1>4. CASE error = NoError
  <2>1. phase' = "open" /\ live' = {Root} /\ UNCHANGED <<pool, lines>>
    BY <1>4 DEF Open, ReturnBuffer
  <2>2. Text(pool, lines[Root]) = src
    <3>1. Text(pool, lines[Root]) = SubSeq(src, 1, loaded)
      BY <1>1, <1>4 DEF RootInv
    <3>2. SubSeq(src, 1, loaded) = src
      BY <1>1 DEF LoadInv
    <3> QED
      BY <3>1, <3>2
  <2>3. RootTyped'
    BY <1>1, <1>2, <1>3, <2>1 DEF RootTyped
  <2>4. Accepted(pool, lines[Root])'
    BY <1>1, <1>2, <2>1 DEF Accepted
  <2> QED
    BY <1>1, <1>2, <2>1, <2>2, <2>3, <2>4, RootUnedited DEF Loaders
<1>5. CASE error # NoError
  <2>1. phase' = "rejected" /\ pool' = EmptyPool /\ lines' = [lines EXCEPT ![Root] = << >>]
    BY <1>5 DEF Open, ReturnError
  <2>2. lines'[Root] = << >> /\ DOMAIN lines' = Branches
    BY <1>2, <2>1
  <2>3. RootTyped'
    BY <1>1, <1>2, <1>3, <2>1, <2>2, EmptyPoolFacts DEF RootTyped
  <2>4. Accepted(pool, lines[Root])'
    BY <2>2 DEF Accepted
  <2> QED
    BY <1>1, <1>2, <2>1, <2>3, <2>4, RootUnedited DEF Loaders
<1> QED
  BY <1>4, <1>5

(* What a fork does reaches the root through the pool only, which grows.   *)
LEMMA ForkFrame ==
  ASSUME RootTyped, phase = "open", NEW b \in Branches, ForkStep(b)
  PROVE  /\ lines'[Root] = lines[Root]
         /\ undo_stack'[Root] = undo_stack[Root] /\ redo_stack'[Root] = redo_stack[Root]
         /\ DOMAIN lines' = Branches /\ DOMAIN undo_stack' = Branches
         /\ DOMAIN redo_stack' = Branches
         /\ Root \in live'
         /\ pool' = pool \/ \E s \in Content : pool' = Interned(pool, s)
<1> DEFINE Elsewhere(g, f) == g = [f EXCEPT ![b] = g[b]]
<1>1. /\ DOMAIN lines = Branches /\ DOMAIN undo_stack = Branches
      /\ DOMAIN redo_stack = Branches /\ Root \in live /\ Root \in Branches
  BY RootAssumption DEF RootTyped
<1>2. ASSUME NEW f, DOMAIN f = Branches, NEW g, NEW x, g = [f EXCEPT ![b] = x]
      PROVE  Elsewhere(g, f)
  BY <1>2
<1> DEFINE Kept == /\ b # Root /\ Root \in live'
                   /\ Elsewhere(lines', lines) /\ Elsewhere(undo_stack', undo_stack)
                   /\ Elsewhere(redo_stack', redo_stack)
                   /\ pool' = pool \/ \E s \in Content : pool' = Interned(pool, s)
<1> HIDE DEF Elsewhere
<1>3. ASSUME NEW parent \in Branches, Fork(parent, b)
      PROVE  Kept
  BY <1>1, <1>2, <1>3 DEF Fork
<1>4. ASSUME b # Root, NEW n \in 0 .. MaxLines, NEW s \in Content, NEW v \in Validators,
             InsertLine(b, n, s, v)
      PROVE  Kept
  BY <1>1, <1>2, <1>4 DEF InsertLine, Record, Intern
<1>5. ASSUME b # Root, NEW n \in 0 .. MaxLines, NEW s \in Content, NEW v \in Validators,
             ReplaceLine(b, n, s, v)
      PROVE  Kept
  BY <1>1, <1>2, <1>5 DEF ReplaceLine, Record, Intern
<1>6. ASSUME b # Root, NEW n \in 0 .. MaxLines, DeleteLine(b, n)
      PROVE  Kept
  BY <1>1, <1>2, <1>6 DEF DeleteLine, Record
<1>7. ASSUME b # Root, Undo(b)
      PROVE  Kept
  BY <1>1, <1>2, <1>7 DEF Undo
<1>8. ASSUME b # Root, Redo(b)
      PROVE  Kept
  BY <1>1, <1>2, <1>8 DEF Redo
<1> HIDE DEF Kept
<1>9. ASSUME b # Root, Edit(b)
      PROVE  Kept
  BY <1>4, <1>5, <1>6, <1>9 DEF Edit
<1>10. Kept
  BY <1>3, <1>7, <1>8, <1>9 DEF ForkStep
<1> QED
  BY <1>1, <1>10 DEF Elsewhere, Kept

LEMMA ForkKeeps ==
  ASSUME RootInv, phase = "open", UNCHANGED loadVars, NEW b \in Branches, ForkStep(b)
  PROVE  RootInv'
<1>1. PICK ps, fs \in Seq(Seq(GreenLineId)) : RootVersions(ps, fs)
  BY DEF RootInv
<1> DEFINE v == lines[Root]
           old == Oldest(ps, v)
<1>2. /\ RootTyped /\ IsPool(pool) /\ IndexMatchesLines(pool)
      /\ v \in Seq(GreenLineId) /\ Accepted(pool, v)
      /\ undo_stack[Root] \in Seq(BranchEdit) /\ redo_stack[Root] \in Seq(BranchEdit)
  BY DEF RootInv, RootTyped
<1>3. /\ UndoLinked(undo_stack[Root], ps, v) /\ RedoLinked(redo_stack[Root], fs, v)
      /\ AllAccepted(pool, ps) /\ AllAccepted(pool, fs) /\ Text(pool, old) = src
  BY <1>1 DEF RootVersions
<1>4. /\ lines'[Root] = v
      /\ undo_stack'[Root] = undo_stack[Root] /\ redo_stack'[Root] = redo_stack[Root]
      /\ DOMAIN lines' = Branches /\ DOMAIN undo_stack' = Branches
      /\ DOMAIN redo_stack' = Branches
      /\ Root \in live'
      /\ pool' = pool \/ \E s \in Content : pool' = Interned(pool, s)
  BY <1>2, ForkFrame
<1>5. IsPool(pool') /\ IndexMatchesLines(pool') /\ Extends(pool, pool')
  BY <1>2, <1>4, ExtendsItself, InternedType, InternedMatches, InternedExtends
<1>6. /\ phase' = "open" /\ src' = src /\ validator' = validator /\ phase' \notin Loaders
  BY DEF loadVars, Loaders
<1>7. old \in Seq(GreenLineId) /\ Accepted(pool, old)
  <2>1. CASE ps = << >>
    BY <1>2, <2>1 DEF Oldest
  <2>2. CASE ps # << >>
    <3>1. 1 \in DOMAIN ps
      BY <2>2
    <3> QED
      BY <1>3, <2>2, <3>1 DEF Oldest, AllAccepted
  <2> QED
    BY <2>1, <2>2
<1> HIDE DEF v, old
<1>8. /\ Accepted(pool', v) /\ Accepted(pool', old) /\ Text(pool', old) = Text(pool, old)
  BY ONLY <1>2, <1>5, <1>7, AcceptedStable
<1>9. AllAccepted(pool', ps) /\ AllAccepted(pool', fs)
  BY ONLY <1>2, <1>3, <1>5, AllAcceptedStable
<1>10. RootTyped'
  BY <1>2, <1>4, <1>5, <1>6 DEF RootTyped
<1>11. Accepted(pool, lines[Root])'
  BY <1>4, <1>6, <1>8 DEF Accepted
<1>12. AllAccepted(pool, ps)' /\ AllAccepted(pool, fs)'
  BY <1>6, <1>9 DEF AllAccepted, Accepted
<1>13. UndoLinked(undo_stack'[Root], ps, lines'[Root])
       /\ RedoLinked(redo_stack'[Root], fs, lines'[Root])
  BY <1>3, <1>4
<1>14. Text(pool', Oldest(ps, lines'[Root])) = src'
  BY <1>3, <1>4, <1>6, <1>8 DEF old
<1>15. RootVersions(ps, fs)'
  BY <1>12, <1>13, <1>14 DEF RootVersions, UndoLinked, RedoLinked, After, Oldest
<1>16. \E qs, gs \in Seq(Seq(GreenLineId)) : RootVersions(qs, gs)'
  BY <1>15
<1> QED
  BY <1>6, <1>10, <1>11, <1>16 DEF RootInv

(* The buffer starts empty, on an empty pool.                              *)
LEMMA RootInitially == ASSUME LInit PROVE RootInv
<1> DEFINE none == << >>
<1>1. /\ pool = EmptyPool /\ lines = [b \in Branches |-> none]
      /\ undo_stack = [b \in Branches |-> none] /\ redo_stack = [b \in Branches |-> none]
      /\ phase \in Loaders /\ loaded = 0 /\ src \in Seq(Content)
  BY SourcesAssumption DEF LInit, Init, PoolInit
<1>2. phase # "open" /\ lines[Root] = none /\ undo_stack[Root] = none
      /\ redo_stack[Root] = none
  BY <1>1, RootAssumption DEF Loaders
<1>3. /\ none \in Seq(BranchEdit) /\ none \in Seq(GreenLineId)
      /\ none \in Seq(Seq(GreenLineId))
  BY EmptySeq
<1>4. RootTyped
  BY <1>1, <1>2, <1>3, EmptyPoolFacts DEF RootTyped
<1>5. Accepted(pool, lines[Root])
  BY <1>2 DEF Accepted
<1>6. Text(pool, lines[Root]) = << >>
  BY <1>2 DEF Text
<1>7. SubSeq(src, 1, loaded) = << >>
  BY <1>1
<1>8. RootVersions(none, none)
  BY <1>2, NothingLinked DEF RootVersions, AllAccepted
<1> QED
  BY <1>3, <1>4, <1>5, <1>6, <1>7, <1>8 DEF RootInv

LEMMA RootStutters ==
  ASSUME RootInv, UNCHANGED lvars
  PROVE  RootInv'
<1>1. UNCHANGED <<pool, live, lines, undo_stack, redo_stack, validator, phase, src,
                  loaded, error>>
  BY DEF lvars, vars, branchVars, loadVars
<1>2. RootTyped'
  BY <1>1 DEF RootInv, RootTyped
<1>3. Accepted(pool, lines[Root])'
  BY <1>1 DEF RootInv, Accepted
<1>4. PICK ps, fs \in Seq(Seq(GreenLineId)) : RootVersions(ps, fs)
  BY DEF RootInv
<1>5. RootVersions(ps, fs)'
  BY <1>1, <1>4 DEF RootVersions, AllAccepted, Accepted, UndoLinked, RedoLinked, After,
                    Oldest
<1>6. \E qs, gs \in Seq(Seq(GreenLineId)) : RootVersions(qs, gs)'
  BY <1>5
<1> QED
  BY <1>1, <1>2, <1>3, <1>6 DEF RootInv

(***************************************************************************)
(* The root keeps the versions that its stacks lead through, all of them   *)
(* accepted, and the oldest is the source.  The ids must suffice: with     *)
(* fewer, an id may lead to a line the validator never saw.                *)
(***************************************************************************)
THEOREM RootInvariant == ASSUME IdsSuffice PROVE LSpec => []RootInv
<1>1. ASSUME LoadInv, RootInv, [LNext]_lvars
      PROVE  RootInv'
  BY <1>1, RootLoads, RootOpens, RootStepKeeps, ForkKeeps, RootStutters DEF LNext
<1>2. LoadInv /\ RootInv /\ [LNext]_lvars => RootInv'
  BY <1>1
<1> QED
  BY <1>2, RootInitially, LoadingInvariant, PTL DEF LSpec

(* Undoing everything leads to the source, whole and no further            *)
(* (line_buffer.rs:43-47, 195-221).                                        *)
THEOREM UndoEndsAtTheSource == ASSUME IdsSuffice PROVE LSpec => []UndoStopsAtLoad
<1>1. RootInv => UndoStopsAtLoad
  <2> SUFFICES ASSUME RootInv, phase = "open", undo_stack[Root] = << >>
               PROVE  Text(pool, lines[Root]) = src
    BY DEF UndoStopsAtLoad, Text
  <2>1. PICK ps, fs \in Seq(Seq(GreenLineId)) : RootVersions(ps, fs)
    BY DEF RootInv
  <2>2. ps = << >>
    <3>1. Len(ps) = 0
      BY <2>1 DEF RootVersions, UndoLinked
    <3> QED
      BY <3>1
  <2> QED
    BY <2>1, <2>2 DEF RootVersions, Oldest
<1> QED
  BY <1>1, RootInvariant, PTL

(* An id of an edit on a stack is one of a version next to it. *)
LEMMA AcceptedIds ==
  ASSUME NEW p, NEW e \in BranchEdit,
         NEW v \in Seq(GreenLineId), NEW w \in Seq(GreenLineId),
         Links(e, v, w), Accepted(p, v), Accepted(p, w)
  PROVE  \A id \in IdsOf(e) : CanGet(p, id) /\ Get(p, id) \in validator
<1>1. \A id \in IdsOf(e) : id \in Range(v) \/ id \in Range(w)
  BY LinkedIds
<1> QED
  BY <1>1 DEF Accepted, Range

(* The versions of a stack and those that follow them.                     *)
LEMMA AcceptedVersions ==
  ASSUME NEW p, NEW vs \in Seq(Seq(GreenLineId)), AllAccepted(p, vs),
         NEW v \in Seq(GreenLineId), Accepted(p, v), NEW k \in 1 .. Len(vs)
  PROVE  /\ vs[k] \in Seq(GreenLineId) /\ Accepted(p, vs[k])
         /\ After(vs, k, v) \in Seq(GreenLineId) /\ Accepted(p, After(vs, k, v))
<1>1. vs[k] \in Seq(GreenLineId) /\ Accepted(p, vs[k])
  BY DEF AllAccepted
<1>2. CASE k = Len(vs)
  BY <1>1, <1>2 DEF After
<1>3. CASE k # Len(vs)
  <2>1. k + 1 \in 1 .. Len(vs) /\ k + 1 \in DOMAIN vs
    BY <1>3
  <2>2. vs[k + 1] \in Seq(GreenLineId) /\ Accepted(p, vs[k + 1])
    BY <2>1 DEF AllAccepted
  <2> QED
    BY <1>1, <1>3, <2>2 DEF After
<1> QED
  BY <1>2, <1>3

(***************************************************************************)
(* Whatever forks put into the pool without the root's validator, no line  *)
(* that the root shows, or would show after undos and redos, is one the    *)
(* validator rejects (line_buffer.rs:16-17, 92-173).                       *)
(***************************************************************************)
THEOREM RootStaysAccepted == ASSUME IdsSuffice PROVE LSpec => []RootAccepted
<1>1. RootInv => RootAccepted
  <2> SUFFICES ASSUME RootInv, NEW id \in ReachableIds(Root)
               PROVE  CanGet(pool, id) /\ Get(pool, id) \in validator
    BY DEF RootAccepted
  <2> DEFINE v == lines[Root]
  <2>1. PICK ps, fs \in Seq(Seq(GreenLineId)) : RootVersions(ps, fs)
    BY DEF RootInv
  <2>2. /\ v \in Seq(GreenLineId) /\ Accepted(pool, v)
        /\ AllAccepted(pool, ps) /\ AllAccepted(pool, fs)
        /\ undo_stack[Root] \in Seq(BranchEdit) /\ redo_stack[Root] \in Seq(BranchEdit)
        /\ UndoLinked(undo_stack[Root], ps, v) /\ RedoLinked(redo_stack[Root], fs, v)
    BY <2>1 DEF RootInv, RootTyped, RootVersions
  <2>3. CASE id \in Range(v)
    BY <2>2, <2>3 DEF Range, Accepted
  <2>4. ASSUME NEW e \in Range(undo_stack[Root]), id \in IdsOf(e)
        PROVE  CanGet(pool, id) /\ Get(pool, id) \in validator
    <3>1. PICK k \in 1 .. Len(ps) : e = undo_stack[Root][k]
      <4>1. DOMAIN undo_stack[Root] = 1 .. Len(ps)
        BY <2>2 DEF UndoLinked
      <4> QED
        BY <4>1 DEF Range
    <3>2. Links(e, ps[k], After(ps, k, v)) /\ e \in BranchEdit
      BY <2>2, <3>1 DEF UndoLinked
    <3> HIDE DEF v
    <3>3. /\ ps[k] \in Seq(GreenLineId) /\ Accepted(pool, ps[k])
          /\ After(ps, k, v) \in Seq(GreenLineId) /\ Accepted(pool, After(ps, k, v))
      BY <2>2, AcceptedVersions
    <3> QED
      BY <2>4, <3>2, <3>3, AcceptedIds
  <2>5. ASSUME NEW e \in Range(redo_stack[Root]), id \in IdsOf(e)
        PROVE  CanGet(pool, id) /\ Get(pool, id) \in validator
    <3>1. PICK k \in 1 .. Len(fs) : e = redo_stack[Root][k]
      <4>1. DOMAIN redo_stack[Root] = 1 .. Len(fs)
        BY <2>2 DEF RedoLinked
      <4> QED
        BY <4>1 DEF Range
    <3>2. Links(e, After(fs, k, v), fs[k]) /\ e \in BranchEdit
      BY <2>2, <3>1 DEF RedoLinked
    <3> HIDE DEF v
    <3>3. /\ fs[k] \in Seq(GreenLineId) /\ Accepted(pool, fs[k])
          /\ After(fs, k, v) \in Seq(GreenLineId) /\ Accepted(pool, After(fs, k, v))
      BY <2>2, AcceptedVersions
    <3> QED
      BY <2>5, <3>2, <3>3, AcceptedIds
  <2> QED
    BY <2>3, <2>4, <2>5 DEF ReachableIds
<1> QED
  BY <1>1, RootInvariant, PTL
=============================================================================
