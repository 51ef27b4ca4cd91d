------------------------- MODULE GreenPool_proofs -------------------------
(***************************************************************************)
(* Facts about the pool's operators, and the pool's own invariants, for    *)
(* every set of contents and every width of the ids.                       *)
(***************************************************************************)
EXTENDS GreenPool, TLAPS, FiniteSetTheorems

(* An id that was narrowed is an id. *)
LEMMA AsIdType ==
  ASSUME NEW position \in Nat
  PROVE  /\ AsId(position) \in GreenLineId
         /\ AsId(position) <= position
  BY IdSpaceAssumption DEF AsId, GreenLineId

(* The empty pool is a pool whose index matches its vector. *)
LEMMA EmptyPoolFacts == IsPool(EmptyPool) /\ IndexMatchesLines(EmptyPool)
  BY DEF IsPool, EmptyPool, IndexMatchesLines

(* intern turns a pool into a pool and returns an id. *)
LEMMA InternedType ==
  ASSUME NEW p, IsPool(p), NEW s \in Content
  PROVE  IsPool(Interned(p, s)) /\ IdOf(p, s) \in GreenLineId
<1>1. CASE s \in DOMAIN p.index
  BY <1>1 DEF IsPool, Interned, Added, IdOf
<1>2. CASE s \notin DOMAIN p.index
  <2> DEFINE q == Interned(p, s)
             id == AsId(Len(p.lines))
  <2>1. id \in GreenLineId
    BY AsIdType DEF IsPool
  <2>2. q = [lines |-> Append(p.lines, s),
             index |-> [c \in DOMAIN p.index \cup {s} |->
                          IF c = s THEN id ELSE p.index[c]]]
    BY <1>2 DEF Interned, Added
  <2>3. q.lines \in Seq(Content)
    BY <2>2 DEF IsPool
  <2>4. q.index \in [DOMAIN p.index \cup {s} -> GreenLineId]
    BY <2>1, <2>2 DEF IsPool
  <2> QED
    BY <1>2, <2>1, <2>2, <2>3, <2>4 DEF IsPool, IdOf
<1> QED
  BY <1>1, <1>2

(* intern keeps index and vector in agreement (green.rs:165-177). *)
LEMMA InternedMatches ==
  ASSUME NEW p, IsPool(p), IndexMatchesLines(p), NEW s \in Content
  PROVE  IndexMatchesLines(Interned(p, s))
<1>1. CASE s \in DOMAIN p.index
  BY <1>1 DEF Interned, Added
<1>2. CASE s \notin DOMAIN p.index
  <2> DEFINE q == Interned(p, s)
  <2>1. /\ q.lines = Append(p.lines, s)
        /\ DOMAIN q.index = DOMAIN p.index \cup {s}
        /\ q.index[s] = AsId(Len(p.lines))
        /\ \A c \in DOMAIN p.index : q.index[c] = p.index[c]
    BY <1>2 DEF Interned, Added
  <2>2. /\ DOMAIN q.lines = DOMAIN p.lines \cup {Len(p.lines) + 1}
        /\ q.lines[Len(p.lines) + 1] = s
        /\ \A i \in DOMAIN p.lines : q.lines[i] = p.lines[i]
    BY <2>1 DEF IsPool
  <2>3. \A i \in DOMAIN p.lines : p.lines[i] # s /\ p.lines[i] \in DOMAIN p.index
    BY <1>2 DEF IndexMatchesLines
  <2>4. DOMAIN q.index = {q.lines[i] : i \in DOMAIN q.lines}
    BY <2>1, <2>2 DEF IndexMatchesLines
  <2>5. \A i \in DOMAIN q.lines : q.index[q.lines[i]] = AsId(i - 1)
    <3>1. ASSUME NEW i \in DOMAIN p.lines
          PROVE  q.index[q.lines[i]] = AsId(i - 1)
      BY <2>1, <2>2, <2>3 DEF IndexMatchesLines
    <3>2. q.index[q.lines[Len(p.lines) + 1]] = AsId((Len(p.lines) + 1) - 1)
      <4>1. (Len(p.lines) + 1) - 1 = Len(p.lines)
        BY DEF IsPool
      <4> QED
        BY <2>1, <2>2, <4>1
    <3> QED
      BY <2>2, <3>1, <3>2
  <2>6. \A i, j \in DOMAIN q.lines : q.lines[i] = q.lines[j] => i = j
    BY <2>2, <2>3 DEF IndexMatchesLines
  <2> QED
    BY <2>4, <2>5, <2>6 DEF IndexMatchesLines
<1> QED
  BY <1>1, <1>2

(* intern only ever adds (header of green.rs). *)
LEMMA InternedExtends ==
  ASSUME NEW p, IsPool(p), NEW s \in Content
  PROVE  Extends(p, Interned(p, s))
  BY DEF IsPool, Interned, Added, Extends

(* The ids never run out when they suffice for the contents: the vector    *)
(* holds each content at most once.                                        *)
LEMMA PoolFits ==
  ASSUME NEW p, IsPool(p), IndexMatchesLines(p), IdsSuffice
  PROVE  Len(p.lines) \in Nat /\ Len(p.lines) <= IdSpace
<1>1. p.lines \in [1 .. Len(p.lines) -> Content] /\ Len(p.lines) \in Nat
  BY DEF IsPool
<1>2. p.lines \in Injection(1 .. Len(p.lines), Content)
  BY <1>1 DEF IndexMatchesLines, Injection, IsInjective
<1>3. Cardinality(1 .. Len(p.lines)) <= Cardinality(Content)
  BY <1>2, FS_Injection DEF IdsSuffice
<1>4. Cardinality(1 .. Len(p.lines)) = Len(p.lines)
  <2> DEFINE n == Len(p.lines)
  <2>0. n \in Int /\ 1 \in Int
    BY <1>1
  <2> HIDE DEF n
  <2>1. Cardinality(1 .. n) = IF 1 > n THEN 0 ELSE n - 1 + 1
    BY <2>0, FS_Interval
  <2> USE DEF n
  <2> QED
    BY <1>1, <2>1
<1>5. Cardinality(Content) \in Nat
  BY FS_CardinalityType DEF IdsSuffice
<1> QED
  BY <1>1, <1>3, <1>4, <1>5, IdSpaceAssumption DEF IdsSuffice

(* Narrowing loses nothing below the number of ids. *)
LEMMA AsIdExact ==
  ASSUME NEW position \in Nat, position < IdSpace
  PROVE  AsId(position) = position
  BY IdSpaceAssumption DEF AsId

(* An issued id leads back to its content, when the ids suffice. *)
LEMMA MatchingPoolResolves ==
  ASSUME NEW p, IsPool(p), IndexMatchesLines(p), IdsSuffice
  PROVE  ResolvesIn(p)
<1> SUFFICES ASSUME NEW s \in DOMAIN p.index
             PROVE  CanGet(p, p.index[s]) /\ Get(p, p.index[s]) = s
  BY DEF ResolvesIn
<1>1. PICK i \in DOMAIN p.lines : p.lines[i] = s
  BY DEF IndexMatchesLines
<1>2. Len(p.lines) \in Nat /\ Len(p.lines) <= IdSpace
  BY PoolFits
<1>3. i \in 1 .. Len(p.lines)
  BY <1>1 DEF IsPool
<1>4. i - 1 \in Nat /\ i - 1 < IdSpace /\ i - 1 < Len(p.lines)
  BY <1>2, <1>3, IdSpaceAssumption
<1>5. p.index[s] = i - 1
  BY <1>1, <1>4, AsIdExact DEF IndexMatchesLines
<1>6. (i - 1) + 1 = i
  BY <1>3
<1> QED
  BY <1>1, <1>4, <1>5, <1>6 DEF CanGet, Get

-----------------------------------------------------------------------------
(* Every reachable pool is a pool, and holds each line once under the id   *)
(* of its position, however narrow the ids are.                            *)
THEOREM PoolInvariant == PoolSpec => [](PoolTypeOK /\ InternedOnce)
<1>1. PoolInit => PoolTypeOK /\ InternedOnce
  BY EmptyPoolFacts DEF PoolInit, PoolTypeOK, InternedOnce
<1>2. PoolTypeOK /\ InternedOnce /\ [PoolNext]_pool
        => (PoolTypeOK /\ InternedOnce)'
  <2> SUFFICES ASSUME PoolTypeOK, InternedOnce, [PoolNext]_pool
               PROVE  (PoolTypeOK /\ InternedOnce)'
    OBVIOUS
  <2>1. ASSUME NEW s \in Content, Intern(s)
        PROVE  (PoolTypeOK /\ InternedOnce)'
    <3>1. pool' = Interned(pool, s)
      BY <2>1 DEF Intern
    <3>2. IsPool(pool')
      BY <3>1, InternedType DEF PoolTypeOK
    <3>3. IndexMatchesLines(pool')
      BY <3>1, InternedMatches DEF PoolTypeOK, InternedOnce
    <3> QED
      BY <3>2, <3>3 DEF PoolTypeOK, InternedOnce
  <2>2. CASE UNCHANGED pool
    BY <2>2 DEF PoolTypeOK, InternedOnce
  <2> QED
    BY <2>1, <2>2 DEF PoolNext
<1> QED
  BY <1>1, <1>2, PTL DEF PoolSpec

(* When the ids suffice, an issued id always leads back to its content.    *)
THEOREM PoolResolves == ASSUME IdsSuffice PROVE PoolSpec => []IdsResolve
<1>1. PoolTypeOK /\ InternedOnce => IdsResolve
  BY MatchingPoolResolves DEF PoolTypeOK, InternedOnce, IdsResolve
<1> QED
  BY <1>1, PoolInvariant, PTL

(* When the ids suffice, no two contents share an id.                      *)
THEOREM PoolDistinctIds == ASSUME IdsSuffice PROVE PoolSpec => []DistinctIds
<1>1. IdsResolve => DistinctIds
  BY DEF IdsResolve, ResolvesIn, DistinctIds
<1> QED
  BY <1>1, PoolResolves, PTL

(* The pool only grows, however narrow the ids are.                        *)
THEOREM PoolAppendOnly == PoolSpec => AppendOnly
<1>1. PoolTypeOK /\ [PoolNext]_pool => [Extends(pool, pool')]_pool
  BY InternedExtends DEF PoolNext, Intern, PoolTypeOK
<1> QED
  BY <1>1, PoolInvariant, PTL DEF PoolSpec, AppendOnly
=============================================================================
