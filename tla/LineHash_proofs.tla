-------------------------- MODULE LineHash_proofs --------------------------
(***************************************************************************)
(* The digest cells, for every number of readers, contents and ids: each   *)
(* digest is computed once, and is the right one of the right line.        *)
(***************************************************************************)
EXTENDS LineHash, GreenPool_proofs, SequenceTheorems

(* A request names the id that the pool gave its content.                  *)
Known(r) ==
  /\ request[r] \in Requests
  /\ request[r].s \in DOMAIN pool.index
  /\ request[r].id = pool.index[request[r].s]

(* A reader that is at a cell, or holds a reference to the line, has the   *)
(* lock.                                                                   *)
Reading(r) == pc[r] \in {"looking", "computing", "returning"}
HeldWhileReading == \A r \in Readers : Reading(r) => holder = r

RequestsKnown == \A r \in Readers : pc[r] # "idle" \/ answer[r] # None => Known(r)

CellsRight ==
  \A i \in DOMAIN hashes, alg \in Algorithms :
    hashes[i][alg] \in {None, Digest(alg, pool.lines[i])}

(* An answer is the digest of the line under the id.                       *)
Right(r) == answer[r] = Digest(request[r].alg, Get(pool, request[r].id))
AnswersRight == \A r \in Readers : answer[r] # None => Right(r)

PoolInv == PoolTypeOK /\ InternedOnce

HashInv ==
  /\ PoolInv /\ HashTypeOK
  /\ HeldWhileReading /\ ComputedOnce
  /\ RequestsKnown /\ CellsRight /\ AnswersRight

-----------------------------------------------------------------------------
(* A known id is a position of the vector. *)
LEMMA KnownInRange ==
  ASSUME PoolInv, NEW r \in Readers, Known(r)
  PROVE  request[r].id \in Nat /\ request[r].id + 1 \in DOMAIN pool.lines
<1> DEFINE s == request[r].s
<1>1. PICK k \in DOMAIN pool.lines : pool.lines[k] = s
  BY DEF PoolInv, InternedOnce, IndexMatchesLines, Known
<1>2. request[r].id = AsId(k - 1)
  BY <1>1 DEF PoolInv, InternedOnce, IndexMatchesLines, Known
<1>3. k \in 1 .. Len(pool.lines) /\ Len(pool.lines) \in Nat
  BY DEF PoolInv, PoolTypeOK, IsPool
<1>4. k - 1 \in Nat
  BY <1>3
<1>5. AsId(k - 1) \in Nat /\ AsId(k - 1) <= k - 1
  BY <1>4, AsIdType DEF GreenLineId
<1>6. AsId(k - 1) + 1 \in 1 .. Len(pool.lines)
  BY <1>3, <1>5
<1> QED
  BY <1>2, <1>5, <1>6 DEF PoolInv, PoolTypeOK, IsPool

(* What a line is made with. *)
LEMMA FreshHashType ==
  ASSUME NEW s \in Content
  PROVE  /\ FreshHash(s) \in LineHashes
         /\ \A alg \in Algorithms : FreshHash(s)[alg] \in {None, Digest(alg, s)}
  BY DEF FreshHash, LineHashes, Digests, Algorithms

(* The hash of a line has a cell for each algorithm. *)
LEMMA CellType ==
  ASSUME NEW h \in LineHashes, NEW alg \in Algorithms
  PROVE  h[alg] \in Digests(alg) \cup {None}
  BY DEF LineHashes, Digests, Algorithms

(* Filling a cell keeps the type and the other cells. *)
LEMMA FilledFacts ==
  ASSUME NEW h \in LineHashes, NEW alg \in Algorithms, NEW s \in Content
  PROVE  /\ Filled(h, alg, s) \in LineHashes
         /\ Filled(h, alg, s)[alg] = Digest(alg, s)
         /\ \A other \in Algorithms \ {alg} : Filled(h, alg, s)[other] = h[other]
  BY DEF Filled, LineHashes, Digests, Algorithms

(* The pool of an edit: what is known stays, and so do the lines.          *)
LEMMA PoolStep ==
  ASSUME PoolInv, NEW s \in Content, Intern(s)
  PROVE  PoolInv' /\ Extends(pool, pool')
  BY InternedType, InternedMatches, InternedExtends
  DEF Intern, PoolInv, PoolTypeOK, InternedOnce

-----------------------------------------------------------------------------
(* The invariant holds of an empty pool and idle readers. *)
LEMMA HashInitInv == HashInit => HashInv
<1> SUFFICES ASSUME HashInit PROVE HashInv
  OBVIOUS
<1>1. PoolInv
  BY EmptyPoolFacts DEF HashInit, PoolInit, PoolInv, PoolTypeOK, InternedOnce
<1>2. HashTypeOK
  <2>1. hashes \in Seq(LineHashes) /\ Len(hashes) = Len(pool.lines)
    BY DEF HashInit, PoolInit, EmptyPool
  <2> QED
    BY <1>1, <2>1 DEF HashInit, HashTypeOK, PoolInv
<1>3. HeldWhileReading /\ ComputedOnce /\ RequestsKnown /\ AnswersRight
  BY DEF HashInit, HeldWhileReading, Reading, ComputedOnce, RequestsKnown, AnswersRight
<1>4. CellsRight
  BY DEF HashInit, CellsRight
<1> QED
  BY <1>1, <1>2, <1>3, <1>4 DEF HashInv

(* Another thread interns: nobody is at a cell, and lines keep their       *)
(* hashes.                                                                 *)
LEMMA InternPreserves ==
  ASSUME HashInv, NEW s \in Content, InternLine(s)
  PROVE  HashInv'
<1>1. PoolInv' /\ Extends(pool, pool')
  BY PoolStep DEF HashInv, InternLine
<1>2. UNCHANGED readVars /\ holder = NoOne
  BY DEF InternLine, Free
<1>3. \A r \in Readers : ~Reading(r) /\ ~Reading(r)'
  BY <1>2, NoOneAssumption DEF HashInv, HeldWhileReading, Reading, readVars
<1>4. /\ hashes' \in Seq(LineHashes)
      /\ Len(hashes') = Len(pool'.lines)
      /\ CellsRight'
  <2>0. /\ hashes \in Seq(LineHashes) /\ Len(hashes) = Len(pool.lines)
        /\ pool.lines \in Seq(Content)
    BY DEF HashInv, HashTypeOK, PoolTypeOK, IsPool
  <2>1. CASE s \in DOMAIN pool.index
    <3>1. pool' = pool /\ hashes' = hashes
      BY <2>1 DEF InternLine, Intern, Interned
    <3> QED
      BY <2>0, <3>1 DEF HashInv, CellsRight
  <2>2. CASE s \notin DOMAIN pool.index
    <3>1. pool'.lines = Append(pool.lines, s) /\ hashes' = Append(hashes, FreshHash(s))
      BY <2>2 DEF InternLine, Intern, Interned, Added
    <3>2. FreshHash(s) \in LineHashes
      BY FreshHashType
    <3>3. hashes' \in Seq(LineHashes) /\ Len(hashes') = Len(pool'.lines)
      BY <2>0, <3>1, <3>2
    <3>4. ASSUME NEW i \in DOMAIN hashes', NEW alg \in Algorithms
          PROVE  hashes'[i][alg] \in {None, Digest(alg, pool'.lines[i])}
      <4>1. CASE i \in DOMAIN hashes
        <5>1. hashes'[i] = hashes[i] /\ pool'.lines[i] = pool.lines[i]
          BY <2>0, <3>1, <4>1
        <5> QED
          BY <4>1, <5>1 DEF HashInv, CellsRight
      <4>2. CASE i \notin DOMAIN hashes
        <5>1. hashes'[i] = FreshHash(s) /\ pool'.lines[i] = s
          BY <2>0, <3>1, <4>2
        <5> QED
          BY <5>1, FreshHashType
      <4> QED
        BY <4>1, <4>2
    <3>5. CellsRight'
      BY <3>4 DEF CellsRight
    <3> QED
      BY <3>3, <3>5
  <2> QED
    BY <2>1, <2>2
<1>5. HashTypeOK'
  BY <1>1, <1>2, <1>4 DEF HashInv, HashTypeOK, PoolInv, readVars
<1>6. HeldWhileReading' /\ ComputedOnce'
  BY <1>3 DEF HeldWhileReading, ComputedOnce, Reading
<1>7. \A r \in Readers : Known(r) => Known(r)'
  BY <1>1, <1>2 DEF Known, Extends, readVars
<1>8. RequestsKnown'
  BY <1>2, <1>7 DEF HashInv, RequestsKnown, readVars
<1>9. AnswersRight'
  <2> SUFFICES ASSUME NEW r \in Readers, answer[r] # None PROVE Right(r)'
    BY <1>2 DEF AnswersRight, readVars
  <2>1. request[r].id + 1 \in DOMAIN pool.lines
    BY KnownInRange DEF HashInv, RequestsKnown
  <2>2. pool'.lines[request[r].id + 1] = pool.lines[request[r].id + 1]
    BY <1>1, <2>1 DEF Extends
  <2> QED
    BY <1>2, <2>2 DEF HashInv, AnswersRight, Right, Get, readVars
<1> QED
  BY <1>1, <1>4, <1>5, <1>6, <1>8, <1>9 DEF HashInv

(* A call begins: it wants a digest of a line that is there.               *)
LEMMA AskPreserves ==
  ASSUME HashInv, NEW r \in Readers, NEW alg \in Algorithms, NEW s \in Content,
         Ask(r, alg, s)
  PROVE  HashInv'
<1> DEFINE q == [alg |-> alg, s |-> s, id |-> pool.index[s]]
<1>0. /\ pc[r] = "idle" /\ s \in DOMAIN pool.index
      /\ pc' = [pc EXCEPT ![r] = "locking"]
      /\ request' = [request EXCEPT ![r] = q]
      /\ answer' = [answer EXCEPT ![r] = None]
      /\ UNCHANGED <<pool, hashes, holder>>
  BY DEF Ask
<1>1. q \in Requests
  BY <1>0 DEF HashInv, PoolInv, PoolTypeOK, IsPool, Requests
<1>2. PoolInv' /\ CellsRight'
  BY <1>0 DEF HashInv, PoolInv, PoolTypeOK, InternedOnce, CellsRight
<1>3. HashTypeOK'
  BY <1>0, <1>1, <1>2 DEF HashInv, HashTypeOK, PoolInv
<1>4. \A o \in Readers : pc'[o] = IF o = r THEN "locking" ELSE pc[o]
  BY <1>0 DEF HashInv, HashTypeOK
<1>5. \A o \in Readers : request'[o] = IF o = r THEN q ELSE request[o]
  BY <1>0 DEF HashInv, HashTypeOK
<1>6. \A o \in Readers : answer'[o] = IF o = r THEN None ELSE answer[o]
  BY <1>0 DEF HashInv, HashTypeOK
<1>7. HeldWhileReading'
  BY <1>0, <1>4 DEF HashInv, HeldWhileReading, Reading
<1>8. ComputedOnce'
  BY <1>0, <1>4, <1>5 DEF HashInv, ComputedOnce, CellOf
<1>9. RequestsKnown'
  <2> SUFFICES ASSUME NEW o \in Readers, pc'[o] # "idle" \/ answer'[o] # None
               PROVE  Known(o)'
    BY DEF RequestsKnown
  <2>1. CASE o = r
    BY <1>0, <1>1, <1>5, <2>1 DEF Known
  <2>2. CASE o # r
    BY <1>0, <1>4, <1>5, <1>6, <2>2 DEF HashInv, RequestsKnown, Known
  <2> QED
    BY <2>1, <2>2
<1>10. AnswersRight'
  BY <1>0, <1>5, <1>6 DEF HashInv, AnswersRight, Right
<1> QED
  BY <1>2, <1>3, <1>7, <1>8, <1>9, <1>10 DEF HashInv

(* The mutex is taken by one reader, when nobody has it.                   *)
LEMMA LockPreserves ==
  ASSUME HashInv, NEW r \in Readers, Lock(r)
  PROVE  HashInv'
<1>0. /\ pc[r] = "locking" /\ holder = NoOne /\ holder' = r
      /\ pc' = [pc EXCEPT ![r] = "looking"]
      /\ UNCHANGED <<pool, hashes, request, answer>>
  BY DEF Lock, Free
<1>1. \A o \in Readers : pc'[o] = IF o = r THEN "looking" ELSE pc[o]
  BY <1>0 DEF HashInv, HashTypeOK
<1>2. \A o \in Readers : ~Reading(o)
  BY <1>0, NoOneAssumption DEF HashInv, HeldWhileReading
<1>3. PoolInv' /\ CellsRight'
  BY <1>0 DEF HashInv, PoolInv, PoolTypeOK, InternedOnce, CellsRight
<1>4. HashTypeOK'
  BY <1>0, <1>3 DEF HashInv, HashTypeOK, PoolInv
<1>5. HeldWhileReading'
  BY <1>0, <1>1, <1>2 DEF HeldWhileReading, Reading
<1>6. ComputedOnce'
  BY <1>1, <1>2 DEF ComputedOnce, Reading
<1>7. RequestsKnown'
  BY <1>0, <1>1 DEF HashInv, RequestsKnown, Known
<1>8. AnswersRight'
  BY <1>0 DEF HashInv, AnswersRight, Right
<1> QED
  BY <1>3, <1>4, <1>5, <1>6, <1>7, <1>8 DEF HashInv

(* The reader with the mutex is the only one at a cell.                    *)
LEMMA AtCell ==
  ASSUME HashInv, NEW r \in Readers, Reading(r)
  PROVE  /\ holder = r /\ Known(r)
         /\ \A o \in Readers \ {r} : ~Reading(o)
         /\ request[r].id + 1 \in DOMAIN hashes
         /\ request[r].alg \in Algorithms
<1>1. holder = r
  BY DEF HashInv, HeldWhileReading
<1>2. \A o \in Readers \ {r} : ~Reading(o)
  BY <1>1 DEF HashInv, HeldWhileReading
<1>3. Known(r)
  BY DEF HashInv, RequestsKnown, Reading
<1>4. request[r].id + 1 \in DOMAIN pool.lines
  BY <1>3, KnownInRange DEF HashInv
<1>5. DOMAIN pool.lines = DOMAIN hashes
  BY DEF HashInv, HashTypeOK, PoolTypeOK, IsPool
<1> QED
  BY <1>1, <1>2, <1>3, <1>4, <1>5 DEF Known, Requests

(* It finds the digest in its cell, or that there is none.                 *)
LEMMA LookPreserves ==
  ASSUME HashInv, NEW r \in Readers, Look(r)
  PROVE  HashInv'
<1> DEFINE next == IF Hit(CellOf(r)) THEN "returning" ELSE "computing"
           found == IF Hit(CellOf(r)) THEN CellOf(r) ELSE answer[r]
           q == request[r]
<1>0. /\ pc[r] = "looking" /\ pc' = [pc EXCEPT ![r] = next]
      /\ answer' = [answer EXCEPT ![r] = found]
      /\ UNCHANGED <<pool, hashes, holder, request>>
  BY DEF Look, HashInv, HashTypeOK
<1>1. Reading(r)
  BY <1>0 DEF Reading
<1>2. /\ holder = r /\ Known(r)
      /\ \A o \in Readers \ {r} : ~Reading(o)
      /\ q.id + 1 \in DOMAIN hashes /\ q.alg \in Algorithms
  BY <1>1, AtCell
<1>3. CellOf(r) \in {None, Digest(q.alg, pool.lines[q.id + 1])}
  BY <1>2 DEF HashInv, CellsRight, CellOf
<1>4. Hit(CellOf(r)) => found = Digest(q.alg, Get(pool, q.id))
  BY <1>3 DEF Hit, Get
<1>5. found \in [alg : Algorithms, of : Content] \cup {None}
  <2>1. Get(pool, q.id) \in Content
    <3>1. q.id + 1 \in DOMAIN pool.lines
      BY <1>2, KnownInRange DEF HashInv
    <3> QED
      BY <3>1 DEF HashInv, PoolInv, PoolTypeOK, IsPool, Get
  <2>2. Digest(q.alg, Get(pool, q.id)) \in [alg : Algorithms, of : Content]
    BY <1>2, <2>1 DEF Digest
  <2> QED
    BY <1>4, <2>2 DEF HashInv, HashTypeOK
<1>6. \A o \in Readers : pc'[o] = IF o = r THEN next ELSE pc[o]
  BY <1>0 DEF HashInv, HashTypeOK
<1>7. \A o \in Readers : answer'[o] = IF o = r THEN found ELSE answer[o]
  BY <1>0 DEF HashInv, HashTypeOK
<1>8. PoolInv' /\ CellsRight'
  BY <1>0 DEF HashInv, PoolInv, PoolTypeOK, InternedOnce, CellsRight
<1> HIDE DEF found
<1>9. HashTypeOK'
  <2>1. pc' \in [Readers -> {"idle", "locking", "looking", "computing", "returning"}]
    BY <1>0 DEF HashInv, HashTypeOK
  <2>2. answer' \in [Readers -> [alg : Algorithms, of : Content] \cup {None}]
    BY <1>0, <1>5 DEF HashInv, HashTypeOK
  <2> QED
    BY <1>0, <1>8, <2>1, <2>2 DEF HashInv, HashTypeOK, PoolInv
<1>10. HeldWhileReading'
  BY <1>0, <1>2, <1>6 DEF HeldWhileReading, Reading
<1>11. ComputedOnce'
  <2> SUFFICES ASSUME NEW o \in Readers, pc'[o] = "computing"
               PROVE  CellOf(o)' = None
    BY DEF ComputedOnce
  <2>1. o = r
    BY <1>2, <1>6 DEF Reading
  <2>2. ~Hit(CellOf(r))
    BY <1>6, <2>1
  <2> QED
    BY <1>0, <2>1, <2>2 DEF Hit, CellOf
<1>12. RequestsKnown'
  BY <1>0, <1>2, <1>6, <1>7 DEF HashInv, RequestsKnown, Known
<1>13. AnswersRight'
  <2> SUFFICES ASSUME NEW o \in Readers, answer'[o] # None PROVE Right(o)'
    BY DEF AnswersRight
  <2>1. CASE o = r /\ Hit(CellOf(r))
    BY <1>0, <1>4, <1>7, <2>1 DEF Right
  <2>2. CASE ~(o = r /\ Hit(CellOf(r)))
    BY <1>0, <1>7, <2>2 DEF HashInv, AnswersRight, Right, found
  <2> QED
    BY <2>1, <2>2
<1> QED
  BY <1>8, <1>9, <1>10, <1>11, <1>12, <1>13 DEF HashInv

(* It fills an empty cell with the digest of the line.                     *)
LEMMA StorePreserves ==
  ASSUME HashInv, NEW r \in Readers, Store(r)
  PROVE  HashInv'
<1> DEFINE q == request[r]
           k == q.id + 1
           content == pool.lines[k]
           digest == Digest(q.alg, content)
<1>0. /\ pc[r] = "computing" /\ pc' = [pc EXCEPT ![r] = "returning"]
      /\ hashes' = [hashes EXCEPT ![k] = Filled(hashes[k], q.alg, content)]
      /\ answer' = [answer EXCEPT ![r] = digest]
      /\ UNCHANGED <<pool, holder, request>>
  BY DEF Store, Get
<1>1. Reading(r)
  BY <1>0 DEF Reading
<1>2. /\ holder = r /\ Known(r)
      /\ \A o \in Readers \ {r} : ~Reading(o)
      /\ k \in DOMAIN hashes /\ q.alg \in Algorithms
  BY <1>1, AtCell
<1>3. hashes \in Seq(LineHashes) /\ Len(hashes) = Len(pool.lines)
  BY DEF HashInv, HashTypeOK
<1>4. content \in Content /\ hashes[k] \in LineHashes
  <2>1. k \in DOMAIN pool.lines
    BY <1>2, KnownInRange DEF HashInv
  <2> QED
    BY <1>2, <1>3, <2>1 DEF HashInv, PoolInv, PoolTypeOK, IsPool
<1> DEFINE filled == Filled(hashes[k], q.alg, content)
<1>5. /\ filled \in LineHashes /\ filled[q.alg] = digest
      /\ \A other \in Algorithms \ {q.alg} : filled[other] = hashes[k][other]
  BY <1>2, <1>4, FilledFacts
<1>6. digest \in [alg : Algorithms, of : Content]
  BY <1>2, <1>4 DEF Digest
<1> HIDE DEF filled, digest
<1>7. \A o \in Readers : pc'[o] = IF o = r THEN "returning" ELSE pc[o]
  BY <1>0 DEF HashInv, HashTypeOK
<1>8. \A o \in Readers : answer'[o] = IF o = r THEN digest ELSE answer[o]
  BY <1>0 DEF HashInv, HashTypeOK
<1>9. /\ hashes' \in Seq(LineHashes) /\ Len(hashes') = Len(hashes)
      /\ DOMAIN hashes' = DOMAIN hashes
      /\ \A i \in DOMAIN hashes : hashes'[i] = IF i = k THEN filled ELSE hashes[i]
  <2>1. hashes' = [hashes EXCEPT ![k] = filled]
    BY <1>0 DEF filled
  <2>2. k \in 1 .. Len(hashes)
    BY <1>2, <1>3
  <2> HIDE DEF k
  <2>3. /\ hashes' \in Seq(LineHashes) /\ Len(hashes') = Len(hashes)
        /\ \A i \in 1 .. Len(hashes) : hashes'[i] = IF i = k THEN filled ELSE hashes[i]
    BY <1>3, <1>5, <2>1, <2>2, ExceptSeq
  <2> QED
    BY <1>3, <2>3
<1>10. PoolInv'
  BY <1>0 DEF HashInv, PoolInv, PoolTypeOK, InternedOnce
<1>11. CellsRight'
  <2> SUFFICES ASSUME NEW i \in DOMAIN hashes, NEW alg \in Algorithms
               PROVE  hashes'[i][alg] \in {None, Digest(alg, pool.lines[i])}
    BY <1>0, <1>9 DEF CellsRight
  <2>1. hashes[i][alg] \in {None, Digest(alg, pool.lines[i])}
    BY DEF HashInv, CellsRight
  <2>2. CASE i = k /\ alg = q.alg
    BY <1>5, <1>9, <2>2 DEF digest
  <2>3. CASE i = k /\ alg # q.alg
    BY <1>5, <1>9, <2>1, <2>3
  <2>4. CASE i # k
    BY <1>9, <2>1, <2>4
  <2> QED
    BY <2>2, <2>3, <2>4
<1>12. HashTypeOK'
  <2>1. pc' \in [Readers -> {"idle", "locking", "looking", "computing", "returning"}]
    BY <1>0 DEF HashInv, HashTypeOK
  <2>2. answer' \in [Readers -> [alg : Algorithms, of : Content] \cup {None}]
    BY <1>0, <1>6 DEF HashInv, HashTypeOK
  <2> QED
    BY <1>0, <1>3, <1>9, <1>10, <2>1, <2>2 DEF HashInv, HashTypeOK, PoolInv
<1>13. HeldWhileReading'
  BY <1>0, <1>2, <1>7 DEF HeldWhileReading, Reading
<1>14. ComputedOnce'
  BY <1>2, <1>7 DEF ComputedOnce, Reading
<1>15. RequestsKnown'
  BY <1>0, <1>2, <1>7, <1>8 DEF HashInv, RequestsKnown, Known
<1>16. AnswersRight'
  <2> SUFFICES ASSUME NEW o \in Readers, answer'[o] # None PROVE Right(o)'
    BY DEF AnswersRight
  <2>1. CASE o = r
    BY <1>0, <1>8, <2>1 DEF Right, Get, digest
  <2>2. CASE o # r
    BY <1>0, <1>8, <2>2 DEF HashInv, AnswersRight, Right
  <2> QED
    BY <2>1, <2>2
<1> QED
  BY <1>10, <1>11, <1>12, <1>13, <1>14, <1>15, <1>16 DEF HashInv

(* It returns, and drops the guard.                                        *)
LEMMA ReturnPreserves ==
  ASSUME HashInv, NEW r \in Readers, Return(r)
  PROVE  HashInv'
<1>0. /\ pc[r] = "returning" /\ holder' = NoOne
      /\ pc' = [pc EXCEPT ![r] = "idle"]
      /\ UNCHANGED <<pool, hashes, request, answer>>
  BY DEF Return
<1>1. Reading(r)
  BY <1>0 DEF Reading
<1>2. \A o \in Readers \ {r} : ~Reading(o)
  BY <1>1, AtCell
<1>3. \A o \in Readers : pc'[o] = IF o = r THEN "idle" ELSE pc[o]
  BY <1>0 DEF HashInv, HashTypeOK
<1>4. PoolInv' /\ CellsRight'
  BY <1>0 DEF HashInv, PoolInv, PoolTypeOK, InternedOnce, CellsRight
<1>5. HashTypeOK'
  BY <1>0, <1>4 DEF HashInv, HashTypeOK, PoolInv
<1>6. HeldWhileReading' /\ ComputedOnce'
  BY <1>2, <1>3 DEF HeldWhileReading, ComputedOnce, Reading
<1>7. RequestsKnown'
  BY <1>0, <1>3 DEF HashInv, RequestsKnown, Known
<1>8. AnswersRight'
  BY <1>0 DEF HashInv, AnswersRight, Right
<1> QED
  BY <1>4, <1>5, <1>6, <1>7, <1>8 DEF HashInv

-----------------------------------------------------------------------------
(* The inductive invariant of the digest readers. *)
THEOREM HashInvariant == HashSpec => []HashInv
<1>1. HashInv /\ [HashNext]_hashVars => HashInv'
  <2> SUFFICES ASSUME HashInv, [HashNext]_hashVars PROVE HashInv'
    OBVIOUS
  <2>1. ASSUME NEW s \in Content, InternLine(s) PROVE HashInv'
    BY <2>1, InternPreserves
  <2>2. ASSUME NEW r \in Readers, NEW alg \in Algorithms, NEW s \in Content,
               Ask(r, alg, s)
        PROVE  HashInv'
    BY <2>2, AskPreserves
  <2>3. ASSUME NEW r \in Readers, Lock(r) PROVE HashInv'
    BY <2>3, LockPreserves
  <2>4. ASSUME NEW r \in Readers, Look(r) PROVE HashInv'
    BY <2>4, LookPreserves
  <2>5. ASSUME NEW r \in Readers, Store(r) PROVE HashInv'
    BY <2>5, StorePreserves
  <2>6. ASSUME NEW r \in Readers, Return(r) PROVE HashInv'
    BY <2>6, ReturnPreserves
  <2>7. CASE UNCHANGED hashVars
    <3>1. /\ pool' = pool /\ hashes' = hashes /\ holder' = holder
          /\ pc' = pc /\ request' = request /\ answer' = answer
      BY <2>7 DEF hashVars, readVars
    <3>2. PoolInv' /\ CellsRight'
      BY <3>1 DEF HashInv, PoolInv, PoolTypeOK, InternedOnce, CellsRight
    <3>3. HashTypeOK'
      BY <3>1, <3>2 DEF HashInv, HashTypeOK, PoolInv
    <3>4. HeldWhileReading' /\ ComputedOnce'
      BY <3>1 DEF HashInv, HeldWhileReading, ComputedOnce, Reading, CellOf
    <3>5. RequestsKnown' /\ AnswersRight'
      BY <3>1 DEF HashInv, RequestsKnown, Known, AnswersRight, Right
    <3> QED
      BY <3>2, <3>3, <3>4, <3>5 DEF HashInv
  <2> QED
    BY <2>1, <2>2, <2>3, <2>4, <2>5, <2>6, <2>7 DEF HashNext
<1> QED
  BY <1>1, HashInitInv, PTL DEF HashSpec

(* No digest is computed again once it is cached. *)
THEOREM DigestsComputedOnce == HashSpec => []ComputedOnce
  BY HashInvariant, PTL DEF HashInv

(* Types, and the pool is a set, whoever reads while it grows. *)
THEOREM HashTypes == HashSpec => [](HashTypeOK /\ InternedOnce)
  BY HashInvariant, PTL DEF HashInv, PoolInv

(* If the ids suffice, cells and calls have the right digest of the right  *)
(* line.                                                                   *)
THEOREM DigestsAreRight == ASSUME IdsSuffice PROVE HashSpec => []DigestsRight
<1>1. HashInv => DigestsRight
  <2> SUFFICES ASSUME HashInv PROVE DigestsRight
    OBVIOUS
  <2>1. ResolvesIn(pool)
    BY MatchingPoolResolves DEF HashInv, PoolInv, PoolTypeOK, InternedOnce
  <2>2. ASSUME NEW r \in Readers, answer[r] # None
        PROVE  answer[r] = Digest(request[r].alg, request[r].s)
    <3>1. Known(r) /\ Right(r)
      BY <2>2 DEF HashInv, RequestsKnown, AnswersRight
    <3>2. Get(pool, request[r].id) = request[r].s
      BY <2>1, <3>1 DEF ResolvesIn, Known
    <3> QED
      BY <3>1, <3>2 DEF Right
  <2> QED
    BY <2>2 DEF HashInv, CellsRight, DigestsRight
<1> QED
  BY <1>1, HashInvariant, PTL
=============================================================================
