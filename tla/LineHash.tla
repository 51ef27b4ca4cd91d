----------------------------- MODULE LineHash -----------------------------
(***************************************************************************)
(* The digests of the pool's lines (green.rs) and the threads that read    *)
(* them through a LineBufferView.  The CRC32 of a line is computed when    *)
(* the line is made.  The cells for MD5 and SHA-256 are filled by their    *)
(* first reader, through a shared reference, and are not synchronised:     *)
(* only the mutex of the pool keeps the readers of a cell apart, and the   *)
(* reader's reference from a vector that grows.                            *)
(***************************************************************************)
EXTENDS GreenPool

CONSTANTS Readers,  \* the threads that read digests
          NoOne,    \* the holder of a free mutex
          None      \* a cell that is empty, an answer that is not there yet

ASSUME NoOneAssumption == NoOne \notin Readers
ASSUME NoneAssumption == \A s \in Content, alg \in {"crc32", "md5", "sha256"} :
                           None # [alg |-> alg, of |-> s]

VARIABLES hashes,   \* the LineHash of each line of the pool
          holder,   \* the reader that holds the mutex, or NoOne
          pc,       \* reader -> where its call is
          request,  \* reader -> the digest it wants: of the line with this id
          answer    \* reader -> what its call returned

readVars == <<holder, pc, request, answer>>
hashVars == <<pool, hashes, readVars>>

Algorithms == {"crc32", "md5", "sha256"}

(* The hash functions, which are functions of the content alone.           *)
Digest(alg, s) == [alg |-> alg, of |-> s]

(* LineHash::new. *)
FreshHash(s) == [crc32 |-> Digest("crc32", s), md5 |-> None, sha256 |-> None]

(* md5_with_content and sha256_with_content fill the cell they looked at.  *)
(* A bug to catch: both fill the same one.                                 *)
FilledMd5(h, alg, s) == [h EXCEPT !.md5 = Digest(alg, s)]
Filled(h, alg, s) == [h EXCEPT ![alg] = Digest(alg, s)]

(* The cell is returned if it is there.  A bug to catch: it is not         *)
(* consulted.                                                              *)
NeverHit(cell) == FALSE
Hit(cell) == cell # None

Free == holder = NoOne

CellOf(r) == hashes[request[r].id + 1][request[r].alg]

-----------------------------------------------------------------------------
HashInit ==
  /\ PoolInit
  /\ hashes = << >>
  /\ holder = NoOne
  /\ pc = [r \in Readers |-> "idle"]
  /\ request = [r \in Readers |-> None]
  /\ answer = [r \in Readers |-> None]

(* An edit of some branch interns under the lock.                          *)
InternLine(s) ==
  /\ Free
  /\ Intern(s)
  /\ hashes' = IF s \in DOMAIN pool.index THEN hashes ELSE Append(hashes, FreshHash(s))
  /\ UNCHANGED readVars

(* line_crc32, line_md5, line_sha256 of a line that shows s: its id is     *)
(* copied before the lock is taken.                                        *)
Ask(r, alg, s) ==
  /\ pc[r] = "idle"
  /\ s \in DOMAIN pool.index
  /\ pc' = [pc EXCEPT ![r] = "locking"]
  /\ request' = [request EXCEPT ![r] = [alg |-> alg, s |-> s, id |-> pool.index[s]]]
  /\ answer' = [answer EXCEPT ![r] = None]
  /\ UNCHANGED <<pool, hashes, holder>>

Lock(r) ==
  /\ pc[r] = "locking" /\ Free
  /\ holder' = r
  /\ pc' = [pc EXCEPT ![r] = "looking"]
  /\ UNCHANGED <<pool, hashes, request, answer>>

Look(r) ==
  /\ pc[r] = "looking"
  /\ IF Hit(CellOf(r))
       THEN /\ answer' = [answer EXCEPT ![r] = CellOf(r)]
            /\ pc' = [pc EXCEPT ![r] = "returning"]
       ELSE pc' = [pc EXCEPT ![r] = "computing"] /\ UNCHANGED answer
  /\ UNCHANGED <<pool, hashes, holder, request>>

(* The digest is computed of the line's own content, and stored.           *)
Store(r) ==
  /\ pc[r] = "computing"
  /\ LET q == request[r]
         content == Get(pool, q.id)
     IN  /\ hashes' = [hashes EXCEPT ![q.id + 1] = Filled(@, q.alg, content)]
         /\ answer' = [answer EXCEPT ![r] = Digest(q.alg, content)]
  /\ pc' = [pc EXCEPT ![r] = "returning"]
  /\ UNCHANGED <<pool, holder, request>>

(* The guard is dropped when the reader returns.                           *)
Return(r) ==
  /\ pc[r] = "returning"
  /\ holder' = NoOne
  /\ pc' = [pc EXCEPT ![r] = "idle"]
  /\ UNCHANGED <<pool, hashes, request, answer>>

HashNext ==
  \/ \E s \in Content : InternLine(s)
  \/ \E r \in Readers :
       \/ \E alg \in Algorithms, s \in Content : Ask(r, alg, s)
       \/ Lock(r) \/ Look(r) \/ Store(r) \/ Return(r)

HashSpec == HashInit /\ [][HashNext]_hashVars

-----------------------------------------------------------------------------
Digests(alg) == {Digest(alg, s) : s \in Content}
LineHashes == [crc32 : Digests("crc32"), md5 : Digests("md5") \cup {None},
               sha256 : Digests("sha256") \cup {None}]
Requests == [alg : Algorithms, s : Content, id : GreenLineId]

HashTypeOK ==
  /\ PoolTypeOK
  /\ hashes \in Seq(LineHashes) /\ Len(hashes) = Len(pool.lines)
  /\ holder \in Readers \cup {NoOne}
  /\ pc \in [Readers -> {"idle", "locking", "looking", "computing", "returning"}]
  /\ request \in [Readers -> Requests \cup {None}]
  /\ answer \in [Readers -> [alg : Algorithms, of : Content] \cup {None}]

(***************************************************************************)
(* A digest is computed at most once for a line, whichever branches share  *)
(* the line and whoever asks: one that is being computed is not in its     *)
(* cell yet.  ("computed on first access and cached", green.rs:29-30)      *)
(***************************************************************************)
ComputedOnce == \A r \in Readers : pc[r] = "computing" => CellOf(r) = None

(***************************************************************************)
(* A cell holds nothing or its own digest of its own line, and a call      *)
(* returns the digest it was asked for, of the content its line shows,     *)
(* whatever was interned and cached in between.  (green.rs:57-74, 123-130) *)
(***************************************************************************)
DigestsRight ==
  /\ \A i \in DOMAIN hashes, alg \in Algorithms :
       hashes[i][alg] \in {None, Digest(alg, pool.lines[i])}
  /\ \A r \in Readers :
       answer[r] # None => answer[r] = Digest(request[r].alg, request[r].s)
=============================================================================
