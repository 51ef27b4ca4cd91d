---------------------------- MODULE GreenPool ----------------------------
(***************************************************************************)
(* The append-only interned line store of green.rs.  The pool keeps every  *)
(* distinct line once, in a vector, and an index from the content of a     *)
(* line to its id.  An id is a position in the vector (0-based) that was   *)
(* narrowed to 32 bits when it was issued.                                 *)
(*                                                                         *)
(* The operators take the pool as an argument, so that the modules that    *)
(* share one pool between several branches use them on their own state.    *)
(***************************************************************************)
EXTENDS Integers, Sequences, FiniteSets

CONSTANTS Content,   \* the line contents a client may offer
          IdSpace    \* number of values of a GreenLineId: 2^32 in the code

ASSUME IdSpaceAssumption == IdSpace \in Nat \ {0}

(***************************************************************************)
(* The ids can name every distinct line.  In the code this is the promise  *)
(* that no process interns more than 2^32 lines; nothing enforces it, so   *)
(* it is a condition the theorems name, not an assumption.                 *)
(***************************************************************************)
IdsSuffice == IsFiniteSet(Content) /\ Cardinality(Content) <= IdSpace

GreenLineId == 0 .. IdSpace - 1

(* A bug to catch: ids that count from one.                                *)
AsIdFromOne(position) == (position % IdSpace) + 1

(* `usize as u32` keeps the low bits of the position. *)
AsId(position) == position % IdSpace

EmptyPool == [lines |-> << >>, index |-> [c \in {} |-> 0]]

(* The id intern(s) returns. *)
IdOf(p, s) ==
  IF s \in DOMAIN p.index THEN p.index[s] ELSE AsId(Len(p.lines))

(* The pool with a new line under the given id. *)
Added(p, s, id) ==
  [lines |-> Append(p.lines, s),
   index |-> [c \in DOMAIN p.index \cup {s} |-> IF c = s THEN id ELSE p.index[c]]]

(* A bug to catch: no early return for a known line.                       *)
InternedAlways(p, s) == Added(p, s, AsId(Len(p.lines)))

(* The pool intern(s) leaves behind. *)
Interned(p, s) ==
  IF s \in DOMAIN p.index THEN p ELSE Added(p, s, AsId(Len(p.lines)))

(* get(id) indexes the vector and panics past its end. *)
CanGet(p, id) == id < Len(p.lines)
Get(p, id) == p.lines[id + 1]

-----------------------------------------------------------------------------
VARIABLE pool

PoolInit == pool = EmptyPool

Intern(s) == pool' = Interned(pool, s)

PoolNext == \E s \in Content : Intern(s)

PoolSpec == PoolInit /\ [][PoolNext]_pool

-----------------------------------------------------------------------------
(* A pool is a vector of contents and an index from contents to ids.       *)
IsPool(p) ==
  /\ p = [lines |-> p.lines, index |-> p.index]
  /\ p.lines \in Seq(Content)
  /\ DOMAIN p.index \subseteq Content
  /\ p.index \in [DOMAIN p.index -> GreenLineId]

PoolTypeOK == IsPool(pool)

(***************************************************************************)
(* The vector and the index agree: a content is indexed exactly when some  *)
(* position of the vector holds it, exactly one position does, and the id  *)
(* the index gives is that position narrowed.  (intern, green.rs:165)      *)
(***************************************************************************)
IndexMatchesLines(p) ==
  /\ DOMAIN p.index = {p.lines[i] : i \in DOMAIN p.lines}
  /\ \A i \in DOMAIN p.lines : p.index[p.lines[i]] = AsId(i - 1)
  /\ \A i, j \in DOMAIN p.lines : p.lines[i] = p.lines[j] => i = j

(* One copy of each line, found under the id of its position. *)
InternedOnce == IndexMatchesLines(pool)

(***************************************************************************)
(* What the pool promises its branches: an id that was issued for a        *)
(* content leads back to that content, whatever was interned since.        *)
(* (get after intern, green.rs:183)                                        *)
(***************************************************************************)
ResolvesIn(p) ==
  \A s \in DOMAIN p.index : CanGet(p, p.index[s]) /\ Get(p, p.index[s]) = s
IdsResolve == ResolvesIn(pool)

(* Two contents never share an id (green.rs:166-175 under 32-bit ids). *)
DistinctIds ==
  \A s, t \in DOMAIN pool.index : pool.index[s] = pool.index[t] => s = t

(***************************************************************************)
(* Nothing the pool holds is removed or changed: the old vector is a       *)
(* prefix of the new one and an issued id stays with its content.          *)
(* (header of green.rs: "append-only")                                     *)
(***************************************************************************)
Extends(p, q) ==
  /\ Len(p.lines) <= Len(q.lines)
  /\ \A i \in DOMAIN p.lines : q.lines[i] = p.lines[i]
  /\ \A s \in DOMAIN p.index : s \in DOMAIN q.index /\ q.index[s] = p.index[s]
AppendOnly == [][Extends(pool, pool')]_pool
=============================================================================
