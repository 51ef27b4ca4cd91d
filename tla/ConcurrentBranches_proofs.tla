--------------------- MODULE ConcurrentBranches_proofs ---------------------
(***************************************************************************)
(* The pool's mutex is enough: calls that are split where they take and    *)
(* release it are, step by step, calls of the sequential BranchHistory,    *)
(* for every number of branches, lines, edits and calls.                   *)
(***************************************************************************)
EXTENDS ConcurrentBranches, BranchHistory_proofs

CallType == [op : Edits \cup {"none", "read", "write"}, n : Nat,
             s : Content \cup {Separator}, id : GreenLineId]

(* What an edit checked before it took the lock holds until it is done.    *)
EditReady(b) ==
  /\ \E v \in Validators : call[b].s \in v
  /\ call[b].n \in 0 .. MaxLines
  /\ IF call[b].op = "insert"
       THEN call[b].n <= Len(lines[b]) /\ Len(lines[b]) < MaxLines
       ELSE call[b].n < Len(lines[b])
  /\ Len(undo_stack[b]) < MaxHistory

(* What the steps of a call rely on.                                       *)
CallInv(b) ==
  /\ pc[b] = "idle" <=> call[b].op = "none"
  /\ pc[b] # "idle" => b \in live
  /\ UnderLock(b) <=> holder = b
  /\ UnderLock(b) => ~poisoned
  /\ pc[b] \in {"looking", "pushing", "unlocking", "applying"} => call[b].op \in Edits
  /\ pc[b] \in {"writing", "separating", "written"} => call[b].op = "write"
  /\ call[b].op \in Edits => EditReady(b)
  /\ call[b].op = "read" => CanGet(pool, call[b].id)
  /\ call[b].op = "write" => call[b].n < Len(lines[b])
  /\ pc[b] = "separating" => call[b].n + 1 < Len(lines[b])
  /\ pc[b] = "pushing" =>
       call[b].s \notin DOMAIN pool.index /\ call[b].id = AsId(Len(pool.lines))
  /\ pc[b] \in {"unlocking", "applying"} =>
       call[b].s \in DOMAIN pool.index /\ call[b].id = pool.index[call[b].s]

LockInv ==
  /\ pc \in [Branches -> Labels]
  /\ call \in [Branches -> CallType]
  /\ \A b \in Branches : CallInv(b)

CInv == RInv /\ LockInv

-----------------------------------------------------------------------------
(* The values a call is made of. *)
LEMMA CallFacts ==
  ASSUME CInv, NEW b \in Branches
  PROVE  /\ pc[b] \in Labels /\ call[b] \in CallType
         /\ CallInv(b)
         /\ lines[b] \in Seq(GreenLineId) /\ Known(pool, lines[b])
         /\ IsPool(pool) /\ IndexMatchesLines(pool)
         /\ call[b].op \in Edits => call[b].s \in Content
  BY BranchFacts, PoolFacts, ValidatorsAssumption
  DEF CInv, LockInv, CallInv, EditReady, RInv, KnownVersions

(* A step of c keeps the other calls ready if it leaves them and their     *)
(* branches alone, and if it uses mutex or pool only when no other holds   *)
(* the mutex.                                                              *)
LEMMA OtherCalls ==
  ASSUME CInv, NEW c \in Branches, NEW b \in Branches, b # c,
         pc'[b] = pc[b], call'[b] = call[b],
         lines'[b] = lines[b], undo_stack'[b] = undo_stack[b],
         live \subseteq live',
         IsPool(pool'), Extends(pool, pool'),
         holder' \in {holder, c, NoOne},
         UNCHANGED <<holder, poisoned, pool>> \/ ~UnderLock(b)
  PROVE  CallInv(b)'
<1>1. CallInv(b) /\ pc[b] \in Labels /\ call[b] \in CallType /\ IsPool(pool)
  BY CallFacts
<1>2. EditReady(b)' = EditReady(b)
  BY DEF EditReady
<1>3. call[b].op = "read" => CanGet(pool', call[b].id)
  <2>1. /\ Len(pool.lines) \in Nat /\ Len(pool'.lines) \in Nat /\ call[b].id \in Nat
        /\ Len(pool.lines) <= Len(pool'.lines)
    BY <1>1 DEF IsPool, CallType, GreenLineId, Extends
  <2> QED
    BY <1>1, <2>1 DEF CallInv, CanGet
<1>4. CASE UNCHANGED <<holder, poisoned, pool>>
  BY <1>1, <1>2, <1>4 DEF CallInv, UnderLock
<1>5. CASE ~UnderLock(b)
  <2>1. holder' # b
    BY <1>1, <1>5, NoOneAssumption DEF CallInv
  <2> QED
    BY <1>1, <1>2, <1>3, <1>5, <2>1 DEF CallInv, UnderLock, Extends
<1> QED
  BY <1>4, <1>5

(* Only the holder of the mutex is under it.                               *)
LEMMA MutualExclusion ==
  ASSUME CInv, NEW b \in Branches, NEW c \in Branches, b # c,
         UnderLock(c) \/ holder = NoOne
  PROVE  ~UnderLock(b)
  BY CallFacts, NoOneAssumption DEF CallInv

(* A step that leaves branches alone, or changes that of c only.           *)
Aside(c) ==
  /\ \A b \in Branches : b # c => lines'[b] = lines[b] /\ undo_stack'[b] = undo_stack[b]
  /\ live \subseteq live'
  /\ IsPool(pool') /\ Extends(pool, pool')
  /\ holder' \in {holder, c, NoOne}
  /\ UNCHANGED <<holder, poisoned, pool>> \/ UnderLock(c) \/ holder = NoOne

(* A step of one call. *)
LEMMA OneCallStep ==
  ASSUME CInv, NEW c \in Branches, NEW l \in Labels, NEW r \in CallType,
         pc' = [pc EXCEPT ![c] = l], call' = [call EXCEPT ![c] = r],
         Aside(c), CallInv(c)'
  PROVE  LockInv'
<1>1. pc \in [Branches -> Labels] /\ call \in [Branches -> CallType]
  BY DEF CInv, LockInv
<1>2. ASSUME NEW b \in Branches, b # c
      PROVE  CallInv(b)'
  <2>1. pc'[b] = pc[b] /\ call'[b] = call[b]
    BY <1>1, <1>2
  <2>2. UNCHANGED <<holder, poisoned, pool>> \/ ~UnderLock(b)
    BY <1>2, MutualExclusion DEF Aside
  <2> QED
    BY <1>2, <2>1, <2>2, OtherCalls DEF Aside
<1> QED
  BY <1>1, <1>2 DEF LockInv

LEMMA NoCallType == NoCall \in CallType
  BY IdSpaceAssumption DEF NoCall, CallType, GreenLineId

(* A call ends, with a result or a panic.                                  *)
LEMMA EndStep ==
  ASSUME CInv, NEW c \in Branches, End(c), Aside(c), holder' # c
  PROVE  LockInv'
<1>1. pc' = [pc EXCEPT ![c] = "idle"] /\ call' = [call EXCEPT ![c] = NoCall]
  BY DEF End
<1>2. pc'[c] = "idle" /\ call'[c].op = "none"
  BY <1>1 DEF CInv, LockInv, NoCall
<1>3. CallInv(c)'
  BY <1>2 DEF CallInv, UnderLock, Edits
<1> QED
  BY <1>1, <1>3, NoCallType, OneCallStep DEF Labels

(* A step of a branch whose call has not begun.                            *)
LEMMA IdleStep ==
  ASSUME CInv, NEW c \in Branches, pc[c] = "idle", UNCHANGED lockVars, Aside(c)
  PROVE  LockInv'
<1>1. pc' = [pc EXCEPT ![c] = "idle"] /\ call' = [call EXCEPT ![c] = call[c]]
  BY DEF lockVars, CInv, LockInv
<1>2. /\ call[c] \in CallType /\ call[c].op = "none"
      /\ pc'[c] = "idle" /\ call'[c] = call[c] /\ holder' # c
  BY CallFacts DEF CallInv, UnderLock, lockVars
<1>3. CallInv(c)'
  BY <1>2 DEF CallInv, UnderLock, Edits
<1> QED
  BY <1>1, <1>2, <1>3, OneCallStep DEF Labels

(* A call that only touches call and mutex leaves all branches alone.      *)
LEMMA BranchesAside ==
  ASSUME CInv, NEW c \in Branches, UNCHANGED hvars, holder' \in {holder, c, NoOne},
         UNCHANGED <<holder, poisoned>> \/ UnderLock(c) \/ holder = NoOne
  PROVE  Aside(c)
  BY PoolFacts DEF CInv, Aside, hvars, vars, branchVars

(* A call begins: an edit has made its checks (branch.rs:106-123, 141-158),*)
(* a reader has copied its id (branch.rs:92).                              *)
LEMMA BeginStep ==
  ASSUME CInv, NEW c \in Branches, NEW op, NEW n, NEW s, NEW id,
         Begin(c, op, n, s, id),
         [op |-> op, n |-> n, s |-> s, id |-> id] \in CallType,
         op # "none",
         op = "read" => CanGet(pool, id),
         op = "write" => n < Len(lines[c]),
         op \in Edits =>
           /\ \E v \in Validators : s \in v
           /\ n \in 0 .. MaxLines
           /\ IF op = "insert" THEN n <= Len(lines[c]) /\ Len(lines[c]) < MaxLines
                               ELSE n < Len(lines[c])
           /\ Len(undo_stack[c]) < MaxHistory
  PROVE  LockInv'
<1> DEFINE r == [op |-> op, n |-> n, s |-> s, id |-> id]
<1>1. /\ pc' = [pc EXCEPT ![c] = "locking"] /\ call' = [call EXCEPT ![c] = r]
      /\ UNCHANGED hvars /\ UNCHANGED <<holder, poisoned>> /\ c \in live
      /\ holder' # c
  BY CallFacts DEF Begin, Idle, CallInv, UnderLock
<1>2. Aside(c)
  BY <1>1, BranchesAside
<1>3. pc'[c] = "locking" /\ call'[c] = r
  BY <1>1 DEF CInv, LockInv
<1>4. CallInv(c)'
  BY <1>1, <1>3 DEF CallInv, EditReady, UnderLock, hvars, vars, branchVars
<1> QED
  BY <1>1, <1>2, <1>4, OneCallStep DEF Labels

(* An edit begins. *)
LEMMA BeginEditStep ==
  ASSUME CInv, NEW c \in Branches, NEW n \in 0 .. MaxLines,
         NEW s \in Content, NEW v \in Validators,
         BeginInsert(c, n, s, v) \/ BeginReplace(c, n, s, v)
  PROVE  LockInv'
<1>1. \A op \in Edits : [op |-> op, n |-> n, s |-> s, id |-> 0] \in CallType
  BY IdSpaceAssumption, BoundsAssumption DEF GreenLineId, CallType
<1>2. CASE BeginInsert(c, n, s, v)
  BY <1>1, <1>2, BeginStep DEF BeginInsert, Edits
<1>3. CASE BeginReplace(c, n, s, v)
  BY <1>1, <1>3, BeginStep DEF BeginReplace, Edits
<1> QED
  BY <1>2, <1>3

(* A read or a write_lines begins. *)
LEMMA BeginReadStep ==
  ASSUME CInv, NEW c \in Branches, NEW n \in 0 .. MaxLines,
         BeginRead(c, n) \/ BeginWrite(c)
  PROVE  LockInv'
<1>1. /\ lines[c] \in Seq(GreenLineId) /\ Known(pool, lines[c])
      /\ 0 \in GreenLineId /\ n \in Nat
  BY CallFacts, IdSpaceAssumption, BoundsAssumption DEF GreenLineId
<1>2. CASE BeginRead(c, n)
  <2>1. lines[c][n + 1] \in GreenLineId /\ CanGet(pool, lines[c][n + 1])
    BY <1>1, <1>2 DEF BeginRead, Known
  <2>2. [op |-> "read", n |-> n, s |-> Separator, id |-> lines[c][n + 1]] \in CallType
    BY <1>1, <2>1 DEF CallType
  <2> QED
    BY <1>2, <2>1, <2>2, BeginStep DEF BeginRead, Edits
<1>3. CASE BeginWrite(c)
  <2>1. [op |-> "write", n |-> 0, s |-> Separator, id |-> 0] \in CallType
    BY <1>1 DEF CallType
  <2> QED
    BY <1>1, <1>3, <2>1, BeginStep, EmptySeq DEF BeginWrite, Edits
<1> QED
  BY <1>2, <1>3

-----------------------------------------------------------------------------
(* A call goes from one label to the next. *)
LEMMA GoToFacts ==
  ASSUME CInv, NEW c \in Branches, NEW l, GoTo(c, l)
  PROVE  pc' = [pc EXCEPT ![c] = l] /\ pc'[c] = l
  BY DEF GoTo, CInv, LockInv

(* The call is left as it is. *)
LEMMA SameCall ==
  ASSUME CInv, NEW c \in Branches, UNCHANGED call
  PROVE  call' = [call EXCEPT ![c] = call[c]] /\ call'[c] = call[c]
  BY DEF CInv, LockInv

(* The lock is taken, or found poisoned. *)
LEMMA LockStep ==
  ASSUME CInv, NEW c \in Branches, Lock(c)
  PROVE  LockInv'
<1>1. Aside(c)
  BY BranchesAside DEF Lock, Free
<1>2. CASE poisoned
  BY <1>1, <1>2, NoOneAssumption, EndStep DEF Lock, Free, Refused
<1>3. CASE ~poisoned
  <2> DEFINE l == CASE call[c].op \in Edits -> "looking"
                    [] call[c].op = "read" -> "reading"
                    [] call[c].op = "write" -> "writing"
  <2>1. GoTo(c, l) /\ UNCHANGED <<call, hvars, poisoned>> /\ holder' = c
        /\ pc[c] = "locking"
    BY <1>3 DEF Lock, Free, Refused
  <2>2. call[c] \in CallType /\ CallInv(c)
    BY CallFacts
  <2> HIDE DEF l
  <2>3. pc' = [pc EXCEPT ![c] = l] /\ pc'[c] = l
    BY <2>1, GoToFacts
  <2>4. call' = [call EXCEPT ![c] = call[c]] /\ call'[c] = call[c]
    BY <2>1, SameCall
  <2>5. CallInv(c)' /\ l \in Labels
    <3>1. call[c].op \in Edits \cup {"read", "write"} /\ (call[c].op \in Edits => EditReady(c))
      BY <2>1, <2>2 DEF CallInv, CallType
    <3>2. /\ l \in {"looking", "reading", "writing"}
          /\ l = "looking" => call[c].op \in Edits
          /\ l = "writing" => call[c].op = "write"
      BY <3>1 DEF l, Edits
    <3>3. EditReady(c)' = EditReady(c)
      BY <2>1, <2>4 DEF EditReady, hvars, vars, branchVars
    <3> QED
      BY <1>3, <2>1, <2>2, <2>3, <2>4, <3>1, <3>2, <3>3
      DEF CallInv, UnderLock, hvars, vars, branchVars, Labels
  <2> QED
    BY <1>1, <2>2, <2>3, <2>4, <2>5, OneCallStep
<1> QED
  BY <1>2, <1>3

(* intern looks the content up: the id is right for as long as the lock is *)
(* held (green.rs:166-169).                                                *)
LEMMA LookUpStep ==
  ASSUME CInv, NEW c \in Branches, LookUp(c)
  PROVE  LockInv'
<1> DEFINE l == IF call[c].s \in DOMAIN pool.index THEN "unlocking" ELSE "pushing"
           id == IdOf(pool, call[c].s)
           r == [call[c] EXCEPT !.id = id]
<1>1. /\ GoTo(c, l) /\ call' = [call EXCEPT ![c] = r] /\ pc[c] = "looking"
      /\ UNCHANGED <<hvars, holder, poisoned>>
  BY DEF LookUp
<1>2. /\ call[c] \in CallType /\ CallInv(c) /\ call[c].op \in Edits
      /\ call[c].s \in Content
  BY <1>1, CallFacts DEF CallInv
<1>3. Aside(c)
  BY <1>1, BranchesAside
<1>4. id \in GreenLineId
  BY <1>2, CallFacts, InternedType
<1> HIDE DEF id
<1>5. r \in CallType /\ r.op = call[c].op /\ r.n = call[c].n /\ r.s = call[c].s /\ r.id = id
  BY <1>2, <1>4 DEF CallType
<1> HIDE DEF r, l
<1>6. pc' = [pc EXCEPT ![c] = l] /\ pc'[c] = l /\ call'[c] = r
  BY <1>1, GoToFacts DEF CInv, LockInv
<1>7. EditReady(c)' = EditReady(c)
  BY <1>1, <1>5, <1>6 DEF EditReady, hvars, vars, branchVars
<1>8. CallInv(c)'
  BY <1>1, <1>2, <1>5, <1>6, <1>7
  DEF CallInv, UnderLock, hvars, vars, branchVars, l, id, IdOf, Edits
<1>9. l \in Labels
  BY DEF l, Labels
<1> QED
  BY <1>1, <1>3, <1>5, <1>6, <1>8, <1>9, OneCallStep

(* The push is what intern does to the pool of the sequential model.       *)
LEMMA PushInterns ==
  ASSUME CInv, NEW c \in Branches, Push(c)
  PROVE  call[c].s \in Content /\ pool' = Interned(pool, call[c].s)
  BY CallFacts DEF Push, CallInv, Interned, Edits

(* intern adds the new line (green.rs:170-176). *)
LEMMA PushStep ==
  ASSUME CInv, NEW c \in Branches, Push(c)
  PROVE  LockInv'
<1> DEFINE s == call[c].s
<1>1. /\ GoTo(c, "unlocking") /\ UNCHANGED <<branchVars, call, holder, poisoned>>
      /\ pc[c] = "pushing" /\ s \in Content /\ pool' = Interned(pool, s)
  BY PushInterns DEF Push
<1>2. /\ call[c] \in CallType /\ CallInv(c) /\ IsPool(pool)
  BY CallFacts
<1>3. s \in DOMAIN pool'.index /\ pool'.index[s] = call[c].id
  BY <1>1, <1>2 DEF CallInv, Interned, Added
<1>4. Aside(c)
  BY <1>1, <1>2, InternedExtends, InternedType DEF Aside, branchVars, UnderLock
<1>5. pc' = [pc EXCEPT ![c] = "unlocking"] /\ pc'[c] = "unlocking"
  BY <1>1, GoToFacts
<1>6. call' = [call EXCEPT ![c] = call[c]] /\ call'[c] = call[c]
  BY <1>1, SameCall
<1>7. EditReady(c)' = EditReady(c)
  BY <1>1, <1>6 DEF EditReady, branchVars
<1>8. CallInv(c)'
  BY <1>1, <1>2, <1>3, <1>5, <1>6, <1>7 DEF CallInv, UnderLock, branchVars, Edits
<1> QED
  BY <1>2, <1>4, <1>5, <1>6, <1>8, OneCallStep DEF Labels

(* The guard of an edit is dropped before its lines change. *)
LEMMA UnlockStep ==
  ASSUME CInv, NEW c \in Branches, Unlock(c)
  PROVE  LockInv'
<1>1. /\ GoTo(c, "applying") /\ UNCHANGED <<hvars, call, poisoned>>
      /\ pc[c] = "unlocking" /\ UnderLock(c) /\ holder' = NoOne
  BY DEF Unlock, UnderLock
<1>2. /\ call[c] \in CallType /\ CallInv(c)
  BY CallFacts
<1>3. Aside(c)
  BY <1>1, BranchesAside
<1>4. pc' = [pc EXCEPT ![c] = "applying"] /\ pc'[c] = "applying"
  BY <1>1, GoToFacts
<1>5. call' = [call EXCEPT ![c] = call[c]] /\ call'[c] = call[c]
  BY <1>1, SameCall
<1>6. EditReady(c)' = EditReady(c)
  BY <1>1, <1>5 DEF EditReady, hvars, vars, branchVars
<1>7. CallInv(c)'
  BY <1>1, <1>2, <1>4, <1>5, <1>6, NoOneAssumption
  DEF CallInv, UnderLock, Edits, hvars, vars, branchVars
<1> QED
  BY <1>2, <1>3, <1>4, <1>5, <1>7, OneCallStep DEF Labels

(***************************************************************************)
(* The last step of an edit is the whole edit of the sequential model,     *)
(* made now: its checks still hold, and its content is already in the      *)
(* pool, under the id that was returned (branch.rs:129-132, 164-172).      *)
(***************************************************************************)
LEMMA ApplyIsEdit ==
  ASSUME CInv, NEW c \in Branches, Apply(c)
  PROVE  HEdit(c)
<1> DEFINE s == call[c].s
           n == call[c].n
<1>1. /\ CallInv(c) /\ call[c] \in CallType /\ call[c].op \in Edits /\ s \in Content
      /\ EditReady(c) /\ c \in live /\ pc[c] = "applying"
  BY CallFacts DEF Apply, CallInv
<1>2. PICK v \in Validators : s \in v
  BY <1>1 DEF EditReady
<1>3. s \in DOMAIN pool.index /\ call[c].id = pool.index[s]
  BY <1>1 DEF CallInv
<1>4. IdOf(pool, s) = call[c].id /\ Interned(pool, s) = pool
  BY <1>3 DEF IdOf, Interned
<1>5. n \in 0 .. MaxLines
  BY <1>1 DEF EditReady
<1>6. CASE call[c].op = "insert"
  <2>1. InsertLine(c, n, s, v)
    BY <1>1, <1>2, <1>4, <1>6 DEF Apply, InsertLine, Intern, EditReady
  <2> QED
    BY <1>1, <1>2, <1>5, <2>1 DEF HEdit, Edit, Apply
<1>7. CASE call[c].op = "replace"
  <2>1. ReplaceLine(c, n, s, v)
    BY <1>1, <1>2, <1>4, <1>7 DEF Apply, ReplaceLine, OldId, Intern, EditReady
  <2> QED
    BY <1>1, <1>2, <1>5, <2>1 DEF HEdit, Edit, Apply
<1> QED
  BY <1>1, <1>6, <1>7 DEF Edits

-----------------------------------------------------------------------------
(* A read ends, and a line or a separator is written or not: the call ends *)
(* or goes on to a label that is not under the lock.                       *)
LEMMA ReadStep ==
  ASSUME CInv, NEW c \in Branches, Read(c)
  PROVE  LockInv'
<1>1. Aside(c)
  BY BranchesAside DEF Read, UnderLock
<1> QED
  BY <1>1, EndStep, NoOneAssumption DEF Read

LEMMA WriteSteps ==
  ASSUME CInv, NEW c \in Branches,
         WriteLine(c) \/ WriteSeparator(c) \/ ReturnWritten(c)
  PROVE  LockInv'
<1>1. call[c] \in CallType /\ CallInv(c) /\ call[c].n \in Nat /\ Len(lines[c]) \in Nat
  BY CallFacts DEF CallType
<1>2. Aside(c)
  BY BranchesAside DEF WriteLine, HeldAfterLine, WriteSeparator, ReturnWritten, UnderLock
<1>3. CASE End(c)
  <2>1. holder' # c
    BY <1>1, NoOneAssumption
    DEF WriteLine, HeldAfterLine, WriteSeparator, ReturnWritten, CallInv, UnderLock
  <2> QED
    BY <1>2, <1>3, <2>1, EndStep
<1>4. CASE WriteLine(c) /\ ~End(c)
  <2> DEFINE l == IF call[c].n < LastLine(c) THEN "separating" ELSE "written"
  <2>1. /\ GoTo(c, l) /\ UNCHANGED <<hvars, call>> /\ pc[c] = "writing"
        /\ holder' # c
    BY <1>4, NoOneAssumption DEF WriteLine, HeldAfterLine
  <2>2. /\ l \in {"separating", "written"}
        /\ l = "separating" => call[c].n + 1 < Len(lines[c])
    BY <1>1 DEF LastLine
  <2> HIDE DEF l
  <2>3. pc' = [pc EXCEPT ![c] = l] /\ pc'[c] = l
    BY <2>1, GoToFacts
  <2>4. call' = [call EXCEPT ![c] = call[c]] /\ call'[c] = call[c]
    BY <2>1, SameCall
  <2>5. EditReady(c)' = EditReady(c)
    BY <2>1, <2>4 DEF EditReady, hvars, vars, branchVars
  <2>6. CallInv(c)'
    BY <1>1, <2>1, <2>2, <2>3, <2>4, <2>5
    DEF CallInv, UnderLock, Edits, hvars, vars, branchVars
  <2> QED
    BY <1>1, <1>2, <2>2, <2>3, <2>4, <2>6, OneCallStep DEF Labels
<1>5. CASE WriteSeparator(c) /\ ~End(c)
  <2> DEFINE r == [call[c] EXCEPT !.n = call[c].n + 1]
  <2>1. /\ GoTo(c, "locking") /\ call' = [call EXCEPT ![c] = r]
        /\ UNCHANGED hvars /\ pc[c] = "separating" /\ holder' # c
    BY <1>1, <1>5 DEF WriteSeparator, CallInv, UnderLock
  <2>2. r \in CallType /\ r.op = call[c].op /\ r.n = call[c].n + 1
    BY <1>1 DEF CallType
  <2> HIDE DEF r
  <2>3. pc' = [pc EXCEPT ![c] = "locking"] /\ pc'[c] = "locking" /\ call'[c] = r
    BY <2>1, GoToFacts DEF CInv, LockInv
  <2>4. CallInv(c)'
    BY <1>1, <2>1, <2>2, <2>3
    DEF CallInv, UnderLock, Edits, hvars, vars, branchVars
  <2> QED
    BY <1>2, <2>1, <2>2, <2>3, <2>4, OneCallStep DEF Labels
<1> QED
  BY <1>3, <1>4, <1>5 DEF ReturnWritten

(***************************************************************************)
(* Every step of the concurrent branches is, for the branches, a step of   *)
(* the sequential ones or none; only a push shows the pool grown before    *)
(* the edit that needs the new line.                                       *)
(***************************************************************************)
PoolGrows(s) == pool' = Interned(pool, s) /\ UNCHANGED <<branchVars, past, future>>

LEMMA Simulation ==
  ASSUME CInv, [CNext]_cvars
  PROVE  [HNext]_hvars \/ \E s \in Content : PoolGrows(s)
<1>1. ASSUME NEW c \in Branches, Call(c)
      PROVE  [HNext]_hvars
  <2>1. CASE CStart(c)
    BY <2>1 DEF CStart, HStart, HNext
  <2>2. CASE CUndo(c) \/ CRedo(c)
    BY <2>2 DEF CUndo, CRedo, HNext
  <2>3. ASSUME NEW n \in 0 .. MaxLines, CDelete(c, n)
        PROVE  HNext
    BY <2>3 DEF CDelete, HEdit, Edit, HNext
  <2>4. ASSUME NEW n \in 0 .. MaxLines, BeginRead(c, n) \/ BeginWrite(c)
        PROVE  UNCHANGED hvars
    BY <2>4 DEF BeginRead, BeginWrite, Begin
  <2>5. ASSUME NEW n \in 0 .. MaxLines, NEW s \in Content, NEW v \in Validators,
               BeginInsert(c, n, s, v) \/ BeginReplace(c, n, s, v)
        PROVE  UNCHANGED hvars
    BY <2>5 DEF BeginInsert, BeginReplace, Begin
  <2>6. 0 \in 0 .. MaxLines
    BY BoundsAssumption
  <2> QED
    BY <1>1, <2>1, <2>2, <2>3, <2>4, <2>5, <2>6 DEF Call
<1>2. ASSUME NEW c \in Branches, Continue(c)
      PROVE  [HNext]_hvars \/ \E s \in Content : PoolGrows(s)
  <2>1. CASE Push(c)
    BY <2>1, PushInterns DEF Push, PoolGrows
  <2>2. CASE Apply(c)
    BY <2>2, ApplyIsEdit DEF HNext
  <2>3. CASE \/ Lock(c) \/ LookUp(c) \/ Unlock(c) \/ Read(c) \/ WriteLine(c)
             \/ WriteSeparator(c) \/ ReturnWritten(c)
    BY <2>3
    DEF Lock, LookUp, Unlock, Read, WriteLine, WriteSeparator, ReturnWritten
  <2> QED
    BY <1>2, <2>1, <2>2, <2>3 DEF Continue
<1> QED
  BY <1>1, <1>2 DEF CNext, cvars

(* The operations that never lock.                                         *)
LEMMA UnlockedStep ==
  ASSUME CInv, NEW c \in Branches, NEW n,
         CStart(c) \/ CDelete(c, n) \/ CUndo(c) \/ CRedo(c)
  PROVE  LockInv'
<1>1. CallInv(c) /\ IsPool(pool) /\ Extends(pool, pool)
  BY CallFacts, PoolFacts DEF CInv
<1>2. pc[c] = "idle"
  BY <1>1 DEF CStart, New, Fork, CDelete, CUndo, CRedo, Idle, CallInv
<1>3. UNCHANGED <<lockVars, pool>> /\ live \subseteq live'
  BY DEF CStart, New, Fork, CDelete, DeleteLine, CUndo, HUndo, Undo, CRedo, HRedo, Redo
<1>4. ASSUME NEW b \in Branches, b # c
      PROVE  lines'[b] = lines[b] /\ undo_stack'[b] = undo_stack[b]
  <2>1. lines \in [Branches -> Seq(GreenLineId)] /\ undo_stack \in [Branches -> Seq(BranchEdit)]
    BY DEF CInv, RInv, HInv, HTypeOK, TypeOK
  <2> QED
    BY <1>4, <2>1
    DEF CStart, New, Fork, CDelete, DeleteLine, Record, RedoAfterEdit, CUndo, HUndo, Undo,
        CRedo, HRedo, Redo
<1>5. Aside(c)
  BY <1>1, <1>3, <1>4 DEF Aside, lockVars
<1> QED
  BY <1>2, <1>3, <1>5, IdleStep

(* An edit is applied. *)
LEMMA ApplyStep ==
  ASSUME CInv, NEW c \in Branches, Apply(c)
  PROVE  LockInv'
<1>1. CallInv(c) /\ IsPool(pool) /\ Extends(pool, pool)
  BY CallFacts, PoolFacts DEF CInv
<1>2. holder' = holder /\ holder' # c /\ UNCHANGED <<pool, poisoned, live>> /\ End(c)
  BY <1>1 DEF Apply, CallInv, UnderLock
<1>3. ASSUME NEW b \in Branches, b # c
      PROVE  lines'[b] = lines[b] /\ undo_stack'[b] = undo_stack[b]
  <2>1. lines \in [Branches -> Seq(GreenLineId)] /\ undo_stack \in [Branches -> Seq(BranchEdit)]
    BY DEF CInv, RInv, HInv, HTypeOK, TypeOK
  <2> QED
    BY <1>3, <2>1 DEF Apply, Record, RedoAfterEdit, OldId
<1> QED
  BY <1>1, <1>2, <1>3, EndStep DEF Aside

(* Every step of every thread keeps what the calls rely on.                *)
LEMMA LockInvStep ==
  ASSUME CInv, [CNext]_cvars
  PROVE  LockInv'
<1>1. ASSUME NEW c \in Branches, Call(c)
      PROVE  LockInv'
  <2>1. 0 \in 0 .. MaxLines
    BY BoundsAssumption
  <2> QED
    BY <1>1, <2>1, UnlockedStep, BeginEditStep, BeginReadStep DEF Call
<1>2. ASSUME NEW c \in Branches, Continue(c)
      PROVE  LockInv'
  BY <1>2, LockStep, LookUpStep, PushStep, UnlockStep, ApplyStep, ReadStep,
     WriteSteps DEF Continue
<1>3. CASE UNCHANGED cvars
  BY <1>3
  DEF cvars, hvars, vars, branchVars, lockVars, CInv, LockInv, CallInv,
      EditReady, UnderLock
<1> QED
  BY <1>1, <1>2, <1>3 DEF CNext

(* As the pool grows, all branches stay as they were, and so does what     *)
(* readers see of them.                                                    *)
LEMMA GrowthKeeps ==
  ASSUME RInv, NEW s \in Content, PoolGrows(s)
  PROVE  RInv' /\ UNCHANGED Promise!vars
<1>1. /\ IsPool(pool) /\ IndexMatchesLines(pool)
      /\ pool' = Interned(pool, s) /\ UNCHANGED <<branchVars, past, future>>
  BY PoolFacts DEF PoolGrows
<1>2. IsPool(pool') /\ IndexMatchesLines(pool') /\ Extends(pool, pool')
  BY <1>1, InternedType, InternedMatches, InternedExtends
<1>3. HInv'
  BY <1>1, <1>2
  DEF RInv, HInv, HTypeOK, TypeOK, PoolTypeOK, UndoChain, RedoChain, branchVars
<1>4. ASSUME NEW b \in Branches
      PROVE  /\ Known(pool', lines[b]) /\ Text(pool', lines[b]) = Text(pool, lines[b])
             /\ AllKnown(pool', past[b]) /\ Texts(pool', past[b]) = Texts(pool, past[b])
             /\ AllKnown(pool', future[b])
             /\ Texts(pool', future[b]) = Texts(pool, future[b])
  <2>1. /\ lines[b] \in Seq(GreenLineId) /\ past[b] \in Seq(Seq(GreenLineId))
        /\ future[b] \in Seq(Seq(GreenLineId))
    BY BranchFacts
  <2>2. Known(pool, lines[b]) /\ AllKnown(pool, past[b]) /\ AllKnown(pool, future[b])
    BY DEF RInv, KnownVersions
  <2> QED
    BY <1>1, <1>2, <2>1, <2>2, KnownStable, TextsStable
<1>5. KnownVersions'
  BY <1>1, <1>4 DEF KnownVersions, branchVars
<1>6. UNCHANGED Promise!vars
  BY <1>1, <1>4 DEF Promise!vars, branchVars
<1> QED
  BY <1>2, <1>3, <1>5, <1>6 DEF RInv, InternedOnce

-----------------------------------------------------------------------------
(***************************************************************************)
(* In every interleaving of the threads the pool is in order, the branches *)
(* keep the invariant of the sequential model, and each call can rely on   *)
(* what it has checked and looked up (branch.rs:105-173).                  *)
(***************************************************************************)
THEOREM ConcurrentInvariant == CSpec => []CInv
<1>1. CInit => CInv
  <2> SUFFICES ASSUME CInit PROVE CInv
    OBVIOUS
  <2>1. RInv
    BY RefinementInit DEF CInit
  <2>2. LockInv
    BY NoCallType, NoOneAssumption
    DEF CInit, LockInv, CallInv, UnderLock, Labels, NoCall, Edits
  <2> QED
    BY <2>1, <2>2 DEF CInv
<1>2. CInv /\ [CNext]_cvars => CInv'
  <2> SUFFICES ASSUME CInv, [CNext]_cvars PROVE CInv'
    OBVIOUS
  <2>1. RInv'
    BY Simulation, RefinementStep, GrowthKeeps DEF CInv
  <2> QED
    BY <2>1, LockInvStep DEF CInv
<1> QED
  BY <1>1, <1>2, PTL DEF CSpec

(* The pool of any number of threads holds each line once.                 *)
THEOREM ConcurrentPool == CSpec => []InternedOnce
<1>1. CInv => InternedOnce
  BY DEF CInv, RInv
<1> QED
  BY <1>1, ConcurrentInvariant, PTL

(* After a panic under the lock nothing is interned any more.              *)
THEOREM PoisonFreezes == CSpec => PoisonFreezesPool
<1>1. CInv /\ [CNext]_cvars => [poisoned => UNCHANGED pool]_cvars
  <2> SUFFICES ASSUME CInv, [CNext]_cvars, poisoned PROVE UNCHANGED pool
    OBVIOUS
  <2>1. ASSUME NEW b \in Branches, Call(b)
        PROVE  UNCHANGED pool
    <3>1. CASE CStart(b)
      BY <3>1 DEF CStart, New, Fork
    <3>2. CASE CUndo(b) \/ CRedo(b)
      BY <3>2 DEF CUndo, HUndo, Undo, CRedo, HRedo, Redo
    <3>3. ASSUME NEW n, CDelete(b, n)
          PROVE  UNCHANGED pool
      BY <3>3 DEF CDelete, DeleteLine
    <3>4. ASSUME NEW op, NEW n, NEW s, NEW id, Begin(b, op, n, s, id)
          PROVE  UNCHANGED pool
      BY <3>4 DEF Begin, hvars, vars
    <3> QED
      BY <2>1, <3>1, <3>2, <3>3, <3>4
      DEF Call, BeginWrite, BeginRead, BeginInsert, BeginReplace
  <2>2. ASSUME NEW b \in Branches, Continue(b)
        PROVE  UNCHANGED pool
    <3>1. ~Push(b)
      BY CallFacts DEF CallInv, Push, UnderLock
    <3> QED
      BY <2>2, <3>1
      DEF Continue, Lock, LookUp, Unlock, Apply, Read, WriteLine, WriteSeparator,
          ReturnWritten, hvars, vars
  <2> QED
    BY <2>1, <2>2 DEF CNext, cvars, hvars, vars
<1> QED
  BY <1>1, ConcurrentInvariant, PTL DEF CSpec, PoisonFreezesPool

(***************************************************************************)
(* Threads on one pool implement independent undo histories of whole texts,*)
(* if the ids suffice for the contents: taking the lock once per edit, and *)
(* only to intern, is enough.                                              *)
(***************************************************************************)
THEOREM ThreadsImplementHistory ==
  ASSUME IdsSuffice PROVE CSpec => ImplementsUndoHistory
<1>1. CInit => Promise!Init
  BY RefinementStart DEF CInit
<1>2. CInv /\ [CNext]_cvars => [Promise!Next]_Promise!vars
  BY Simulation, RefinementMap, GrowthKeeps DEF CInv
<1> QED
  BY <1>1, <1>2, ConcurrentInvariant, PTL
  DEF CSpec, ImplementsUndoHistory, Promise!Spec

-----------------------------------------------------------------------------
(* A call is only moved on by its own steps.                               *)
LEMMA OnlyApplyEnds ==
  ASSUME CInv, [CNext]_cvars, NEW b \in Branches, pc[b] = "applying", pc'[b] = "idle"
  PROVE  Apply(b)
<1>1. pc \in [Branches -> Labels]
  BY DEF CInv, LockInv
<1>2. ASSUME NEW c \in Branches, Call(c)
      PROVE  FALSE
  <2>1. CASE CStart(c) \/ CUndo(c) \/ CRedo(c) \/ \E n \in 0 .. MaxLines : CDelete(c, n)
    BY <2>1 DEF CStart, CUndo, CRedo, CDelete, lockVars
  <2>2. ASSUME NEW op, NEW n, NEW s, NEW id, Begin(c, op, n, s, id)
        PROVE  FALSE
    BY <1>1, <2>2 DEF Begin, Idle
  <2> QED
    BY <1>2, <2>1, <2>2
    DEF Call, BeginWrite, BeginRead, BeginInsert, BeginReplace
<1>3. ASSUME NEW c \in Branches, Continue(c)
      PROVE  Apply(b)
  <2>1. CASE c = b
    BY <1>3, <2>1
    DEF Continue, Lock, LookUp, Push, Unlock, Read, WriteLine, WriteSeparator,
        ReturnWritten
  <2>2. CASE c # b
    <3>1. End(c) \/ \E l : GoTo(c, l)
      BY <1>3
      DEF Continue, Lock, LookUp, Push, Unlock, Apply, Read, WriteLine,
          WriteSeparator, ReturnWritten
    <3> QED
      BY <1>1, <2>2, <3>1 DEF End, GoTo
  <2> QED
    BY <2>1, <2>2
<1> QED
  BY <1>2, <1>3 DEF CNext, cvars, lockVars

(* The id an edit applies leads to the content it was given.               *)
LEMMA ApplyShows ==
  ASSUME IdsSuffice, CInv, NEW b \in Branches, Apply(b)
  PROVE  Text(pool', lines'[b])[call[b].n + 1] = call[b].s
<1> DEFINE v == lines[b]
           n == call[b].n
           id == call[b].id
<1>1. /\ CallInv(b) /\ call[b] \in CallType /\ v \in Seq(GreenLineId)
      /\ IsPool(pool) /\ IndexMatchesLines(pool) /\ call[b].op \in Edits
      /\ EditReady(b)
  BY CallFacts DEF Apply, CallInv
<1>2. call[b].s \in DOMAIN pool.index /\ id = pool.index[call[b].s]
  BY <1>1 DEF Apply, CallInv
<1>3. Get(pool, id) = call[b].s
  BY <1>1, <1>2, MatchingPoolResolves DEF ResolvesIn
<1>4. id \in GreenLineId /\ n \in Nat /\ Len(v) \in Nat
  BY <1>1 DEF CallType
<1>5. lines \in [Branches -> Seq(GreenLineId)] /\ pool' = pool
  BY DEF CInv, RInv, HInv, HTypeOK, TypeOK, Apply
<1>6. n + 1 \in DOMAIN lines'[b] /\ lines'[b][n + 1] = id
  <2>1. CASE call[b].op = "insert"
    <3>1. n \in 0 .. Len(v)
      BY <1>1, <1>4, <2>1 DEF EditReady
    <3>2. lines'[b] = VecInsert(v, n, id)
      BY <1>5, <2>1 DEF Apply
    <3>3. VecInsert(v, n, id) \in Seq(GreenLineId)
      BY <1>1, <1>4, <3>1, VecInsertFacts
    <3>4. Len(VecInsert(v, n, id)) = Len(v) + 1 /\ VecInsert(v, n, id)[n + 1] = id
      BY <1>1, <1>4, <3>1, InsertedThere
    <3> QED
      BY <1>4, <3>1, <3>2, <3>3, <3>4
  <2>2. CASE call[b].op = "replace"
    <3>1. n + 1 \in 1 .. Len(v)
      BY <1>1, <1>4, <2>2 DEF EditReady
    <3>2. lines'[b] = VecSet(v, n, id)
      BY <1>5, <2>2 DEF Apply
    <3> QED
      BY <1>1, <3>1, <3>2 DEF VecSet
  <2> QED
    BY <1>1, <2>1, <2>2 DEF Edits
<1> QED
  BY <1>3, <1>5, <1>6 DEF Text

(***************************************************************************)
(* An edit puts the content it was given where it was told to, whatever    *)
(* other threads did between its checks and its change (branch.rs:105-173).*)
(***************************************************************************)
THEOREM EditsShowContent == ASSUME IdsSuffice PROVE CSpec => EditShowsContent
<1>1. CInv /\ [CNext]_cvars
        => [\A b \in Branches :
              pc[b] = "applying" /\ pc'[b] = "idle"
                => Text(pool', lines'[b])[call[b].n + 1] = call[b].s]_cvars
  BY OnlyApplyEnds, ApplyShows
<1> QED
  BY <1>1, ConcurrentInvariant, PTL DEF CSpec, EditShowsContent

(* The variables no call relies on keep their types.                       *)
RestTypeOK ==
  /\ holder \in Branches \cup {NoOne}
  /\ poisoned \in BOOLEAN
  /\ calls \in [Branches -> 0 .. MaxCalls]
  /\ out \in Seq(Content \cup {Separator})

LEMMA RestTypeStep ==
  ASSUME CInv, RestTypeOK, [CNext]_cvars
  PROVE  RestTypeOK'
<1>1. (holder \in Branches \cup {NoOne})'
  BY DEF RestTypeOK, CNext, Call, CStart, CDelete, CUndo, CRedo, BeginInsert,
         BeginReplace, BeginRead, BeginWrite, Begin, Continue, Lock, LookUp, Push,
         Unlock, Apply, Read, WriteLine, HeldAfterLine, WriteSeparator, ReturnWritten,
         cvars, lockVars
<1>2. (poisoned \in BOOLEAN)'
  <2>1. ASSUME NEW b \in Branches, Read(b)
        PROVE  poisoned' \in BOOLEAN
    BY <2>1 DEF Read
  <2>2. ASSUME NEW b \in Branches, WriteLine(b)
        PROVE  poisoned' = poisoned \/ poisoned' = TRUE
    BY <2>2 DEF WriteLine, HeldAfterLine
  <2>3. ASSUME NEW b \in Branches, Call(b)
        PROVE  poisoned' = poisoned
    BY <2>3
    DEF Call, CStart, CDelete, CUndo, CRedo, BeginInsert, BeginReplace, BeginRead,
        BeginWrite, Begin, lockVars
  <2>4. ASSUME NEW b \in Branches,
               \/ Lock(b) \/ LookUp(b) \/ Push(b) \/ Unlock(b) \/ Apply(b)
               \/ WriteSeparator(b) \/ ReturnWritten(b)
        PROVE  poisoned' = poisoned
    BY <2>4
    DEF Lock, LookUp, Push, Unlock, Apply, WriteSeparator, ReturnWritten
  <2> QED
    BY <2>1, <2>2, <2>3, <2>4 DEF RestTypeOK, CNext, Continue, cvars, lockVars
<1>3. (calls \in [Branches -> 0 .. MaxCalls])'
  <2>1. \/ calls' = calls
        \/ \E b \in Branches :
             calls[b] < MaxCalls /\ calls' = [calls EXCEPT ![b] = @ + 1]
    <3> DEFINE Counted(b) == calls[b] < MaxCalls /\ calls' = [calls EXCEPT ![b] = @ + 1]
    <3>1. ASSUME NEW b \in Branches, Call(b)
          PROVE  calls' = calls \/ Counted(b)
      <4>1. ASSUME NEW op, NEW n, NEW s, NEW id, Begin(b, op, n, s, id)
            PROVE  Counted(b)
        BY <4>1 DEF Begin
      <4> HIDE DEF Counted
      <4> QED
        BY <3>1, <4>1
        DEF Call, CStart, CDelete, CUndo, CRedo, BeginInsert, BeginReplace, BeginRead,
            BeginWrite, lockVars
    <3>2. ASSUME NEW b \in Branches, Continue(b)
          PROVE  calls' = calls
      BY <3>2
      DEF Continue, End, GoTo, Lock, LookUp, Push, Unlock, Apply, Read, WriteLine,
          WriteSeparator, ReturnWritten
    <3> QED
      BY <3>1, <3>2 DEF CNext, cvars, lockVars
  <2> QED
    BY <2>1, MaxCallsAssumption DEF RestTypeOK
<1>4. (out \in Seq(Content \cup {Separator}))'
  <2>1. ASSUME NEW b \in Branches, pc[b] = "writing"
        PROVE  Get(pool, lines[b][call[b].n + 1]) \in Content
    <3>1. /\ CallInv(b) /\ call[b] \in CallType /\ lines[b] \in Seq(GreenLineId)
          /\ Known(pool, lines[b]) /\ IsPool(pool)
      BY CallFacts
    <3>2. call[b].n + 1 \in 1 .. Len(lines[b])
      BY <2>1, <3>1 DEF CallInv, CallType
    <3> QED
      BY <3>1, <3>2, TextType
  <2>2. \/ out' = out \/ out' = << >> \/ out' = Append(out, Separator)
        \/ \E b \in Branches :
             pc[b] = "writing" /\ out' = Append(out, Get(pool, lines[b][call[b].n + 1]))
    BY DEF CNext, Call, CStart, CDelete, CUndo, CRedo, BeginInsert, BeginReplace,
        BeginRead, BeginWrite, Begin, Continue, Lock, LookUp, Push, Unlock, Apply,
        Read, WriteLine, WriteSeparator, ReturnWritten, cvars, lockVars
  <2>3. << >> \in Seq(Content \cup {Separator})
    OBVIOUS
  <2>4. ASSUME NEW e \in Content \cup {Separator}
        PROVE  Append(out, e) \in Seq(Content \cup {Separator})
    BY DEF RestTypeOK
  <2> QED
    BY <2>1, <2>2, <2>3, <2>4 DEF RestTypeOK
<1> QED
  BY <1>1, <1>2, <1>3, <1>4 DEF RestTypeOK

(* Branches, calls, lock and output keep their types.                      *)
THEOREM ConcurrentTypes == CSpec => []CTypeOK
<1>1. CInit => RestTypeOK
  <2> SUFFICES ASSUME CInit PROVE RestTypeOK
    OBVIOUS
  <2>1. poisoned \in BOOLEAN
    BY DEF CInit
  <2>2. holder \in Branches \cup {NoOne} /\ calls \in [Branches -> 0 .. MaxCalls]
    BY MaxCallsAssumption DEF CInit
  <2>3. out \in Seq(Content \cup {Separator})
    BY DEF CInit
  <2> QED
    BY <2>1, <2>2, <2>3 DEF RestTypeOK
<1>2. CInv /\ RestTypeOK /\ [CNext]_cvars => RestTypeOK'
  BY RestTypeStep
<1>3. CInv /\ RestTypeOK => CTypeOK
  BY DEF CInv, RInv, HInv, LockInv, CallInv, CallType, RestTypeOK, CTypeOK
<1> QED
  BY <1>1, <1>2, <1>3, ConcurrentInvariant, PTL DEF CSpec

-----------------------------------------------------------------------------
(***************************************************************************)
(* write_lines.  Between two of its steps other threads grow the pool, so  *)
(* that what was written is compared with the text as it reads now, item   *)
(* by item: lines at odd places, separators at even ones.                  *)
(***************************************************************************)
Wrote(o, p, v) ==
  \A k \in DOMAIN o :
    o[k] = IF k % 2 = 1 THEN Get(p, v[(k + 1) \div 2]) ELSE Separator

(* How many items are out when line n has been, or is to be, written.      *)
Written(n, label) == 2 * n + (IF label \in {"separating", "written"} THEN 1 ELSE 0)

WriteInv ==
  /\ out \in Seq(Content \cup {Separator})
  /\ \A b \in Branches : call[b].op = "write" => b = Root
  /\ call[Root].op = "write" =>
       /\ Len(out) = Written(call[Root].n, pc[Root])
       /\ Wrote(out, pool, lines[Root])
       /\ pc[Root] = "written" => call[Root].n + 1 = Len(lines[Root])

(* Every line that is out is one of the buffer's. *)
LEMMA WrittenInRange ==
  ASSUME CInv, WriteInv, call[Root].op = "write", NEW k \in DOMAIN out, k % 2 = 1
  PROVE  (k + 1) \div 2 \in DOMAIN lines[Root]
<1>1. /\ CallInv(Root) /\ call[Root].n \in Nat /\ Len(lines[Root]) \in Nat
      /\ lines[Root] \in Seq(GreenLineId)
  BY CallFacts, RootAssumption DEF CallType
<1>2. call[Root].n < Len(lines[Root])
  BY <1>1 DEF CallInv
<1>3. k \in Nat /\ 1 <= k /\ k <= 2 * call[Root].n + 1
  BY <1>1 DEF WriteInv, Written
<1>4. \A n \in Nat, j \in Nat :
        1 <= j /\ j <= 2 * n + 1 => (j + 1) \div 2 \in 1 .. n + 1
  OBVIOUS
<1>5. (k + 1) \div 2 \in 1 .. call[Root].n + 1
  BY <1>1, <1>3, <1>4
<1> QED
  BY <1>1, <1>2, <1>5

(* What is out stays right while other threads grow the pool. *)
LEMMA WroteStable ==
  ASSUME CInv, WriteInv, call[Root].op = "write", IsPool(pool'), Extends(pool, pool')
  PROVE  Wrote(out, pool', lines[Root])
<1>1. lines[Root] \in Seq(GreenLineId) /\ Known(pool, lines[Root]) /\ IsPool(pool)
  BY CallFacts, RootAssumption
<1>2. Text(pool', lines[Root]) = Text(pool, lines[Root])
  BY <1>1, KnownStable
<1>3. \A i \in DOMAIN lines[Root] : Get(pool', lines[Root][i]) = Get(pool, lines[Root][i])
  BY <1>2 DEF Text
<1> QED
  BY <1>3, WrittenInRange DEF WriteInv, Wrote

(* The step of another thread, or none. *)
LEMMA WriteAside ==
  ASSUME CInv, WriteInv,
         pc'[Root] = pc[Root], call'[Root] = call[Root], lines'[Root] = lines[Root],
         out' = out, \A b \in Branches : call'[b].op = "write" => b = Root,
         IsPool(pool'), Extends(pool, pool')
  PROVE  WriteInv'
<1>1. call[Root].op = "write" => Wrote(out, pool', lines[Root])
  BY WroteStable
<1>2. call[Root].op = "write" => Wrote(out', pool', lines'[Root])
  BY <1>1
<1> HIDE DEF Wrote
<1> QED
  BY <1>2 DEF WriteInv

(* No step takes anything out of the pool, or puts in what is none.        *)
LEMMA PoolStep ==
  ASSUME CInv, [CNext]_cvars
  PROVE  IsPool(pool') /\ Extends(pool, pool')
<1>1. IsPool(pool) /\ Extends(pool, pool)
  BY PoolFacts DEF CInv
<1>2. ASSUME NEW c \in Branches, Push(c)
      PROVE  IsPool(pool') /\ Extends(pool, pool')
  BY <1>1, <1>2, PushInterns, InternedExtends, InternedType
<1>3. ASSUME NEW c \in Branches, Continue(c), ~Push(c)
      PROVE  pool' = pool
  BY <1>3
  DEF Continue, Lock, LookUp, Unlock, Apply, Read, WriteLine, WriteSeparator,
      ReturnWritten, hvars, vars
<1>4. ASSUME NEW c \in Branches, Call(c)
      PROVE  pool' = pool
  BY <1>4
  DEF Call, CStart, New, Fork, CDelete, DeleteLine, CUndo, HUndo, Undo, CRedo, HRedo,
      Redo, BeginInsert, BeginReplace, BeginRead, BeginWrite, Begin, hvars, vars
<1> QED
  BY <1>1, <1>2, <1>3, <1>4 DEF CNext, cvars, hvars, vars

(* The steps of other threads leave the call of Root, its lines and its    *)
(* writer alone.                                                           *)
LEMMA OthersCall ==
  ASSUME CInv, WriteInv, NEW c \in Branches, Call(c) \/ Continue(c), c # Root
  PROVE  /\ pc'[Root] = pc[Root] /\ call'[Root] = call[Root]
         /\ lines'[Root] = lines[Root] /\ out' = out
         /\ \A b \in Branches : call'[b].op = "write" => b = Root
<1>1. /\ pc \in [Branches -> Labels] /\ call \in [Branches -> CallType]
      /\ lines \in [Branches -> Seq(GreenLineId)] /\ CallInv(c)
  BY CallFacts DEF CInv, LockInv, RInv, HInv, HTypeOK, TypeOK
<1>2. call[c].op # "write"
  BY DEF WriteInv
<1>3. /\ \A l : pc' = [pc EXCEPT ![c] = l] => pc'[Root] = pc[Root]
      /\ \A r : call' = [call EXCEPT ![c] = r] =>
           /\ call'[Root] = call[Root]
           /\ r.op # "write" => \A b \in Branches : call'[b].op = "write" => b = Root
      /\ \A v : lines' = [lines EXCEPT ![c] = v] => lines'[Root] = lines[Root]
  <2>1. \A b \in Branches : call[b].op = "write" => b = Root
    BY DEF WriteInv
  <2> QED
    BY <1>1, <2>1, RootAssumption
<1>4. call' = call => \A b \in Branches : call'[b].op = "write" => b = Root
  BY DEF WriteInv
<1>5. CASE CStart(c) \/ CUndo(c) \/ CRedo(c) \/ (\E n \in 0 .. MaxLines : CDelete(c, n))
  <2>1. UNCHANGED <<pc, call, out>>
    BY <1>5 DEF CStart, CUndo, CRedo, CDelete, lockVars
  <2>2. \E v : lines' = [lines EXCEPT ![c] = v]
    BY <1>5
    DEF CStart, New, Fork, CDelete, DeleteLine, CUndo, HUndo, Undo, CRedo, HRedo, Redo
  <2> QED
    BY <1>3, <1>4, <2>1, <2>2
<1>6. ASSUME NEW n \in 0 .. MaxLines,
             \/ BeginRead(c, n)
             \/ \E s \in Content, v \in Validators :
                  BeginInsert(c, n, s, v) \/ BeginReplace(c, n, s, v)
      PROVE  /\ UNCHANGED <<lines, out>>
             /\ \E l : pc' = [pc EXCEPT ![c] = l]
             /\ \E r : call' = [call EXCEPT ![c] = r] /\ r.op # "write"
  <2>1. ASSUME NEW op \in {"read", "insert", "replace"}, NEW s, NEW id,
               Begin(c, op, n, s, id)
        PROVE  /\ UNCHANGED lines
               /\ \E l : pc' = [pc EXCEPT ![c] = l]
               /\ \E r : call' = [call EXCEPT ![c] = r] /\ r.op # "write"
    <3> DEFINE r == [op |-> op, n |-> n, s |-> s, id |-> id]
    <3>1. r.op # "write"
      OBVIOUS
    <3>2. call' = [call EXCEPT ![c] = r]
      BY <2>1 DEF Begin
    <3>3. UNCHANGED lines /\ \E l : pc' = [pc EXCEPT ![c] = l]
      BY <2>1 DEF Begin, hvars, vars, branchVars
    <3> HIDE DEF r
    <3> QED
      BY <3>1, <3>2, <3>3
  <2> QED
    BY <1>6, <2>1 DEF BeginRead, BeginInsert, BeginReplace
<1>7. CASE Continue(c)
  <2>1. pc[c] \notin {"writing", "separating", "written"}
    BY <1>1, <1>2 DEF CallInv
  <2>2. out' = out
    BY <1>7, <2>1
    DEF Continue, Lock, LookUp, Push, Unlock, Apply, Read, WriteLine, WriteSeparator,
        ReturnWritten
  <2>3. \E l : pc' = [pc EXCEPT ![c] = l]
    BY <1>7, <2>1
    DEF Continue, Lock, LookUp, Push, Unlock, Apply, Read, WriteLine, WriteSeparator,
        ReturnWritten, End, GoTo
  <2>4. call' = call \/ \E r : call' = [call EXCEPT ![c] = r] /\ r.op # "write"
    <3>1. CASE LookUp(c)
      <4> DEFINE r == [call[c] EXCEPT !.id = IdOf(pool, call[c].s)]
      <4>1. call' = [call EXCEPT ![c] = r] /\ r.op = call[c].op
        BY <1>1, <3>1 DEF LookUp, CallType
      <4> QED
        BY <1>2, <4>1
    <3>2. NoCall.op # "write"
      BY DEF NoCall
    <3>3. End(c) => \E r : call' = [call EXCEPT ![c] = r] /\ r.op # "write"
      BY <3>2 DEF End
    <3> QED
      BY <1>7, <2>1, <3>1, <3>3
      DEF Continue, Lock, Push, Unlock, Apply, Read, WriteLine, WriteSeparator,
          ReturnWritten
  <2>5. lines' = lines \/ \E v : lines' = [lines EXCEPT ![c] = v]
    BY <1>7, <2>1
    DEF Continue, Lock, LookUp, Push, Unlock, Apply, Read, WriteLine, WriteSeparator,
        ReturnWritten, hvars, vars, branchVars
  <2> QED
    BY <1>3, <1>4, <2>2, <2>3, <2>4, <2>5
<1> QED
  BY <1>3, <1>5, <1>6, <1>7 DEF Call, BeginWrite

(* A write_lines begins with nothing out. *)
LEMMA WriteBegins ==
  ASSUME CInv, WriteInv, BeginWrite(Root)
  PROVE  WriteInv'
<1> DEFINE r == [op |-> "write", n |-> 0, s |-> Separator, id |-> 0]
<1>1. /\ pc' = [pc EXCEPT ![Root] = "locking"] /\ call' = [call EXCEPT ![Root] = r]
      /\ out' = << >>
  BY DEF BeginWrite, Begin
<1>2. r.op = "write" /\ r.n = 0
  OBVIOUS
<1> HIDE DEF r
<1>3. pc'[Root] = "locking" /\ call'[Root] = r
  BY <1>1, RootAssumption DEF CInv, LockInv
<1>4. \A b \in Branches : call'[b].op = "write" => b = Root
  BY <1>1 DEF WriteInv, CInv, LockInv
<1>5. << >> \in Seq(Content \cup {Separator}) /\ Len(<< >>) = 0
  OBVIOUS
<1>6. Wrote(out', pool', lines'[Root]) /\ Len(out') = Written(r.n, "locking")
  BY <1>1, <1>2 DEF Wrote, Written
<1> HIDE DEF Wrote
<1> QED
  BY <1>1, <1>2, <1>3, <1>4, <1>5, <1>6 DEF WriteInv

(* One more item: the line n, or the separator after it. *)
LEMMA WriteItem ==
  ASSUME CInv, WriteInv, call[Root].op = "write", pc[Root] \in {"writing", "separating"},
         NEW item \in Content \cup {Separator}, out' = Append(out, item),
         item = IF pc[Root] = "writing" THEN Get(pool, lines[Root][call[Root].n + 1])
                                        ELSE Separator,
         UNCHANGED <<pool, lines>>
  PROVE  /\ out' \in Seq(Content \cup {Separator})
         /\ Len(out') = Written(call[Root].n, pc[Root]) + 1
         /\ Wrote(out', pool', lines'[Root])
<1> DEFINE n == call[Root].n
<1>1. n \in Nat
  BY CallFacts, RootAssumption DEF CallType
<1>2. /\ out \in Seq(Content \cup {Separator})
      /\ Len(out) = IF pc[Root] = "writing" THEN 2 * n ELSE 2 * n + 1
      /\ Wrote(out, pool, lines[Root])
  <2>1. Written(n, "writing") = 2 * n /\ Written(n, "separating") = 2 * n + 1
    BY <1>1 DEF Written
  <2>2. /\ out \in Seq(Content \cup {Separator}) /\ Wrote(out, pool, lines[Root])
        /\ Len(out) = Written(n, pc[Root])
    BY DEF WriteInv
  <2> QED
    BY <2>1, <2>2
<1> HIDE DEF n
<1>3. /\ out' \in Seq(Content \cup {Separator}) /\ Len(out') = Len(out) + 1
      /\ \A k \in 1 .. Len(out) : out'[k] = out[k]
      /\ out'[Len(out) + 1] = item /\ Len(out) \in Nat
  BY <1>2
<1>4. ASSUME NEW k \in DOMAIN out'
      PROVE  out'[k] = IF k % 2 = 1 THEN Get(pool, lines[Root][(k + 1) \div 2])
                                    ELSE Separator
  <2>1. k \in 1 .. Len(out) \/ k = Len(out) + 1
    BY <1>3
  <2>2. CASE k \in 1 .. Len(out)
    BY <1>2, <1>3, <2>2 DEF Wrote
  <2>3. CASE k = Len(out) + 1 /\ pc[Root] = "writing"
    <3>1. k = 2 * n + 1 /\ k % 2 = 1 /\ (k + 1) \div 2 = n + 1
      BY <1>1, <1>2, <2>3
    <3> QED
      BY <1>3, <2>3, <3>1 DEF n
  <2>4. CASE k = Len(out) + 1 /\ pc[Root] # "writing"
    <3>1. k = 2 * n + 2 /\ k % 2 = 0
      BY <1>1, <1>2, <2>4
    <3> QED
      BY <1>3, <2>4, <3>1
  <2> QED
    BY <2>1, <2>2, <2>3, <2>4
<1>5. Wrote(out', pool', lines'[Root])
  BY <1>4 DEF Wrote
<1>6. Len(out) = Written(call[Root].n, pc[Root])
  BY DEF WriteInv
<1> QED
  BY <1>3, <1>5, <1>6

(* The steps of write_lines. *)
LEMMA WriteGoesOn ==
  ASSUME CInv, WriteInv, Continue(Root)
  PROVE  WriteInv'
<1>1. /\ pc \in [Branches -> Labels] /\ call \in [Branches -> CallType]
      /\ CallInv(Root) /\ call[Root] \in CallType /\ call[Root].n \in Nat
      /\ lines[Root] \in Seq(GreenLineId) /\ Len(lines[Root]) \in Nat
  BY CallFacts, RootAssumption DEF CInv, LockInv, CallType
<1>2. \A b \in Branches : call[b].op = "write" => b = Root
  BY DEF WriteInv
<1>3. \A r : call' = [call EXCEPT ![Root] = r] =>
        /\ call'[Root] = r
        /\ \A b \in Branches : call'[b].op = "write" => b = Root
  BY <1>1, <1>2, RootAssumption
<1>4. ASSUME call'[Root].op # "write", out' = out,
             \E r : call' = [call EXCEPT ![Root] = r]
      PROVE  WriteInv'
  BY <1>3, <1>4 DEF WriteInv
<1>5. CASE End(Root) /\ out' = out
  <2>1. call' = [call EXCEPT ![Root] = NoCall] /\ NoCall.op # "write"
    BY <1>5 DEF End, NoCall
  <2>2. call'[Root] = NoCall
    BY <1>3, <2>1
  <2> QED
    BY <1>4, <1>5, <2>1, <2>2
<1>6. CASE call[Root].op # "write"
  <2>1. pc[Root] \notin {"writing", "separating", "written"}
    BY <1>1, <1>6 DEF CallInv
  <2>2. out' = out
    BY <2>1
    DEF Continue, Lock, LookUp, Push, Unlock, Apply, Read, WriteLine, WriteSeparator,
        ReturnWritten
  <2>3. CASE End(Root)
    BY <1>5, <2>2, <2>3
  <2>4. CASE LookUp(Root)
    <3> DEFINE r == [call[Root] EXCEPT !.id = IdOf(pool, call[Root].s)]
    <3>1. call' = [call EXCEPT ![Root] = r] /\ r.op = call[Root].op
      BY <1>1, <2>4 DEF LookUp, CallType
    <3> HIDE DEF r
    <3>2. call'[Root] = r
      BY <1>3, <3>1
    <3> QED
      BY <1>4, <1>6, <2>2, <3>1, <3>2
  <2>5. CASE UNCHANGED call
    <3>1. call' = [call EXCEPT ![Root] = call[Root]] /\ call'[Root] = call[Root]
      BY <2>5, SameCall, RootAssumption
    <3> QED
      BY <1>4, <1>6, <2>2, <3>1
  <2> QED
    BY <2>1, <2>3, <2>4, <2>5
    DEF Continue, Lock, Push, Unlock, Apply, Read, WriteLine, WriteSeparator, ReturnWritten
<1>7. CASE call[Root].op = "write"
  <2>1. /\ Len(out) = Written(call[Root].n, pc[Root])
        /\ Wrote(out, pool, lines[Root])
        /\ out \in Seq(Content \cup {Separator})
    BY <1>7 DEF WriteInv
  <2>2. pc[Root] \notin {"looking", "pushing", "unlocking", "applying"}
    BY <1>1, <1>7 DEF CallInv, Edits
  <2> HIDE DEF Wrote
  <2>3. CASE Lock(Root) /\ ~End(Root)
    <3>1. pc[Root] = "locking" /\ GoTo(Root, "writing")
          /\ UNCHANGED <<hvars, call, out>>
      BY <1>7, <2>3 DEF Lock, Edits
    <3>2. pc'[Root] = "writing"
      BY <3>1, GoToFacts, RootAssumption
    <3>3. call'[Root] = call[Root] /\ \A b \in Branches : call'[b].op = "write" => b = Root
      BY <1>2, <3>1
    <3>4. Written(call[Root].n, "writing") = Written(call[Root].n, "locking")
      BY DEF Written
    <3> QED
      BY <2>1, <3>1, <3>2, <3>3, <3>4 DEF WriteInv, hvars, vars, branchVars
  <2>4. CASE WriteLine(Root) /\ ~End(Root)
    <3> DEFINE item == Get(pool, lines[Root][call[Root].n + 1])
               l == IF call[Root].n < LastLine(Root) THEN "separating" ELSE "written"
    <3>1. /\ pc[Root] = "writing" /\ out' = Append(out, item) /\ GoTo(Root, l)
          /\ UNCHANGED <<hvars, call>>
      BY <2>4 DEF WriteLine
    <3>2. item \in Content
      <4>1. call[Root].n + 1 \in 1 .. Len(lines[Root]) /\ IsPool(pool)
            /\ Known(pool, lines[Root])
        BY <1>1, <1>7, CallFacts, RootAssumption DEF CallInv
      <4> QED
        BY <1>1, <4>1, TextType
    <3> HIDE DEF item
    <3>3. /\ out' \in Seq(Content \cup {Separator})
          /\ Len(out') = Written(call[Root].n, "writing") + 1
          /\ Wrote(out', pool', lines'[Root])
      BY <1>7, <3>1, <3>2, WriteItem DEF item, hvars, vars, branchVars
    <3>4. /\ l \in {"separating", "written"}
          /\ l = "written" => call[Root].n + 1 = Len(lines[Root])
      <4>1. /\ call[Root].n + 1 \in 1 .. Len(lines[Root])
            /\ call[Root].n \in Nat /\ Len(lines[Root]) \in Nat
        BY <1>1, <1>7, <3>1, CallFacts, RootAssumption DEF CallInv
      <4>2. l = "written" => ~(call[Root].n < LastLine(Root))
        OBVIOUS
      <4>3. ~(call[Root].n < LastLine(Root)) => call[Root].n + 1 = Len(lines[Root])
        BY <4>1 DEF LastLine
      <4> QED
        BY <4>2, <4>3
    <3> HIDE DEF l
    <3>5. pc'[Root] = l
      BY <3>1, GoToFacts, RootAssumption
    <3>6. call'[Root] = call[Root] /\ \A b \in Branches : call'[b].op = "write" => b = Root
      BY <1>2, <3>1
    <3>7. Written(call[Root].n, "writing") + 1 = Written(call[Root].n, l)
      BY <1>1, <3>4 DEF Written
    <3> QED
      BY <3>1, <3>3, <3>4, <3>5, <3>6, <3>7 DEF WriteInv, hvars, vars, branchVars
  <2>5. CASE WriteSeparator(Root) /\ ~End(Root)
    <3> DEFINE r == [call[Root] EXCEPT !.n = call[Root].n + 1]
    <3>1. /\ pc[Root] = "separating" /\ out' = Append(out, Separator)
          /\ GoTo(Root, "locking") /\ call' = [call EXCEPT ![Root] = r]
          /\ UNCHANGED hvars
      BY <1>1, <2>5 DEF WriteSeparator
    <3>2. r.op = "write" /\ r.n = call[Root].n + 1
      BY <1>1, <1>7 DEF CallType
    <3> HIDE DEF r
    <3>3. /\ out' \in Seq(Content \cup {Separator})
          /\ Len(out') = Written(call[Root].n, "separating") + 1
          /\ Wrote(out', pool', lines'[Root])
      BY <1>7, <3>1, WriteItem DEF hvars, vars, branchVars
    <3>4. pc'[Root] = "locking"
      BY <3>1, GoToFacts, RootAssumption
    <3>5. call'[Root] = r /\ \A b \in Branches : call'[b].op = "write" => b = Root
      BY <1>3, <3>1
    <3>6. Written(call[Root].n, "separating") + 1 = Written(r.n, "locking")
      BY <1>1, <3>2 DEF Written
    <3> QED
      BY <3>3, <3>4, <3>5, <3>6 DEF WriteInv
  <2>6. Lock(Root) \/ Read(Root) \/ WriteLine(Root) \/ WriteSeparator(Root)
          \/ ReturnWritten(Root)
    BY <2>2 DEF Continue, LookUp, Push, Unlock, Apply
  <2>7. End(Root) => out' = out
    <3>1. End(Root) => pc'[Root] = "idle"
      BY <1>1, RootAssumption DEF End
    <3>2. \A l : GoTo(Root, l) => pc'[Root] = l
      BY GoToFacts, RootAssumption
    <3> QED
      BY <2>6, <3>1, <3>2 DEF Lock, Read, WriteLine, WriteSeparator, ReturnWritten
  <2> QED
    BY <1>5, <2>3, <2>4, <2>5, <2>6, <2>7 DEF Read, ReturnWritten
<1> QED
  BY <1>6, <1>7

(* The other operations of Root wait until its write_lines has returned.   *)
LEMMA RootBegins ==
  ASSUME CInv, WriteInv, Call(Root)
  PROVE  WriteInv'
<1>1. /\ pc \in [Branches -> Labels] /\ call \in [Branches -> CallType]
      /\ CallInv(Root)
  BY CallFacts, RootAssumption DEF CInv, LockInv
<1>2. \A b \in Branches : call[b].op = "write" => b = Root
  BY DEF WriteInv
<1>3. CASE BeginWrite(Root)
  BY <1>3, WriteBegins
<1>4. CASE CStart(Root) \/ CUndo(Root) \/ CRedo(Root)
             \/ \E n \in 0 .. MaxLines : CDelete(Root, n)
  <2>1. UNCHANGED <<call, out>>
    BY <1>4 DEF CStart, CUndo, CRedo, CDelete, lockVars
  <2>2. pc[Root] = "idle"
    BY <1>1, <1>4 DEF CStart, New, Fork, CDelete, CUndo, CRedo, Idle, CallInv
  <2>3. call[Root].op = "none"
    BY <1>1, <2>2 DEF CallInv
  <2> QED
    BY <1>2, <2>1, <2>3 DEF WriteInv
<1>5. ASSUME NEW n \in 0 .. MaxLines,
             \/ BeginRead(Root, n)
             \/ \E s \in Content, v \in Validators :
                  BeginInsert(Root, n, s, v) \/ BeginReplace(Root, n, s, v)
      PROVE  WriteInv'
  <2>1. ASSUME NEW op \in {"read", "insert", "replace"}, NEW s, NEW id,
               Begin(Root, op, n, s, id), out' = out
        PROVE  WriteInv'
    <3> DEFINE r == [op |-> op, n |-> n, s |-> s, id |-> id]
    <3>1. r.op # "write" /\ call' = [call EXCEPT ![Root] = r]
      BY <2>1 DEF Begin
    <3> HIDE DEF r
    <3>2. \A b \in Branches : call'[b].op # "write"
      BY <1>1, <1>2, <3>1, RootAssumption
    <3> QED
      BY <2>1, <3>2, RootAssumption DEF WriteInv
  <2> QED
    BY <1>5, <2>1 DEF BeginRead, BeginInsert, BeginReplace
<1> QED
  BY <1>3, <1>4, <1>5 DEF Call

LEMMA WriteInvStep ==
  ASSUME CInv, WriteInv, [CNext]_cvars
  PROVE  WriteInv'
<1>1. IsPool(pool') /\ Extends(pool, pool')
  BY PoolStep
<1>2. ASSUME NEW c \in Branches, Call(c) \/ Continue(c), c # Root
      PROVE  WriteInv'
  BY <1>1, <1>2, OthersCall, WriteAside
<1>3. CASE UNCHANGED cvars
  <2>1. UNCHANGED <<pc, call, lines, out>>
    BY <1>3 DEF cvars, hvars, vars, branchVars, lockVars
  <2>2. \A b \in Branches : call'[b].op = "write" => b = Root
    BY <2>1 DEF WriteInv
  <2> QED
    BY <1>1, <2>1, <2>2, WriteAside
<1> QED
  BY <1>2, <1>3, RootBegins, WriteGoesOn DEF CNext

(* What the invariant says of the output is what the property says.        *)
LEMMA WroteIsPrefix ==
  ASSUME CInv, WriteInv PROVE WritesTheText
<1> DEFINE v == lines[Root]
           t == Text(pool, v)
           n == call[Root].n
           done == pc[Root] = "written"
<1> SUFFICES ASSUME call[Root].op = "write"
             PROVE  IsPrefix(out, Joined(t)) /\ (done => out = Joined(t))
  BY DEF WritesTheText
<1>1. /\ v \in Seq(GreenLineId) /\ Len(v) \in Nat /\ n \in Nat /\ CallInv(Root)
      /\ IsPool(pool) /\ Known(pool, v)
  BY CallFacts, RootAssumption DEF CallType
<1>2. t \in Seq(Content) /\ Len(t) = Len(v)
      /\ \A k \in DOMAIN v : t[k] = Get(pool, v[k])
  BY <1>1, TextType DEF Text
<1>3. /\ out \in Seq(Content \cup {Separator}) /\ Len(out) = Written(n, pc[Root])
      /\ Wrote(out, pool, v) /\ (done => n + 1 = Len(v))
      /\ n < Len(v)
  BY <1>1 DEF WriteInv, CallInv
<1>4. \A k \in DOMAIN out : k % 2 = 1 => (k + 1) \div 2 \in DOMAIN v
  BY WrittenInRange
<1> HIDE DEF v, t, n
<1>5. Len(out) <= 2 * Len(v) - 1 /\ (done => Len(out) = 2 * Len(v) - 1)
  BY <1>1, <1>3 DEF Written
<1>6. ASSUME NEW k \in 1 .. Len(out)
      PROVE  k \in 1 .. 2 * Len(t) - 1 /\ out[k] = Joined(t)[k]
  <2>1. k \in DOMAIN out /\ k \in 1 .. 2 * Len(t) - 1
    BY <1>1, <1>2, <1>3, <1>5
  <2>2. Joined(t)[k] = IF k % 2 = 1 THEN t[(k + 1) \div 2] ELSE Separator
    BY <2>1 DEF Joined
  <2>3. out[k] = IF k % 2 = 1 THEN Get(pool, v[(k + 1) \div 2]) ELSE Separator
    BY <1>3, <2>1 DEF Wrote
  <2>4. CASE k % 2 = 1
    BY <1>2, <1>4, <2>1, <2>2, <2>3, <2>4
  <2>5. CASE k % 2 # 1
    BY <2>1, <2>2, <2>3, <2>5
  <2> QED
    BY <2>4, <2>5
<1>7. /\ Joined(t) = [k \in 1 .. 2 * Len(t) - 1 |-> Joined(t)[k]]
      /\ 2 * Len(t) - 1 \in Nat
      /\ \A k \in 1 .. 2 * Len(t) - 1 : Joined(t)[k] \in Content \cup {Separator}
  <2>1. \A k \in 1 .. 2 * Len(t) - 1 : (k + 1) \div 2 \in 1 .. Len(t)
    BY <1>1, <1>2
  <2>2. \A k \in 1 .. Len(t) : t[k] \in Content
    BY <1>2
  <2>3. 2 * Len(t) - 1 \in Nat
    BY <1>1, <1>2, <1>3
  <2> QED
    BY <2>1, <2>2, <2>3 DEF Joined
<1> DEFINE u == Joined(t)
<1> HIDE DEF u
<1>8. u \in Seq(Content \cup {Separator}) /\ Len(u) = 2 * Len(v) - 1
  BY <1>2, <1>7 DEF u
<1>9. SubSeq(out, 1, Len(out)) = SubSeq(u, 1, Len(out))
  BY <1>1, <1>2, <1>3, <1>5, <1>6, <1>8 DEF u
<1>10. IsPrefix(out, u)
  BY <1>5, <1>8, <1>9 DEF IsPrefix
<1>11. done => out = u
  BY <1>1, <1>2, <1>3, <1>5, <1>6, <1>8 DEF u
<1> QED
  BY <1>10, <1>11 DEF u

(***************************************************************************)
(* The writer has a prefix of the buffer's text at every moment, and the   *)
(* whole of it when write_lines returns Ok (line_buffer.rs:143-158).       *)
(***************************************************************************)
THEOREM WriterHasText == CSpec => []WritesTheText
<1>1. CInit => WriteInv
  <2> SUFFICES ASSUME CInit PROVE WriteInv
    OBVIOUS
  <2>1. out = << >> /\ \A b \in Branches : call[b].op = "none"
    BY DEF CInit, NoCall
  <2>2. << >> \in Seq(Content \cup {Separator})
    OBVIOUS
  <2> QED
    BY <2>1, <2>2, RootAssumption DEF WriteInv
<1>2. CInv /\ WriteInv /\ [CNext]_cvars => WriteInv'
  BY WriteInvStep
<1>3. CInv /\ WriteInv => WritesTheText
  BY WroteIsPrefix
<1> QED
  BY <1>1, <1>2, <1>3, ConcurrentInvariant, PTL DEF CSpec
=============================================================================
