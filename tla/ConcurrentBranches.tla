------------------------ MODULE ConcurrentBranches ------------------------
(***************************************************************************)
(* The branches of BranchHistory.tla, each used by a thread of its own,    *)
(* with every call split at its uses of the pool's mutex.  An edit checks  *)
(* its arguments, interns under the lock, and changes its lines after the  *)
(* lock is released (branch.rs:105-173); a reader copies an id first and   *)
(* looks it up under the lock (branch.rs:91-95); write_lines of the buffer *)
(* that owns the branch Root takes the lock for each line and holds it     *)
(* while the caller's writer runs (line_buffer.rs:143-158).                *)
(*                                                                         *)
(* A panic ends the call, and poisons the mutex if the call holds it.  The *)
(* branch stays usable, which stands for a caller that catches the panic;  *)
(* one that does not is a branch whose thread never takes another step.    *)
(***************************************************************************)
EXTENDS BranchHistory

CONSTANTS Root,       \* the branch a LineBuffer owns
          Separator,  \* the line ending write_lines was given
          NoOne,      \* holder of a free mutex
          MaxCalls    \* bound: calls a branch makes to operations that lock

ASSUME RootAssumption == Root \in Branches
ASSUME NoOneAssumption == NoOne \notin Branches
ASSUME SeparatorAssumption == Separator \notin Content
ASSUME MaxCallsAssumption == MaxCalls \in Nat

VARIABLES holder,    \* the branch whose call holds the mutex, or NoOne
          poisoned,  \* a panic happened under the lock
          pc,        \* branch -> where its call is
          call,      \* branch -> the call: its arguments and locals
          calls,     \* branch -> how many calls it has made
          out        \* what write_lines has handed to the writer

lockVars == <<holder, poisoned, pc, call, calls, out>>
cvars == <<hvars, lockVars>>

NoCall == [op |-> "none", n |-> 0, s |-> Separator, id |-> 0]

Edits == {"insert", "replace"}

(* `&mut self`: no other use of the branch while an edit is under way.     *)
NotEdited(b) == call[b].op \notin Edits
Idle(b) == b \in live /\ pc[b] = "idle"

CInit ==
  /\ HInit
  /\ holder = NoOne
  /\ poisoned = FALSE
  /\ pc = [b \in Branches |-> "idle"]
  /\ call = [b \in Branches |-> NoCall]
  /\ calls = [b \in Branches |-> 0]
  /\ out = << >>

-----------------------------------------------------------------------------
(* Starting and ending a call.                                             *)
Begin(b, op, n, s, id) ==
  /\ Idle(b)
  /\ calls[b] < MaxCalls
  /\ calls' = [calls EXCEPT ![b] = @ + 1]
  /\ pc' = [pc EXCEPT ![b] = "locking"]
  /\ call' = [call EXCEPT ![b] = [op |-> op, n |-> n, s |-> s, id |-> id]]
  /\ UNCHANGED <<hvars, holder, poisoned>>

End(b) ==
  /\ pc' = [pc EXCEPT ![b] = "idle"]
  /\ call' = [call EXCEPT ![b] = NoCall]
  /\ UNCHANGED calls

GoTo(b, label) == pc' = [pc EXCEPT ![b] = label] /\ UNCHANGED calls

(* The checks made before the lock is taken; a call that fails one returns *)
(* Err and changes nothing.                                                *)
BeginInsert(b, n, s, validator) ==
  /\ n <= Len(lines[b]) /\ s \in validator
  /\ Len(lines[b]) < MaxLines /\ Len(undo_stack[b]) < MaxHistory
  /\ Begin(b, "insert", n, s, 0)
  /\ UNCHANGED out

BeginReplace(b, n, s, validator) ==
  /\ n < Len(lines[b]) /\ s \in validator
  /\ Len(undo_stack[b]) < MaxHistory
  /\ Begin(b, "replace", n, s, 0)
  /\ UNCHANGED out

(* get_line, the digest readers and each item of iter_lines.               *)
BeginRead(b, n) ==
  /\ n < Len(lines[b])
  /\ Begin(b, "read", n, Separator, lines[b][n + 1])
  /\ UNCHANGED out

(* write_lines of an empty buffer returns Ok without a call to the writer. *)
BeginWrite(b) ==
  /\ b = Root
  /\ lines[b] # << >>
  /\ Begin(b, "write", 0, Separator, 0)
  /\ out' = << >>

-----------------------------------------------------------------------------
(* What the mutex answers.  Bugs to catch: a reader-writer lock that is    *)
(* only read-locked, and unwrap_or_else(PoisonError::into_inner).          *)
ReadLock == TRUE
Free == holder = NoOne
Forgiven == FALSE
Refused == poisoned

(* lock(): waits until the mutex is free, and panics if it is poisoned.    *)
(* The guard inside the error is dropped by the panic.                     *)
Lock(b) ==
  /\ pc[b] = "locking" /\ Free
  /\ IF Refused
       THEN End(b) /\ UNCHANGED holder
       ELSE /\ holder' = b
            /\ GoTo(b, CASE call[b].op \in Edits -> "looking"
                         [] call[b].op = "read" -> "reading"
                         [] call[b].op = "write" -> "writing")
            /\ UNCHANGED call
  /\ UNCHANGED <<hvars, poisoned, out>>

(* intern, first half: the index is consulted, and for a new line the      *)
(* position it will have is read.                                          *)
LookUp(b) ==
  /\ pc[b] = "looking"
  /\ call' = [call EXCEPT ![b].id = IdOf(pool, call[b].s)]
  /\ GoTo(b, IF call[b].s \in DOMAIN pool.index THEN "unlocking" ELSE "pushing")
  /\ UNCHANGED <<hvars, holder, poisoned, out>>

(* intern, second half: the new line enters the index and the vector.      *)
Push(b) ==
  /\ pc[b] = "pushing"
  /\ pool' = Added(pool, call[b].s, call[b].id)
  /\ GoTo(b, "unlocking")
  /\ UNCHANGED <<branchVars, past, future, call, holder, poisoned, out>>

(* The guard of an edit is a temporary: it is dropped before the lines     *)
(* change.                                                                 *)
Unlock(b) ==
  /\ pc[b] = "unlocking"
  /\ holder' = NoOne
  /\ GoTo(b, "applying")
  /\ UNCHANGED <<hvars, call, poisoned, out>>

Apply(b) ==
  /\ pc[b] = "applying"
  /\ LET c == call[b]
     IN  IF c.op = "insert"
           THEN /\ lines' = [lines EXCEPT ![b] = VecInsert(@, c.n, c.id)]
                /\ Record(b, InsertEdit(c.n, c.id))
           ELSE /\ lines' = [lines EXCEPT ![b] = VecSet(@, c.n, c.id)]
                /\ Record(b, ReplaceEdit(c.n, OldId(b, c.n), c.id))
  /\ past' = [past EXCEPT ![b] = Append(@, lines[b])]
  /\ future' = [future EXCEPT ![b] = << >>]
  /\ End(b)
  /\ UNCHANGED <<pool, live, holder, poisoned, out>>

(* GreenPool::get panics on an id past the end, with the lock held.        *)
Read(b) ==
  /\ pc[b] = "reading"
  /\ poisoned' = (poisoned \/ ~CanGet(pool, call[b].id))
  /\ holder' = NoOne
  /\ End(b)
  /\ UNCHANGED <<hvars, out>>

-----------------------------------------------------------------------------
(* write_lines.  The writer is the caller's: it accepts what it is given,  *)
(* fails, or panics.                                                       *)
(* A bug to catch: the last line taken to be line_count().                 *)
LineCount(b) == Len(lines[b])
LastLine(b) == Len(lines[b]) - 1

(* Who holds the lock when the block around the write of a line is left.   *)
(* A bug to catch: the guard lives until the end of the loop's body.       *)
HeldToSeparator(b) == IF call[b].n < LastLine(b) THEN b ELSE NoOne
HeldAfterLine(b) == NoOne

WriteLine(b) ==
  /\ pc[b] = "writing"
  /\ holder' = HeldAfterLine(b)
  /\ \/ /\ out' = Append(out, Get(pool, lines[b][call[b].n + 1]))
        /\ GoTo(b, IF call[b].n < LastLine(b) THEN "separating" ELSE "written")
        /\ UNCHANGED <<call, poisoned>>
     \/ End(b) /\ UNCHANGED <<poisoned, out>>                \* Err
     \/ End(b) /\ poisoned' = TRUE /\ UNCHANGED out          \* panic
  /\ UNCHANGED hvars

(* The separator is written without the lock, and the loop goes on.        *)
WriteSeparator(b) ==
  /\ pc[b] = "separating"
  /\ \/ /\ out' = Append(out, Separator)
        /\ call' = [call EXCEPT ![b].n = @ + 1]
        /\ GoTo(b, "locking")
     \/ End(b) /\ UNCHANGED out                               \* Err or panic
  /\ UNCHANGED <<hvars, holder, poisoned>>

(* Ok(()).                                                                 *)
ReturnWritten(b) ==
  /\ pc[b] = "written"
  /\ End(b)
  /\ UNCHANGED <<hvars, holder, poisoned, out>>

-----------------------------------------------------------------------------
(* The operations that never lock are single steps of their branch.        *)
CStart(b) ==
  /\ New(b) \/ \E parent \in Branches : NotEdited(parent) /\ Fork(parent, b)
  /\ past' = [past EXCEPT ![b] = << >>]
  /\ future' = [future EXCEPT ![b] = << >>]
  /\ UNCHANGED lockVars

CDelete(b, n) ==
  /\ Idle(b)
  /\ DeleteLine(b, n)
  /\ past' = [past EXCEPT ![b] = Append(@, lines[b])]
  /\ future' = [future EXCEPT ![b] = << >>]
  /\ UNCHANGED lockVars

CUndo(b) == Idle(b) /\ HUndo(b) /\ UNCHANGED lockVars
CRedo(b) == Idle(b) /\ HRedo(b) /\ UNCHANGED lockVars

Call(b) ==
  \/ CStart(b) \/ CUndo(b) \/ CRedo(b) \/ BeginWrite(b)
  \/ \E n \in 0 .. MaxLines :
       \/ CDelete(b, n) \/ BeginRead(b, n)
       \/ \E s \in Content, v \in Validators :
            BeginInsert(b, n, s, v) \/ BeginReplace(b, n, s, v)

(* The steps of a call that was made. *)
Continue(b) ==
  \/ Lock(b) \/ LookUp(b) \/ Push(b) \/ Unlock(b) \/ Apply(b) \/ Read(b)
  \/ WriteLine(b) \/ WriteSeparator(b) \/ ReturnWritten(b)

CNext == \E b \in Branches : Call(b) \/ Continue(b)

(* Threads that run are scheduled, and writers return; nobody has to call. *)
CSpec == CInit /\ [][CNext]_cvars /\ \A b \in Branches : WF_cvars(Continue(b))

-----------------------------------------------------------------------------
Labels == {"idle", "locking", "looking", "pushing", "unlocking", "applying",
           "reading", "writing", "separating", "written"}

UnderLock(b) ==
  pc[b] \in {"looking", "pushing", "unlocking", "reading", "writing"}

(* The line a write_lines is at is one of the buffer's, whatever other     *)
(* calls do in between.                                                    *)
CTypeOK ==
  /\ HTypeOK
  /\ holder \in Branches \cup {NoOne}
  /\ poisoned \in BOOLEAN
  /\ pc \in [Branches -> Labels]
  /\ call \in [Branches -> [op : Edits \cup {"none", "read", "write"}, n : Nat,
                            s : Content \cup {Separator}, id : GreenLineId]]
  /\ calls \in [Branches -> 0 .. MaxCalls]
  /\ out \in Seq(Content \cup {Separator})
  /\ \A b \in Branches : call[b].op = "write" => call[b].n < Len(lines[b])

(***************************************************************************)
(* An edit puts the content it was given where it was told to, though the  *)
(* pool was used by other threads between its look-up and its change of    *)
(* the lines (branch.rs:124-129 and 159-165).                              *)
(***************************************************************************)
EditShowsContent ==
  [][\A b \in Branches :
       pc[b] = "applying" /\ pc'[b] = "idle"
         => Text(pool', lines'[b])[call[b].n + 1] = call[b].s]_cvars

(***************************************************************************)
(* After a panic under the lock the pool is never changed again: every     *)
(* later edit that needs it panics too, before it has changed its branch.  *)
(* (`expect("GreenPool lock poisoned")`, branch.rs:127 and 162)            *)
(***************************************************************************)
PoisonFreezesPool == [][poisoned => UNCHANGED pool]_cvars

(* The text of a version as write_lines renders it: the lines, with the    *)
(* separator between two lines and not after the last.                     *)
Joined(t) ==
  [k \in 1 .. 2 * Len(t) - 1 |-> IF k % 2 = 1 THEN t[(k + 1) \div 2] ELSE Separator]

(***************************************************************************)
(* At every moment of a write_lines the writer has a prefix of the text of *)
(* the buffer, and all of it when the call returns Ok, whatever other      *)
(* threads intern in between.  (line_buffer.rs:139-142)                    *)
(***************************************************************************)
WritesTheText ==
  call[Root].op = "write" =>
    LET text == Joined(Text(pool, lines[Root]))
    IN  IsPrefix(out, text) /\ (pc[Root] = "written" => out = text)

(***************************************************************************)
(* What src/README.md says of the lock: it is held only during intern, not *)
(* during read access.                                                     *)
(***************************************************************************)
LockedOnlyToIntern ==
  holder # NoOne => pc[holder] \in {"looking", "pushing", "unlocking"}

(***************************************************************************)
(* Every call returns, with a result or a panic: no error path leaves the  *)
(* mutex locked and no call waits for itself.                              *)
(***************************************************************************)
CallsReturn == \A b \in Branches : pc[b] # "idle" ~> pc[b] = "idle"
=============================================================================
