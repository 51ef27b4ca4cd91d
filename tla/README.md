# Verification of mallard

mallard is a store of text lines with versioned branches (`src/crates/mallard`),
and medlin is a line editor built on it (`bin/medlin.rs`; it calls itself edlin
in its messages).  This directory holds TLA+ models of both, TLC configurations
that check the models on small instances, and proofs, checked by TLAPS, that
hold for every instance.

Paths below are relative to `src/crates/mallard/src`, unless they start with
`src/`.

1. [The system](#1-the-system)
2. [The models](#2-the-models)
3. [What is model-checked](#3-what-is-model-checked)
4. [What is proved](#4-what-is-proved)
5. [Where code and documentation disagree](#5-where-code-and-documentation-disagree)
6. [What is abstracted and what is left out](#6-what-is-abstracted-and-what-is-left-out)
7. [Plan](#7-plan)
8. [How to run](#8-how-to-run)

## 1. The system

### Components

| component | source | state | operations | talks to |
|---|---|---|---|---|
| `GreenPool` | `green.rs` | vector of distinct lines; index from content to id, a 32-bit position | `intern`, `get` | nobody |
| `GreenLine`, `LineHash` | `green.rs` | content and CRC32; two digest cells, filled by their first reader | `crc32`, `md5`, `sha256` | nobody |
| `Branch` | `branch.rs` | vector of ids; undo stack; redo stack; handle of the shared pool | `new`, `insert_line`, `replace_line`, `delete_line`, `undo`, `redo`, `fork`, readers | pool, through its mutex; validator (callback) |
| `LineBuffer` | `line_buffer.rs` | pool, root branch, optional validator | `new`, `from_source`, `from_str`, `from_reader`, the edits of the root, `branch`, `write_lines`, `iter_lines` | root branch, pool, validator, line source, the caller's writer |
| line splitting | `line_buffer.rs` | locals of one loop | `split_on_line_endings` | nobody |
| validators | `encoding.rs`, `bin/medlin.rs` | none | `validate` | nobody |
| `LineSource` | `line_source.rs` | the implementor's | `for_each_line` | the buffer's callback |
| `LineBufferView` | `line_buffer_view.rs` | none | read-only accessors | branch, buffer |
| medlin | `bin/medlin.rs` | a buffer, command-line choices; files | load, save, one command per line of input | its input, `LineBuffer`, `BufWriter`, the file system |

All branches of a buffer share one `Arc<Mutex<GreenPool>>`.  A branch is edited
through `&mut self`, so that one branch never runs two edits at a time, but the
branches of one buffer may be used by different threads.  The mutex is taken
inside each edit, once, to intern a line; by each read, to look an id up; and by
`write_lines` once for each line, while the caller's writer runs.

### What is hard here, and what makes each part correct

* **Pool.**  `intern` narrows a position to `u32` without a check.  Correct means:
  one copy of each line, ids that lead back to their lines for ever, nothing ever
  changed.
* **Undo and redo.**  `undo` and `redo` apply a one-line edit to whatever lines are
  there, with unchecked indexing.  This is right only because every edit since was
  recorded, was undone, or emptied the redo stack, through any sequence of calls.
  Correct means: an undo shows the version that existed before the last edit, a
  redo the version that was undone, a fork starts from its parent's lines and is
  independent from then on.
* **Threads.**  An edit interns under the lock and changes its lines after it has
  released it; a read copies an id before it locks; a writer that panics under the
  lock poisons it for all forks.  Correct means: the interleaved calls look like
  calls made one at a time, and every call comes back.
* **Digests.**  A digest is looked up and stored through a shared reference, in a
  cell without a lock of its own.  Correct means: one computation for each line and
  algorithm, whoever asks at the same time, and the digest of the line asked for.
* **Validation.**  Root and forks share a pool but not a validator, and a source
  cannot be stopped when it offers a bad line.  Correct means: the root never
  shows a line its validator rejects, not even after undos; a load fails exactly
  if a line is rejected, and names the first.
* **Splitting and writing.**  Three terminators, a look-ahead, a tail that may be
  empty, and a writer that puts endings between lines but not after the last.
  Correct means: what was written comes back, with exceptions that can be stated.
* **Commands.**  A line of input is cut at single spaces, line numbers are typed
  from 1, and where a save goes depends on two arguments and the command.  Correct
  means: the line that was named changes, to the text that was typed, and only
  files that were named; the session ends when its input does.
* **Saving.**  A save truncates its target first, checks representability while it
  writes, reports success before the last flush, and can be killed anywhere.
  Correct means: the file is a prefix of what was saved, and all of it if success
  was reported.

PROJECT.json lists each of these hazards with the line where it bites and the
properties that would notice.

## 2. The models

```
LineHash
   |
   v
GreenPool <- Branch <- BranchHistory <- ConcurrentBranches
                ^           |  implements
                |           +-----------> UndoHistory
                +--- LineBuffer
TextLines <- LineEndings <- RoundTrip
    ^
    +------- Medlin <- CommandLoop
```

An arrow without a word is EXTENDS and points to the module that is extended.
A module whose configurations need more than constants has an `MC` module beside
it.  The proofs about a module are in its `_proofs` module; those about LineEndings
are in RoundTrip_proofs, those about CommandLoop in Medlin_proofs.

**GreenPool** is `intern` and `get` as operators on a record `[lines, index]`, so
that the modules above apply them to their own state, and a small specification
that interns.  `IdSpace`, the number of ids, is 2^32 in the code; `AsId` is the
`as u32`.  `IdsSuffice` (finitely many contents, no more than ids) is not assumed:
it is a named condition, which the theorems that need it state.

**LineHash** adds the digests: the CRC32 made with the line, the two cells, and
threads that read digests.  Such a call copies the id of a line, waits for the
pool's mutex, looks at the cell, computes and stores the digest if it was empty,
and drops the guard when it returns.  Other threads intern in between.  A hash
function is its name and its argument.

**Branch** has one action per operation of `Branch`.  Lines are vectors of ids,
the stacks hold the three kinds of `BranchEdit`, and positions are 0-based as in
the code.  `InsertLine(b, n, s, v)` is `insert_line` with or without a validator:
a validator must be a pure function, so it is the set of contents it accepts, and
"no validator" is the set of all.  A call that returns `Err` or `false` changes
nothing and is a stuttering step.

**UndoHistory** says what a branch promises, with neither ids nor pool nor edits:
a present text, the texts an undo goes back to, the texts a redo returns to; each
edit changes one line.

**BranchHistory** is Branch with two history variables: the versions before the
edits on the undo stack and after those on the redo stack.  The code has no
versions; these say that the versions undo and redo rebuild are the ones that
existed.  It states the chains (`UndoChain`, `RedoChain`) and, with a refinement
mapping that resolves ids through the pool, that branches implement UndoHistory.

**ConcurrentBranches** gives every branch a thread and splits each call at its
uses of the mutex: the checks and the arguments (`BeginInsert`, ...), waiting for
the mutex (`Lock`), the two halves of `intern` (`LookUp`, `Push`), dropping the
guard (`Unlock`), changing the lines (`Apply`); a read (`BeginRead`, `Read`); and
`write_lines` line by line, with a writer that succeeds, fails, or panics under
the lock.  A panic under the lock poisons it, and `lock()` of a poisoned mutex
panics.  The operations that never lock (`delete_line`, `undo`, `redo`, `fork`,
`new`) stay single steps.

**LineBuffer** is the load of a root branch, followed by edits of the root, which
the buffer's validator checks, and edits of its forks, which are checked by what
the caller passes.  The load is `from_source`, whose source offers all of its
lines whatever happens, or `from_str`, which returns at the first bad one.  The
validator is one of those of `encoding.rs` or one that the caller supplies, which
may accept any set of contents.

**TextLines** defines the lines of a text from where its terminators end, without
a scan, and what the two ways of writing lines produce.  **LineEndings** is the
loop of `split_on_line_endings`, one byte class per step.  **RoundTrip** composes
both in `from_reader`: the bytes of a written buffer, or any others, are read in
pieces of any size by a reader that may fail, decoded as a whole, and split.  Its
bytes are CR, LF, one of ASCII, and the two bytes of a longer character.

**Medlin** is sessions of the editor on files.  Its buffer is what UndoHistory
promises of one branch (the edits of the two are the same three), its text rules
come from TextLines.  A session loads (plain or with `--force-encoding`), edits,
saves and ends, by a command or by being killed.  A save creates the file empty,
encodes and buffers line by line, flushes whenever the `BufWriter` likes, reports,
and drops the writer, which flushes without reporting an error.  Each write to the
file may stop at any byte.

A file in Medlin is a sequence of pieces, each the bytes of a character in some
encoding or bytes that no character has.  An encoding is an `Encoder` and a
`Decoder` that need not undo each other: an encoder may have no piece for a
character, or the piece of another one; the encoder of a UTF-16 label writes UTF-8
while its decoder reads two pieces as one character (`Wide`).  `Decode` is
`Encoding::decode`: a first piece that is a byte order mark (`Marks`) chooses the
decoder, over the label, and is dropped.  A plain load is `from_utf8`, which does
neither.

**CommandLoop** puts `run_loop` and `dispatch` in front of Medlin's commands: the
input is a sequence of lines of characters, and each line is trimmed, cut into up
to three words and parsed, with the code's rules for what is missing, malformed
or out of range.  A read may fail.  `--file` and `--output` are its state too.

## 3. What is model-checked

Each run is a configuration; properties that hold have, in PROJECT.json, a mutant
of the code's operators (the definitions marked "a bug to catch") that TLC finds
them to reject.

| run | configuration | question | distinct states |
|---|---|---|---|
| `digests` | LineHash.cfg | is the pool a set with stable ids, up to the last id? are digests right, and computed once? | 357 946 |
| `pool_wrap` | GreenPool_wrap.cfg | and with one line more than ids? (violated) | |
| `history` | BranchHistory.cfg | are branches on one pool independent undo histories, and is every undo and redo in range? | 91 799 |
| `concurrent` | Concurrent.cfg | are they still, when the calls of threads interleave? does every call return? | 296 474 |
| `concurrent_lock` | Concurrent_lock.cfg | is the lock held only to intern? (violated) | |
| `round_trip` | RoundTrip.cfg | does the loop find the lines, and what survives writing and reading? | 364 121 |
| `line_buffer` | LineBuffer.cfg | is every line of the root valid, where does undo stop, when does a load fail? | 1 548 982 |
| `commands` | CommandLoop.cfg | does each command do what was typed, and no more? does the session end? | 524 964 |
| `medlin` | Medlin.cfg | what is in a file after saves, failures and kills, and what comes back? | 2 425 793 |
| `medlin_disk` | Medlin_disk.cfg | does "saved to" mean written? (violated) | |
| `medlin_escape` | Medlin_escape.cfg | is every line representable in any forced encoding? (violated) | |
| `medlin_idempotent` | Medlin_idempotent.cfg | is loading and saving idempotent? (violated) | |

What the passing runs show, property by property:

* `digests`: the index and the vector agree and hold each line once
  (`InternedOnce`); an issued id leads back to its line (`IdsResolve`); nothing is
  removed or changed (`AppendOnly`); a digest that is there is not computed again,
  though the cell is looked at in one step and filled in a later one (`ComputedOnce`);
  cells hold, and calls return, the right digest of the right line
  (`DigestsRight`); types (`HashTypeOK`).
* `history`: each stack links consecutive versions, in both directions
  (`UndoChain`, `RedoChain`); no access is out of range (`NoIndexPanic`); no id on
  the lines or stacks of any branch is unknown to the pool (`NoDanglingId`); the
  branches implement UndoHistory (`ImplementsUndoHistory`); types (`HTypeOK`).
* `concurrent`: the pool and the refinement for calls in pieces (`InternedOnce`,
  `ImplementsUndoHistory`); an edit shows the content it was given, whatever was
  interned between its look-up and its change (`EditShowsContent`); what
  `write_lines` has emitted is a prefix of the text, all of it when it returns
  `Ok` (`WritesTheText`); after a panic under the lock the pool never changes
  (`PoisonFreezesPool`); every call returns (`CallsReturn`); types, and no line
  that `write_lines` looks up is out of range (`CTypeOK`).
* `round_trip`: no slice is out of range (`SplitTypeOK`) or within a character
  (`SlicesAtBoundaries`); the lines are those of the definition without a loop
  (`SplitRight`), without terminator bytes (`LinesAreBare`); lines without
  terminator bytes come back however the bytes are cut, except a last line that is
  empty (`RoundTripLaw`); lines with terminator bytes in them, which nothing keeps
  out of `insert_line`, fall apart there and nowhere else: no text is lost, no two
  lines become one (`TextComesBack`); a load returns (`Returns`).
* `line_buffer`: every line the root shows, or would show after undos and redos,
  is accepted by its validator (`RootAccepted`); undoing everything leads to the
  source that was loaded, no further (`UndoStopsAtLoad`); a load fails exactly if
  a line is rejected, and reports the first (`FirstErrorReported`).
* `commands`: `i`, `r`, `d` and `p` act on the line whose number was typed, with
  the text that was typed (`ActsAsTyped`); a line that edits is an undo, a redo, or
  `i`, `r` or `d` with a number from 1 to `usize::MAX`, for `r` and `d` that of a
  line, and edits that line only: 0, a number that overflows or is past the end, a
  sign, a word or nothing in its place edits nothing (`EditsOnlyAsTyped`); only files that were named change (`OnlyNamedFilesChange`);
  the session ends (`SessionEnds`).
* `medlin`: a file that was saved to is a prefix of the last text saved to it
  (`NeverMixed`); all of it after "saved to", unless a write failed
  (`SavedUnlessDiskFails`); every version stays representable in a forced encoding
  that has all of ASCII (`AsciiRepresentable`); a later session gets the lines that
  were saved, with the exceptions the property names: a byte order mark that the
  first line begins with, UTF-16 labels, characters that read back as others, lines
  that end in CR, `--line-ending cr`, and without an encoding CRs in lines and an
  empty last line (`ReloadShowsSaved`); when a file is loaded and saved unedited,
  the bytes written read as the lines of the bytes loaded, without those that the
  encoding cannot write and no others (`UneditedSaveKeepsLines`); no undecodable byte enters the buffer (`MTypeOK`).

### Bounds, and why they are enough to be interesting

* `digests`: three contents and three ids, so that the largest id is issued, and
  two readers, who can meet at one cell, at two cells of a line and at two lines.
  `pool_wrap` has an id less than contents.
* `history`: two branches, two contents, three lines, two recorded edits.  Two
  branches are enough to interleave, to fork in both directions and to share and
  not to share a content; two edits are enough for undo, redo, and an edit that
  ends a redo; with three lines insertions and deletions move the positions of
  other edits on the stacks.  Branches and contents are symmetric: no action and no
  property names one, and the refined specification treats them alike.
* `concurrent`: two threads, three locking calls each, one recorded edit.  Two
  threads reach every conflict over one mutex; three calls let a thread write,
  edit and read, and let one call follow a poisoning on each side.  `MaxCalls`
  also ends the calling, see fairness.
* `round_trip`: buffers of up to two lines of up to two characters, or three of up
  to one, terminators among them, with each ending; every file of up to six bytes,
  valid or not, and of up to seven over CR, LF and one more.  Seven bytes hold
  every order of the terminators at both ends of a text and between lines; the
  loop looks at two bytes at a time.  Each is read in all partitions.
* `line_buffer`: a root and a fork, three contents (ASCII; not ASCII; rejected by the caller's validator too),
  sources of up to two lines with the rejected one first, last, or both, so that a
  fork interns the rejected line before the root is offered it.
* `commands`: one session of up to three lines of input and three edits on a file
  of two lines and another path.  The single lines are every letter, followed by
  every string of up to three (for `i` and `r` four) of a space, a digit and a
  letter, and selected lines with tabs, signs, zeros and numbers of two or three
  digits; `UsizeMax` is 100, so that 121 does not fit.
* `medlin`: one file, two sessions, two edits over both, two lines, the three
  endings, and no encoding or one of five: UTF-8, a UTF-16 label, one that encodes
  less than it decodes (as Big5 does), one without some of ASCII, and one that writes
  a character as another.  Two sessions are one to save and one to load.  One file
  is enough because no property relates two and a save touches only its own.  At
  first the file is absent, or has a byte order mark, or bytes of a one-byte
  encoding, which UTF-8 cannot decode; under the other encodings these are lines of
  which some, or none, can be written.  U+FEFF, a CR and the empty line can be
  typed.  A longer loaded file than `MaxLines` is not cut:
  `MaxLines` bounds insertions.

Every bound is a constant with a named assumption: `MaxLines`, `MaxHistory`,
`MaxCalls`, `MaxEdits`, `MaxSessions`, `UsizeMax` (a width).

### Fairness

* ConcurrentBranches: weak fairness, for each branch, of the steps of a call that
  was made.  The operating system schedules a thread that can run, and a writer
  returns or panics.  Nobody has to call.  A mutex of the standard library is not
  fair to one waiting thread when others keep taking it; only a bound on the calls
  (`MaxCalls`) makes weak fairness enough, and `CallsReturn` says no more than
  that finitely many calls all return.
* LineEndings: weak fairness of the loop, which waits for nothing.  RoundTrip: of
  the load as a whole, for a reader that returns, with bytes or an error, each
  time it is called, and has an end.
* CommandLoop: weak fairness of the loop over commands, saves included, for an
  input and a disk that return.  Being killed is not part of it.
* The other specifications state safety only and have no fairness.

`CHECK_DEADLOCK FALSE` is set where the system may stop: the clients of the
threads stop calling, a function has returned, a load was rejected, the last
session has ended.

## 4. What is proved

Every safety invariant and every action property that a passing run checks, but for
`TextComesBack`, is a theorem, and so are the two refinements.  The proofs hold for any number of
branches, threads, lines, edits, contents, ids, files, sessions and lines of input,
and for texts of any length.

| module | theorems | inductive invariant |
|---|---|---|
| GreenPool_proofs | `PoolInvariant`, `PoolResolves`, `PoolDistinctIds`, `PoolAppendOnly` | `PoolTypeOK /\ InternedOnce` |
| LineHash_proofs | `HashInvariant`, `DigestsComputedOnce`, `HashTypes`, `DigestsAreRight` | `HashInv == PoolInv /\ HashTypeOK /\ HeldWhileReading /\ ComputedOnce /\ RequestsKnown /\ CellsRight /\ AnswersRight` |
| BranchHistory_proofs | `HistoryInvariant`, `UndoChainHolds`, `RedoChainHolds`, `TypesHold`, `NeverPanics` | `HInv == HTypeOK /\ UndoChain /\ RedoChain` |
| | `RefinementInvariant`, `NeverDangles`, `BranchesImplementHistory` | `RInv == HInv /\ InternedOnce /\ KnownVersions` |
| ConcurrentBranches_proofs | `ConcurrentInvariant`, `ConcurrentTypes`, `ConcurrentPool`, `PoisonFreezes`, `EditsShowContent`, `ThreadsImplementHistory` | `CInv == RInv /\ LockInv` |
| | `WriterHasText` | `CInv /\ WriteInv` |
| TextLines_proofs | (lemmas) | |
| RoundTrip_proofs | `ScanInvariant`, `ScannedLinesAreBare`, `ScanStaysInRange`, `ScanCutsAtBoundaries` | `ScanInv == SplitTypeOK /\ LinesAreBare /\ OpenLineBare /\ LinesSoFar /\ SplitRight` |
| | `LoadInvariant`, `LoadFindsTheLines`, `LoadedLinesAreBare`, `LoadStaysInRange`, `LoadCutsAtBoundaries`, `WrittenLinesComeBack` | `RInv == ScanInv /\ Whole /\ Transported` |
| LineBuffer_proofs | `LoadingInvariant`, `LoadReportsFirstError` | `LoadInv` |
| | `RootInvariant`, `RootStaysAccepted`, `UndoEndsAtTheSource` | `RootInv`, given `LoadInv` |
| Medlin_proofs | `MedlinInvariant`, `MedlinTypes`, `NoFileIsMixed`, `ReportedSaveIsWritten`, `VersionsCanBeWritten`, `SavedLinesComeBack`, `UneditedSaveDropsNoMore` | `MInv == Args /\ BufferOK /\ FilesOK /\ SaveOK /\ FreshOK` |
| | `LoopInvariant`, `LinesKeepThePromises`, `OnlyEditsChangeTheBuffer`, `OnlyNamedFilesAreWritten`, `CommandsActAsTyped` | `LoopInv == MInv /\ LoopOK /\ SavesNamed` |

### From which assumptions

The assumptions are the named ones of the modules, which give the constants their
types.  Those that say more than a type:

* `IdsSuffice` (finitely many contents, no more than ids) is not assumed of the
  constants: the theorems that need it state it, and the run `pool_wrap` shows what
  happens otherwise.  They are the ones about what an id stands for (`PoolResolves`,
  `DigestsAreRight`, `BranchesImplementHistory`, `RootStaysAccepted`, ...).  That
  lists have the right shape, that no id is unknown, and what a load reports is
  proved without it.
* Lines that are typed and lines of a script have no LF (`Typed`, `Scripts`):
  `BufRead::lines` cuts there.
* Every encoder writes CR and LF as UTF-8 does, and every decoder but that of UTF-16
  reads them so (`EncodingAssumption`).  This is what encoding_rs does for all of its
  encodings, whose encoders extend ASCII in CR and LF; those of the UTF-16 labels
  are that of UTF-8.  A byte order mark is no CR or LF.
* The letters of the commands, blanks and digits are different characters, and `+`
  is no digit (`SyntaxAssumption`); `UsizeMax > 99`, as a `usize` has at least 16
  bits.  Only the theorems about `LoopSpec` use these.
* `ScanCutsAtBoundaries` assumes that the texts are valid UTF-8, as a `&str` is.
  `LoadCutsAtBoundaries` does not: there the decoding is part of the model.

### The arguments

* **Pool.**  Each step either changes nothing or adds a line under the id of its
  position.  That ids resolve needs in addition that the vector is no longer than
  the id space, which follows from `IdsSuffice` because the vector injects into
  the contents.
* **Digests.**  Who is at a cell holds the mutex, so no other reader is, and no line
  is interned meanwhile; this is `HeldWhileReading`, from which `ComputedOnce` is inductive.  `RequestsKnown` says
  that the id of a call is still the one the pool gives its content, and hence in
  range; the cells and answers are then right for the line under that id.  That
  this is the line the caller saw needs `IdsSuffice`, and only that.
* **Undo.**  `NoIndexPanic` alone is not inductive: whether the next undo is in
  range depends on the lines the last undo left.  `UndoChain` says that entry k of
  the stack links version k and version k + 1, the last being the current lines,
  in both directions and with indices in range.  An edit adds a link, an undo moves
  it to the redo stack reversed, an edit ends the redo chain.  Lemmas say what the
  vector operations do to each other (removing what was inserted, and so on).
* **Refinement.**  `KnownVersions` says that the pool knows each id of each
  version, past, present and future.  The pool only grows, so texts resolved
  through it do not change, and every step of a branch becomes one step of
  UndoHistory.  Only `BranchesImplementHistory` needs `IdsSuffice`; that no id
  dangles holds even when ids wrap.
* **Threads.**  `LockInv` is mutual exclusion and, for each label of a call, what
  the call relies on: arguments still in range (no other edit of the branch can
  run), and after the look-up that the id it holds is the one the pool gives its
  content, or will give it, as the lock is held.  The lemma `Simulation` shows that
  each step of a split call is a step of BranchHistory, a growth of the pool that
  no reader sees, or nothing; so the sequential invariant carries over, and with it
  the refinement.
* **Writing under the lock.**  `WriteInv` says how many items the writer has had, by
  the index of the loop and where the call is, and that each is the line at its
  index, or a separator.  It survives the steps of others because the lines of a
  branch in a call do not change, and because the pool only grows.
* **Splitting.**  The line that is being scanned is bare from its start to the next
  byte, so each line that is closed is.  `LinesSoFar` says that the lines found
  are those that end before the start of the scan, by the definition without a
  loop.  Ends of lines are a set of positions put in order; the lemma
  `LinesEndedNext` says that the line closed by a step is the next one.  A line
  starts at the start of the text or after a terminator byte, where no character of
  a valid text is under way.
* **Round trip.**  `LinesOfRendered` and `StrLinesOfTerminated` say which lines a
  written text has, with the exceptions: a last line that is empty, and what a bare
  CR does.  They are proved from where each written line begins and ends
  (`LineComesBack`, `Neighbours`).  `Transported` ties what has been read so far to
  what was written, so that where the bytes are cut does not matter.
* **Buffer.**  `LoadInv` counts what the source has offered against the first line
  that is rejected.  `RootInv` says that there *are* versions of the root, starting
  from the accepted source, that its two stacks link, and that the pool knows and
  the validator accepts.  The code keeps no versions and the model has no variable
  for them, so the invariant quantifies them, and each step names the new ones.
  A fork may intern anything in between: it changes neither the root nor what an
  id of the root stands for.
* **Saving.**  `SaveOK` is the heart of it: while a save is under way, what is in
  the file and what the writer holds back are, together, the text of the lines
  that were passed on so far.  A flush moves text from the one to the other, a
  failed one loses the second, and so the file is a prefix of the whole text at
  every moment.  `FreshOK` remembers which file the buffer was loaded from until
  anything changes.
* **Loading what was saved.**  The bytes of a forced save are, piece by piece, the
  encoded text; decoding them gives the text again, of lines that the encoding keeps
  (`DecodedType`, `TextKept`), without the first character if its bytes are a byte
  order mark (`TerminatedTail`: dropping it drops the first character of the first
  line, and cannot drop the line).  The lines are then those of the round trip of
  the text rules (`ForcedReload`, `ReloadedShown`).  This holds for every text, not
  only in a session that loads it, and so also gives `UneditedSaveKeepsLines`: an
  unedited buffer has the lines on disk that the validator accepts (`FromOK`), which
  are those the encoding can write if it has all of ASCII, and what its save writes
  reads as them.
* **Commands.**  `PartsAre` says what cutting a line into up to three words gives:
  its words are the stretches up to the first space and up to the second, and the
  rest.  `TwoTyped` and `ThreeTyped` say that a line that was typed in the form of
  a command is cut into what was typed, blanks at its end aside, and `NumeralIs`
  that a numeral is read as its number.  `SavesNamed`, that a save under way is to
  a file that was named, is what makes `OnlyNamedFilesChange` hold in the steps that
  write.
* **Two specifications of a session.**  CommandLoop is not an instance of Medlin's
  `Next`: its lines come from a script, not from `Typed`, and are not bounded.  Its
  steps keep `MInv` nevertheless, and `LinesKeepThePromises` draws from it what
  Medlin promises.

Recursion over data.  The library's induction theorems take an operator and cannot
be used here; the proofs have first-order ones instead, from the well-foundedness
of the numbers: `LeastNumber`, `SetInduction` (over a set of numbers),
`RecursionUnique` and `RecursionExists` (what a recursive function that is chosen
by its equation is).  With them `InOrderRecursion`, `FlattenValue` and `NumberIs`
say what the recursive definitions of the models come to for every input.

Only model-checked: liveness (`CallsReturn`, `Returns`, `SessionEnds`), which needs
`ENABLED` and reasoning under fairness that the prover does not have; and
`TextComesBack`, see the plan.  The
properties of the violation runs are false.  The theorems of GreenPool are about a
pool that only interns; LineHash and the branches apply the same operators.

## 5. Where code and documentation disagree

Each has a run whose counterexample shows it; PROJECT.json quotes both sides.

* `pool_wrap` (`green.rs:169`): after 2^32 distinct lines the id 0 is issued again,
  to another line.  The documentation states stable, distinct ids without that
  limit.
* `concurrent_lock` (`branch.rs:93`): the design notes say the lock is held "only
  during intern, not during read access".  Reads take it, and `write_lines` holds
  it while the caller's writer runs.
* `medlin_disk` (`medlin.rs:235`): "saved to" is printed while the text may still
  be in the `BufWriter`, whose drop ignores errors; on a full disk the user is told
  that an empty or cut file was saved.
* `medlin_escape` (`medlin.rs:15`): the validator takes any ASCII line to be
  encodable.  ISO-2022-JP cannot encode U+000E, U+000F and U+001B, so the promise
  at `medlin.rs:97-98` fails, and saves of such a line are aborted after the
  target was truncated.
* `medlin_idempotent` (`medlin.rs:159`): a forced load does not split at a bare CR
  while `--line-ending cr` writes one, so each round adds a CR.

Seen while modelling, without a run of their own:

* The comment at `line_buffer.rs:771-772` says that three empty lines round-trip as
  "\n\n"; they are written as that, but two lines come back, as the test below
  it asserts.  `RoundTripLaw` states the exception.
* A forced load inserts lines one by one through the editing call, so it can be
  undone, which a plain load cannot, and it skips rejected lines, which the next
  save to the same file then drops.  Medlin models both.
* A character may be encodable and still not come back: in Shift_JIS the yen sign
  is written as the byte of a backslash.  `medlin.rs:3-4` says that lines with
  characters that "cannot be faithfully represented" are rejected; the code asks
  only whether the encoder has them (`medlin.rs:23`), unlike the Shift-JIS
  validator of the tests, which decodes and compares.  `ReloadShowsSaved` excepts
  such lines.
* `medlin.rs:132-133` says that the bytes "are decoded from that encoding".
  `Encoding::decode` obeys a byte order mark over the label and drops it, so a first
  line that begins with U+FEFF comes back without it.  `medlin.rs:98-99` says that
  "saves are written in this encoding"; the encoder of a UTF-16 label writes UTF-8,
  which a later load reads as UTF-16.  Medlin does both, and `ReloadShowsSaved` and
  `UneditedSaveKeepsLines` except both.
* A file that cannot be read or decoded is an empty buffer, as the comment of
  `load_file` says, and still the default output, so that the next `s` empties it.
  Nothing in the repository promises otherwise, and no property speaks of it.
* `line_source.rs:20-23` says that the count hint may be over-estimated without
  affecting correctness; `from_source` passes it to `Vec::reserve`
  (`line_buffer.rs:55`), which panics when the capacity is impossible.
* `s` with a path that has a space saves to the path's first word
  (`medlin.rs:257`); `OnlyNamedFilesChange` states it so.

## 6. What is abstracted and what is left out

* A line's content is a model value, or a sequence over one character for each
  class that the code tells apart (CR, LF, ASCII, encodable, not encodable).
* A file in Medlin is a sequence of pieces that decoders read one at a time, or two
  at a time for UTF-16.  So a decoder that reads one piece as several characters, or
  the bytes of two pieces across their border (surrogates, the shift states of
  ISO-2022-JP, trail bytes that are also characters), is not modelled; neither is a
  write that stops within the bytes of one piece.
* A hash function is injective: a digest is the name of the function and the
  content.  No property speaks of collisions.
* A call on a branch runs to its end before the same branch is called again.
  `&mut self` forces this for edits; several simultaneous reads of one branch
  are left out, they change nothing but the holder of the lock.
* A panic ends a call and leaves the branch usable, as for a caller that catches
  it; a caller that does not is a branch that makes no further call.
* A writer does not call back into the buffer it is given lines of.  One that reads
  the same buffer would take the mutex twice in one thread.
* medlin: messages and their layout, and the rejection of an unknown encoding label
  or malformed arguments before anything is loaded.  All sessions of a behaviour
  use the same encoding and ending.  In Medlin a save may name
  any path; CommandLoop says which.
* Sizes: the reserve hint of `LineSource` and the capacity of the `BufWriter` (a
  flush may happen at any moment, which covers every capacity).
* I/O errors on reading a file are "the file is absent" in Medlin; RoundTrip has the
  read errors of `from_reader`.

## 7. Plan

Done: the modules above, in the order pool, branches, history and refinement,
threads, splitting, buffer, editor, digests, commands.  No part of the code that
keeps state is left out.  Proved: every safety property of the passing runs but
`TextComesBack`.

What is left are proofs that say more than the runs ask:

1. The steps of a session of Medlin on its buffer as actions of UndoHistory, so that
   the promise of the branches and what the editor relies on are one formula.
2. LineBuffer with `from_source` as a client of the branches: that the root of a
   buffer implements UndoHistory from the loaded text on.
3. `TextComesBack`, by induction over the text: a byte that is a terminator changes
   none of the lines with text, another one lengthens the last or begins one.
4. A session of CommandLoop with a forced encoding whose unwritable lines were
   dropped: that what is left out of the file is what `UneditedSaveKeepsLines`
   names, after any number of saves.

## 8. How to run

```
tlc -config BranchHistory.cfg MCBranchHistory.tla
tlapm BranchHistory_proofs.tla
```

The module of each configuration is in PROJECT.json under "runs"; all runs end
within a few minutes.  The proofs take from a few seconds to a few minutes for each module.
