# tapectl: the life of a volume, model-checked and proved

tapectl writes archives to LTO tape and keeps a catalog (SQLite) of what is on
which cartridge. The catalog and the tape are two records of the same events,
and no step of the program writes both together. This directory holds TLA+
models of the parts whose correctness depends on the order of those steps:
what a process did before it died, what the drive reported late, what another
command did in between.

Paths below are relative to the repository; `src/...` is its `src/` directory.

## 1. The system

| part | state it owns | operations | who it works with |
|---|---|---|---|
| write session (`src/volume/session.rs`) | `writes`, `write_positions`, the session's events | plan, execute, seal, confirm, resume, aborted adoption | store, catalog, volume commands |
| volume commands (`src/volume/write.rs`) | `volumes` row (status, condition, `sealed_at`, `ended_after`) | init, write, resume, abort, verify | session, locks, binding |
| tape store (`src/store.rs`) | the medium, the drive's position | execute, seal, reposition, locate_seal, chain_walk | session, pipeline |
| orphan sweep (`src/db/mod.rs`) | rows left `in_progress` | probe the lock, mark | every open of the catalog |
| locks (`src/staging/lock.rs`) | one flock per volume, stage set, staging directory | acquire, probe | all commands |
| cartridge binding (`src/volume/binding.rs`) | `cartridge_volumes` | corroborate, bind, close | write, resume, verify |
| retire, erase, rewrite (`src/cli/operations.rs`, `src/volume/erase.rs`, `rewrite.rs`) | volume and cartridge status | retire, erase, rewrite | coverage floor, consent |
| coverage (`src/policy/`) | none: reads rows | who holds which unit, what is one copy too few | retire, staging release |
| staging (`src/staging/`) | stage sets, slices on disk | create, release, clean | locks, session |
| pipelines (`src/pipeline.rs`) | a pool of block buffers, the queues between threads | `write_verified`, `read_through` | session, store |
| collections, units, snapshots, keys, tenants, restore, rebuild, health, configuration, CLI | their own rows and files | see `PROJECT.json` | |

What makes it hard:

- a process can be killed between any two commits, and between a tape write and
  the commit that records it; power loss also takes what the drive buffered;
- the drive writes behind: with Logical Block Protection it can refuse a block
  of a file that the catalog already records written;
- the tape can end early (early warning, full medium), in a slice, in the seal,
  or in a file being sent again;
- a readback lasts hours, during which other commands change the catalog;
- the sweep at each open probes a lock and marks rows afterwards;
- the operator exchanges cartridges, and not every drive reads their chip;
- a file is read, hashed and written by three threads that share a bounded pool
  of buffers, and any of them can stop first;
- the store remembers where the head is, and a read that trusts a wrong memory
  reads the wrong file without noticing.

Every hazard with its line, and the properties that would notice it going
wrong, is in `PROJECT.json` under "hazards".

## 2. Modules

| module | models |
|---|---|
| `Tape` | the medium and what reading it tells: files, torn writes, `locate_seal`, `probe_seal`, `contact_report`, `resume_reconfirm_eligible`, `walk_from_index` |
| `WriteSession` | one volume: every command on it, the sweep, kills, power loss, the operator's cartridge changes |
| `MCWriteSession` | the instances for TLC |
| `WriteSessionProofs` | its inductive invariant and theorems |
| `BufferPool` | the pool of block buffers both pipelines draw on: `Producer::take`, `settle` |
| `WritePipeline` | `write_verified`: reader, hasher and store on three threads |
| `WritePipelineProofs` | its inductive invariant and theorems |
| `ReadPipeline` | `read_through`: the tape read on a worker thread, the sink on the caller's |
| `TapeCursor` | `TapeStore`'s memory of where the head is, against where it is |
| `TapeCursorProofs` | its inductive invariant and theorems |

The pipelines and the cursor are below `WriteSession`: what `write_verified`
does to one file (written, refused by the drive, mismatched, source failed) is
one step of `run_entries` there, and `VerdictJustified` is what that step takes
for granted; that a read begins at the file asked for is what `LocateSeal`,
`Contact` and `ChainWalk` take for granted, and `ReadsFileAsked` is that fact.

### Tape

A tape is a sequence of files. A file is the layout it belongs to (layout 0 is
another volume's, layout `a` is the one the `a`-th session of this volume
froze), what became of its bytes (`whole`, `part`: cut off and closed by the
filemark the kernel writes, `bad`: right length and wrong bytes, `seal`) and,
for a seal, the `ended_after` it states. Whether the drive reads a file when it
is asked is an input of `Contact` and `LocateSeal`, so every outcome of an
unreadable File 0 or seal is explored. Every seal is one tapectl 1.6.0 or later
wrote: it requires `short-seal` whether it is full or short, so `read_seal`
accepts it also before the planned position. A seal from before 1.6.0, which it
refuses there, is not modelled.

### WriteSession

Catalog columns are variables: `status`, `cond`, `sealed`, `ended` (the
`volumes` row), `rows`, `vrf` (one `writes` row per unit), `wp`
(`write_positions`), `bound` (the open `cartridge_volumes` row), and three facts
read from events: `warn`, `lbp`, `aborted`. `tape` and `loaded` are the world.
`run` is the command that holds the volume's session lock with what it has in
memory; a kill sets it back to `Idle` and leaves the rest.

| actions | code |
|---|---|
| `ReadTarget`, `Plan`, `Execute` | `volume_write_contacted`, `decide_fresh_write_contact_on`, `bind_late`, `ValidatedLayout::plan`, `execute_checking` |
| `EntryWritten`, `EntryFails`, `EntryRefused`, `SignalInEntries` | one turn of `run_entries` up to its verdict |
| `RecordWritten`, `RecordAborted`, `RecordInterrupted`, `RecordRetry`, `RecordRefused`, `RecordPanics` | the rest of that turn: position row, early warning, abort, the one retry |
| `SealWritten`, `SealFails`, `SealFull`, `SealRefused`, `ResendWritten`, `ResendFails`, `RecordSeal` | `seal_with_retry`, `resend_entries`, `finish_session` |
| `ConfirmStarts`, `ConfirmPasses`, `ConfirmRollsBack`, `ConfirmQuarantines`, `ConfirmInconclusive` | `confirm_under_default_interval` |
| `ResumeConfirms`, `ResumeFindsSeal`, `ResumeQuarantines`, `ResumeWrites`, `ResumeSeals` | `resume_checking`, by what the contact found |
| `VolumeAbort`, `VerifyPasses`, `VerifyQuarantines`, `VolumeRetire` | the other commands |
| `LoadCartridge`, `Crash`, `PowerLoss` | the operator, the operating system, the drive |
| `Sweep`, `SweepProbes`, `SweepMarksLate` | `recover_orphaned_sessions` |

One action is what happens between two points where a kill can be told apart.
Where a handler makes two commits and a kill between them leaves a state some
other path reaches too (the position row and then the early warning's event),
they are one action. Three narrow windows that lead to states of their own are
switched by the constant `Windows`: `"marking"` (between two rows of `mark_writes` or of
`demote_positions_from`, both one committed UPDATE per row, or the rows and the
event), `"refusal"` (between the drive's refusal and its event) and `"opened"`
(a command whose open of the catalog came before another process died). A
demotion that is cut off, or whose UPDATE fails, is `RecordRefused` or
`SealRefused` with the first rows' positions demoted, and in a resume the branch
of `DemoteAndRestart` that marks no row.

A unit that may span can have slices that no layout of this volume lists
(`Elsewhere`): `span_split` counts every slice of the stage set, so the tape then
holds a range of it at most.

Abstractions, beyond sizes and names:

- `--force` is never given; the copy floor and the consent `volume retire` asks
  for are taken as given;
- `volume init` is the initial state: the chip was read and the volume bound, or
  not;
- statuses nothing here can produce (`erased`, `failed`) are left out;
- any cartridge may hold foreign files before the first write (`Found`);
- a file of no bytes at File 0 is treated as any other unreadable identity;
- a verify or a readback always starts at the first file: the checkpoints an
  interrupted one continues from are not modelled;
- "a full verify since the abort" is one bit; two events in the same second are
  not told apart;
- the snapshot's promotion inside the confirm's transaction is left out;
- an early warning may come with any file, also after the retry;
- power loss takes files from the end of the tape and never brings back what was
  overwritten;
- a catalog that stays busy past its budget ends the process: `Crash`.

### BufferPool, WritePipeline, ReadPipeline

A thread is a program counter (`producer`, `hasher`, `writer`; `worker`'s is
`producer` again, the stage that fills buffers), a channel is the blocks in it
and its closing message, a buffer is only counted: Rust moves it, so no two
threads ever hold the same one. Bytes are counted too: a block is the offset its
bytes come from and how many they are, so "in order, nothing lost, nothing
twice" is arithmetic on offsets. `Take` ends where `Producer::take` first looks
at the returned buffers, because the consumer can hand one back, or go, between
that look and the decision to allocate or to wait.

| actions of `WritePipeline` | code |
|---|---|
| `StartFile` | `write_verified` up to the spawned stages |
| `ReadTake`, `ReadGrow`, `ReadNothing`, `ReadBlock`, `ReadClose` | `read_stage` |
| `HashBlock`, `HashLastBlock`, `HashEnd`, `HashClose`, `HashOrphaned` | `hash_stage` |
| `StoreReceive`, `StoreDrain`, `StoreMeetsEnd`, `StoreFails`, `StoreFinishes` | `PipeReader::read` as the store's `execute` calls it |
| `DropPipe`, `Join` | the ends dropped, the stages joined, `settle`, `Streamed::verdict` |

| actions of `ReadPipeline` | code |
|---|---|
| `StartRead` | `read_through` up to the spawned worker |
| `DeviceBlock`, `DeviceEnd`, `Stopped` | `read_file_streaming` as the worker sees it |
| `WorkerTake`, `WorkerGrow`, `WorkerFill`, `FinishPart`, `FinishEnd` | `PipeWriter` |
| `Deliver`, `SinkFails`, `MeetEnd`, `DropEnds`, `Join` | the calling thread |

A thread that panics, the per-stage timing, and the research build that keeps
the pipeline running across files are not modelled.

### TapeCursor

`files` and `tail` are the tape (blocks in each closed file, blocks after the
last filemark), `head` is where the head is, `cursor` what `FileCursor` says, and
`st` the driver's count, which is right or lost (`Counted`, external: the kernel
gives -1 when it has lost track; that a count it does give is right is an
assumption). `locate` asks `FileCursor::plan` what to move if the count agrees
with the cursor, and rewinds if it does not; `read` records which file was asked
for and where the read began. Each operation of `TapeStore` that moves the tape
is an action, with its failures. A write happens at the start of a file: a
session repositions or has just rewound before it writes.

## 3. What is checked

Properties, each stated with the code it is about in its module. `WriteSession`:

- `SealedMeansOnTape`: a volume the catalog counts as sealed is on a cartridge,
  complete, with the seal that states the recorded ending.
- `WrittenIffReached`: of a unit recorded held, exactly the slices the sealed
  tape reaches are recorded written.
- `VerifiedMeansIntact`: `write_verified` means whole bytes.
- `NoSliceAfterWarning`: nothing but a seal follows the file the early warning
  came in, across processes.
- `SealedTapeNeverRewritten`, `NoWriteAfterSealRecorded`: ADR-0003, from the
  tape's and from the catalog's side.
- `RetiredStaysRetired`, `AbortedStaysUnlessVerified`: what an hours-long
  confirm and the adoption of aborted rows may do to statuses.
- `EveryCommandEnds`, `OrphansAreSwept`: liveness.

The pipelines:

- `MemoryBound`, `PoolCounted`: never more buffers than the pool's bound, and an
  exact count between files.
- `StreamInOrder`, `DeliveredInOrder`, `NothingLost`: the bytes that arrive are
  the bytes that were read, in order, also those read before a drive error or the
  end of the medium.
- `MismatchNeverMarked`: a file that differs from its recorded hash never
  reaches its filemark.
- `VerdictJustified`: a file's verdict is what happened to it.
- `NoSilentEnd`: no stage goes without telling the store.
- `EveryFileJudged`, `EveryReadEnds`: liveness, whichever side stops first.

The cursor:

- `ReadsFileAsked`: every read begins at the file it was asked for.
- `CursorHonest`: a cursor that claims a place is where the head is, except past
  the end of a tape whose last file has no filemark, where the driver's answer
  does not tell; `ReadsFileAsked` holds there because the count is asked as well.

| run | instance | result |
|---|---|---|
| `one_tape` | one cartridge, two sessions, two slices in each, one or two units, a chip that is read now and then, `Windows = {"marking"}` | the safety properties hold |
| `two_tapes` | two cartridges, foreign content allowed, chip read, two sessions of one slice of a unit whose other slices are elsewhere | the binding keeps a session on one cartridge |
| `no_chip` | two blank cartridges, chip never read | no finished tape is written, none after the seal is recorded |
| `liveness` | one session of two units, all windows open, fair | both liveness properties hold |
| `partial_marking` | as `one_tape` | violated: a resumed session panics |
| `late_interrupt` | windows `marking` and `opened` | violated: resume goes on behind a torn file |
| `stale_target` | no window | violated: a retired volume is written |
| `unrecorded_refusal` | window `refusal` | violated: a cut file is sealed and confirmed |
| `write_pipeline` | two files in turn, up to five bytes in blocks of two, two buffers | all eight hold |
| `read_pipeline` | two reads in turn, up to seven bytes in buffers of three, two buffers | all five hold |
| `tape_cursor` | tapes of up to three files of up to two blocks | all three hold |

The four violated runs state what a comment, a message or an `expect` of the code
says; "findings" in `PROJECT.json` quotes each and says what the run shows.

Bounds. Two sessions are the least in which one replaces another's rows
(`supersede`) and finds its files. Two slices are the least in which the tape
ends between slices, and a refused block belongs to an earlier slice than the
one being sent; a front zone of two files separates File 0 from the front
index. Two units are the least in which a session's rows can be marked in part
and a unit can be cut, held in part or held whole. `MaxAttempt` caps the number
of sessions; nothing else is bounded. Deadlock is not checked: a volume that is
retired, or out of attempts, may rest.

Two buffers are the code's least pool, and the case in which every thread can
wait for a buffer. Five bytes in blocks of two give a first, a middle and a last,
partial block; seven in buffers of three, with tape blocks of any size, give tape
blocks that split over buffers and buffers that join tape blocks. Two files show
what the first leaves in the pool. A run stops after `MaxFiles` (`MaxReads`), so
deadlock is not checked there; a thread that waits for ever violates
`EveryFileJudged` or `EveryReadEnds`. Three files let a move go forward, back and
over a file; two blocks let a read stop inside one. `MaxFiles` and `MaxBlocks`
cap the tape.

Without a chip serial and with two cartridges in exchange the program cannot
know which one it writes; `SealedMeansOnTape` then depends on the operator, and
`no_chip` checks what does not.

Fairness. `FairSpec` assumes that a process that is alive and not killed keeps
taking steps (weak fairness of `SessionStep`: they are statements of one thread)
and that the catalog is opened again and again with the lock free (strong
fairness of `Sweep`: every command, also a read-only one, and every timer opens
it, and a session that holds the lock ends). Nothing is assumed of the operator,
of crashes or of the drive. In the pipelines each thread that can take a step
eventually does (weak fairness of each: they are operating-system threads); the
store's own failure is never owed.

## 4. What is proved

### The write session

`WriteSessionProofs` proves, for any number of files, units, sessions and
cartridges and any windows, from the ASSUMEs of `Tape` and `WriteSession` (the
constants' types; every layout has a front zone and at least one slice):

| theorem | statement |
|---|---|
| `InductiveInvariant` | `Spec => []IInv` |
| `TypeCorrect` | `Spec => []TypeOK` |
| `SealRecordedIsFinal` | `Spec => NoWriteAfterSealRecorded` |
| `RetirementIsFinal` | `Spec => RetiredStaysRetired` |
| `AbortedIsFinal` | `Spec => AbortedStaysUnlessVerified` |

`TypeOK` is not inductive: a write at a position beyond the tape's end would
leave no sequence of files. `HeadOK` says where the head can be in each state of
the command: the file about to be written is one the tape reaches, also after a
refusal took files away and the retry returned to an earlier one, and the seal
goes right behind the last file. `SealOwed` says that a session that can still
write has no seal recorded, which gives `SealRecordedIsFinal` at once, since the
steps that change a tape are all steps of such a session. `SessionRows` says
that a writing session holds no aborted row, and a confirming one only with the
seal recorded and a full verify since the abort; every row marking of a session
marks a subset of its rows, which gives `AbortedIsFinal`. TLC checked `IInv` on
the instance of `one_tape` with all windows open before the proof was written.

There is one lemma per action (or small group) that it keeps `IInv`, and lemmas
on the operators: what `Keep`, `Overwrite` and `Torn` leave of a tape, what the
records of a command hold, that the endings and the cursor are positions.

### The tape cursor

`TapeCursorProofs` proves `CursorInvariant` (`Spec => []IInv`), `ReadsAreRight`
(`Spec => []ReadsFileAsked`) and `CursorIsHonest` (`Spec => []CursorHonest`) for
tapes of any number of files and blocks. The invariant adds to the two what makes
them inductive: the head is on the tape, and the driver's count is the head's
place or lost. One lemma says
that `locate`, from such a state, always arrives at the start of the file asked
for, whether the head stays, spaces forward or rewinds.

### The write pipeline

`WritePipelineProofs` proves the safety properties the run `write_pipeline` checks,
for files of any length, blocks of any size and a pool of any size of at least
two, from the ASSUMEs of `BufferPool` and `WritePipeline`:

| theorem | statement |
|---|---|
| `PipelineInvariant` | `Spec => []IInv` |
| `MemoryIsBounded`, `PoolIsCounted` | `Spec => []MemoryBound`, `Spec => []PoolCounted` |
| `BytesStayInOrder` | `Spec => []StreamInOrder` |
| `MismatchIsNeverMarked` | `Spec => []MismatchNeverMarked` |
| `VerdictIsJustified` | `Spec => []VerdictJustified` |
| `NoStageEndsSilently` | `Spec => []NoSilentEnd` |

`IInv` follows the file through the threads. `PoolSide` says which places hold no
buffer once a stage has gone, so that the count can be settled. `ReadSide` says
that the reader closes its channel at exactly the byte the file delivers, and that
it leaves without closing it only when the store has gone. `HashSide` ties what
the hasher knows of the hash to how far it is and to what it has told the store;
`StoreSide` bounds what is queued for the store by what was hashed and, for a file
that differs, by the byte before its last: that is why the store can never come
to the end of it. `VerdictSide` is `VerdictJustified`; that a store which took the
whole file finds the hash finished follows from the other parts. There is one
lemma per action, and lemmas on queues of blocks that follow one another
(`LinkedAppend`, `LinkedTail`, `InsideQueue`). TLC checked `IInv` on the instance
of `write_pipeline` first.

Only model-checked: the other invariants of `WriteSession`,
`SealedTapeNeverRewritten`, the read pipeline, and all liveness properties
(fairness and ENABLED are out of the prover's reach).

## 5. Plan

By lines, what is modelled is a small part of the program: about 5,600 of the
roughly 160,000 lines under `src/` outside test modules, those of the protocol
around which the rest is built. The model grows first, each item a module with
its runs and properties:

1. Staging: stage-set locks, release after the last copy, clean, the sweep's
   other two arms, composed with a write session that reads the staged files.
2. Coverage and spanning: which tapes hold a unit, the copy floor that retire,
   erase and mark-reclaimable defend, against a reference definition.
3. Binding, erase and rewrite of cartridges.
4. Readback checkpoints: a verify and a confirm that continue, the cartridge
   exchanged or rewritten in between.
5. Restore: which copies are asked for, in which order, and what a failed one
   leads to.
6. Rebuild and adoption of lost volumes; collections; keys and escrow.

Then more is proved:

7. `SealedTapeNeverRewritten` and `SealedMeansOnTape`: an invariant on which
   layout each file before the head belongs to, and on where seals are.
8. An abstract volume (unwritten, writing, sealed, aborted, retired) that
   `WriteSession` is shown to implement.
9. The read pipeline's safety, as the write pipeline's is.

Not planned: device ioctls and SCSI pages, the archiver, encryption and
encodings, configuration, rendering. They are data or I/O around the protocols
above.
