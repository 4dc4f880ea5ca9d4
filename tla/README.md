# A verification project for StoneKV

StoneKV is an embedded key-value store in Rust: a memtable, a write-ahead log
(WAL), immutable segment files, flush, full compaction, and a recovery that runs
whenever a store is opened. This directory holds TLA+ models of it, the TLC
configurations that check them, and proofs that TLAPS checks. Paths below are
relative to the repository root (`src/` here is `src/src/` in `PROJECT.json`).

Everything that can go wrong in this program goes wrong *between two
file-system calls*: the process dies there, or the second call returns an error
and the code has to undo, ignore or report it. So the model's actions are single
file-system calls, and its properties relate memory, the files, and what the
client has been told.

## Inventory

| Component | State it keeps | Operations | Correct when |
|---|---|---|---|
| Store engine, `store.rs` | memtable, open segment readers (newest first), `next_segment_generation`; on disk `segment_*.seg`, `*.seg.tmp`, `compaction.pending`, `compaction.pending.tmp` | `open`, `set`, `delete`, `get`, `compact`, `verify`, internal `flush_memtable` | it behaves as an atomic durable map; acknowledged writes survive a crash anywhere; nothing is deleted before its replacement is in place; the store can always be reopened |
| Write-ahead log, `wal.rs` | `wal.log` | `append` (write, fsync), `replay` (decode, cut a torn tail), `truncate` | replay yields exactly the whole records, in order; a torn tail takes nothing with it |
| Record codec, `record.rs` | none | `encode`, `decode` | a cut record decodes as truncated, never as another record; a damaged one never as a valid one |
| Memtable, `memtable.rs` | ordered map from key to value or tombstone, approximate size | `set`, `delete`, `get`, `clear`, `is_over_threshold` | the size is that of the entries; a tombstone is not an absence |
| Segment files, `segment.rs` | records in key order, sparse index, footer | write, finish, open, `get`, `iter_all` | `get` finds exactly the records of the file |
| Compaction merge, `compaction.rs` | a merged map | `compact_all` | the newest cell of each key survives, tombstones go with what they hide |
| CRC32, `crc32.rs` | a table | `checksum` | it is the remainder of a division by the polynomial, and so notices every short burst of damage |
| Command line, `main.rs` | none; one process per command | `set`, `get`, `del`, `compact`, `stats`, `verify`, `--dir` | a command is served exactly if it has the form of the usage text, on the directory it names, and the exit code says what happened |
| Errors and logging, `error.rs`, `logger.rs` | none | formatting, output | not modelled |

**Interaction.** Components call each other synchronously on one thread. A
`Store` is owned by one caller at a time; `tests/concurrent_access.rs` shares it
as `Arc<Mutex<Store>>`, so calls never overlap and threads add no behaviour.
The interaction that matters goes through the files: the process that writes
them and the process that recovers them are different ones, separated by a crash.
The command line opens a store, makes one call and exits, so there the *usual* way
of two calls to interact is through the files.

**What is hard.** Crashes between any two calls, during recovery too; a call that
fails half way and whose error is propagated (`?`), handled (undo) or ignored
(`let _ =`); a process that carries on after an error with memory and files that no
longer agree; generation numbers reused; markers left behind. `PROJECT.json`
lists these as hazards, each at its line, with the properties that would catch
it. There is no concurrency inside a store, no network and no clock.

## The modules

```
         KeyMaps   TornLog   RecordCodec                      (shared operators)
        /   |   \   /    \    /      \
  Memtable Merge Store   WalFile   SegmentBytes ... INSTANCE SegmentFile WITH ...
                  |                                          |
                  +-- StoreInv -- DataInv               SegmentProofs
                  |      |          +-- Durability
                  |      |          +-- PowerLoss     Crc32   MarkerFile   Cli
                  |      |
                  +-- StoreKV ... INSTANCE KVMap WITH ...

  proofs:  OrderLemmas -- StoreProofs -- PromiseProofs -- PowerLossProofs
              |  about    StoreInv      Durability       PowerLoss
              |           DataInv       StoreKV
              +-- FileProofs about RecordCodec, WalFile, SegmentBytes   CliProofs about Cli
           PartsProofs about Merge, Memtable, Crc32, MarkerFile
```

The engine is modelled at the level at which it can go wrong: whole records,
whole segments, one file-system call per action. Below it, one module per
component shows that the component behaves as the engine's model assumes. Above
it, `Cli` is the program around it.

| Module | Models | Corresponds to |
|---|---|---|
| `Store` | the engine: every call of `set`, `delete`, `get`, `compact`, `verify`, `open` | `store.rs`, with `wal.rs`, `memtable.rs` and `segment.rs` as it uses them |
| `KVMap` | what the engine promises: a durable atomic map | abstract, no code |
| `StoreKV` | `Store` implements `KVMap` | refinement mapping |
| `Durability` | `Store` with what its client has been told | history variable |
| `StoreInv` | the inductive invariant of `Store` about generations, readers and markers | |
| `DataInv` | the one about what files, memtable and log hold | |
| `StoreProofs`, `PromiseProofs`, `PowerLossProofs` | the proofs about `Store`, `Durability`, `StoreKV` and `PowerLoss` | |
| `OrderLemmas` | maxima, listings, sequences, and what stands in for induction | |
| `FileProofs` | the proofs about the bytes: `RecordCodec`, `WalFile`, `SegmentBytes` | |
| `KeyMaps`, `TornLog` | what a map says of a key; the part of a log that can be read | shared by the others |
| `PowerLoss` | `Store` on a machine that loses power: which files may be left, and what has been promised | where the code syncs; the file system is external |
| `RecordCodec` | the encoder and the decoder, check by check, over bytes | `record.rs` |
| `WalFile` | the bytes of `wal.log`: append, replay, truncate | `wal.rs` |
| `SegmentBytes` | the bytes of a segment: writer, every check of the reader, iteration, lookup, with one byte damaged | `segment.rs` |
| `SegmentFile`, `SegmentProofs` | the same over whole records and offsets, and the proofs about it | `segment.rs` |
| `MarkerFile` | the text of `compaction.pending`: writer and parser, line by line | `store.rs`, `write_` and `read_compaction_marker` |
| `Merge` | the merge loop, segment by segment | `compaction.rs` |
| `Memtable` | the map and its running byte count | `memtable.rs` |
| `Crc32` | the table and the loop, over 32-bit words as sets of bit positions, beside a division bit by bit | `crc32.rs` |
| `Cli` | one process after another: the parser argument by argument, opening, the call, the exit code | `main.rs` |
| `PartsProofs`, `CliProofs` | the proofs about `Merge`, `Memtable`, `Crc32` and `MarkerFile`, and about `Cli` | |

`PROJECT.json` maps every definition that models code to its lines.

### How `Store` corresponds to the code

*State.* `wal`, `segs`, `tmps`, `marker` and `markerTmp` are the files of the
store's directory. `mem`, `readers` and `nextGen` are the fields of `Store`.
`pc` names the system call that comes next, `call` is the call being served,
`todo` the old generations a compaction or a recovery has yet to remove, `ret`
the result of the last call. A crash empties memory and keeps files.

*Actions.* An action is one system call whose effect is visible in files, with
the memory updates up to the next one; so `Crash`, enabled everywhere, falls
between any two of them. `set` is `WalAppend`, then `WalSync` with the memtable
insert, then perhaps the flush: `FlushClearTemp`, `FlushCreate`, `FlushFinish`,
`FlushRename`, `FlushOpen`, `WalSetLen`, `WalTruncSync`. `compact` flushes, then
runs from `CompactPlan` to `RemoveMarker`, its undo paths included (`UndoFinal`,
`UndoMarker`, `UndoTmp`, `MarkerUndo`). `open` is `Restart`, `Recover` with its
roll-forward and roll-back, `RemoveStaleTemp`, `LoadSegments`, `Replay`.

*Errors.* Each point of `FaultPoints` is a call that can return an error, in one
of three classes: passed on by `?` (`CallErrors`), passed on by `open`, which
then yields no store (`OpenErrors`), or handled or ignored by the code
(`HandledErrors`, each with its own `...Fails` action). The constant `Failing`
says which may fail in an instance. A failed call has no effect on the files,
apart from `write_all`, which may leave part of a record, and the temporary
marker, which may be left in any state. A temporary segment that was not
finished stays as `Partial`.

*Data.* A segment is a map from keys to cells (a value, a tombstone, or nothing),
a log a sequence of records, some of them torn. The memtable flushes at
`FlushThreshold` entries rather than bytes; `Memtable` covers the bytes.

### Why the abstractions of `Store` are sound

- **Logs.** `Store` keeps a sequence with `Torn` for a cut record; replay takes
  `ValidPrefix` and may refuse only a log with `BuriedTear`. `WalFile` keeps the
  same sequence as a history beside the real bytes, and shows that the decoder
  obeys both (`ReplayReadsValidPrefix`, `CrashTailIsForgiven`). `Store` lets
  replay refuse *or* cut a log with a buried tear, since the bytes decide which.
- **Segments.** `Store` looks a key up by applying a map. `SegmentFile` shows
  that the lookup through the sparse index is that map (`GetFindsRecord`), and
  that a finished file opens (`FinishedOpens`). `SegmentBytes` has the bytes, and
  its writer is proved to implement that of `SegmentFile`
  (`ImplementsSegmentFile`), so what is proved of the one holds of the other.
- **Merge.** `Store` merges in one step with `FirstCell`, the operator that also
  defines `get`. `Merge` has the code's loop and shows that it computes the same
  (`OutputReplacesInputs`).
- **The marker** is a pair of a generation and a set in `Store`. `MarkerFile`
  shows that the parser accepts a text exactly if its form is that of one such
  pair, and then returns it (`ReadsByForm`), and so never refuses what the store
  wrote (`WrittenReadsBack`).
- **Checksums** are taken to be ideal in `RecordCodec`: different contents have
  different checksums. `Crc32` shows that for a burst of damage of at most four
  bytes the real checksum is as good (`BurstIsSeen`, also proved). All the damage
  in `WalFile` and `SegmentBytes` is of one byte. Collisions of longer damage are
  out of scope.
- **The stores of `Cli`** are maps, one per directory: what `StoreKV` shows the
  engine to be.

### Power loss

In `Store` a crash is the death of the process and the files keep what was
written. `PowerLoss` adds the death of the machine. It has each step of `Store`
and remembers in `surviving` the files that a loss of power *now* may leave: those
after any of the steps since the last `sync_all`. An append that was not synced
may be there in part. `LosePower` continues with one of them.

The code syncs every file it writes, and never a directory. So nothing can hold
unless the file system orders directory changes, and `PowerLoss` takes it to be a
journaled one, such as the ext4 the README's benchmarks run on:

- creations, renames, removals, truncations and appends become durable in the
  order in which they were made, and a sync of *any* file makes all the earlier
  ones durable (for an append to another file this is more than needed: the code
  syncs the log after each);
- a file's length grows only together with its data, so no tail of zeros appears;
- after a failed `sync_all` the data is still to be written, not forgotten;
- `wal.log` and the two directories themselves are there from the start.

On a file system that orders none of these, the log can be emptied durably before
the rename of the segment that replaces it is durable. The README disclaims
power-loss protection in general (`README.md:936`), so this is an assumption here
and not a finding. A read of a write that was never acknowledged promises nothing
in `PowerLoss`: replay does not sync what it reads.

## The runs

| Run | Question | Bounds | States |
|---|---|---|---|
| `MCStoreKV` | With crashes, and errors of all calls but three: is the engine an atomic durable map, do memory and files agree at rest, and (`AgreeInv`) everywhere but inside a write? | 2 keys, 1 value, 4 generations, 2 log records | 265,000 |
| `MCStoreFaults` | With every call failing and crashes: newest first, open segments untouched on disk, segments never rewritten, always recoverable, and is a compaction that reports success complete? Are `IInv` and `FilesInv` invariants? | 1 key, 5 generations | 208,000 |
| `MCStoreLive` | With crashes, and errors of every call of a serving store but a torn append: does every call return, does every reopening get to a store that serves, is every compaction finished, undone or reported, and what it left cleared by the next open? | 1 key, 4 generations | 18,000 |
| `MCDurability` | Does an acknowledged write survive, is it read, and is what recovery would find always what memory and files allow? Is `LogInv` an invariant? | 2 keys, 4 generations | 983,000 |
| `MCLostMarker` | (violation) the same, when the removal of the marker may fail | as above | |
| `MCTornAppend` | (violation) the same, when an append may fail half way | as above | |
| `MCPowerLoss` | Does an acknowledged write survive a power loss, with crashes and errors besides, and can the store be reopened? | 2 keys, 3 generations | 1,480,000 |
| `MCFiles` | Two files, each by itself. The log: does the byte format tell a cut from damage (3 records, keys of 1 and 2 bytes, values of 0 to 3, bytes below 3)? A segment: does a lookup find exactly what was written (7 keys, index interval 2, records of 1 or 3 bytes)? | | 357,000 |
| `MCSegmentBytes` | Do the bytes read back, and can one damaged byte, outside the index offset, make a compaction lose data? | 3 records, 4 keys of 0 to 2 bytes, every change of every byte | 22,000 |
| `MCFooter` | (violation) the same of the index offset | 2 records, length fields of 2 bytes | |
| `MCParts` | Four algorithms, each by itself: the merge (every content of 3 segments, 2 keys, 3 values), the memtable's count (values of 3 lengths), CRC-32 with the real polynomial (streams of 5 bytes over 3 byte values, every burst of up to 4), the marker's parser (every text of 5 lines, with the numbers 0 to 3 and one that does not parse) | | 1,094,000 |
| `MCCli` | Is a command served exactly as the usage text says, and does the exit code tell the truth? | 4 arguments of 4 kinds, 2 processes | 169,000 |

**Why these bounds reach the interesting cases.** Two keys are needed, and suffice,
to lose one while keeping the other; one value suffices because a tombstone and an
absence are already different from it. With one value a *stale* value shows as a
value that should have been deleted, or the reverse. Four generations are two
flushes, the compaction that replaces them, and a flush that uses a generation
again; five allow a crash in between and a second compaction. Power is lost with
three: two flushes and a compaction. `FlushThreshold = 2` lets a record stay in the
log beside a segment; with one key the threshold is 1. A write begins with fewer
than `MaxWal = 2` records in the log, so the log holds a record of each key, or two
of one key of which the later must win. Writes stop at `MaxWal` and all calls at
`MaxGen`; reopening starts the log bound again but not the generations, so every
behaviour is bounded by `MaxGen`. Index interval 2 with 7 keys gives files of nought
to four index entries, full and broken intervals, and lookups before, between and
after the records. In the log of `MCFiles` the length fields are two bytes, `MAX_FIELD_LEN`
is 2, and values go one byte past it. At most two records are damaged
(`MaxDamaged`), because damage multiplies states by the bytes of the file. In
`MCSegmentBytes` three records of which two are indexed give lookups that begin at
either entry and scan past an unindexed record. Bytes are numbers below 6, the magic
one of them. `MCFooter` needs length fields of two bytes, of which one can be read
with the byte before it. Five lines are the shortest marker of two old segments and one line too many,
with one pair of old generations that the store can write (1 and 2, under 3) and
others that only a text can have (those with a 0); a stream of five bytes is a
burst of four with one before or after it. Four arguments are the two of `set`
and the two of `--dir`.

**Which errors each run allows.** Which errors the code survives is part of what
the runs say.

- `MCStoreFaults`: all of them (`AllFaults`). What it checks, and what is proved,
  holds whatever fails.
- `MCDurability`: all but `wal_append` and `undo_marker`. These two really break
  durability, see *Findings*.
- `MCPowerLoss`: those of the calls of a running store, less the same two
  (`ServedFaults`). Errors inside `open` yield no store and are in `MCDurability`.
- `MCStoreKV`: also without `wal_sync`. When `sync_all` fails the record is in
  the file and not in the memtable: the call reports an error, reads do not show
  the write, and a restart does. That is more than `KVMap` allows an error to
  mean, and less than losing data: `Durability` allows it.
- `MCStoreLive`: those of the calls of a running store (`ServingFaults` there),
  less `wal_append`: `open` cannot complete if its own calls fail for ever, and
  may refuse a log with a torn record in its middle. A marker may be left behind
  here. Nothing forces a restart, so `MarkerResolved` does not say that it goes:
  it says that the call that leaves it returns an error, and that the next open
  that is not cut short clears it.

**Fairness.** `FairSpec` is weak fairness of `Progress`, the steps the code takes
by itself once called or started: a scheduled process takes its next step. There
is one thread and one `pc`, so one condition suffices. It includes `Restart`:
`OpenCompletes` speaks of a process that is started again. Nothing is assumed of
the client. A crash is never fair; properties about finishing hold if crashes
stop (`[]<><<Crash>>_vars \/ ...`), and `CallsReturn` counts death as an end.

**Deadlock** is checked everywhere except in `MCParts`, `MCFiles`,
`MCSegmentBytes`, `MCFooter` and `MCCli`, where algorithms end and processes are
counted. In the others a client can always call, or the process die.

**Mutants.** Definitions named `..._bug` are plausible slips (a missing reversal,
the file list taken after the swap, a generation not advanced, a bound off by
one, the old entry not taken off the count). Each stands before the definition it
replaces, and `PROJECT.json` names the property that then fails.

## Findings

The first two are violations of `AcknowledgedSurvives`, in the code as it is.

1. **A marker that cannot be removed** (`MCLostMarker`). `Store::compact` ignores
   the error of removing `compaction.pending` after a failed rename (`store.rs:235`)
   or validation (`store.rs:259`) and goes on serving. `next_segment_generation`
   still is the marker's output, so the next flush installs new writes under that
   generation. Recovery takes this segment for the compacted one and deletes every
   old segment. `README.md:807`: "Never delete data until its replacement has been
   written and successfully validated." It takes two failing calls in a row.
2. **An append that fails half way** (`MCTornAppend`). `Wal::append` (`wal.rs:45`)
   leaves the torn bytes in the file when `write_all` fails; the next append writes
   behind them, is synced and acknowledged, and is lost at replay, or the log is
   refused. `README.md:397` says that after `Ok(())` the store "has completed its
   WAL durability step for that operation", and `README.md:542` describes this
   layout as what truncation prevents. `README.md:936` does disclaim disk-full
   protection.
3. **The footer's index offset is not verified** (`MCFooter`). `SegmentReader::open`
   checks the offset only for its range (`segment.rs:223`) and by reading what
   follows as index entries; no checksum covers it. If a byte of it changes to the
   offset of a record that, with the true index behind it, reads as entries, the
   file opens, and `iter_all` stops before that record: `verify` (`store.rs:374`)
   reports success and `compact` drops it and all behind it. `README.md:862-871`
   lists "segment footers", "sparse-index structure" and "segment records" among
   what verification checks; `README.md:1117` disclaims "guarantees under arbitrary
   disk corruption". With the sizes of the code, a segment of the empty key and a
   key of one byte with a value of 242 is such a file, and one bit can be enough:
   the second record has 256 bytes, so the two offsets differ in one byte, and the
   length of its key, read one byte early, is 256, which spans the rest of the
   record and the key length of the one index entry. It came out of the proof of
   `CompactionIsNotMisled`, which needs the offset spared; for the small files of
   `MCSegmentBytes` the property holds without that.

One observation is not a contradiction of anything the repository says: after a
compaction whose clean-up failed (`store.rs:299`), the process has one segment
open, so calling `compact` again returns `Ok` at once (`store.rs:173`) with the
marker and the old files still there. `CompactionComplete` excepts this case.

## The proofs

TLAPS checks 14,100 obligations. They hold for every value of the constants that
meets the named assumptions, which TLC evaluates in every run.

| Theorem | Says | `Failing` |
|---|---|---|
| `StoreProofs!InductiveInvariant` | `Spec => []IInv` | any |
| `StoreProofs!TypeCorrect` | `Spec => []TypeOK` | any |
| `StoreProofs!NewestFirst` | open segments are ordered newest to oldest | any |
| `StoreProofs!OpenSegmentsAreSafe` | no step removes or changes a file that is being read | any |
| `StoreProofs!AlwaysRecoverable` | every marker can be rolled forward or back | any |
| `StoreProofs!SegmentsNeverRewritten` | only the leftover of a failed flush or compaction is ever replaced | any |
| `StoreProofs!InductiveFiles` | `Spec => []FilesInv` | any |
| `StoreProofs!CompactionIsComplete` | a compaction that reports success has left one segment, no marker and no memtable | any |
| `StoreProofs!InductiveLog` | `Spec => []LogInv` | spares |
| `StoreProofs!RecoveryAnswersAsReads` | what a reopened store would return is what memory or files return now | spares |
| `PromiseProofs!NoAcknowledgedWriteIsLost` | an acknowledged write survives a crash anywhere | spares |
| `PromiseProofs!ReadsArePromised` | `get` returns what the client was told | spares |
| `PromiseProofs!ReadsAreRecovered` | `get` returns what a store opened now would | spares, syncs |
| `PromiseProofs!MemtableAgreesWithLog` | memory and files agree on every key, but for the write in progress | spares, syncs |
| `PromiseProofs!ImplementsMap` | the engine is a durable atomic map: `Spec => KV!Spec` | spares, syncs |
| `PowerLossProofs!PowerLossLosesNothing` | an acknowledged write survives a power loss anywhere | spares |
| `PowerLossProofs!PowerLossIsRepaired` | whatever files are left, the store opens | spares, opens |
| `SegmentProofs!RecordsLieEndToEnd`, `LookupsAreRight`, `FinishedSegmentsOpen` | the three properties of `SegmentFile` | |
| `PartsProofs!MergeFollowsReads`, `CompactionKeepsReads` | the two properties of `Merge` | |
| `PartsProofs!ShortBurstsAreSeen`, `TableIsDivision` | the two properties of `Crc32`, for streams of any length and every polynomial with its top bit set | |
| `PartsProofs!CountIsExact` | the memtable's count is the sum of its entries, while they fit in the counter | |
| `PartsProofs!MarkersAreReadByForm` | the parser accepts a text exactly if it has the form of a marker, and reads what it denotes | |
| `PartsProofs!WrittenMarkersReadBack` | a marker that the store wrote is never refused and reads as written | |
| `FileProofs!ReplayReads` | replay applies exactly the records before the first cut one | |
| `FileProofs!TornTailIsForgiven` | replay refuses a log only if something follows a cut record | |
| `FileProofs!NothingInvented` | with one byte damaged, replay applies nothing that was not written, in its order | |
| `FileProofs!SegmentsReadBack` | a finished segment opens, `iter_all` returns what was written and `get` the record of the key | |
| `FileProofs!RecordDamageIsFound` | whatever byte of the header or the records is damaged, `get` answers rightly or fails | |
| `FileProofs!CompactionIsNotMisled` | whatever byte is damaged, but for the index offset, `iter_all` returns what was written or fails | |
| `FileProofs!ImplementsSegments` | the writer of bytes implements the writer of records: `Spec => SF!Spec` | |
| `CliProofs!CommandsAreServed` | a command is served exactly as the usage text says | any |
| `CliProofs!ExitCodesAreTrue` | the exit code tells the truth about the stores, and for `get` about whether there is a value | any |

**Assumptions.** On `Store`: a tombstone is not a value and absence is neither
(`ValuesAssumption`); torn records, unfinished and missing files are none of the
others (`FilesAssumption`); the bounds are natural numbers (`BoundsAssumption`);
`Failing` is any set of fault points (`FailingAssumption`). So the theorems cover
any number of keys, values, log records and generations. On `StoreKV` alone, that
there is a key (`KeysAssumption`): otherwise nothing tells a store that serves reads
from a stopped one. On `SegmentFile`: keys are natural numbers, record sizes and the
interval positive, the two answers that are not cells are distinct
(`SegmentAssumption`). On `RecordCodec`: the alphabet has two bytes at least, the
fields take some, and `MAX_FIELD_LEN` is a number that a length field can hold
(`FormatAssumption`; in the code 2^26 in four bytes). On `WalFile`: a cut record is
not a record (`TornAssumption`). On `SegmentBytes`: the magic and the version are
bytes, the field of an offset has some, and "not found" is no record
(`LayoutAssumption`); its theorems but the last have the hypothesis `[]OffsetsFit`,
that offsets of the record area fit in their field (eight bytes in the code), and
the last that there are finitely many keys, because `SegmentFile` has their ranks.
On `Merge`: `MaxInputsAssumption`. On `Crc32`: `CrcAssumption`, of the polynomial
only that its top bit is set. On `MarkerFile`: generations are natural numbers, 0
included, and lines of different forms differ (`MarkerAssumption`). On `Cli`: the same of arguments, and
absence is not a value (`TextsAssumption`). The bounds `MaxLines`, `MaxArgs` and
`MaxRuns` are any natural numbers.

*Which calls may fail.* "any" means all fault points together (in `Cli`, that opening
and the call may fail). "spares" is
`Spared`: an append does not fail half way, and a marker that has to be undone can
be. It cannot be dropped: the runs `MCTornAppend` and `MCLostMarker` show an
acknowledged write lost when either fails. "syncs" is `"wal_sync" \notin Failing`,
which cannot be dropped either (see *Which errors each run allows*). "opens" is
that no call of `open` itself fails, without which the store of course does not
open. The faults of the runs meet these hypotheses.

**The argument for `Store`.** No property above is inductive alone, because what
a step removes depends on the marker, and what the marker says depends on the
step that wrote it. `IInv` says what each control point relies on:

- `ReadersInv`: open segments are on disk, newest first, and *older than
  `nextGen`*. The last part is what keeps a flush or a compaction from installing
  over an open file, even when a failed undo left a file there.
- `MarkerInv`: a running process that sees a marker is in one of two situations:
  the marker names `nextGen` and all it lists is present (the compaction has not
  been installed, or its undo failed), or it names an open segment (the swap has
  happened, or the lost marker was overtaken by a flush). Therefore removing old
  segments never leaves a marker that can neither be rolled forward nor back.
- `RemovalInv`: what is being removed is not being read; in recovery it is listed
  by the marker.
- `InstallInv`: what is renamed is finished, what is opened is there.
- `GenInv`, `WriteInv`, `MarkerType`: that the generations and calls used exist.

`IInv` permits the lost marker of finding 1: it keeps the store *recoverable*,
not the data right. The proof has one step per action, and lemmas
for the groups of variables an action leaves alone. `OrderLemmas` holds the
facts about maxima, listings and sequences.

**The argument for `CompactionComplete`.** `FilesInv` adds to `IInv` what the files
hold. `MemInv`: what a flush renames is the memtable, and once it is open a read of
the segments already answers for every key that the memtable has. `MergeInv`: what
a compaction installs is `Compacted`, the merge of the open segments. `PresentInv`:
the segments on disk are the open ones, at most one leftover, under `nextGen`, and,
beside a marker, those it has replaced; `old_remove` empties the latter, and a
compaction that starts without a marker has none. It holds whatever fails.

**The argument for durability.** What protects a write is never one place: it is in
the log, then in the log and a leftover, then in an open segment, perhaps beside
old ones that recovery is going to read. `LogInv` says how these overlap:

- `TailInv`: the log of a running store is whole; a torn record can only be the
  last, and only before replay.
- `PendingInv`: a marker belongs to the compaction under way and lists what is open,
  or its output is open and nothing it lists is. This is what the lost marker of
  finding 1 breaks, and the reason for `Spared`.
- `LeftoverInv`: a segment that a failed undo left says of a key only what the log
  says, or what a read finds anyway. So recovery may load it.

From these follows `RecoveredInViews`: what a process started now would return of a
key is `Get`, or `Replayed`, the answer if the memtable were rebuilt from the log
(the two differ only over a record whose sync failed or is to come). For a stopped
process `Views` is what recovery would find, and the steps of recovery, rolling a
compaction forward or back, keep that. Over this, `Promised`, "all that `Views`
holds was promised", is inductive: a write that is acknowledged has made its view
the only one. `AgreeInv`, that the two views are the same but for the record being
synced, needs a log whose sync does not fail.

**The refinement of `KVMap`.** The mapping is in `StoreKV`: the map is what recovery
would find, a write takes effect when its record is whole in the log. Every step is
shown to be a step of `KVMap` or a stutter: `WalAppend` is the effect, the return
to `idle` the answer, `Crash` a crash and the end of `Replay` a reopening. All
others, the whole of flush, compaction and recovery, must leave the map as it was,
which is what `LogInv` and `AgreeInv` are for.

**The argument for power loss.** `PowerInv` says of *every* disk in `surviving` that
`open` does not refuse it (`Sound`) and that recovery from it returns only what was
promised. The disk of the running store satisfies this by `LogInv`; a step adds that
disk, and perhaps one with a torn record at the end, to the set. A promise is
narrowed only by an acknowledgement, and the step that acknowledges a write,
`WalSync` or, after a flush, `WalTruncSync`, ends with a sync: the present disk is
then the only one left. `PowerInv` is not a property of `MCPowerLoss`: with it the
run takes more than five minutes.

**The argument for `SegmentFile`.** `SInv` adds that offsets grow with
positions, that every index entry is the key and offset of some record, in
increasing order, and that the first record is indexed. Then the entry where a
lookup starts is at or before the first record that is not less than the key.
Which further records are indexed does not matter, so the theorems hold for any
interval. **For `Merge`**, `MInv`
adds that the map after `read` segments is the newest cell among them; the step
is that the newest of one more segment is that segment's cell or the former one.

**The argument for `Crc32`.** Everything is linear: the difference of two registers
after a step depends only on their difference before it and on that of the two
bytes. While the burst is `k` bytes long, the difference has a bit among its `8 k`
highest. If the low byte of the difference, with that of the bytes, is not empty,
`Table` of it has a bit in the top byte, since the polynomial's top bit is set, and
nothing is shifted there. If it is empty, the difference is shifted down by eight,
and below four bytes none of its highest bits falls out. After the burst the
same two cases show that it does not vanish. That the table is the division uses
the same linearity: eight halvings of a register are the shifted register and
eight halvings of its low byte.

**The argument for `MarkerFile`.** `ReadInv` says that the lines before `next` are
fields or blank, that at most one of them gives the output and that it gave
`outputGen`, and that `old` holds what the others give, each from one line. So at
the end of the text the number of old segments is the number of their lines, and
the checks that remain are those of `Denoted`. Where the parser refuses, the line
it stands at cannot be in a text that denotes anything: a number that does not parse, a
second output, an old segment that was there before. For the second theorem, a
written text denotes the marker that was meant, since its listing is descending
and so names each segment once.

**The argument for `Memtable`.** The count is a sum over the keys of a map, and a
sum over a set is proved about by the least set that would break it: adding a key,
removing one and replacing one change the sum by that key's entry
(`OrderLemmas`). The code saturates in two places, so the theorem has the
hypothesis `[]Fits`, that no total goes past `usize::MAX`.

**The argument for `WalFile`.** `WalInv` says that the file is made of pieces, one
for each element of the history: an encoded record, or the front of one if it was
cut; and that at most one byte of the file differs from that (`Laid`). Against one
such piece the decoder has three answers. A whole record reads back (`RoundTrip`). A
cut one at the end of the file is called truncated, at whichever byte it was cut
(`CutIsTruncated`). And whatever it accepts carries a checksum, whose cells say what
they were written behind; one byte of damage spares a cell or all of the content, so
an accepted record is the very piece that lies there (`AcceptedIs`, `AcceptedSum`).
So the decoder never gets past a damaged or a cut piece, whatever lies behind it,
and the loop, read from the end of the pieces back, returns those before
(`ScanStops`, `ScanReads`).

**The argument for `SegmentBytes`.** `SegInv` says what the file is while it grows,
when it is whole, and when one byte of it has changed: header, records end to end,
index entries, footer, each where the lengths of those before it put it (`Holds`).
Record by record, `SegInv` is what the refinement of `SegmentFile` needs: a step of
the writer adds one record at the offset where the last ended.

- *Reading back.* The loop of `read_sparse_index` inverts `EncodeIndex`, from the
  last entry back, and the entries pass the checks of `open`. A record is read where
  it lies (`WrittenIsRead`), so `iter_all` goes from each to the next. `get` starts
  at an entry whose record is not behind the key's (`SearchStarts`), every record
  before that place has a smaller key, and the scan meets the key, a greater one or
  the end (`SearchFinds`).
- *Damage to a record.* Whatever bytes the lengths select, the decoder accepts only
  what a checksum vouches for, and the cells of that checksum name the record that
  was written there. So each read gives the record or fails (`DamagedIsRead`), and a
  search and an iteration can only be cut short by an error.
- *Damage elsewhere.* A changed byte of the index can change where `get` starts, and
  `RecordDamageIsNoticed` excepts it. `iter_all` uses the index offset alone: the
  same if the damage spares it. If not, nothing is left to tell where the records
  end, and finding 3 is what happens.

**Induction.** The provers have no induction over operators. It is done here
over sets: the set of the numbers at which a claim holds contains the first and is
closed under the next, so its complement has no least element
(`UpwardInduction`, `DownwardInduction`). A recursive function, `Capacity` or
the loop of `Scan`, reaches the provers as a `CHOOSE`; that there is a function to
choose is shown in the same way (`DropRecursion`, `JumpRecursion`).

**The argument for `Cli`.** `ParseInv` relates the parser to positions in the
arguments: either all that was read are positionals, or one pair gave the directory and
the positionals are the others, shifted by two behind it. At the end this makes
`[pos |-> positionals, dir |-> dir]` the only form the arguments have, whatever the
count, and where the parser gives up there is none: a flag without a directory, a
second flag or an option is wrong under every reading (`FormInv`). `StoresInv` says
what each phase has done to the stores: nothing before the command line is found
right, then at most the creation of the directory that it names.

**Only model-checked:** liveness (`OpenCompletes`, `CallsReturn`, `MarkerResolved`),
whose proof needs `ENABLED`. Every other property of the passing runs is also a
theorem. Of `ImplementsMap`, `KVMap!Spec` has no fairness: it promises safety only.

## Not modelled

- **Damage beyond one byte**, and damage of markers: a marker is written to a
  temporary file, synced and renamed, so a process can only see a whole one.
  `MarkerFile` has every text all the same, because recovery deletes files on its
  word. One damaged byte of the sparse index or the footer, which
  no checksum covers, may change what `get` answers (`RecordDamageIsNoticed` is about
  the rest), and of the footer's offset also what a compaction keeps (finding 3).
- **Two processes on one directory**, which nothing prevents and the
  documentation does not offer (`README.md:924`).
- **The last `u64` generation** (`store.rs:265`): `flush_memtable` would return an
  error after it has installed and opened the segment. It takes more flushes than
  a machine can make. Saturation of the memtable's count and the overflow checks
  of 64-bit file offsets need more data than there is.
- **The bytes of the flush threshold**: `Memtable` has the count and `Store` the
  flush, which compares a number of entries. No property of `Store` depends on
  when exactly a flush comes.
- **`verify` on a log torn in its middle**: `Store` has the truncation that `verify`
  performs, but without a torn append there is nothing to cut (`TailInv`).
- **Threads**: calls under `Arc<Mutex<Store>>` do not overlap.
- **Statistics, printed text, error types and logging.** `stats` is an action of
  `Cli` without a result. Nor has `Cli` the exit code 101 of a process that panics
  (a closed standard output), or two texts that name one directory
  (`./stone-data`, beside the default).

## Plan

Done: `Store` first, since every acknowledged byte passes through it; then its
abstract specification, durability, the inductive invariant and its proof; then
the components below it, with proofs for segments, merge and checksum; then power
loss, the bytes of segments, the text of markers and the command line; then the
proofs that compaction is complete, that no acknowledged write is lost, in a crash
or a power loss, that the engine implements its abstract specification, that
markers and command lines are read as they should be, that the memtable's count is
exact, and that the bytes of the log and of segments read back as their records.

What a next step could be: `Store` over damaged segments, so that a failing
`verify` or `compact` is an outcome of the engine too.
