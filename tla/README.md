# fsdiff in TLA+

fsdiff computes a patch between two filesystem images, block by block, and
applies it. `fsd_diff_files` maps the source and the destination, runs the
matching stages over the destination blocks, encodes the result into three
streams and puts them behind a header. `fsd_patch_apply` reads the patch and the
source and writes the destination. These modules model that path with the readers,
the filesystem index and the allocator below it, their failures and the
concurrency around them (a cancel from another thread, several threads
initialising the library, a source that is cut while it is read). TLC checks
them on small instances, TLAPS proves a good part for all.

## The system and its models

| Part | Code | Module |
|---|---|---|
| Images, blocks, deltas, `count_matches` | `stage_identity.c`, `simd_scalar.c` | `ImageBlocks` |
| Block tracker | `core/block_tracker.c` | `BlockTracker` |
| Hash table | `core/hash_table.c` | `HashTable` |
| Best offset of a block | `stages/block_search.c` | `BlockSearch` (what), `SearchLoop` (how) |
| Controller and the four stages | `stages/*.c` | `StageController` |
| ext2/3/4 structures | `fs/ext_reader.c` | `ExtReader` |
| Directory walk and index of hypotheses | `fs/ext_reader.c`, `stages/stage_fsmap.c` | `FsmapIndex` |
| Field widths, counts, offsets, diffs | `operation_encoder.c`, `patch.c` | `PatchFormat` |
| Operation encoder | `encoding/operation_encoder.c` | `OpEncoder` |
| Applying a patch | `patch.c` | `PatchApply` |
| Encoder, storage and decoder together | both | `PatchRoundTrip` |
| A diff context with runs and cancels | `diff.c` | `DiffSession` |
| Buffered writer | `io/buffered_writer.c` | `BufferedWriter`, abstract `AppendLog` |
| Source and mmap readers | `io/source_reader.c`, `io/mmap_reader.c` | `SourceReader` |
| Memory pool | `core/memory_pool.c` | `MemoryPool` |
| `fsd_init`, dispatch table, `force_scalar` | `patch.c`, `simd_dispatch.c` | `LibInit` |

How they fit: `StageController` extends the block, tracker, table and search
modules and shows that the tracker it leaves describes the destination
(`MatchSound`). `OpEncoder` starts from any tracker with that property
(`InputsAssumption`), so `PatchRoundTrip` continues where `StageController` ends.
`DiffSession` is the frame around both: what is held, what is on disk and what is
returned, with the contents abstracted to lengths. Below them, `SourceReader`
justifies that an image is a function that is read without change, or an error;
`BufferedWriter` that the encoder's streams are sequences and that the lengths in
the header are theirs; `MemoryPool` that an allocation is memory of its own, or a
failure. `FsmapIndex` extends `ExtReader` and `HashTable` and makes the hypotheses;
`StageController` takes *any* hypotheses for unmatched blocks at positions where a
block fits into the source, which `HypothesesSound` shows of those that are made.

### State and actions

- **StageController.** The controller's position (`stage`, `phase`, loop index
  `cur`, extension loop `ext`), the tracker, the hash table, the hypotheses of the
  filesystem stage, the cancel flag, the last progress value. One action handles
  one block of one stage; entering a stage looks at the cancel flag as
  `controller_cancelled` does. Failed allocations of hash entries and deltas are
  alternatives.
- **ExtReader.** Operators on a file system given as a record: superblock, inodes,
  and the blocks that have structure. `probe` is `fsd_extfs_open`, `inode_extents`
  collects the extents of a file from a tree or a block map. Loads of fields from
  bytes are left out; a block with a bad magic or too many entries is not a node.
- **FsmapIndex.** `fsd_fsmap_stage_build_index`: opening both images, the two walks
  one directory and one entry per step, the table of files, the hypotheses, the
  sorting. A path is the sequence of its names. Every allocation may fail.
- **PatchFormat / OpEncoder / PatchApply.** The patch file is a sequence of bytes
  behind a header record, and the decoder has a cursor per stream. The first byte of an
  operation has its three parts as in the code; counts, offsets and lengths are little
  endian digits. The values of one such byte are a parameter (`FieldBase`, 256 in the
  code), so that every boundary of 1, 2, 3 and 4 byte fields is reached with small
  numbers; a byte that is read as a digit counts modulo `FieldBase`, and arithmetic
  wraps as in the code. Each field is checked against the end of its stream in the
  order in which `fsd_patch_apply` reads it. The encoder takes one run per step, the
  decoder one operation, one block, or one run of a sparse block.
- **PatchRoundTrip.** Encoder, file and decoder. The file may lose its end, the header
  included; one byte of the operations or diffs may change, so that the widths and the
  places of all later fields change with it; a length or the number of blocks in the
  header may be wrong, so that the streams lie elsewhere.
- **DiffSession.** One action per acquisition and per failure of `fsd_diff_files`,
  `Cancel` at any moment, up to `MaxRuns` runs of one context. A temporary file may
  silently lose its end, as a disk that is full does when stdio writes late.
- **BufferedWriter.** The n-th byte written is the number n. One step per round of
  the loop in `fsd_writer_write`; `fwrite`, `fflush` and `fclose` may fail.
- **SourceReader.** One step per call of opening (`step`), per hit, miss and `pread`.
  The byte at offset o is the number o + 1, so that a wrong place or a zero shows;
  the page cache of a mounted device may hold other bytes than the disk. The source
  may be cut at any moment.
- **MemoryPool.** The chunks linked from the head, the current one, and what callers
  hold. Giving the current chunk another `next` cuts off what was linked behind it.
- **LibInit.** The state 0/1/2, the table written and read one field per step.
  `Cleanup` happens when no thread is inside the library, which is its contract.

### What makes it hard

Matching runs ahead of itself (the extension of a partial match), `set_delta` is
unguarded, `-1` is both a sentinel and an offset, CRCs of blocks and of paths
collide, hash entries and deltas can be missing; run lengths and offsets meet field
widths; sparse diffs span blocks; the last bytes of a file are written by `fclose`; a
cancel can come at any moment, also after the last look at the flag; the dispatch
table is global and not atomic; a read cache must not survive a failed refill;
three block sizes meet in the filesystem index; directories may form cycles.
`PROJECT.json` lists these hazards with their lines and the properties that would
catch them.

## Runs

Run one with `tlc -config <cfg> <module>`.

| Run | Module / cfg | What it shows |
|---|---|---|
| stages | `MCStageController` / `StageController` | Every match rebuilds its block, partial matches meet the threshold, relocation finds every block it has an entry for, tracker counters are exact, matches are never changed, progress grows, a cancel stops later stages, every step leaves less to do |
| fsmap | `MCFsmap` / `Fsmap` | A hypothesis joins the same bytes of files with the same path; none is missing in well-formed trees; one per block, ascending; no directory is walked twice; the collected extents are the file; descriptors lie inside the image |
| patch_runs | `MCPatchRuns` / `PatchRuns` | Encode, store, apply gives the destination for every operation type, run length and field width; a run longer than the largest count is refused, never applied as something else; streams are used up exactly; a sparse diff fits its buffer |
| patch_damage | `MCPatchDamage` / `PatchDamage` | Dense and sparse diffs of two blocks rebuild them; a cut patch is refused; damage, also such that moves later fields or streams, leaves the reader inside them; applying ends; a failed output is removed unless it is a special file |
| search | `MCSearchLoop` / `SearchLoop` | The search loop with prescreen and early exit returns what `BlockSearch` defines |
| session | `DiffSession` / `DiffSession` | Success means a whole patch, everything is released on every return, no partial patch is left and no device node is removed, a cancel before the last look is honoured |
| writer | `BufferedWriter` / `BufferedWriter` | The writer implements `AppendLog`; a loss is always reported |
| reader | `SourceReader` / `SourceReader` | A direct read that succeeds has the bytes of the source; automatic mode reads the disk; every call returns; nothing leaks |
| pool | `MemoryPool` / `MemoryPool` | No byte is handed out twice, pointers are aligned, the limit holds, a pool without a reset frees everything |
| init | `LibInit` / `LibInit` | No torn table, `force_scalar` holds for every diff that no set-up of the table overlaps, every `fsd_init` returns |

Two runs end in a violation on purpose. Each states what a comment says and shows
that the code does something else:

| Run | Property | What happens |
|---|---|---|
| patch_close | `SuccessMeansComplete` | `fclose` of the output is not looked at, a short output is reported as success |
| session_leak | `FilesClosed` | a failed writer creation leaves its FILE open |

More places where text and code differ were met on the way. They have no run:

- `PATCH_FORMAT_SPEC.md:272` promises images "without artificial limits";
  `operation_encoder.c:72` cuts the count of a run to 4 bytes, so a run of 2^32 blocks
  (16 TiB) gives a patch that `fsd_patch_apply` refuses. `RoundTrip` has this as its
  condition (`LongRun`) and shows that such a patch is never applied with success.
- `diff.h:58` cancels "an in-progress diff operation"; `diff.c:276` clears the flag only
  on the cancelled return, so a cancel after the last look cancels the next run.
- `memory_pool.h` says of `fsd_pool_destroy` that it frees all memory; after a reset, an
  allocation that does not fit the first chunk overwrites its `next`
  (`memory_pool.c:131`) and the chunks behind it are never freed. `fsd_pool_reset` has
  no caller in `src/`; `UnresetFreesAll` states what holds for the others.
- The comment of `fsd_pool_alloc` derives the alignment of its pointers from its own
  rounding; an aligned request of an odd size in between breaks it.
  `PointersAligned` has this as its condition.
- `diff.c:239-240` calls the source's trailing partial block unused, but
  `stage_fsmap.c:443` searches up to the byte size of the source (the match is sound).
- `diff.c:195` says that `fsd_init` brings the vector functions back after
  `force_scalar`, but `patch.c:652` returns at once when the state is 2
  (`AlreadyDone` in `LibInit`); `fsd_cleanup` has to come first.
- `options.h:77` forces the scalar functions for a diff and `fsdiff.h:60` calls
  `fsd_init` optional; but when another thread's `fsd_init` sets the table up during
  such a diff, nothing orders the two and the diff may get vector functions.
  `ScalarHonoured` excludes exactly these diffs (`overlapped`).

### Bounds

- Stages: blocks of 2 bytes over 3 byte values (0 and the largest play 0x00 and
  0xFF), a source of 4 blocks and one trailing byte, 2 destination blocks, a radius of
  one block, one bucket and two CRC values so that chains and collisions are common.
  The source blocks a match continues into lie outside the radius, so that relative
  search and extension happen. All 16 sets of enabled stages. The images are few; what
  the run checks is proved for all. `PrescreenBlock` is above the block size as in the
  code for small blocks; `SearchLoop` has blocks of 8 with prescreen.
- Filesystem index: 12 blocks of 4 bytes or 24 of 2 against fsdiff blocks of 4, so
  that blocks are equal, or two make one; 2 direct pointers and 2 pointers per block, so
  that all three levels are reached; 7 layouts of a file (fragments, unwritten
  extents, trees, maps with holes), 8 that are given up or empty, 6 directory trees
  with hard links, cycles, wrong types and broken entries; geometry at and beyond
  every limit, one with more groups than fit its 32 bits (`UINT32_MOD` is 16). One
  bucket, and a CRC that is the same for all paths of a length. At most one failed
  allocation and one block that is already matched.
- Patches: `PatchRuns` has field base 2, so the widths end at 2, 4, 8 and 16, and 18
  blocks in two runs: counts lie on both sides of every width, the 4-byte one included
  (runs of 15, 16, 17 and 18 blocks), and offsets at and next to each limit. Blocks of
  one byte let a COPY_ADD have a 4-byte count before its diff length is full.
  `PatchDamage` has field base 4 and blocks of 4 bytes: diffs with gaps and runs of
  every length, others to follow them, lengths of more than one varint byte; a cut at
  every place; every byte of the operations set to first bytes of four kinds with every
  count width, every diff byte to every value, every length of a stream in the header.
- Session: two runs, since what can leak from one run to another shows in the
  second; two looks at the cancel flag; streams of length 0 or 1.
- Writer: a buffer of 3, calls of 1, 2, 4 and 8 bytes (`u16`, `u32`, `u64`), 11
  bytes, two failures.
- Reader: sources of 0 and 5 bytes, alignment 2, a cache of 4, so that the source
  ends inside an alignment and needs two refills; three calls, so that one can meet
  the cache a failed one left; offsets and lengths up to `SIZE_MAX` = 15.
- Pool: words of 2, chunks of 4, sizes below, at and above both and at `SIZE_MAX`,
  alignments below and above the word, one reset. The proofs cover every value.
- Init: two threads and one cleanup; the proofs cover any number.

### Fairness

Liveness assumes weak fairness of the running call only: the calls that encode and
apply (`Termination`), the call on a reader (`CallsEnd`; every `pread` returns, and
signals interrupt it finitely often), and every thread inside `fsd_init` (`InitEnds`).
Each is a thread that is runnable until it returns. Nobody has to cancel, call, cut the
source or clean up. That the stages end needs no fairness beyond running:
`Advances` gives every step a rank that falls, and deadlock is checked.

## Proofs

Checked with `tlapm <module>`; they hold for every block size, image, threshold,
number of blocks, threads, bytes and calls allowed by the named assumptions
(`BlockSizeAssumption`, `ThresholdAssumption`, `PoolAssumption`, ... in the modules
that declare the constants).

- **StageControllerProofs** (it opens with the lemmas on blocks and the tracker):
  `TypeCorrect`, `MatchesAreSound`, `PartialsMeetThreshold`,
  `StatsAreExact`, `MatchesAreStable`. `MatchSound` is not inductive: `set_delta`
  writes without looking, so an unmatched bit on a matched block would break it.
  The invariant `IInv` therefore holds bitmap, match types and counters together
  (`StatsExact`), that entries of the hash table are source blocks (`TableOK`),
  that a block the loop has not reached is fresh (`FreshOK`), and where the loops
  are (`ControlOK`). `TrackerStep` names the four ways a step may change the
  tracker; each stage is shown to take one of them, and each of them to keep `IInv`.
- **StageProgressProofs**, on top of it: `StepsAdvance` (with `LoopsBounded`, the range
  of the loop counters, for the rank to be a natural number), `CancelStops`,
  `ProgressGrows` (what is reported plus what is unmatched is at most the total) and
  `RelocationIsComplete` (the table holds what was indexed, and a block that was
  looked up and stayed unmatched has no equal there).
- **SearchLoopProofs**: `SearchReturnsBest`, from the invariant that the best so far
  is the first best among the offsets already passed.
- **LibInitProofs**: `InitialisedOnce`, `TableIsWhole`, `ScalarStays`. The invariant
  says that a thread that sets up implies state 1, that a thread that returned
  implies state 2, which fields are already written, and that under a diff with
  `force_scalar` that is not overlapped nobody sets up and what it wrote stays scalar.
- **MemoryPoolProofs**: `NothingGivenTwice`, `LimitHolds`, `DestroyFrees`,
  `AlignmentHolds`. The invariant says that what is held in a chunk lies below its
  `used`, that the linked chunks are the live ones as long as nothing was reset, and
  that all sizes add up below the limit and the heap, so that the sum does not wrap
  unnoticed. Alignment rests on the arithmetic of multiples: `used` stays a multiple
  of the word.
- **SourceReaderProofs**: `DirectReadsAreExact`, `NothingLeaks`, `AutoModeReadsDisk`. The invariant says
  that the valid part of the cache, the filled part of a refill and the copied part
  of a request are the bytes of the source; only offsets behind the size at open
  may hold something else. For leaks it says what is held before each call of opening.
  Automatic mode adds that the mode resolved at open is the one in use, that the page
  cache of a regular file is the file, and that its mapped size is its size until it
  is cut; a device comes down to the direct reads.
- **DiffSessionProofs**: `SuccessIsComplete`, `EverythingReleased`, `OutputIsSafe`,
  `EarlyCancelHonoured`, each from an invariant that says what holds at each place of
  `fsd_diff_files`: what is held there (`HeldAt`), which lengths already agree
  (`PatchAt`), that a partial patch at a regular path is about to be removed
  (`OutputAt`), and that an early cancel is still set or the last look is past
  (`CancelAt`). Any number of runs and looks, and streams of any length.
- **BufferedWriterProofs**: `NoSilentLoss`, and `WriterImplementsLog`, the refinement of
  `AppendLog`: file and buffer together are the numbers 1 to n until an error is
  reported, and every step grows that sequence, closes it, breaks it or stutters.

Only model-checked: liveness under fairness (`Termination`, `CallsEnd`, `InitEnds`);
what recursive definitions compute, which are beyond the prover: the encoders and
sparse diffs, hence `RoundTrip` and its companions, and extent trees and block maps,
hence `FsmapIndex`.

## Not modelled

- The Windows branches of the readers and the platform layer.
- Sizes within one alignment of `SIZE_MAX` (`ReaderAssumption`): `round_up_pow2` would
  wrap. A mapped source that is cut gives zeros in its last page and kills the process
  behind it (`ReadMapped`); nothing is promised for it. A device of unknown size is
  empty to `fsd_mmap_open` and an error to `query_size`; an empty source has NULL for
  its data when mapped and a dummy byte when read directly.
- The polynomial of CRC-32 and the vector kernels: a hash, and what the scalar
  kernels compute.
- The byte layout of the header and of ext structures: fields of records. A damaged
  block size in the header, which would be another instance of the same reader.
- The match log, the read-only queries of a patch, and the command line: option
  parsing, messages and printing around single calls of the library, without state
  that outlives them.
