# libvuptsdk in TLA+

A model of libvuptsdk: its threads, its files, its archives and its codecs, checked
with TLC on small instances and, for compression, atomic output and deduplication,
proved with TLAPS for every number of threads, files, blocks, writers and crashes.
File and line numbers are those of the repository; `zupt_format.c:2403` is
`src/zupt_format.c`, line 2403.

## 1. The system

The library creates, verifies and extracts Zupt archives. An archive is a header,
DATA frames (one per block of a file, at most one block size each), optional
DEDUP_REF and comment frames, an index, a footer and an integrity trailer.

| Component | Source | State | Operations | What is hard | What makes it correct |
|---|---|---|---|---|---|
| Worker pool | `zupt_parallel.c`, `zupt_parallel.h`, `zupt_thread.h` | slots (EMPTY, READY, DONE), mutex, two condition variables, `shutdown`, `error_flag` | create, submit, wait, release, destroy; the worker loop | slots are read and written without the lock; wake-ups; shutdown; threads that do not start | a slot has one user at a time, no wake-up is lost, nobody uses a freed context |
| Compression | `zupt_compress_files` in `zupt_format.c` | file index, `block_seq`, batch of pending slots, index entries, `write_err` | open, read, submit, collect, write, close, finish | results arrive in any order; errors in the middle of a batch | the archive is the one the serial loop writes, or none |
| Extraction | `zupt_extract_archive` in `zupt_format.c` | entry index, `decomp_seq`, batch, `berr` | open output, read frame, submit, flush for a reference, collect, close | references between blocks still being decoded; one pool for all entries | a file that gets its name is intact and in order |
| Dedup table | `zupt_dedup.c` | open-addressing table of digests, capped capacity | init, lookup, insert, stats, reference frames | the table fills up; references must point backwards to DATA frames | a reference resolves to the block it stands for |
| Archive format | writers and readers of `zupt_format.c`, `zupt_sdk_stubs.c`, the framing of `zupt_crypto.c` | header, frames, index, footer, comment, trailer, keyring | write, open, test, extract, list, information | order of checks; four layouts, old formats; what binds a frame to its place | nothing unverified is used, and what was written opens |
| Entry paths | `zupt_format.c` | list of names, descriptors of the walk | collect, validate, walk, create | unreadable parts; names that collide; directories exchanged under way | every file in its place, nothing outside, nothing overwritten |
| Atomic output | `zupt_safe_fopen_output`, `zupt_finish_output` and `zupt_atomic_output_*` in `zupt_format.c` | temporary file, parent directory, published flag | create, finish | crash between write, sync, rename and directory sync | old file, complete file or no file |
| SDK calls | `zuptsdk.c` | options, password and keys, callbacks, temporary files, last error | setters, compress, extract, streams, verify, disk calls, key files, free | many early returns, results that are not checked, error mapping | what was put in comes out, secrets and temporary files do not outlive the call |
| Disk images | `zupt_disk.c` | source and target devices, private snapshot | backup, restore | the source changes; the archive changes; a device cannot be rolled back | the target is touched only after the archive was tested |
| Zupt codecs | `zupt_lz.c`, `zupt_lzh.c`, `zupt_predict.c` | none between calls | compress, decompress | boundary cases of lengths and distances; damaged blocks; no memory | decoding inverts encoding and stays inside its buffers |
| VaptVupt codec | `vv_*.c`, `vaptvupt_api.c` | window and sums of the streams | compress, decompress, chunk by chunk | tables, four lanes, blocks in five forms, filters, pieces that end anywhere | decoding inverts encoding, however the bytes are cut |
| Cryptography | `zupt_crypto.c`, primitives | keyring | derive, seal, open | which bytes are authenticated | sealed frames open only at their place |
| Memory locking, CPU detection | `zupt_mlock.c`, `zupt_cpuid.c`, `zupt_ct.c` | cached features | lock, detect | none in the ordering of events | |

Interaction: the SDK calls the engine's compress, extract and verify functions in
the caller's thread. Those own the input and output files and, with more than one
thread, a pool. The pool's workers call the codecs and the crypto framing on their
own slot and nothing else; they never touch a file. Compression and extraction
write to a temporary file that the atomic output publishes or removes. Dedup runs
in the main thread and forces compression to be serial. A disk image is an archive
of one entry, read by the same functions.

## 2. Modules

    ZparPool                 the pool
      ParCompress            pool + zupt_compress_files   ---- implements ---- SerialArchive
      ParExtract             pool + zupt_extract_archive  ---- implements ---- OrderedFiles
    AtomicOutput             temporary file and publication ---- implements ---- AtomicFile
    SdkCalls                 the public calls around the engine
    DedupTable               the table of block digests
      DedupArchive           table + serial writer + serial reader
    PathNames                names: safe, portable, colliding
      EntryPaths             collection, validation, the walk to each entry
    ArchiveFormat            the archive as a value, and its writers
      ArchiveReader          its readers
        ArchiveCalls         written, damaged, tested, extracted, listed
        DiskBackup           (with PathNames) a disk into an archive
          DiskRestore        an archive onto a disk
            DiskImage        the one after the other
    BitStreams               bits and bytes
      PrefixCodes            canonical codes
        VvHuffman            literals of VaptVupt under one code
      VvAns                  the tANS coder: tables, literals in lanes
    LzCodec                  Zupt-LZ
      VvTokens               the tokens of VaptVupt
        VvSequences          its sequences (with VvHuffman, VvAns)
          VvFrames           its frames (with BranchFilters)
            VvStreams        written and read call by call
      LzhCodec               Zupt-LZH (with PrefixCodes)
        BlockCodec           the blocks of an archive under every codec
          CodecCalls         BlockCodec + VvStreams
    MC...                                             small instances for TLC
    ZparPool_proof, ParCompress_proof, ParExtract_proof, AtomicOutput_proof,
    DedupArchive_proof, SdkCalls_proof, EntryPaths_proof, Archives_proof

The parts meet at three places. `AtomicOutput` stands behind the one step with which
`ParCompress`, `ParExtract`, `DiskBackup` and `DiskRestore` publish: its theorems say
that this step may be seen as atomic. `DedupArchive` is the serial loop that
`zupt_compress_files` takes when dedup is on. And in the archives of `ArchiveFormat` a
block is its bytes: that is what `BlocksReadBack` says of the codecs.

### ZparPool

One action is one critical section of `zupt_parallel.c`, or one stretch of unlocked
code that touches only what the slot protocol hands to its thread. That is sound as
long as the slot protocol holds, which is itself an invariant (`SlotsHandedOver`,
with the theorem `HandOver` for the main thread's side).

| TLA+ | C |
|---|---|
| `status`, `job`, `error`, `output` | the fields of `zpar_slot_t`; `job` stands for the input fields, `output` for the output fields |
| `errorFlag`, `shutdown`, `ctx` | `error_flag`, `shutdown`, the life of the context |
| `wpc[w]` | where `worker_entry` of slot `w` is; `asleep` is the wait set of `work_ready` |
| `mainAsleep` | the main thread is in the wait set of `work_done` |
| `zpar_*` | the function of that name; the `_blocks` forms are the bodies of its wait loop |
| `Worker...` | the steps of `worker_entry` |

A broadcast empties the wait set. A woken thread tests its condition again, and it
may also wake without a broadcast (`SpuriousWakeup`). `zpar_create` may start any
number of workers in `Starts`: those of the lowest slots, since its loop stops at
the first failure. The data are abstract: a result is an error or the job itself.

### ParCompress and SerialArchive

`ParCompress` adds the main thread of `zupt_compress_files` to the pool. `mpc` is
its program counter; `fi`, `blockSeq`, `pending`, `pi`, `index`, `writeErr` are its
locals, `arc` is the sequence of frames in the temporary archive. A frame is its
file, its number and the sequence number it was sealed with. Every call that can
fail may fail when `IoFails` is TRUE. The rare allocations that fail with the same
consequence as the call beside them (`pending_slots`, the cleanup of a header that
cannot be rewritten) are failures of that call.

`SerialArchive` is the promise: frames of file 0, then of file 1, and so on, an
entry that counts them, no publication after an error. `WritesLikeTheSerialLoop` is
`SerialArchive!Spec` under the mapping `cur <- fi`, `failed <- writeErr`.

### ParExtract and OrderedFiles

`ParExtract` is the non-solid half of `zupt_extract_archive`. A stored frame is
what reading and decoding it yields: `DATA`, the two errors that stand for the
errors of decoding (`AUTH_FAIL`, `BAD_CHECKSUM`), a reference that resolves or not,
and `STRAY` for a frame that cannot be read or has another type. `AadSeq` is
`archive_data_aad_seq`, with its three cases; which one applies is decided by
flags in the header, of which `authRefs` is chosen with the archive. `ioFails`, chosen
at the start, tells whether calls may fail. The comparison of size is in the
model; the comparison of the content hash is only a possible failure, so that no
property leans on the hash.

`OrderedFiles` is the promise: the blocks of an entry are written in order up to
the first bad one, and only a complete entry gets its name.

### AtomicOutput and AtomicFile

`AtomicOutput` is `zupt_safe_fopen_archive`, `zupt_safe_fopen_output` and
`zupt_finish_output` on POSIX, one action per system call, for several processes that
publish under one name. Archives replace (`renameat`), extractions do not (`linkat`,
then `unlinkat`). `dir` is the directory as processes see it; `onDisk` is the set of
directories that a crash may leave. Every change of a name adds, for each of them, the
version with the change, so any subset of the unsynced changes may survive; `fsync` of
the directory leaves one. Data are the set of writes in a file: `accepted` by the
stream, `synced` on the disk, anything between after a crash. This is the weakest file
system the calls allow. A directory that an extraction makes on its way is not synced
in its own parent (`zupt_format.c:1672`), so a crash may take it away again; that is
`parent`.

`AtomicFile` is the promise: the name shows one whole file or none, a publication
changes it in one step, a crash goes back at most to what was not yet durable.

A temporary file that is made and removed again within one failing open is left out.

### DedupTable and DedupArchive

`DedupTable` is the open-addressing table of `zupt_dedup.c`. An empty place is the
empty set. The fields of an entry that identify a block are a function of its content:
`Fingerprint`, `Digest` and `Size`, of which nothing is assumed but that all three
together tell contents apart.

`DedupArchive` writes an archive with the table and reads it back, one block per
action. Frames are numbered and an offset is such a number. `TORN` is a frame whose
payload could not be written completely: the stream's `ferror` is set from then on, but
the loop goes on and enters it in the table, as the code does. Each frame carries the
sequence number it was sealed with, each reference that of the frame it stands for;
`Opens` compares them as authentication does, and only in an encrypted archive.

### SdkCalls

One action is one stage of a call in `zuptsdk.c`: draining a callback or staging a
buffer into a temporary file, copying password and key into the options, the engine,
reading the result back, handing it out. The calls share their stages, so one variable
`at` says where the last call is; `decompress_stream` goes through those of
`extract_buffer`, as in the code. `temps` are the temporary files the call made and has
not removed, `password` tells whether its options hold one. `archives` are those the
caller has got: what is in them, the lock, and as ghosts what the caller meant to store
and whether data was lost without notice. `failing` is chosen at the start: calls whose
result is used may fail ("io"), and so may the `fclose` of a staged file ("close").

The engine is `Outcomes`: a compression publishes a whole archive or fails, as
`AtomicOutput` and `ParCompress` say; an extraction opens with the right lock only and,
when an entry fails, has published some of the others, as `ArchiveCalls` says. Names are
plain, or begin with a dot, or have a directory, since that is all `extract_buffer`
tells apart.

### PathNames and EntryPaths

Names are sequences of bytes here, because the checks are about bytes: UTF-8
(`zupt_decode_utf8_scalar`), separators, dots, capitals, the reserved names of DOS, and
the order in which `zupt_validate_archive_destinations` sorts before it compares
neighbours. `EntryPaths` collects a command line, argument by argument
(`zupt_collect_files`; an argument is a path and what lies below it), validates the
list, resolves the output directory and extracts: `zupt_safe_fopen_output` goes from
directory to directory with one descriptor, and creates what is missing. The file system
maps inodes to nodes, since a descriptor pins an inode whatever becomes of its name;
another process may exchange a directory for a link at any moment (`Exchange`).
`RealPath` resolves links that lead to paths without links, which is all the instances
have; a link that leads nowhere is a name that does not exist, as for `realpath`.

Scans of a name and walks along a path are recursive functions (`HasUnsafeText`, `Kept`,
`Lookup`, `RealPath`), so that they can be reasoned about.

### ArchiveFormat, ArchiveReader, ArchiveCalls

The archive is a value: header, frames, footer, trailer. The offset of frame i is i, so
the index can be right or wrong about it. A seal is its key, its sequence number and the
preface it binds, a checksum is what it is over; so an operator can compare what the
readers compare and nothing else. `Written` gives the archive of each layout: flat and
solid (`zupt_compress_files`, `zupt_compress_solid`), disk image, and disk image as old
releases wrote it. The readers are operators that chain the checks in the order of the
code (`a ?? b` is "the first error"): `OpenError` is `open_archive` with flags, key
derivation, footer and trailer; then `TestArchive`, `ExtractArchive`, `ListArchive`, and
`ArchiveInfo`, which verifies nothing. `ArchiveCalls` writes one archive, lets storage
damage it once (frames changed, exchanged or repeated, fields of header, index, footer
and trailer, the end cut off) and calls every reader.

### DiskBackup, DiskRestore, DiskImage

`DiskBackup` is `zupt_disk_backup`, one action per block read, while another process
writes to the source (`SourceChanges`) and any call fails. `DiskRestore` is
`zupt_disk_restore`: open, copy piece by piece into a private file, test the copy, open
the target, write block by block, close. Meanwhile the archive may be overwritten in
place, and the process may be killed. Regular targets are written to a temporary file,
devices in place. Which target is refused is `TargetRefused`. `DiskImage` is the
composition: what a restore finds is what the backup left, or an earlier archive.

### The codecs

Codecs are operators, so a round trip is an equation over inputs. Where the code decides
by a heuristic that only costs size (which match a finder of VaptVupt takes, whether a
block is coded in sequences or sections), the model takes every choice, and the equation
holds for each. Where the decision is exact (the finders and parses of Zupt-LZ and
Zupt-LZH, code lengths, table normalisation, the order of fallbacks) the model computes
it. `ByteBits` and the other constants scale the formats down; every threshold of the
code is a constant with its value in a comment.

- `LzCodec`, `LzhCodec`: match finders with heads and chains, greedy and lazy parse,
  zero runs, code lengths in run-length form, the stream, and decoders that read what a
  damaged stream says, where `Outside` is what a read beyond a buffer would return.
- `PrefixCodes`: lengths from frequencies, the two ways in which `zupt_lzh.c` and
  `vv_huffman.c` cut them to the longest code, canonical codes, decoding.
- `VvAns`: `normalize_freq`, the spread, decoding and encoding
  states; one stream, four lanes, contexts.
- `VvTokens`, `VvSequences`, `VvFrames`: tokens of both formats, sequences with their
  three tables, blocks in five forms, frames with filter and sum; `vv_decompress_flags`.
- `BranchFilters`: the x86 and arm64 filters in both directions.
- `VvStreams`: a writer, with the window that `vv_cstream_compress_chunk` keeps and
  drops, a wire that may be damaged, and a reader that gets it in pieces. A unit of the
  wire is a header, a block's head or body, or a footer: what the reader waits for, and
  a cut inside a unit is one before it. Damage changes any field of a header (window,
  filters, sum), the size and the end mark of a block, what a body holds, the sum, or
  cuts the wire. It leaves the units where they are: a change that moves them, like
  another kind of block, is not modelled.
- `BlockCodec`, `CodecCalls`: what archive writers do with a block: one codec's form if
  it is smaller, else the bytes; prediction; the read-back of `vvz_compress`; and
  failing allocations (`BlockMemories`). A damaged block of VAPTVUPT is one that was
  cut, or of another size; what is damaged inside its frame is the matter of `VvStreams`.

### Seeded faults

Definitions marked "Seeded fault" in the modules are not part of the model. Each
is a slip that code of this kind could have (a missing broadcast, a batch one block
too long, a result used without waiting), and each was checked to be caught by the
property that `PROJECT.json` names with it.

## 3. Runs

| Run | Instance | Question |
|---|---|---|
| `compress` | 3 threads of which none, some or all start; an empty file, one of 4 blocks, one of 2; everything may fail | Are slots handed over cleanly? Does compression follow the serial loop and return, is a published archive complete? |
| `compress_small_ring` | 3 threads in a ring of 2 slots; files of 2 and 4 blocks; everything may fail | What does a submission wait for when the clamp applies? |
| `extract` | 2 threads; none, one or both start; every entry of up to 3 frames of 6 kinds, and damaged entries before a sound one; sequence numbers distinct or all zero; everything may fail, or nothing | Is a published file intact and in order? When is a sound entry lost? Where does extraction hang? |
| `output_crashes` | an archive and an extraction of two writes each; every call may fail, both may be killed, one crash | Does the name show whole files only? What does a return value promise? What survives? |
| `dedup_faults` | two files of up to 3 and 1 blocks from 4 contents that collide; a table of 4 places; everything may fail | Does the table find what it was told? Is what is read back what was written? |
| `sdk_calls` | two calls, four names, two contents, two passwords, one key pair; every set of failures | Do calls clean up, and does what was put in come out? |
| `paths` | 23 command lines, 4 output directories, 2 file systems with links, one exchange | Is all that was named archived under a name that is text, and extracted to its place and nowhere else? |
| `archive` | 2 lists of files, 13 ways to write them, 7 callers, every single damage | Does what was written open? Is what test, extract and list give what was archived? |
| `disk` | 6 sources, 5 ways to back them up, 4 earlier archives, 10 targets, 3 readers; one change of the source, one of the archive, failures, a kill | Is a backup restorable? What can a target show? |
| `codecs` | blocks of up to 64 bytes in every codec, 13 frames in one call, parts or chunks, 30 runs of literals; memory that is not there; one damage | Does everything read back, whole or in pieces, and is damage contained? |
| `extract_plain_dedup` | all sequence numbers zero, fair | `SubmitReturns` is violated |
| `paths_collide` | a file, a name that sorts behind it, a file below a directory of its name | `AcceptedNamesDoNotCollide` is violated |

Bounds. Two workers are enough for every pair of a worker and the main thread and
of two workers; three show that a batch wraps around the ring. Four blocks with three
threads give a full batch and a ragged one, and the second batch reuses slots that
hold old results. `SeqShift` is 5 instead of 2^32 there: it is odd, so that, unlike in
the code with a power-of-two number of threads, the first block of the second file falls
into a different slot than that of the first. `MaxThreads` is 2 or 3 instead of 64.
In `output_crashes` one of the two writers replaces and one does not, so the name goes
from the old file over both to either; one crash suffices for what is checked, since
after a crash the directory is again one that could be found at the start. In
`dedup_faults` two contents have one fingerprint, a third the next home place, and a
fourth the hashes of the first but another size; a table of four places is full after
three entries, and two probes can be used up before that. In
`sdk_calls` the second call uses what the first made or left; no state but the archives
goes from one call to the next, so a third adds nothing.

In `paths` there is a command line for each reason to refuse one, and one for each
boundary of UTF-8; `MaxPath` is 12 instead of 4096. One exchange suffices: the walk
holds one descriptor. In `archive` the first list has blocks that repeat within a file
and across, an empty file and a short block; the second is longer than `SolidLimit`
(7 units for 4 GiB); one damage is what the integrity checks are asked to find, and
damages that would need two places to agree are sealed or summed apart. In `disk` images
have three blocks: equal, zero and short ones. In `codecs` a byte has four bits, so that
the second byte of an offset, both window sizes and a length in several bytes occur
within 60 bytes. Tables have 16 states and codes five bits, so that `Skewed`, with the
frequencies of Fibonacci, has codes that must be cut down. The wire is cut at every
unit, and a reader and a writer are used for two frames, with a reset between them. The
theorems cover all other values of the constants of the modules they are about.

Fairness. Only `ParCompress` and `ParExtract` have liveness properties. `MainStep` and
each `Worker(w)` are weakly fair: the scheduler runs a
thread that can run, and every critical section is short, so a thread that wants
the mutex gets it. Spurious wake-ups are not fair: nothing may depend on them.
`Returns` has exceptions where the code has them, each stated as a state:
`WaitsForNobody`, a READY slot whose worker never started, and in `ParExtract`
`WaitsForItself`, a batch with two blocks in one slot, only in archives without
authenticated references. Deadlock is checked in all runs but those of the codecs, which
stop when a job is done; elsewhere the end is a stuttering step.

## 4. What the runs found

The first two have runs of their own. The others are stated in the modules, and a change
of a configuration or of a definition shows them.

1. **Extraction of a plaintext dedup archive hangs with more than one thread**
   (`extract_plain_dedup`). Only encrypted archives get `ZUPT_FLAG_AUTH_DEDUP_REFS`.
   Without it every DATA frame has sequence number zero, and the sequence number also
   selects the slot: the second block of a batch waits for slot 0, which its own
   thread would have to collect. The library built from this source shows it.
2. **A list of names that cannot be extracted is accepted** (`paths_collide`):
   `zupt_validate_archive_destinations` compares neighbours in an order in which "a-b"
   is between "a" and "a/b" (`zupt_format.c:2118-2130`).
3. **A block that cannot be read back is stored**: when memory fails in `huff_build`
   (`zupt_lzh.c:209-212`), `zupt_lzh_compress` returns a small block without codes as a
   success. LZH blocks are not read back when they are made, unlike those of VaptVupt
   (`vaptvupt_api.c:72`). `BlocksReadBack` is violated in `codecs` without
   `LostItsCodes`; with it, the run shows that reading such a block is an error and
   never yields other bytes.

4. **Compression with more than 64 threads hangs.** The SDK accepts up to 256
   (`zuptsdk.h:283`), `zpar_create` clamps to 64 (`zupt_parallel.c:380`), the driver
   still fills batches of the requested size (`zupt_format.c:2458`). With
   `MaxThreads = 2` in `compress.cfg`, `Returns` is violated, and
   `compress_small_ring` shows the wait: `BlockedOnItself` says what it is for, which
   the theorem `WaitsForItself` proves. Without the clamp there is none
   (`RingIsLargeEnough`). The library built from this source shows the hang, too.
5. **A pool that starts only in part hangs** (`zupt_parallel.c:420-430, 550`): the
   drivers fall back to one thread only if no worker started. `Returns` without
   `WaitsForNobody` is violated in `compress`.
6. **`extract_buffer` does not find every file that `compress_buffer` stored**
   (`zuptsdk.c:986`). It skips names with a leading dot and takes a
   directory for a file; what was extracted stays in TMPDIR. `BufferComesBack` is
   violated in `sdk_calls` though nothing fails; `ExtractGivesBack` asks for a plain name. The library
   built from this source shows it.
7. **A full disk passes for a damaged archive** (`zuptsdk.c:1155`): the `fclose` of a staged file is not checked, and
   `WriteErrorIsNotBlamedOnArchive` is violated in `sdk_calls`. By the same omission
   `compress_buffer` and `compress_stream` can return success for an archive of truncated data; `ExtractGivesBack` excepts the
   archives marked `lost` for that reason, and those that `zsdk_pump_from_file` cut off
   when `fread` failed.
8. **A disk can be backed up into an archive no reader opens**: `disk_archive_label`
   (`zupt_disk.c:86`) keeps names that the index reader refuses as unsafe text
   (`zupt_format.c:4013`), a direction mark for instance. With
   `Sources <- MCUnsafeSources` in `disk.cfg`, `BackedUpIsRestorable` is violated.
9. **A solid archive of more than 4 GiB is written and never opened**: the readers
   refuse it (`zupt_format.c:4397`), the writer does not. `RightSecretOpens` says so
   (`TooLargeForReaders`).
10. **The count of literals before a section has two bytes** (`vv_encoder.c:1948`) in
    blocks that may have more; such a block of VaptVupt is not readable. `Sections`
    computes it so. In archives the read-back of `vvz_compress` catches it; callers of
    `vv_compress` have no such check. Likewise `vv_huffman.c:190-194` leaves all
    codes empty when memory fails; `FramesReadBack` asks for enough memory.

11. **The sum of a VaptVupt frame is not that of its content**
    (`vv_decoder.c:839-852, 914-922, 1156`), as `vaptvupt.h:143` says it is. It is that of
    the bytes before the branch filter is undone, and no check covers the header's
    filter bits: with the x86 flag cleared, or exchanged for the arm64 one, the reader
    reports the end of a whole frame and gives bytes that were not compressed.
    `SumIsOfContent` is violated in `codecs`. `SumFindsDamage` says what the sum does cover: the
    bytes that were summed are decoded, and the filter is undone that the header names.
    Callers of `vv_compress` with a filter are exposed; archives are not, since
    the checksum of their blocks is taken of the plain bytes.

Beside these, `SoundFileLostOnlyAfterWorkerError` states a limit of the code: the
pool's `error_flag` is never cleared, so a damaged entry makes later entries of more
than one block fail in a multi-threaded extraction, though they are sound and the
serial extraction would give them. No document promises otherwise. And disk archives of
old releases hold no hash of their content: their blocks can be exchanged unnoticed, and
`OnlyArchivedIsExtracted` and `ImageIsOfOneArchive` except them.

## 5. Proofs

Each proof rests on the named assumptions about the constants alone: numbers are
natural numbers, the clamp is positive, a file has no more than `SeqShift` blocks; the
writers' names differ; fingerprint, digest and size together tell contents apart; what
a caller passes to the SDK has the shape its functions take; a command line is names
and kinds, a file system before extraction is a tree of inodes with a root; what lies
where a disk is backed up to or restored from is nothing or an archive, though not a
solid one of a disk, which no writer makes, and a restore has no quota. Two theorems, with
their invariants, have a hypothesis beside them. `BackupRestores` is about names that
readers accept (`LabelsAreAccepted`), since finding 8 shows that it is false of others.
`ImageOfOneArchive` is about archives as this program writes them, a disk's with the
frames and the hash of one image (`ArchivesAreWritten`): of two forged ones, whoever
forges them can choose what a mixture shows. `MCHypotheses` has TLC confirm both in the
run `disk`.

| Theorem | Statement |
|---|---|
| `ParCompress_proof!Invariance` | `Spec => []IndInv` |
| `TypeCorrect` | `Spec => []TypeOK` |
| `HandOver` | `Spec => [](SlotsHandedOver /\ MainReadsDoneSlots)` |
| `IdleAtShutdown` | `Spec => []PoolIdleAtShutdown` |
| `Completeness` | `Spec => []PublishedArchiveIsComplete` |
| `WaitsForItself` | `Spec => []BlockedOnItself` |
| `RingIsLargeEnough` | `Threads <= MaxThreads => (Spec => []SubmitFindsEmptySlot)` |
| `Refinement` | `Spec => WritesLikeTheSerialLoop` |
| `AtomicOutput_proof!OutputInvariance` | `Spec => []IndInv` |
| `OutputTypeCorrect` | `Spec => []TypeOK` |
| `WholeFilesOnly` | `Spec => []ShownIsComplete` |
| `OutputRefinement` | `Spec => PublishesAtomically` |
| `OutcomeInvariance` | `Spec => []OutcomeInvariant` |
| `ReturnIsTrue` | `Spec => []ReturnTellsTheOutcome` |
| `NoTemporaryLeft` | `Spec => []TemporaryIsGone` |
| `PublicationSurvives` | `Spec => []SyncedPublicationSurvives` |
| `DedupArchive_proof!DedupInvariance` | `Spec => []IndInv` |
| `EntriesAreReachable` | `Spec => []ChainsHaveNoHoles` |
| `ReferencesAreSound` | `Spec => []ReferencesPointBack` |
| `DedupIsLossless` | `Spec => []ExtractGivesInput` |
| `StoredOnce` | `Spec => []NothingKnownIsStoredTwice` |
| `ParExtract_proof!Invariance` | `Spec => []IndInv` |
| `TypeCorrect` | `Spec => []TypeOK` |
| `HandOver` | `Spec => [](SlotsHandedOver /\ MainReadsDoneSlots)` |
| `IdleAtShutdown` | `Spec => []PoolIdleAtShutdown` |
| `Intact` | `Spec => []PublishedFileIsIntact` |
| `LossIsExcused` | `Spec => []SoundFileLostOnlyAfterWorkerError` |
| `RingIsLargeEnough` | `Threads <= MaxThreads => (Spec => []SubmitFindsEmptySlot)` |
| `Refinement` | `Spec => WritesEntriesInOrder` |
| `SdkCalls_proof!SdkInvariance` | `Spec => []SdkInvariant` |
| `SdkTypeCorrect` | `Spec => []TypeOK` |
| `EveryCallCleansUp` | `Spec => []CallsCleanUp` |
| `StoredComesBack` | `Spec => []ExtractGivesBack` |
| `EntryPaths_proof!EntryPathsTypeCorrect` | `Spec => []EntryPathsTypeOK` |
| `ExtractedNamesAreText` | `Spec => []NamesAreText` |
| `TheWalkStaysBelowItsRoot` | `Spec => []WalkStaysBelowItsRoot` |
| `ExtractionOnlyAdds` | `Spec => OnlyAdds` |
| `EveryFileIsListed` | `Spec => []NothingIsLeftOut` |
| `CollectionIsWhole` | `Spec => []CollectionIsComplete` |
| `EveryEntryPlaced` | `Spec => []EveryEntryIsInItsPlace` |
| `Archives_proof!DiskInvariance` | `Spec => []RestoreInvariant` |
| `DiskTypeCorrect` | `Spec => []TypeOK` |
| `TargetIsTheImage` | `Spec => []TargetShowsTheImage` |
| `RestoreIsHonest` | `Spec => []RestoreSaysWhatItDid` |
| `BackupInvariance` | `LabelsAreAccepted => (Spec => []DiskInvariant)` |
| `BackupRestores` | `LabelsAreAccepted => (Spec => []BackedUpIsRestorable)` |
| `SnapshotInvariance` | `ArchivesAreWritten => (Spec => [](SnapshotInvariant /\ ImageIsOfOneArchive))` |
| `ImageOfOneArchive` | `ArchivesAreWritten => (Spec => []ImageIsOfOneArchive)` |
| `CallsInvariance` | `CallsSpec => []CallsInvariant` |
| `ArchiveIsHonest` | `CallsSpec => []OnlyArchivedIsExtracted` |
| `TestIsHonest` | `CallsSpec => []TestAgreesWithExtract` |
| `ListIsHonest` | `CallsSpec => []ListingIsArchived` |
| `SecretOpens` | `CallsSpec => []RightSecretOpens` |
| `DamageStaysLocal` | `CallsSpec => []DamageIsLocal` |

None of the properties is inductive. Properties that have a theorem and are implied by
one that a run checks (types, inductive invariants, `SubmitFindsEmptySlot`, `ReferencesPointBack`,
`ShownIsComplete`) are not checked again by the runs.

**Compression.** That a published archive is complete rests on what each DONE slot
holds when it is collected, which rests on which block was put there, which rests on
the batch being consecutive. `IndInv` has one part for each:

- `SlotInvariant` (in `ZparPool`): a worker between picking and marking has a READY
  slot, and a slot on its way to DONE holds its job or an error. `ZparPool_proof`
  proves it step by step for any driver.
- `BatchInvariant`: the slots that are not EMPTY are exactly those of the blocks that
  were submitted and not collected, one each, and each holds the block that its place
  in `pending` says.
- `RingInvariant`: the slots of a batch are consecutive, and a batch being filled is
  shorter than the number of threads. `RingIsLargeEnough` follows with the fact
  (`ModDistinct`) that numbers less than n apart have different remainders modulo n.
- `ControlInvariant`: what holds at each point of the main thread.
- `ArchiveInvariant`: without an error so far, the archive holds the files before
  this one completely, and of this one the blocks collected.

Each part is preserved by every step given all of `IndInv` before the step
(`StepTypes`, `StepSlots`, `StepBatch`, `StepRing`, `StepControl`, `StepArchive`).

**Atomic output.** A whole file under the name rests on how `zupt_finish_output` chains
its calls. `DataInvariant` says what is accepted or synced before each of them: without
a stream error the writes tried are accepted; without a failure those flushed are all;
then they are synced; and every directory a crash may leave shows a synced file or
none of the writers'. `DirectoryInvariant` is needed for crashes that take away a
directory just made. The refinement uses both: a step of `PublishName` is a step of
`AtomicFile` that publishes, a crash is one that goes back, all others stutter.

**Deduplication.** That an extracted entry is the input rests on references that point
back to a frame of the same content, which rests on a table whose entries are accounts
of such frames (`TablePointsToData`), which rests on what a lookup may return
(`ChainsHaveNoHoles` beside it says that it returns all it can). A reference to a torn
frame is excluded since a torn frame sets the stream's error first. `WriterInv` says
that the frames of each entry are consecutive from its offset, and that a published
archive has all of them; `ReaderInv` that what was restored is the input so far.
`BlockOpens` is where they meet: every block of a published archive opens at its place.

That nothing known is stored twice rests on a property of open addressing that is
proved for every table: once a lookup of a content has an answer (`Settled`: a free place
or the content itself ends its probes, or the probes are used up), no insertion makes
it miss what it would have found (`SettledStays`).

**Parallel extraction.** `BatchInvariant`, `RingInvariant` and `ControlInvariant` are
those of compression, with sequence numbers that come from the frames. New are
`JobInvariant`, that workers get DATA frames only; `VerdictInvariant`, that a slot is
good only if its frame is, and that `error_flag` is set before main hears that it is not;
and `ContentInvariant`, that an entry without an error holds the sound blocks collected
so far, and that an error of an entry has one of three causes: `error_flag`, a failed
write, a frame that is not sound. `Intact` and `LossIsExcused` are its last
state. The invariant does not ask that sequence numbers are distinct: only
`RingIsLargeEnough` does, since archives without authenticated references may
have two blocks in one slot, and then wait.

**What a writer returns.** `OutcomeInvariant` follows one writer through publication: it
takes the name once and behind its last failure but one; when `unlink` fails, the name
was linked and not renamed, so a temporary file is left only where failure is
reported; and from publication until its directory is synced the name shows this
writer's file or a later one, which is what every crash after the sync finds.

**SDK calls.** `TempsInvariant` says which temporary files can exist at each step of a
call, `DataInvariant` that an archive of which nothing was lost holds what it was given,
from the call that made it to the one that reads it. Both are needed of every operation,
so the proof has a lemma for each step and each of the three parts.

**Paths.** Names and ways are sequences of any length, and what is said of them are
inductions that the library's theorems cannot give, because these take an operator as a
parameter. They are proved instead with a least counterexample: a set of positions that
has a member has a smallest one (`ScanExists`, `IterationExists` make the recursive
functions defined by such a scan). `SafeIsText` compares the decoder of
`zupt_decode_utf8_scalar` with what text is, one length of scalar at a time
(`ScalarFacts`). `WalkInvariant` has what `WalkStaysBelowItsRoot` rests on: an inode that
was there before is found only where it was found then, and the components still to
walk end the way. `CollectedSoFar` says of each argument, while it is collected, that the
files behind it are listed as far as it was read. That the name listed is the one that was
checked is an argument over its length: a normalized name is the name with its doubled
separators removed, and one removal leaves what is left text, with the same components and
the same normal form (`OneSlashLessIsSafe`, `NormalizeSkips`); so the normalized name is
safe and normalization leaves it alone (`NormalizedIsSafe`).

That each entry ends in its place needs all of this and how a file system grows
(`Extends`): where a path leads it leads for good (`LookupGrows`), and what a path is made
real as, through its links, it stays (`RealPathGrows`), so a later entry does not move an
earlier one. The output directory need not exist when the first walk begins; then what is
walked is the existing beginning made real and the rest as it stands (`Rooted`), and once
the walk has made all of it, this is what `realpath` gives for the whole (`RootedIsReal`).
`EntriesPlaced` says of the entries before the current one that they are in their places,
and of the walk that it came from the root the way it was to go; a listed name has no empty
components, so what is walked for it are the components of the name (`PartsAre`).

**Disk images.** While a target is written, the blocks written are the first ones of
those that the test read from the same private copy (`WriteInvariant`), so a device shows
a beginning of the image that the index describes; the control of `zupt_disk_restore`
says that nothing is written before the test is passed (`ControlInvariant`). What
flattening makes of such a beginning is a lemma of its own, proved by induction over
numbers as a least counterexample. For the other direction, `BackupInvariant`: the frames
written so far are data of the blocks read so far, or references back to data of an equal
block (`HoldsImage`), the table points to such data (`TableInvariant`), and all blocks but
the last are whole. The reader's side is a lemma for each of its steps on such an archive:
it opens (`BackupOpens`), a data frame and a reference give their block (`DataReads`,
`BackupBlock`), the chained hash is that of the blocks (`BackupEntry`), so test and
extraction give the image (`RoundTrip`). References in encrypted archives are sealed with
the sequence number of their target, and the proof needs that the table remembers it.

For the one archive behind an image, `SnapshotInvariant`: each frame of the private copy is
one of the archive that was opened or of the one written over it, and the copy ends as one
of them does. The trailer binds the header, which is that of the first, to the footer
(`BoundTwice`), so both have the same flags; the last frame, which is the index, says whose
image is expected, and only the key it was sealed with opens it (`OpenerHasTheSecret`). The
test then compares the hash chained over the blocks with that of the index, so the blocks
are those of its image, whichever archive their frames come from (`TestedIsTheImage`).

**Archives.** `CallsInvariant` says that the file in storage is the written one with at
most one damage (`OneDamage`), and that what the calls returned is what they say of it. All
else is about such a file. Its frames are written ones, or that of their place damaged; a
damaged frame still has its data or its checksum, and its seal or none (`HarmedFrame`). Of
header, footer and trailer one at most differs, and the trailer binds the others, so an
archive that opens has the header and the footer that were written (`OpensWithItsEnds`).
The footer says where the index is; only one place has a frame of that kind, so what opens
there as the index decodes to the written index (`ReadsBack`, `OpensWithItsIndex`), with the
key it was sealed with (`OpenedWithTheSecret`); the comment likewise. From there the hashes
in the index decide: blocks that are chained to the hash of an entry are those of its
file, wherever their frames come from (`ReadEntryHolds`), and in a solid archive the stream
holds it there (`SolidEntryHolds`). Test and extraction differ only in the hash of empty
files in solid archives, which is the empty one (`TestAgreesOnTheEntries`).

For the other direction the proof says where each frame lies in `Written`: the blocks of a
file start after `BlocksBefore` it (`EveryPieceLies`, `EverythingLies`). An archive that
is `Written` but for some blocks of files (`IsAround`) opens with its secret to the entries
written (`OwnerOpens`), since nothing that opening looks at is among those blocks. A block
outside them is read at its place, or through a reference to the first block equal to it
(`BlockReads`); in encrypted archives the number that the reader expects there is the one
it was sealed with (`TargetsNumber`). So a file reads back when neither its blocks nor those
it refers to are harmed (`EntryReads`), which is `DamageIsLocal`, and with no harm at all
every file does. In a solid archive the blocks are those of the files in a row, and the
sizes in the index add up to the length of that stream (`EntriesAddUp`, `StreamReads`,
`SolidEntryReads`). A wrong secret is refused by its form or by the trailer, before an
entry is read (`WrongSecretIsRefused`). `CallsInvariant` has one part for this direction
only: outside the places of `damaged` the file in storage is `Written` (`SameBut`).

The assumption `CallsAssumption` is about shapes: files are paths with contents, the codec
is one of the format, a comment fits its buffer, a secret has a form and a quota is a number.

Invariants are checked by TLC on the instances of the runs before they are proved, except
`InStorage`, whose archives have fields of kinds that TLC does not compare.

Only model-checked: liveness (`Returns`), since TLAPS does not prove properties under
fairness; and the codecs, whose round trips are inductions over data and use RECURSIVE
operators, both out of its reach.

## 6. Not modelled, and the plan

Not modelled:

- The arithmetic of the cryptographic primitives (`zupt_aes256.c`, `zupt_sha256*.c`,
  `zupt_keccak.c`, `zupt_x25519.c`, `zupt_mlkem.c`, `zupt_xxh.c`, `vv_xxh64.c`) and of
  key derivation: words of 32 and 64 bits and large polynomials, out of TLC's reach and
  covered by known-answer tests. The model has what they are used for: seals and sums.
- SIMD variants of the decoders, memory locking, CPU detection, constant-time helpers:
  they have no order of events of their own, and are meant to give the same results.
- Heuristics that cost only size: the match finders of VaptVupt, the choice of its
  window and of its block forms. Every choice is a behaviour of the model.
- Fixed offsets, varints and little-endian fields of header, index and footer: fields
  are present, absent or damaged.
- The Windows branches. Its condition variables have the same interface; its file
  names, links and renames do not.
- Key files, contexts, options and archive information of the SDK; the variants of the
  dedup functions without a digest; progress and messages.
- `zupt_filetype.c`, which nothing calls. Bindings, examples, packaging and benchmarks
  are clients; `formal/` and `jasmin/` are separate proofs and kernels.

Planned, in this order:

1. Key files and handles of the SDK: which files a handle needs and which it leaves.
2. `DedupTable` behind `DiskBackup`, in place of its function of all blocks seen.
