----------------------------- MODULE ParExtract -----------------------------
(***************************************************************************)
(* The non-solid half of zupt_extract_archive (zupt_format.c), after the   *)
(* archive has been opened and its index checked: the main thread reads    *)
(* the frames of one entry after the other, hands batches of DATA frames   *)
(* to the worker pool, writes the decoded blocks in order to a temporary   *)
(* file, and gives the file its name if every block was good and the whole *)
(* has the size and content hash of the index.  References to earlier      *)
(* blocks (DEDUP_REF) are resolved by the main thread itself.              *)
(*                                                                         *)
(* A stored frame is abstracted to what reading and decoding it yields.    *)
(* One pool serves all entries, and its error_flag is never cleared.       *)
(***************************************************************************)
EXTENDS ZparPool

CONSTANTS
  NumFiles,      \* number of index entries
  Archives,      \* the archives that may be extracted: frames of each entry
  SeqShift,      \* 2^32 in the code: distance of two entries' sequence numbers
  DiskImage,     \* ZUPT_FLAG_DISK_IMAGE
  Dedup,         \* ZUPT_FLAG_DEDUP
  AuthRefs,      \* the values ZUPT_FLAG_AUTH_DEDUP_REFS may have
  FailureModes   \* whether reads, writes, renames and allocations may fail, and
                 \* an entry's size or content hash may disagree with its blocks:
                 \* FALSE, TRUE, or one or the other

FileNumbers == 0 .. NumFiles - 1

\* DATA frames that decode, or fail with the given error; references that
\* resolve or do not; frames of another type or with a broken header.
DataKinds == {"DATA", "AUTH_FAIL", "BAD_CHECKSUM"}
RefKinds == {"REF", "BAD_REF"}
Kinds == DataKinds \cup RefKinds \cup {"STRAY"}

Sound(kind) == kind \in {"DATA", "REF"}

ASSUME ExtractConstants ==
  /\ NumFiles \in Nat
  /\ SeqShift \in Nat
  /\ Archives \subseteq [FileNumbers -> Seq(Kinds)]
  /\ {DiskImage, Dedup} \cup AuthRefs \cup FailureModes \subseteq BOOLEAN

Payloads == [file : FileNumbers, blk : Nat, aad : Nat]

VARIABLES
  frames,        \* the archive: stored frames of each entry,
  authRefs,      \* and ZUPT_FLAG_AUTH_DEDUP_REFS in its header
  ioFails,       \* whether anything may fail in this extraction
  mpc,           \* control state of the main thread
  fi,            \* i: entry being extracted
  decompSeq,     \* decomp_seq: frames of this entry read so far
  pending,       \* pending_slots[0 .. npending - 1]
  pi,            \* the next of them to collect, counted from 1
  flushing,      \* the batch is collected because of a DEDUP_REF frame
  content,       \* blocks in the temporary file of each entry
  berr,          \* berr of each entry, as it was when the entry ended
  result         \* each entry: "pending", then "published" or "failed"

archive == << frames, authRefs, ioFails >>
driverVars ==
  << archive, mpc, fi, decompSeq, pending, pi, flushing, content, berr, result >>
vars == << poolVars, driverVars >>

Init ==
  /\ PoolInit
  /\ frames \in Archives
  /\ authRefs \in AuthRefs
  /\ ioFails \in FailureModes
  /\ mpc = "create"
  /\ fi = 0
  /\ decompSeq = 0
  /\ pending = << >>
  /\ pi = 1
  /\ flushing = FALSE
  /\ content = [f \in FileNumbers |-> << >>]
  /\ berr = [f \in FileNumbers |-> FALSE]
  /\ result = [f \in FileNumbers |-> "pending"]

\* Seeded fault: the block number is left out.
AadOfEntry(f, b) ==
  IF DiskImage THEN b
  ELSE IF Dedup /\ ~authRefs THEN 0
  ELSE (f + 1) * SeqShift

\* archive_data_aad_seq
AadSeq(f, b) ==
  IF DiskImage THEN b
  ELSE IF Dedup /\ ~authRefs THEN 0
  ELSE (f + 1) * SeqShift + b

MainGoes(from, to) == mpc = from /\ mpc' = to

MayFail == IF ioFails THEN BOOLEAN ELSE {FALSE}

Remaining == Len(frames[fi]) - decompSeq

NextKind == frames[fi][decompSeq + 1]

\* berr = 1
Damaged(when) == berr' = [berr EXCEPT ![fi] = @ \/ when]

\* zupt_write_verified_chunk: may fail, and then the block is not counted.
WriteChunk(blk) ==
  \E fails \in MayFail :
    /\ content' = IF fails THEN content ELSE [content EXCEPT ![fi] = Append(@, blk)]
    /\ Damaged(fails)

-----------------------------------------------------------------------------
\* zpar_create when more than one thread was asked for; without a single
\* running worker the main thread decodes everything.
CreatePool ==
  \E started \in (IF Threads > 1 THEN Starts ELSE {0}) :
    /\ MainGoes("create", "open")
    /\ IF started = 0 THEN UNCHANGED poolVars ELSE zpar_create(started)
    /\ UNCHANGED << archive, fi, decompSeq, pending, pi, flushing, content, berr, result >>

\* Next entry: its output may be refused (unsafe path, cannot be created), and
\* the workers are used only for entries of more than one block.
OpenOutput ==
  /\ mpc = "open"
  /\ fi < NumFiles
  /\ decompSeq' = 0
  /\ \E fails \in MayFail :
       IF fails
         THEN /\ result' = [result EXCEPT ![fi] = "failed"]
              /\ Damaged(TRUE)
              /\ fi' = fi + 1
              /\ UNCHANGED mpc
         ELSE /\ mpc' = IF ctx = "live" /\ Len(frames[fi]) > 1 THEN "fill" ELSE "serial"
              /\ UNCHANGED << result, berr, fi >>
  /\ UNCHANGED << poolVars, archive, pending, pi, flushing, content >>

NoMoreEntries ==
  /\ fi = NumFiles
  /\ MainGoes("open", "destroy")
  /\ UNCHANGED << poolVars, archive, fi, decompSeq, pending, pi, flushing, content, berr, result >>

-----------------------------------------------------------------------------
(* The multi-threaded path. *)

\* Seeded fault: a frame that cannot be used abandons the batch.
AbandonsBatch ==
  /\ mpc = "fill"
  /\ Remaining > 0
  /\ Len(pending) < Threads
  /\ \E fails \in MayFail :
       LET unusable == fails \/ NextKind = "STRAY"
           isRef == ~unusable /\ NextKind \in RefKinds
       IN
       /\ mpc' = IF unusable THEN "close" ELSE IF isRef THEN "collect" ELSE "submit"
       /\ flushing' = isRef
       /\ Damaged(unusable)
  /\ UNCHANGED << poolVars, archive, fi, decompSeq, pending, pi, content, result >>

\* Seeded fault: a reference is resolved before the batch ahead of it is written.
ResolvesBeforeBatch ==
  /\ mpc = "fill"
  /\ Remaining > 0
  /\ Len(pending) < Threads
  /\ \E fails \in MayFail :
       LET unusable == fails \/ NextKind = "STRAY"
           isRef == ~unusable /\ NextKind \in RefKinds
       IN
       /\ mpc' = IF unusable THEN "collect" ELSE IF isRef THEN "reference" ELSE "submit"
       /\ flushing' = FALSE
       /\ Damaged(unusable)
  /\ UNCHANGED << poolVars, archive, fi, decompSeq, pending, pi, content, result >>

\* Read the next frame of the batch.  A reference is resolved by this thread,
\* after the blocks before it; a frame that cannot be read or is of another
\* type ends the batch.
ReadFrame ==
  /\ mpc = "fill"
  /\ Remaining > 0
  /\ Len(pending) < Threads
  /\ \E fails \in MayFail :
       LET unusable == fails \/ NextKind = "STRAY"
           isRef == ~unusable /\ NextKind \in RefKinds
       IN
       /\ mpc' = IF unusable \/ isRef THEN "collect" ELSE "submit"
       /\ flushing' = isRef
       /\ Damaged(unusable)
  /\ UNCHANGED << poolVars, archive, fi, decompSeq, pending, pi, content, result >>

BatchIsFull ==
  /\ MainGoes("fill", "collect")
  /\ Remaining = 0 \/ Len(pending) >= Threads
  /\ UNCHANGED << poolVars, archive, fi, decompSeq, pending, pi, flushing, content, berr, result >>

NextSlot == SlotOf(AadSeq(fi, decompSeq))

NextPayload == [file |-> fi, blk |-> decompSeq, aad |-> AadSeq(fi, decompSeq)]

SubmitWaits ==
  /\ mpc = "submit"
  /\ zpar_submit_blocks(NextSlot)
  /\ UNCHANGED driverVars

SubmitBlock ==
  /\ MainGoes("submit", "fill")
  /\ zpar_submit(NextSlot, NextPayload)
  /\ pending' = Append(pending, NextSlot)
  /\ decompSeq' = decompSeq + 1
  /\ UNCHANGED << archive, fi, pi, flushing, content, berr, result >>

\* The input buffer cannot be enlarged for an oversized payload.
SubmitFails ==
  /\ ioFails
  /\ ~mainAsleep
  /\ status[NextSlot] = "EMPTY"
  /\ MainGoes("submit", "collect")
  /\ Damaged(TRUE)
  /\ UNCHANGED << poolVars, archive, fi, decompSeq, pending, pi, flushing, content, result >>

CollectWaits ==
  /\ mpc = "collect"
  /\ pi <= Len(pending)
  /\ zpar_wait_blocks(pending[pi])
  /\ UNCHANGED driverVars

CollectBlock ==
  /\ pi <= Len(pending)
  /\ MainGoes("collect", "consume")
  /\ zpar_wait_slot(pending[pi])
  /\ UNCHANGED << archive, fi, decompSeq, pending, pi, flushing, content, berr, result >>

\* Seeded fault: a failed block is skipped without setting berr.
SkipsFailedBlock ==
  LET slot == pending[pi] IN
  /\ MainGoes("consume", "release")
  /\ IF error[slot] # "OK"
       THEN UNCHANGED << content, berr >>
       ELSE WriteChunk(output[slot].blk)
  /\ UNCHANGED << poolVars, archive, fi, decompSeq, pending, pi, flushing, result >>

\* Without the lock: look at slot->error and write slot->output.  A failed block
\* is skipped and the ones behind it are still written.
ConsumeBlock ==
  LET slot == pending[pi] IN
  /\ MainGoes("consume", "release")
  /\ IF error[slot] # "OK"
       THEN Damaged(TRUE) /\ UNCHANGED content
       ELSE WriteChunk(output[slot].blk)
  /\ UNCHANGED << poolVars, archive, fi, decompSeq, pending, pi, flushing, result >>

ReleaseBlock ==
  /\ MainGoes("release", "collect")
  /\ zpar_release_slot(pending[pi])
  /\ pi' = pi + 1
  /\ UNCHANGED << archive, fi, decompSeq, pending, flushing, content, berr, result >>

\* Seeded fault: the flush ahead of a reference ends the entry.
FlushEndsEntry ==
  /\ mpc = "collect"
  /\ pi > Len(pending)
  /\ pending' = << >>
  /\ pi' = 1
  /\ flushing' = FALSE
  /\ mpc' = IF flushing \/ berr[fi] \/ Remaining = 0 THEN "close" ELSE "fill"
  /\ UNCHANGED << poolVars, archive, fi, decompSeq, content, berr, result >>

BatchIsCollected ==
  /\ mpc = "collect"
  /\ pi > Len(pending)
  /\ pending' = << >>
  /\ pi' = 1
  /\ flushing' = FALSE
  /\ mpc' = IF flushing /\ ~berr[fi] THEN "reference"
            ELSE IF berr[fi] \/ Remaining = 0 THEN "close" ELSE "fill"
  /\ UNCHANGED << poolVars, archive, fi, decompSeq, content, berr, result >>

\* Resolve the reference and write its block, between two batches.  After a
\* failed write the loop goes on, after a bad reference it does not.
ResolveReference ==
  /\ mpc = "reference"
  /\ \/ /\ NextKind = "REF"
        /\ WriteChunk(decompSeq)
        /\ decompSeq' = decompSeq + 1
        /\ mpc' = "fill"
     \/ /\ NextKind = "BAD_REF" \/ ioFails
        /\ Damaged(TRUE)
        /\ mpc' = "close"
        /\ UNCHANGED << content, decompSeq >>
  /\ UNCHANGED << poolVars, archive, fi, pending, pi, flushing, result >>

-----------------------------------------------------------------------------
\* The single-threaded path: read, decode and write one block.
DecodeSerially ==
  /\ mpc = "serial"
  /\ Remaining > 0
  /\ \/ /\ Sound(NextKind)
        /\ WriteChunk(decompSeq)
        /\ decompSeq' = decompSeq + 1
        /\ UNCHANGED mpc
     \/ /\ ~Sound(NextKind) \/ ioFails
        /\ Damaged(TRUE)
        /\ mpc' = "close"
        /\ UNCHANGED << content, decompSeq >>
  /\ UNCHANGED << poolVars, archive, fi, pending, pi, flushing, result >>

SerialFileEnds ==
  /\ MainGoes("serial", "close")
  /\ Remaining = 0
  /\ UNCHANGED << poolVars, archive, fi, decompSeq, pending, pi, flushing, content, berr, result >>

-----------------------------------------------------------------------------
\* Compare size and content hash with the index, then give the file its name or
\* remove it (zupt_finish_output).
CloseOutput ==
  /\ MainGoes("close", "open")
  /\ \E wrong \in MayFail :
       LET failed == berr[fi] \/ wrong \/ Len(content[fi]) # Len(frames[fi]) IN
       /\ Damaged(failed)
       /\ result' = [result EXCEPT ![fi] = IF failed THEN "failed" ELSE "published"]
  /\ fi' = fi + 1
  /\ UNCHANGED << poolVars, archive, decompSeq, pending, pi, flushing, content >>

DestroyPool ==
  /\ IF ctx = "live"
       THEN MainGoes("destroy", "join") /\ zpar_destroy_signal
       ELSE MainGoes("destroy", "done") /\ UNCHANGED poolVars
  /\ UNCHANGED << archive, fi, decompSeq, pending, pi, flushing, content, berr, result >>

JoinWorkers ==
  /\ MainGoes("join", "done")
  /\ zpar_destroy_join
  /\ UNCHANGED << archive, fi, decompSeq, pending, pi, flushing, content, berr, result >>

MainStep ==
  \/ CreatePool \/ OpenOutput \/ NoMoreEntries
  \/ ReadFrame \/ BatchIsFull \/ SubmitWaits \/ SubmitBlock \/ SubmitFails
  \/ CollectWaits \/ CollectBlock \/ ConsumeBlock \/ ReleaseBlock
  \/ BatchIsCollected \/ ResolveReference \/ DecodeSerially \/ SerialFileEnds
  \/ CloseOutput \/ DestroyPool \/ JoinWorkers

\* worker_decompress: the frame's own verdict, or an allocation fails.
DecodeResults(payload) ==
  LET kind == frames[payload.file][payload.blk + 1] IN
  {IF kind = "DATA" THEN "OK" ELSE kind} \cup (IF ioFails THEN {"NOMEM"} ELSE {})

Worker(w) ==
  /\ WorkerStep(w, IF job[w] = NoJob THEN {} ELSE DecodeResults(job[w]))
  /\ UNCHANGED driverVars

Spurious ==
  /\ SpuriousWakeup
  /\ UNCHANGED driverVars

\* The function has returned; the stutter keeps the end from being a deadlock.
Returned == mpc = "done" /\ UNCHANGED vars

Next ==
  \/ MainStep
  \/ \E w \in Slots : Worker(w)
  \/ Spurious
  \/ Returned

Spec == Init /\ [][Next]_vars

\* The scheduler runs every thread that can run.  Nobody holds the mutex for
\* longer than one critical section, so a thread that wants it gets it.
Fairness ==
  /\ WF_vars(MainStep)
  /\ \A w \in Slots : WF_vars(Worker(w))

FairSpec == Spec /\ Fairness

-----------------------------------------------------------------------------
MainStates ==
  {"create", "open", "fill", "submit", "collect", "consume", "release",
   "reference", "serial", "close", "destroy", "join", "done"}

\* Types of the variables (zpar_ctx_t and the locals of zupt_extract_archive).
TypeOK ==
  /\ PoolTypeOK(Payloads)
  /\ frames \in Archives
  /\ authRefs \in AuthRefs
  /\ ioFails \in FailureModes
  /\ mpc \in MainStates
  /\ fi \in 0 .. NumFiles
  /\ decompSeq \in Nat
  /\ pending \in Seq(Slots)
  /\ pi \in Nat \ {0}
  /\ flushing \in BOOLEAN
  /\ content \in [FileNumbers -> Seq(Nat)]
  /\ berr \in [FileNumbers -> BOOLEAN]
  /\ result \in [FileNumbers -> {"pending", "published", "failed"}]

\* zpar_destroy never drops a block: when the workers are told to stop, every
\* slot has been collected and released, on every error path of the driver.
PoolIdleAtShutdown ==
  shutdown => \A i \in Slots : status[i] = "EMPTY"

\* A file that gets its name holds all its blocks, in order, and every frame it
\* was made from was sound: nothing unverified is published, however the
\* workers interleave and wherever the references stand.
PublishedFileIsIntact ==
  \A f \in FileNumbers :
    result[f] = "published" =>
      /\ content[f] = [k \in 1 .. Len(frames[f]) |-> k - 1]
      /\ \A k \in 1 .. Len(frames[f]) : Sound(frames[f][k])

\* The code's error_flag outlives the entry whose block raised it, so a sound
\* entry behind a damaged one can fail too.  Without failing calls that is the
\* only way a sound entry is lost.
SoundFileLostOnlyAfterWorkerError ==
  \A f \in FileNumbers :
    /\ result[f] = "failed"
    /\ \A k \in 1 .. Len(frames[f]) : Sound(frames[f][k])
    => errorFlag # "OK" \/ ioFails

\* Each entry is written like the serial loop writes it.
Ordered == INSTANCE OrderedFiles WITH Entries <- FileNumbers, damaged <- berr
WritesEntriesInOrder == Ordered!Spec

\* zupt_extract_archive returns, unless it waits for a slot that got no worker
\* when only some of the threads could be started (zpar_wait_slot), or frames
\* without sequence numbers of their own have put two blocks of a batch into one
\* slot (zpar_submit_decompress).
WaitsForNobody ==
  mpc = "collect" /\ pi <= Len(pending) /\ status[pending[pi]] = "READY" /\ wpc[pending[pi]] = "unborn"
WaitsForItself ==
  mpc = "submit" /\ ~authRefs /\ \E k \in 1 .. Len(pending) : pending[k] = NextSlot
Returns == <>(mpc = "done" \/ WaitsForNobody \/ WaitsForItself)

\* zupt_parallel.h of zpar_submit_*: "Blocks if no slot available
\* (backpressure). Returns the slot index, or -1 on error."
SubmitReturns == (mpc = "submit") ~> (mpc # "submit")

\* When the blocks of an entry have sequence numbers of their own, a batch that is
\* no larger than the ring finds a slot for each of them.
SubmitFindsEmptySlot ==
  mpc = "submit" /\ (DiskImage \/ ~Dedup \/ authRefs) => status[NextSlot] = "EMPTY"

-----------------------------------------------------------------------------
(* The inductive invariant behind the safety properties, in its parts. *)

\* The stored frame that a payload was read from.
KindOf(payload) == frames[payload.file][payload.blk + 1]

\* Only DATA frames are given to the workers.
JobInvariant ==
  \A i \in Slots : job[i] # NoJob =>
    /\ job[i] \in Payloads
    /\ job[i].blk < Len(frames[job[i].file])
    /\ KindOf(job[i]) \in DataKinds

\* What a worker says of its block: it is good only if its frame is, and if it is
\* not, error_flag is set before main hears of it.
VerdictInvariant ==
  \A w \in Slots :
    /\ wpc[w] = "cancel" => errorFlag # "OK"
    /\ wpc[w] = "mark" \/ status[w] = "DONE" =>
         IF error[w] = "OK" THEN job[w] # NoJob /\ KindOf(job[w]) = "DATA" ELSE errorFlag # "OK"

\* The submitted blocks not collected yet occupy the slots that are not EMPTY,
\* one block each, and each slot holds the block that its place in the batch says.
Uncollected == pi .. Len(pending)

PayloadOf(f, b) == [file |-> f, blk |-> b, aad |-> AadSeq(f, b)]

BatchInvariant ==
  /\ pi <= Len(pending) + 1
  /\ Len(pending) <= decompSeq
  /\ \A i \in Slots : status[i] # "EMPTY" => \E k \in Uncollected : pending[k] = i
  /\ \A k \in Uncollected : status[pending[k]] # "EMPTY"
  /\ \A k, l \in Uncollected : pending[k] = pending[l] => k = l
  /\ \A k \in Uncollected :
       job[pending[k]] = PayloadOf(fi, decompSeq - Len(pending) + k - 1)

\* The slots of a batch follow from its sequence numbers, and a batch that is
\* being filled is shorter than the number of threads.
RingInvariant ==
  /\ \A k \in 1 .. Len(pending) :
       pending[k] = SlotOf(AadSeq(fi, decompSeq - Len(pending) + k - 1))
  /\ mpc = "submit" => Len(pending) < Threads

\* Where the main thread is, and what it has then.
InBatch == {"fill", "submit", "collect", "consume", "release"}
InFile == InBatch \cup {"reference", "serial", "close"}
Collecting == {"collect", "consume", "release"}

\* The main thread looks at a slot without the lock only when it is DONE.
MainReadsDoneSlots ==
  mpc \in {"consume", "release"} =>
    /\ pi <= Len(pending)
    /\ status[pending[pi]] = "DONE"

ControlInvariant ==
  /\ shutdown => mpc \in {"join", "done"}
  /\ mpc \in InFile => fi < NumFiles /\ decompSeq <= Len(frames[fi])
  /\ mpc \in {"submit", "reference"} \/ flushing => decompSeq < Len(frames[fi])
  /\ mpc = "submit" => NextKind \in DataKinds
  /\ mpc = "reference" => ~berr[fi]
  /\ flushing => mpc \in Collecting
  /\ mpc \notin InBatch => pending = << >>
  /\ mpc \notin Collecting => pi = 1
  /\ mpc = "close" /\ ~berr[fi] => decompSeq = Len(frames[fi])
  /\ MainReadsDoneSlots

\* The first blocks of an entry are in its file, in order, and were sound.
Holds(f, count) ==
  /\ content[f] = [k \in 1 .. count |-> k - 1]
  /\ \A k \in 1 .. count : Sound(frames[f][k])

\* How many blocks of this entry were collected.
Collected ==
  decompSeq - Len(pending) + pi - (IF mpc = "release" THEN 0 ELSE 1)

\* What may be held against an entry.
Excused(f) ==
  \/ errorFlag # "OK"
  \/ ioFails
  \/ \E k \in 1 .. Len(frames[f]) : ~Sound(frames[f][k])

ContentInvariant ==
  /\ \A f \in FileNumbers :
       /\ berr[f] => Excused(f)
       /\ f < fi => result[f] = IF berr[f] THEN "failed" ELSE "published"
       /\ f < fi /\ ~berr[f] => Holds(f, Len(frames[f]))
       /\ f > fi \/ (f = fi /\ mpc \notin InFile) => Holds(f, 0) /\ ~berr[f]
       /\ f >= fi => result[f] = "pending"
  /\ mpc \in InFile /\ ~berr[fi] => Holds(fi, Collected)

IndInv ==
  /\ TypeOK
  /\ SlotInvariant
  /\ JobInvariant
  /\ VerdictInvariant
  /\ BatchInvariant
  /\ RingInvariant
  /\ ControlInvariant
  /\ ContentInvariant
=============================================================================
