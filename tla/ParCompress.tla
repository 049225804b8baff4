---------------------------- MODULE ParCompress -----------------------------
(***************************************************************************)
(* zupt_compress_files (zupt_format.c) with dedup off: the main thread     *)
(* reads each input file block by block, hands batches of blocks to the    *)
(* worker pool, collects the results in order and writes them as DATA      *)
(* frames of an archive under a temporary name, which becomes the archive  *)
(* only if nothing failed.  Without a pool it compresses the blocks        *)
(* itself.                                                                 *)
(*                                                                         *)
(* A block is its file and its number in that file.  Its content is left   *)
(* out, and so is the codec: worker_compress either fails or produces the  *)
(* frame of the block it was given, sealed with the block_seq it was given.*)
(***************************************************************************)
EXTENDS ZparPool

CONSTANTS
  NumFiles,      \* number of input files
  Blocks,        \* Blocks[f]: number of blocks of file f, zero for an empty file
  SeqShift,      \* 2^32 in the code: distance of two files' sequence numbers
  IoFails        \* whether reads, writes and allocations may fail

ASSUME CompressConstants ==
  /\ NumFiles \in Nat
  /\ Blocks \in [0 .. NumFiles - 1 -> Nat]
  /\ SeqShift \in Nat
  /\ \A f \in 0 .. NumFiles - 1 : Blocks[f] <= SeqShift
  /\ IoFails \in BOOLEAN

FileNumbers == 0 .. NumFiles - 1

\* (fi + 1) << 32 | block_seq, for a block_seq below 2^32.
AadSeq(f, b) == (f + 1) * SeqShift + b

Frame(f, b) == [file |-> f, blk |-> b, aad |-> AadSeq(f, b)]
Frames == [file : FileNumbers, blk : Nat, aad : Nat]

\* The two fields of zupt_index_entry_t that place a file's frames.
IndexEntries == [first : Nat, count : Nat]

VARIABLES
  mpc,           \* control state of the main thread
  fi,            \* file being compressed
  blockSeq,      \* block_seq: blocks of this file submitted so far
  pending,       \* pending_slots[0 .. npending - 1]
  pi,            \* the next of them to collect, counted from 1
  arc,           \* DATA frames in the temporary archive
  index,         \* first_block_offset (as a frame position) and block_count
  writeErr,      \* write_err
  outcome        \* "open", then "published" or "discarded"

driverVars == << mpc, fi, blockSeq, pending, pi, arc, index, writeErr, outcome >>
vars == << poolVars, driverVars >>

Init ==
  /\ PoolInit
  /\ mpc = "create"
  /\ fi = 0
  /\ blockSeq = 0
  /\ pending = << >>
  /\ pi = 1
  /\ arc = << >>
  /\ index = [f \in FileNumbers |-> [first |-> 0, count |-> 0]]
  /\ writeErr = FALSE
  /\ outcome = "open"

MainGoes(from, to) == mpc = from /\ mpc' = to

\* "return an error" or "go on", where the code tests the result of a call.
MayFail == IF IoFails THEN BOOLEAN ELSE {FALSE}

Remaining == Blocks[fi] - blockSeq

-----------------------------------------------------------------------------
\* zpar_create with the requested number of threads, if more than one.  When no
\* thread starts (or the context cannot be allocated) the pool is destroyed at
\* once and everything is compressed by the main thread.
CreatePool ==
  \E started \in (IF Threads > 1 THEN Starts ELSE {0}) :
    /\ IF started = 0
         THEN MainGoes("create", "open") /\ UNCHANGED poolVars
         ELSE MainGoes("create", "header") /\ zpar_create(started)
    /\ UNCHANGED << fi, blockSeq, pending, pi, arc, index, writeErr, outcome >>

\* Rewriting the archive header with ZUPT_FLAG_MULTITHREADED.
RewriteHeader ==
  \E fails \in MayFail :
    /\ MainGoes("header", IF fails THEN "destroy" ELSE "open")
    /\ writeErr' = (writeErr \/ fails)
    /\ UNCHANGED << poolVars, fi, blockSeq, pending, pi, arc, index, outcome >>

\* Open the next input and start its index entry; or leave the loop, after the
\* last file or when the input cannot be opened.
OpenInput ==
  /\ fi < NumFiles
  /\ \E fails \in MayFail :
       IF fails
         THEN /\ MainGoes("open", "destroy")
              /\ writeErr' = TRUE
              /\ UNCHANGED << index, blockSeq >>
         ELSE /\ MainGoes("open", IF ctx = "live" THEN "fill" ELSE "serial")
              /\ index' = [index EXCEPT ![fi] = [first |-> Len(arc), count |-> 0]]
              /\ blockSeq' = 0
              /\ UNCHANGED writeErr
  /\ UNCHANGED << poolVars, fi, pending, pi, arc, outcome >>

NoMoreInputs ==
  /\ fi = NumFiles
  /\ MainGoes("open", "destroy")
  /\ UNCHANGED << poolVars, fi, blockSeq, pending, pi, arc, index, writeErr, outcome >>

-----------------------------------------------------------------------------
(* The multi-threaded path. *)

\* Fill the batch: read a block, then submit it (SubmitBlock), until the batch
\* holds opts->threads blocks or the file ends.  A short read ends the batch.
ReadBlock ==
  /\ mpc = "fill"
  /\ Remaining > 0
  /\ Len(pending) < Threads
  /\ \E fails \in MayFail :
       /\ mpc' = IF fails THEN "collect" ELSE "submit"
       /\ writeErr' = (writeErr \/ fails)
  /\ UNCHANGED << poolVars, fi, blockSeq, pending, pi, arc, index, outcome >>

BatchIsFull ==
  /\ MainGoes("fill", "collect")
  /\ Remaining = 0 \/ Len(pending) >= Threads
  /\ UNCHANGED << poolVars, fi, blockSeq, pending, pi, arc, index, writeErr, outcome >>

NextSlot == SlotOf(AadSeq(fi, blockSeq))

SubmitWaits ==
  /\ mpc = "submit"
  /\ zpar_submit_blocks(NextSlot)
  /\ UNCHANGED driverVars

\* Seeded fault: the block is sealed with its number in the batch.
SealsBatchPosition ==
  /\ MainGoes("submit", "fill")
  /\ zpar_submit(NextSlot, Frame(fi, Len(pending)))
  /\ pending' = Append(pending, NextSlot)
  /\ blockSeq' = blockSeq + 1
  /\ UNCHANGED << fi, pi, arc, index, writeErr, outcome >>

SubmitBlock ==
  /\ MainGoes("submit", "fill")
  /\ zpar_submit(NextSlot, Frame(fi, blockSeq))
  /\ pending' = Append(pending, NextSlot)
  /\ blockSeq' = blockSeq + 1
  /\ UNCHANGED << fi, pi, arc, index, writeErr, outcome >>

\* Collect the results in the order in which the blocks were submitted.
CollectWaits ==
  /\ mpc = "collect"
  /\ pi <= Len(pending)
  /\ zpar_wait_blocks(pending[pi])
  /\ UNCHANGED driverVars

CollectBlock ==
  /\ pi <= Len(pending)
  /\ MainGoes("collect", "consume")
  /\ zpar_wait_slot(pending[pi])
  /\ UNCHANGED << fi, blockSeq, pending, pi, arc, index, writeErr, outcome >>

\* Seeded fault: a failed block is skipped without setting write_err.
SkipsFailedBlock ==
  LET slot == pending[pi] IN
  /\ MainGoes("consume", "release")
  /\ IF error[slot] # "OK"
       THEN UNCHANGED << arc, index, writeErr >>
       ELSE /\ arc' = Append(arc, output[slot])
            /\ index' = [index EXCEPT ![fi].count = @ + 1]
            /\ \E fails \in MayFail : writeErr' = (writeErr \/ fails)
  /\ UNCHANGED << poolVars, fi, blockSeq, pending, pi, outcome >>

\* Without the lock: look at slot->error and write slot->output.  A failed block
\* is skipped and the ones behind it are still written.
ConsumeBlock ==
  LET slot == pending[pi] IN
  /\ MainGoes("consume", "release")
  /\ IF error[slot] # "OK"
       THEN /\ writeErr' = TRUE
            /\ UNCHANGED << arc, index >>
       ELSE /\ arc' = Append(arc, output[slot])
            /\ index' = [index EXCEPT ![fi].count = @ + 1]
            /\ \E fails \in MayFail : writeErr' = (writeErr \/ fails)
  /\ UNCHANGED << poolVars, fi, blockSeq, pending, pi, outcome >>

ReleaseBlock ==
  /\ MainGoes("release", "collect")
  /\ zpar_release_slot(pending[pi])
  /\ pi' = pi + 1
  /\ UNCHANGED << fi, blockSeq, pending, arc, index, writeErr, outcome >>

\* Seeded fault: the last block of a batch is left in its slot.
LeavesTheLast ==
  /\ mpc = "collect"
  /\ pi >= Len(pending)
  /\ mpc' = (IF writeErr \/ Remaining = 0 THEN "close" ELSE "fill")
  /\ pending' = << >>
  /\ pi' = 1
  /\ UNCHANGED << poolVars, fi, blockSeq, arc, index, writeErr, outcome >>

BatchIsCollected ==
  /\ mpc = "collect"
  /\ pi > Len(pending)
  /\ mpc' = (IF writeErr \/ Remaining = 0 THEN "close" ELSE "fill")
  /\ pending' = << >>
  /\ pi' = 1
  /\ UNCHANGED << poolVars, fi, blockSeq, arc, index, writeErr, outcome >>

-----------------------------------------------------------------------------
(* The single-threaded path: read, compress and write one block.  A failed
   fwrite is remembered and the loop goes on; a failed read ends it, and a
   failed encryption returns, which discards the archive as well. *)
CompressSerially ==
  /\ mpc = "serial"
  /\ Remaining > 0
  /\ \/ /\ \E fails \in MayFail : writeErr' = (writeErr \/ fails)
        /\ arc' = Append(arc, Frame(fi, blockSeq))
        /\ index' = [index EXCEPT ![fi].count = @ + 1]
        /\ blockSeq' = blockSeq + 1
        /\ UNCHANGED mpc
     \/ /\ IoFails
        /\ writeErr' = TRUE
        /\ mpc' = "close"
        /\ UNCHANGED << arc, index, blockSeq >>
  /\ UNCHANGED << poolVars, fi, pending, pi, outcome >>

SerialFileEnds ==
  /\ MainGoes("serial", "close")
  /\ Remaining = 0
  /\ UNCHANGED << poolVars, fi, blockSeq, pending, pi, arc, index, writeErr, outcome >>

-----------------------------------------------------------------------------
\* After an error the loop over the files ends.  Otherwise the input's identity
\* is compared with the one it had when it was opened.
CloseInput ==
  /\ mpc = "close"
  /\ \E changed \in MayFail :
       IF writeErr \/ changed
         THEN mpc' = "destroy" /\ writeErr' = TRUE /\ UNCHANGED fi
         ELSE mpc' = "open" /\ fi' = fi + 1 /\ UNCHANGED writeErr
  /\ UNCHANGED << poolVars, blockSeq, pending, pi, arc, index, outcome >>

\* zpar_destroy, in its two parts, if there is a pool.
DestroyPool ==
  /\ IF ctx = "live"
       THEN MainGoes("destroy", "join") /\ zpar_destroy_signal
       ELSE MainGoes("destroy", "finish") /\ UNCHANGED poolVars
  /\ UNCHANGED << fi, blockSeq, pending, pi, arc, index, writeErr, outcome >>

JoinWorkers ==
  /\ MainGoes("join", "finish")
  /\ zpar_destroy_join
  /\ UNCHANGED << fi, blockSeq, pending, pi, arc, index, writeErr, outcome >>

\* Comment, index, footer and trailer, and zupt_atomic_output_finish, which
\* renames the temporary file or removes it.
FinishArchive ==
  /\ MainGoes("finish", "done")
  /\ \E fails \in MayFail :
       outcome' = IF writeErr \/ fails THEN "discarded" ELSE "published"
  /\ UNCHANGED << poolVars, fi, blockSeq, pending, pi, arc, index, writeErr >>

MainStep ==
  \/ CreatePool \/ RewriteHeader \/ OpenInput \/ NoMoreInputs
  \/ ReadBlock \/ BatchIsFull \/ SubmitWaits \/ SubmitBlock
  \/ CollectWaits \/ CollectBlock \/ ConsumeBlock \/ ReleaseBlock
  \/ BatchIsCollected \/ CompressSerially \/ SerialFileEnds
  \/ CloseInput \/ DestroyPool \/ JoinWorkers \/ FinishArchive

\* worker_compress fails only when an allocation does.
CompressResults == IF IoFails THEN {"OK", "NOMEM"} ELSE {"OK"}

Worker(w) ==
  /\ WorkerStep(w, CompressResults)
  /\ UNCHANGED driverVars

Spurious ==
  /\ SpuriousWakeup
  /\ UNCHANGED driverVars

\* The function has returned; the stutter keeps the end from being a deadlock.
Returned == mpc = "done" /\ UNCHANGED vars

Next ==
  \/ MainStep
  \/ \E w \in Slots : Worker(w)
  \/ Spurious
  \/ Returned

Spec == Init /\ [][Next]_vars

\* The scheduler runs every thread that can run.  Nobody holds the mutex for
\* longer than one critical section, so a thread that wants it gets it.
Fairness ==
  /\ WF_vars(MainStep)
  /\ \A w \in Slots : WF_vars(Worker(w))

FairSpec == Spec /\ Fairness

-----------------------------------------------------------------------------
MainStates ==
  {"create", "header", "open", "fill", "submit", "collect", "consume", "release",
   "serial", "close", "destroy", "join", "finish", "done"}

\* Types of the variables (zpar_ctx_t and the locals of zupt_compress_files).
TypeOK ==
  /\ PoolTypeOK(Frames)
  /\ mpc \in MainStates
  /\ fi \in 0 .. NumFiles
  /\ blockSeq \in Nat
  /\ pending \in Seq(Slots)
  /\ pi \in Nat \ {0}
  /\ arc \in Seq(Frames \cup {NoJob})
  /\ index \in [FileNumbers -> IndexEntries]
  /\ writeErr \in BOOLEAN
  /\ outcome \in {"open", "published", "discarded"}

\* The unlocked code of the main thread (the body of the collect loop, between
\* zpar_wait_slot and zpar_release_slot) reads a slot that is DONE; with
\* SlotsHandedOver no worker is inside it then.
MainReadsDoneSlots ==
  mpc \in {"consume", "release"} =>
    /\ pi <= Len(pending)
    /\ status[pending[pi]] = "DONE"

\* zpar_destroy never drops a block: when the workers are told to stop, every
\* slot has been collected and released, on every error path of the driver.
PoolIdleAtShutdown ==
  shutdown => \A i \in Slots : status[i] = "EMPTY"

\* Within a batch zpar_submit_compress never has to wait.  Only this thread
\* empties slots, so if it ever waited for one it would wait for itself.
SubmitFindsEmptySlot ==
  mpc = "submit" => status[NextSlot] = "EMPTY"

\* If zpar_submit_compress does wait, it is for a slot of the very batch this
\* thread is filling and has not begun to collect.
BlockedOnItself ==
  mpc = "submit" /\ status[NextSlot] # "EMPTY" =>
    \E k \in 1 .. Len(pending) : pending[k] = NextSlot

\* An archive that is published holds, at the place its index says and for every
\* input file, exactly the file's blocks, in order, each sealed with the
\* sequence number the extractor will recompute for that position.
PublishedArchiveIsComplete ==
  outcome = "published" =>
    \A f \in FileNumbers :
      /\ index[f].count = Blocks[f]
      /\ \A b \in 0 .. Blocks[f] - 1 : arc[index[f].first + b + 1] = Frame(f, b)

\* However many threads compress, zupt_compress_files writes what the serial
\* loop writes: one frame after the other, in order, until the first error.
Serial == INSTANCE SerialArchive WITH cur <- fi, failed <- writeErr
WritesLikeTheSerialLoop == Serial!Spec

\* zupt_compress_files returns, unless it waits for a slot that got no worker
\* when only some of the threads could be started (zpar_wait_slot).  It never
\* waits for a slot that it would have to empty itself.
WaitsForNobody ==
  mpc = "collect" /\ pi <= Len(pending) /\ status[pending[pi]] = "READY" /\ wpc[pending[pi]] = "unborn"
Returns == <>(mpc = "done" \/ WaitsForNobody)

-----------------------------------------------------------------------------
(* The inductive invariant behind the safety properties, in its parts. *)

\* The submitted blocks not collected yet occupy the slots that are not EMPTY,
\* one block each, and each slot holds the block that its place in the batch says.
Uncollected == pi .. Len(pending)

BatchInvariant ==
  /\ pi <= Len(pending) + 1
  /\ \A i \in Slots : status[i] # "EMPTY" => \E k \in Uncollected : pending[k] = i
  /\ \A k \in Uncollected : status[pending[k]] # "EMPTY"
  /\ \A k, l \in Uncollected : pending[k] = pending[l] => k = l
  /\ \A k \in Uncollected :
       job[pending[k]] = Frame(fi, blockSeq - Len(pending) + k - 1)
  /\ Len(pending) <= blockSeq

\* The slots of a batch are consecutive in the ring, and there are at most as many
\* as threads were asked for.
RingInvariant ==
  /\ \A k \in 1 .. Len(pending) :
       pending[k] = SlotOf(AadSeq(fi, blockSeq - Len(pending) + k - 1))
  /\ mpc = "submit" => Len(pending) < Threads

\* Where the main thread is, and what it has then.
InFile == {"fill", "submit", "collect", "consume", "release", "serial", "close"}
InBatch == {"fill", "submit", "collect", "consume", "release"}
WithPool == {"header", "join"} \cup InBatch

ControlInvariant ==
  /\ mpc = "create" => ctx = "none"
  /\ mpc \in WithPool => ctx = "live"
  /\ mpc \in {"serial", "finish", "done"} => ctx # "live"
  /\ shutdown => mpc \in {"join", "finish", "done"}
  /\ mpc \in InFile => fi < NumFiles /\ blockSeq <= Blocks[fi]
  /\ mpc \in {"submit"} => blockSeq < Blocks[fi]
  /\ mpc \notin InBatch => pending = << >>
  /\ mpc \notin {"collect", "consume", "release"} => pi = 1
  /\ MainReadsDoneSlots
  /\ mpc \in {"destroy", "join", "finish", "done"} /\ ~writeErr => fi = NumFiles
  /\ outcome # "open" => mpc = "done"
  /\ outcome = "published" => ~writeErr

\* Without an error so far, the archive holds the blocks of the files before
\* this one and those of this file that were collected.
Holds(f, count) ==
  /\ index[f].count = count
  /\ index[f].first + count <= Len(arc)
  /\ \A b \in 0 .. count - 1 : arc[index[f].first + b + 1] = Frame(f, b)

\* How many blocks of this file that is.
Collected ==
  CASE mpc = "close" -> Blocks[fi]
    [] mpc = "release" -> blockSeq - Len(pending) + pi
    [] OTHER -> blockSeq - Len(pending) + pi - 1

ArchiveInvariant ==
  ~writeErr =>
    /\ \A f \in FileNumbers : f < fi => Holds(f, Blocks[f])
    /\ \A f \in FileNumbers : f > fi => index[f].count = 0
    /\ mpc \in {"header", "open", "create"} /\ fi < NumFiles => index[fi].count = 0
    /\ mpc \in InFile =>
         /\ Holds(fi, Collected)
         /\ index[fi].first + index[fi].count = Len(arc)

IndInv ==
  /\ TypeOK
  /\ SlotInvariant
  /\ BatchInvariant
  /\ RingInvariant
  /\ ControlInvariant
  /\ ArchiveInvariant
=============================================================================
