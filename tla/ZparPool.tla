------------------------------ MODULE ZparPool ------------------------------
(***************************************************************************)
(* The worker pool of zupt_parallel.c: one slot per worker thread, a mutex *)
(* and two condition variables (work_ready wakes the workers, work_done    *)
(* wakes the main thread).  The main thread fills a slot (zpar_submit),    *)
(* waits until its worker has processed it (zpar_wait_slot), reads the     *)
(* result without the lock and empties the slot (zpar_release_slot).       *)
(*                                                                         *)
(* A critical section is one action: nothing outside a lock/unlock pair    *)
(* reads what it writes, except through the slot hand-over that            *)
(* SlotsHandedOver states.  zcond_wait is the action that puts the thread  *)
(* in the wait set; a broadcast empties the set, and the woken thread      *)
(* tests its condition again in an action of its own.  POSIX allows        *)
(* wake-ups without a broadcast; they are actions too.                     *)
(*                                                                         *)
(* What the main thread does between these operations is not here: the     *)
(* modules ParCompress and ParExtract extend this one with the drivers in  *)
(* zupt_format.c.                                                          *)
(***************************************************************************)
EXTENDS Integers, Sequences

CONSTANTS
  Threads,       \* opts->threads: what the caller of the library asked for
  MaxThreads,    \* ZUPT_MAX_THREADS, 64 in the code
  Starts,        \* how many of the workers pthread_create may start
  NoJob          \* an empty input or output buffer

ASSUME PoolConstants ==
  /\ Threads \in Nat
  /\ MaxThreads \in Nat \ {0}
  /\ Starts \subseteq Nat

\* nthreads after the two clamps of zpar_create; nslots is the same number.
NSlots ==
  IF Threads < 1 THEN 1 ELSE IF Threads > MaxThreads THEN MaxThreads ELSE Threads

Slots == 0 .. NSlots - 1

\* zupt_error_t as far as the drivers and the workers tell values apart.
Errors == {"NOMEM", "CORRUPT", "AUTH_FAIL", "BAD_CHECKSUM"}
Results == Errors \cup {"OK"}

VARIABLES
  ctx,         \* "none" before zpar_create, "live", "freed" after zpar_destroy
  status,      \* slots[i].status
  job,         \* slots[i].input with block_seq and the other input fields
  error,       \* slots[i].error
  output,      \* slots[i].output: NoJob, or the job it was computed from
  errorFlag,   \* ctx->error_flag, "OK" when zero
  shutdown,    \* ctx->shutdown
  wpc,         \* control state of the worker of each slot
  mainAsleep   \* the main thread is in the wait set of work_done

poolVars ==
  << ctx, status, job, error, output, errorFlag, shutdown, wpc, mainAsleep >>

(***************************************************************************)
(* Control states of a worker: "unborn" (its thread was not started),      *)
(* "check" (about to take the lock and test its slot), "asleep" (in the    *)
(* wait set of work_ready), "picked" (saw READY and dropped the lock),     *)
(* "run" and "cancel" (on either side of the error_flag test), "raise"     *)
(* (block failed, error_flag not stored yet), "mark" (about to set DONE),  *)
(* "exited".                                                               *)
(***************************************************************************)
Holding == {"picked", "run", "cancel", "raise", "mark"}
WorkerStates == Holding \cup {"unborn", "check", "asleep", "exited"}

\* zcond_broadcast(&ctx->work_ready): every sleeping worker tests its slot again.
WorkersAwake == [w \in Slots |-> IF wpc[w] = "asleep" THEN "check" ELSE wpc[w]]

PoolInit ==
  /\ ctx = "none"
  /\ status = [i \in Slots |-> "EMPTY"]
  /\ job = [i \in Slots |-> NoJob]
  /\ error = [i \in Slots |-> "OK"]
  /\ output = [i \in Slots |-> NoJob]
  /\ errorFlag = "OK"
  /\ shutdown = FALSE
  /\ wpc = [w \in Slots |-> "unborn"]
  /\ mainAsleep = FALSE

-----------------------------------------------------------------------------
(* Life cycle, called by the main thread. *)

\* The creation loop breaks at the first thread that does not start, so the
\* workers that run are those of the slots below "started" (threads_running).
\* A worker that starts before the loop ends finds its slot EMPTY and sleeps,
\* so creating them in one step loses no behaviour.
zpar_create(started) ==
  /\ ctx = "none"
  /\ ctx' = "live"
  /\ wpc' = [w \in Slots |-> IF w < started THEN "check" ELSE "unborn"]
  /\ UNCHANGED << status, job, error, output, errorFlag, shutdown, mainAsleep >>

\* zpar_destroy up to the unlock: the workers are told to stop ...
zpar_destroy_signal ==
  /\ ctx = "live"
  /\ shutdown' = TRUE
  /\ wpc' = WorkersAwake
  /\ UNCHANGED << ctx, status, job, error, output, errorFlag, mainAsleep >>

\* ... and the rest of it: join every started thread, then free everything.
zpar_destroy_join ==
  /\ ctx = "live"
  /\ shutdown
  /\ \A w \in Slots : wpc[w] \in {"unborn", "exited"}
  /\ ctx' = "freed"
  /\ UNCHANGED << status, job, error, output, errorFlag, shutdown, wpc, mainAsleep >>

-----------------------------------------------------------------------------
(* Slot operations, called by the main thread.  Only zpar_destroy sets
   shutdown, and the main thread calls it after its last submit and wait, so
   the shutdown exits of the two loops are never taken and are left out. *)

\* block_seq % nslots: the one slot this block may go to.
SlotOf(seq) == seq % NSlots

\* The loop of zpar_submit_(de)compress: the slot is taken, wait for work_done.
zpar_submit_blocks(idx) ==
  /\ ~mainAsleep
  /\ status[idx] # "EMPTY"
  /\ mainAsleep' = TRUE
  /\ UNCHANGED << ctx, status, job, error, output, errorFlag, shutdown, wpc >>

zpar_submit(idx, j) ==
  /\ ~mainAsleep
  /\ status[idx] = "EMPTY"
  /\ job' = [job EXCEPT ![idx] = j]
  /\ error' = [error EXCEPT ![idx] = "OK"]
  /\ output' = [output EXCEPT ![idx] = NoJob]
  /\ status' = [status EXCEPT ![idx] = "READY"]
  /\ wpc' = WorkersAwake
  /\ UNCHANGED << ctx, errorFlag, shutdown, mainAsleep >>

\* The loop of zpar_wait_slot: not DONE yet, wait for work_done.
zpar_wait_blocks(idx) ==
  /\ ~mainAsleep
  /\ status[idx] # "DONE"
  /\ mainAsleep' = TRUE
  /\ UNCHANGED << ctx, status, job, error, output, errorFlag, shutdown, wpc >>

zpar_wait_slot(idx) ==
  /\ ~mainAsleep
  /\ status[idx] = "DONE"
  /\ UNCHANGED poolVars

zpar_release_slot(idx) ==
  /\ output' = [output EXCEPT ![idx] = NoJob]
  /\ status' = [status EXCEPT ![idx] = "EMPTY"]
  /\ mainAsleep' = FALSE
  /\ UNCHANGED << ctx, job, error, errorFlag, shutdown, wpc >>

MainWakesSpuriously ==
  /\ mainAsleep
  /\ mainAsleep' = FALSE
  /\ UNCHANGED << ctx, status, job, error, output, errorFlag, shutdown, wpc >>

-----------------------------------------------------------------------------
(* worker_entry. *)

WorkerGoes(w, from, to) ==
  /\ wpc[w] = from
  /\ wpc' = [wpc EXCEPT ![w] = to]

\* The first critical section of the loop, in its three outcomes.
WorkerSleeps(w) ==
  /\ status[w] # "READY"
  /\ ~shutdown
  /\ WorkerGoes(w, "check", "asleep")
  /\ UNCHANGED << ctx, status, job, error, output, errorFlag, shutdown, mainAsleep >>

WorkerExits(w) ==
  /\ shutdown
  /\ status[w] # "READY"
  /\ WorkerGoes(w, "check", "exited")
  /\ UNCHANGED << ctx, status, job, error, output, errorFlag, shutdown, mainAsleep >>

\* Seeded fault: a slot that is not EMPTY counts as READY.
PicksDoneSlots(w) ==
  /\ status[w] # "EMPTY"
  /\ WorkerGoes(w, "check", "picked")
  /\ UNCHANGED << ctx, status, job, error, output, errorFlag, shutdown, mainAsleep >>

WorkerPicks(w) ==
  /\ status[w] = "READY"
  /\ WorkerGoes(w, "check", "picked")
  /\ UNCHANGED << ctx, status, job, error, output, errorFlag, shutdown, mainAsleep >>

WorkerWakesSpuriously(w) ==
  /\ WorkerGoes(w, "asleep", "check")
  /\ UNCHANGED << ctx, status, job, error, output, errorFlag, shutdown, mainAsleep >>

\* The atomic load of error_flag, outside the lock.
WorkerTestsFlag(w) ==
  /\ WorkerGoes(w, "picked", IF errorFlag = "OK" THEN "run" ELSE "cancel")
  /\ UNCHANGED << ctx, status, job, error, output, errorFlag, shutdown, mainAsleep >>

\* Seeded fault: no broadcast of work_done.
SetsDoneSilently(w) ==
  /\ status' = [status EXCEPT ![w] = "DONE"]
  /\ UNCHANGED mainAsleep

SetDone(w) ==
  /\ status' = [status EXCEPT ![w] = "DONE"]
  /\ mainAsleep' = FALSE

\* Another block failed first: the slot is handed back unprocessed.
WorkerCancels(w) ==
  /\ WorkerGoes(w, "cancel", "check")
  /\ error' = [error EXCEPT ![w] = "CORRUPT"]
  /\ SetDone(w)
  /\ UNCHANGED << ctx, job, output, errorFlag, shutdown >>

\* worker_compress or worker_decompress on the slot, without the lock.
WorkerProcesses(w, result) ==
  /\ WorkerGoes(w, "run", IF result = "OK" THEN "mark" ELSE "raise")
  /\ error' = [error EXCEPT ![w] = result]
  /\ output' = [output EXCEPT ![w] = IF result = "OK" THEN job[w] ELSE NoJob]
  /\ UNCHANGED << ctx, status, job, errorFlag, shutdown, mainAsleep >>

WorkerRaises(w) ==
  /\ WorkerGoes(w, "raise", "mark")
  /\ errorFlag' = error[w]
  /\ UNCHANGED << ctx, status, job, error, output, shutdown, mainAsleep >>

WorkerMarksDone(w) ==
  /\ WorkerGoes(w, "mark", "check")
  /\ SetDone(w)
  /\ UNCHANGED << ctx, job, error, output, errorFlag, shutdown >>

\* "results" is what processing the job in the slot may return.
WorkerStep(w, results) ==
  \/ WorkerSleeps(w)
  \/ WorkerExits(w)
  \/ WorkerPicks(w)
  \/ WorkerTestsFlag(w)
  \/ WorkerCancels(w)
  \/ \E result \in results : WorkerProcesses(w, result)
  \/ WorkerRaises(w)
  \/ WorkerMarksDone(w)

SpuriousWakeup ==
  \/ MainWakesSpuriously
  \/ \E w \in Slots : WorkerWakesSpuriously(w)

-----------------------------------------------------------------------------
PoolTypeOK(Jobs) ==
  /\ ctx \in {"none", "live", "freed"}
  /\ status \in [Slots -> {"EMPTY", "READY", "DONE"}]
  /\ job \in [Slots -> Jobs \cup {NoJob}]
  /\ error \in [Slots -> Results]
  /\ output \in [Slots -> Jobs \cup {NoJob}]
  /\ errorFlag \in Results
  /\ shutdown \in BOOLEAN
  /\ wpc \in [Slots -> WorkerStates]
  /\ mainAsleep \in BOOLEAN

\* The slot protocol that makes the unlocked accesses safe.  A worker reads
\* input and writes output of its slot only while the slot is READY, so never
\* while the main thread fills it (EMPTY) or reads the result (DONE); and when
\* zpar_destroy frees the context no worker is left that could touch it.
SlotsHandedOver ==
  /\ \A w \in Slots : wpc[w] \in Holding => status[w] = "READY"
  /\ ctx # "live" => \A w \in Slots : wpc[w] \in {"unborn", "exited"}

\* What a DONE slot holds: the result of the job that was submitted in it, or
\* an error; a slot whose worker failed or was cancelled holds no output.
DoneSlotsCarryTheirJob ==
  \A i \in Slots :
    status[i] = "DONE" =>
      output[i] = IF error[i] = "OK" THEN job[i] ELSE NoJob

\* The inductive form of the two: what a slot holds on its way to DONE.
SlotInvariant ==
  /\ SlotsHandedOver
  /\ DoneSlotsCarryTheirJob
  /\ \A w \in Slots :
       /\ status[w] = "READY" /\ wpc[w] \notin {"raise", "mark"} => output[w] = NoJob
       /\ wpc[w] = "raise" => error[w] # "OK" /\ output[w] = NoJob
       /\ wpc[w] = "mark" => output[w] = IF error[w] = "OK" THEN job[w] ELSE NoJob
=============================================================================
