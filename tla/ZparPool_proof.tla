--------------------------- MODULE ZparPool_proof ---------------------------
(***************************************************************************)
(* What the operations of the worker pool preserve, whatever the main      *)
(* thread does between them.  The proofs about the drivers build on these. *)
(***************************************************************************)
EXTENDS ZparPool, TLAPS

\* There is at least one slot and never more than ZUPT_MAX_THREADS (the clamps
\* of zpar_create).
LEMMA SlotCount == NSlots \in Nat \ {0} /\ NSlots <= MaxThreads
  BY PoolConstants DEF NSlots

\* Every block has a slot: block_seq % nslots is a slot index.
LEMMA SlotOfType == ASSUME NEW n \in Nat PROVE SlotOf(n) \in Slots
  BY SlotCount DEF SlotOf, Slots

\* Two numbers that are less than n apart have different remainders.
LEMMA ModDistinct ==
  ASSUME NEW n \in Nat \ {0}, NEW a \in Nat, NEW d \in 1 .. n - 1
  PROVE  (a + d) % n # a % n
<1> DEFINE q == a \div n
           p == (a + d) \div n
<1>1. a = n * q + (a % n) /\ q \in Nat
  OBVIOUS
<1>2. a + d = n * p + ((a + d) % n) /\ p \in Nat
  OBVIOUS
<1>3. SUFFICES ASSUME (a + d) % n = a % n PROVE FALSE
  OBVIOUS
<1>4. a % n \in 0 .. n - 1
  OBVIOUS
<1> HIDE DEF p, q
<1>5. n * p - n * q = d
  BY <1>1, <1>2, <1>3, <1>4
<1>6. n * p - n * q = n * (p - q)
  BY <1>1, <1>2
<1>7. p - q >= 1 \/ p - q <= 0
  BY <1>1, <1>2
<1>8. CASE p - q >= 1
  <2>1. n * (p - q) >= n
    BY <1>1, <1>2, <1>8
  <2>2. QED
    BY <1>5, <1>6, <2>1
<1>9. CASE p - q <= 0
  <2>1. n * (p - q) <= 0
    BY <1>1, <1>2, <1>9
  <2>2. QED
    BY <1>5, <1>6, <2>1
<1>10. QED
  BY <1>7, <1>8, <1>9

\* Appending to a sequence: its type, its length and its elements.
LEMMA AppendFacts ==
  ASSUME NEW S, NEW s \in Seq(S), NEW x \in S
  PROVE  /\ Append(s, x) \in Seq(S)
         /\ Len(Append(s, x)) = Len(s) + 1
         /\ \A n \in 1 .. Len(s) : Append(s, x)[n] = s[n]
         /\ Append(s, x)[Len(s) + 1] = x
  OBVIOUS

\* zpar_create leaves the variables of the pool well typed.
LEMMA CreateTypes ==
  ASSUME NEW Jobs, PoolTypeOK(Jobs), NEW started \in Nat, zpar_create(started)
  PROVE  PoolTypeOK(Jobs)'
  BY DEF PoolTypeOK, zpar_create, WorkerStates, Holding

\* So do both halves of zpar_destroy.
LEMMA DestroyTypes ==
  ASSUME NEW Jobs, PoolTypeOK(Jobs), zpar_destroy_signal \/ zpar_destroy_join
  PROVE  PoolTypeOK(Jobs)'
  BY DEF PoolTypeOK, zpar_destroy_signal, zpar_destroy_join, WorkersAwake,
         WorkerStates, Holding

\* So do the slot operations of the main thread.
LEMMA SlotOperationTypes ==
  ASSUME NEW Jobs, PoolTypeOK(Jobs), NEW idx \in Slots, NEW j \in Jobs,
         \/ zpar_submit(idx, j) \/ zpar_submit_blocks(idx)
         \/ zpar_wait_slot(idx) \/ zpar_wait_blocks(idx)
         \/ zpar_release_slot(idx)
  PROVE  PoolTypeOK(Jobs)'
<1>1. CASE zpar_submit(idx, j)
  BY <1>1 DEF PoolTypeOK, zpar_submit, WorkersAwake, WorkerStates, Holding, Results
<1>2. CASE zpar_submit_blocks(idx)
  BY <1>2 DEF PoolTypeOK, zpar_submit_blocks
<1>3. CASE zpar_wait_slot(idx)
  BY <1>3 DEF PoolTypeOK, zpar_wait_slot, poolVars
<1>4. CASE zpar_wait_blocks(idx)
  BY <1>4 DEF PoolTypeOK, zpar_wait_blocks
<1>5. CASE zpar_release_slot(idx)
  BY <1>5 DEF PoolTypeOK, zpar_release_slot
<1>6. QED
  BY <1>1, <1>2, <1>3, <1>4, <1>5

\* So does every step of worker_entry.
LEMMA WorkerTypes ==
  ASSUME NEW Jobs, PoolTypeOK(Jobs), NEW w \in Slots, NEW results \in SUBSET Results,
         WorkerStep(w, results)
  PROVE  PoolTypeOK(Jobs)'
<1> USE DEF PoolTypeOK, WorkerGoes, WorkerStates, Holding
<1>1. CASE WorkerSleeps(w)
  BY <1>1 DEF WorkerSleeps
<1>2. CASE WorkerExits(w)
  BY <1>2 DEF WorkerExits
<1>3. CASE WorkerPicks(w)
  BY <1>3 DEF WorkerPicks
<1>4. CASE WorkerTestsFlag(w)
  BY <1>4 DEF WorkerTestsFlag
<1>5. CASE WorkerCancels(w)
  BY <1>5 DEF WorkerCancels, SetDone, Results, Errors
<1>6. ASSUME NEW result \in results, WorkerProcesses(w, result)
      PROVE  PoolTypeOK(Jobs)'
  BY <1>6 DEF WorkerProcesses
<1>7. CASE WorkerRaises(w)
  BY <1>7 DEF WorkerRaises
<1>8. CASE WorkerMarksDone(w)
  BY <1>8 DEF WorkerMarksDone, SetDone
<1>9. QED
  BY <1>1, <1>2, <1>3, <1>4, <1>5, <1>6, <1>7, <1>8 DEF WorkerStep

\* And a wake-up without a broadcast.
LEMMA SpuriousTypes ==
  ASSUME NEW Jobs, PoolTypeOK(Jobs), SpuriousWakeup
  PROVE  PoolTypeOK(Jobs)'
  BY DEF PoolTypeOK, SpuriousWakeup, MainWakesSpuriously, WorkerWakesSpuriously,
         WorkerGoes, WorkerStates, Holding

-----------------------------------------------------------------------------
(* SlotInvariant: the hand-over of the slots between the two sides. *)

LEMMA SlotsInitially == PoolInit => SlotInvariant
  BY DEF PoolInit, SlotInvariant, SlotsHandedOver, DoneSlotsCarryTheirJob, Holding

LEMMA CreateSlots ==
  ASSUME NEW Jobs, PoolTypeOK(Jobs), SlotInvariant, NEW started \in Nat,
         zpar_create(started)
  PROVE  SlotInvariant'
  BY DEF PoolTypeOK, zpar_create, SlotInvariant, SlotsHandedOver,
         DoneSlotsCarryTheirJob, Holding

LEMMA DestroySlots ==
  ASSUME NEW Jobs, PoolTypeOK(Jobs), SlotInvariant,
         zpar_destroy_signal \/ zpar_destroy_join
  PROVE  SlotInvariant'
  BY DEF PoolTypeOK, zpar_destroy_signal, zpar_destroy_join, WorkersAwake,
         SlotInvariant, SlotsHandedOver, DoneSlotsCarryTheirJob, Holding

\* Filling an EMPTY slot cannot disturb its worker, which holds READY slots only.
LEMMA SubmitSlots ==
  ASSUME NEW Jobs, PoolTypeOK(Jobs), SlotInvariant, NEW idx \in Slots, NEW j \in Jobs,
         zpar_submit(idx, j)
  PROVE  SlotInvariant'
  BY DEF PoolTypeOK, zpar_submit, WorkersAwake,
         SlotInvariant, SlotsHandedOver, DoneSlotsCarryTheirJob, Holding

\* Nor can emptying a DONE one.
LEMMA ReleaseSlots ==
  ASSUME NEW Jobs, PoolTypeOK(Jobs), SlotInvariant, NEW idx \in Slots,
         status[idx] = "DONE", zpar_release_slot(idx)
  PROVE  SlotInvariant'
  BY DEF PoolTypeOK, zpar_release_slot,
         SlotInvariant, SlotsHandedOver, DoneSlotsCarryTheirJob, Holding

\* Waiting changes no slot.
LEMMA WaitSlots ==
  ASSUME SlotInvariant, NEW idx \in Slots,
         zpar_submit_blocks(idx) \/ zpar_wait_slot(idx) \/ zpar_wait_blocks(idx)
  PROVE  SlotInvariant'
  BY DEF zpar_submit_blocks, zpar_wait_slot, zpar_wait_blocks, poolVars,
         SlotInvariant, SlotsHandedOver, DoneSlotsCarryTheirJob

LEMMA SpuriousSlots ==
  ASSUME NEW Jobs, PoolTypeOK(Jobs), SlotInvariant, SpuriousWakeup
  PROVE  SlotInvariant'
  BY DEF PoolTypeOK, SpuriousWakeup, MainWakesSpuriously, WorkerWakesSpuriously,
         WorkerGoes, SlotInvariant, SlotsHandedOver, DoneSlotsCarryTheirJob, Holding

\* A worker touches its own slot, and that only while it is READY.
LEMMA WorkerSlots ==
  ASSUME NEW Jobs, PoolTypeOK(Jobs), SlotInvariant, NEW w \in Slots,
         NEW results \in SUBSET Results, WorkerStep(w, results)
  PROVE  SlotInvariant'
<1> USE DEF PoolTypeOK, WorkerGoes, SlotInvariant, SlotsHandedOver,
            DoneSlotsCarryTheirJob, Holding
<1>1. CASE WorkerSleeps(w)
  BY <1>1 DEF WorkerSleeps
<1>2. CASE WorkerExits(w)
  BY <1>2 DEF WorkerExits
<1>3. CASE WorkerPicks(w)
  BY <1>3 DEF WorkerPicks
<1>4. CASE WorkerTestsFlag(w)
  BY <1>4 DEF WorkerTestsFlag
<1>5. CASE WorkerCancels(w)
  BY <1>5 DEF WorkerCancels, SetDone
<1>6. ASSUME NEW result \in results, WorkerProcesses(w, result)
      PROVE  SlotInvariant'
  BY <1>6 DEF WorkerProcesses
<1>7. CASE WorkerRaises(w)
  BY <1>7 DEF WorkerRaises
<1>8. CASE WorkerMarksDone(w)
  BY <1>8 DEF WorkerMarksDone, SetDone
<1>9. QED
  BY <1>1, <1>2, <1>3, <1>4, <1>5, <1>6, <1>7, <1>8 DEF WorkerStep

\* What the drivers need to know of a worker's step: it frees no slot, occupies
\* none, keeps the jobs, and finished slots stay finished with their results.
LEMMA WorkerKeepsSlots ==
  ASSUME NEW Jobs, PoolTypeOK(Jobs), SlotInvariant, NEW w \in Slots,
         NEW results \in SUBSET Results, WorkerStep(w, results)
  PROVE  /\ job' = job
         /\ ctx' = ctx
         /\ shutdown' = shutdown
         /\ \A i \in Slots : (status'[i] = "EMPTY") <=> (status[i] = "EMPTY")
         /\ \A i \in Slots : status[i] = "DONE" => status'[i] = "DONE"
<1> USE DEF PoolTypeOK, WorkerGoes, SlotInvariant, SlotsHandedOver, Holding
<1>1. CASE WorkerSleeps(w) \/ WorkerExits(w) \/ WorkerPicks(w) \/ WorkerTestsFlag(w)
  BY <1>1 DEF WorkerSleeps, WorkerExits, WorkerPicks, WorkerTestsFlag
<1>2. CASE WorkerCancels(w) \/ WorkerMarksDone(w)
  BY <1>2 DEF WorkerCancels, WorkerMarksDone, SetDone
<1>3. ASSUME NEW result \in results, WorkerProcesses(w, result)
      PROVE  job' = job /\ ctx' = ctx /\ shutdown' = shutdown /\ status' = status
  BY <1>3 DEF WorkerProcesses
<1>4. CASE WorkerRaises(w)
  BY <1>4 DEF WorkerRaises
<1>5. QED
  BY <1>1, <1>2, <1>3, <1>4 DEF WorkerStep

\* error_flag is never cleared: a worker stores its own error in it, which is not OK.
LEMMA WorkerKeepsFlag ==
  ASSUME SlotInvariant, NEW w \in Slots, NEW results, WorkerStep(w, results),
         errorFlag # "OK"
  PROVE  errorFlag' # "OK"
<1>1. CASE WorkerRaises(w)
  BY <1>1 DEF WorkerRaises, WorkerGoes, SlotInvariant
<1>2. CASE ~WorkerRaises(w)
  BY <1>2 DEF WorkerStep, WorkerSleeps, WorkerExits, WorkerPicks, WorkerTestsFlag,
     WorkerCancels, WorkerProcesses, WorkerMarksDone
<1>3. QED
  BY <1>1, <1>2

\* A worker's step concerns its own slot only.
LEMMA WorkerOwnSlot ==
  ASSUME NEW Jobs, PoolTypeOK(Jobs), NEW w \in Slots, NEW results,
         WorkerStep(w, results)
  PROVE  \A i \in Slots : i # w =>
           status'[i] = status[i] /\ wpc'[i] = wpc[i] /\ error'[i] = error[i]
<1> USE DEF PoolTypeOK, WorkerGoes
<1>1. CASE WorkerSleeps(w) \/ WorkerExits(w) \/ WorkerPicks(w) \/ WorkerTestsFlag(w)
  BY <1>1 DEF WorkerSleeps, WorkerExits, WorkerPicks, WorkerTestsFlag
<1>2. CASE WorkerCancels(w) \/ WorkerMarksDone(w)
  BY <1>2 DEF WorkerCancels, WorkerMarksDone, SetDone
<1>3. ASSUME NEW result \in results, WorkerProcesses(w, result)
      PROVE  \A i \in Slots : i # w =>
               status'[i] = status[i] /\ wpc'[i] = wpc[i] /\ error'[i] = error[i]
  BY <1>3 DEF WorkerProcesses
<1>4. CASE WorkerRaises(w)
  BY <1>4 DEF WorkerRaises
<1>5. QED
  BY <1>1, <1>2, <1>3, <1>4 DEF WorkerStep
=============================================================================
