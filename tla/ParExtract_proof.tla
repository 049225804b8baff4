-------------------------- MODULE ParExtract_proof --------------------------
(***************************************************************************)
(* The safety properties of ParExtract for every number of threads and     *)
(* entries, every archive and every set of failures.  IndInv is proved     *)
(* part by part: each part is preserved by every step, given all of IndInv *)
(* before the step.                                                        *)
(***************************************************************************)
EXTENDS ParExtract, ZparPool_proof

\* Sequence numbers are natural numbers, so every block has a slot.
LEMMA AadSeqType ==
  ASSUME NEW f \in Nat, NEW b \in Nat
  PROVE  AadSeq(f, b) \in Nat
<1>1. (f + 1) * SeqShift \in Nat
  BY ExtractConstants
<1>2. QED
  BY <1>1 DEF AadSeq

LEMMA NextSlotType ==
  ASSUME fi \in Nat, decompSeq \in Nat
  PROVE  NextSlot \in Slots
  BY AadSeqType, SlotOfType DEF NextSlot

LEMMA NextPayloadType ==
  ASSUME fi \in FileNumbers, decompSeq \in Nat
  PROVE  NextPayload \in Payloads
  BY AadSeqType, ExtractConstants DEF NextPayload, Payloads, FileNumbers

\* The numbers of threads that may start are numbers.
LEMMA StartsType == \A started \in (IF Threads > 1 THEN Starts ELSE {0}) : started \in Nat
  BY PoolConstants

LEMMA MayFailType == MayFail \subseteq BOOLEAN
  BY DEF MayFail

\* The stored frames of an entry are a sequence.
LEMMA FramesType ==
  ASSUME frames \in Archives, NEW f \in FileNumbers
  PROVE  frames[f] \in Seq(Kinds) /\ Len(frames[f]) \in Nat
  BY ExtractConstants

\* While an entry is worked on, fi is its number.
LEMMA InFileEntry ==
  ASSUME TypeOK, ControlInvariant, mpc \in InFile
  PROVE  fi \in FileNumbers
  BY ExtractConstants DEF TypeOK, ControlInvariant, FileNumbers

\* The archive does not change while it is extracted.
LEMMA ArchiveKept == [Next]_vars => UNCHANGED << frames, authRefs, ioFails >>
<1> SUFFICES ASSUME [Next]_vars PROVE UNCHANGED archive
  BY DEF archive
<1>1. CASE MainStep
  BY <1>1 DEF MainStep, CreatePool, OpenOutput, NoMoreEntries, ReadFrame, BatchIsFull,
     SubmitWaits, SubmitBlock, SubmitFails, CollectWaits, CollectBlock, ConsumeBlock,
     ReleaseBlock, BatchIsCollected, ResolveReference, DecodeSerially, SerialFileEnds,
     CloseOutput, DestroyPool, JoinWorkers, driverVars
<1>2. CASE ~MainStep
  BY <1>2 DEF Next, Worker, Spurious, Returned, driverVars, vars
<1>3. QED
  BY <1>1, <1>2

\* A worker returns an error or OK.
LEMMA ResultsType ==
  ASSUME JobInvariant, NEW w \in Slots
  PROVE  (IF job[w] = NoJob THEN {} ELSE DecodeResults(job[w])) \in SUBSET Results
  BY DEF JobInvariant, DecodeResults, KindOf, DataKinds, Results, Errors

\* The steps of the workers that the driver's invariants are about.
LEMMA WorkerIsStep ==
  ASSUME JobInvariant, NEW w \in Slots, Worker(w)
  PROVE  /\ \E results \in SUBSET Results : WorkerStep(w, results)
         /\ UNCHANGED driverVars
  BY ResultsType DEF Worker

-----------------------------------------------------------------------------
(* TypeOK *)

LEMMA TypesInitially == Init => TypeOK
<1> SUFFICES ASSUME Init PROVE TypeOK
  OBVIOUS
<1>1. PoolTypeOK(Payloads)
  BY DEF Init, PoolInit, PoolTypeOK, Results, WorkerStates
<1>2. mpc \in MainStates /\ pending \in Seq(Slots)
  BY DEF Init, MainStates
<1>3. fi \in 0 .. NumFiles /\ decompSeq \in Nat /\ pi \in Nat \ {0}
  BY ExtractConstants DEF Init
<1>6. flushing \in BOOLEAN
  BY DEF Init
<1>4. /\ content \in [FileNumbers -> Seq(Nat)]
      /\ berr \in [FileNumbers -> BOOLEAN]
      /\ result \in [FileNumbers -> {"pending", "published", "failed"}]
  BY DEF Init
<1>5. frames \in Archives /\ authRefs \in AuthRefs /\ ioFails \in FailureModes
  BY DEF Init
<1>7. QED
  BY <1>1, <1>2, <1>3, <1>4, <1>5, <1>6 DEF TypeOK

\* A write leaves the files and the errors well typed, and so does an error alone.
LEMMA WriteTypes ==
  ASSUME TypeOK, NEW blk \in Nat,
         \/ WriteChunk(blk)
         \/ \E when \in BOOLEAN : Damaged(when) /\ UNCHANGED content
  PROVE  content' \in [FileNumbers -> Seq(Nat)] /\ berr' \in [FileNumbers -> BOOLEAN]
<1>1. CASE WriteChunk(blk)
  <2>1. content' \in [FileNumbers -> Seq(Nat)]
    <3>1. \/ content' = content
          \/ content' = [content EXCEPT ![fi] = Append(content[fi], blk)]
      BY <1>1 DEF WriteChunk
    <3>2. fi \in FileNumbers => Append(content[fi], blk) \in Seq(Nat)
      BY AppendFacts DEF TypeOK
    <3>3. QED
      BY <3>1, <3>2 DEF TypeOK
  <2>2. QED
    BY <1>1, <2>1, MayFailType DEF WriteChunk, Damaged, TypeOK
<1>2. CASE \E when \in BOOLEAN : Damaged(when) /\ UNCHANGED content
  BY <1>2 DEF Damaged, TypeOK
<1>3. QED
  BY <1>1, <1>2

\* Every step of the main thread leaves the variables well typed.
LEMMA MainTypes ==
  ASSUME TypeOK, ControlInvariant, SlotInvariant, JobInvariant, VerdictInvariant, MainStep
  PROVE  TypeOK'
<1> USE MayFailType DEF TypeOK, MainGoes, MainStates
<1>0. frames' \in Archives /\ authRefs' \in AuthRefs /\ ioFails' \in FailureModes
  BY ArchiveKept DEF Next
<1>1. CASE CreatePool
  <2>1. PICK started \in (IF Threads > 1 THEN Starts ELSE {0}) : CreatePool!(started)
    BY <1>1 DEF CreatePool
  <2>2. PoolTypeOK(Payloads)'
    BY <2>1, StartsType, CreateTypes DEF PoolTypeOK, poolVars
  <2>3. QED
    BY <1>0, <2>1, <2>2
<1>2. CASE OpenOutput
  <2>1. PoolTypeOK(Payloads)'
    BY <1>2 DEF OpenOutput, PoolTypeOK, poolVars
  <2>2. CASE UNCHANGED << result, berr, fi >>
    BY <1>0, <1>2, <2>1, <2>2 DEF OpenOutput
  <2>3. CASE /\ result' = [result EXCEPT ![fi] = "failed"] /\ Damaged(TRUE)
             /\ fi' = fi + 1 /\ UNCHANGED mpc
    <3>1. berr' \in [FileNumbers -> BOOLEAN]
      BY <2>3 DEF Damaged
    <3>2. fi' \in 0 .. NumFiles
      BY <1>2, <2>3, ExtractConstants DEF OpenOutput
    <3>3. QED
      BY <1>0, <1>2, <2>1, <2>3, <3>1, <3>2 DEF OpenOutput
  <2>4. QED
    BY <1>2, <2>2, <2>3 DEF OpenOutput
<1>3. CASE NoMoreEntries \/ BatchIsFull \/ SerialFileEnds \/ BatchIsCollected
  <2>1. PoolTypeOK(Payloads)'
    BY <1>3 DEF NoMoreEntries, BatchIsFull, SerialFileEnds, BatchIsCollected, PoolTypeOK,
       poolVars
  <2>2. CASE BatchIsCollected
    <3>1. mpc' \in MainStates /\ pending' \in Seq(Slots)
      BY <2>2 DEF BatchIsCollected
    <3>2. flushing' \in BOOLEAN
      BY <2>2 DEF BatchIsCollected
    <3>3. QED
      BY <1>0, <2>1, <2>2, <3>1, <3>2 DEF BatchIsCollected
  <2>3. CASE ~BatchIsCollected
    BY <1>0, <1>3, <2>1, <2>3 DEF NoMoreEntries, BatchIsFull, SerialFileEnds
  <2>4. QED
    BY <2>2, <2>3
<1>4. CASE ReadFrame \/ SubmitFails
  <2>1. berr' \in [FileNumbers -> BOOLEAN] /\ flushing' \in BOOLEAN
    BY <1>4 DEF ReadFrame, SubmitFails, Damaged
  <2>2. QED
    BY <1>0, <1>4, <2>1 DEF ReadFrame, SubmitFails, PoolTypeOK, poolVars
<1>5. CASE SubmitWaits \/ SubmitBlock
  <2>1. fi \in FileNumbers
    BY <1>5, InFileEntry DEF InFile, InBatch, SubmitWaits, SubmitBlock
  <2>2. NextSlot \in Slots /\ NextPayload \in Payloads
    BY <2>1, NextSlotType, NextPayloadType, ExtractConstants
  <2>3. PoolTypeOK(Payloads)'
    BY <1>5, <2>2, SlotOperationTypes DEF SubmitWaits, SubmitBlock
  <2>4. CASE SubmitWaits
    BY <2>3, <2>4 DEF SubmitWaits, driverVars, archive
  <2>5. CASE SubmitBlock
    <3>1. pending' \in Seq(Slots)
      BY <2>2, <2>5, AppendFacts DEF SubmitBlock
    <3>2. QED
      BY <1>0, <2>3, <2>5, <3>1 DEF SubmitBlock
  <2>6. QED
    BY <1>5, <2>4, <2>5
<1>6. CASE CollectWaits \/ CollectBlock
  <2>1. PoolTypeOK(Payloads)'
    BY <1>6 DEF CollectWaits, CollectBlock, PoolTypeOK, zpar_wait_slot,
       zpar_wait_blocks, poolVars
  <2>2. QED
    BY <1>0, <1>6, <2>1 DEF CollectWaits, CollectBlock, driverVars, archive
<1>7. CASE ConsumeBlock
  <2> DEFINE s == pending[pi]
  <2>1. s \in Slots /\ status[s] = "DONE"
    BY <1>7 DEF ConsumeBlock, ControlInvariant, MainReadsDoneSlots
  <2>2. error[s] = "OK" => output[s].blk \in Nat
    <3>1. error[s] = "OK" => output[s] = job[s] /\ job[s] # NoJob
      BY <2>1 DEF SlotInvariant, DoneSlotsCarryTheirJob, VerdictInvariant
    <3>2. QED
      BY <2>1, <3>1 DEF JobInvariant, Payloads
  <2>3. content' \in [FileNumbers -> Seq(Nat)] /\ berr' \in [FileNumbers -> BOOLEAN]
    BY <1>7, <2>2, WriteTypes DEF ConsumeBlock
  <2>4. QED
    BY <1>0, <1>7, <2>3 DEF ConsumeBlock, PoolTypeOK, poolVars
<1>8. CASE ReleaseBlock
  <2>1. pending[pi] \in Slots
    BY <1>8 DEF ReleaseBlock, ControlInvariant, MainReadsDoneSlots
  <2>2. PoolTypeOK(Payloads)'
    BY <1>8, <2>1 DEF ReleaseBlock, zpar_release_slot, PoolTypeOK
  <2>3. QED
    BY <1>0, <1>8, <2>2 DEF ReleaseBlock
<1>9. CASE ResolveReference \/ DecodeSerially
  <2>1. content' \in [FileNumbers -> Seq(Nat)] /\ berr' \in [FileNumbers -> BOOLEAN]
    BY <1>9, WriteTypes DEF ResolveReference, DecodeSerially
  <2>2. decompSeq' \in Nat /\ mpc' \in MainStates
    <3>1. \/ decompSeq' = decompSeq + 1
          \/ decompSeq' = decompSeq
      BY <1>9 DEF ResolveReference, DecodeSerially
    <3>2. mpc' \in MainStates
      BY <1>9 DEF ResolveReference, DecodeSerially
    <3>3. QED
      BY <3>1, <3>2
  <2>3. QED
    BY <1>0, <1>9, <2>1, <2>2 DEF ResolveReference, DecodeSerially, PoolTypeOK, poolVars
<1>10. CASE CloseOutput
  <2>1. fi < NumFiles
    BY <1>10 DEF CloseOutput, ControlInvariant, InFile
  <2>2. fi' \in 0 .. NumFiles
    BY <1>10, <2>1, ExtractConstants DEF CloseOutput
  <2>3. berr' \in [FileNumbers -> BOOLEAN]
    BY <1>10 DEF CloseOutput, Damaged
  <2>4. result' \in [FileNumbers -> {"pending", "published", "failed"}]
    BY <1>10 DEF CloseOutput
  <2>5. QED
    BY <1>0, <1>10, <2>2, <2>3, <2>4 DEF CloseOutput, PoolTypeOK, poolVars
<1>11. CASE DestroyPool \/ JoinWorkers
  <2>1. PoolTypeOK(Payloads)'
    BY <1>11, DestroyTypes DEF DestroyPool, JoinWorkers, PoolTypeOK, poolVars
  <2>2. QED
    BY <1>0, <1>11, <2>1 DEF DestroyPool, JoinWorkers
<1>12. QED
  BY <1>1, <1>2, <1>3, <1>4, <1>5, <1>6, <1>7, <1>8, <1>9, <1>10, <1>11 DEF MainStep

\* And so does every other step.
LEMMA StepTypes ==
  ASSUME TypeOK, ControlInvariant, SlotInvariant, JobInvariant, VerdictInvariant, [Next]_vars
  PROVE  TypeOK'
<1>1. CASE MainStep
  BY <1>1, MainTypes
<1>2. ASSUME NEW w \in Slots, Worker(w) PROVE TypeOK'
  BY <1>2, WorkerTypes, WorkerIsStep DEF TypeOK, driverVars, archive
<1>3. CASE Spurious
  BY <1>3, SpuriousTypes DEF Spurious, TypeOK, driverVars, archive
<1>4. CASE UNCHANGED vars
  BY <1>4 DEF TypeOK, PoolTypeOK, vars, poolVars, driverVars, archive
<1>5. QED
  BY <1>1, <1>2, <1>3, <1>4 DEF Next, Returned

-----------------------------------------------------------------------------
(* SlotInvariant *)

\* No step of any thread breaks the hand-over of the slots: the main thread
\* releases DONE slots only (zpar_release_slot is called after zpar_wait_slot).
LEMMA StepSlots ==
  ASSUME TypeOK, ControlInvariant, JobInvariant, SlotInvariant, [Next]_vars
  PROVE  SlotInvariant'
<1> USE DEF TypeOK
<1>1. CASE UNCHANGED poolVars
  BY <1>1 DEF poolVars, SlotInvariant, SlotsHandedOver, DoneSlotsCarryTheirJob
<1>2. CASE CreatePool
  <2>1. PICK started \in (IF Threads > 1 THEN Starts ELSE {0}) : CreatePool!(started)
    BY <1>2 DEF CreatePool
  <2>2. QED
    BY <1>1, <2>1, StartsType, CreateSlots
<1>3. CASE SubmitWaits \/ SubmitBlock
  <2>1. fi \in FileNumbers
    BY <1>3, InFileEntry DEF InFile, InBatch, SubmitWaits, SubmitBlock, MainGoes
  <2>2. NextSlot \in Slots /\ NextPayload \in Payloads
    BY <2>1, NextSlotType, NextPayloadType, ExtractConstants
  <2>3. QED
    BY <1>3, <2>2, SubmitSlots, WaitSlots DEF SubmitWaits, SubmitBlock
<1>4. CASE CollectWaits \/ CollectBlock
  <2>1. pending[pi] \in Slots
    BY <1>4 DEF CollectWaits, CollectBlock
  <2>2. QED
    BY <1>4, <2>1, WaitSlots DEF CollectWaits, CollectBlock
<1>5. CASE ReleaseBlock
  <2>1. pending[pi] \in Slots /\ status[pending[pi]] = "DONE"
    BY <1>5 DEF ReleaseBlock, MainGoes, ControlInvariant, MainReadsDoneSlots
  <2>2. QED
    BY <1>5, <2>1, ReleaseSlots DEF ReleaseBlock
<1>6. CASE DestroyPool \/ JoinWorkers
  BY <1>1, <1>6, DestroySlots DEF DestroyPool, JoinWorkers
<1>7. ASSUME NEW w \in Slots, Worker(w) PROVE SlotInvariant'
  BY <1>7, WorkerSlots, WorkerIsStep
<1>8. CASE Spurious
  BY <1>8, SpuriousSlots DEF Spurious
<1>9. CASE \/ OpenOutput \/ NoMoreEntries \/ ReadFrame \/ BatchIsFull \/ SubmitFails
           \/ ConsumeBlock \/ BatchIsCollected \/ ResolveReference \/ DecodeSerially
           \/ SerialFileEnds \/ CloseOutput
  BY <1>1, <1>9 DEF OpenOutput, NoMoreEntries, ReadFrame, BatchIsFull, SubmitFails,
     ConsumeBlock, BatchIsCollected, ResolveReference, DecodeSerially, SerialFileEnds,
     CloseOutput
<1>10. CASE UNCHANGED vars
  BY <1>1, <1>10 DEF vars
<1>11. QED
  BY <1>2, <1>3, <1>4, <1>5, <1>6, <1>7, <1>8, <1>9, <1>10 DEF Next, MainStep, Returned

-----------------------------------------------------------------------------
(* JobInvariant *)

\* Only the submission of a block changes the jobs, and main has seen that the
\* frame is a DATA frame (ReadFrame).
LEMMA StepJob ==
  ASSUME TypeOK, ControlInvariant, SlotInvariant, JobInvariant, [Next]_vars
  PROVE  JobInvariant'
<1>0. UNCHANGED frames
  BY ArchiveKept
<1>1. CASE job' = job
  BY <1>0, <1>1 DEF JobInvariant, KindOf
<1>2. CASE SubmitBlock
  <2>1. mpc = "submit" /\ fi \in FileNumbers /\ decompSeq \in Nat
    BY <1>2, InFileEntry DEF InFile, InBatch, SubmitBlock, MainGoes, TypeOK
  <2>2. job' = [job EXCEPT ![NextSlot] = NextPayload] /\ NextPayload \in Payloads
    BY <1>2, <2>1, NextPayloadType DEF SubmitBlock, zpar_submit
  <2>3. decompSeq < Len(frames[fi]) /\ frames[fi][decompSeq + 1] \in DataKinds
    BY <2>1 DEF ControlInvariant, NextKind
  <2>4. NextPayload.file = fi /\ NextPayload.blk = decompSeq
    BY DEF NextPayload
  <2>5. SUFFICES ASSUME NEW i \in Slots, job'[i] # NoJob
                 PROVE  /\ job'[i] \in Payloads
                        /\ job'[i].blk < Len(frames[job'[i].file])
                        /\ frames[job'[i].file][job'[i].blk + 1] \in DataKinds
    BY <1>0 DEF JobInvariant, KindOf
  <2>6. job'[i] = NextPayload \/ job'[i] = job[i]
    BY <2>2 DEF TypeOK, PoolTypeOK
  <2>7. QED
    BY <2>2, <2>3, <2>4, <2>5, <2>6 DEF JobInvariant, KindOf
<1>3. CASE CreatePool
  <2>1. PICK started \in (IF Threads > 1 THEN Starts ELSE {0}) : CreatePool!(started)
    BY <1>3 DEF CreatePool
  <2>2. QED
    BY <1>1, <2>1 DEF zpar_create, poolVars
<1>4. CASE \/ OpenOutput \/ NoMoreEntries \/ ReadFrame \/ BatchIsFull \/ SubmitWaits
           \/ SubmitFails \/ CollectWaits \/ CollectBlock \/ ConsumeBlock \/ ReleaseBlock
           \/ BatchIsCollected \/ ResolveReference \/ DecodeSerially \/ SerialFileEnds
           \/ CloseOutput \/ DestroyPool \/ JoinWorkers
  BY <1>1, <1>4 DEF OpenOutput, NoMoreEntries, ReadFrame, BatchIsFull, SubmitWaits,
     SubmitFails, CollectWaits, CollectBlock, ConsumeBlock, ReleaseBlock, BatchIsCollected,
     ResolveReference, DecodeSerially, SerialFileEnds, CloseOutput, DestroyPool,
     JoinWorkers, zpar_submit_blocks, zpar_wait_blocks, zpar_wait_slot, zpar_release_slot,
     zpar_destroy_signal, zpar_destroy_join, poolVars
<1>5. ASSUME NEW w \in Slots, Worker(w) PROVE JobInvariant'
  BY <1>1, <1>5, WorkerIsStep, WorkerKeepsSlots DEF TypeOK
<1>6. CASE Spurious
  BY <1>1, <1>6 DEF Spurious, SpuriousWakeup, MainWakesSpuriously, WorkerWakesSpuriously
<1>7. CASE UNCHANGED vars
  BY <1>1, <1>7 DEF vars, poolVars
<1>8. QED
  BY <1>2, <1>3, <1>4, <1>5, <1>6, <1>7 DEF Next, MainStep, Returned

-----------------------------------------------------------------------------
(* VerdictInvariant *)

\* error_flag stays set.
LEMMA FlagSticks ==
  ASSUME TypeOK, SlotInvariant, [Next]_vars, errorFlag # "OK"
  PROVE  errorFlag' # "OK"
<1>1. ASSUME NEW w \in Slots, Worker(w) PROVE errorFlag' # "OK"
  BY <1>1, WorkerKeepsFlag DEF Worker
<1>2. CASE MainStep
  BY <1>2 DEF MainStep, CreatePool, OpenOutput, NoMoreEntries, ReadFrame, BatchIsFull,
     SubmitWaits, SubmitBlock, SubmitFails, CollectWaits, CollectBlock, ConsumeBlock,
     ReleaseBlock, BatchIsCollected, ResolveReference, DecodeSerially, SerialFileEnds,
     CloseOutput, DestroyPool, JoinWorkers, zpar_create, zpar_submit, zpar_submit_blocks,
     zpar_wait_blocks, zpar_wait_slot, zpar_release_slot, zpar_destroy_signal,
     zpar_destroy_join, poolVars
<1>3. CASE Spurious \/ UNCHANGED vars
  BY <1>3 DEF Spurious, SpuriousWakeup, MainWakesSpuriously, WorkerWakesSpuriously, vars,
     poolVars
<1>4. QED
  BY <1>1, <1>2, <1>3 DEF Next, Returned

\* What VerdictInvariant says of one slot.
Verdict(w) ==
  /\ wpc[w] = "cancel" => errorFlag # "OK"
  /\ wpc[w] = "mark" \/ status[w] = "DONE" =>
       IF error[w] = "OK" THEN job[w] # NoJob /\ KindOf(job[w]) = "DATA" ELSE errorFlag # "OK"

LEMMA VerdictOfSlots == VerdictInvariant <=> \A w \in Slots : Verdict(w)
  BY DEF VerdictInvariant, Verdict

\* worker_decompress says OK of a DATA frame only.
LEMMA OkIsOfData ==
  ASSUME JobInvariant, NEW w \in Slots, job[w] # NoJob, "OK" \in DecodeResults(job[w])
  PROVE  KindOf(job[w]) = "DATA"
  BY DEF JobInvariant, DecodeResults, KindOf, DataKinds

LEMMA WorkerVerdict ==
  ASSUME TypeOK, SlotInvariant, JobInvariant, VerdictInvariant, NEW w \in Slots, Worker(w)
  PROVE  VerdictInvariant'
<1> DEFINE results == IF job[w] = NoJob THEN {} ELSE DecodeResults(job[w])
<1>1. /\ job' = job /\ frames' = frames /\ (errorFlag # "OK" => errorFlag' # "OK")
      /\ \A i \in Slots : i # w =>
           status'[i] = status[i] /\ wpc'[i] = wpc[i] /\ error'[i] = error[i]
  <2>1. WorkerStep(w, results) /\ frames' = frames
    BY DEF Worker, driverVars, archive
  <2>2. results \in SUBSET Results
    BY ResultsType
  <2>3. errorFlag # "OK" => errorFlag' # "OK"
    BY <2>1, WorkerKeepsFlag
  <2> HIDE DEF results
  <2>4. QED
    BY <2>1, <2>2, <2>3, WorkerKeepsSlots, WorkerOwnSlot DEF TypeOK
<1>2. \A i \in Slots : i # w => Verdict(i)'
  BY <1>1, VerdictOfSlots DEF Verdict, KindOf
<1>3. Verdict(w)'
  <2> USE DEF WorkerGoes, TypeOK, PoolTypeOK
  <2>0. Verdict(w)
    BY VerdictOfSlots
  <2>1. CASE WorkerSleeps(w) \/ WorkerExits(w) \/ WorkerPicks(w) \/ WorkerTestsFlag(w)
    <3>1. status' = status /\ error' = error /\ wpc'[w] # "mark" /\ errorFlag' = errorFlag
      BY <2>1 DEF WorkerSleeps, WorkerExits, WorkerPicks, WorkerTestsFlag
    <3>2. wpc'[w] = "cancel" => errorFlag # "OK"
      BY <2>1 DEF WorkerSleeps, WorkerExits, WorkerPicks, WorkerTestsFlag
    <3>3. QED
      BY <1>1, <2>0, <3>1, <3>2 DEF Verdict, KindOf
  <2>2. CASE WorkerCancels(w)
    BY <1>1, <2>0, <2>2 DEF WorkerCancels, Verdict
  <2>3. ASSUME NEW answer \in results, WorkerProcesses(w, answer)
        PROVE  Verdict(w)'
    <3>1. /\ job[w] # NoJob /\ answer \in DecodeResults(job[w])
          /\ status[w] = "READY" /\ status' = status
          /\ wpc'[w] = IF answer = "OK" THEN "mark" ELSE "raise"
          /\ error'[w] = answer
      BY <2>3 DEF WorkerProcesses, SlotInvariant, SlotsHandedOver, Holding
    <3>2. answer = "OK" => KindOf(job[w]) = "DATA"
      BY <3>1, OkIsOfData
    <3>3. QED
      BY <1>1, <3>1, <3>2 DEF Verdict, KindOf
  <2>4. CASE WorkerRaises(w)
    BY <1>1, <2>0, <2>4 DEF WorkerRaises, SlotInvariant, Verdict
  <2>5. CASE WorkerMarksDone(w)
    BY <1>1, <2>0, <2>5 DEF WorkerMarksDone, SetDone, Verdict, KindOf
  <2>6. QED
    BY <2>1, <2>2, <2>3, <2>4, <2>5 DEF Worker, WorkerStep
<1>4. (\A i \in Slots : Verdict(i))'
  BY <1>2, <1>3
<1>5. QED
  BY <1>4 DEF VerdictInvariant, Verdict

\* The main thread changes neither a verdict nor a slot that has one, until it
\* releases the slot.
LEMMA StepVerdict ==
  ASSUME TypeOK, SlotInvariant, JobInvariant, VerdictInvariant, ControlInvariant, [Next]_vars
  PROVE  VerdictInvariant'
<1> USE DEF TypeOK, PoolTypeOK
<1>0. UNCHANGED frames
  BY ArchiveKept
<1>1. CASE UNCHANGED << status, job, error, errorFlag, wpc >>
  BY <1>0, <1>1 DEF VerdictInvariant, KindOf
<1>2. CASE CreatePool
  <2>1. PICK started \in (IF Threads > 1 THEN Starts ELSE {0}) : CreatePool!(started)
    BY <1>2 DEF CreatePool
  <2>2. CASE UNCHANGED poolVars
    BY <1>1, <2>2 DEF poolVars
  <2>3. CASE zpar_create(started)
    <3>1. /\ UNCHANGED << status, job, error, errorFlag >>
          /\ \A w \in Slots : wpc'[w] \in {"check", "unborn"}
      BY <2>3 DEF zpar_create
    <3>2. QED
      BY <1>0, <3>1 DEF VerdictInvariant, KindOf
  <2>4. QED
    BY <2>1, <2>2, <2>3
<1>3. CASE SubmitBlock
  <2>1. fi \in FileNumbers
    BY <1>3, InFileEntry DEF InFile, InBatch, SubmitBlock, MainGoes
  <2>2. /\ NextSlot \in Slots /\ errorFlag' = errorFlag /\ wpc' = WorkersAwake
        /\ status[NextSlot] = "EMPTY"
        /\ status' = [status EXCEPT ![NextSlot] = "READY"]
        /\ job' = [job EXCEPT ![NextSlot] = NextPayload]
        /\ error' = [error EXCEPT ![NextSlot] = "OK"]
    BY <1>3, <2>1, NextSlotType, ExtractConstants DEF SubmitBlock, zpar_submit
  <2>3. ASSUME NEW w \in Slots PROVE Verdict(w)'
    <3>1. Verdict(w)
      BY VerdictOfSlots
    <3>2. wpc'[w] \in Holding => wpc'[w] = wpc[w]
      BY <2>2 DEF WorkersAwake, Holding
    <3>3. CASE w = NextSlot
      <4>1. wpc[w] \notin Holding /\ status'[w] = "READY"
        BY <2>2, <3>3 DEF SlotInvariant, SlotsHandedOver
      <4>2. QED
        BY <3>2, <4>1 DEF Verdict, Holding
    <3>4. CASE w # NextSlot
      <4>1. status'[w] = status[w] /\ job'[w] = job[w] /\ error'[w] = error[w]
        BY <2>2, <3>4
      <4>2. QED
        BY <1>0, <2>2, <3>1, <3>2, <4>1 DEF Verdict, Holding, KindOf
    <3>5. QED
      BY <3>3, <3>4
  <2>4. QED
    BY <2>3 DEF VerdictInvariant, Verdict
<1>4. CASE ReleaseBlock
  <2>1. pending[pi] \in Slots /\ status[pending[pi]] = "DONE"
    BY <1>4 DEF ReleaseBlock, MainGoes, ControlInvariant, MainReadsDoneSlots
  <2>2. /\ status' = [status EXCEPT ![pending[pi]] = "EMPTY"]
        /\ UNCHANGED << job, error, errorFlag, wpc >>
    BY <1>4 DEF ReleaseBlock, zpar_release_slot
  <2>3. \A w \in Slots : status'[w] = "DONE" => status[w] = "DONE"
    BY <2>1, <2>2
  <2>4. QED
    BY <1>0, <2>2, <2>3 DEF VerdictInvariant, KindOf
<1>5. CASE DestroyPool
  <2>1. /\ UNCHANGED << status, job, error, errorFlag >>
        /\ \A w \in Slots : wpc'[w] \in Holding => wpc'[w] = wpc[w]
    BY <1>5 DEF DestroyPool, zpar_destroy_signal, WorkersAwake, Holding, poolVars
  <2>2. QED
    BY <1>0, <2>1 DEF VerdictInvariant, KindOf, Holding
<1>6. CASE \/ OpenOutput \/ NoMoreEntries \/ ReadFrame \/ BatchIsFull \/ SubmitWaits
           \/ SubmitFails \/ CollectWaits \/ CollectBlock \/ ConsumeBlock
           \/ BatchIsCollected \/ ResolveReference \/ DecodeSerially \/ SerialFileEnds
           \/ CloseOutput \/ JoinWorkers
  BY <1>1, <1>6 DEF OpenOutput, NoMoreEntries, ReadFrame, BatchIsFull, SubmitWaits,
     SubmitFails, CollectWaits, CollectBlock, ConsumeBlock, BatchIsCollected,
     ResolveReference, DecodeSerially, SerialFileEnds, CloseOutput, JoinWorkers,
     zpar_submit_blocks, zpar_wait_blocks, zpar_wait_slot, zpar_destroy_join, poolVars
<1>7. ASSUME NEW w \in Slots, Worker(w) PROVE VerdictInvariant'
  BY <1>7, WorkerVerdict
<1>8. CASE Spurious
  <2>1. /\ UNCHANGED << status, job, error, errorFlag >>
        /\ \A w \in Slots : wpc'[w] \in Holding => wpc'[w] = wpc[w]
    BY <1>8 DEF Spurious, SpuriousWakeup, MainWakesSpuriously, WorkerWakesSpuriously,
       WorkerGoes, Holding
  <2>2. QED
    BY <1>0, <2>1 DEF VerdictInvariant, KindOf, Holding
<1>9. CASE UNCHANGED vars
  BY <1>1, <1>9 DEF vars, poolVars
<1>10. QED
  BY <1>2, <1>3, <1>4, <1>5, <1>6, <1>7, <1>8, <1>9 DEF Next, MainStep, Returned

-----------------------------------------------------------------------------
(* ControlInvariant *)

\* The main thread's own steps.
LEMMA MainControl ==
  ASSUME TypeOK, ControlInvariant, BatchInvariant, MainStep
  PROVE  ControlInvariant'
<1>0. /\ UNCHANGED << frames, ioFails >> /\ (fi < NumFiles => fi \in FileNumbers)
      /\ fi \in Nat /\ decompSeq \in Nat
      /\ \A f \in FileNumbers : Len(frames[f]) \in Nat
  BY ArchiveKept, FramesType, ExtractConstants DEF Next, TypeOK, FileNumbers
<1> USE <1>0, MayFailType
    DEF ControlInvariant, MainReadsDoneSlots, InFile, InBatch, Collecting, MainGoes, Remaining,
        NextKind
<1>1. CASE CreatePool
  <2>1. PICK started \in (IF Threads > 1 THEN Starts ELSE {0}) : CreatePool!(started)
    BY <1>1 DEF CreatePool
  <2>2. shutdown' = shutdown
    BY <2>1 DEF zpar_create, poolVars
  <2>3. QED
    BY <2>1, <2>2
<1>2. CASE OpenOutput
  <2>1. /\ mpc = "open" /\ mpc' \in {"open", "fill", "serial"} /\ decompSeq' = 0
        /\ UNCHANGED << shutdown, status, pending, pi, flushing >>
        /\ mpc' = "open" \/ fi' = fi
    BY <1>2 DEF OpenOutput, poolVars
  <2>2. fi < NumFiles /\ fi \in FileNumbers
    BY <1>2 DEF OpenOutput
  <2>3. QED
    BY <2>1, <2>2
<1>3. CASE NoMoreEntries
  BY <1>3 DEF NoMoreEntries, poolVars
<1>4. CASE ReadFrame
  <2>1. /\ mpc = "fill" /\ Remaining > 0
        /\ UNCHANGED << shutdown, status, fi, decompSeq, pending, pi >>
        /\ \/ mpc' = "collect"
           \/ mpc' = "submit" /\ ~flushing' /\ NextKind \in Kinds \ (RefKinds \cup {"STRAY"})
    <3>1. NextKind \in Kinds
      BY <1>4, FramesType DEF ReadFrame, TypeOK
    <3>2. QED
      BY <1>4, <3>1 DEF ReadFrame, poolVars
  <2>2. decompSeq < Len(frames[fi])
    BY <2>1
  <2>3. QED
    BY <2>1, <2>2 DEF Kinds
<1>5. CASE BatchIsFull
  BY <1>5 DEF BatchIsFull, poolVars
<1>6. CASE SubmitWaits
  BY <1>6 DEF SubmitWaits, zpar_submit_blocks, driverVars
<1>7. CASE SubmitBlock
  BY <1>7 DEF SubmitBlock, zpar_submit
<1>8. CASE SubmitFails
  BY <1>8 DEF SubmitFails, poolVars
<1>9. CASE CollectWaits
  BY <1>9 DEF CollectWaits, zpar_wait_blocks, driverVars
<1>10. CASE CollectBlock
  BY <1>10 DEF CollectBlock, zpar_wait_slot, poolVars
<1>11. CASE ConsumeBlock
  BY <1>11 DEF ConsumeBlock, poolVars
<1>12. CASE ReleaseBlock
  BY <1>12 DEF ReleaseBlock, zpar_release_slot
<1>13. CASE BatchIsCollected
  BY <1>13 DEF BatchIsCollected, poolVars
<1>14. CASE ResolveReference \/ DecodeSerially
  <2>1. /\ mpc \in {"reference", "serial"} /\ decompSeq < Len(frames[fi])
        /\ UNCHANGED << shutdown, status, fi, pending, pi, flushing >>
        /\ \/ mpc' \in {"fill", "serial"} /\ decompSeq' = decompSeq + 1
           \/ mpc' = "close" /\ Damaged(TRUE) /\ decompSeq' = decompSeq
    <3>1. /\ mpc = "reference" \/ (mpc = "serial" /\ Remaining > 0)
          /\ UNCHANGED << shutdown, status, fi, pending, pi, flushing >>
      BY <1>14 DEF ResolveReference, DecodeSerially, poolVars
    <3>2. decompSeq < Len(frames[fi])
      BY <3>1
    <3>3. \/ mpc' \in {"fill", "serial"} /\ decompSeq' = decompSeq + 1
          \/ mpc' = "close" /\ Damaged(TRUE) /\ decompSeq' = decompSeq
      BY <1>14 DEF ResolveReference, DecodeSerially
    <3>4. QED
      BY <3>1, <3>2, <3>3
  <2>2. Damaged(TRUE) => berr'[fi]
    BY <2>1 DEF Damaged, TypeOK
  <2>3. MainReadsDoneSlots' /\ (shutdown' => mpc' \in {"join", "done"})
    BY <2>1
  <2>4. fi' < NumFiles /\ decompSeq' <= Len(frames'[fi'])
    <3>1. fi' = fi /\ fi < NumFiles /\ decompSeq < Len(frames[fi]) /\ frames' = frames
      BY <2>1
    <3>2. decompSeq' = decompSeq + 1 \/ decompSeq' = decompSeq
      BY <2>1
    <3>3. QED
      BY <3>1, <3>2
  <2>6. ~flushing' /\ pending' = << >> /\ pi' = 1
    BY <2>1
  <2>5. mpc' = "close" /\ ~berr'[fi'] => decompSeq' = Len(frames'[fi'])
    BY <2>1, <2>2
  <2>7. mpc' \in {"fill", "serial", "close"}
    BY <2>1
  <2>8. QED
    BY <2>3, <2>4, <2>5, <2>6, <2>7
<1>16. CASE SerialFileEnds
  BY <1>16 DEF SerialFileEnds, poolVars
<1>17. CASE CloseOutput
  BY <1>17 DEF CloseOutput, poolVars
<1>18. CASE DestroyPool
  BY <1>18 DEF DestroyPool, zpar_destroy_signal, poolVars
<1>19. CASE JoinWorkers
  BY <1>19 DEF JoinWorkers, zpar_destroy_join
<1>20. QED
  BY <1>1, <1>2, <1>3, <1>4, <1>5, <1>6, <1>7, <1>8, <1>9, <1>10, <1>11, <1>12,
     <1>13, <1>14, <1>16, <1>17, <1>18, <1>19 DEF MainStep

\* The workers leave the control state alone, and keep a DONE slot DONE.
LEMMA StepControl ==
  ASSUME TypeOK, SlotInvariant, JobInvariant, BatchInvariant, ControlInvariant, [Next]_vars
  PROVE  ControlInvariant'
<1>1. CASE MainStep
  BY <1>1, MainControl
<1>2. ASSUME NEW w \in Slots, Worker(w) PROVE ControlInvariant'
  <2>1. /\ shutdown' = shutdown
        /\ \A i \in Slots : status[i] = "DONE" => status'[i] = "DONE"
    BY <1>2, WorkerIsStep, WorkerKeepsSlots DEF TypeOK
  <2>2. UNCHANGED driverVars
    BY <1>2 DEF Worker
  <2>3. MainReadsDoneSlots'
    BY <2>1, <2>2 DEF ControlInvariant, MainReadsDoneSlots, driverVars, TypeOK
  <2>4. QED
    BY <2>1, <2>2, <2>3 DEF ControlInvariant, InFile, InBatch, Collecting, NextKind,
       driverVars, archive
<1>3. CASE Spurious
  BY <1>3 DEF Spurious, SpuriousWakeup, MainWakesSpuriously, WorkerWakesSpuriously,
     driverVars, archive, ControlInvariant, MainReadsDoneSlots, InFile, InBatch, Collecting,
     NextKind
<1>4. CASE UNCHANGED vars
  BY <1>4 DEF vars, poolVars, driverVars, archive, ControlInvariant, MainReadsDoneSlots,
     InFile, InBatch, Collecting, NextKind
<1>5. QED
  BY <1>1, <1>2, <1>3, <1>4 DEF Next, Returned

-----------------------------------------------------------------------------
(* BatchInvariant *)

\* A step that keeps the batch and the slots keeps what holds between them.
LEMMA SameBatch ==
  ASSUME TypeOK, BatchInvariant,
         UNCHANGED << pending, pi, fi, decompSeq, job, authRefs >>,
         \A i \in Slots : (status'[i] = "EMPTY") <=> (status[i] = "EMPTY")
  PROVE  BatchInvariant'
<1>1. Uncollected' = Uncollected /\ \A k \in Uncollected : pending[k] \in Slots
  BY DEF TypeOK, BatchInvariant, Uncollected
<1>2. \A k \in Uncollected : status'[pending[k]] # "EMPTY"
  BY <1>1 DEF BatchInvariant
<1>3. \A i \in Slots : status'[i] # "EMPTY" => \E k \in Uncollected : pending[k] = i
  BY DEF BatchInvariant
<1>4. QED
  BY <1>1, <1>2, <1>3 DEF BatchInvariant, PayloadOf, AadSeq

\* Outside a batch no slot is occupied, so the next batch may start anywhere.
LEMMA NoBatch ==
  ASSUME TypeOK, BatchInvariant, status' = status, pending' = << >>, pi' = 1,
         decompSeq' \in Nat, pi > Len(pending)
  PROVE  BatchInvariant'
<1>1. \A i \in Slots : status[i] = "EMPTY"
  BY DEF TypeOK, BatchInvariant, Uncollected
<1>2. Len(pending') = 0 /\ Uncollected' = {}
  BY DEF Uncollected
<1>3. QED
  BY <1>1, <1>2 DEF BatchInvariant

\* zpar_submit takes an EMPTY slot, which no uncollected block occupies.
LEMMA SubmitBatch ==
  ASSUME TypeOK, ControlInvariant, BatchInvariant, SubmitBlock, authRefs' = authRefs
  PROVE  BatchInvariant'
<1> DEFINE s == NextSlot
           n == Len(pending)
<1>1. fi \in FileNumbers /\ s \in Slots
  BY InFileEntry, NextSlotType, ExtractConstants
     DEF SubmitBlock, MainGoes, InFile, InBatch, FileNumbers, TypeOK
<1>2. /\ status[s] = "EMPTY"
      /\ status' = [status EXCEPT ![s] = "READY"]
      /\ job' = [job EXCEPT ![s] = PayloadOf(fi, decompSeq)]
  BY DEF SubmitBlock, zpar_submit, NextPayload, PayloadOf
<1>3. pending' = Append(pending, s) /\ decompSeq' = decompSeq + 1 /\ pi' = pi /\ fi' = fi
  BY DEF SubmitBlock
<1>4. /\ n \in Nat /\ Len(pending') = n + 1
      /\ \A k \in 1 .. n : pending'[k] = pending[k] /\ pending[k] \in Slots
      /\ pending'[n + 1] = s
  BY <1>1, <1>3, AppendFacts DEF TypeOK
<1>5. \A k \in Uncollected : k \in 1 .. n /\ pending[k] # s
  BY <1>2 DEF BatchInvariant, Uncollected, TypeOK
<1>6. Uncollected' = Uncollected \cup {n + 1} /\ n + 1 \notin Uncollected
  BY <1>3, <1>4 DEF Uncollected, TypeOK, BatchInvariant
<1>7. \A k \in Uncollected : job'[pending[k]] = job[pending[k]]
                             /\ status'[pending[k]] = status[pending[k]]
  BY <1>1, <1>2, <1>4, <1>5 DEF TypeOK, PoolTypeOK
<1>8. (pi <= Len(pending) + 1 /\ Len(pending) <= decompSeq)'
  BY <1>3, <1>4 DEF BatchInvariant, TypeOK
<1>9. (\A i \in Slots : status[i] # "EMPTY" => \E k \in Uncollected : pending[k] = i)'
  <2>1. SUFFICES ASSUME NEW i \in Slots, status'[i] # "EMPTY"
                 PROVE  \E k \in Uncollected' : pending'[k] = i
    OBVIOUS
  <2>2. CASE i = s
    BY <1>4, <1>6, <2>2
  <2>3. CASE i # s
    <3>1. status[i] # "EMPTY"
      BY <1>2, <2>1, <2>3 DEF TypeOK, PoolTypeOK
    <3>2. PICK k \in Uncollected : pending[k] = i
      BY <3>1 DEF BatchInvariant
    <3>3. QED
      BY <1>4, <1>5, <1>6, <3>2
  <2>4. QED
    BY <2>2, <2>3
<1>10. (\A k \in Uncollected : status[pending[k]] # "EMPTY")'
  <2>1. status'[pending'[n + 1]] = "READY"
    BY <1>1, <1>2, <1>4 DEF TypeOK, PoolTypeOK
  <2>2. \A k \in Uncollected : status'[pending'[k]] # "EMPTY"
    BY <1>4, <1>5, <1>7 DEF BatchInvariant
  <2>3. QED
    BY <1>6, <2>1, <2>2
<1>11. (\A k, l \in Uncollected : pending[k] = pending[l] => k = l)'
  BY <1>4, <1>5, <1>6 DEF BatchInvariant
<1>12. (\A k \in Uncollected :
          job[pending[k]] = PayloadOf(fi, decompSeq - Len(pending) + k - 1))'
  <2>1. \A k \in Uncollected : decompSeq' - Len(pending') + k - 1 = decompSeq - n + k - 1
    BY <1>3, <1>4 DEF TypeOK, Uncollected
  <2>2. \A k \in Uncollected : job'[pending'[k]] = PayloadOf(fi, decompSeq - n + k - 1)
    BY <1>4, <1>5, <1>7 DEF BatchInvariant
  <2>3. job'[pending'[n + 1]] = PayloadOf(fi, decompSeq)
    BY <1>1, <1>2, <1>4 DEF TypeOK, PoolTypeOK
  <2>4. decompSeq' - Len(pending') + (n + 1) - 1 = decompSeq
    BY <1>3, <1>4 DEF TypeOK
  <2>6. SUFFICES ASSUME NEW k \in Uncollected'
                 PROVE  job'[pending'[k]] = PayloadOf(fi', decompSeq' - Len(pending') + k - 1)
    BY DEF PayloadOf, AadSeq
  <2>7. CASE k \in Uncollected
    BY <1>3, <2>1, <2>2, <2>7
  <2>8. CASE k = n + 1
    BY <1>3, <2>3, <2>4, <2>8
  <2>9. QED
    BY <1>6, <2>7, <2>8
<1>13. QED
  BY <1>8, <1>9, <1>10, <1>11, <1>12 DEF BatchInvariant

\* zpar_release_slot empties the slot of the block collected last.
LEMMA ReleaseBatch ==
  ASSUME TypeOK, ControlInvariant, BatchInvariant, ReleaseBlock, authRefs' = authRefs
  PROVE  BatchInvariant'
<1> DEFINE s == pending[pi]
<1>1. /\ status' = [status EXCEPT ![s] = "EMPTY"] /\ job' = job
      /\ pi' = pi + 1 /\ UNCHANGED << pending, fi, decompSeq >>
  BY DEF ReleaseBlock, zpar_release_slot
<1>2. pi <= Len(pending) /\ pi \in Uncollected /\ s \in Slots
  BY DEF ReleaseBlock, MainGoes, ControlInvariant, MainReadsDoneSlots, Uncollected, TypeOK
<1>3. Uncollected' = Uncollected \ {pi}
  BY <1>1 DEF Uncollected, TypeOK
<1>4. \A k \in Uncollected' : pending[k] # s /\ pending[k] \in Slots
  <2> TAKE k \in Uncollected'
  <2>1. k \in Uncollected /\ k # pi
    BY <1>3
  <2>2. pending[k] # pending[pi]
    BY <1>2, <2>1 DEF BatchInvariant
  <2>3. pending \in Seq(Slots) /\ pi \in Nat \ {0}
    BY DEF TypeOK
  <2>4. k \in 1 .. Len(pending)
    BY <2>1, <2>3 DEF Uncollected
  <2> QED
    BY <2>2, <2>3, <2>4
<1>5. \A k \in Uncollected' : status'[pending[k]] = status[pending[k]]
  BY <1>1, <1>2, <1>4 DEF TypeOK, PoolTypeOK
<1>6. \A i \in Slots : status'[i] # "EMPTY" => i # s /\ status[i] # "EMPTY"
  BY <1>1, <1>2 DEF TypeOK, PoolTypeOK
<1>7. (\A i \in Slots : status[i] # "EMPTY" => \E k \in Uncollected : pending[k] = i)'
  BY <1>1, <1>3, <1>6 DEF BatchInvariant
<1>8. (\A k \in Uncollected : status[pending[k]] # "EMPTY")'
  BY <1>1, <1>3, <1>5 DEF BatchInvariant
<1>9. (\A k, l \in Uncollected : pending[k] = pending[l] => k = l)'
  BY <1>1, <1>3 DEF BatchInvariant
<1>10. (\A k \in Uncollected :
          job[pending[k]] = PayloadOf(fi, decompSeq - Len(pending) + k - 1))'
  BY <1>1, <1>3 DEF BatchInvariant, PayloadOf, AadSeq
<1>11. (pi <= Len(pending) + 1 /\ Len(pending) <= decompSeq)'
  BY <1>1, <1>2 DEF BatchInvariant, TypeOK
<1>12. QED
  BY <1>7, <1>8, <1>9, <1>10, <1>11 DEF BatchInvariant

LEMMA StepBatch ==
  ASSUME TypeOK, SlotInvariant, JobInvariant, ControlInvariant, BatchInvariant, [Next]_vars
  PROVE  BatchInvariant'
<1>0. authRefs' = authRefs
  BY ArchiveKept
<1>1. CASE SubmitBlock
  BY <1>0, <1>1, SubmitBatch
<1>2. CASE ReleaseBlock
  BY <1>0, <1>2, ReleaseBatch
<1>3. CASE OpenOutput \/ ResolveReference \/ DecodeSerially \/ CloseOutput
  <2>1. pending' = << >> /\ pi' = 1 /\ status' = status
    BY <1>3 DEF OpenOutput, ResolveReference, DecodeSerially, CloseOutput, MainGoes, poolVars,
       ControlInvariant, InBatch, Collecting
  <2>2. pi > Len(pending)
    <3>1. pending = << >> /\ pi = 1
      BY <1>3 DEF OpenOutput, ResolveReference, DecodeSerially, CloseOutput, MainGoes,
         ControlInvariant, InBatch, Collecting
    <3>2. QED
      BY <3>1
  <2>3. decompSeq' \in Nat
    <3>1. decompSeq' \in {0, decompSeq, decompSeq + 1}
      BY <1>3 DEF OpenOutput, ResolveReference, DecodeSerially, CloseOutput
    <3>2. QED
      BY <3>1 DEF TypeOK
  <2>4. QED
    BY <2>1, <2>2, <2>3, NoBatch
<1>4. CASE BatchIsCollected
  <2>1. pending' = << >> /\ pi' = 1 /\ pi > Len(pending) /\ status' = status
    BY <1>4 DEF BatchIsCollected, poolVars
  <2>2. decompSeq' \in Nat
    BY <1>4 DEF BatchIsCollected, TypeOK
  <2>3. QED
    BY <2>1, <2>2, NoBatch
<1>5. CASE \/ CreatePool \/ NoMoreEntries \/ ReadFrame \/ BatchIsFull \/ SubmitWaits
           \/ SubmitFails \/ CollectWaits \/ CollectBlock \/ ConsumeBlock
           \/ SerialFileEnds \/ DestroyPool \/ JoinWorkers
  <2>1. UNCHANGED << status, job >>
    BY <1>5 DEF CreatePool, NoMoreEntries, ReadFrame, BatchIsFull, SubmitWaits, SubmitFails,
       CollectWaits, CollectBlock, ConsumeBlock, SerialFileEnds, DestroyPool, JoinWorkers,
       zpar_create, zpar_submit_blocks, zpar_wait_blocks, zpar_wait_slot,
       zpar_destroy_signal, zpar_destroy_join, poolVars
  <2>2. UNCHANGED << pending, pi, fi, decompSeq >>
    BY <1>5 DEF CreatePool, NoMoreEntries, ReadFrame, BatchIsFull, SubmitWaits, SubmitFails,
       CollectWaits, CollectBlock, ConsumeBlock, SerialFileEnds, DestroyPool, JoinWorkers,
       driverVars
  <2>3. QED
    BY <1>0, <2>1, <2>2, SameBatch
<1>6. ASSUME NEW w \in Slots, Worker(w) PROVE BatchInvariant'
  <2>1. job' = job /\ \A i \in Slots : (status'[i] = "EMPTY") <=> (status[i] = "EMPTY")
    BY <1>6, WorkerIsStep, WorkerKeepsSlots DEF TypeOK
  <2>2. QED
    BY <1>0, <1>6, <2>1, SameBatch DEF Worker, driverVars
<1>7. CASE Spurious
  BY <1>0, <1>7, SameBatch DEF Spurious, SpuriousWakeup, MainWakesSpuriously,
     WorkerWakesSpuriously, driverVars
<1>8. CASE UNCHANGED vars
  BY <1>0, <1>8, SameBatch DEF vars, poolVars, driverVars
<1>9. QED
  BY <1>1, <1>2, <1>3, <1>4, <1>5, <1>6, <1>7, <1>8 DEF Next, MainStep, Returned

-----------------------------------------------------------------------------
(* RingInvariant *)

\* A step that keeps the batch keeps its place in the ring.
LEMMA SameRing ==
  ASSUME TypeOK, RingInvariant, UNCHANGED << pending, fi, decompSeq, authRefs >>,
         mpc' = "submit" => mpc = "submit" \/ Len(pending) < Threads
  PROVE  RingInvariant'
<1>1. (\A k \in 1 .. Len(pending) :
         pending[k] = SlotOf(AadSeq(fi, decompSeq - Len(pending) + k - 1)))'
  BY DEF RingInvariant, SlotOf, AadSeq
<1>2. QED
  BY <1>1 DEF RingInvariant

\* Without a batch there is nothing to place.
LEMMA NoRing ==
  ASSUME pending' = << >>, mpc' # "submit"
  PROVE  RingInvariant'
<1>1. Len(pending') = 0
  OBVIOUS
<1>2. QED
  BY <1>1 DEF RingInvariant

LEMMA SubmitRing ==
  ASSUME TypeOK, ControlInvariant, RingInvariant, SubmitBlock, authRefs' = authRefs
  PROVE  RingInvariant'
<1> DEFINE n == Len(pending)
<1>1. /\ mpc' = "fill" /\ fi' = fi /\ decompSeq' = decompSeq + 1
      /\ pending' = Append(pending, NextSlot)
  BY DEF SubmitBlock, MainGoes
<1>2. NextSlot \in Slots
  BY InFileEntry, NextSlotType, ExtractConstants
     DEF SubmitBlock, MainGoes, InFile, InBatch, FileNumbers, TypeOK
<1>3. /\ n \in Nat /\ Len(pending') = n + 1
      /\ \A k \in 1 .. n : pending'[k] = pending[k]
      /\ pending'[n + 1] = NextSlot
  BY <1>1, <1>2, AppendFacts DEF TypeOK
<1>4. decompSeq \in Nat
  BY DEF TypeOK
<1> HIDE DEF n
<1>5. ASSUME NEW k \in 1 .. n + 1
      PROVE  pending'[k] = SlotOf(AadSeq(fi, decompSeq - n + k - 1))
  <2>1. CASE k = n + 1
    <3>1. decompSeq - n + k - 1 = decompSeq
      BY <1>3, <1>4, <2>1
    <3>2. QED
      BY <1>3, <2>1, <3>1 DEF NextSlot
  <2>2. CASE k # n + 1
    <3>1. k \in 1 .. n
      BY <1>3, <2>2
    <3>2. QED
      BY <1>3, <3>1 DEF RingInvariant, n
  <2>3. QED
    BY <2>1, <2>2
<1>6. ASSUME NEW k \in 1 .. Len(pending')
      PROVE  pending'[k] = SlotOf(AadSeq(fi', decompSeq' - Len(pending') + k - 1))
  <2>1. k \in 1 .. n + 1
    BY <1>3
  <2>2. decompSeq' - Len(pending') + k - 1 = decompSeq - n + k - 1
    BY <1>1, <1>3, <1>4, <2>1
  <2>3. pending'[k] = SlotOf(AadSeq(fi, decompSeq - n + k - 1))
    BY <1>5, <2>1
  <2>4. fi' = fi
    BY <1>1
  <2>5. QED
    BY <2>2, <2>3, <2>4, Zenon
<1>7. QED
  BY <1>1, <1>6 DEF RingInvariant, SlotOf, AadSeq

LEMMA StepRing ==
  ASSUME TypeOK, ControlInvariant, RingInvariant, [Next]_vars
  PROVE  RingInvariant'
<1>0. authRefs' = authRefs
  BY ArchiveKept
<1>1. CASE SubmitBlock
  BY <1>0, <1>1, SubmitRing
<1>2. CASE OpenOutput \/ ResolveReference \/ DecodeSerially \/ CloseOutput \/ BatchIsCollected
  <2>1. pending' = << >> /\ mpc' # "submit"
    BY <1>2 DEF OpenOutput, ResolveReference, DecodeSerially, CloseOutput, BatchIsCollected,
       MainGoes, ControlInvariant, InBatch
  <2>2. QED
    BY <2>1, NoRing
<1>3. CASE \/ CreatePool \/ NoMoreEntries \/ ReadFrame \/ BatchIsFull \/ SubmitFails
           \/ CollectBlock \/ ConsumeBlock \/ ReleaseBlock \/ SerialFileEnds
           \/ DestroyPool \/ JoinWorkers
  <2>1. UNCHANGED << pending, fi, decompSeq >>
    BY <1>3 DEF CreatePool, NoMoreEntries, ReadFrame, BatchIsFull, SubmitFails,
       CollectBlock, ConsumeBlock, ReleaseBlock, SerialFileEnds, DestroyPool, JoinWorkers
  <2>2. mpc' = "submit" => Len(pending) < Threads
    BY <1>3 DEF CreatePool, NoMoreEntries, ReadFrame, BatchIsFull, SubmitFails,
       CollectBlock, ConsumeBlock, ReleaseBlock, SerialFileEnds, DestroyPool, JoinWorkers,
       MainGoes
  <2>3. QED
    BY <1>0, <2>1, <2>2, SameRing
<1>4. CASE UNCHANGED driverVars
  BY <1>0, <1>4, SameRing DEF driverVars
<1>5. QED
  BY <1>1, <1>2, <1>3, <1>4
     DEF Next, MainStep, Returned, Worker, Spurious, SubmitWaits, CollectWaits, vars

-----------------------------------------------------------------------------
(* ContentInvariant *)

\* What it says of one entry.
EntryInvariant(f) ==
  /\ berr[f] => Excused(f)
  /\ f < fi => result[f] = IF berr[f] THEN "failed" ELSE "published"
  /\ f < fi /\ ~berr[f] => Holds(f, Len(frames[f]))
  /\ f > fi \/ (f = fi /\ mpc \notin InFile) => Holds(f, 0) /\ ~berr[f]
  /\ f >= fi => result[f] = "pending"

\* What any step leaves alone: the archive, the excuses, and the entries other
\* than the one that is worked on.
StepKeepsEntries ==
  /\ UNCHANGED << frames, ioFails >>
  /\ errorFlag # "OK" => errorFlag' # "OK"
  /\ \A f \in FileNumbers \ {fi} :
       content'[f] = content[f] /\ berr'[f] = berr[f] /\ result'[f] = result[f]

\* What an entry holds, and the excuses it has, depend on nothing else.
LEMMA SameEntry ==
  ASSUME UNCHANGED frames, NEW f \in FileNumbers, content'[f] = content[f], NEW count
  PROVE  Holds(f, count) <=> Holds(f, count)'
  BY DEF Holds, Sound

LEMMA ExcusesStay ==
  ASSUME UNCHANGED << frames, ioFails >>, errorFlag # "OK" => errorFlag' # "OK",
         NEW f \in FileNumbers, Excused(f)
  PROVE  Excused(f)'
  BY DEF Excused, Sound

LEMMA OtherEntries ==
  ASSUME TypeOK, ContentInvariant, StepKeepsEntries,
         fi' = fi \/ (fi' = fi + 1 /\ mpc' \notin InFile)
  PROVE  \A f \in FileNumbers \ {fi} : EntryInvariant(f)'
<1> SUFFICES ASSUME NEW f \in FileNumbers, f # fi PROVE EntryInvariant(f)'
  OBVIOUS
<1>1. /\ frames' = frames /\ content'[f] = content[f] /\ berr'[f] = berr[f]
      /\ result'[f] = result[f] /\ (Excused(f) => Excused(f)')
  BY ExcusesStay DEF StepKeepsEntries
<1>2. EntryInvariant(f)
  BY DEF ContentInvariant, EntryInvariant
<1>3. Holds(f, 0) => Holds(f, 0)'
  BY <1>1, SameEntry
<1>4. Holds(f, Len(frames[f])) => Holds(f, Len(frames[f]))'
  <2>1. PICK n : n = Len(frames[f])
    OBVIOUS
  <2>2. n = Len(frames'[f])
    BY <1>1, <2>1
  <2>3. Holds(f, n) => Holds(f, n)'
    BY <1>1, SameEntry
  <2>4. QED
    BY <2>1, <2>2, <2>3 DEF Holds, Sound
<1>5. /\ f < fi' => f < fi
      /\ f >= fi' => f >= fi
      /\ f > fi' \/ (f = fi' /\ mpc' \notin InFile) => f > fi
  BY DEF FileNumbers, TypeOK
<1>6. QED
  BY <1>1, <1>2, <1>3, <1>4, <1>5 DEF EntryInvariant

\* A step that writes nothing and ends no entry keeps ContentInvariant, if an error
\* it reports is excused and it neither collects nor forgets a block.
LEMMA KeepContent ==
  ASSUME TypeOK, ContentInvariant, StepKeepsEntries, UNCHANGED << fi, content, result >>,
         fi \in FileNumbers => (berr[fi] => berr'[fi]),
         fi \in FileNumbers /\ berr'[fi] => berr[fi] \/ Excused(fi)',
         mpc' \in InFile => mpc \in InFile /\ fi \in FileNumbers,
         mpc' \in InFile /\ ~berr'[fi] => Collected' = Collected,
         mpc' \notin InFile => mpc \notin InFile /\ berr' = berr
  PROVE  ContentInvariant'
<1>1. \A f \in FileNumbers \ {fi} : EntryInvariant(f)'
  BY OtherEntries
<1>2. fi \in FileNumbers => EntryInvariant(fi)'
  <2> SUFFICES ASSUME fi \in FileNumbers PROVE EntryInvariant(fi)'
    OBVIOUS
  <2>1. EntryInvariant(fi)
    BY DEF ContentInvariant, EntryInvariant
  <2>2. ~(fi < fi) /\ ~(fi > fi) /\ fi >= fi
    BY DEF FileNumbers
  <2>3. berr'[fi] => Excused(fi)'
    BY <2>1, ExcusesStay DEF EntryInvariant, StepKeepsEntries
  <2>4. mpc' \notin InFile => Holds(fi, 0)' /\ ~berr'[fi]
    BY <2>1, SameEntry DEF EntryInvariant, StepKeepsEntries
  <2>5. result'[fi] = "pending"
    BY <2>1, <2>2 DEF EntryInvariant
  <2>6. fi' = fi /\ ~(fi < fi') /\ ~(fi > fi')
    BY <2>2
  <2>7. QED
    BY <2>3, <2>4, <2>5, <2>6 DEF EntryInvariant
<1>3. (mpc \in InFile /\ ~berr[fi] => Holds(fi, Collected))'
  <2> SUFFICES ASSUME mpc' \in InFile, ~berr'[fi] PROVE Holds(fi, Collected)'
    OBVIOUS
  <2>1. mpc \in InFile /\ fi \in FileNumbers /\ Collected' = Collected
    OBVIOUS
  <2>2. Holds(fi, Collected)
    BY <2>1 DEF ContentInvariant
  <2>3. QED
    BY <2>1, <2>2 DEF StepKeepsEntries, Holds, Sound
<1>4. (\A f \in FileNumbers : EntryInvariant(f))'
  BY <1>1, <1>2
<1>5. QED
  BY <1>3, <1>4 DEF ContentInvariant, EntryInvariant

\* Appending block c to the c blocks that an entry holds.
LEMMA AppendBlock ==
  ASSUME TypeOK, NEW f \in FileNumbers, NEW c \in Nat, Holds(f, c), UNCHANGED frames,
         Sound(frames[f][c + 1]), content' = [content EXCEPT ![f] = Append(@, c)]
  PROVE  Holds(f, c + 1)'
<1> DEFINE old == [k \in 1 .. c |-> k - 1]
           new == [k \in 1 .. c + 1 |-> k - 1]
<1>1. content[f] = old /\ content'[f] = Append(old, c)
  BY DEF Holds, TypeOK
<1>2. old \in Seq(Nat) /\ Len(old) = c
  BY <1>1 DEF TypeOK
<1>3. /\ Append(old, c) \in Seq(Nat) /\ Len(Append(old, c)) = c + 1
      /\ \A k \in 1 .. c : Append(old, c)[k] = old[k]
      /\ Append(old, c)[c + 1] = c
  BY <1>2, AppendFacts
<1>4. Append(old, c) = new
  <2>1. \A k \in 1 .. c + 1 : Append(old, c)[k] = new[k]
    BY <1>3
  <2>2. DOMAIN Append(old, c) = 1 .. c + 1
    BY <1>3
  <2>3. Append(old, c) = [k \in DOMAIN Append(old, c) |-> Append(old, c)[k]]
    BY <1>3
  <2>4. QED
    BY <2>1, <2>2, <2>3
<1>5. \A k \in 1 .. c + 1 : Sound(frames[f][k])
  BY DEF Holds
<1>6. QED
  BY <1>1, <1>4, <1>5 DEF Holds, Sound

\* Writing block c behind the c blocks that were collected, which may fail.
LEMMA WriteContent ==
  ASSUME TypeOK, ContentInvariant, StepKeepsEntries, NEW c \in Nat, WriteChunk(c),
         fi \in FileNumbers, UNCHANGED << fi, result >>, mpc \in InFile, mpc' \in InFile,
         Sound(frames[fi][c + 1]), Collected = c, Collected' = c + 1
  PROVE  ContentInvariant'
<1>1. PICK fails \in MayFail :
        /\ content' = IF fails THEN content ELSE [content EXCEPT ![fi] = Append(@, c)]
        /\ Damaged(fails)
  BY DEF WriteChunk
<1>2. fails \in BOOLEAN /\ (fails => ioFails) /\ berr'[fi] = (berr[fi] \/ fails)
  BY <1>1, MayFailType DEF MayFail, Damaged, TypeOK
<1>3. \A f \in FileNumbers \ {fi} : EntryInvariant(f)'
  BY OtherEntries
<1>4. EntryInvariant(fi)'
  <2>1. EntryInvariant(fi)
    BY DEF ContentInvariant, EntryInvariant
  <2>2. fi' = fi /\ ~(fi < fi') /\ ~(fi > fi') /\ fi >= fi
    BY DEF FileNumbers
  <2>3. berr'[fi] => Excused(fi)'
    BY <1>2, <2>1, ExcusesStay DEF EntryInvariant, StepKeepsEntries, Excused
  <2>4. QED
    BY <2>1, <2>2, <2>3 DEF EntryInvariant
<1>5. (mpc \in InFile /\ ~berr[fi] => Holds(fi, Collected))'
  <2> SUFFICES ASSUME ~berr'[fi] PROVE Holds(fi, Collected)'
    OBVIOUS
  <2>1. ~fails /\ Holds(fi, c)
    BY <1>2 DEF ContentInvariant
  <2>2. PICK f \in FileNumbers : f = fi
    OBVIOUS
  <2>3. Holds(f, c + 1)'
    BY <1>1, <2>1, <2>2, AppendBlock DEF StepKeepsEntries
  <2>4. QED
    BY <2>2, <2>3 DEF Holds
<1>6. (\A f \in FileNumbers : EntryInvariant(f))'
  BY <1>3, <1>4
<1>7. QED
  BY <1>5, <1>6 DEF ContentInvariant, EntryInvariant

\* Main writes, damages and ends only the entry it works on.
LEMMA StepKeeps ==
  ASSUME TypeOK, SlotInvariant, [Next]_vars
  PROVE  StepKeepsEntries
<1>1. UNCHANGED << frames, ioFails >> /\ (errorFlag # "OK" => errorFlag' # "OK")
  BY ArchiveKept, FlagSticks
<1>2. ASSUME NEW f \in FileNumbers, f # fi
      PROVE  content'[f] = content[f] /\ berr'[f] = berr[f] /\ result'[f] = result[f]
  <2> USE <1>2 DEF TypeOK, Damaged
  <2>1. CASE ConsumeBlock \/ ResolveReference \/ DecodeSerially
    <3>1. content' = content \/ \E blk : content' = [content EXCEPT ![fi] = Append(@, blk)]
      BY <2>1 DEF ConsumeBlock, ResolveReference, DecodeSerially, WriteChunk
    <3>2. \E when : berr' = [berr EXCEPT ![fi] = @ \/ when]
      BY <2>1 DEF ConsumeBlock, ResolveReference, DecodeSerially, WriteChunk
    <3>3. result' = result
      BY <2>1 DEF ConsumeBlock, ResolveReference, DecodeSerially
    <3>4. QED
      BY <3>1, <3>2, <3>3
  <2>2. CASE OpenOutput \/ CloseOutput
    BY <2>2 DEF OpenOutput, CloseOutput
  <2>3. CASE ReadFrame \/ SubmitFails
    BY <2>3 DEF ReadFrame, SubmitFails
  <2>4. CASE \/ CreatePool \/ NoMoreEntries \/ BatchIsFull \/ SubmitBlock \/ CollectBlock
             \/ ReleaseBlock \/ BatchIsCollected \/ SerialFileEnds \/ DestroyPool
             \/ JoinWorkers
    BY <2>4 DEF CreatePool, NoMoreEntries, BatchIsFull, SubmitBlock, CollectBlock,
       ReleaseBlock, BatchIsCollected, SerialFileEnds, DestroyPool, JoinWorkers
  <2>5. CASE UNCHANGED driverVars
    BY <2>5 DEF driverVars
  <2>6. QED
    BY <2>1, <2>2, <2>3, <2>4, <2>5
       DEF Next, MainStep, Returned, Worker, Spurious, SubmitWaits, CollectWaits, vars
<1>3. QED
  BY <1>1, <1>2 DEF StepKeepsEntries

\* OpenOutput: the new entry is empty, or its output is refused.
LEMMA OpenContent ==
  ASSUME TypeOK, SlotInvariant, ControlInvariant, ContentInvariant, OpenOutput
  PROVE  ContentInvariant'
<1>1. StepKeepsEntries
  BY StepKeeps DEF Next, MainStep
<1>2. PICK e \in FileNumbers : e = fi
  BY ExtractConstants DEF OpenOutput, TypeOK, FileNumbers
<1>3. mpc = "open" /\ content' = content /\ mpc \notin InFile
  BY DEF OpenOutput, InFile, InBatch
<1>4. Holds(e, 0)' /\ ~berr[e] /\ result[e] = "pending"
  <2>1. EntryInvariant(e) /\ e >= fi
    BY <1>2 DEF ContentInvariant, EntryInvariant, FileNumbers
  <2>2. Holds(e, 0) /\ ~berr[e] /\ result[e] = "pending"
    BY <1>2, <1>3, <2>1 DEF EntryInvariant
  <2>3. QED
    BY <1>1, <1>3, <2>2, SameEntry DEF StepKeepsEntries
<1>5. CASE /\ mpc' = IF ctx = "live" /\ Len(frames[fi]) > 1 THEN "fill" ELSE "serial"
           /\ UNCHANGED << result, berr, fi >>
  <2>1. mpc' \in InFile
    BY <1>5 DEF InFile, InBatch
  <2>2. \A f \in FileNumbers \ {e} : EntryInvariant(f)'
    BY <1>1, <1>2, <1>5, OtherEntries
  <2>3. EntryInvariant(e)'
    <3>1. fi' = e /\ ~(e < fi') /\ ~(e > fi')
      BY <1>2, <1>5 DEF FileNumbers
    <3>2. QED
      BY <1>4, <1>5, <2>1, <3>1 DEF EntryInvariant
  <2>4. Collected' = 0
    <3>1. pending' = << >> /\ pi' = 1 /\ decompSeq' = 0
      BY <1>3 DEF OpenOutput, ControlInvariant, InBatch, Collecting
    <3>2. Len(pending') = 0 /\ mpc' # "release"
      BY <1>5, <3>1
    <3>3. QED
      BY <3>1, <3>2 DEF Collected
  <2>5. Holds(fi, Collected)'
    BY <1>2, <1>4, <1>5, <2>4 DEF Holds
  <2>6. (\A f \in FileNumbers : EntryInvariant(f))'
    BY <2>2, <2>3
  <2>7. QED
    BY <2>5, <2>6 DEF ContentInvariant, EntryInvariant
<1>6. CASE /\ result' = [result EXCEPT ![fi] = "failed"] /\ Damaged(TRUE)
           /\ fi' = fi + 1 /\ UNCHANGED mpc /\ ioFails
  <2>1. mpc' \notin InFile
    BY <1>3, <1>6
  <2>2. \A f \in FileNumbers \ {e} : EntryInvariant(f)'
    BY <1>1, <1>2, <1>6, <2>1, OtherEntries
  <2>3. EntryInvariant(e)'
    <3>1. e < fi' /\ ~(e >= fi') /\ ~(e > fi') /\ e # fi'
      BY <1>2, <1>6 DEF FileNumbers
    <3>2. result'[e] = "failed" /\ berr'[e]
      BY <1>2, <1>6 DEF Damaged, TypeOK
    <3>3. Excused(e)'
      BY <1>1, <1>6 DEF Excused, StepKeepsEntries
    <3>4. QED
      BY <3>1, <3>2, <3>3 DEF EntryInvariant
  <2>4. (\A f \in FileNumbers : EntryInvariant(f))'
    BY <2>2, <2>3
  <2>5. QED
    BY <2>1, <2>4 DEF ContentInvariant, EntryInvariant
<1>7. QED
  BY <1>5, <1>6 DEF OpenOutput, MayFail

\* Outside a batch the frames read so far are the blocks collected.
LEMMA CollectedOutsideBatch ==
  ASSUME TypeOK, pending = << >>, pi = 1, mpc # "release"
  PROVE  Collected = decompSeq
<1>1. Len(pending) = 0 /\ decompSeq \in Nat
  BY DEF TypeOK
<1>2. Collected = decompSeq - Len(pending) + pi - 1
  BY DEF Collected
<1>3. QED
  BY <1>1, <1>2

\* CloseOutput: without an error all blocks are there, so only a wrong size or hash
\* can still refuse the file.
LEMMA CloseContent ==
  ASSUME TypeOK, SlotInvariant, ControlInvariant, ContentInvariant, CloseOutput
  PROVE  ContentInvariant'
<1>1. StepKeepsEntries
  BY StepKeeps DEF Next, MainStep
<1>2. mpc = "close" /\ mpc \in InFile /\ fi \in FileNumbers
  BY InFileEntry DEF CloseOutput, MainGoes, InFile
<1>3. PICK e \in FileNumbers : e = fi
  BY <1>2
<1>4. PICK wrong \in MayFail :
        LET failed == berr[e] \/ wrong \/ Len(content[e]) # Len(frames[e]) IN
        /\ Damaged(failed)
        /\ result' = [result EXCEPT ![e] = IF failed THEN "failed" ELSE "published"]
  BY <1>3 DEF CloseOutput
<1> DEFINE failed == berr[e] \/ wrong \/ Len(content[e]) # Len(frames[e])
<1>5. fi' = e + 1 /\ mpc' = "open" /\ content' = content /\ mpc' \notin InFile
  BY <1>3 DEF CloseOutput, MainGoes, InFile, InBatch
<1>6. ~berr[e] => Holds(e, Len(frames[e])) /\ Len(content[e]) = Len(frames[e])
  <2> SUFFICES ASSUME ~berr[e]
               PROVE  Holds(e, Len(frames[e])) /\ Len(content[e]) = Len(frames[e])
    OBVIOUS
  <2>1. pending = << >> /\ pi = 1 /\ decompSeq = Len(frames[e])
    BY <1>2, <1>3 DEF ControlInvariant, InBatch, Collecting
  <2>2. Holds(e, Len(frames[e]))
    BY <1>2, <1>3, <2>1, CollectedOutsideBatch DEF ContentInvariant
  <2>3. content[e] = [k \in 1 .. Len(frames[e]) |-> k - 1] /\ Len(frames[e]) \in Nat
    BY <2>2, FramesType DEF Holds, TypeOK
  <2>4. content[e] \in Seq(Nat)
    BY DEF TypeOK
  <2>5. Len(content[e]) = Len(frames[e])
    BY <2>3, <2>4
  <2>6. QED
    BY <2>2, <2>5
<1>7. berr'[e] = (berr[e] \/ failed) /\ failed = (berr[e] \/ wrong)
  BY <1>3, <1>4, <1>6 DEF Damaged, TypeOK
<1>8. \A f \in FileNumbers \ {e} : EntryInvariant(f)'
  BY <1>1, <1>3, <1>5, OtherEntries
<1>9. EntryInvariant(e)'
  <2>1. e < fi' /\ ~(e >= fi') /\ ~(e > fi') /\ e # fi'
    BY <1>5 DEF FileNumbers
  <2>2. result'[e] = IF failed THEN "failed" ELSE "published"
    BY <1>4 DEF TypeOK
  <2>3. berr'[e] => Excused(e)'
    <3>1. wrong => ioFails
      BY <1>4 DEF MayFail
    <3>2. berr[e] => Excused(e)
      BY DEF ContentInvariant
    <3>3. QED
      BY <1>1, <1>7, <3>1, <3>2, ExcusesStay DEF StepKeepsEntries, Excused
  <2>4. ~berr'[e] => Holds(e, Len(frames[e]))'
    <3>1. ~berr'[e] => Holds(e, Len(frames[e]))
      BY <1>6, <1>7
    <3>2. QED
      BY <1>1, <1>5, <3>1 DEF StepKeepsEntries, Holds, Sound
  <2>5. berr'[e] <=> failed
    BY <1>7
  <2>6. QED
    BY <2>1, <2>2, <2>3, <2>4, <2>5 DEF EntryInvariant
<1>10. (\A f \in FileNumbers : EntryInvariant(f))'
  BY <1>8, <1>9
<1>11. QED
  BY <1>5, <1>10 DEF ContentInvariant, EntryInvariant

\* A block that main finds without an error is the next one of its entry, and its
\* frame is sound.
LEMMA CollectedBlock ==
  ASSUME TypeOK, SlotInvariant, JobInvariant, VerdictInvariant, BatchInvariant,
         ControlInvariant, mpc = "consume"
  PROVE  LET s == pending[pi]
             c == decompSeq - Len(pending) + pi - 1
         IN  /\ c \in Nat /\ Collected = c /\ fi \in FileNumbers
             /\ error[s] # "OK" => errorFlag # "OK"
             /\ error[s] = "OK" =>
                  /\ output[s].blk = c
                  /\ c < Len(frames[fi])
                  /\ Sound(frames[fi][c + 1])
<1> DEFINE s == pending[pi]
           c == decompSeq - Len(pending) + pi - 1
<1>1. pi \in Uncollected /\ s \in Slots /\ status[s] = "DONE"
  BY DEF ControlInvariant, MainReadsDoneSlots, Uncollected, TypeOK
<1>2. c \in Nat /\ Collected = c
  <2>1. Len(pending) \in Nat /\ decompSeq \in Nat /\ pi \in Nat \ {0}
    BY DEF TypeOK
  <2>2. Len(pending) <= decompSeq
    BY DEF BatchInvariant
  <2>3. Collected = c
    BY DEF Collected
  <2>4. QED
    BY <2>1, <2>2, <2>3
<1>3. fi \in FileNumbers
  BY InFileEntry DEF InFile, InBatch
<1>4. error[s] # "OK" => errorFlag # "OK"
  BY <1>1 DEF VerdictInvariant
<1>5. ASSUME error[s] = "OK"
      PROVE  output[s].blk = c /\ c < Len(frames[fi]) /\ Sound(frames[fi][c + 1])
  <2>1. output[s] = job[s] /\ job[s] # NoJob /\ KindOf(job[s]) = "DATA"
    BY <1>1, <1>5 DEF SlotInvariant, DoneSlotsCarryTheirJob, VerdictInvariant
  <2>2. job[s] = PayloadOf(fi, c)
    BY <1>1 DEF BatchInvariant
  <2>3. job[s].file = fi /\ job[s].blk = c
    BY <2>2 DEF PayloadOf
  <2>4. QED
    BY <1>1, <2>1, <2>3 DEF JobInvariant, KindOf, Sound
<1>6. QED
  BY <1>2, <1>3, <1>4, <1>5

LEMMA ConsumeContent ==
  ASSUME TypeOK, SlotInvariant, JobInvariant, VerdictInvariant, BatchInvariant,
         ControlInvariant, ContentInvariant, ConsumeBlock
  PROVE  ContentInvariant'
<1> DEFINE s == pending[pi]
           c == decompSeq - Len(pending) + pi - 1
<1>1. StepKeepsEntries
  BY StepKeeps DEF Next, MainStep
<1>2. /\ mpc = "consume" /\ mpc' = "release" /\ mpc \in InFile /\ mpc' \in InFile
      /\ UNCHANGED << fi, decompSeq, pending, pi, result >>
  BY DEF ConsumeBlock, MainGoes, InFile, InBatch
<1>3. /\ c \in Nat /\ Collected = c /\ fi \in FileNumbers
      /\ error[s] # "OK" => errorFlag # "OK"
      /\ error[s] = "OK" => output[s].blk = c /\ Sound(frames[fi][c + 1])
  BY <1>2, CollectedBlock
<1>4. CASE error[s] # "OK"
  <2>1. content' = content /\ Damaged(TRUE)
    BY <1>4 DEF ConsumeBlock
  <2>2. berr'[fi]
    BY <1>3, <2>1 DEF Damaged, TypeOK
  <2>3. Excused(fi)'
    BY <1>1, <1>3, <1>4 DEF StepKeepsEntries, Excused
  <2>4. QED
    BY <1>1, <1>2, <1>3, <2>1, <2>2, <2>3, KeepContent
<1>5. CASE error[s] = "OK"
  <2>1. WriteChunk(c)
    BY <1>3, <1>5 DEF ConsumeBlock
  <2>2. Collected' = c + 1
    <3>1. Collected' = decompSeq - Len(pending) + pi - 0
      BY <1>2 DEF Collected
    <3>2. Len(pending) \in Nat /\ decompSeq \in Nat /\ pi \in Nat
      BY DEF TypeOK
    <3>3. QED
      BY <3>1, <3>2
  <2>3. PICK n \in Nat : n = c
    BY <1>3
  <2>4. QED
    BY <1>1, <1>2, <1>3, <1>5, <2>1, <2>2, <2>3, WriteContent
<1>6. QED
  BY <1>4, <1>5

\* ResolveReference and DecodeSerially: the next frame is written at once, or it is
\* not sound and the entry ends.
LEMMA DirectContent ==
  ASSUME TypeOK, SlotInvariant, ControlInvariant, ContentInvariant,
         ResolveReference \/ DecodeSerially
  PROVE  ContentInvariant'
<1>1. StepKeepsEntries
  BY StepKeeps DEF Next, MainStep
<1>2. /\ mpc \in {"reference", "serial"} /\ mpc \in InFile
      /\ UNCHANGED << fi, pending, pi, result >>
  BY DEF ResolveReference, DecodeSerially, InFile
<1>3. fi \in FileNumbers
  BY <1>2, InFileEntry
<1>4. /\ pending = << >> /\ pi = 1 /\ decompSeq \in Nat /\ Collected = decompSeq
      /\ decompSeq < Len(frames[fi])
  <2>1. pending = << >> /\ pi = 1 /\ decompSeq \in Nat
    BY <1>2 DEF ControlInvariant, InBatch, Collecting, TypeOK
  <2>2. mpc = "reference" \/ Remaining > 0
    BY DEF ResolveReference, DecodeSerially
  <2>3. decompSeq < Len(frames[fi])
    BY <1>3, <2>1, <2>2, FramesType DEF ControlInvariant, Remaining, TypeOK
  <2>4. QED
    BY <1>2, <2>1, <2>3, CollectedOutsideBatch
<1>5. CASE /\ Sound(NextKind) /\ WriteChunk(decompSeq) /\ decompSeq' = decompSeq + 1
           /\ mpc' \in {"fill", "serial"}
  <2>1. Collected' = decompSeq + 1
    <3>1. Collected' = decompSeq' - Len(pending') + pi' - 1
      BY <1>5 DEF Collected
    <3>2. Len(pending') = 0 /\ pi' = 1
      BY <1>2, <1>4
    <3>3. QED
      BY <1>4, <1>5, <3>1, <3>2
  <2>2. mpc' \in InFile /\ Sound(frames[fi][decompSeq + 1])
    BY <1>5 DEF InFile, InBatch, NextKind
  <2>3. QED
    BY <1>1, <1>2, <1>3, <1>4, <1>5, <2>1, <2>2, WriteContent
<1>6. CASE /\ ~Sound(NextKind) \/ ioFails
           /\ Damaged(TRUE) /\ mpc' = "close" /\ UNCHANGED << content, decompSeq >>
  <2>1. berr'[fi] /\ mpc' \in InFile
    BY <1>3, <1>6 DEF Damaged, TypeOK, InFile
  <2>2. Excused(fi)'
    <3>1. decompSeq + 1 \in 1 .. Len(frames[fi])
      BY <1>3, <1>4, FramesType DEF TypeOK
    <3>2. Excused(fi)
      BY <1>6, <3>1 DEF Excused, NextKind
    <3>3. QED
      BY <1>1, <1>2, <3>2 DEF StepKeepsEntries, Excused, Sound
  <2>3. QED
    BY <1>1, <1>2, <1>3, <1>6, <2>1, <2>2, KeepContent
<1>7. QED
  BY <1>2, <1>5, <1>6 DEF ResolveReference, DecodeSerially, Sound

\* Reading a frame, submitting it and collecting it writes nothing.
LEMMA BatchContent ==
  ASSUME TypeOK, SlotInvariant, BatchInvariant, ControlInvariant, ContentInvariant,
         \/ SubmitBlock \/ SubmitFails \/ ReadFrame \/ BatchIsFull \/ CollectBlock
         \/ ReleaseBlock \/ BatchIsCollected
  PROVE  ContentInvariant'
<1>1. StepKeepsEntries
  BY StepKeeps DEF Next, MainStep
<1>2. mpc \in InBatch /\ mpc' \in InFile /\ UNCHANGED << fi, content, result >>
  BY DEF SubmitBlock, SubmitFails, ReadFrame, BatchIsFull, CollectBlock, ReleaseBlock,
     BatchIsCollected, MainGoes, InBatch, InFile
<1>3. mpc \in InFile /\ fi \in FileNumbers
  BY <1>2, InFileEntry DEF InFile
<1>4. decompSeq \in Nat /\ pi \in Nat \ {0} /\ Len(pending) \in Nat
  BY DEF TypeOK
<1>5. Collected' = Collected
  <2>1. CASE SubmitBlock
    <3>1. /\ mpc = "submit" /\ mpc' = "fill" /\ pi' = pi
          /\ decompSeq' = decompSeq + 1 /\ pending' = Append(pending, NextSlot)
      BY <2>1 DEF SubmitBlock, MainGoes
    <3>2. NextSlot \in Slots
      BY <1>3, NextSlotType, ExtractConstants DEF FileNumbers, TypeOK
    <3>3. Len(pending') = Len(pending) + 1
      BY <3>1, <3>2, AppendFacts DEF TypeOK
    <3>4. /\ Collected = decompSeq - Len(pending) + pi - 1
          /\ Collected' = decompSeq' - Len(pending') + pi' - 1
      BY <3>1 DEF Collected
    <3>5. QED
      BY <1>4, <3>1, <3>3, <3>4
  <2>2. CASE SubmitFails \/ ReadFrame \/ BatchIsFull \/ CollectBlock
    <3>1. mpc # "release" /\ mpc' # "release" /\ UNCHANGED << decompSeq, pending, pi >>
      BY <2>2 DEF SubmitFails, ReadFrame, BatchIsFull, CollectBlock, MainGoes
    <3>2. QED
      BY <3>1 DEF Collected
  <2>3. CASE ReleaseBlock
    <3>1. mpc = "release" /\ mpc' = "collect" /\ pi' = pi + 1 /\ UNCHANGED << decompSeq, pending >>
      BY <2>3 DEF ReleaseBlock, MainGoes
    <3>2. /\ Collected = decompSeq - Len(pending) + pi - 0
          /\ Collected' = decompSeq - Len(pending) + (pi + 1) - 1
      BY <3>1 DEF Collected
    <3>3. QED
      BY <1>4, <3>2
  <2>4. CASE BatchIsCollected
    <3>1. /\ mpc = "collect" /\ mpc' # "release" /\ pi' = 1 /\ pending' = << >>
          /\ decompSeq' = decompSeq /\ pi > Len(pending)
      BY <2>4 DEF BatchIsCollected
    <3>2. pi = Len(pending) + 1 /\ Len(pending') = 0
      BY <1>4, <3>1 DEF BatchInvariant
    <3>3. /\ Collected = decompSeq - Len(pending) + pi - 1
          /\ Collected' = decompSeq - Len(pending') + 1 - 1
      BY <3>1 DEF Collected
    <3>4. QED
      BY <1>4, <3>2, <3>3
  <2>5. QED
    BY <2>1, <2>2, <2>3, <2>4
<1>6. (berr[fi] => berr'[fi]) /\ (berr'[fi] => berr[fi] \/ Excused(fi)')
  <2>1. CASE UNCHANGED berr
    BY <1>2, <2>1
  <2>2. CASE SubmitFails
    BY <1>1, <1>3, <2>2 DEF SubmitFails, Damaged, TypeOK, Excused, StepKeepsEntries
  <2>3. CASE ReadFrame
    <3>1. PICK fails \in MayFail : Damaged(fails \/ NextKind = "STRAY") /\ Remaining > 0
      BY <2>3 DEF ReadFrame
    <3>2. fails \/ NextKind = "STRAY" => Excused(fi)'
      <4>1. decompSeq + 1 \in 1 .. Len(frames[fi])
        BY <1>3, <1>4, <3>1, FramesType DEF TypeOK, Remaining
      <4>2. fails => ioFails
        BY <3>1 DEF MayFail
      <4>3. NextKind = "STRAY" => ~Sound(frames[fi][decompSeq + 1])
        BY DEF NextKind, Sound
      <4>4. fails \/ NextKind = "STRAY" => Excused(fi)
        BY <4>1, <4>2, <4>3 DEF Excused
      <4>5. QED
        BY <1>1, <1>2, <4>4 DEF StepKeepsEntries, Excused, Sound
    <3>3. berr'[fi] = (berr[fi] \/ fails \/ NextKind = "STRAY")
      BY <1>2, <1>3, <3>1 DEF Damaged, TypeOK
    <3>4. QED
      BY <1>2, <3>2, <3>3
  <2>4. QED
    BY <2>1, <2>2, <2>3 DEF SubmitBlock, BatchIsFull, CollectBlock, ReleaseBlock,
       BatchIsCollected
<1>7. QED
  BY <1>1, <1>2, <1>3, <1>5, <1>6, KeepContent

LEMMA StepContent ==
  ASSUME TypeOK, SlotInvariant, JobInvariant, VerdictInvariant, BatchInvariant,
         ControlInvariant, ContentInvariant, [Next]_vars
  PROVE  ContentInvariant'
<1>1. StepKeepsEntries
  BY StepKeeps
<1>2. CASE OpenOutput
  BY <1>2, OpenContent
<1>3. CASE ConsumeBlock
  BY <1>3, ConsumeContent
<1>4. CASE ResolveReference \/ DecodeSerially
  BY <1>4, DirectContent
<1>5. CASE CloseOutput
  BY <1>5, CloseContent
<1>6. CASE \/ SubmitBlock \/ SubmitFails \/ ReadFrame \/ BatchIsFull \/ CollectBlock
           \/ ReleaseBlock \/ BatchIsCollected
  BY <1>6, BatchContent
<1>7. CASE SerialFileEnds
  <2>1. /\ mpc = "serial" /\ mpc' = "close" /\ mpc \in InFile /\ mpc' \in InFile
        /\ UNCHANGED << fi, content, result, berr, decompSeq, pending, pi >>
    BY <1>7 DEF SerialFileEnds, MainGoes, InFile
  <2>2. Collected' = Collected /\ fi \in FileNumbers
    BY <2>1, InFileEntry DEF Collected
  <2>3. QED
    BY <1>1, <2>1, <2>2, KeepContent
<1>8. CASE CreatePool \/ NoMoreEntries \/ DestroyPool \/ JoinWorkers
  <2>1. /\ mpc \notin InFile /\ mpc' \notin InFile
        /\ UNCHANGED << fi, content, result, berr >>
    BY <1>8 DEF CreatePool, NoMoreEntries, DestroyPool, JoinWorkers, MainGoes, InFile, InBatch
  <2>2. QED
    BY <1>1, <2>1, KeepContent
<1>9. CASE UNCHANGED driverVars
  <2>1. UNCHANGED << mpc, fi, content, result, berr, decompSeq, pending, pi >>
    BY <1>9 DEF driverVars
  <2>2. Collected' = Collected /\ (mpc \in InFile => fi \in FileNumbers)
    BY <2>1, InFileEntry DEF Collected
  <2>3. QED
    BY <1>1, <2>1, <2>2, KeepContent
<1>10. QED
  BY <1>2, <1>3, <1>4, <1>5, <1>6, <1>7, <1>8, <1>9
     DEF Next, MainStep, Returned, Worker, Spurious, SubmitWaits, CollectWaits, vars

-----------------------------------------------------------------------------
(* The theorems *)

LEMMA InvInitially == Init => IndInv
<1> SUFFICES ASSUME Init PROVE IndInv
  OBVIOUS
<1>1. TypeOK
  BY TypesInitially
<1>2. SlotInvariant
  BY SlotsInitially DEF Init
<1>3. JobInvariant /\ VerdictInvariant
  BY DEF Init, PoolInit, JobInvariant, VerdictInvariant
<1>4. pending = << >> /\ pi = 1 /\ Len(pending) = 0
  BY DEF Init
<1>5. BatchInvariant
  BY <1>4 DEF Init, PoolInit, BatchInvariant, Uncollected
<1>6. RingInvariant
  BY <1>4 DEF Init, RingInvariant
<1>7. ControlInvariant
  BY DEF Init, PoolInit, ControlInvariant, MainReadsDoneSlots, InFile, InBatch, Collecting
<1>8. ContentInvariant
  <2>1. mpc \notin InFile /\ fi = 0
    BY DEF Init, InFile, InBatch
  <2>2. ASSUME NEW f \in FileNumbers PROVE EntryInvariant(f)
    <3>1. content[f] = << >> /\ berr[f] = FALSE /\ result[f] = "pending" /\ ~(f < fi)
      BY DEF Init, FileNumbers
    <3>2. Holds(f, 0)
      BY <3>1 DEF Holds
    <3>3. QED
      BY <3>1, <3>2 DEF EntryInvariant
  <2>3. QED
    BY <2>1, <2>2 DEF ContentInvariant, EntryInvariant
<1>9. QED
  BY <1>1, <1>2, <1>3, <1>5, <1>6, <1>7, <1>8 DEF IndInv

\* Every state of zupt_extract_archive and its pool satisfies IndInv: the types, the
\* handover of the slots, what the workers say of their blocks, the batch in the
\* ring, the control state of the main thread, and what the files hold so far.
THEOREM Invariance == Spec => []IndInv
<1>1. IndInv /\ [Next]_vars => IndInv'
  <2> SUFFICES ASSUME IndInv, [Next]_vars PROVE IndInv'
    OBVIOUS
  <2>1. /\ TypeOK /\ SlotInvariant /\ JobInvariant /\ VerdictInvariant
        /\ BatchInvariant /\ RingInvariant /\ ControlInvariant /\ ContentInvariant
    BY DEF IndInv
  <2>2. TypeOK'
    BY <2>1, StepTypes
  <2>3. SlotInvariant'
    BY <2>1, StepSlots
  <2>4. JobInvariant'
    BY <2>1, StepJob
  <2>5. VerdictInvariant'
    BY <2>1, StepVerdict
  <2>6. BatchInvariant'
    BY <2>1, StepBatch
  <2>7. RingInvariant'
    BY <2>1, StepRing
  <2>8. ControlInvariant'
    BY <2>1, StepControl
  <2>9. ContentInvariant'
    BY <2>1, StepContent
  <2>10. QED
    BY <2>2, <2>3, <2>4, <2>5, <2>6, <2>7, <2>8, <2>9 DEF IndInv
<1>2. QED
  BY InvInitially, <1>1, PTL DEF Spec

\* TypeOK is one part of IndInv.
THEOREM TypeCorrect == Spec => []TypeOK
<1>1. IndInv => TypeOK
  BY DEF IndInv
<1>2. QED
  BY <1>1, Invariance, PTL

\* No worker is inside its slot while the main thread fills it or reads it, and
\* none is left when zpar_destroy frees the context.
THEOREM HandOver == Spec => [](SlotsHandedOver /\ MainReadsDoneSlots)
<1>1. IndInv => SlotsHandedOver /\ MainReadsDoneSlots
  BY DEF IndInv, SlotInvariant, ControlInvariant
<1>2. QED
  BY <1>1, Invariance, PTL

\* zpar_destroy finds every slot collected and released, on every error path.
THEOREM IdleAtShutdown == Spec => []PoolIdleAtShutdown
<1>1. IndInv => PoolIdleAtShutdown
  <2> SUFFICES ASSUME IndInv, shutdown PROVE \A i \in Slots : status[i] = "EMPTY"
    BY DEF PoolIdleAtShutdown
  <2>1. pending = << >> /\ pi = 1
    BY DEF IndInv, ControlInvariant, InBatch, Collecting
  <2>2. Len(pending) = 0
    BY <2>1
  <2>3. Uncollected = {}
    BY <2>1, <2>2 DEF Uncollected
  <2>4. QED
    BY <2>3 DEF IndInv, BatchInvariant
<1>2. QED
  BY <1>1, Invariance, PTL

\* What ContentInvariant says of an entry that has its result.
LEMMA EndedEntry ==
  ASSUME IndInv, NEW f \in FileNumbers, result[f] # "pending"
  PROVE  /\ f < fi
         /\ result[f] = IF berr[f] THEN "failed" ELSE "published"
         /\ ~berr[f] => Holds(f, Len(frames[f]))
         /\ berr[f] => Excused(f)
<1>1. EntryInvariant(f) /\ (f < fi \/ f >= fi)
  BY DEF IndInv, TypeOK, ContentInvariant, EntryInvariant, FileNumbers
<1>2. QED
  BY <1>1 DEF EntryInvariant

\* A file gets its name only with all its blocks, in order, decoded from sound
\* frames, whatever the workers, the failures and their order.
THEOREM Intact == Spec => []PublishedFileIsIntact
<1>1. IndInv => PublishedFileIsIntact
  <2> SUFFICES ASSUME IndInv, NEW f \in FileNumbers, result[f] = "published"
               PROVE  /\ content[f] = [k \in 1 .. Len(frames[f]) |-> k - 1]
                      /\ \A k \in 1 .. Len(frames[f]) : Sound(frames[f][k])
    BY DEF PublishedFileIsIntact
  <2>1. Holds(f, Len(frames[f]))
    BY EndedEntry
  <2>2. QED
    BY <2>1 DEF Holds
<1>2. QED
  BY <1>1, Invariance, PTL

\* A sound entry is lost only to a failing call or to error_flag, which an earlier
\* block of any entry left set.
THEOREM LossIsExcused == Spec => []SoundFileLostOnlyAfterWorkerError
<1>1. IndInv => SoundFileLostOnlyAfterWorkerError
  <2> SUFFICES ASSUME IndInv, NEW f \in FileNumbers, result[f] = "failed",
                      \A k \in 1 .. Len(frames[f]) : Sound(frames[f][k])
               PROVE  errorFlag # "OK" \/ ioFails
    BY DEF SoundFileLostOnlyAfterWorkerError
  <2>1. Excused(f)
    BY EndedEntry
  <2>2. QED
    BY <2>1 DEF Excused
<1>2. QED
  BY <1>1, Invariance, PTL

\* When the blocks of an entry have sequence numbers of their own, the ring has a
\* free slot for every block of a batch, provided the batch is no larger than the
\* ring: the number of threads asked for is at most ZUPT_MAX_THREADS.
THEOREM RingIsLargeEnough ==
  Threads <= MaxThreads => (Spec => []SubmitFindsEmptySlot)
<1> SUFFICES ASSUME Threads <= MaxThreads PROVE Spec => []SubmitFindsEmptySlot
  OBVIOUS
<1>1. IndInv => SubmitFindsEmptySlot
  <2> SUFFICES ASSUME IndInv, mpc = "submit", DiskImage \/ ~Dedup \/ authRefs,
                      status[NextSlot] # "EMPTY"
               PROVE  FALSE
    BY DEF SubmitFindsEmptySlot
  <2>1. fi \in Nat /\ decompSeq \in Nat /\ Len(pending) \in Nat
    BY ExtractConstants DEF IndInv, TypeOK
  <2>2. Len(pending) < Threads /\ NSlots = Threads
    BY <2>1, PoolConstants DEF IndInv, RingInvariant, NSlots
  <2>3. PICK k \in Uncollected : pending[k] = NextSlot
    BY <2>1, NextSlotType DEF IndInv, BatchInvariant
  <2>4. k \in 1 .. Len(pending)
    BY DEF Uncollected, IndInv, TypeOK
  <2>5. pending[k] = SlotOf(AadSeq(fi, decompSeq - Len(pending) + k - 1))
    BY <2>4 DEF IndInv, RingInvariant
  <2> DEFINE d == Len(pending) - k + 1
             a == AadSeq(fi, decompSeq - Len(pending) + k - 1)
  <2>6. d \in 1 .. NSlots - 1
    BY <2>1, <2>2, <2>4, PoolConstants
  <2>7. decompSeq - Len(pending) + k - 1 \in Nat
    BY <2>1, <2>4 DEF IndInv, BatchInvariant
  <2>8. a \in Nat /\ AadSeq(fi, decompSeq) = a + d
    <3>1. (fi + 1) * SeqShift \in Nat
      BY <2>1, ExtractConstants
    <3>2. QED
      BY <2>1, <2>4, <2>7, <3>1 DEF AadSeq
  <2>9. NSlots \in Nat \ {0}
    BY PoolConstants DEF NSlots
  <2>10. (a + d) % NSlots # a % NSlots
    BY <2>6, <2>8, <2>9, ModDistinct
  <2>11. QED
    BY <2>3, <2>5, <2>8, <2>10 DEF NextSlot, SlotOf
<1>2. QED
  BY <1>1, Invariance, PTL

-----------------------------------------------------------------------------
(* Refinement: the entries one by one, each in order. *)

\* An error in the entry that is worked on.
LEMMA DamageStep ==
  ASSUME TypeOK, fi \in FileNumbers, result[fi] = "pending", UNCHANGED << frames, result >>,
         Damaged(TRUE), \A f \in FileNumbers \ {fi} : content'[f] = content[f]
  PROVE  Ordered!Next
<1>1. berr' = [berr EXCEPT ![fi] = TRUE]
  BY DEF Damaged, TypeOK
<1>2. Ordered!Damage(fi)
  BY <1>1 DEF Ordered!Damage
<1>3. QED
  BY <1>2 DEF Ordered!Next

\* A step that reports an error or does not, and writes nothing.
LEMMA NoWriteStep ==
  ASSUME TypeOK, fi \in FileNumbers, result[fi] = "pending",
         UNCHANGED << frames, content, result >>, NEW when \in BOOLEAN, Damaged(when)
  PROVE  [Ordered!Next]_(Ordered!vars)
<1>1. CASE when
  BY <1>1, DamageStep
<1>2. CASE ~when
  <2>1. berr' = berr
    BY <1>2 DEF Damaged, TypeOK
  <2>2. QED
    BY <2>1 DEF Ordered!vars
<1>3. QED
  BY <1>1, <1>2

\* The write of the next block in order.
LEMMA WriteStep ==
  ASSUME TypeOK, ContentInvariant, mpc \in InFile, fi \in FileNumbers, NEW c \in Nat,
         WriteChunk(c), result[fi] = "pending", UNCHANGED << frames, result >>,
         Collected = c, c < Len(frames[fi]), Sound(frames[fi][c + 1])
  PROVE  [Ordered!Next]_(Ordered!vars)
<1>1. PICK fails \in MayFail :
        /\ content' = IF fails THEN content ELSE [content EXCEPT ![fi] = Append(@, c)]
        /\ Damaged(fails)
  BY DEF WriteChunk
<1>2. fails \in BOOLEAN
  BY MayFailType
<1>3. CASE fails
  BY <1>1, <1>2, <1>3, NoWriteStep
<1>4. CASE ~fails /\ berr[fi]
  <2>1. Damaged(TRUE)
    BY <1>1, <1>4 DEF Damaged, TypeOK
  <2>2. \A f \in FileNumbers \ {fi} : content'[f] = content[f]
    BY <1>1, <1>4 DEF TypeOK
  <2>3. QED
    BY <2>1, <2>2, DamageStep
<1>5. CASE ~fails /\ ~berr[fi]
  <2>1. berr' = berr /\ content' = [content EXCEPT ![fi] = Append(@, c)]
    BY <1>1, <1>5 DEF Damaged, TypeOK
  <2>2. content[fi] = [k \in 1 .. c |-> k - 1]
    BY <1>5 DEF ContentInvariant, Holds
  <2>3. Len(content[fi]) = c
    BY <2>2 DEF TypeOK
  <2>4. content' = [content EXCEPT ![fi] = Append(@, Len(@))]
    BY <2>1, <2>3
  <2>5. Ordered!Write(fi)
    BY <1>5, <2>1, <2>3, <2>4 DEF Ordered!Write
  <2>6. QED
    BY <2>5 DEF Ordered!Next
<1>6. QED
  BY <1>2, <1>3, <1>4, <1>5

LEMMA RefinementStep ==
  ASSUME IndInv, [Next]_vars
  PROVE  [Ordered!Next]_(Ordered!vars)
<1>0. /\ TypeOK /\ SlotInvariant /\ JobInvariant /\ VerdictInvariant /\ BatchInvariant
      /\ ControlInvariant /\ ContentInvariant /\ UNCHANGED frames
  BY ArchiveKept DEF IndInv
<1>1. ASSUME mpc \in InFile \/ (mpc = "open" /\ fi < NumFiles)
      PROVE  fi \in FileNumbers /\ result[fi] = "pending"
  <2>1. fi \in FileNumbers
    BY <1>0, <1>1, InFileEntry, ExtractConstants DEF TypeOK, FileNumbers
  <2>2. fi >= fi
    BY <2>1 DEF FileNumbers
  <2>3. QED
    BY <1>0, <2>1, <2>2 DEF ContentInvariant
<1>2. CASE OpenOutput
  <2>1. fi \in FileNumbers /\ result[fi] = "pending" /\ content' = content
    BY <1>1, <1>2 DEF OpenOutput
  <2>2. CASE UNCHANGED << result, berr >>
    BY <1>0, <2>1, <2>2 DEF Ordered!vars
  <2>3. CASE result' = [result EXCEPT ![fi] = "failed"] /\ Damaged(TRUE)
    <3>1. berr' = [berr EXCEPT ![fi] = TRUE]
      BY <2>3 DEF Damaged
    <3>2. Ordered!Fail(fi)
      BY <1>0, <2>1, <2>3, <3>1 DEF Ordered!Fail
    <3>3. QED
      BY <2>1, <3>2 DEF Ordered!Next
  <2>4. QED
    BY <1>2, <2>2, <2>3 DEF OpenOutput
<1>3. CASE ReadFrame \/ SubmitFails
  <2>1. mpc \in InFile /\ UNCHANGED << content, result >>
    BY <1>3 DEF ReadFrame, SubmitFails, MainGoes, InFile, InBatch
  <2>2. \E when : Damaged(when) /\ when \in BOOLEAN
    BY <1>3, MayFailType DEF ReadFrame, SubmitFails
  <2>3. QED
    BY <1>0, <1>1, <2>1, <2>2, NoWriteStep
<1>4. CASE ConsumeBlock
  <2> DEFINE s == pending[pi]
             c == decompSeq - Len(pending) + pi - 1
  <2>1. mpc = "consume" /\ mpc \in InFile /\ result' = result
    BY <1>4 DEF ConsumeBlock, MainGoes, InFile, InBatch
  <2>2. /\ c \in Nat /\ Collected = c /\ fi \in FileNumbers
        /\ error[s] = "OK" => /\ output[s].blk = c /\ c < Len(frames[fi])
                              /\ Sound(frames[fi][c + 1])
    BY <1>0, <2>1, CollectedBlock
  <2>3. CASE error[s] # "OK"
    BY <1>0, <1>1, <1>4, <2>1, <2>2, <2>3, NoWriteStep DEF ConsumeBlock
  <2>4. CASE error[s] = "OK"
    <3>1. WriteChunk(c)
      BY <1>4, <2>2, <2>4 DEF ConsumeBlock
    <3>2. PICK n \in Nat : n = c
      BY <2>2
    <3>3. QED
      BY <1>0, <1>1, <2>1, <2>2, <2>4, <3>1, <3>2, WriteStep
  <2>5. QED
    BY <2>3, <2>4
<1>5. CASE ResolveReference \/ DecodeSerially
  <2>1. /\ mpc \in {"reference", "serial"} /\ mpc \in InFile /\ UNCHANGED result
    BY <1>5 DEF ResolveReference, DecodeSerially, InFile
  <2>2. /\ decompSeq \in Nat /\ Collected = decompSeq
    BY <1>0, <2>1, CollectedOutsideBatch DEF ControlInvariant, InBatch, Collecting, TypeOK
  <2>3. decompSeq < Len(frames[fi])
    <3>1. mpc = "reference" \/ Remaining > 0
      BY <1>5 DEF ResolveReference, DecodeSerially
    <3>2. Len(frames[fi]) \in Nat
      BY <1>0, <1>1, <2>1, FramesType DEF TypeOK
    <3>3. QED
      BY <1>0, <2>2, <3>1, <3>2 DEF ControlInvariant, Remaining
  <2>4. CASE Sound(NextKind) /\ WriteChunk(decompSeq)
    BY <1>0, <1>1, <2>1, <2>2, <2>3, <2>4, WriteStep DEF NextKind
  <2>5. CASE Damaged(TRUE) /\ UNCHANGED content
    BY <1>0, <1>1, <2>1, <2>5, NoWriteStep
  <2>6. QED
    BY <1>5, <2>4, <2>5 DEF ResolveReference, DecodeSerially, Sound
<1>6. CASE CloseOutput
  <2>1. mpc = "close" /\ mpc \in InFile /\ content' = content
    BY <1>6 DEF CloseOutput, MainGoes, InFile
  <2>2. PICK failed \in BOOLEAN :
          /\ Damaged(failed) /\ result' = [result EXCEPT ![fi] = IF failed THEN "failed" ELSE "published"]
          /\ ~failed => ~berr[fi] /\ Len(content[fi]) = Len(frames[fi])
    BY <1>6, <1>1, <1>0, <2>1, MayFailType DEF CloseOutput, TypeOK
  <2>3. CASE failed
    <3>1. berr' = [berr EXCEPT ![fi] = TRUE] /\ result' = [result EXCEPT ![fi] = "failed"]
      BY <2>2, <2>3 DEF Damaged
    <3>2. Ordered!Fail(fi)
      BY <1>0, <1>1, <2>1, <3>1 DEF Ordered!Fail
    <3>3. QED
      BY <1>1, <2>1, <3>2 DEF Ordered!Next
  <2>4. CASE ~failed
    <3>1. berr' = berr /\ result' = [result EXCEPT ![fi] = "published"]
      BY <1>0, <2>2, <2>4 DEF Damaged, TypeOK
    <3>2. Ordered!Publish(fi)
      BY <1>0, <1>1, <2>1, <2>2, <2>4, <3>1 DEF Ordered!Publish
    <3>3. QED
      BY <1>1, <2>1, <3>2 DEF Ordered!Next
  <2>5. QED
    BY <2>3, <2>4
<1>7. CASE \/ CreatePool \/ NoMoreEntries \/ BatchIsFull \/ SubmitBlock \/ CollectBlock
           \/ ReleaseBlock \/ BatchIsCollected \/ SerialFileEnds \/ DestroyPool
           \/ JoinWorkers
  BY <1>0, <1>7 DEF CreatePool, NoMoreEntries, BatchIsFull, SubmitBlock, CollectBlock,
     ReleaseBlock, BatchIsCollected, SerialFileEnds, DestroyPool, JoinWorkers, Ordered!vars
<1>8. CASE UNCHANGED driverVars
  BY <1>0, <1>8 DEF driverVars, Ordered!vars
<1>9. QED
  BY <1>2, <1>3, <1>4, <1>5, <1>6, <1>7, <1>8
     DEF Next, MainStep, Returned, Worker, Spurious, SubmitWaits, CollectWaits, vars

\* Whatever the number of threads, zupt_extract_archive writes the blocks of each
\* entry in their order up to its first error, and names the file only if there was
\* none and none is missing.
THEOREM Refinement == Spec => WritesEntriesInOrder
<1>1. Init => Ordered!Init
  BY DEF Init, Ordered!Init
<1>2. IndInv /\ [Next]_vars => [Ordered!Next]_(Ordered!vars)
  BY RefinementStep
<1>3. QED
  BY <1>1, <1>2, Invariance, PTL DEF Spec, WritesEntriesInOrder, Ordered!Spec
=============================================================================
