------------------------- MODULE ParCompress_proof --------------------------
(***************************************************************************)
(* The safety properties of ParCompress for every number of threads, of    *)
(* files and of blocks, and every set of failures.  IndInv is proved part  *)
(* by part: each part is preserved by every step, given all of IndInv      *)
(* before the step.                                                        *)
(***************************************************************************)
EXTENDS ParCompress, ZparPool_proof

\* Sequence numbers are natural numbers, so every block has a slot.
LEMMA NextSlotType ==
  ASSUME fi \in Nat, blockSeq \in Nat
  PROVE  AadSeq(fi, blockSeq) \in Nat /\ NextSlot \in Slots
<1>1. AadSeq(fi, blockSeq) \in Nat
  BY CompressConstants DEF AadSeq
<1>2. QED
  BY <1>1, SlotOfType DEF NextSlot

\* The numbers of threads that may start are numbers.
LEMMA StartsType == \A started \in (IF Threads > 1 THEN Starts ELSE {0}) : started \in Nat
  BY PoolConstants

LEMMA MayFailType == MayFail \subseteq BOOLEAN
  BY CompressConstants DEF MayFail

LEMMA ResultsType == CompressResults \in SUBSET Results
  BY DEF CompressResults, Results, Errors

-----------------------------------------------------------------------------
(* TypeOK *)

LEMMA TypesInitially == Init => TypeOK
<1> SUFFICES ASSUME Init PROVE TypeOK
  OBVIOUS
<1>1. PoolTypeOK(Frames)
  BY DEF Init, PoolInit, PoolTypeOK, Results, WorkerStates
<1>2. mpc \in MainStates /\ pending \in Seq(Slots) /\ arc \in Seq(Frames \cup {NoJob})
  BY DEF Init, MainStates
<1>3. index \in [FileNumbers -> IndexEntries]
  BY DEF Init, IndexEntries
<1>4. fi \in 0 .. NumFiles /\ blockSeq \in Nat /\ pi \in Nat \ {0}
  BY CompressConstants DEF Init
<1>5. writeErr \in BOOLEAN /\ outcome \in {"open", "published", "discarded"}
  BY DEF Init
<1>6. QED
  BY <1>1, <1>2, <1>3, <1>4, <1>5 DEF TypeOK

LEMMA FrameType ==
  ASSUME fi \in FileNumbers, NEW b \in Nat
  PROVE  Frame(fi, b) \in Frames
  BY CompressConstants DEF Frame, Frames, AadSeq, FileNumbers

\* Writing a frame counts it in the index entry of its file.
LEMMA CountFacts ==
  ASSUME NEW idx \in [FileNumbers -> IndexEntries], NEW f \in FileNumbers,
         NEW idx2, idx2 = [idx EXCEPT ![f].count = @ + 1]
  PROVE  /\ idx2 \in [FileNumbers -> IndexEntries]
         /\ idx2[f].count = idx[f].count + 1
         /\ idx2[f].first = idx[f].first
         /\ \A g \in FileNumbers : g # f => idx2[g] = idx[g]
<1>1. idx[f] \in IndexEntries
  OBVIOUS
<1>2. [idx[f] EXCEPT !.count = @ + 1] = [first |-> idx[f].first, count |-> idx[f].count + 1]
  BY <1>1 DEF IndexEntries
<1>3. [first |-> idx[f].first, count |-> idx[f].count + 1] \in IndexEntries
  BY <1>1 DEF IndexEntries
<1>4. QED
  BY <1>2, <1>3

\* Every step of the main thread leaves the variables well typed.
LEMMA MainTypes ==
  ASSUME TypeOK, ControlInvariant, MainStep
  PROVE  TypeOK'
<1> USE MayFailType DEF TypeOK, MainGoes, MainStates
<1>1. CASE CreatePool
  <2>1. PICK started \in (IF Threads > 1 THEN Starts ELSE {0}) : CreatePool!(started)
    BY <1>1 DEF CreatePool
  <2>2. PoolTypeOK(Frames)'
    BY <2>1, StartsType, CreateTypes DEF PoolTypeOK, poolVars
  <2>3. QED
    BY <2>1, <2>2
<1>2. CASE RewriteHeader
  BY <1>2 DEF RewriteHeader, PoolTypeOK, poolVars
<1>3. CASE OpenInput
  <2>1. PoolTypeOK(Frames)'
    BY <1>3 DEF OpenInput, PoolTypeOK, poolVars
  <2>2. CASE UNCHANGED << index, blockSeq >>
    BY <1>3, <2>1, <2>2 DEF OpenInput
  <2>3. CASE UNCHANGED writeErr /\ blockSeq' = 0
             /\ index' = [index EXCEPT ![fi] = [first |-> Len(arc), count |-> 0]]
    <3>1. Len(arc) \in Nat
      OBVIOUS
    <3>2. [first |-> Len(arc), count |-> 0] \in IndexEntries
      BY <3>1 DEF IndexEntries
    <3>3. index' \in [FileNumbers -> IndexEntries]
      BY <2>3, <3>2
    <3>4. QED
      BY <1>3, <2>1, <2>3, <3>3 DEF OpenInput
  <2>4. QED
    BY <1>3, <2>2, <2>3 DEF OpenInput
<1>4. CASE NoMoreInputs
  BY <1>4 DEF NoMoreInputs, PoolTypeOK, poolVars
<1>5. CASE ReadBlock
  BY <1>5 DEF ReadBlock, PoolTypeOK, poolVars
<1>6. CASE BatchIsFull
  BY <1>6 DEF BatchIsFull, PoolTypeOK, poolVars
<1>7. CASE SubmitWaits \/ SubmitBlock
  <2>1. fi \in FileNumbers
    BY <1>7, CompressConstants DEF ControlInvariant, InFile, FileNumbers, SubmitWaits, SubmitBlock
  <2>2. NextSlot \in Slots
    BY <2>1, NextSlotType, CompressConstants DEF FileNumbers
  <2>3. Frame(fi, blockSeq) \in Frames
    BY <2>1, FrameType
  <2>4. PoolTypeOK(Frames)'
    BY <1>7, <2>2, <2>3, SlotOperationTypes DEF SubmitWaits, SubmitBlock
  <2>5. CASE SubmitWaits
    BY <2>4, <2>5 DEF SubmitWaits, driverVars
  <2>6. CASE SubmitBlock
    <3>1. pending' \in Seq(Slots)
      BY <2>2, <2>6 DEF SubmitBlock
    <3>2. QED
      BY <2>4, <2>6, <3>1 DEF SubmitBlock
  <2>7. QED
    BY <1>7, <2>5, <2>6
<1>8. CASE CollectWaits \/ CollectBlock
  <2>1. pending[pi] \in Slots
    BY <1>8 DEF CollectWaits, CollectBlock
  <2>2. PoolTypeOK(Frames)'
    BY <1>8, <2>1 DEF CollectWaits, CollectBlock, PoolTypeOK, zpar_wait_slot,
       zpar_wait_blocks, poolVars
  <2>3. QED
    BY <1>8, <2>2 DEF CollectWaits, CollectBlock, driverVars
<1>9. CASE ConsumeBlock
  <2>1. fi \in FileNumbers /\ pending[pi] \in Slots
    BY <1>9, CompressConstants DEF ConsumeBlock, ControlInvariant, InFile, FileNumbers,
       MainReadsDoneSlots
  <2>2. output[pending[pi]] \in Frames \cup {NoJob}
    BY <2>1 DEF PoolTypeOK
  <2>3. PoolTypeOK(Frames)'
    BY <1>9 DEF ConsumeBlock, PoolTypeOK, poolVars
  <2>4. arc' \in Seq(Frames \cup {NoJob})
    BY <1>9, <2>2, AppendFacts DEF ConsumeBlock
  <2>5. index' \in [FileNumbers -> IndexEntries]
    BY <1>9, <2>1, CountFacts DEF ConsumeBlock
  <2>6. writeErr' \in BOOLEAN
    BY <1>9 DEF ConsumeBlock
  <2>7. QED
    BY <1>9, <2>3, <2>4, <2>5, <2>6 DEF ConsumeBlock
<1>10. CASE ReleaseBlock
  <2>1. pending[pi] \in Slots
    BY <1>10 DEF ReleaseBlock, ControlInvariant, MainReadsDoneSlots
  <2>2. PoolTypeOK(Frames)'
    BY <1>10, <2>1 DEF ReleaseBlock, zpar_release_slot, PoolTypeOK
  <2>3. QED
    BY <1>10, <2>2 DEF ReleaseBlock
<1>11. CASE BatchIsCollected
  BY <1>11 DEF BatchIsCollected, PoolTypeOK, poolVars
<1>12. CASE CompressSerially
  <2>1. fi \in FileNumbers
    BY <1>12, CompressConstants DEF CompressSerially, ControlInvariant, InFile, FileNumbers
  <2>2. Frame(fi, blockSeq) \in Frames \cup {NoJob}
    BY <2>1, FrameType
  <2>3. PoolTypeOK(Frames)'
    BY <1>12 DEF CompressSerially, PoolTypeOK, poolVars
  <2>4. arc' \in Seq(Frames \cup {NoJob})
    <3>1. arc' = arc \/ arc' = Append(arc, Frame(fi, blockSeq))
      BY <1>12 DEF CompressSerially
    <3>2. QED
      BY <3>1, <2>2, AppendFacts
  <2>5. index' \in [FileNumbers -> IndexEntries]
    BY <1>12, <2>1, CountFacts DEF CompressSerially
  <2>6. writeErr' \in BOOLEAN
    BY <1>12 DEF CompressSerially
  <2>7. blockSeq' \in Nat
    BY <1>12 DEF CompressSerially
  <2>8. mpc' \in MainStates
    BY <1>12 DEF CompressSerially
  <2>9. QED
    BY <1>12, <2>3, <2>4, <2>5, <2>6, <2>7, <2>8 DEF CompressSerially
<1>13. CASE SerialFileEnds
  BY <1>13 DEF SerialFileEnds, PoolTypeOK, poolVars
<1>14. CASE CloseInput
  <2>1. PoolTypeOK(Frames)'
    BY <1>14 DEF CloseInput, PoolTypeOK, poolVars
  <2>2. fi < NumFiles
    BY <1>14 DEF CloseInput, ControlInvariant, InFile
  <2>3. fi' \in 0 .. NumFiles
    BY <1>14, <2>2, CompressConstants DEF CloseInput
  <2>4. writeErr' \in BOOLEAN /\ mpc' \in MainStates
    BY <1>14 DEF CloseInput
  <2>5. QED
    BY <1>14, <2>1, <2>3, <2>4 DEF CloseInput
<1>15. CASE DestroyPool
  <2>1. PoolTypeOK(Frames)'
    BY <1>15, DestroyTypes DEF DestroyPool, PoolTypeOK, poolVars
  <2>2. QED
    BY <1>15, <2>1 DEF DestroyPool
<1>16. CASE JoinWorkers
  <2>1. PoolTypeOK(Frames)'
    BY <1>16, DestroyTypes DEF JoinWorkers
  <2>2. QED
    BY <1>16, <2>1 DEF JoinWorkers
<1>17. CASE FinishArchive
  BY <1>17 DEF FinishArchive, PoolTypeOK, poolVars
<1>18. QED
  BY <1>1, <1>2, <1>3, <1>4, <1>5, <1>6, <1>7, <1>8, <1>9, <1>10, <1>11, <1>12,
     <1>13, <1>14, <1>15, <1>16, <1>17 DEF MainStep

\* And so does every other step.
LEMMA StepTypes ==
  ASSUME TypeOK, ControlInvariant, [Next]_vars
  PROVE  TypeOK'
<1>1. CASE MainStep
  BY <1>1, MainTypes
<1>2. ASSUME NEW w \in Slots, Worker(w) PROVE TypeOK'
  BY <1>2, WorkerTypes, ResultsType DEF Worker, TypeOK, driverVars
<1>3. CASE Spurious
  BY <1>3, SpuriousTypes DEF Spurious, TypeOK, driverVars
<1>4. CASE UNCHANGED vars
  BY <1>4 DEF TypeOK, PoolTypeOK, vars, poolVars, driverVars
<1>5. QED
  BY <1>1, <1>2, <1>3, <1>4 DEF Next, Returned

-----------------------------------------------------------------------------
(* SlotInvariant *)

\* No step of any thread breaks the hand-over of the slots: the main thread
\* releases DONE slots only (zpar_release_slot is called after zpar_wait_slot).
LEMMA StepSlots ==
  ASSUME TypeOK, ControlInvariant, SlotInvariant, [Next]_vars
  PROVE  SlotInvariant'
<1> USE DEF TypeOK
<1>1. CASE UNCHANGED poolVars
  BY <1>1 DEF poolVars, SlotInvariant, SlotsHandedOver, DoneSlotsCarryTheirJob
<1>2. CASE CreatePool
  <2>1. PICK started \in (IF Threads > 1 THEN Starts ELSE {0}) : CreatePool!(started)
    BY <1>2 DEF CreatePool
  <2>2. QED
    BY <1>1, <2>1, StartsType, CreateSlots
<1>3. CASE SubmitWaits \/ SubmitBlock
  <2>1. fi \in FileNumbers
    BY <1>3, CompressConstants DEF ControlInvariant, InFile, FileNumbers, SubmitWaits,
       SubmitBlock, MainGoes
  <2>2. NextSlot \in Slots /\ Frame(fi, blockSeq) \in Frames
    BY <2>1, NextSlotType, FrameType, CompressConstants DEF FileNumbers
  <2>3. QED
    BY <1>3, <2>2, SubmitSlots, WaitSlots DEF SubmitWaits, SubmitBlock
<1>4. CASE CollectWaits \/ CollectBlock
  <2>1. pending[pi] \in Slots
    BY <1>4 DEF CollectWaits, CollectBlock
  <2>2. QED
    BY <1>4, <2>1, WaitSlots DEF CollectWaits, CollectBlock
<1>5. CASE ReleaseBlock
  <2>1. pending[pi] \in Slots /\ status[pending[pi]] = "DONE"
    BY <1>5 DEF ReleaseBlock, MainGoes, ControlInvariant, MainReadsDoneSlots
  <2>2. QED
    BY <1>5, <2>1, ReleaseSlots DEF ReleaseBlock
<1>6. CASE DestroyPool \/ JoinWorkers
  BY <1>1, <1>6, DestroySlots DEF DestroyPool, JoinWorkers
<1>7. ASSUME NEW w \in Slots, Worker(w) PROVE SlotInvariant'
  BY <1>7, WorkerSlots, ResultsType DEF Worker
<1>8. CASE Spurious
  BY <1>8, SpuriousSlots DEF Spurious
<1>9. CASE \/ RewriteHeader \/ OpenInput \/ NoMoreInputs \/ ReadBlock \/ BatchIsFull
           \/ ConsumeBlock \/ BatchIsCollected \/ CompressSerially \/ SerialFileEnds
           \/ CloseInput \/ FinishArchive
  BY <1>1, <1>9 DEF RewriteHeader, OpenInput, NoMoreInputs, ReadBlock, BatchIsFull,
     ConsumeBlock, BatchIsCollected, CompressSerially, SerialFileEnds, CloseInput,
     FinishArchive
<1>10. CASE UNCHANGED vars
  BY <1>1, <1>10 DEF vars
<1>11. QED
  BY <1>2, <1>3, <1>4, <1>5, <1>6, <1>7, <1>8, <1>9, <1>10 DEF Next, MainStep, Returned

-----------------------------------------------------------------------------
(* ControlInvariant *)

\* The main thread's own steps.
LEMMA MainControl ==
  ASSUME TypeOK, ControlInvariant, MainStep
  PROVE  ControlInvariant'
<1> USE MayFailType, CompressConstants
    DEF TypeOK, PoolTypeOK, ControlInvariant, MainReadsDoneSlots, InFile, InBatch,
        WithPool, MainGoes, FileNumbers, Remaining
<1>1. CASE CreatePool
  <2>1. PICK started \in (IF Threads > 1 THEN Starts ELSE {0}) : CreatePool!(started)
    BY <1>1 DEF CreatePool
  <2>2. QED
    BY <2>1 DEF zpar_create, poolVars
<1>2. CASE RewriteHeader
  BY <1>2 DEF RewriteHeader, poolVars
<1>3. CASE OpenInput
  <2>1. /\ mpc = "open"
        /\ UNCHANGED << ctx, shutdown, status, fi, pending, pi, outcome >>
        /\ \/ mpc' = "destroy" /\ writeErr'
           \/ /\ mpc' = (IF ctx = "live" THEN "fill" ELSE "serial")
              /\ blockSeq' = 0
              /\ writeErr' = writeErr
    BY <1>3 DEF OpenInput, poolVars
  <2>2. fi < NumFiles /\ 0 <= Blocks[fi]
    BY <1>3 DEF OpenInput
  <2>3. QED
    BY <2>1, <2>2
<1>4. CASE NoMoreInputs
  BY <1>4 DEF NoMoreInputs, poolVars
<1>5. CASE ReadBlock
  BY <1>5 DEF ReadBlock, poolVars
<1>6. CASE BatchIsFull
  BY <1>6 DEF BatchIsFull, poolVars
<1>7. CASE SubmitWaits
  BY <1>7 DEF SubmitWaits, zpar_submit_blocks, driverVars
<1>8. CASE SubmitBlock
  BY <1>8 DEF SubmitBlock, zpar_submit
<1>9. CASE CollectWaits
  BY <1>9 DEF CollectWaits, zpar_wait_blocks, driverVars
<1>10. CASE CollectBlock
  BY <1>10 DEF CollectBlock, zpar_wait_slot, poolVars
<1>11. CASE ConsumeBlock
  BY <1>11 DEF ConsumeBlock, poolVars
<1>12. CASE ReleaseBlock
  BY <1>12 DEF ReleaseBlock, zpar_release_slot
<1>13. CASE BatchIsCollected
  BY <1>13 DEF BatchIsCollected, poolVars
<1>14. CASE CompressSerially
  BY <1>14 DEF CompressSerially, poolVars
<1>15. CASE SerialFileEnds
  BY <1>15 DEF SerialFileEnds, poolVars
<1>16. CASE CloseInput
  BY <1>16 DEF CloseInput, poolVars
<1>17. CASE DestroyPool
  BY <1>17 DEF DestroyPool, zpar_destroy_signal, poolVars
<1>18. CASE JoinWorkers
  BY <1>18 DEF JoinWorkers, zpar_destroy_join
<1>19. CASE FinishArchive
  BY <1>19 DEF FinishArchive, poolVars
<1>20. QED
  BY <1>1, <1>2, <1>3, <1>4, <1>5, <1>6, <1>7, <1>8, <1>9, <1>10, <1>11, <1>12,
     <1>13, <1>14, <1>15, <1>16, <1>17, <1>18, <1>19 DEF MainStep

\* The workers leave the control state alone, and keep a DONE slot DONE.
LEMMA StepControl ==
  ASSUME TypeOK, SlotInvariant, ControlInvariant, [Next]_vars
  PROVE  ControlInvariant'
<1>1. CASE MainStep
  BY <1>1, MainControl
<1>2. ASSUME NEW w \in Slots, Worker(w) PROVE ControlInvariant'
  <2>1. /\ ctx' = ctx
        /\ shutdown' = shutdown
        /\ \A i \in Slots : status[i] = "DONE" => status'[i] = "DONE"
    BY <1>2, WorkerKeepsSlots, ResultsType DEF Worker, TypeOK
  <2>2. UNCHANGED driverVars
    BY <1>2 DEF Worker
  <2>3. MainReadsDoneSlots'
    BY <2>1, <2>2 DEF ControlInvariant, MainReadsDoneSlots, driverVars, TypeOK
  <2>4. QED
    BY <2>1, <2>2, <2>3 DEF ControlInvariant, InFile, InBatch, WithPool, driverVars
<1>3. CASE Spurious
  BY <1>3 DEF Spurious, SpuriousWakeup, MainWakesSpuriously, WorkerWakesSpuriously,
     driverVars, ControlInvariant, MainReadsDoneSlots, InFile, InBatch, WithPool
<1>4. CASE UNCHANGED vars
  BY <1>4 DEF vars, poolVars, driverVars, ControlInvariant, MainReadsDoneSlots, InFile,
     InBatch, WithPool
<1>5. QED
  BY <1>1, <1>2, <1>3, <1>4 DEF Next, Returned

-----------------------------------------------------------------------------
(* BatchInvariant *)

\* A step that keeps the batch and the slots keeps what holds between them.
LEMMA SameBatch ==
  ASSUME TypeOK, BatchInvariant,
         UNCHANGED << pending, pi, fi, blockSeq, job >>,
         \A i \in Slots : (status'[i] = "EMPTY") <=> (status[i] = "EMPTY")
  PROVE  BatchInvariant'
<1>1. Uncollected' = Uncollected /\ \A k \in Uncollected : pending[k] \in Slots
  BY DEF TypeOK, BatchInvariant, Uncollected
<1>2. \A k \in Uncollected : status'[pending[k]] # "EMPTY"
  BY <1>1 DEF BatchInvariant
<1>3. \A i \in Slots : status'[i] # "EMPTY" => \E k \in Uncollected : pending[k] = i
  BY DEF BatchInvariant
<1>4. QED
  BY <1>1, <1>2, <1>3 DEF BatchInvariant, Frame, AadSeq

\* Outside a batch no slot is occupied, so the next batch may start anywhere.
LEMMA NoBatch ==
  ASSUME TypeOK, BatchInvariant, status' = status, pending' = << >>, pi' = 1,
         blockSeq' \in Nat, pi > Len(pending)
  PROVE  BatchInvariant'
<1>1. \A i \in Slots : status[i] = "EMPTY"
  BY DEF TypeOK, BatchInvariant, Uncollected
<1>2. Len(pending') = 0 /\ Uncollected' = {}
  BY DEF Uncollected
<1>3. QED
  BY <1>1, <1>2 DEF BatchInvariant

\* zpar_submit takes an EMPTY slot, which no uncollected block occupies.
LEMMA SubmitBatch ==
  ASSUME TypeOK, ControlInvariant, BatchInvariant, SubmitBlock
  PROVE  BatchInvariant'
<1> DEFINE s == NextSlot
           n == Len(pending)
<1>1. fi \in FileNumbers /\ s \in Slots
  BY NextSlotType, CompressConstants
     DEF SubmitBlock, MainGoes, ControlInvariant, InFile, FileNumbers, TypeOK
<1>2. /\ status[s] = "EMPTY"
      /\ status' = [status EXCEPT ![s] = "READY"]
      /\ job' = [job EXCEPT ![s] = Frame(fi, blockSeq)]
  BY DEF SubmitBlock, zpar_submit
<1>3. pending' = Append(pending, s) /\ blockSeq' = blockSeq + 1 /\ pi' = pi /\ fi' = fi
  BY DEF SubmitBlock
<1>4. /\ n \in Nat /\ Len(pending') = n + 1
      /\ \A k \in 1 .. n : pending'[k] = pending[k] /\ pending[k] \in Slots
      /\ pending'[n + 1] = s
  BY <1>1, <1>3, AppendFacts DEF TypeOK
<1>5. \A k \in Uncollected : k \in 1 .. n /\ pending[k] # s
  BY <1>2 DEF BatchInvariant, Uncollected, TypeOK
<1>6. Uncollected' = Uncollected \cup {n + 1} /\ n + 1 \notin Uncollected
  BY <1>3, <1>4 DEF Uncollected, TypeOK, BatchInvariant
<1>7. \A k \in Uncollected : job'[pending[k]] = job[pending[k]]
                             /\ status'[pending[k]] = status[pending[k]]
  BY <1>1, <1>2, <1>4, <1>5 DEF TypeOK, PoolTypeOK
<1>8. (pi <= Len(pending) + 1 /\ Len(pending) <= blockSeq)'
  BY <1>3, <1>4 DEF BatchInvariant, TypeOK
<1>9. (\A i \in Slots : status[i] # "EMPTY" => \E k \in Uncollected : pending[k] = i)'
  <2>1. SUFFICES ASSUME NEW i \in Slots, status'[i] # "EMPTY"
                 PROVE  \E k \in Uncollected' : pending'[k] = i
    OBVIOUS
  <2>2. CASE i = s
    BY <1>4, <1>6, <2>2
  <2>3. CASE i # s
    <3>1. status[i] # "EMPTY"
      BY <1>2, <2>1, <2>3 DEF TypeOK, PoolTypeOK
    <3>2. PICK k \in Uncollected : pending[k] = i
      BY <3>1 DEF BatchInvariant
    <3>3. QED
      BY <1>4, <1>5, <1>6, <3>2
  <2>4. QED
    BY <2>2, <2>3
<1>10. (\A k \in Uncollected : status[pending[k]] # "EMPTY")'
  BY <1>1, <1>2, <1>4, <1>5, <1>6, <1>7 DEF BatchInvariant, TypeOK, PoolTypeOK
<1>11. (\A k, l \in Uncollected : pending[k] = pending[l] => k = l)'
  BY <1>4, <1>5, <1>6 DEF BatchInvariant
<1>12. (\A k \in Uncollected : job[pending[k]] = Frame(fi, blockSeq - Len(pending) + k - 1))'
  <2>1. \A k \in Uncollected : blockSeq' - Len(pending') + k - 1 = blockSeq - n + k - 1
    BY <1>3, <1>4 DEF TypeOK, Uncollected
  <2>2. \A k \in Uncollected : job'[pending'[k]] = Frame(fi, blockSeq - n + k - 1)
    BY <1>4, <1>5, <1>7 DEF BatchInvariant
  <2>3. job'[pending'[n + 1]] = Frame(fi, blockSeq)
    BY <1>1, <1>2, <1>4 DEF TypeOK, PoolTypeOK
  <2>4. blockSeq' - Len(pending') + (n + 1) - 1 = blockSeq
    BY <1>3, <1>4 DEF TypeOK
  <2>5. \A g, b : Frame(g, b)' = Frame(g, b)
    BY DEF Frame, AadSeq
  <2>6. SUFFICES ASSUME NEW k \in Uncollected'
                 PROVE  job'[pending'[k]] = Frame(fi', blockSeq' - Len(pending') + k - 1)
    OBVIOUS
  <2>7. CASE k \in Uncollected
    BY <1>3, <2>1, <2>2, <2>7
  <2>8. CASE k = n + 1
    BY <1>3, <2>3, <2>4, <2>8
  <2>9. QED
    BY <1>6, <2>7, <2>8
<1>13. QED
  BY <1>8, <1>9, <1>10, <1>11, <1>12 DEF BatchInvariant

\* zpar_release_slot empties the slot of the block collected last.
LEMMA ReleaseBatch ==
  ASSUME TypeOK, ControlInvariant, BatchInvariant, ReleaseBlock
  PROVE  BatchInvariant'
<1> DEFINE s == pending[pi]
<1>1. /\ status' = [status EXCEPT ![s] = "EMPTY"] /\ job' = job
      /\ pi' = pi + 1 /\ UNCHANGED << pending, fi, blockSeq >>
  BY DEF ReleaseBlock, zpar_release_slot
<1>2. pi <= Len(pending) /\ pi \in Uncollected /\ s \in Slots
  BY DEF ReleaseBlock, MainGoes, ControlInvariant, MainReadsDoneSlots, Uncollected, TypeOK
<1>3. Uncollected' = Uncollected \ {pi}
  BY <1>1 DEF Uncollected, TypeOK
<1>4. \A k \in Uncollected' : pending[k] # s /\ pending[k] \in Slots
  BY <1>2, <1>3 DEF BatchInvariant, Uncollected, TypeOK
<1>5. \A k \in Uncollected' : status'[pending[k]] = status[pending[k]]
  BY <1>1, <1>2, <1>4 DEF TypeOK, PoolTypeOK
<1>6. \A i \in Slots : status'[i] # "EMPTY" => i # s /\ status[i] # "EMPTY"
  BY <1>1, <1>2 DEF TypeOK, PoolTypeOK
<1>7. (\A i \in Slots : status[i] # "EMPTY" => \E k \in Uncollected : pending[k] = i)'
  BY <1>1, <1>3, <1>6 DEF BatchInvariant
<1>8. (\A k \in Uncollected : status[pending[k]] # "EMPTY")'
  BY <1>1, <1>3, <1>5 DEF BatchInvariant
<1>9. (\A k, l \in Uncollected : pending[k] = pending[l] => k = l)'
  BY <1>1, <1>3 DEF BatchInvariant
<1>10. (\A k \in Uncollected : job[pending[k]] = Frame(fi, blockSeq - Len(pending) + k - 1))'
  BY <1>1, <1>3 DEF BatchInvariant
<1>11. (pi <= Len(pending) + 1 /\ Len(pending) <= blockSeq)'
  BY <1>1, <1>2 DEF BatchInvariant, TypeOK
<1>12. QED
  BY <1>7, <1>8, <1>9, <1>10, <1>11 DEF BatchInvariant

LEMMA StepBatch ==
  ASSUME TypeOK, SlotInvariant, ControlInvariant, BatchInvariant, [Next]_vars
  PROVE  BatchInvariant'
<1>1. CASE SubmitBlock
  BY <1>1, SubmitBatch
<1>2. CASE ReleaseBlock
  BY <1>2, ReleaseBatch
<1>3. CASE \/ OpenInput \/ CompressSerially \/ CloseInput
  <2>1. pending' = << >> /\ pi' = 1 /\ pi > Len(pending) /\ status' = status
    BY <1>3 DEF OpenInput, CompressSerially, CloseInput, MainGoes, poolVars,
       ControlInvariant, InBatch
  <2>2. blockSeq' \in Nat
    BY <1>3 DEF OpenInput, CompressSerially, CloseInput, TypeOK
  <2>3. QED
    BY <2>1, <2>2, NoBatch
<1>4. CASE BatchIsCollected
  <2>1. pending' = << >> /\ pi' = 1 /\ pi > Len(pending) /\ status' = status
    BY <1>4 DEF BatchIsCollected, poolVars
  <2>2. blockSeq' \in Nat
    BY <1>4 DEF BatchIsCollected, TypeOK
  <2>3. QED
    BY <2>1, <2>2, NoBatch
<1>5. CASE \/ CreatePool \/ RewriteHeader \/ NoMoreInputs \/ ReadBlock \/ BatchIsFull
           \/ SubmitWaits \/ CollectWaits \/ CollectBlock \/ ConsumeBlock
           \/ SerialFileEnds \/ DestroyPool \/ JoinWorkers \/ FinishArchive
  <2>1. UNCHANGED << status, job >>
    BY <1>5 DEF CreatePool, RewriteHeader, NoMoreInputs, ReadBlock, BatchIsFull,
       SubmitWaits, CollectWaits, CollectBlock, ConsumeBlock, SerialFileEnds,
       DestroyPool, JoinWorkers, FinishArchive, zpar_create, zpar_submit_blocks,
       zpar_wait_blocks, zpar_wait_slot, zpar_destroy_signal, zpar_destroy_join, poolVars
  <2>2. UNCHANGED << pending, pi, fi, blockSeq >>
    BY <1>5 DEF CreatePool, RewriteHeader, NoMoreInputs, ReadBlock, BatchIsFull,
       SubmitWaits, CollectWaits, CollectBlock, ConsumeBlock, SerialFileEnds,
       DestroyPool, JoinWorkers, FinishArchive, driverVars
  <2>3. QED
    BY <2>1, <2>2, SameBatch
<1>6. ASSUME NEW w \in Slots, Worker(w) PROVE BatchInvariant'
  <2>1. job' = job /\ \A i \in Slots : (status'[i] = "EMPTY") <=> (status[i] = "EMPTY")
    BY <1>6, WorkerKeepsSlots, ResultsType DEF Worker, TypeOK
  <2>2. QED
    BY <1>6, <2>1, SameBatch DEF Worker, driverVars
<1>7. CASE Spurious
  BY <1>7, SameBatch DEF Spurious, SpuriousWakeup, MainWakesSpuriously,
     WorkerWakesSpuriously, driverVars
<1>8. CASE UNCHANGED vars
  BY <1>8, SameBatch DEF vars, poolVars, driverVars
<1>9. QED
  BY <1>1, <1>2, <1>3, <1>4, <1>5, <1>6, <1>7, <1>8 DEF Next, MainStep, Returned

-----------------------------------------------------------------------------
(* RingInvariant *)

\* A step that keeps the batch keeps its place in the ring.
LEMMA SameRing ==
  ASSUME TypeOK, RingInvariant, UNCHANGED << pending, fi, blockSeq >>,
         mpc' = "submit" => mpc = "submit" \/ Len(pending) < Threads
  PROVE  RingInvariant'
<1>1. (\A k \in 1 .. Len(pending) :
         pending[k] = SlotOf(AadSeq(fi, blockSeq - Len(pending) + k - 1)))'
  BY DEF RingInvariant, SlotOf, AadSeq
<1>2. QED
  BY <1>1 DEF RingInvariant

\* Without a batch there is nothing to place.
LEMMA NoRing ==
  ASSUME pending' = << >>, mpc' # "submit"
  PROVE  RingInvariant'
<1>1. Len(pending') = 0
  OBVIOUS
<1>2. QED
  BY <1>1 DEF RingInvariant

LEMMA SubmitRing ==
  ASSUME TypeOK, ControlInvariant, RingInvariant, SubmitBlock
  PROVE  RingInvariant'
<1> DEFINE n == Len(pending)
<1>1. /\ mpc' = "fill" /\ fi' = fi /\ blockSeq' = blockSeq + 1
      /\ pending' = Append(pending, NextSlot)
  BY DEF SubmitBlock, MainGoes
<1>2. NextSlot \in Slots
  BY NextSlotType, CompressConstants
     DEF SubmitBlock, MainGoes, ControlInvariant, InFile, TypeOK
<1>3. /\ n \in Nat /\ Len(pending') = n + 1
      /\ \A k \in 1 .. n : pending'[k] = pending[k]
      /\ pending'[n + 1] = NextSlot
  BY <1>1, <1>2, AppendFacts DEF TypeOK
<1>4. ASSUME NEW k \in 1 .. n + 1
      PROVE  pending'[k] = SlotOf(AadSeq(fi, blockSeq + 1 - (n + 1) + k - 1))
  <2>1. blockSeq \in Nat /\ blockSeq + 1 - (n + 1) + k - 1 = blockSeq - n + k - 1
    BY <1>3 DEF TypeOK
  <2>2. CASE k = n + 1
    <3>1. blockSeq - n + k - 1 = blockSeq
      BY <1>3, <2>1, <2>2
    <3>2. QED
      BY <1>3, <2>1, <2>2, <3>1 DEF NextSlot
  <2>3. CASE k # n + 1
    <3>1. k \in 1 .. n
      BY <1>3, <2>3
    <3>2. QED
      BY <1>3, <2>1, <3>1 DEF RingInvariant
  <2>4. QED
    BY <2>2, <2>3
<1>5. \A k \in 1 .. Len(pending') :
        pending'[k] = SlotOf(AadSeq(fi', blockSeq' - Len(pending') + k - 1))
  <2>1. SUFFICES ASSUME NEW k \in 1 .. Len(pending')
                 PROVE  pending'[k] = SlotOf(AadSeq(fi', blockSeq' - Len(pending') + k - 1))
    OBVIOUS
  <2>2. k \in 1 .. n + 1
    BY <1>3
  <2>3. blockSeq' - Len(pending') + k - 1 = blockSeq + 1 - (n + 1) + k - 1
    <3>1. blockSeq' = blockSeq + 1 /\ Len(pending') = n + 1
      BY <1>1, <1>3
    <3>2. n \in Nat /\ blockSeq \in Nat /\ k \in Nat
      BY <1>3, <2>2 DEF TypeOK
    <3> HIDE DEF n
    <3>3. QED
      BY <3>1, <3>2
  <2>4. pending'[k] = SlotOf(AadSeq(fi, blockSeq + 1 - (n + 1) + k - 1))
    BY <1>4, <2>2
  <2>5. fi' = fi
    BY <1>1
  <2>6. QED
    BY <2>3, <2>4, <2>5, Zenon
<1>6. QED
  BY <1>1, <1>5 DEF RingInvariant, SlotOf, AadSeq

LEMMA StepRing ==
  ASSUME TypeOK, ControlInvariant, RingInvariant, [Next]_vars
  PROVE  RingInvariant'
<1>1. CASE SubmitBlock
  BY <1>1, SubmitRing
<1>2. CASE \/ OpenInput \/ CompressSerially \/ CloseInput \/ BatchIsCollected
  <2>1. pending' = << >> /\ mpc' # "submit"
    BY <1>2 DEF OpenInput, CompressSerially, CloseInput, BatchIsCollected, MainGoes,
       ControlInvariant, InBatch
  <2>2. QED
    BY <2>1, NoRing
<1>3. CASE \/ CreatePool \/ RewriteHeader \/ NoMoreInputs \/ ReadBlock \/ BatchIsFull
           \/ CollectBlock \/ ConsumeBlock \/ ReleaseBlock \/ SerialFileEnds
           \/ DestroyPool \/ JoinWorkers \/ FinishArchive
  <2>1. UNCHANGED << pending, fi, blockSeq >>
    BY <1>3 DEF CreatePool, RewriteHeader, NoMoreInputs, ReadBlock, BatchIsFull,
       CollectBlock, ConsumeBlock, ReleaseBlock, SerialFileEnds, DestroyPool,
       JoinWorkers, FinishArchive
  <2>2. mpc' = "submit" => Len(pending) < Threads
    BY <1>3 DEF CreatePool, RewriteHeader, NoMoreInputs, ReadBlock, BatchIsFull,
       CollectBlock, ConsumeBlock, ReleaseBlock, SerialFileEnds, DestroyPool,
       JoinWorkers, FinishArchive, MainGoes
  <2>3. QED
    BY <2>1, <2>2, SameRing
<1>4. CASE UNCHANGED driverVars
  BY <1>4, SameRing DEF driverVars
<1>5. QED
  BY <1>1, <1>2, <1>3, <1>4
     DEF Next, MainStep, Returned, Worker, Spurious, SubmitWaits, CollectWaits, vars

-----------------------------------------------------------------------------
(* ArchiveInvariant *)

\* Writing the next frame of file f keeps what the archive holds of every other
\* file and extends what it holds of f by one block.
LEMMA WriteFrame ==
  ASSUME TypeOK, NEW f \in FileNumbers, NEW count \in Nat, Holds(f, count),
         index[f].first + count = Len(arc), Frame(f, count) \in Frames,
         arc' = Append(arc, Frame(f, count)),
         index' = [index EXCEPT ![f].count = @ + 1]
  PROVE  /\ Holds(f, count + 1)'
         /\ index'[f].first + index'[f].count = Len(arc')
         /\ \A g \in FileNumbers, c \in Nat : g # f /\ Holds(g, c) => Holds(g, c)'
         /\ \A g \in FileNumbers : g # f => index'[g] = index[g]
<1>1. /\ Len(arc) \in Nat
      /\ Len(arc') = Len(arc) + 1
      /\ \A n \in 1 .. Len(arc) : arc'[n] = arc[n]
      /\ arc'[Len(arc) + 1] = Frame(f, count)
  BY AppendFacts DEF TypeOK
<1>2. /\ index'[f].count = index[f].count + 1
      /\ index'[f].first = index[f].first
      /\ \A g \in FileNumbers : g # f => index'[g] = index[g]
  BY CountFacts DEF TypeOK
<1>3. \A g \in FileNumbers : index[g].first \in Nat /\ index[g].count \in Nat
  BY DEF TypeOK, IndexEntries
<1>4. Holds(f, count + 1)'
  <2>1. \A b \in 0 .. count : arc'[index'[f].first + b + 1] = Frame(f, b)
    <3>1. SUFFICES ASSUME NEW b \in 0 .. count
                   PROVE  arc'[index[f].first + b + 1] = Frame(f, b)
      BY <1>2
    <3>2. CASE b = count
      BY <1>1, <3>2
    <3>3. CASE b # count
      <4>1. b \in 0 .. count - 1 /\ index[f].first + b + 1 \in 1 .. Len(arc)
        BY <1>1, <1>3, <3>3
      <4>2. QED
        BY <1>1, <4>1 DEF Holds
    <3>4. QED
      BY <3>2, <3>3
  <2>2. \A b \in 0 .. (count + 1) - 1 : arc'[index'[f].first + b + 1] = Frame(f, b)
    BY <2>1, 0 .. (count + 1) - 1 = 0 .. count
  <2>3. index'[f].count = count + 1 /\ index'[f].first + (count + 1) <= Len(arc')
    BY <1>1, <1>2, <1>3 DEF Holds
  <2>4. QED
    BY <2>2, <2>3 DEF Holds, Frame, AadSeq
<1>5. ASSUME NEW g \in FileNumbers, NEW c \in Nat, g # f, Holds(g, c)
      PROVE  Holds(g, c)'
  <2>1. index'[g] = index[g]
    BY <1>2, <1>5
  <2>2. \A b \in 0 .. c - 1 : index[g].first + b + 1 \in 1 .. Len(arc)
    BY <1>1, <1>3, <1>5 DEF Holds
  <2>3. QED
    BY <1>1, <1>3, <1>5, <2>1, <2>2 DEF Holds, Frame, AadSeq
<1>6. index'[f].first + index'[f].count = Len(arc')
  <2>1. index[f].count = count
    BY DEF Holds
  <2>2. index'[f].count = count + 1 /\ index'[f].first = index[f].first
    BY <1>2, <2>1
  <2>3. index[f].first \in Nat
    BY <1>3
  <2>4. index[f].first + (count + 1) = Len(arc) + 1
    BY <1>1, <2>3
  <2>5. QED
    BY <1>1, <2>2, <2>4
<1>7. QED
  BY <1>2, <1>4, <1>5, <1>6

\* A step that leaves the archive alone keeps what it holds.
LEMMA SameArchive ==
  ASSUME UNCHANGED << arc, index >>
  PROVE  \A g, c : Holds(g, c) => Holds(g, c)'
  BY DEF Holds, Frame, AadSeq

\* So does a step that also leaves the number of collected blocks alone.
LEMMA KeepArchive ==
  ASSUME TypeOK, ArchiveInvariant, UNCHANGED << arc, index, fi >>,
         writeErr => writeErr',
         mpc' \in {"header", "open", "create"} => mpc \in {"header", "open", "create"},
         ~writeErr' /\ mpc' \in InFile => mpc \in InFile /\ Collected' = Collected
  PROVE  ArchiveInvariant'
<1>1. CASE writeErr'
  BY <1>1 DEF ArchiveInvariant
<1>2. CASE ~writeErr'
  <2>1. ~writeErr
    BY <1>2
  <2>2. (\A f \in FileNumbers : f < fi => Holds(f, Blocks[f]))'
    BY <2>1 DEF ArchiveInvariant, Holds, Frame, AadSeq
  <2>3. (\A f \in FileNumbers : f > fi => index[f].count = 0)'
    BY <2>1 DEF ArchiveInvariant
  <2>4. (mpc \in {"header", "open", "create"} /\ fi < NumFiles => index[fi].count = 0)'
    BY <2>1 DEF ArchiveInvariant
  <2>5. (mpc \in InFile => /\ Holds(fi, Collected)
                           /\ index[fi].first + index[fi].count = Len(arc))'
    <3>1. CASE mpc' \notin InFile
      BY <3>1 DEF InFile
    <3>2. CASE mpc' \in InFile
      <4>1. Holds(fi, Collected) /\ index[fi].first + index[fi].count = Len(arc)
        BY <1>2, <2>1, <3>2 DEF ArchiveInvariant
      <4>2. Holds(fi, Collected)'
        BY <1>2, <3>2, <4>1 DEF Holds, Frame, AadSeq
      <4>3. QED
        BY <4>1, <4>2
    <3>3. QED
      BY <3>1, <3>2
  <2>6. QED
    BY <2>2, <2>3, <2>4, <2>5 DEF ArchiveInvariant
<1>3. QED
  BY <1>1, <1>2

\* OpenInput starts the entry of this file behind everything written so far.
LEMMA OpenArchive ==
  ASSUME TypeOK, ControlInvariant, ArchiveInvariant, OpenInput
  PROVE  ArchiveInvariant'
<1>1. fi \in FileNumbers /\ fi' = fi /\ arc' = arc /\ mpc = "open"
  BY CompressConstants DEF OpenInput, MainGoes, TypeOK, FileNumbers
<1>2. CASE writeErr'
  BY <1>2 DEF ArchiveInvariant
<1>3. CASE ~writeErr'
  <2>1. /\ mpc' \in {"fill", "serial"} /\ blockSeq' = 0 /\ writeErr' = writeErr
        /\ index' = [index EXCEPT ![fi] = [first |-> Len(arc), count |-> 0]]
        /\ pending' = pending /\ pi' = pi
    BY <1>3 DEF OpenInput, MainGoes
  <2>2. pending' = << >> /\ pi' = 1
    BY <1>1, <2>1 DEF ControlInvariant, InBatch
  <2>3. /\ index'[fi] = [first |-> Len(arc), count |-> 0]
        /\ \A g \in FileNumbers : g # fi => index'[g] = index[g]
    BY <1>1, <2>1 DEF TypeOK
  <2>4. Collected' = 0
    <3>1. Collected' = blockSeq' - Len(pending') + pi' - 1
      BY <2>1 DEF Collected
    <3>2. Len(pending') = 0
      BY <2>2
    <3>3. blockSeq' = 0 /\ pi' = 1
      BY <2>1, <2>2
    <3>4. QED
      BY <3>1, <3>2, <3>3
  <2>5. Len(arc) \in Nat /\ Len(arc') = Len(arc)
    BY <1>1 DEF TypeOK
  <2>6. Holds(fi, Collected)' /\ index'[fi].first + index'[fi].count = Len(arc')
    <3>1. index'[fi].first = Len(arc) /\ index'[fi].count = 0
      BY <2>3
    <3>2. QED
      BY <1>1, <2>4, <2>5, <3>1 DEF Holds
  <2>7. (\A f \in FileNumbers : f < fi => Holds(f, Blocks[f]))'
    <3>1. SUFFICES ASSUME NEW f \in FileNumbers, f < fi PROVE Holds(f, Blocks[f])'
      BY <1>1
    <3>2. index'[f] = index[f] /\ Holds(f, Blocks[f])
      BY <1>1, <1>3, <2>1, <2>3, <3>1 DEF ArchiveInvariant, TypeOK
    <3>3. QED
      BY <1>1, <3>2 DEF Holds, Frame, AadSeq
  <2>8. (\A f \in FileNumbers : f > fi => index[f].count = 0)'
    BY <1>1, <1>3, <2>1, <2>3 DEF ArchiveInvariant, TypeOK
  <2>9. QED
    BY <1>1, <2>1, <2>6, <2>7, <2>8 DEF ArchiveInvariant
<1>4. QED
  BY <1>2, <1>3

\* Writing the frame of block c of this file f, from a slot or serially.
LEMMA WriteArchive ==
  ASSUME TypeOK, ArchiveInvariant, NEW f \in FileNumbers, NEW c \in Nat,
         mpc \in {"consume", "serial"}, mpc' \in {"release", "serial"},
         fi = f, fi' = f, Collected = c, Collected' = c + 1, writeErr => writeErr',
         arc' = Append(arc, Frame(f, c)),
         index' = [index EXCEPT ![f].count = @ + 1]
  PROVE  ArchiveInvariant'
<1>1. CASE writeErr'
  BY <1>1 DEF ArchiveInvariant
<1>2. CASE ~writeErr'
  <2>1. mpc \in InFile
    BY DEF InFile
  <2>2. Holds(f, c) /\ index[f].first + index[f].count = Len(arc)
    BY <1>2, <2>1 DEF ArchiveInvariant
  <2>3. index[f].first + c = Len(arc)
    BY <2>2 DEF Holds
  <2>4. Frame(f, c) \in Frames
    BY FrameType
  <2>5. /\ Holds(f, c + 1)'
        /\ index'[f].first + index'[f].count = Len(arc')
        /\ \A g \in FileNumbers, n \in Nat : g # f /\ Holds(g, n) => Holds(g, n)'
        /\ \A g \in FileNumbers : g # f => index'[g] = index[g]
    BY <2>2, <2>3, <2>4, WriteFrame
  <2>6. Holds(fi, Collected)'
    BY <2>5 DEF Holds, Frame, AadSeq
  <2>7. (\A g \in FileNumbers : g < fi => Holds(g, Blocks[g]))'
    <3>1. SUFFICES ASSUME NEW g \in FileNumbers, g < f PROVE Holds(g, Blocks[g])'
      OBVIOUS
    <3>2. g # f /\ Blocks[g] \in Nat
      BY <3>1, CompressConstants DEF FileNumbers
    <3>3. Holds(g, Blocks[g])
      BY <1>2, <3>1 DEF ArchiveInvariant
    <3>4. QED
      BY <2>5, <3>2, <3>3
  <2>8. (\A g \in FileNumbers : g > fi => index[g].count = 0)'
    <3>1. SUFFICES ASSUME NEW g \in FileNumbers, g > f PROVE index'[g].count = 0
      OBVIOUS
    <3>2. g # f
      BY <3>1 DEF FileNumbers
    <3>3. QED
      BY <1>2, <2>5, <3>1, <3>2 DEF ArchiveInvariant
  <2>9. QED
    BY <2>5, <2>6, <2>7, <2>8 DEF ArchiveInvariant
<1>3. QED
  BY <1>1, <1>2

\* ConsumeBlock: a DONE slot without an error holds the frame of its block.
LEMMA ConsumeArchive ==
  ASSUME TypeOK, SlotInvariant, BatchInvariant, ControlInvariant, ArchiveInvariant,
         ConsumeBlock
  PROVE  ArchiveInvariant'
<1> DEFINE s == pending[pi]
           c == blockSeq - Len(pending) + pi - 1
<1>1. /\ mpc = "consume" /\ mpc' = "release" /\ fi \in FileNumbers
      /\ UNCHANGED << fi, blockSeq, pending, pi >>
  BY CompressConstants DEF ConsumeBlock, MainGoes, ControlInvariant, InFile, FileNumbers,
     TypeOK
<1>2. CASE error[s] # "OK"
  BY <1>1, <1>2, KeepArchive DEF ConsumeBlock
<1>3. CASE error[s] = "OK"
  <2>1. /\ arc' = Append(arc, output[s])
        /\ index' = [index EXCEPT ![fi].count = @ + 1]
        /\ writeErr => writeErr'
    BY <1>3 DEF ConsumeBlock
  <2>2. pi \in Uncollected /\ s \in Slots /\ status[s] = "DONE"
    BY <1>1 DEF ControlInvariant, MainReadsDoneSlots, Uncollected, TypeOK
  <2>3. output[s] = Frame(fi, c)
    <3>1. output[s] = job[s]
      BY <1>3, <2>2 DEF SlotInvariant, DoneSlotsCarryTheirJob
    <3>2. QED
      BY <2>2, <3>1 DEF BatchInvariant
  <2>4. c \in Nat /\ Collected = c
    <3>1. Len(pending) \in Nat /\ blockSeq \in Nat /\ pi \in Nat \ {0}
      BY DEF TypeOK
    <3>2. Len(pending) <= blockSeq
      BY DEF BatchInvariant
    <3>3. Collected = c
      BY <1>1 DEF Collected
    <3>4. QED
      BY <3>1, <3>2, <3>3
  <2>5. Collected' = c + 1
    <3>1. Collected' = blockSeq - Len(pending) + pi
      BY <1>1 DEF Collected
    <3>2. Len(pending) \in Nat /\ blockSeq \in Nat /\ pi \in Nat \ {0}
      BY DEF TypeOK
    <3>3. QED
      BY <3>1, <3>2
  <2>6. PICK f \in FileNumbers, k \in Nat : f = fi /\ k = c
    BY <1>1, <2>4
  <2>7. QED
    BY <1>1, <2>1, <2>3, <2>4, <2>5, <2>6, WriteArchive
<1>4. QED
  BY <1>2, <1>3

\* CompressSerially: outside a batch, block_seq counts the blocks written.
LEMMA SerialArchiveStep ==
  ASSUME TypeOK, ControlInvariant, ArchiveInvariant, CompressSerially
  PROVE  ArchiveInvariant'
<1>1. /\ mpc = "serial" /\ mpc' \in {"serial", "close"} /\ fi' = fi /\ fi \in FileNumbers
      /\ UNCHANGED << pending, pi >> /\ pending = << >> /\ pi = 1
  BY CompressConstants DEF CompressSerially, ControlInvariant, InFile, InBatch,
     FileNumbers, TypeOK
<1>2. Len(pending) = 0 /\ Len(pending') = 0
  BY <1>1
<1>3. Collected = blockSeq /\ blockSeq \in Nat
  <2>1. Collected = blockSeq - Len(pending) + pi - 1
    BY <1>1 DEF Collected
  <2>2. blockSeq \in Nat
    BY DEF TypeOK
  <2>3. QED
    BY <1>1, <1>2, <2>1, <2>2
<1>4. CASE writeErr' /\ UNCHANGED << arc, index >>
  BY <1>1, <1>4, KeepArchive
<1>5. CASE /\ writeErr => writeErr'
           /\ arc' = Append(arc, Frame(fi, blockSeq))
           /\ index' = [index EXCEPT ![fi].count = @ + 1]
           /\ blockSeq' = blockSeq + 1
           /\ UNCHANGED mpc
  <2>1. Collected' = blockSeq + 1
    <3>1. Collected' = blockSeq' - Len(pending') + pi' - 1
      BY <1>1, <1>5 DEF Collected
    <3>2. QED
      BY <1>1, <1>2, <1>3, <1>5, <3>1
  <2>2. PICK f \in FileNumbers, k \in Nat : f = fi /\ k = blockSeq
    BY <1>1, <1>3
  <2>3. QED
    BY <1>1, <1>3, <1>5, <2>1, <2>2, WriteArchive
<1>6. QED
  BY <1>4, <1>5 DEF CompressSerially

\* CloseInput: the file is complete, and the next one has no entry yet.
LEMMA CloseArchive ==
  ASSUME TypeOK, ControlInvariant, ArchiveInvariant, CloseInput
  PROVE  ArchiveInvariant'
<1>1. mpc = "close" /\ mpc \in InFile /\ UNCHANGED << arc, index >>
  BY DEF CloseInput, InFile
<1>2. CASE writeErr'
  BY <1>2 DEF ArchiveInvariant
<1>3. CASE ~writeErr'
  <2>1. ~writeErr /\ fi' = fi + 1 /\ mpc' = "open"
    BY <1>3 DEF CloseInput
  <2>2. Holds(fi, Blocks[fi])
    BY <1>1, <2>1 DEF ArchiveInvariant, Collected
  <2>3. (\A f \in FileNumbers : f < fi => Holds(f, Blocks[f]))'
    <3>1. SUFFICES ASSUME NEW f \in FileNumbers, f < fi + 1 PROVE Holds(f, Blocks[f])'
      BY <2>1
    <3>2. f < fi \/ f = fi
      BY <3>1 DEF FileNumbers, TypeOK
    <3>3. Holds(f, Blocks[f])
      BY <2>1, <2>2, <3>2 DEF ArchiveInvariant
    <3>4. QED
      BY <1>1, <3>3 DEF Holds, Frame, AadSeq
  <2>4. (\A f \in FileNumbers : f > fi - 1 => index[f].count = 0)'
    <3>1. SUFFICES ASSUME NEW f \in FileNumbers, f > fi PROVE index[f].count = 0
      BY <1>1, <2>1 DEF TypeOK, FileNumbers
    <3>2. QED
      BY <2>1, <3>1 DEF ArchiveInvariant
  <2>5. (\A f \in FileNumbers : f > fi => index[f].count = 0)'
    BY <2>1, <2>4 DEF TypeOK, FileNumbers
  <2>6. (fi < NumFiles => index[fi].count = 0)'
    BY <2>1, <2>4, CompressConstants DEF TypeOK, FileNumbers
  <2>7. mpc' \notin InFile
    BY <2>1 DEF InFile
  <2>8. QED
    BY <2>3, <2>5, <2>6, <2>7 DEF ArchiveInvariant
<1>4. QED
  BY <1>2, <1>3

LEMMA StepArchive ==
  ASSUME TypeOK, SlotInvariant, BatchInvariant, ControlInvariant, ArchiveInvariant,
         [Next]_vars
  PROVE  ArchiveInvariant'
<1>1. CASE OpenInput
  BY <1>1, OpenArchive
<1>2. CASE ConsumeBlock
  BY <1>2, ConsumeArchive
<1>3. CASE CompressSerially
  BY <1>3, SerialArchiveStep
<1>4. CASE CloseInput
  BY <1>4, CloseArchive
<1>5. CASE SubmitBlock
  <2>1. /\ mpc = "submit" /\ mpc' = "fill" /\ UNCHANGED << arc, index, fi, writeErr, pi >>
        /\ blockSeq' = blockSeq + 1 /\ pending' = Append(pending, NextSlot)
    BY <1>5 DEF SubmitBlock, MainGoes
  <2>2. fi \in FileNumbers /\ NextSlot \in Slots
    BY <2>1, NextSlotType, CompressConstants DEF ControlInvariant, InFile, FileNumbers, TypeOK
  <2>3. Len(pending') = Len(pending) + 1 /\ Len(pending) \in Nat
    BY <2>1, <2>2, AppendFacts DEF TypeOK
  <2>4. /\ Collected = blockSeq - Len(pending) + pi - 1
        /\ Collected' = blockSeq' - Len(pending') + pi' - 1
    BY <2>1 DEF Collected
  <2>5. blockSeq \in Nat /\ pi \in Nat
    BY DEF TypeOK
  <2>6. Collected' = Collected
    BY <2>1, <2>3, <2>4, <2>5
  <2>7. QED
    BY <2>1, <2>6, KeepArchive DEF InFile
<1>6. CASE ReleaseBlock
  <2>1. /\ mpc = "release" /\ mpc' = "collect" /\ pi' = pi + 1
        /\ UNCHANGED << arc, index, fi, writeErr, blockSeq, pending >>
    BY <1>6 DEF ReleaseBlock, MainGoes
  <2>2. /\ Collected = blockSeq - Len(pending) + pi
        /\ Collected' = blockSeq - Len(pending) + (pi + 1) - 1
    BY <2>1 DEF Collected
  <2>3. blockSeq \in Nat /\ pi \in Nat /\ Len(pending) \in Nat
    BY DEF TypeOK
  <2>4. Collected' = Collected
    BY <2>2, <2>3
  <2>5. QED
    BY <2>1, <2>4, KeepArchive DEF InFile
<1>7. CASE BatchIsCollected
  <2>1. /\ mpc = "collect" /\ mpc' \in {"close", "fill"} /\ pi' = 1 /\ pending' = << >>
        /\ UNCHANGED << arc, index, fi, writeErr, blockSeq >>
        /\ ~writeErr' /\ mpc' = "close" => Remaining = 0
    BY <1>7 DEF BatchIsCollected
  <2>2. blockSeq \in Nat /\ pi = Len(pending) + 1 /\ Len(pending) \in Nat
    BY <1>7 DEF BatchIsCollected, BatchInvariant, TypeOK
  <2>3. Collected = blockSeq
    <3>1. Collected = blockSeq - Len(pending) + pi - 1
      BY <2>1 DEF Collected
    <3>2. QED
      BY <2>2, <3>1
  <2>4. ~writeErr' => Collected' = blockSeq
    <3>1. CASE mpc' = "close"
      <4>1. fi < NumFiles /\ Blocks[fi] \in Nat
        BY <2>1, CompressConstants DEF ControlInvariant, InFile, TypeOK
      <4>2. ~writeErr' => Blocks[fi] = blockSeq
        BY <2>1, <2>2, <3>1, <4>1 DEF Remaining
      <4>3. Collected' = Blocks[fi]
        BY <2>1, <3>1 DEF Collected
      <4>4. QED
        BY <4>2, <4>3
    <3>2. CASE mpc' = "fill"
      <4>1. Collected' = blockSeq - Len(pending') + 1 - 1
        BY <2>1, <3>2 DEF Collected
      <4>2. Len(pending') = 0
        BY <2>1
      <4>3. QED
        BY <2>2, <4>1, <4>2
    <3>3. QED
      BY <2>1, <3>1, <3>2
  <2>5. QED
    BY <2>1, <2>3, <2>4, KeepArchive DEF InFile
<1>8. CASE SerialFileEnds
  <2>1. /\ mpc = "serial" /\ mpc' = "close" /\ Remaining = 0
        /\ UNCHANGED << arc, index, fi, writeErr, blockSeq, pending, pi >>
    BY <1>8 DEF SerialFileEnds, MainGoes
  <2>2. fi < NumFiles /\ Blocks[fi] \in Nat /\ pending = << >> /\ pi = 1 /\ blockSeq \in Nat
    BY <2>1, CompressConstants DEF ControlInvariant, InFile, InBatch, TypeOK
  <2>3. Collected = blockSeq
    <3>1. Collected = blockSeq - Len(pending) + pi - 1
      BY <2>1 DEF Collected
    <3>2. Len(pending) = 0
      BY <2>2
    <3>3. QED
      BY <2>2, <3>1, <3>2
  <2>4. Collected' = Blocks[fi]
    BY <2>1 DEF Collected
  <2>5. Blocks[fi] = blockSeq
    BY <2>1, <2>2 DEF Remaining
  <2>6. QED
    BY <2>1, <2>3, <2>4, <2>5, KeepArchive DEF InFile
<1>9. CASE \/ ReadBlock \/ BatchIsFull \/ SubmitWaits \/ CollectWaits \/ CollectBlock
  <2>1. /\ mpc \in InFile \ {"close", "release"} /\ mpc' \in InFile \ {"close", "release"}
        /\ UNCHANGED << arc, index, fi, blockSeq, pending, pi >>
    BY <1>9 DEF ReadBlock, BatchIsFull, SubmitWaits, CollectWaits, CollectBlock, MainGoes,
       InFile, driverVars, zpar_submit_blocks, zpar_wait_blocks
  <2>2. Collected' = Collected
    BY <2>1 DEF Collected
  <2>3. writeErr => writeErr'
    BY <1>9 DEF ReadBlock, BatchIsFull, SubmitWaits, CollectWaits, CollectBlock, driverVars
  <2>4. QED
    BY <2>1, <2>2, <2>3, KeepArchive DEF InFile
<1>10. CASE \/ CreatePool \/ RewriteHeader \/ NoMoreInputs \/ DestroyPool \/ JoinWorkers
            \/ FinishArchive
  <2>1. /\ mpc' \notin InFile
        /\ mpc' \in {"header", "open", "create"} => mpc \in {"header", "open", "create"}
        /\ UNCHANGED << arc, index, fi >>
    BY <1>10 DEF CreatePool, RewriteHeader, NoMoreInputs, DestroyPool, JoinWorkers,
       FinishArchive, MainGoes, InFile
  <2>2. writeErr => writeErr'
    BY <1>10 DEF CreatePool, RewriteHeader, NoMoreInputs, DestroyPool, JoinWorkers,
       FinishArchive
  <2>3. QED
    BY <2>1, <2>2, KeepArchive
<1>11. CASE UNCHANGED driverVars
  <2>1. UNCHANGED << mpc, arc, index, fi, blockSeq, pending, pi, writeErr >>
    BY <1>11 DEF driverVars
  <2>2. Collected' = Collected
    BY <2>1 DEF Collected
  <2>3. QED
    BY <2>1, <2>2, KeepArchive
<1>12. QED
  BY <1>1, <1>2, <1>3, <1>4, <1>5, <1>6, <1>7, <1>8, <1>9, <1>10, <1>11
     DEF Next, MainStep, Returned, Worker, Spurious, vars

-----------------------------------------------------------------------------
(* The theorems *)

LEMMA InvInitially == Init => IndInv
<1> SUFFICES ASSUME Init PROVE IndInv
  OBVIOUS
<1>1. TypeOK
  BY TypesInitially
<1>2. SlotInvariant
  BY SlotsInitially DEF Init
<1>3. pending = << >> /\ pi = 1 /\ Len(pending) = 0
  BY DEF Init
<1>4. BatchInvariant
  BY <1>3 DEF Init, PoolInit, BatchInvariant, Uncollected
<1>5. ControlInvariant
  BY DEF Init, PoolInit, ControlInvariant, MainReadsDoneSlots, InFile, InBatch, WithPool
<1>8. RingInvariant
  BY <1>3 DEF Init, RingInvariant
<1>6. ArchiveInvariant
  <2>1. \A f \in FileNumbers : index[f].count = 0 /\ ~(f < fi)
    BY DEF Init, FileNumbers
  <2>2. mpc \notin InFile
    BY DEF Init, InFile
  <2>3. fi < NumFiles => fi \in FileNumbers
    BY CompressConstants DEF Init, FileNumbers
  <2>4. QED
    BY <2>1, <2>2, <2>3 DEF ArchiveInvariant
<1>7. QED
  BY <1>1, <1>2, <1>4, <1>5, <1>6, <1>8 DEF IndInv

\* Every state of zupt_compress_files and its pool satisfies IndInv: the types, the
\* handover of the slots, the batch in the ring, the control state of the main
\* thread, and what the archive holds so far.
THEOREM Invariance == Spec => []IndInv
<1>1. IndInv /\ [Next]_vars => IndInv'
  <2> SUFFICES ASSUME IndInv, [Next]_vars PROVE IndInv'
    OBVIOUS
  <2>1. /\ TypeOK /\ SlotInvariant /\ BatchInvariant /\ RingInvariant
        /\ ControlInvariant /\ ArchiveInvariant
    BY DEF IndInv
  <2>2. TypeOK'
    BY <2>1, StepTypes
  <2>3. SlotInvariant'
    BY <2>1, StepSlots
  <2>4. BatchInvariant'
    BY <2>1, StepBatch
  <2>5. ControlInvariant'
    BY <2>1, StepControl
  <2>6. ArchiveInvariant'
    BY <2>1, StepArchive
  <2>7. RingInvariant'
    BY <2>1, StepRing
  <2>8. QED
    BY <2>2, <2>3, <2>4, <2>5, <2>6, <2>7 DEF IndInv
<1>2. QED
  BY InvInitially, <1>1, PTL DEF Spec

-----------------------------------------------------------------------------
\* TypeOK is one part of IndInv.
THEOREM TypeCorrect == Spec => []TypeOK
<1>1. IndInv => TypeOK
  BY DEF IndInv
<1>2. QED
  BY <1>1, Invariance, PTL

\* No worker is inside its slot while the main thread fills it or reads it, and
\* none is left when zpar_destroy frees the context.
THEOREM HandOver == Spec => [](SlotsHandedOver /\ MainReadsDoneSlots)
<1>1. IndInv => SlotsHandedOver /\ MainReadsDoneSlots
  BY DEF IndInv, SlotInvariant, ControlInvariant
<1>2. QED
  BY <1>1, Invariance, PTL

\* zpar_destroy finds every slot collected and released, on every error path.
THEOREM IdleAtShutdown == Spec => []PoolIdleAtShutdown
<1>1. IndInv => PoolIdleAtShutdown
  <2> SUFFICES ASSUME IndInv, shutdown PROVE \A i \in Slots : status[i] = "EMPTY"
    BY DEF PoolIdleAtShutdown
  <2>1. pending = << >> /\ pi = 1
    BY DEF IndInv, ControlInvariant, InBatch
  <2>2. Len(pending) = 0
    BY <2>1
  <2>3. Uncollected = {}
    BY <2>1, <2>2 DEF Uncollected
  <2>4. QED
    BY <2>3 DEF IndInv, BatchInvariant
<1>2. QED
  BY <1>1, Invariance, PTL

\* A published archive holds every block of every input, in order and sealed with
\* its sequence number, whatever the workers, the failures and their order.
THEOREM Completeness == Spec => []PublishedArchiveIsComplete
<1>1. IndInv => PublishedArchiveIsComplete
  <2> SUFFICES ASSUME IndInv, outcome = "published", NEW f \in FileNumbers
               PROVE  /\ index[f].count = Blocks[f]
                      /\ \A b \in 0 .. Blocks[f] - 1 :
                           arc[index[f].first + b + 1] = Frame(f, b)
    BY DEF PublishedArchiveIsComplete
  <2>1. mpc = "done" /\ ~writeErr /\ fi = NumFiles
    BY DEF IndInv, ControlInvariant
  <2>2. f < fi
    BY <2>1, CompressConstants DEF FileNumbers
  <2>3. Holds(f, Blocks[f])
    BY <2>1, <2>2 DEF IndInv, ArchiveInvariant
  <2>4. QED
    BY <2>3 DEF Holds
<1>2. QED
  BY <1>1, Invariance, PTL

\* If the main thread waits for a slot in zpar_submit_compress, it waits for itself:
\* the slot belongs to a block of the same batch, which only it can collect.
THEOREM WaitsForItself == Spec => []BlockedOnItself
<1>1. IndInv => BlockedOnItself
  <2> SUFFICES ASSUME IndInv, mpc = "submit", status[NextSlot] # "EMPTY"
               PROVE  \E k \in 1 .. Len(pending) : pending[k] = NextSlot
    BY DEF BlockedOnItself
  <2>1. NextSlot \in Slots
    BY NextSlotType, CompressConstants DEF IndInv, TypeOK
  <2>2. PICK k \in Uncollected : pending[k] = NextSlot
    BY <2>1 DEF IndInv, BatchInvariant
  <2>3. k \in 1 .. Len(pending)
    BY DEF Uncollected, IndInv, TypeOK
  <2>4. QED
    BY <2>2, <2>3
<1>2. QED
  BY <1>1, Invariance, PTL

\* The ring has a free slot for every block of a batch, provided the batch is no
\* larger than the ring: the number of threads asked for is at most
\* ZUPT_MAX_THREADS.
THEOREM RingIsLargeEnough ==
  Threads <= MaxThreads => (Spec => []SubmitFindsEmptySlot)
<1> SUFFICES ASSUME Threads <= MaxThreads PROVE Spec => []SubmitFindsEmptySlot
  OBVIOUS
<1>1. IndInv => SubmitFindsEmptySlot
  <2> SUFFICES ASSUME IndInv, mpc = "submit", status[NextSlot] # "EMPTY" PROVE FALSE
    BY DEF SubmitFindsEmptySlot
  <2>1. fi \in Nat /\ blockSeq \in Nat /\ Len(pending) \in Nat
    BY CompressConstants DEF IndInv, TypeOK
  <2>2. Len(pending) < Threads /\ NSlots = Threads
    BY <2>1, PoolConstants DEF IndInv, RingInvariant, NSlots
  <2>3. PICK k \in Uncollected : pending[k] = NextSlot
    BY <2>1, NextSlotType DEF IndInv, BatchInvariant
  <2>4. k \in 1 .. Len(pending)
    BY DEF Uncollected, IndInv, TypeOK
  <2>5. pending[k] = SlotOf(AadSeq(fi, blockSeq - Len(pending) + k - 1))
    BY <2>4 DEF IndInv, RingInvariant
  <2> DEFINE d == Len(pending) - k + 1
             a == AadSeq(fi, blockSeq - Len(pending) + k - 1)
  <2>6. d \in 1 .. NSlots - 1
    BY <2>1, <2>2, <2>4, PoolConstants
  <2>7. blockSeq - Len(pending) + k - 1 \in Nat
    BY <2>1, <2>4 DEF IndInv, BatchInvariant
  <2>8. a \in Nat /\ AadSeq(fi, blockSeq) = a + d
    <3>1. (fi + 1) * SeqShift \in Nat
      BY <2>1, CompressConstants
    <3>2. QED
      BY <2>1, <2>4, <2>7, <3>1 DEF AadSeq
  <2>9. NSlots \in Nat \ {0}
    BY PoolConstants DEF NSlots
  <2>10. (a + d) % NSlots # a % NSlots
    BY <2>6, <2>8, <2>9, ModDistinct
  <2>11. QED
    BY <2>3, <2>5, <2>8, <2>10 DEF NextSlot, SlotOf
<1>2. QED
  BY <1>1, Invariance, PTL

-----------------------------------------------------------------------------
(* Refinement: the serial loop, step by step. *)

\* Steps that do not touch the archive are stuttering, or the first error.
LEMMA NoFrameSteps ==
  ASSUME TypeOK, ControlInvariant, [Next]_vars, UNCHANGED << fi, outcome >>,
         writeErr' \/ UNCHANGED << arc, index, writeErr >>, mpc # "done"
  PROVE  [Serial!Next]_(Serial!vars)
<1>1. outcome = "open"
  BY DEF TypeOK, ControlInvariant
<1>2. CASE writeErr'
  BY <1>1, <1>2 DEF Serial!Next, Serial!Fail
<1>3. CASE UNCHANGED << arc, index, writeErr >>
  BY <1>3 DEF Serial!vars
<1>4. QED
  BY <1>2, <1>3

\* A collected block is the next one of its file.
LEMMA WriteSteps ==
  ASSUME IndInv, ConsumeBlock \/ CompressSerially, ~writeErr', ~writeErr
  PROVE  Serial!Write
<1>1. /\ fi \in FileNumbers /\ fi' = fi /\ outcome' = outcome /\ writeErr' = writeErr
      /\ mpc \in InFile /\ blockSeq \in Nat /\ Blocks[fi] \in Nat /\ blockSeq <= Blocks[fi]
  <2>1. fi' = fi /\ outcome' = outcome /\ mpc \in {"consume", "serial"}
    BY DEF ConsumeBlock, CompressSerially, MainGoes
  <2>2. fi \in 0 .. NumFiles /\ fi < NumFiles /\ blockSeq <= Blocks[fi] /\ blockSeq \in Nat
    BY <2>1 DEF IndInv, ControlInvariant, InFile, TypeOK
  <2>3. fi \in FileNumbers
    BY <2>2, CompressConstants DEF FileNumbers
  <2>4. writeErr' = writeErr
    <3>1. TypeOK'
      BY StepTypes DEF IndInv, Next, MainStep
    <3>2. QED
      BY <3>1 DEF IndInv, TypeOK
  <2>5. QED
    BY <2>1, <2>2, <2>3, <2>4, CompressConstants DEF InFile, FileNumbers
<1>2. index[fi].count = Collected
  BY <1>1 DEF IndInv, ArchiveInvariant, Holds
<1>3. CASE ConsumeBlock
  <2> DEFINE s == pending[pi]
  <2>1. /\ mpc = "consume" /\ error[s] = "OK" /\ arc' = Append(arc, output[s])
        /\ index' = [index EXCEPT ![fi].count = @ + 1]
    BY <1>3 DEF ConsumeBlock, MainGoes
  <2>2. pi \in Uncollected /\ s \in Slots /\ status[s] = "DONE" /\ pi <= Len(pending)
    BY <2>1 DEF IndInv, ControlInvariant, MainReadsDoneSlots, Uncollected, TypeOK
  <2>3. output[s] = job[s]
    BY <2>1, <2>2 DEF IndInv, SlotInvariant, DoneSlotsCarryTheirJob
  <2>4. output[s] = Frame(fi, blockSeq - Len(pending) + pi - 1)
    BY <2>2, <2>3 DEF IndInv, BatchInvariant
  <2>5. Collected = blockSeq - Len(pending) + pi - 1
    BY <2>1 DEF Collected
  <2>6. Len(pending) \in Nat /\ pi \in Nat
    BY DEF IndInv, TypeOK
  <2>7. Collected < Blocks[fi]
    BY <1>1, <2>2, <2>5, <2>6
  <2>8. QED
    BY <1>1, <1>2, <2>1, <2>4, <2>5, <2>7 DEF Serial!Write, Serial!FileNumbers, FileNumbers
<1>4. CASE CompressSerially
  <2>1. /\ mpc = "serial" /\ Remaining > 0 /\ arc' = Append(arc, Frame(fi, blockSeq))
        /\ index' = [index EXCEPT ![fi].count = @ + 1]
    BY <1>4 DEF CompressSerially
  <2>2. pending = << >> /\ pi = 1
    BY <2>1 DEF IndInv, ControlInvariant, InBatch
  <2>3. Collected = blockSeq - Len(pending) + pi - 1 /\ Len(pending) = 0
    BY <2>1, <2>2 DEF Collected
  <2>4. Collected = blockSeq
    BY <1>1, <2>2, <2>3
  <2>5. blockSeq < Blocks[fi]
    BY <1>1, <2>1 DEF Remaining
  <2>6. QED
    BY <1>1, <1>2, <2>1, <2>4, <2>5 DEF Serial!Write, Serial!FileNumbers, FileNumbers
<1>5. QED
  BY <1>3, <1>4

LEMMA RefinementStep ==
  ASSUME IndInv, [Next]_vars
  PROVE  [Serial!Next]_(Serial!vars)
<1>1. TypeOK /\ ControlInvariant
  BY DEF IndInv
<1>2. CASE OpenInput
  <2>1. mpc = "open" /\ fi' = fi /\ outcome' = outcome /\ arc' = arc
    BY <1>2 DEF OpenInput, MainGoes
  <2>2. CASE writeErr'
    BY <1>1, <2>1, <2>2, NoFrameSteps
  <2>3. CASE ~writeErr'
    <3>1. /\ index' = [index EXCEPT ![fi] = [first |-> Len(arc), count |-> 0]]
          /\ writeErr' = writeErr
      BY <1>2, <2>3 DEF OpenInput
    <3>2. fi \in FileNumbers /\ fi < NumFiles
      BY <1>1, <1>2, CompressConstants DEF OpenInput, TypeOK, FileNumbers
    <3>3. index[fi].count = 0
      BY <2>1, <2>3, <3>1, <3>2 DEF IndInv, ArchiveInvariant
    <3>4. QED
      BY <2>1, <2>3, <3>1, <3>2, <3>3
         DEF Serial!Next, Serial!Open, Serial!FileNumbers, FileNumbers
  <2>4. QED
    BY <2>2, <2>3
<1>3. CASE ConsumeBlock \/ CompressSerially
  <2>1. UNCHANGED << fi, outcome >> /\ mpc # "done" /\ (writeErr => writeErr')
    BY <1>3 DEF ConsumeBlock, CompressSerially, MainGoes
  <2>2. CASE writeErr'
    BY <1>1, <2>1, <2>2, NoFrameSteps
  <2>3. CASE ~writeErr'
    BY <1>3, <2>1, <2>3, WriteSteps DEF Serial!Next
  <2>4. QED
    BY <2>2, <2>3
<1>4. CASE CloseInput
  <2>1. mpc = "close" /\ UNCHANGED << arc, index, outcome >>
    BY <1>4 DEF CloseInput
  <2>2. CASE writeErr'
    <3>1. fi' = fi
      BY <1>4, <2>2 DEF CloseInput
    <3>2. QED
      BY <1>1, <2>1, <2>2, <3>1, NoFrameSteps
  <2>3. CASE ~writeErr'
    <3>1. fi' = fi + 1 /\ writeErr' = writeErr /\ ~writeErr
      BY <1>4, <2>3 DEF CloseInput
    <3>2. index[fi].count = Blocks[fi]
      BY <2>1, <3>1 DEF IndInv, ArchiveInvariant, Holds, Collected, InFile
    <3>3. fi \in FileNumbers
      BY <1>1, <2>1, CompressConstants DEF ControlInvariant, InFile, TypeOK, FileNumbers
    <3>4. QED
      BY <2>1, <3>1, <3>2, <3>3
         DEF Serial!Next, Serial!Close, Serial!FileNumbers, FileNumbers
  <2>4. QED
    BY <2>2, <2>3
<1>5. CASE FinishArchive
  <2>1. /\ mpc = "finish" /\ UNCHANGED << fi, arc, index, writeErr >>
        /\ outcome' = "discarded" \/ (outcome' = "published" /\ ~writeErr)
    BY <1>5 DEF FinishArchive, MainGoes
  <2>2. outcome = "open"
    BY <1>1, <2>1 DEF ControlInvariant, TypeOK
  <2>3. ~writeErr => fi = NumFiles
    BY <1>1, <2>1 DEF ControlInvariant
  <2>4. QED
    BY <2>1, <2>2, <2>3 DEF Serial!Next, Serial!Publish, Serial!Discard
<1>6. CASE RewriteHeader \/ ReadBlock
  <2>1. UNCHANGED << fi, outcome, arc, index >> /\ mpc # "done"
    BY <1>6 DEF RewriteHeader, ReadBlock, MainGoes
  <2>2. writeErr' \/ writeErr' = writeErr
    BY <1>1, <1>6 DEF RewriteHeader, ReadBlock, TypeOK
  <2>3. QED
    BY <1>1, <2>1, <2>2, NoFrameSteps
<1>7. CASE \/ CreatePool \/ NoMoreInputs \/ BatchIsFull \/ SubmitBlock \/ CollectBlock
           \/ ReleaseBlock \/ BatchIsCollected \/ SerialFileEnds \/ DestroyPool
           \/ JoinWorkers
  BY <1>7 DEF CreatePool, NoMoreInputs, BatchIsFull, SubmitBlock, CollectBlock,
     ReleaseBlock, BatchIsCollected, SerialFileEnds, DestroyPool, JoinWorkers, Serial!vars
<1>8. CASE UNCHANGED driverVars
  BY <1>8 DEF driverVars, Serial!vars
<1>9. QED
  BY <1>2, <1>3, <1>4, <1>5, <1>6, <1>7, <1>8
     DEF Next, MainStep, Returned, Worker, Spurious, SubmitWaits, CollectWaits, vars

\* Whatever the number of threads, zupt_compress_files writes the frames that the
\* serial loop writes, in its order, and publishes under the same condition.
THEOREM Refinement == Spec => WritesLikeTheSerialLoop
<1>1. Init => Serial!Init
  BY DEF Init, Serial!Init, Serial!FileNumbers, FileNumbers
<1>2. IndInv /\ [Next]_vars => [Serial!Next]_(Serial!vars)
  BY RefinementStep
<1>3. QED
  BY <1>1, <1>2, Invariance, PTL DEF Spec, WritesLikeTheSerialLoop, Serial!Spec
=============================================================================
