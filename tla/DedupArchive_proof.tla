------------------------- MODULE DedupArchive_proof -------------------------
(***************************************************************************)
(* Deduplication gives back the input: for every input, every table and     *)
(* every collision of fingerprints, with or without failing calls.          *)
(***************************************************************************)
EXTENDS DedupArchive, TLAPS

LEMMA PlaceType ==
  ASSUME NEW c \in Contents, NEW i \in Nat
  PROVE  Place(c, i) \in Places
<1>1. Fingerprint[c] \in Nat /\ Capacity \in Nat \ {0}
  BY DedupConstants
<1>2. Fingerprint[c] % Capacity \in Nat
  BY <1>1
<1> DEFINE n == (Fingerprint[c] % Capacity) + i
<1>3. n \in Nat
  BY <1>2
<1> HIDE DEF n
<1>4. n % Capacity \in 0 .. Capacity - 1
  BY <1>1, <1>3
<1>5. QED
  BY <1>4 DEF Place, Places, n

LEMMA AadSeqType ==
  ASSUME NEW f \in Nat, NEW b \in Nat
  PROVE  AadSeq(f, b) \in Nat
<1>1. (f + 1) * SeqShift \in Nat
  BY DedupArchiveConstants
<1>2. QED
  BY <1>1 DEF AadSeq

\* An input has a length, and its blocks are contents.
LEMMA InputFacts ==
  ASSUME TypeOK, NEW f \in FileNumbers
  PROVE  /\ input[f] \in Seq(Contents)
         /\ Len(input[f]) \in Nat
         /\ \A b \in 1 .. Len(input[f]) : input[f][b] \in Contents
  BY DedupArchiveConstants DEF TypeOK

\* Insertion enters one entry in an empty place at the end of its chain.
LEMMA InsertFacts ==
  ASSUME TableTypeOK, ChainsHaveNoHoles,
         NEW c \in Contents, NEW offset \in Nat, NEW seq \in Nat,
         zupt_dedup_insert_secure(c, offset, seq)
  PROVE  /\ TableTypeOK'
         /\ ChainsHaveNoHoles'
         /\ \A p \in Places : table'[p] = table[p] \/ table'[p] = {Entry(c, offset, seq)}
<1>1. CASE UNCHANGED tableVars
  BY <1>1 DEF tableVars, TableTypeOK, ChainsHaveNoHoles, Occupied
<1>2. CASE ~UNCHANGED tableVars
  <2>1. PICK i \in Probes :
          /\ ~Occupied(Place(c, i))
          /\ \A j \in 0 .. i - 1 : Occupied(Place(c, j))
          /\ table' = [table EXCEPT ![Place(c, i)] = {Entry(c, offset, seq)}]
          /\ count' = count + 1
    BY <1>2 DEF zupt_dedup_insert_secure
  <2> DEFINE q == Place(c, i)
  <2>2. q \in Places
    BY PlaceType DEF Probes
  <2>3. \A p \in Places : table'[p] = IF p = q THEN {Entry(c, offset, seq)} ELSE table[p]
    BY <2>1, <2>2 DEF TableTypeOK
  <2>4. TableTypeOK'
    <3>1. Entry(c, offset, seq) \in Entries
      BY DEF Entry, Entries
    <3>2. QED
      BY <2>1, <2>2, <2>3, <3>1 DEF TableTypeOK
  <2>5. \A p \in Places : Occupied(p) => Occupied(p)'
    BY <2>3 DEF Occupied
  <2>6. \A d \in Contents, j \in Nat : Place(d, j) \in Places
    BY PlaceType
  <2>7. ChainsHaveNoHoles'
    <3> SUFFICES ASSUME NEW p \in Places, NEW e \in table'[p]
                 PROVE  \E k \in Probes :
                          /\ p = Place(e.content, k)
                          /\ \A j \in 0 .. k - 1 : Occupied(Place(e.content, j))'
      BY DEF ChainsHaveNoHoles, Place
    <3>1. CASE p = q
      <4>1. e.content = c
        BY <2>3, <3>1 DEF Entry
      <4>2. \A j \in 0 .. i - 1 : Occupied(Place(c, j))'
        BY <2>1, <2>5, <2>6 DEF Probes
      <4>3. QED
        BY <3>1, <4>1, <4>2
    <3>2. CASE p # q
      <4>1. e \in table[p]
        BY <2>3, <3>2
      <4>2. e.content \in Contents
        BY <4>1 DEF TableTypeOK, Entries
      <4>3. PICK k \in Probes :
              /\ p = Place(e.content, k)
              /\ \A j \in 0 .. k - 1 : Occupied(Place(e.content, j))
        BY <4>1 DEF ChainsHaveNoHoles
      <4>4. \A j \in 0 .. k - 1 : Occupied(Place(e.content, j))'
        BY <2>5, <2>6, <4>2, <4>3 DEF Probes
      <4>5. QED
        BY <4>3, <4>4
    <3>3. QED
      BY <3>1, <3>2
  <2>8. QED
    BY <2>3, <2>4, <2>7
<1>3. QED
  BY <1>1, <1>2

\* Only one content of a size has the fingerprint and the digest of a hit.
LEMMA HitFacts ==
  ASSUME TableTypeOK, NEW c \in Contents, NEW e \in Hits(c)
  PROVE  /\ \E p \in Places : e \in table[p]
         /\ e \in Entries
         /\ e.content = c
<1>1. PICK p \in Places : e \in table[p]
  BY DEF Hits
<1>2. Hit(c, e)
  BY DEF Hits
<1>3. PICK i \in Probes : e \in table[Place(c, i)] /\ Matches(Place(c, i), c)
  BY <1>2 DEF Hit, zupt_dedup_lookup_secure
<1>4. Place(c, i) \in Places
  BY PlaceType DEF Probes
<1>5. Fingerprint[e.content] = Fingerprint[c] /\ Digest[e.content] = Digest[c]
  BY <1>3, <1>4 DEF Matches, TableTypeOK
<1>6. e \in Entries
  BY <1>1 DEF TableTypeOK
<1>7. e.content \in Contents
  BY <1>6 DEF Entries
<1>8. e.content = c
  BY <1>2, <1>5, <1>7, DedupConstants DEF Hit
<1>9. QED
  BY <1>1, <1>6, <1>8
-----------------------------------------------------------------------------
(* Steps of the writer *)

\* An archive that does not change, or that grows by a frame, still holds the
\* blocks it held.
LEMMA StoredStays ==
  ASSUME TypeOK, UNCHANGED inputVars, NEW f \in FileNumbers, NEW n \in Nat,
         first'[f] = first[f], Stored(f, n),
         \/ frames' = frames
         \/ \E x \in Frames : frames' = Append(frames, x)
  PROVE  Stored(f, n)'
<1>1. /\ frames' \in Seq(Frames) /\ Len(frames') >= Len(frames)
      /\ \A k \in 1 .. Len(frames) : frames'[k] = frames[k]
  <2>1. frames \in Seq(Frames)
    BY DEF TypeOK
  <2>2. CASE frames' = frames
    BY <2>1, <2>2
  <2>3. ASSUME NEW x \in Frames, frames' = Append(frames, x)
        PROVE  /\ frames' \in Seq(Frames) /\ Len(frames') >= Len(frames)
               /\ \A k \in 1 .. Len(frames) : frames'[k] = frames[k]
    BY <2>1, <2>3
  <2>4. QED
    BY <2>2, <2>3
<1>2. first[f] \in Nat /\ Len(frames) \in Nat
  BY DEF TypeOK
<1>3. \A b \in 0 .. n - 1 : first[f] + b \in 1 .. Len(frames)
  BY <1>2 DEF Stored
<1>4. ASSUME NEW b \in 0 .. n - 1
      PROVE  /\ frames'[first'[f] + b].content = input'[f][b + 1]
             /\ frames'[first'[f] + b].seq = AadSeq(f, b)
  <2>1. frames'[first[f] + b] = frames[first[f] + b]
    BY <1>1, <1>3
  <2>2. /\ frames[first[f] + b].content = input[f][b + 1]
        /\ frames[first[f] + b].seq = AadSeq(f, b)
    BY DEF Stored
  <2>3. input' = input
    BY DEF inputVars
  <2> QED
    BY <2>1, <2>2, <2>3, Zenon
<1>5. first'[f] >= 1 /\ first'[f] + n <= Len(frames') + 1
  <2>1. first[f] >= 1 /\ first[f] + n <= Len(frames) + 1
    BY DEF Stored
  <2>2. Len(frames') \in Nat /\ Len(frames') >= Len(frames)
    BY <1>1
  <2> QED
    BY <1>2, <2>1, <2>2
<1>6. \A b \in 0 .. n - 1 : AadSeq(f, b)' = AadSeq(f, b)
  BY DEF AadSeq
<1>7. QED
  BY <1>4, <1>5, <1>6 DEF Stored

LEMMA CompleteStays ==
  ASSUME TypeOK, UNCHANGED inputVars, NEW f \in FileNumbers,
         first'[f] = first[f], Complete(f),
         \/ frames' = frames
         \/ \E x \in Frames : frames' = Append(frames, x)
  PROVE  Complete(f)'
<1>1. PICK n \in Nat : n = Len(input[f])
  BY InputFacts
<1>2. Stored(f, n)
  BY <1>1 DEF Complete
<1>3. Stored(f, n)'
  BY <1>2, StoredStays
<1>4. QED
  BY <1>1, <1>3 DEF Complete, inputVars

\* Steps that touch neither the table nor the frames.
LEMMA ArchiveStays ==
  ASSUME IndInv, UNCHANGED << tableVars, inputVars, frames >>
  PROVE  /\ TableTypeOK' /\ ChainsHaveNoHoles'
         /\ TablePointsToData' /\ ReferencesPointBack'
         /\ StreamError' <=> StreamError
<1>1. table' = table /\ count' = count /\ frames' = frames
  BY DEF tableVars
<1>2. TableTypeOK'
  BY <1>1 DEF IndInv, TypeOK, TableTypeOK
<1>3. ChainsHaveNoHoles'
  BY <1>1 DEF IndInv, ChainsHaveNoHoles, Occupied
<1>4. TablePointsToData'
  BY <1>1 DEF IndInv, TablePointsToData
<1>5. ReferencesPointBack'
  BY <1>1 DEF IndInv, ReferencesPointBack
<1>6. StreamError' <=> StreamError
  BY <1>1 DEF StreamError
<1>7. QED
  BY <1>2, <1>3, <1>4, <1>5, <1>6

LEMMA OpenInputStep ==
  ASSUME IndInv, OpenInput
  PROVE  IndInv'
<1>1. /\ TableTypeOK' /\ ChainsHaveNoHoles'
      /\ TablePointsToData' /\ ReferencesPointBack'
  BY ArchiveStays DEF OpenInput
<1>2. TypeOK'
  <2>1. first' \in [FileNumbers -> Nat]
    <3>1. Len(frames) + 1 \in Nat /\ first \in [FileNumbers -> Nat]
      BY DEF IndInv, TypeOK
    <3>2. QED
      BY <3>1 DEF OpenInput
  <2>2. writeErr' \in BOOLEAN /\ mode' \in Modes
    BY DEF OpenInput, IndInv, TypeOK, Goes, Modes
  <2>3. QED
    BY <1>1, <2>1, <2>2 DEF OpenInput, IndInv, TypeOK, inputVars, readVars
<1>3. ReaderInv'
  BY DEF OpenInput, IndInv, ReaderInv, Goes, inputVars, readVars
<1>4. WriterInv'
  <2>1. fi \in FileNumbers /\ fi \in Nat /\ mode = "open"
    BY DedupArchiveConstants DEF OpenInput, IndInv, TypeOK, FileNumbers, Goes
  <2>2. CASE mode' = "close"
    BY <2>1, <2>2 DEF OpenInput, WriterInv, Goes
  <2>3. CASE mode' = "write"
    <3>1. /\ first' = [first EXCEPT ![fi] = Len(frames) + 1]
          /\ fi' = fi /\ blk' = 0 /\ frames' = frames /\ UNCHANGED inputVars
      BY <2>1, <2>3 DEF OpenInput, Goes
    <3>2. \A f \in 0 .. fi - 1 : Complete(f)'
      <4> SUFFICES ASSUME NEW f \in 0 .. fi - 1 PROVE Complete(f)'
        OBVIOUS
      <4>1. f \in FileNumbers /\ f # fi
        BY <2>1, DedupArchiveConstants DEF FileNumbers
      <4>2. first'[f] = first[f]
        BY <3>1, <4>1 DEF IndInv, TypeOK
      <4>3. Complete(f)
        BY <2>1 DEF IndInv, WriterInv
      <4>4. QED
        BY <3>1, <4>1, <4>2, <4>3, CompleteStays DEF IndInv
    <3>3. Len(frames) \in Nat /\ Len(input[fi]) \in Nat /\ first'[fi] = Len(frames) + 1
      BY <2>1, <3>1, InputFacts DEF IndInv, TypeOK
    <3>4. Stored(fi, 0)'
      BY <2>1, <3>1, <3>3 DEF Stored
    <3>5. Stored(fi, blk)'
      BY <3>1, <3>4
    <3>6. /\ fi' < NumFiles /\ blk' <= Len(input'[fi'])
          /\ first'[fi'] + blk' = Len(frames') + 1
      BY <3>1, <3>3 DEF OpenInput, inputVars
    <3>7. QED
      BY <2>3, <3>1, <3>2, <3>5, <3>6 DEF WriterInv
  <2>4. QED
    BY <2>2, <2>3 DEF OpenInput, Goes
<1>5. QED
  BY <1>1, <1>2, <1>3, <1>4 DEF IndInv

\* The block the writer is at.
LEMMA ContentFacts ==
  ASSUME IndInv, MoreToWrite
  PROVE  /\ fi \in FileNumbers /\ fi \in Nat /\ blk \in Nat /\ mode = "write"
         /\ Content \in Contents /\ AadSeq(fi, blk) \in Nat
         /\ blk + 1 <= Len(input[fi])
<1>1. mode = "write" /\ fi < NumFiles /\ blk < Len(input[fi])
  BY DEF IndInv, MoreToWrite, WriterInv
<1>2. fi \in FileNumbers /\ fi \in Nat /\ blk \in Nat
  BY <1>1, DedupArchiveConstants DEF IndInv, TypeOK, FileNumbers
<1>3. Len(input[fi]) \in Nat /\ \A b \in 1 .. Len(input[fi]) : input[fi][b] \in Contents
  BY <1>2, InputFacts DEF IndInv
<1>4. blk + 1 \in 1 .. Len(input[fi])
  BY <1>1, <1>2, <1>3
<1>5. Content \in Contents
  BY <1>3, <1>4 DEF Content
<1>6. AadSeq(fi, blk) \in Nat
  BY <1>2, AadSeqType
<1>7. QED
  BY <1>1, <1>2, <1>3, <1>4, <1>5, <1>6

\* A frame with the block the writer is at, under the sequence number of its
\* place, continues the entry.
LEMMA WriterGoesOn ==
  ASSUME IndInv, MoreToWrite, NEW x \in Frames,
         x.content = Content, x.seq = AadSeq(fi, blk),
         frames' = Append(frames, x), blk' = blk + 1, mode' = mode,
         UNCHANGED << inputVars, fi, first >>
  PROVE  WriterInv'
<1>1. PICK n \in Nat, f \in FileNumbers : n = blk /\ f = fi
  BY ContentFacts
<1>2. /\ Stored(f, n) /\ first[f] + n = Len(frames) + 1
      /\ \A g \in 0 .. f - 1 : Complete(g)
  BY <1>1, ContentFacts DEF IndInv, WriterInv
<1>3. \A g \in 0 .. f - 1 : Complete(g)'
  <2> SUFFICES ASSUME NEW g \in 0 .. f - 1 PROVE Complete(g)'
    OBVIOUS
  <2>1. g \in FileNumbers
    BY DedupArchiveConstants DEF FileNumbers
  <2>2. QED
    BY <1>2, <2>1, CompleteStays DEF IndInv
<1>4. Stored(f, n)'
  BY <1>2, StoredStays DEF IndInv
<1>5. /\ Len(frames') = Len(frames) + 1 /\ frames'[Len(frames) + 1] = x
      /\ Len(frames) \in Nat /\ first[f] \in Nat
  BY DEF IndInv, TypeOK
<1>6. x.content = input[f][n + 1] /\ x.seq = AadSeq(f, n)
  BY <1>1 DEF Content
<1>7. Stored(f, n + 1)'
  <2>1. /\ first'[f] = first[f] /\ first[f] >= 1
        /\ first'[f] + (n + 1) <= Len(frames') + 1
    BY <1>2, <1>5 DEF Stored
  <2>2. \A b \in 0 .. n - 1 :
          /\ frames'[first'[f] + b].content = input'[f][b + 1]
          /\ frames'[first'[f] + b].seq = AadSeq(f, b)
    BY <1>4 DEF Stored, AadSeq
  <2>3. /\ frames'[first'[f] + n].content = input'[f][n + 1]
        /\ frames'[first'[f] + n].seq = AadSeq(f, n)
    BY <1>2, <1>5, <1>6, <2>1 DEF inputVars
  <2>4. \A b \in 0 .. (n + 1) - 1 : b \in 0 .. n - 1 \/ b = n
    OBVIOUS
  <2>5. QED
    BY <2>1, <2>2, <2>3, <2>4 DEF Stored, AadSeq
<1>8. f < NumFiles /\ n + 1 <= Len(input[f])
  BY <1>1, ContentFacts DEF IndInv, WriterInv
<1>9. f = fi' /\ n + 1 = blk'
  BY <1>1
<1>10. Stored(fi, blk)' /\ first'[fi'] + blk' = Len(frames') + 1
  BY <1>2, <1>5, <1>7, <1>9
<1>11. \A g \in 0 .. fi' - 1 : Complete(g)'
  BY <1>3, <1>9
<1>12. fi' < NumFiles /\ blk' <= Len(input'[fi'])
  BY <1>8, <1>9 DEF inputVars
<1>13. mode' = "write"
  BY ContentFacts
<1>14. QED
  BY <1>10, <1>11, <1>12, <1>13 DEF WriterInv

\* What the table and the references point to stays when a frame is added.
LEMMA PointersStay ==
  ASSUME IndInv, NEW x \in Frames, frames' = Append(frames, x)
  PROVE  /\ frames' \in Seq(Frames)
         /\ Len(frames') = Len(frames) + 1 /\ Len(frames) \in Nat
         /\ frames'[Len(frames) + 1] = x
         /\ \A k \in 1 .. Len(frames) : frames'[k] = frames[k]
         /\ x.type # "REF" => ReferencesPointBack'
         /\ table' = table => TablePointsToData'
<1>1. /\ frames' \in Seq(Frames)
      /\ Len(frames') = Len(frames) + 1 /\ Len(frames) \in Nat
      /\ frames'[Len(frames) + 1] = x
      /\ \A k \in 1 .. Len(frames) : frames'[k] = frames[k]
  BY DEF IndInv, TypeOK
<1>2. ASSUME x.type # "REF" PROVE ReferencesPointBack'
  BY <1>1, <1>2 DEF IndInv, ReferencesPointBack
<1>3. ASSUME table' = table PROVE TablePointsToData'
  BY <1>1, <1>3 DEF IndInv, TablePointsToData
<1>4. QED
  BY <1>1, <1>2, <1>3

LEMMA WriteReferenceStep ==
  ASSUME IndInv, WriteReference
  PROVE  IndInv'
<1>1. MoreToWrite /\ UNCHANGED << tableVars, inputVars, fi, first, readVars >>
  BY DEF WriteReference
<1>2. PICK e \in Hits(Content) :
        \/ /\ ~StreamError
           /\ frames' = Append(frames, Ref(Content, AadSeq(fi, blk), e))
           /\ deduped' = deduped + 1
           /\ blk' = blk + 1
           /\ UNCHANGED << mode, writeErr >>
        \/ /\ mode' = "close"
           /\ writeErr' = TRUE
           /\ UNCHANGED << frames, deduped, blk >>
  BY DEF WriteReference
<1>3. ReaderInv'
  BY <1>1, <1>2, ContentFacts DEF IndInv, ReaderInv, readVars, inputVars
<1>4. TableTypeOK' /\ ChainsHaveNoHoles'
  <2>1. table' = table /\ count' = count
    BY <1>1 DEF tableVars
  <2>2. TableTypeOK'
    BY <2>1 DEF IndInv, TypeOK, TableTypeOK
  <2>3. ChainsHaveNoHoles'
    BY <2>1 DEF IndInv, ChainsHaveNoHoles, Occupied
  <2>4. QED
    BY <2>2, <2>3
<1>5. seen' = seen + 1 /\ seen \in Nat /\ deduped \in 0 .. seen
  BY DEF WriteReference, IndInv, TypeOK
<1>6. CASE frames' = Append(frames, Ref(Content, AadSeq(fi, blk), e))
           /\ ~StreamError /\ deduped' = deduped + 1
           /\ blk' = blk + 1 /\ UNCHANGED << mode, writeErr >>
  <2> DEFINE x == Ref(Content, AadSeq(fi, blk), e)
  <2>1. /\ e \in Entries /\ e.content = Content
        /\ \E p \in Places : e \in table[p]
    BY <1>1, ContentFacts, HitFacts DEF IndInv, TypeOK
  <2>2. x \in Frames
    BY <1>1, <2>1, ContentFacts DEF Ref, Frames, Entries
  <2>3. /\ x.type = "REF" /\ x.content = Content /\ x.seq = AadSeq(fi, blk)
        /\ x.offset = e.offset /\ x.refSeq = e.seq
    BY DEF Ref
  <2> HIDE DEF x
  <2>4. frames' = Append(frames, x)
    BY <1>6 DEF x
  <2>5. WriterInv'
    BY <1>1, <1>6, <2>2, <2>3, <2>4, WriterGoesOn
  <2>6. /\ frames' \in Seq(Frames)
        /\ Len(frames') = Len(frames) + 1 /\ Len(frames) \in Nat
        /\ frames'[Len(frames) + 1] = x
        /\ \A k \in 1 .. Len(frames) : frames'[k] = frames[k]
        /\ TablePointsToData'
    BY <1>1, <2>2, <2>4, PointersStay DEF tableVars
  <2>7. /\ e.offset \in 1 .. Len(frames)
        /\ frames[e.offset].type # "REF"
        /\ frames[e.offset].content = Content
        /\ frames[e.offset].seq = e.seq
    BY <2>1 DEF IndInv, TablePointsToData
  <2>8. frames[e.offset].type = "DATA"
    <3>1. frames[e.offset] \in Frames
      BY <2>7 DEF IndInv, TypeOK
    <3>2. frames[e.offset].type \in {"DATA", "REF", "TORN"}
      BY <3>1 DEF Frames
    <3>3. QED
      BY <1>6, <2>7, <3>2 DEF StreamError
  <2>9. ReferencesPointBack'
    <3> SUFFICES ASSUME NEW k \in 1 .. Len(frames'), frames'[k].type = "REF"
                 PROVE  /\ frames'[k].offset \in 1 .. k - 1
                        /\ frames'[frames'[k].offset].type = "DATA"
                        /\ frames'[frames'[k].offset].content = frames'[k].content
                        /\ frames'[frames'[k].offset].seq = frames'[k].refSeq
      BY DEF ReferencesPointBack
    <3>1. CASE k = Len(frames) + 1
      BY <3>1, <2>3, <2>6, <2>7, <2>8
    <3>2. CASE k \in 1 .. Len(frames)
      BY <3>2, <2>6 DEF IndInv, ReferencesPointBack
    <3>3. QED
      BY <3>1, <3>2, <2>6
  <2>10. TypeOK'
    <3>1. deduped' \in 0 .. seen' /\ blk' \in Nat /\ seen' \in Nat
      BY <1>5, <1>6 DEF IndInv, TypeOK
    <3>2. QED
      BY <1>1, <1>4, <1>6, <2>6, <3>1 DEF IndInv, TypeOK, inputVars, readVars
  <2>11. QED
    BY <1>3, <1>4, <2>5, <2>6, <2>9, <2>10 DEF IndInv
<1>7. CASE mode' = "close" /\ writeErr' = TRUE /\ UNCHANGED << frames, deduped, blk >>
  <2>1. TablePointsToData' /\ ReferencesPointBack'
    BY <1>1, <1>7, ArchiveStays
  <2>2. WriterInv'
    BY <1>7 DEF WriterInv
  <2>3. TypeOK'
    BY <1>1, <1>4, <1>5, <1>7 DEF IndInv, TypeOK, inputVars, readVars, Modes
  <2>4. QED
    BY <1>3, <1>4, <2>1, <2>2, <2>3 DEF IndInv
<1>8. QED
  BY <1>2, <1>6, <1>7

LEMMA WriteDataStep ==
  ASSUME IndInv, WriteData
  PROVE  IndInv'
<1>1. /\ MoreToWrite /\ seen' = seen + 1 /\ blk' = blk + 1
      /\ UNCHANGED << inputVars, mode, fi, first, deduped, readVars >>
      /\ zupt_dedup_insert_secure(Content, Len(frames) + 1, AadSeq(fi, blk))
  BY DEF WriteData
<1>2. PICK x : /\ \E type \in {"DATA", "TORN"} : x = Data(type, Content, AadSeq(fi, blk))
               /\ frames' = Append(frames, x)
               /\ writeErr' \in BOOLEAN
  <2>1. PICK torn \in MayFail, noticed \in MayFail :
          /\ frames' = Append(frames,
               Data(IF torn THEN "TORN" ELSE "DATA", Content, AadSeq(fi, blk)))
          /\ writeErr' = (writeErr \/ (torn /\ noticed))
    BY DEF WriteData
  <2>2. writeErr' \in BOOLEAN
    BY <2>1 DEF IndInv, TypeOK
  <2>3. (IF torn THEN "TORN" ELSE "DATA") \in {"DATA", "TORN"}
    OBVIOUS
  <2>4. QED
    BY <2>1, <2>2, <2>3
<1>3. /\ x \in Frames /\ x.type # "REF"
      /\ x.content = Content /\ x.seq = AadSeq(fi, blk)
  BY <1>1, <1>2, ContentFacts DEF Data, Frames
<1>4. /\ frames' \in Seq(Frames)
      /\ Len(frames') = Len(frames) + 1 /\ Len(frames) \in Nat
      /\ frames'[Len(frames) + 1] = x
      /\ \A k \in 1 .. Len(frames) : frames'[k] = frames[k]
      /\ ReferencesPointBack'
  BY <1>2, <1>3, PointersStay
<1>5. /\ TableTypeOK' /\ ChainsHaveNoHoles'
      /\ \A p \in Places : \/ table'[p] = table[p]
                           \/ table'[p] = {Entry(Content, Len(frames) + 1, AadSeq(fi, blk))}
  <2>1. PICK c \in Contents, o \in Nat, q \in Nat :
          c = Content /\ o = Len(frames) + 1 /\ q = AadSeq(fi, blk)
    BY <1>1, <1>4, ContentFacts
  <2>2. zupt_dedup_insert_secure(c, o, q)
    BY <1>1, <2>1
  <2>3. TableTypeOK /\ ChainsHaveNoHoles
    BY DEF IndInv, TypeOK
  <2>4. QED
    BY <2>1, <2>2, <2>3, InsertFacts
<1>6. TablePointsToData'
  <2> SUFFICES ASSUME NEW p \in Places, NEW e \in table'[p]
               PROVE  /\ e.offset \in 1 .. Len(frames')
                      /\ frames'[e.offset].type # "REF"
                      /\ frames'[e.offset].content = e.content
                      /\ frames'[e.offset].seq = e.seq
    BY DEF TablePointsToData
  <2>1. CASE e \in table[p]
    BY <1>4, <2>1 DEF IndInv, TablePointsToData
  <2>2. CASE e = Entry(Content, Len(frames) + 1, AadSeq(fi, blk))
    BY <1>3, <1>4, <2>2 DEF Entry
  <2>3. QED
    BY <1>5, <2>1, <2>2
<1>7. WriterInv'
  BY <1>1, <1>2, <1>3, WriterGoesOn
<1>8. ReaderInv'
  BY <1>1, ContentFacts DEF IndInv, ReaderInv, readVars, inputVars
<1>9. TypeOK'
  <2>1. deduped' \in 0 .. seen' /\ seen' \in Nat /\ blk' \in Nat
    BY <1>1 DEF IndInv, TypeOK
  <2>2. QED
    BY <1>1, <1>2, <1>4, <1>5, <2>1 DEF IndInv, TypeOK, inputVars, readVars
<1>10. QED
  BY <1>4, <1>5, <1>6, <1>7, <1>8, <1>9 DEF IndInv

\* The writer's steps that leave the frames, the table and the index alone.
LEMMA QuietWriterStep ==
  ASSUME IndInv, ReadFails \/ SealFails \/ CloseInput \/ AllRead \/ Finish
  PROVE  IndInv'
<1>1. /\ UNCHANGED << tableVars, inputVars, blk, frames, first, deduped, readVars >>
      /\ mode \in {"open", "write", "close"}
      /\ mode' \in {"open", "close", "discarded", "published"}
      /\ fi' = fi \/ CloseInput
  BY DEF ReadFails, SealFails, CloseInput, AllRead, Finish, Goes, archiveVars, MoreToWrite
<1>2. /\ TableTypeOK' /\ ChainsHaveNoHoles'
      /\ TablePointsToData' /\ ReferencesPointBack'
      /\ StreamError' <=> StreamError
  BY <1>1, ArchiveStays
<1>3. ReaderInv'
  BY <1>1 DEF IndInv, ReaderInv, readVars, inputVars
<1>4. \A f \in FileNumbers : Complete(f) => Complete(f)'
  BY <1>1, CompleteStays DEF IndInv
<1>5. fi \in Nat /\ NumFiles \in Nat /\ writeErr \in BOOLEAN
  BY DedupArchiveConstants DEF IndInv, TypeOK
<1>6. WriterInv' /\ fi' \in 0 .. NumFiles
  <2>1. CASE ReadFails \/ SealFails
    BY <2>1, <1>5 DEF ReadFails, SealFails, Goes, WriterInv, IndInv, TypeOK
  <2>2. CASE CloseInput
    <3>1. /\ mode = "write" /\ blk = Len(input[fi])
          /\ \/ mode' = "close" /\ writeErr' = TRUE /\ UNCHANGED fi
             \/ mode' = "open" /\ fi' = fi + 1 /\ UNCHANGED writeErr
      BY <2>2 DEF CloseInput
    <3>2. /\ fi < NumFiles /\ Complete(fi)
          /\ \A f \in 0 .. fi - 1 : Complete(f)
      BY <3>1 DEF IndInv, WriterInv, Complete
    <3>3. \A f \in 0 .. fi : f \in FileNumbers /\ Complete(f)
      BY <1>5, <3>2 DEF FileNumbers
    <3>4. \A f \in 0 .. fi : Complete(f)'
      BY <1>4, <3>3
    <3>5. CASE mode' = "close" /\ writeErr' = TRUE /\ UNCHANGED fi
      BY <1>5, <3>2, <3>5 DEF WriterInv
    <3>6. CASE mode' = "open" /\ fi' = fi + 1
      <4>1. 0 .. fi' - 1 = 0 .. fi
        BY <1>5, <3>6
      <4>2. \A f \in 0 .. fi' - 1 : Complete(f)'
        BY <3>4, <4>1
      <4>3. QED
        BY <1>5, <3>2, <3>6, <4>2 DEF WriterInv
    <3>7. QED
      BY <3>1, <3>5, <3>6
  <2>3. CASE AllRead
    <3>1. fi = NumFiles /\ mode = "open" /\ mode' = "close" /\ fi' = fi
      BY <2>3 DEF AllRead, Goes
    <3>2. \A f \in FileNumbers : Complete(f)
      BY <3>1 DEF IndInv, WriterInv, FileNumbers
    <3>3. QED
      BY <1>4, <1>5, <3>1, <3>2 DEF WriterInv
  <2>4. CASE Finish
    <3>1. /\ mode = "close" /\ fi' = fi
          /\ \/ mode' = "discarded"
             \/ mode' = "published" /\ ~writeErr /\ ~StreamError
      BY <2>4 DEF Finish
    <3>2. mode' = "published" => \A f \in FileNumbers : Complete(f)
      BY <3>1 DEF IndInv, WriterInv
    <3>3. QED
      BY <1>2, <1>4, <1>5, <3>1, <3>2 DEF WriterInv, IndInv, TypeOK
  <2>5. QED
    BY <2>1, <2>2, <2>3, <2>4
<1>7. writeErr' \in BOOLEAN /\ seen' \in Nat /\ deduped' \in 0 .. seen'
  <2>1. writeErr' \in BOOLEAN
    BY <1>5 DEF ReadFails, SealFails, CloseInput, AllRead, Finish, archiveVars
  <2>2. seen' = seen \/ seen' = seen + 1
    BY DEF ReadFails, SealFails, CloseInput, AllRead, Finish, archiveVars
  <2>3. QED
    BY <1>1, <2>1, <2>2 DEF IndInv, TypeOK
<1>8. TypeOK'
  BY <1>1, <1>2, <1>6, <1>7 DEF IndInv, TypeOK, Modes, inputVars, readVars
<1>9. QED
  BY <1>2, <1>3, <1>6, <1>8 DEF IndInv

-----------------------------------------------------------------------------
(* Steps of the reader *)

\* The reader does not change the archive.
LEMMA ReaderKeepsArchive ==
  ASSUME IndInv, UNCHANGED << tableVars, inputVars, archiveVars >>,
         mode \in {"published", "read"}, mode' \in {"read", "end"}
  PROVE  /\ TableTypeOK' /\ ChainsHaveNoHoles'
         /\ TablePointsToData' /\ ReferencesPointBack' /\ WriterInv'
<1>1. UNCHANGED << tableVars, inputVars, frames, first >>
  BY DEF archiveVars
<1>2. /\ TableTypeOK' /\ ChainsHaveNoHoles'
      /\ TablePointsToData' /\ ReferencesPointBack'
      /\ StreamError' <=> StreamError
  BY <1>1, ArchiveStays
<1>3. ~StreamError /\ \A f \in FileNumbers : Complete(f)
  BY DEF IndInv, WriterInv
<1>4. \A f \in FileNumbers : Complete(f)'
  BY <1>1, <1>3, CompleteStays DEF IndInv
<1>5. QED
  BY <1>2, <1>3, <1>4 DEF WriterInv

\* A frame of a published archive is the block of its place, and can be read.
LEMMA BlockOpens ==
  ASSUME IndInv, mode = "read", fi < NumFiles, blk < Len(input[fi])
  PROVE  /\ DataOpens \/ ReferenceOpens
         /\ Cur.type = "DATA" => Cur.content = input[fi][blk + 1]
         /\ Cur.type # "DATA" => frames[Cur.offset].content = input[fi][blk + 1]
<1>1. fi \in FileNumbers /\ fi \in Nat /\ blk \in Nat
  BY DedupArchiveConstants DEF IndInv, TypeOK, FileNumbers
<1>2. /\ first[fi] \in Nat /\ Len(frames) \in Nat /\ Len(input[fi]) \in Nat
      /\ frames \in Seq(Frames)
  BY <1>1, InputFacts DEF IndInv, TypeOK
<1>3. Complete(fi) /\ ~StreamError
  BY <1>1 DEF IndInv, WriterInv
<1> DEFINE k == first[fi] + blk
<1>4. k \in 1 .. Len(frames) /\ Cur = frames[k]
  BY <1>1, <1>2, <1>3 DEF Complete, Stored, Cur
<1>5. Cur.content = input[fi][blk + 1] /\ Cur.seq = AadSeq(fi, blk)
  <2>1. blk \in 0 .. Len(input[fi]) - 1
    BY <1>1, <1>2
  <2>2. QED
    BY <1>3, <2>1 DEF Complete, Stored, Cur
<1>6. Cur.type \in {"DATA", "REF"}
  <2>1. Cur.type \in {"DATA", "REF", "TORN"}
    <3>1. Cur \in Frames
      BY <1>2, <1>4
    <3>2. QED
      BY <3>1 DEF Frames
  <2>2. QED
    BY <1>3, <1>4, <2>1 DEF StreamError
<1>7. Opens(Cur.seq, Expected)
  BY <1>5 DEF Opens, Expected
<1>8. CASE Cur.type = "DATA"
  BY <1>5, <1>7, <1>8 DEF DataOpens
<1>9. CASE Cur.type = "REF"
  <2>1. /\ Cur.offset \in 1 .. k - 1
        /\ frames[Cur.offset].type = "DATA"
        /\ frames[Cur.offset].content = Cur.content
        /\ frames[Cur.offset].seq = Cur.refSeq
    BY <1>4, <1>9 DEF IndInv, ReferencesPointBack
  <2>2. Cur.offset \in 1 .. first[fi] + blk
    BY <1>1, <1>2, <2>1
  <2>3. Opens(frames[Cur.offset].seq, Cur.refSeq)
    BY <2>1 DEF Opens
  <2>4. ReferenceOpens
    BY <1>7, <1>9, <2>1, <2>2, <2>3 DEF ReferenceOpens
  <2>5. QED
    BY <1>5, <1>9, <2>1, <2>4
<1>10. QED
  BY <1>6, <1>8, <1>9

LEMMA StartReadingStep ==
  ASSUME IndInv, StartReading
  PROVE  IndInv'
<1>1. /\ UNCHANGED << tableVars, inputVars, archiveVars, readVars >>
      /\ mode = "published" /\ mode' = "read" /\ fi' = 0 /\ blk' = 0
  BY DEF StartReading, Goes
<1>2. /\ TableTypeOK' /\ ChainsHaveNoHoles'
      /\ TablePointsToData' /\ ReferencesPointBack' /\ WriterInv'
  BY <1>1, ReaderKeepsArchive
<1>3. TypeOK'
  BY <1>1, <1>2, DedupArchiveConstants
  DEF IndInv, TypeOK, Modes, inputVars, archiveVars, readVars
<1>4. ReaderInv'
  <2>1. ok' = {} /\ \A f \in FileNumbers : restored'[f] = << >>
    BY <1>1 DEF IndInv, ReaderInv, readVars
  <2>2. 0 < NumFiles => 0 \in FileNumbers
    BY DedupArchiveConstants DEF FileNumbers
  <2>3. 0 < NumFiles => Len(input'[0]) \in Nat
    BY <1>1, <2>2, InputFacts DEF IndInv, inputVars
  <2>4. \A f \in 1 .. NumFiles - 1 : restored'[f] = << >>
    BY <2>1, DedupArchiveConstants DEF FileNumbers
  <2>5. QED
    BY <1>1, <2>1, <2>2, <2>3, <2>4, DedupArchiveConstants DEF ReaderInv
<1>5. QED
  BY <1>2, <1>3, <1>4 DEF IndInv

LEMMA ReadBlockStep ==
  ASSUME IndInv, ReadBlock
  PROVE  IndInv'
<1>1. /\ mode = "read" /\ fi < NumFiles /\ blk < Len(input[fi]) /\ blk' = blk + 1
      /\ UNCHANGED << tableVars, inputVars, mode, fi, archiveVars, ok >>
  BY DEF ReadBlock, MoreToRead
<1>2. /\ fi \in FileNumbers /\ fi \in Nat /\ blk \in Nat
      /\ restored[fi] \in Seq(Contents) /\ restored \in [FileNumbers -> Seq(Contents)]
      /\ Len(input[fi]) \in Nat
  <2>1. fi \in FileNumbers /\ fi \in Nat /\ blk \in Nat
    BY <1>1, DedupArchiveConstants DEF IndInv, TypeOK, FileNumbers
  <2>2. QED
    BY <2>1, InputFacts DEF IndInv, TypeOK
<1>3. /\ TableTypeOK' /\ ChainsHaveNoHoles'
      /\ TablePointsToData' /\ ReferencesPointBack' /\ WriterInv'
  BY <1>1, ReaderKeepsArchive
<1>4. /\ input[fi][blk + 1] \in Contents
      /\ restored' = [restored EXCEPT ![fi] = Append(@, input[fi][blk + 1])]
  <2>1. blk + 1 \in 1 .. Len(input[fi])
    BY <1>1, <1>2
  <2>2. input[fi][blk + 1] \in Contents
    BY <1>2, <2>1, InputFacts DEF IndInv
  <2>3. (IF Cur.type = "DATA" THEN Cur.content ELSE frames[Cur.offset].content)
          = input[fi][blk + 1]
    BY <1>1, BlockOpens
  <2>4. QED
    BY <2>2, <2>3 DEF ReadBlock
<1> DEFINE s == Append(restored[fi], input[fi][blk + 1])
<1>5. /\ s \in Seq(Contents) /\ restored' \in [FileNumbers -> Seq(Contents)]
      /\ restored'[fi] = s
      /\ \A f \in FileNumbers \ {fi} : restored'[f] = restored[f]
  BY <1>2, <1>4
<1>6. TypeOK'
  BY <1>1, <1>2, <1>3, <1>5 DEF IndInv, TypeOK, inputVars, archiveVars
<1>7. /\ Len(restored[fi]) = blk
      /\ \A b \in 1 .. blk : restored[fi][b] = input[fi][b]
  BY <1>1 DEF IndInv, ReaderInv
<1>8. Len(s) = blk + 1 /\ \A b \in 1 .. blk + 1 : s[b] = input[fi][b]
  BY <1>2, <1>4, <1>7
<1>9. ReaderInv'
  <2>1. \A f \in ok : f \in FileNumbers \ {fi}
    BY <1>1, <1>2 DEF IndInv, ReaderInv, TypeOK
  <2>2. \A f \in ok' : restored'[f] = input'[f] /\ f < fi'
    BY <1>1, <1>5, <2>1 DEF IndInv, ReaderInv, inputVars
  <2>3. \A f \in fi + 1 .. NumFiles - 1 : f \in FileNumbers \ {fi} /\ restored[f] = << >>
    BY <1>1, <1>2, DedupArchiveConstants DEF IndInv, ReaderInv, FileNumbers
  <2>4. \A f \in fi' + 1 .. NumFiles - 1 : restored'[f] = << >>
    BY <1>1, <1>5, <2>3
  <2>5. /\ Len(restored'[fi']) = blk'
        /\ \A b \in 1 .. blk' : restored'[fi'][b] = input'[fi'][b]
        /\ blk' <= Len(input'[fi'])
    BY <1>1, <1>2, <1>5, <1>8 DEF inputVars
  <2>6. ~IoFails => 0 .. fi' - 1 \subseteq ok'
    BY <1>1 DEF IndInv, ReaderInv
  <2>7. QED
    BY <1>1, <2>2, <2>4, <2>5, <2>6 DEF ReaderInv
<1>10. QED
  BY <1>3, <1>6, <1>9 DEF IndInv

\* The reader turns to the next entry: nothing was restored of it yet.
LEMMA NextEntry ==
  ASSUME IndInv, mode = "read", fi < NumFiles, fi' = fi + 1, blk' = 0, mode' = mode,
         UNCHANGED << inputVars, restored >>,
         ok' = ok \/ (ok' = ok \cup {fi} /\ restored[fi] = input[fi]),
         IoFails \/ fi \in ok'
  PROVE  ReaderInv'
<1>1. fi \in Nat /\ fi \in FileNumbers /\ NumFiles \in Nat /\ ok \subseteq FileNumbers
  BY DedupArchiveConstants DEF IndInv, TypeOK, FileNumbers
<1>2. \A f \in ok' : restored'[f] = input'[f] /\ f < fi'
  <2>1. \A f \in ok : restored[f] = input[f] /\ f < fi /\ f \in 0 .. NumFiles - 1
    BY <1>1 DEF IndInv, ReaderInv, FileNumbers
  <2>2. restored' = restored /\ input' = input
    BY DEF inputVars
  <2>3. CASE ok' = ok
    BY <1>1, <2>1, <2>2, <2>3
  <2>4. CASE ok' = ok \cup {fi} /\ restored[fi] = input[fi]
    BY <1>1, <2>1, <2>2, <2>4
  <2>5. QED
    BY <2>3, <2>4
<1>3. \A f \in fi + 1 .. NumFiles - 1 : restored'[f] = << >>
  BY DEF IndInv, ReaderInv
<1>4. ASSUME fi' < NumFiles
      PROVE  /\ Len(restored'[fi']) = 0 /\ restored'[fi'] = << >>
             /\ Len(input'[fi']) \in Nat
  <2>1. fi + 1 \in FileNumbers /\ fi + 1 \in fi + 1 .. NumFiles - 1
    BY <1>1, <1>4 DEF FileNumbers
  <2>2. restored'[fi'] = << >>
    BY <1>3, <2>1
  <2>3. Len(input[fi + 1]) \in Nat
    BY <2>1, InputFacts DEF IndInv
  <2>4. QED
    BY <2>2, <2>3 DEF inputVars
<1>5. ~IoFails => 0 .. fi' - 1 \subseteq ok'
  <2>1. ~IoFails => 0 .. fi - 1 \subseteq ok
    BY DEF IndInv, ReaderInv
  <2>2. \A f \in 0 .. fi' - 1 : f \in 0 .. fi - 1 \/ f = fi
    BY <1>1
  <2>3. QED
    BY <2>1, <2>2
<1>6. \A f \in fi' + 1 .. NumFiles - 1 : restored'[f] = << >>
  BY <1>1, <1>3
<1>7. QED
  BY <1>2, <1>4, <1>5, <1>6 DEF ReaderInv

LEMMA EntryFailsStep ==
  ASSUME IndInv, EntryFails
  PROVE  IndInv'
<1>1. /\ mode = "read" /\ fi < NumFiles /\ blk < Len(input[fi])
      /\ IoFails \/ ~(DataOpens \/ ReferenceOpens)
      /\ fi' = fi + 1 /\ blk' = 0
      /\ UNCHANGED << tableVars, inputVars, mode, archiveVars, readVars >>
  BY DEF EntryFails, MoreToRead
<1>2. IoFails
  BY <1>1, BlockOpens
<1>3. ReaderInv'
  BY <1>1, <1>2, NextEntry DEF readVars
<1>4. /\ TableTypeOK' /\ ChainsHaveNoHoles'
      /\ TablePointsToData' /\ ReferencesPointBack' /\ WriterInv'
  BY <1>1, ReaderKeepsArchive
<1>5. fi' \in 0 .. NumFiles
  BY <1>1, DedupArchiveConstants DEF IndInv, TypeOK
<1>6. TypeOK'
  BY <1>1, <1>4, <1>5 DEF IndInv, TypeOK, inputVars, archiveVars, readVars
<1>7. QED
  BY <1>3, <1>4, <1>6 DEF IndInv

LEMMA EntryEndsStep ==
  ASSUME IndInv, EntryEnds
  PROVE  IndInv'
<1>1. /\ mode = "read" /\ fi < NumFiles /\ blk = Len(input[fi])
      /\ ok' = IF Hashes(restored[fi]) = Hashes(input[fi]) THEN ok \cup {fi} ELSE ok
      /\ fi' = fi + 1 /\ blk' = 0
      /\ UNCHANGED << tableVars, inputVars, mode, archiveVars, restored >>
  BY DEF EntryEnds
<1>2. /\ fi \in FileNumbers /\ fi' \in 0 .. NumFiles
      /\ restored[fi] \in Seq(Contents) /\ input[fi] \in Seq(Contents)
  <2>1. fi \in FileNumbers /\ fi' \in 0 .. NumFiles
    BY <1>1, DedupArchiveConstants DEF IndInv, TypeOK, FileNumbers
  <2>2. QED
    BY <2>1, InputFacts DEF IndInv, TypeOK
<1>3. restored[fi] = input[fi]
  <2>1. /\ Len(restored[fi]) = Len(input[fi])
        /\ \A b \in 1 .. Len(input[fi]) : restored[fi][b] = input[fi][b]
    BY <1>1 DEF IndInv, ReaderInv
  <2>2. QED
    BY <1>2, <2>1
<1>4. ok' = ok \cup {fi}
  BY <1>1, <1>3
<1>5. ReaderInv'
  BY <1>1, <1>3, <1>4, NextEntry
<1>6. /\ TableTypeOK' /\ ChainsHaveNoHoles'
      /\ TablePointsToData' /\ ReferencesPointBack' /\ WriterInv'
  BY <1>1, ReaderKeepsArchive
<1>7. TypeOK'
  BY <1>1, <1>2, <1>4, <1>6 DEF IndInv, TypeOK, inputVars, archiveVars
<1>8. QED
  BY <1>5, <1>6, <1>7 DEF IndInv

LEMMA ReadingEndsStep ==
  ASSUME IndInv, ReadingEnds
  PROVE  IndInv'
<1>1. /\ fi = NumFiles /\ mode = "read" /\ mode' = "end"
      /\ UNCHANGED << tableVars, inputVars, fi, blk, archiveVars, readVars >>
  BY DEF ReadingEnds, Goes
<1>2. /\ TableTypeOK' /\ ChainsHaveNoHoles'
      /\ TablePointsToData' /\ ReferencesPointBack' /\ WriterInv'
  BY <1>1, ReaderKeepsArchive
<1>3. TypeOK'
  BY <1>1, <1>2 DEF IndInv, TypeOK, Modes, inputVars, archiveVars, readVars
<1>4. ReaderInv'
  <2>1. \A f \in ok' : restored'[f] = input'[f]
    BY <1>1 DEF IndInv, ReaderInv, inputVars, readVars
  <2>2. ~IoFails => ok = FileNumbers
    BY <1>1 DEF IndInv, ReaderInv, TypeOK, FileNumbers
  <2>3. QED
    BY <1>1, <2>1, <2>2 DEF ReaderInv, readVars
<1>5. QED
  BY <1>2, <1>3, <1>4 DEF IndInv

LEMMA StutterStep ==
  ASSUME IndInv, UNCHANGED vars
  PROVE  IndInv'
<1>1. UNCHANGED << tableVars, inputVars, mode, fi, blk, archiveVars, readVars >>
  BY DEF vars
<1>2. UNCHANGED << tableVars, inputVars, frames, first, writeErr >>
  BY <1>1 DEF archiveVars
<1>3. /\ TableTypeOK' /\ ChainsHaveNoHoles'
      /\ TablePointsToData' /\ ReferencesPointBack'
      /\ StreamError' <=> StreamError
  BY <1>2, ArchiveStays
<1>4. TypeOK'
  BY <1>1, <1>3 DEF IndInv, TypeOK, inputVars, archiveVars, readVars
<1>5. ReaderInv'
  BY <1>1 DEF IndInv, ReaderInv, inputVars, readVars
<1>6. WriterInv'
  <2>1. table' = table /\ frames' = frames /\ first' = first /\ input' = input
    BY <1>2 DEF inputVars, tableVars
  <2>2. QED
    BY <1>1, <1>2, <1>3, <2>1 DEF IndInv, WriterInv, Complete, Stored, AadSeq
<1>7. QED
  BY <1>3, <1>4, <1>5, <1>6 DEF IndInv

-----------------------------------------------------------------------------
LEMMA InitEstablishes == Init => IndInv
<1> SUFFICES ASSUME Init PROVE IndInv
  OBVIOUS
<1> USE DedupArchiveConstants DEF Init, TableInit
<1>1. TypeOK
  <2>1. << >> \in Seq(Frames) /\ << >> \in Seq(Contents)
    OBVIOUS
  <2>2. TableTypeOK
    BY DEF TableTypeOK
  <2>3. /\ first \in [FileNumbers -> Nat]
        /\ restored \in [FileNumbers -> Seq(Contents)]
    BY <2>1
  <2>4. frames \in Seq(Frames)
    BY <2>1
  <2>5. /\ mode \in Modes /\ fi \in 0 .. NumFiles /\ blk \in Nat
        /\ seen \in Nat /\ deduped \in 0 .. seen
    BY DEF Modes
  <2>6. QED
    BY <2>2, <2>3, <2>4, <2>5 DEF TypeOK
<1>2. ChainsHaveNoHoles /\ TablePointsToData
  BY DEF ChainsHaveNoHoles, TablePointsToData
<1>3. ReferencesPointBack
  BY DEF ReferencesPointBack
<1>4. WriterInv /\ ReaderInv
  BY DEF WriterInv, ReaderInv
<1>5. QED
  BY <1>1, <1>2, <1>3, <1>4 DEF IndInv

LEMMA NextPreserves == IndInv /\ [Next]_vars => IndInv'
<1> SUFFICES ASSUME IndInv, [Next]_vars PROVE IndInv'
  OBVIOUS
<1>1. CASE OpenInput
  BY <1>1, OpenInputStep
<1>2. CASE WriteReference
  BY <1>2, WriteReferenceStep
<1>3. CASE WriteData
  BY <1>3, WriteDataStep
<1>4. CASE ReadFails \/ SealFails \/ CloseInput \/ AllRead \/ Finish
  BY <1>4, QuietWriterStep
<1>5. CASE StartReading
  BY <1>5, StartReadingStep
<1>6. CASE ReadBlock
  BY <1>6, ReadBlockStep
<1>7. CASE EntryFails
  BY <1>7, EntryFailsStep
<1>8. CASE EntryEnds
  BY <1>8, EntryEndsStep
<1>9. CASE ReadingEnds
  BY <1>9, ReadingEndsStep
<1>10. CASE Returned \/ UNCHANGED vars
  BY <1>10, StutterStep DEF Returned
<1>11. QED
  BY <1>1, <1>2, <1>3, <1>4, <1>5, <1>6, <1>7, <1>8, <1>9, <1>10 DEF Next

\* The invariant of writer and reader, for every input, table and collision.
THEOREM DedupInvariance == Spec => []IndInv
  BY InitEstablishes, NextPreserves, PTL DEF Spec

\* A reference always points back to the very block it stands for, across files,
\* and names the sequence number that block was sealed with.
THEOREM ReferencesAreSound == Spec => []ReferencesPointBack
<1>1. IndInv => ReferencesPointBack
  BY DEF IndInv
<1>2. QED
  BY <1>1, DedupInvariance, PTL

\* What zupt_dedup_lookup_secure may find, it does find: no place that the
\* probes of an entry pass by is empty.
THEOREM EntriesAreReachable == Spec => []ChainsHaveNoHoles
<1>1. IndInv => ChainsHaveNoHoles
  BY DEF IndInv
<1>2. QED
  BY <1>1, DedupInvariance, PTL

\* An entry that is extracted without an error is the input file, the reader can
\* open every block it comes to, and if no call fails every entry is extracted.
THEOREM DedupIsLossless == Spec => []ExtractGivesInput
<1>1. IndInv => ExtractGivesInput
  BY BlockOpens DEF IndInv, ReaderInv, ExtractGivesInput, MoreToRead
<1>2. QED
  BY <1>1, DedupInvariance, PTL


-----------------------------------------------------------------------------
(* NothingKnownIsStoredTwice *)

\* What a lookup finds is settled.
LEMMA HitsAreSettled ==
  ASSUME TableTypeOK, NEW c \in Contents, Hits(c) # {}
  PROVE  Settled(c)
<1>1. PICK e \in Hits(c) : TRUE
  OBVIOUS
<1>2. zupt_dedup_lookup_secure(c, e)
  BY <1>1 DEF Hits, Hit
<1>3. QED
  BY <1>2 DEF zupt_dedup_lookup_secure, Settled

\* Insertion leaves a settled lookup settled, without a hit when it had none.
LEMMA SettledStays ==
  ASSUME TableTypeOK, NEW c \in Contents, NEW offset \in Nat, NEW seq \in Nat,
         zupt_dedup_insert_secure(c, offset, seq),
         NEW d \in Contents, Settled(d)
  PROVE  Settled(d)' /\ (Hits(d) = {} => Hits(d)' = {})
<1>1. CASE UNCHANGED tableVars
  <2>1. table' = table /\ count' = count
    BY <1>1 DEF tableVars
  <2>2. Settled(d)'
    BY <2>1 DEF Settled, Full, Occupied, Matches
  <2>3. Hits(d)' = Hits(d)
    BY <2>1 DEF Hits, Hit, zupt_dedup_lookup_secure, Occupied, Matches
  <2>4. QED
    BY <2>2, <2>3
<1>2. CASE ~UNCHANGED tableVars
  <2>1. PICK i \in Probes :
          /\ ~Occupied(Place(c, i))
          /\ table' = [table EXCEPT ![Place(c, i)] = {Entry(c, offset, seq)}]
    BY <1>2 DEF zupt_dedup_insert_secure
  <2>2. ~Full
    BY <1>2 DEF zupt_dedup_insert_secure
  <2>3. \A p \in Places : Occupied(p) => table'[p] = table[p]
    BY <2>1 DEF TableTypeOK, Occupied
  <2>4. \A j \in Nat : Place(d, j) \in Places
    BY PlaceType
  <2>5. \A j \in Nat : Occupied(Place(d, j)) =>
          /\ table'[Place(d, j)] = table[Place(d, j)]
          /\ Occupied(Place(d, j))'
          /\ Matches(Place(d, j), d)' <=> Matches(Place(d, j), d)
    BY <2>3, <2>4 DEF Occupied, Matches, Place
  <2>6. \A j \in Nat : Matches(Place(d, j), d) => Occupied(Place(d, j))
    BY DEF Matches, Occupied
  <2>7. PICK n \in Nat :
          /\ n <= MaxProbes
          /\ \A j \in 0 .. n - 1 : Occupied(Place(d, j))
          /\ n < MaxProbes => n > 0 /\ Matches(Place(d, n - 1), d)
    <3>1. CASE \A j \in Probes : Occupied(Place(d, j))
      BY <3>1, DedupConstants DEF Probes
    <3>2. ASSUME NEW k \in Probes, Matches(Place(d, k), d),
                 \A j \in 0 .. k - 1 : Occupied(Place(d, j))
          PROVE  \E n \in Nat :
                   /\ n <= MaxProbes
                   /\ \A j \in 0 .. n - 1 : Occupied(Place(d, j))
                   /\ n < MaxProbes => n > 0 /\ Matches(Place(d, n - 1), d)
      <4>1. k \in Nat /\ k + 1 <= MaxProbes /\ (k + 1) - 1 = k
        BY DedupConstants DEF Probes
      <4>2. \A j \in 0 .. k : Occupied(Place(d, j))
        BY <2>6, <3>2, <4>1
      <4>3. QED
        BY <3>2, <4>1, <4>2
    <3>3. QED
      BY <2>2, <3>1, <3>2 DEF Settled
  <2>8. Settled(d)'
    <3>1. CASE n = MaxProbes
      <4>1. \A j \in Probes : Occupied(Place(d, j))'
        BY <2>5, <2>7, <3>1 DEF Probes
      <4>2. QED
        BY <4>1 DEF Settled, Place
    <3>2. CASE n < MaxProbes
      <4>1. n - 1 \in Probes /\ n - 1 \in Nat
        BY <2>7, <3>2, DedupConstants DEF Probes
      <4>2. Matches(Place(d, n - 1), d)'
        BY <2>5, <2>7, <3>2, <4>1
      <4>3. \A j \in 0 .. (n - 1) - 1 : Occupied(Place(d, j))'
        BY <2>5, <2>7
      <4>4. QED
        BY <4>1, <4>2, <4>3 DEF Settled, Place
    <3>3. QED
      BY <2>7, <3>1, <3>2, DedupConstants
  <2>9. ASSUME Hits(d) = {}
        PROVE  Hits(d)' = {}
    <3> SUFFICES ASSUME NEW e \in Hits(d)' PROVE FALSE
      OBVIOUS
    <3>1. Size[e.content] = Size[d]
      BY DEF Hits, Hit
    <3>2. PICK k \in Probes :
            /\ e \in table'[Place(d, k)]
            /\ Matches(Place(d, k), d)'
            /\ \A j \in 0 .. k - 1 : Occupied(Place(d, j))' /\ ~Matches(Place(d, j), d)'
      BY DEF Hits, Hit, zupt_dedup_lookup_secure, Place
    <3>3. k \in Nat /\ k < MaxProbes
      BY DedupConstants DEF Probes
    <3>4. k < n
      <4> SUFFICES ASSUME n <= k PROVE FALSE
        BY <3>3
      <4>1. n - 1 \in 0 .. k - 1 /\ n - 1 \in Nat /\ Matches(Place(d, n - 1), d)
        <5>1. n < MaxProbes
          BY <3>3, DedupConstants
        <5>2. n > 0 /\ Matches(Place(d, n - 1), d)
          BY <2>7, <5>1
        <5>3. QED
          BY <3>3, <5>2
      <4>2. Matches(Place(d, n - 1), d)'
        BY <2>5, <2>6, <4>1
      <4>3. QED
        BY <3>2, <4>1, <4>2
    <3>5. \A j \in 0 .. k : Occupied(Place(d, j))
      BY <2>7, <3>3, <3>4
    <3>6. /\ e \in table[Place(d, k)]
          /\ Matches(Place(d, k), d)
          /\ \A j \in 0 .. k - 1 : Occupied(Place(d, j)) /\ ~Matches(Place(d, j), d)
      BY <2>5, <3>2, <3>3, <3>5
    <3>7. Hit(d, e)
      BY <3>1, <3>6 DEF Hit, zupt_dedup_lookup_secure
    <3>8. e \in Hits(d)
      BY <2>4, <3>3, <3>6, <3>7 DEF Hits
    <3>9. QED
      BY <2>9, <3>8
  <2>10. QED
    BY <2>8, <2>9
<1>3. QED
  BY <1>1, <1>2

\* Behind its insertion a content is settled.
LEMMA InsertSettles ==
  ASSUME TableTypeOK, NEW c \in Contents, NEW offset \in Nat, NEW seq \in Nat,
         zupt_dedup_insert_secure(c, offset, seq)
  PROVE  Settled(c)'
<1>1. CASE Full \/ \A i \in Probes : Occupied(Place(c, i))
  <2>1. table' = table /\ count' = count
    BY <1>1 DEF zupt_dedup_insert_secure, tableVars
  <2>2. QED
    BY <1>1, <2>1 DEF Settled, Full, Occupied
<1>2. CASE ~(Full \/ \A i \in Probes : Occupied(Place(c, i)))
  <2>1. PICK i \in Probes :
          /\ ~Occupied(Place(c, i))
          /\ \A j \in 0 .. i - 1 : Occupied(Place(c, j))
          /\ table' = [table EXCEPT ![Place(c, i)] = {Entry(c, offset, seq)}]
    BY <1>2 DEF zupt_dedup_insert_secure
  <2>2. \A j \in Nat : Place(c, j) \in Places
    BY PlaceType
  <2>3. i \in Nat
    BY DedupConstants DEF Probes
  <2>4. table'[Place(c, i)] = {Entry(c, offset, seq)}
    BY <2>1, <2>2, <2>3 DEF TableTypeOK
  <2>5. Matches(Place(c, i), c)'
    BY <2>4 DEF Matches, Entry, Place
  <2>6. \A p \in Places : Occupied(p) => Occupied(p)'
    BY <2>1 DEF TableTypeOK, Occupied
  <2>7. \A j \in 0 .. i - 1 : Occupied(Place(c, j))'
    BY <2>1, <2>2, <2>3, <2>6
  <2>8. QED
    BY <2>5, <2>7 DEF Settled, Place
<1>3. QED
  BY <1>1, <1>2

\* Only WriteData enters something in the table.
LEMMA TableAndFrames ==
  ASSUME IndInv, [Next]_vars
  PROVE  \/ UNCHANGED << tableVars, frames >>
         \/ WriteReference
         \/ WriteData
  BY DEF Next, vars, archiveVars, OpenInput, ReadFails, SealFails, CloseInput, AllRead,
         Finish, StartReading, ReadBlock, EntryFails, EntryEnds, ReadingEnds, Returned

LEMMA StoredOnceStep ==
  ASSUME IndInv, StoredIsSettled, NothingKnownIsStoredTwice, [Next]_vars
  PROVE  StoredIsSettled' /\ NothingKnownIsStoredTwice'
<1> USE DEF StoredIsSettled, NothingKnownIsStoredTwice
<1>0. frames \in Seq(Frames) /\ Len(frames) \in Nat /\ TableTypeOK
  BY DEF IndInv, TypeOK
<1>1. CASE UNCHANGED << tableVars, frames >>
  <2>1. table' = table /\ count' = count /\ frames' = frames
    BY <1>1 DEF tableVars
  <2>2. \A c : (Settled(c)' <=> Settled(c)) /\ Hits(c)' = Hits(c)
    BY <2>1 DEF Settled, Full, Occupied, Matches, Hits, Hit, zupt_dedup_lookup_secure
  <2>3. QED
    BY <2>1, <2>2
<1>2. CASE WriteReference
  <2>1. table' = table /\ count' = count
    BY <1>2 DEF WriteReference, tableVars
  <2>2. \A c : (Settled(c)' <=> Settled(c)) /\ Hits(c)' = Hits(c)
    BY <2>1 DEF Settled, Full, Occupied, Matches, Hits, Hit, zupt_dedup_lookup_secure
  <2>3. CASE frames' = frames
    BY <2>2, <2>3
  <2>4. CASE frames' # frames
    <3>1. PICK e \in Hits(Content) : frames' = Append(frames, Ref(Content, AadSeq(fi, blk), e))
      BY <1>2, <2>4 DEF WriteReference
    <3>2. /\ Len(frames') = Len(frames) + 1
          /\ \A k \in 1 .. Len(frames) : frames'[k] = frames[k]
          /\ frames'[Len(frames) + 1].type = "REF"
      BY <1>0, <3>1 DEF Ref
    <3>3. \A k \in 1 .. Len(frames') : frames'[k].type # "REF" =>
            k \in 1 .. Len(frames) /\ frames'[k] = frames[k]
      BY <1>0, <3>2
    <3>4. QED
      BY <2>2, <3>2, <3>3
  <2>5. QED
    BY <2>3, <2>4
<1>3. CASE WriteData
  <2>1. MoreToWrite /\ Hits(Content) = {}
    BY <1>3 DEF WriteData
  <2>2. PICK c \in Contents, seq \in Nat, offset \in Nat :
          c = Content /\ seq = AadSeq(fi, blk) /\ offset = Len(frames) + 1
    BY <1>0, <2>1, ContentFacts
  <2>3. zupt_dedup_insert_secure(c, offset, seq) /\ Hits(c) = {}
    BY <1>3, <2>1, <2>2 DEF WriteData
  <2>4. PICK type : frames' = Append(frames, Data(type, Content, AadSeq(fi, blk)))
    BY <1>3 DEF WriteData
  <2>5. /\ Len(frames') = Len(frames) + 1
        /\ \A k \in 1 .. Len(frames) : frames'[k] = frames[k]
        /\ frames'[Len(frames) + 1].content = c
    BY <1>0, <2>2, <2>4 DEF Data
  <2>6. \A k \in 1 .. Len(frames) : frames[k].content \in Contents
    <3>1. \A k \in 1 .. Len(frames) : frames[k] \in Frames
      BY <1>0
    <3>2. \A f \in Frames : f.content \in Contents
      BY DEF Frames
    <3>3. QED
      BY <3>1, <3>2
  <2>7. \A d \in Contents : Settled(d) => Settled(d)' /\ (Hits(d) = {} => Hits(d)' = {})
    BY <1>0, <2>3, SettledStays
  <2>8. Settled(c)'
    BY <1>0, <2>3, InsertSettles
  <2>9. StoredIsSettled'
    <3> SUFFICES ASSUME NEW d \in Contents, NEW k \in 1 .. Len(frames'),
                        frames'[k].type # "REF", frames'[k].content = d
                 PROVE  Settled(d)'
      OBVIOUS
    <3>1. CASE k = Len(frames) + 1
      BY <2>5, <2>8, <3>1
    <3>2. CASE k \in 1 .. Len(frames)
      BY <2>5, <2>7, <3>2
    <3>3. QED
      BY <1>0, <2>5, <3>1, <3>2
  <2>10. \A d \in Contents, j \in 1 .. Len(frames'), k \in 1 .. Len(frames') :
           /\ j < k
           /\ frames'[j].type = "DATA" /\ frames'[k].type = "DATA"
           /\ frames'[j].content = d /\ frames'[k].content = d
           => Hits(d)' = {}
    <3> SUFFICES ASSUME NEW d \in Contents,
                        NEW j \in 1 .. Len(frames'), NEW k \in 1 .. Len(frames'), j < k,
                        frames'[j].type = "DATA", frames'[k].type = "DATA",
                        frames'[j].content = d, frames'[k].content = d
                 PROVE  Hits(d)' = {}
      OBVIOUS
    <3>1. j \in 1 .. Len(frames) /\ frames'[j] = frames[j]
      BY <1>0, <2>5
    <3>2. Settled(d)
      BY <3>1
    <3>3. Hits(d) = {}
      <4>1. CASE k = Len(frames) + 1
        BY <2>3, <2>5, <4>1
      <4>2. CASE k \in 1 .. Len(frames)
        BY <2>5, <3>1, <4>2
      <4>3. QED
        BY <1>0, <2>5, <4>1, <4>2
    <3>4. QED
      BY <2>7, <3>2, <3>3
  <2>11. NothingKnownIsStoredTwice'
    <3>1. \A k \in 1 .. Len(frames') : frames'[k].content \in Contents
      BY <1>0, <2>5, <2>6
    <3> SUFFICES ASSUME NEW j \in 1 .. Len(frames'), NEW k \in 1 .. Len(frames'), j < k,
                        frames'[j].type = "DATA", frames'[k].type = "DATA",
                        frames'[j].content = frames'[k].content,
                        NEW e \in Hits(frames[k].content)'
                 PROVE  FALSE
      OBVIOUS
    <3>2. PICK d \in Contents : d = frames'[k].content
      BY <3>1
    <3>3. e \in Hits(d)'
      <4>1. frames[k].content' = d
        BY <3>2
      <4>2. QED
        BY <4>1, ZenonT(60) DEF Hits, Hit, zupt_dedup_lookup_secure, Matches, Occupied, Place
    <3>4. QED
      BY <2>10, <3>2, <3>3
  <2>12. QED
    BY <2>9, <2>11
<1>4. QED
  BY <1>1, <1>2, <1>3, TableAndFrames

\* A content is stored a second time only when the table cannot find it, then or
\* ever: the references lose no more than the limits of the table cost.
THEOREM StoredOnce == Spec => []NothingKnownIsStoredTwice
<1>1. Init => StoredIsSettled /\ NothingKnownIsStoredTwice
  BY DEF Init, StoredIsSettled, NothingKnownIsStoredTwice
<1>2. /\ IndInv /\ StoredIsSettled /\ NothingKnownIsStoredTwice /\ [Next]_vars
      => (StoredIsSettled /\ NothingKnownIsStoredTwice)'
  BY StoredOnceStep
<1>3. QED
  BY <1>1, <1>2, DedupInvariance, PTL DEF Spec
=============================================================================
