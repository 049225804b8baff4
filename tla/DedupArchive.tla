---------------------------- MODULE DedupArchive ----------------------------
(***************************************************************************)
(* Deduplication from end to end: the serial loop of zupt_compress_files    *)
(* with a dedup table writes an archive (zupt_format.c), and the serial     *)
(* loop of zupt_extract_archive reads it back.  The frames of the archive   *)
(* are numbered from 1, and an offset is the number of a frame.             *)
(***************************************************************************)
EXTENDS DedupTable, Sequences

CONSTANTS
  NumFiles,     \* number of input files
  Inputs,       \* what the input files may hold, block by block
  SeqShift,     \* 2^32 in the code: distance of two files' sequence numbers
  IoFails       \* may reads, writes and allocations fail?

FileNumbers == 0 .. NumFiles - 1

ASSUME DedupArchiveConstants ==
  /\ NumFiles \in Nat
  /\ Inputs \subseteq [FileNumbers -> Seq(Contents)]
  /\ SeqShift \in Nat
  /\ IoFails \in BOOLEAN

VARIABLES
  input,      \* the blocks of each input file
  encrypted,  \* opts->encrypt: DATA and DEDUP_REF frames are sealed
  mode,       \* what the library is doing, see Modes
  fi,         \* the file or entry it is at
  blk,        \* block_seq when writing, b when reading
  frames,     \* the frames of the archive
  first,      \* first_block_offset of each entry, 0 before it is known
  writeErr,   \* write_err
  seen,       \* blocks_seen
  deduped,    \* blocks_deduped
  restored,   \* what was read back of each entry
  ok          \* the entries that were extracted without an error

archiveVars == << frames, first, writeErr, seen, deduped >>
readVars == << restored, ok >>
inputVars == << input, encrypted >>
vars == << tableVars, inputVars, mode, fi, blk, archiveVars, readVars >>

Modes == {"open", "write", "close", "discarded", "published", "read", "end"}

Init ==
  /\ TableInit
  /\ input \in Inputs
  /\ encrypted \in BOOLEAN
  /\ mode = "open"
  /\ fi = 0
  /\ blk = 0
  /\ frames = << >>
  /\ first = [f \in FileNumbers |-> 0]
  /\ writeErr = FALSE
  /\ seen = 0
  /\ deduped = 0
  /\ restored = [f \in FileNumbers |-> << >>]
  /\ ok = {}

Goes(from, to) == mode = from /\ mode' = to

MayFail == IF IoFails THEN BOOLEAN ELSE {FALSE}

\* logical_aad_seq
AadSeq(f, b) == (f + 1) * SeqShift + b

\* A frame says the checksum and the size of a block, and the sequence number
\* it was sealed with; a DEDUP_REF has the offset and the sequence number of the
\* DATA frame it stands for.  A frame of type TORN was not written completely.
Data(type, c, seq) == [type |-> type, content |-> c, seq |-> seq, offset |-> 0, refSeq |-> 0]
Ref(c, seq, e) ==
  [type |-> "REF", content |-> c, seq |-> seq, offset |-> e.offset, refSeq |-> e.seq]
Frames == [type : {"DATA", "REF", "TORN"}, content : Contents, seq : Nat,
           offset : Nat, refSeq : Nat]

MoreToWrite == mode = "write" /\ blk < Len(input[fi])

Content == input[fi][blk + 1]

\* ferror(out): it stays set once a write has failed.
StreamError == \E k \in 1 .. Len(frames) : frames[k].type = "TORN"

-----------------------------------------------------------------------------
(* Writing *)

\* The next input, and its index entry.
OpenInput ==
  /\ fi < NumFiles
  /\ \E fails \in MayFail :
       IF fails
         THEN Goes("open", "close") /\ writeErr' = TRUE /\ UNCHANGED first
         ELSE /\ Goes("open", "write")
              /\ first' = [first EXCEPT ![fi] = Len(frames) + 1]
              /\ UNCHANGED writeErr
  /\ blk' = 0
  /\ UNCHANGED << tableVars, inputVars, fi, frames, seen, deduped, readVars >>

ReadFails ==
  /\ IoFails
  /\ MoreToWrite
  /\ Goes("write", "close")
  /\ writeErr' = TRUE
  /\ UNCHANGED << tableVars, inputVars, fi, blk, frames, first, seen, deduped, readVars >>

\* A block that the table knows becomes a reference, unless the stream has
\* failed, now or before.
WriteReference ==
  /\ MoreToWrite
  /\ seen' = seen + 1
  /\ \E e \in Hits(Content) :
       \/ /\ ~StreamError
          /\ frames' = Append(frames, Ref(Content, AadSeq(fi, blk), e))
          /\ deduped' = deduped + 1
          /\ blk' = blk + 1
          /\ UNCHANGED << mode, writeErr >>
       \/ /\ IoFails
          /\ mode' = "close"
          /\ writeErr' = TRUE
          /\ UNCHANGED << frames, deduped, blk >>
  /\ UNCHANGED << tableVars, inputVars, fi, first, readVars >>

\* Any other block is written and entered.  After a failed write the loop goes
\* on, and the table learns a torn frame.  Only the write of the payload is
\* checked; a header that is lost leaves no more than the stream's error.
WriteData ==
  /\ MoreToWrite
  /\ Hits(Content) = {}
  /\ seen' = seen + 1
  /\ \E torn, noticed \in MayFail :
       /\ frames' = Append(frames,
            Data(IF torn THEN "TORN" ELSE "DATA", Content, AadSeq(fi, blk)))
       /\ writeErr' = (writeErr \/ (torn /\ noticed))
  /\ zupt_dedup_insert_secure(Content, Len(frames) + 1, AadSeq(fi, blk))
  /\ blk' = blk + 1
  /\ UNCHANGED << inputVars, mode, fi, first, deduped, readVars >>

\* A block cannot be sealed: the call returns at once.
SealFails ==
  /\ IoFails /\ encrypted
  /\ MoreToWrite
  /\ Hits(Content) = {}
  /\ Goes("write", "discarded")
  /\ seen' = seen + 1
  /\ UNCHANGED << tableVars, inputVars, fi, blk, frames, first, writeErr, deduped, readVars >>

\* The end of a file: on to the next one, unless something failed or the input
\* changed while it was read.
CloseInput ==
  /\ mode = "write"
  /\ blk = Len(input[fi])
  /\ \E changed \in MayFail :
       IF writeErr \/ changed
         THEN mode' = "close" /\ writeErr' = TRUE /\ UNCHANGED fi
         ELSE mode' = "open" /\ fi' = fi + 1 /\ UNCHANGED writeErr
  /\ UNCHANGED << tableVars, inputVars, blk, frames, first, seen, deduped, readVars >>

AllRead ==
  /\ fi = NumFiles
  /\ Goes("open", "close")
  /\ UNCHANGED << tableVars, inputVars, fi, blk, archiveVars, readVars >>

\* Index, footer, trailer and publication.
Finish ==
  /\ mode = "close"
  /\ \E fails \in MayFail :
       mode' = IF writeErr \/ StreamError \/ fails THEN "discarded" ELSE "published"
  /\ UNCHANGED << tableVars, inputVars, fi, blk, archiveVars, readVars >>

-----------------------------------------------------------------------------
(* Reading, by another call of the library.  Open an entry, then its blocks. *)

StartReading ==
  /\ Goes("published", "read")
  /\ fi' = 0
  /\ blk' = 0
  /\ UNCHANGED << tableVars, inputVars, archiveVars, readVars >>

Cur == frames[first[fi] + blk]

\* archive_data_aad_seq: without authenticated references it is 0, and then
\* nothing is sealed either.
Expected == IF encrypted THEN AadSeq(fi, blk) ELSE 0

Opens(seq, expected) == encrypted => seq = expected

\* decompress_block gives the block that a DATA frame holds.
DataOpens == Cur.type = "DATA" /\ Opens(Cur.seq, Expected)

\* zupt_dedup_read_ref and the checks behind it: the reference is sealed for
\* this place, points backwards to a DATA frame of the same size and checksum,
\* and that frame opens under the sequence number that the reference gives.
ReferenceOpens ==
  /\ Cur.type = "REF"
  /\ Opens(Cur.seq, Expected)
  /\ Cur.offset \in 1 .. first[fi] + blk
  /\ LET target == frames[Cur.offset] IN
     /\ target.type = "DATA"
     /\ Fingerprint[target.content] = Fingerprint[Cur.content]
     /\ Size[target.content] = Size[Cur.content]
     /\ Opens(target.seq, Cur.refSeq)

MoreToRead == mode = "read" /\ fi < NumFiles /\ blk < Len(input[fi])

ReadBlock ==
  /\ MoreToRead
  /\ DataOpens \/ ReferenceOpens
  /\ restored' = [restored EXCEPT ![fi] =
       Append(@, IF Cur.type = "DATA" THEN Cur.content ELSE frames[Cur.offset].content)]
  /\ blk' = blk + 1
  /\ UNCHANGED << tableVars, inputVars, mode, fi, archiveVars, ok >>

\* A block that cannot be read, or a write that fails, ends the entry.
EntryFails ==
  /\ MoreToRead
  /\ IoFails \/ ~(DataOpens \/ ReferenceOpens)
  /\ fi' = fi + 1
  /\ blk' = 0
  /\ UNCHANGED << tableVars, inputVars, mode, archiveVars, readVars >>

\* content_hash chains the XXH64 of the blocks.
Hashes(blocks) == [b \in DOMAIN blocks |-> Fingerprint[blocks[b]]]

EntryEnds ==
  /\ mode = "read"
  /\ fi < NumFiles
  /\ blk = Len(input[fi])
  /\ ok' = IF Hashes(restored[fi]) = Hashes(input[fi]) THEN ok \cup {fi} ELSE ok
  /\ fi' = fi + 1
  /\ blk' = 0
  /\ UNCHANGED << tableVars, inputVars, mode, archiveVars, restored >>

ReadingEnds ==
  /\ fi = NumFiles
  /\ Goes("read", "end")
  /\ UNCHANGED << tableVars, inputVars, fi, blk, archiveVars, readVars >>

Returned == mode \in {"discarded", "end"} /\ UNCHANGED vars

Next ==
  \/ OpenInput \/ ReadFails \/ WriteReference \/ WriteData \/ SealFails
  \/ CloseInput \/ AllRead \/ Finish
  \/ StartReading \/ ReadBlock \/ EntryFails \/ EntryEnds \/ ReadingEnds
  \/ Returned

Spec == Init /\ [][Next]_vars

-----------------------------------------------------------------------------
TypeOK ==
  /\ TableTypeOK
  /\ input \in Inputs
  /\ encrypted \in BOOLEAN
  /\ mode \in Modes
  /\ fi \in 0 .. NumFiles
  /\ blk \in Nat
  /\ frames \in Seq(Frames)
  /\ first \in [FileNumbers -> Nat]
  /\ writeErr \in BOOLEAN
  /\ seen \in Nat /\ deduped \in 0 .. seen
  /\ restored \in [FileNumbers -> Seq(Contents)]
  /\ ok \in SUBSET FileNumbers

\* Every entry of the table is the account of a frame that holds the content
\* itself, at the offset and under the sequence number it was sealed with.
TablePointsToData ==
  \A p \in Places : \A e \in table[p] :
    /\ e.offset \in 1 .. Len(frames)
    /\ frames[e.offset].type # "REF"
    /\ frames[e.offset].content = e.content
    /\ frames[e.offset].seq = e.seq

\* A reference points backwards, never to another reference nor to a torn
\* frame, to the very content of the block it stands for, and it names the
\* sequence number that frame was sealed with: across files, whatever collides.
ReferencesPointBack ==
  \A k \in 1 .. Len(frames) :
    frames[k].type = "REF" =>
      LET target == frames[k].offset IN
      /\ target \in 1 .. k - 1
      /\ frames[target].type = "DATA"
      /\ frames[target].content = frames[k].content
      /\ frames[target].seq = frames[k].refSeq

\* A content that is stored twice was not in the table and never will be: the
\* table was full, its probes were used up, or another content hides it.
NothingKnownIsStoredTwice ==
  \A j, k \in 1 .. Len(frames) :
    /\ j < k
    /\ frames[j].type = "DATA" /\ frames[k].type = "DATA"
    /\ frames[j].content = frames[k].content
    => Hits(frames[k].content) = {}

\* Why: from its first frame on, a lookup of a content gives the same answer, and
\* a second frame is written only when that answer is no.
StoredIsSettled ==
  \A c \in Contents :
    (\E k \in 1 .. Len(frames) : frames[k].type # "REF" /\ frames[k].content = c) => Settled(c)

\* An entry extracted without an error is the input file.  Every block that the
\* reader of a published archive comes to can be opened, whatever failed while
\* it was written; without failing calls every entry is extracted.
ExtractGivesInput ==
  /\ \A f \in ok : restored[f] = input[f]
  /\ MoreToRead => DataOpens \/ ReferenceOpens
  /\ mode = "end" /\ ~IoFails => ok = FileNumbers

\* The first n blocks of an input are consecutive frames from the offset in
\* its index entry on, each under the sequence number of its place.
Stored(f, n) ==
  /\ first[f] >= 1
  /\ first[f] + n <= Len(frames) + 1
  /\ \A b \in 0 .. n - 1 :
       /\ frames[first[f] + b].content = input[f][b + 1]
       /\ frames[first[f] + b].seq = AadSeq(f, b)

Complete(f) == Stored(f, Len(input[f]))

WriterInv ==
  /\ mode \in {"open", "write"} => \A f \in 0 .. fi - 1 : Complete(f)
  /\ mode = "write" =>
       /\ fi < NumFiles
       /\ blk <= Len(input[fi])
       /\ Stored(fi, blk)
       /\ first[fi] + blk = Len(frames) + 1
  /\ mode = "close" /\ ~writeErr => \A f \in FileNumbers : Complete(f)
  /\ mode \in {"published", "read", "end"} =>
       ~StreamError /\ \A f \in FileNumbers : Complete(f)

ReaderInv ==
  /\ \A f \in ok : restored[f] = input[f]
  /\ mode \notin {"read", "end"} =>
       ok = {} /\ \A f \in FileNumbers : restored[f] = << >>
  /\ mode = "read" =>
       /\ \A f \in ok : f < fi
       /\ \A f \in fi + 1 .. NumFiles - 1 : restored[f] = << >>
       /\ fi < NumFiles =>
            /\ Len(restored[fi]) = blk
            /\ \A b \in 1 .. blk : restored[fi][b] = input[fi][b]
            /\ blk <= Len(input[fi])
       /\ ~IoFails => 0 .. fi - 1 \subseteq ok
  /\ mode = "end" /\ ~IoFails => ok = FileNumbers

\* The inductive invariant of DedupArchive_proof: what the archive holds of the
\* inputs so far, and the reader of the archive.
IndInv ==
  /\ TypeOK
  /\ ChainsHaveNoHoles
  /\ TablePointsToData
  /\ ReferencesPointBack
  /\ WriterInv
  /\ ReaderInv
=============================================================================
