--------------------------- MODULE ArchiveFormat ----------------------------
(***************************************************************************)
(* The archive as a value: what zupt_format.c and zupt_disk.c lay out       *)
(* (header, frames, index, footer, integrity trailer) and how every reader  *)
(* takes it apart again.  Frame i lies at offset i, the header at offset 0  *)
(* and the footer behind the last frame, so that an offset is a number.     *)
(*                                                                         *)
(* A checksum is the data it is over, and a seal is its key, its sequence   *)
(* number and the preface it binds: XXH64 has no collision and no seal is   *)
(* forged.  Damaged data is a sequence of Garbage.                          *)
(***************************************************************************)
EXTENDS Integers, FiniteSets, SequencesExt

CONSTANTS
  BlockSize,       \* units in a full block
  SeqShift,        \* 2^32: blocks in a file's range of sequence numbers
  MaxSeq,          \* UINT64_MAX
  SolidLimit,      \* units the readers take in a solid stream: 4 GiB
  MaxComment,      \* ZUPT_MAX_COMMENT_LEN
  Zero,            \* the unit of a zero block of a disk
  Incompressible,  \* blocks no codec makes smaller
  Garbage          \* what damaged data decodes to

ASSUME FormatAssumption ==
  /\ {BlockSize, SeqShift, SolidLimit, MaxComment} \subseteq Nat \ {0}
  /\ MaxSeq \in Nat /\ MaxSeq > SeqShift

IsSequence(s) == Len(s) \in Nat /\ s = [i \in 1 .. Len(s) |-> s[i]]

\* The sum of a sequence of numbers.
Total(sizes) ==
  LET upTo[n \in 0 .. Len(sizes)] == IF n = 0 THEN 0 ELSE upTo[n - 1] + sizes[n]
  IN upTo[Len(sizes)]

\* The first error in the order of the calls.
Check(condition, error) == IF condition THEN "OK" ELSE error
a ?? b == IF a = "OK" THEN b ELSE a

-----------------------------------------------------------------------------
(* Keys.  Secrets are what a caller has: a password, a hybrid key file or a *)
(* post-quantum one.  The stubs of this build stand for the other kinds.    *)

NativeKinds == {"PBKDF2", "PQ_HYBRID", "PQ_ONLY"}
FormOf(kind) == CASE kind = "PBKDF2" -> "password" [] kind = "PQ_HYBRID" -> "zkey" [] OTHER -> "zpqk"

Secret(form, value) == [form |-> form, value |-> value]

Key(kind, value) == [kind |-> kind, value |-> value]
NoKey == Key("none", "none")

-----------------------------------------------------------------------------
(* Frames *)

NoSeal == [key |-> NoKey, seq |-> 0, preface |-> << >>]

\* What a writer emits for data; STORE when the codec makes it no smaller.
Frame(type, codec, data) ==
  LET used == IF data \in Incompressible THEN "STORE" ELSE codec
  IN [intact |-> TRUE, type |-> type, codec |-> used, sealed |-> FALSE,
      size |-> Len(data), sum |-> data,
      pay |-> [codec |-> used, data |-> data, seal |-> NoSeal]]

Preface(frame) == << frame.type, frame.codec, frame.sealed, frame.size, frame.sum >>

\* Encrypt-then-MAC over the payload, the sequence number and, when the
\* archive says so, the preface with the flag the frame is about to carry.
Seal(frame, key, seq, aad) ==
  LET marked == [frame EXCEPT !.sealed = TRUE]
  IN IF key = NoKey THEN frame
     ELSE [marked EXCEPT !.pay.seal = [key |-> key, seq |-> seq,
                                       preface |-> IF aad THEN Preface(marked) ELSE << >>]]

\* Whether the MAC of a frame holds.  Without preface the oldest archives,
\* which bind no sequence number, are still taken.
AnySeq == -1
Unseals(frame, key, seq, aad) ==
  IF aad THEN frame.pay.seal = [key |-> key, seq |-> seq, preface |-> Preface(frame)]
  ELSE /\ frame.pay.seal.key = key
       /\ frame.pay.seal.preface = << >>
       /\ frame.pay.seal.seq \in {seq, AnySeq}

\* The codecs: a payload of another codec does not decode, compressed data is
\* shorter than what it stands for, and STORE copies as much as it needs.
Codecs == {"STORE", "LZ", "LZH", "LZHP", "VV"}
DecodeError(frame) ==
  Check(frame.codec \in Codecs, "UNSUPPORTED")
  ?? Check(frame.codec = frame.pay.codec, "CORRUPT")
  ?? Check(IF frame.codec = "STORE" THEN Len(frame.pay.data) >= frame.size
           ELSE Len(frame.pay.data) = frame.size, "CORRUPT")
Decoded(frame) == SubSeq(frame.pay.data, 1, frame.size)

\* decompress_block; data of no size is not looked at.
SealError(frame, key, seq, aad) ==
  IF frame.sealed
  THEN Check(key # NoKey, "AUTH_FAIL") ?? Check(Unseals(frame, key, seq, aad), "AUTH_FAIL")
  ELSE Check(key = NoKey, "AUTH_FAIL")
ContentError(frame) ==
  IF frame.size = 0 THEN "OK"
  ELSE DecodeError(frame) ?? Check(Decoded(frame) = frame.sum, "BAD_CHECKSUM")
BlockError(frame, key, seq, aad) == SealError(frame, key, seq, aad) ?? ContentError(frame)

-----------------------------------------------------------------------------
(* Sequence numbers *)

DataSeq(entry, block) == entry * SeqShift + block
CommentSeq == MaxSeq - 1
IndexSeq == MaxSeq

\* Disk images number their blocks through; file archives with references
\* that are not authenticated used zero throughout.
ReaderSeq(flags, entry, block) ==
  IF "DISK_IMAGE" \in flags THEN block
  ELSE IF "DEDUP" \in flags /\ "AUTH_DEDUP_REFS" \notin flags THEN 0
  ELSE DataSeq(entry, block)

-----------------------------------------------------------------------------
(* Writing.  Options: layout "flat", "solid", "disk" or the "old disk" of   *)
(* releases through 5.2.1, dedup, kind and value of the secret, codec,      *)
(* comment and whether worker threads run.                                  *)

WriteError(o) == Check(o.kind \in NativeKinds \cup {"none"}, "AUTH_FAIL")
Encrypts(o) == o.kind # "none"
KeyFor(o) == IF Encrypts(o) THEN Key(o.kind, o.value) ELSE NoKey
Old(o) == o.layout = "old disk"
OnDisk(o) == o.layout \in {"disk", "old disk"}
References(o) == o.dedup /\ o.layout # "solid"

When(condition, flags) == IF condition THEN flags ELSE {}
Flags(o) ==
  When(Encrypts(o), {"ENCRYPTED", "AAD_SEQ"})
  \cup When(Encrypts(o) /\ ~Old(o), {"AAD_PREFACE"})
  \cup When(Encrypts(o) /\ o.kind # "PBKDF2", {"PQ_HYBRID"})
  \cup When(o.layout = "solid", {"SOLID"})
  \cup When(OnDisk(o), {"DISK_IMAGE"})
  \cup When(o.layout = "disk", {"DISK_CONTENT_HASH"})
  \cup When(References(o), {"DEDUP"})
  \cup When(References(o) /\ Encrypts(o) /\ ~Old(o), {"AUTH_DEDUP_REFS"})
  \cup When(o.layout = "flat" /\ o.threads, {"MULTITHREADED"})

BlocksOf(content) ==
  [b \in 1 .. ((Len(content) + BlockSize - 1) \div BlockSize) |->
     SubSeq(content, (b - 1) * BlockSize + 1,
            IF b * BlockSize < Len(content) THEN b * BlockSize ELSE Len(content))]

\* The blocks in the order of the archive, each with its sequence number.
Pieces(files, o) ==
  LET of(entry, content) ==
        [b \in 1 .. Len(BlocksOf(content)) |->
           [data |-> BlocksOf(content)[b],
            seq |-> IF OnDisk(o) THEN b - 1 ELSE DataSeq(entry, b - 1)]]
  IN IF o.layout = "solid" THEN of(1, FlattenSeq([i \in DOMAIN files |-> files[i].content]))
     ELSE FlattenSeq([i \in DOMAIN files |-> of(i, files[i].content)])

\* Deduplication: the first block with the same data is the one referred to.
FirstEqual(pieces, k) == SelectInSeq(pieces, LAMBDA p : p.data = pieces[k].data)

IsZeroBlock(data) == \A i \in DOMAIN data : data[i] = Zero
DataFrame(piece, o) ==
  Seal(Frame("DATA", IF OnDisk(o) /\ IsZeroBlock(piece.data) THEN "STORE" ELSE o.codec, piece.data),
       KeyFor(o), piece.seq, ~Old(o))

\* A reference is its target's offset, and when it is authenticated the
\* target's sequence number too.
RefFrame(piece, offset, target, o) ==
  LET authenticated == Encrypts(o) /\ ~Old(o)
      bare == [Frame("DEDUP_REF", "STORE", piece.data) EXCEPT
                 !.codec = "STORE",
                 !.pay = [codec |-> "STORE", seal |-> NoSeal,
                          data |-> IF authenticated THEN << offset, target.seq >> ELSE << offset >>]]
  IN Seal(bare, IF authenticated THEN KeyFor(o) ELSE NoKey, piece.seq, TRUE)

DataFrames(pieces, base, o) ==
  [k \in DOMAIN pieces |->
     LET first == FirstEqual(pieces, k)
     IN IF References(o) /\ first < k THEN RefFrame(pieces[k], base + first, pieces[first], o)
        ELSE DataFrame(pieces[k], o)]

\* Index entries.  The hash of a flat entry is chained over its blocks, in a
\* solid archive it is over the content, and an old disk has none.
Entry(path, size, hash, offset, count) ==
  [path |-> path, size |-> size, hash |-> hash, offset |-> offset, count |-> count]
\* Seeded fault: the solid writer hashes empty files as well.
HashesEmpty(content) == IF content = << >> THEN << Zero >> ELSE content

SolidHash(content) == content
Before(files, i) == FlattenSeq([j \in 1 .. i - 1 |-> files[j].content])
BlocksBefore(files, i) == FlattenSeq([j \in 1 .. i - 1 |-> BlocksOf(files[j].content)])
EntryOf(files, i, base, o) ==
  LET content == files[i].content
  IN IF o.layout = "solid"
     THEN Entry(files[i].path, Len(content), SolidHash(content), Len(Before(files, i)), 0)
     ELSE Entry(files[i].path, Len(content), IF Old(o) THEN << >> ELSE BlocksOf(content),
                base + Len(BlocksBefore(files, i)) + 1, Len(BlocksOf(content)))
IndexData(files, base, o) ==
  << [form |-> IF Old(o) THEN "fixed" ELSE "varint", count |-> Len(files)] >>
  \o [i \in DOMAIN files |-> EntryOf(files, i, base, o)]

\* The trailer binds header and footer, but not the footer's magic.
NoTrailer == [present |-> FALSE, key |-> NoKey, over |-> << >>]
\* Seeded fault: the trailer covers the header without the comment's offset.
BoundButComment(header, footer) ==
  << header.magic, header.version, header.flags, header.encOffset, footer.index, footer.total >>

Bound(header, footer) ==
  << header.magic, header.version, header.flags, header.encOffset, header.commentOffset,
     footer.index, footer.total >>
TrailerOf(header, footer, key) == [present |-> TRUE, key |-> key, over |-> Bound(header, footer)]

EncFrame(o) == Frame("ENC_HEADER", "STORE", << Key(o.kind, o.value) >>)

\* write_comment_block: the offset of the comment is known only now, and the
\* header, which holds it, is written again.
HasComment(o) == o.comment # << >> /\ ~OnDisk(o)
CommentFrame(o) == Seal(Frame("COMMENT", "STORE", o.comment), KeyFor(o), CommentSeq, TRUE)

IndexFrame(files, base, o) ==
  LET bare == Frame("INDEX", IF OnDisk(o) THEN "STORE" ELSE "LZH", IndexData(files, base, o))
  IN Seal(bare, IF Old(o) THEN NoKey ELSE KeyFor(o), IndexSeq, TRUE)

\* The end of every writer: comment, index, footer and trailer around the
\* header and the frames.  Only a solid archive counts its index as a block.
Base(o) == IF Encrypts(o) THEN 1 ELSE 0
Closed(body, files, o) ==
  LET annotated == IF HasComment(o) THEN Append(body, CommentFrame(o)) ELSE body
      header == [magic |-> TRUE, version |-> TRUE, flags |-> Flags(o),
                 encOffset |-> Base(o),
                 commentOffset |-> IF HasComment(o) THEN Len(annotated) ELSE 0]
      footer == [magic |-> TRUE, version |-> TRUE, index |-> Len(annotated) + 1,
                 total |-> Len(annotated) - Base(o) + (IF o.layout = "solid" THEN 1 ELSE 0)]
  IN [header |-> header, frames |-> Append(annotated, IndexFrame(files, Base(o), o)),
      footer |-> footer, trailer |-> TrailerOf(header, footer, KeyFor(o))]

\* What zupt_compress_files, zupt_compress_solid and zupt_disk_backup write.
Opening(o) == IF Encrypts(o) THEN << EncFrame(o) >> ELSE << >>
Written(files, o) ==
  Closed(Opening(o) \o DataFrames(Pieces(files, o), Base(o), o), files, o)

=============================================================================
