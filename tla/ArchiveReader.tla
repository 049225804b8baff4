--------------------------- MODULE ArchiveReader ----------------------------
(***************************************************************************)
(* The readers of zupt_format.c and zupt_dedup.c over the archives of       *)
(* ArchiveFormat: open_archive, then list, test, extract, and info, which   *)
(* verifies nothing.  Reader options: the secret, whether an archive        *)
(* without integrity trailer is taken, and the quota on output, 0 for none. *)
(***************************************************************************)
EXTENDS ArchiveFormat

Flag(a, flag) == flag \in a.header.flags
Aad(a) == Flag(a, "AAD_PREFACE")

-----------------------------------------------------------------------------
(* open_archive *)

\* read_header
HeaderError(a) == Check(a.header.magic, "BAD_MAGIC") ?? Check(a.header.version, "BAD_VERSION")

\* locate_footer_v15: behind a trailer the footer is found by magic and
\* version; otherwise the file is taken to end with the footer.
FooterError(a) ==
  IF a.trailer.present THEN Check(a.footer.magic /\ a.footer.version, "CORRUPT")
  ELSE Check(a.footer.magic, "CORRUPT") ?? Check(a.footer.version, "BAD_VERSION")

Requires(a, flag, needed) == Check(Flag(a, flag) => needed \subseteq a.header.flags, "CORRUPT")
FlagsError(a) ==
  Requires(a, "AUTH_DEDUP_REFS", {"ENCRYPTED", "DEDUP", "AAD_SEQ", "AAD_PREFACE"})
  ?? Requires(a, "AAD_PREFACE", {"ENCRYPTED", "AAD_SEQ"})
  ?? Requires(a, "DISK_CONTENT_HASH", {"DISK_IMAGE"})

EndOfFile(a) == Len(a.frames) + 2

\* read_block
ReadError(a, offset) ==
  Check(offset # EndOfFile(a), "IO")
  ?? Check(offset \in DOMAIN a.frames /\ a.frames[offset].intact, "CORRUPT")

\* read_enc_header.  A wrong password or key file of the right form derives
\* another key and goes unnoticed here.
EncFrameError(frame) ==
  Check(frame.type = "ENC_HEADER", "CORRUPT")
  ?? Check(frame.codec = "STORE" /\ ~frame.sealed /\ frame.size = Len(frame.pay.data), "CORRUPT")
  ?? Check(frame.pay.data = frame.sum, "BAD_CHECKSUM")
SecretError(kind, o) ==
  Check(kind \in NativeKinds /\ o.secret.form = FormOf(kind), "AUTH_FAIL")
Kind(a) == a.frames[a.header.encOffset].pay.data[1].kind
EncHeaderError(a, o) ==
  IF ~Flag(a, "ENCRYPTED") THEN "OK"
  ELSE Check(a.header.encOffset <= EndOfFile(a), "CORRUPT")
       ?? ReadError(a, a.header.encOffset)
       ?? EncFrameError(a.frames[a.header.encOffset])
       ?? SecretError(Kind(a), o)
KeyOf(a, o) == IF Flag(a, "ENCRYPTED") THEN Key(Kind(a), o.secret.value) ELSE NoKey

\* ait_verify
TrailerError(a, key) ==
  Check(a.trailer.present => a.trailer = [present |-> TRUE, key |-> key,
                                          over |-> Bound(a.header, a.footer)],
        IF Flag(a, "ENCRYPTED") THEN "AUTH_FAIL" ELSE "BAD_CHECKSUM")

CommentError(a, key) ==
  LET frame == a.frames[a.header.commentOffset]
  IN IF a.header.commentOffset = 0 THEN "OK"
     ELSE ReadError(a, a.header.commentOffset)
          ?? Check(frame.type = "COMMENT" /\ frame.size \in 1 .. MaxComment, "CORRUPT")
          ?? BlockError(frame, key, CommentSeq, Aad(a))
CommentOf(a) ==
  IF a.header.commentOffset = 0 THEN << >>
  ELSE LET text == Decoded(a.frames[a.header.commentOffset])
       IN SubSeq(text, 1, IF Len(text) < MaxComment THEN Len(text) ELSE MaxComment - 1)

\* The index; that of an old encrypted disk is not encrypted.
OldDisk(a) == Flag(a, "DISK_IMAGE") /\ ~Flag(a, "DISK_CONTENT_HASH")
ParseError(a, data) ==
  Check(data # << >> /\ data[1].form = (IF OldDisk(a) THEN "fixed" ELSE "varint"), "CORRUPT")
  ?? Check(OldDisk(a) => data[1].count = 1, "CORRUPT")
IndexError(a, key) ==
  LET frame == a.frames[a.footer.index]
      indexKey == IF OldDisk(a) THEN NoKey ELSE key
  IN Check(a.footer.index <= EndOfFile(a), "CORRUPT")
     ?? ReadError(a, a.footer.index)
     ?? Check(frame.type = "INDEX", "CORRUPT")
     ?? BlockError(frame, indexKey, IndexSeq, Aad(a))
     ?? ParseError(a, Decoded(frame))

MetadataError(a, key) == TrailerError(a, key) ?? CommentError(a, key) ?? IndexError(a, key)
OpenError(a, o) ==
  HeaderError(a)
  ?? FooterError(a)
  ?? Check(a.trailer.present \/ o.legacy, "AUTH_FAIL")
  ?? FlagsError(a)
  ?? EncHeaderError(a, o)
  ?? MetadataError(a, KeyOf(a, o))

Entries(a) == Tail(Decoded(a.frames[a.footer.index]))

-----------------------------------------------------------------------------
(* The blocks of an entry *)

Result(error, data) == [error |-> error, data |-> data]
FirstError(errors) ==
  LET first == SelectInSeq(errors, LAMBDA e : e # "OK")
  IN IF first = 0 THEN "OK" ELSE errors[first]

\* zupt_dedup_read_ref; other data read as an offset points nowhere.
Authenticated(a) == Flag(a, "AUTH_DEDUP_REFS")
ReferenceError(a, frame, key, seq) ==
  Check(frame.codec = "STORE", "CORRUPT")
  ?? IF Authenticated(a)
     THEN Check(frame.sealed /\ key # NoKey, "AUTH_FAIL")
          ?? Check(Unseals(frame, key, seq, Aad(a)), "AUTH_FAIL")
          ?? Check(Len(frame.pay.data) = 2, "CORRUPT")
     ELSE Check(~frame.sealed /\ Len(frame.pay.data) = 1, "CORRUPT")
          ?? Check(frame.pay.data[1] \in Nat, "CORRUPT")

\* The sequence numbers of an old encrypted disk with references are those of
\* the data frames' places, and a reference must hit one of them.
OldDedup(a) == OldDisk(a) /\ {"ENCRYPTED", "DEDUP"} \subseteq a.header.flags
Places(entry) == entry.offset .. entry.offset + entry.count - 1
DataPlaces(a, entry) == {p \in Places(entry) : a.frames[p].type = "DATA"}
TargetSeqError(a, entry, offset) == Check(OldDedup(a) => offset \in DataPlaces(a, entry), "CORRUPT")
TargetSeq(a, entry, frame) ==
  IF Authenticated(a) THEN frame.pay.data[2]
  ELSE IF OldDedup(a) THEN frame.pay.data[1] - entry.offset
  ELSE 0
AadMapError(a, entries) ==
  IF ~OldDedup(a) THEN "OK"
  ELSE Check(Len(entries) = 1, "CORRUPT")
       ?? FirstError([b \in 1 .. entries[1].count |->
            LET p == entries[1].offset + b - 1
            IN ReadError(a, p) ?? Check(a.frames[p].type \in {"DATA", "DEDUP_REF"}, "CORRUPT")])

\* A reference points back, to data of the same size and checksum.
PointsBack(offset, place) == offset <= place
TargetError(a, entry, place, key) ==
  LET ref == a.frames[place]
      offset == ref.pay.data[1]
      target == a.frames[offset]
  IN TargetSeqError(a, entry, offset)
     ?? Check(PointsBack(offset, place), "CORRUPT")
     ?? ReadError(a, offset)
     ?? Check(target.type = "DATA" /\ target.size = ref.size /\ target.sum = ref.sum, "CORRUPT")
     ?? BlockError(target, key, TargetSeq(a, entry, ref), Aad(a))

Block(a, entry, i, b, key) ==
  LET place == entry.offset + b
      frame == a.frames[place]
      seq == ReaderSeq(a.header.flags, i, b)
      error == ReadError(a, place)
               ?? CASE frame.type = "DATA" -> BlockError(frame, key, seq, Aad(a))
                    [] frame.type = "DEDUP_REF" ->
                         ReferenceError(a, frame, key, seq) ?? TargetError(a, entry, place, key)
                    [] OTHER -> "CORRUPT"
  IN Result(error, IF error # "OK" THEN << >>
                   ELSE IF frame.type = "DATA" THEN Decoded(frame)
                   ELSE Decoded(a.frames[frame.pay.data[1]]))

\* Seeded fault: the hash in the index is not compared.
NeverRequired(a) == FALSE

\* The chained hash; an old disk has none.
HashRequired(a) == ~OldDisk(a)
WithData(chunks) ==
  FlattenSeq([k \in DOMAIN chunks |-> IF chunks[k] = << >> THEN << >> ELSE << chunks[k] >>])
HashHolds(a, entry, chunks) == HashRequired(a) => WithData(chunks) = entry.hash

EntryResult(a, i, entry, key) ==
  LET blocks == [b \in 1 .. entry.count |-> Block(a, entry, i, b - 1, key)]
      chunks == [b \in DOMAIN blocks |-> blocks[b].data]
      content == FlattenSeq(chunks)
      error == FirstError([b \in DOMAIN blocks |-> blocks[b].error])
               ?? Check(Len(content) = entry.size /\ HashHolds(a, entry, chunks), "BAD_CHECKSUM")
  IN Result(error, content)

-----------------------------------------------------------------------------
(* The stream of a solid archive: from behind the header, or the frame       *)
(* behind it, exactly to the comment or the index.                          *)

StreamEnd(a) == IF a.header.commentOffset # 0 THEN a.header.commentOffset ELSE a.footer.index
StreamSize(entries) == Total([i \in DOMAIN entries |-> entries[i].size])

\* Seeded fault: the reader numbers the stream's blocks from zero.
SeqWithoutEntry(block) == block

SolidSeq(block) == DataSeq(1, block)

SolidStream(a, entries, key) ==
  LET start == IF Flag(a, "ENCRYPTED") THEN 2 ELSE 1
      places == [b \in 1 .. StreamEnd(a) - start |-> start + b - 1]
      error(b) == ReadError(a, places[b])
                  ?? Check(a.frames[places[b]].type = "DATA", "CORRUPT")
                  ?? BlockError(a.frames[places[b]], key, SolidSeq(b - 1), Aad(a))
      failed == FirstError([b \in DOMAIN places |-> error(b)])
      stream == FlattenSeq([b \in DOMAIN places |-> Decoded(a.frames[places[b]])])
      others == IF a.header.commentOffset # 0 THEN 2 ELSE 1
  IN IF start > StreamEnd(a) \/ failed # "OK" THEN Result("CORRUPT", << >>)
     ELSE Result(Check(Len(stream) = StreamSize(entries) /\ Len(places) + others = a.footer.total,
                       "CORRUPT"), stream)

SolidEntry(entry, stream, emptyHash) ==
  LET content == SubSeq(stream, entry.offset + 1, entry.offset + entry.size)
  IN Result(Check(entry.offset + entry.size <= Len(stream), "CORRUPT")
            ?? Check(content = entry.hash \/ (entry.size = 0 /\ ~emptyHash), "BAD_CHECKSUM"),
            content)

-----------------------------------------------------------------------------
(* The operations *)

\* What becomes of every entry, or why none is looked at.  emptyHash: extract
\* compares the hash of an empty entry, test does not.
Contents(a, o, emptyHash) ==
  LET key == KeyOf(a, o)
      entries == Entries(a)
      stream == SolidStream(a, entries, key)
  IN IF Flag(a, "SOLID")
     THEN LET error == Check(StreamSize(entries) <= SolidLimit, "OVERFLOW") ?? stream.error
          IN [error |-> error,
              entries |-> IF error # "OK" THEN << >>
                          ELSE [i \in DOMAIN entries |-> SolidEntry(entries[i], stream.data, emptyHash)]]
     ELSE LET error == AadMapError(a, entries)
          IN [error |-> error,
              entries |-> IF error # "OK" THEN << >>
                          ELSE [i \in DOMAIN entries |-> EntryResult(a, i, entries[i], key)]]

Failed(results) == \E i \in DOMAIN results : results[i].error # "OK"

\* zupt_test_archive_stream
TestArchive(a, o) ==
  LET contents == Contents(a, o, FALSE)
  IN OpenError(a, o) ?? contents.error ?? Check(~Failed(contents.entries), "BAD_CHECKSUM")

\* Seeded fault: extraction ends with the first entry that fails.
UpToTheFirst(entries, results) ==
  {[path |-> entries[i].path, content |-> results[i].data] :
     i \in {j \in DOMAIN results : \A k \in 1 .. j : results[k].error = "OK"}}

\* zupt_extract_archive; an entry that fails leaves no file, and the others
\* are extracted all the same.
Extracted(entries, results) ==
  {[path |-> entries[i].path, content |-> results[i].data] :
     i \in {j \in DOMAIN results : results[j].error = "OK"}}
QuotaError(a, o) == Check(o.quota = 0 \/ StreamSize(Entries(a)) <= o.quota, "OVERFLOW")
ExtractArchive(a, o) ==
  LET refused == OpenError(a, o) ?? QuotaError(a, o)
      contents == Contents(a, o, TRUE)
  IN IF refused # "OK" THEN [error |-> refused, files |-> {}]
     ELSE [error |-> contents.error ?? Check(~Failed(contents.entries), "CORRUPT"),
           files |-> Extracted(Entries(a), contents.entries)]

\* zupt_list_archive, with the comment open_archive leaves in the options.
ListArchive(a, o) ==
  LET error == OpenError(a, o)
      ok == error = "OK"
  IN [error |-> error,
      paths |-> IF ok THEN [i \in DOMAIN Entries(a) |-> Entries(a)[i].path] ELSE << >>,
      sizes |-> IF ok THEN [i \in DOMAIN Entries(a) |-> Entries(a)[i].size] ELSE << >>,
      comment |-> IF ok THEN CommentOf(a) ELSE << >>]

\* zupt_archive_info
ArchiveInfo(a) ==
  [error |-> Check(a.header.magic, "BAD_MAGIC"),
   flags |-> a.header.flags,
   blocks |-> IF a.footer.magic THEN a.footer.total ELSE 0,
   trailer |-> a.footer.magic /\ a.trailer.present,
   comment |-> a.header.commentOffset # 0]
=============================================================================
