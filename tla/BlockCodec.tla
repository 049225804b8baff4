----------------------------- MODULE BlockCodec -----------------------------
(***************************************************************************)
(* The blocks of an archive (zupt_format.c, zupt_parallel.c, zupt_disk.c):  *)
(* one codec's form of the bytes if that is smaller than they are, the      *)
(* bytes themselves if not, with their number and their hash.  LZHP is LZH  *)
(* behind a transform (zupt_predict.c): each byte less what mostly follows  *)
(* the one before.  A frame of VaptVupt is only taken when it has been read *)
(* back (vvz_compress).                                                     *)
(***************************************************************************)
EXTENDS VvFrames, LzhCodec, Bitwise

\* What there may be no memory for: besides the trees and lists of the codes, a
\* count of followers, or a buffer for a copy.
BlockMemories == Memories \cup {"no counts", "no copy"}

Codecs == {"STORE", "LZ", "LZH", "LZHP", "VAPTVUPT"}

\* zupt_resolve_auto_codec: the processor decides.
Resolved(codec) == IF codec = "AUTO" THEN {"VAPTVUPT", "LZHP"} ELSE {codec}

-----------------------------------------------------------------------------
(* Prediction *)

\* zupt_predict_build: the first of the bytes that follow most often, or 0.
Prediction(src, memory) ==
  LET mostAfter(c) ==
        LET after == Followers(src, c)
            count(b) == Cardinality({k \in DOMAIN after : after[k][2] = b})
        IN Most(AnsSymbols, count)
  IN [c \in AnsSymbols |-> IF memory = "no counts" THEN 0 ELSE mostAfter(c)]

\* zupt_predict_encode, and zupt_predict_decode with what it has recovered.
PredictEncode(src, prediction) == [k \in DOMAIN src |-> src[k] ^^ prediction[Context(src, k)]]
PredictDecode(in, prediction) ==
  LET before(out) == IF out = << >> THEN 0 ELSE out[Len(out)]
  IN FoldLeft(LAMBDA out, b : Append(out, b ^^ prediction[before(out)]), << >>, in)

-----------------------------------------------------------------------------
(* Packing *)

Store(bytes) == [codec |-> "STORE", bytes |-> bytes]
LzPayload(src, level) == [codec |-> "LZ", bytes |-> LzCompress(src, LzBound(Len(src)), level)]
LzhBound(n) == n + n \div 8 + 8 * Byte
LzhPayloads(src, level, memory) ==
  {[codec |-> "LZH", lzh |-> block] : block \in LzhCompress(src, LzhBound(Len(src)), level, memory)}
LzhpPayloads(prediction, src, level, memory) ==
  {[codec |-> "LZHP", prediction |-> prediction, lzh |-> block] :
     block \in LzhCompress(src, LzhBound(Len(src)), level, memory)}

\* The size of a payload; none if there is nothing in it.
LzhpHead(payload) == 1 + (IF payload.prediction = << >> THEN 0 ELSE Cardinality(AnsSymbols))
PayloadSize(payload) ==
  CASE payload.codec \in {"STORE", "LZ"} -> Len(payload.bytes)
    [] payload.codec = "LZH" -> LzhSize(payload.lzh)
    [] payload.codec = "LZHP" -> LzhpHead(payload) + LzhSize(payload.lzh)
Nothing(payload) ==
  \/ payload.codec = "LZ" /\ payload.bytes = << >>
  \/ payload.codec \in {"LZH", "LZHP"} /\ payload.lzh = NoBlock
Pays(payload, src) == ~Nothing(payload) /\ PayloadSize(payload) < Len(src)

\* Only a block longer than a table is worth a prediction; whether it pays is
\* an estimate from its first bytes.  No copy for it is no form at all.
Predicted(src, table, level, memory) ==
  {p \in LzhpPayloads(table, PredictEncode(src, table), level, memory) : Pays(p, src)}
Lzhp(src, level, memory) ==
  LzhpPayloads(<< >>, src, level, memory)
  \cup (IF Len(src) <= Cardinality(AnsSymbols) THEN {}
        ELSE IF memory = "no copy" THEN {Store(src)}
        ELSE Predicted(src, Prediction(src, memory), level, memory))

\* A block of zeros is stored on a disk image; the file format does not look.
Forms(src, codec, level, memory) ==
  CASE codec = "STORE" -> {Store(src)}
    [] codec = "LZ" -> {LzPayload(src, level)}
    [] codec = "LZH" -> LzhPayloads(src, level, memory)
    [] codec = "LZHP" -> Lzhp(src, level, memory)

Packed(src, codec, level, memory) ==
  {IF Pays(p, src) THEN p ELSE Store(src) : p \in Forms(src, codec, level, memory)}

\* vvz_compress: what is asked of VaptVupt at a level.  Which window, which
\* format and which filter is chosen by looking at the bytes.
VvzOptions(level) ==
  {opts \in Options :
     /\ ~opts.sum
     /\ level <= 2 => ~opts.entropy /\ ~opts.v2 /\ opts.filter = "none"
     /\ level > 2 => opts.entropy}

\* Seeded fault: the frame is not read back.
TakenUnseen(wire, src, memory) == memory # "no copy" /\ wire # << >> /\ src # << >>

\* The frame is taken if it gives back the block, and there is memory to see.
SelfCheck(wire, src, memory) ==
  memory # "no copy" /\ Decompress(wire, Len(src) + 1, FALSE) = Wrote(src)
VvzPayloads(wire, src, memory) ==
  {Store(src)} \cup (IF SelfCheck(wire, src, memory) THEN {[codec |-> "VAPTVUPT", wire |-> wire]} ELSE {})

\* The hash is that of the bytes it was made of; only the same bytes have it.
Block(src, payload) == [size |-> Len(src), hash |-> src, payload |-> payload]

-----------------------------------------------------------------------------
(* Reading (decompress_block, zpar_decompress_worker)                       *)

\* What a codec leaves in the buffer for the bytes of the block.
Left(payload, size) ==
  CASE payload.codec = "STORE" -> IF Len(payload.bytes) < size THEN << >> ELSE SubSeq(payload.bytes, 1, size)
    [] payload.codec = "LZ" -> LzDecompress(payload.bytes, size)
    [] payload.codec \in {"LZH", "LZHP"} -> LzhDecompress(payload.lzh, size)
    [] payload.codec = "VAPTVUPT" -> Decompress(payload.wire, size + 1, FALSE).out

Restored(payload, left) ==
  IF payload.codec = "LZHP" /\ payload.prediction # << >> THEN PredictDecode(left, payload.prediction) ELSE left

Hashed(block, out) == IF out = block.hash THEN Wrote(out) ELSE Error("BAD_CHECKSUM")
WholeBlock(block, left) ==
  IF Len(left) # block.size THEN Error("CORRUPT") ELSE Hashed(block, Restored(block.payload, left))
Unpack(block) ==
  IF block.size = 0 THEN Wrote(<< >>)
  ELSE IF block.payload.codec \notin Codecs THEN Error("UNSUPPORTED")
  ELSE WholeBlock(block, Left(block.payload, block.size))
=============================================================================
