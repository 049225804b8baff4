----------------------------- MODULE CodecCalls -----------------------------
(***************************************************************************)
(* What is asked of the codecs: to pack a block of an archive and to give   *)
(* it back, also after damage; to code literals; and, as VvStreams has it,  *)
(* to write and read a frame of VaptVupt.  A block for VaptVupt is packed   *)
(* from the frame that one call of its writer makes.                        *)
(***************************************************************************)
EXTENDS VvStreams, BlockCodec

CONSTANTS
  BlockJobs,  \* blocks to pack: bytes, codec, level, and what there is no memory for
  CoderJobs   \* literals to code, and in which form
              \* a frame that no block asked for has the codec "NONE"

ASSUME JobAssumption ==
  /\ \A j \in BlockJobs : j.codec \in Codecs \cup {"AUTO"} /\ j.memory \in BlockMemories
  /\ \A j \in CoderJobs : j.form \in (LitForms \ {"raw"}) \cup {"context"}

VARIABLES
  job,     \* what is asked
  block,   \* the block packed, or the literals coded
  damaged, \* whether the block was changed since
  result   \* what came back

callVars == << job, block, damaged, result >>
vars == << callVars, vvVars >>

NoBlockYet == [size |-> -1]
NoResult == [rc |-> "NONE", out |-> << >>]

\* A frame for a block, or an empty one that nobody asks for.
FrameTask(input, opts, memory) == [input |-> input, opts |-> opts, mode |-> "call", memory |-> memory]
Asked(codec, input, level, memory) == [kind |-> "block", codec |-> codec, input |-> input, level |-> level, memory |-> memory]
Idle == [kind |-> "frame"]

AskFrame == job = Idle /\ task \in VvTasks
AskBlock ==
  \E j \in BlockJobs, codec \in Codecs :
    /\ codec \in Resolved(j.codec)
    /\ job = Asked(codec, j.input, j.level, j.memory)
    /\ \E opts \in VvzOptions(j.level) :
         /\ codec = "VAPTVUPT" \/ opts = CHOOSE o \in VvzOptions(j.level) : TRUE
         /\ task = FrameTask(j.input, opts, IF j.memory \in Memories THEN j.memory ELSE "all")
AskCoder ==
  \E j \in CoderJobs :
    /\ job = [kind |-> "coder", form |-> j.form, input |-> j.input]
    /\ task = FrameTask(j.input, CHOOSE o \in Options : TRUE, "all")

Init ==
  /\ AskFrame \/ AskBlock \/ AskCoder
  /\ block = NoBlockYet /\ damaged = FALSE /\ result = NoResult
  /\ writer = FreshWriter /\ reader = FreshReader
  /\ wire = << >> /\ intact = TRUE /\ fed = 0 /\ round = 1

-----------------------------------------------------------------------------
(* A block                                                                  *)

Packs(payload) ==
  /\ block' = Block(job.input, payload)
  /\ UNCHANGED << job, damaged, result >>

\* compress_files, zpar_compress_worker, zupt_disk_backup, the index
PackBlock ==
  /\ job.kind = "block" /\ job.codec # "VAPTVUPT" /\ block = NoBlockYet
  /\ \E payload \in Packed(job.input, job.codec, job.level, job.memory) : Packs(payload)
  /\ UNCHANGED vvVars

\* vvz_compress: vv_compress, and what becomes of the frame
MakeFrame ==
  /\ job.kind = "block" /\ job.codec = "VAPTVUPT" /\ block = NoBlockYet
  /\ CompressBlock /\ UNCHANGED callVars
PackFrame ==
  /\ job.kind = "block" /\ job.codec = "VAPTVUPT" /\ block = NoBlockYet /\ writer.done
  /\ \E payload \in VvzPayloads(wire, job.input, job.memory) : Packs(payload)
  /\ wire' = << >> /\ writer' = FreshWriter
  /\ UNCHANGED << task, intact, reader, fed, round >>

ChangedBytes(bytes) ==
  {SubSeq(bytes, 1, k) : k \in 0 .. Len(bytes) - 1}
  \cup {[bytes EXCEPT ![k] = (@ + d) % Byte] : k \in DOMAIN bytes, d \in {1, Nibble}}
ChangedLzh(lzh) ==
  {[lzh EXCEPT !.rle = ~@], [lzh EXCEPT !.litCount = @ + 1], [lzh EXCEPT !.lit.raw = ~@],
   [lzh EXCEPT !.bits = SubSeq(@, 1, Len(@) - ByteBits)]}
  \cup {[lzh EXCEPT !.bits = [@ EXCEPT ![k] = 1 - @]] : k \in DOMAIN lzh.bits}
  \cup {[lzh EXCEPT !.lit.units = [@ EXCEPT ![k] = (@ + 1) % Byte]] : k \in DOMAIN lzh.lit.units}
ChangedPayload(p) ==
  CASE p.codec \in {"STORE", "LZ"} -> {[p EXCEPT !.bytes = b] : b \in ChangedBytes(p.bytes)}
    [] p.codec = "LZH" -> {[p EXCEPT !.lzh = b] : b \in ChangedLzh(p.lzh)}
    [] p.codec = "LZHP" -> {[p EXCEPT !.lzh = b] : b \in ChangedLzh(p.lzh)} \cup {[p EXCEPT !.prediction = << >>]}
    [] p.codec = "VAPTVUPT" -> {[p EXCEPT !.wire = SubSeq(@, 1, k)] : k \in 0 .. Len(p.wire) - 1}

DamageBlock ==
  /\ job.kind = "block" /\ block # NoBlockYet /\ result = NoResult /\ ~damaged
  /\ block' \in {[block EXCEPT !.payload = p] : p \in ChangedPayload(block.payload)}
                \cup {[block EXCEPT !.size = @ + d] : d \in {-1, 1}}
  /\ damaged' = TRUE
  /\ UNCHANGED << job, result, vvVars >>

UnpackBlock ==
  /\ job.kind = "block" /\ block # NoBlockYet /\ result = NoResult
  /\ result' = Unpack(block)
  /\ UNCHANGED << job, block, damaged, vvVars >>

-----------------------------------------------------------------------------
(* Literals: vva_encode, vva_encode4, vva_encode_ctx, vvh_encode and        *)
(* vvh_encode4, and what decodes them                                       *)

CodeLiterals ==
  /\ job.kind = "coder" /\ block = NoBlockYet
  /\ block' = IF job.form = "context"
              THEN [form |-> "context", coded |-> ContextEncode(job.input, Len(job.input))]
              ELSE LitSection(job.input, job.form, "all")
  /\ UNCHANGED << job, damaged, result, vvVars >>

DecodeLiterals ==
  /\ job.kind = "coder" /\ block # NoBlockYet /\ result = NoResult
  /\ block.coded \notin {NoAns, NoSection, NoContext}
  /\ result' = Wrote(IF job.form = "context"
                     THEN ContextDecode(block.coded, Len(job.input), Len(job.input))
                     ELSE ReadLiterals(block, Len(job.input)))
  /\ UNCHANGED << job, block, damaged, vvVars >>

-----------------------------------------------------------------------------
Next ==
  \/ PackBlock \/ MakeFrame \/ PackFrame \/ DamageBlock \/ UnpackBlock
  \/ CodeLiterals \/ DecodeLiterals
  \/ job = Idle /\ VvNext /\ UNCHANGED callVars

Spec == Init /\ [][Next]_vars

-----------------------------------------------------------------------------
(* What is right                                                            *)

\* A block that was packed can be unpacked, whatever codec it has, at whatever
\* level, and whether or not there was memory for all that packing it takes
\* (zupt_lzh_compress and vvz_compress against decompress_block).  Only a block
\* of LZH whose codes there was no memory for is lost, which huff_build does not
\* tell its caller; reading it is an error then, and never gives other bytes.
LostItsCodes == job.codec \in {"LZH", "LZHP"} /\ job.memory = "no trees"
BlocksReadBack ==
  result # NoResult /\ job.kind = "block" /\ ~damaged =>
    \/ result = Wrote(job.input)
    \/ LostItsCodes /\ result.rc # "OK"

\* No decoder hands out what lies outside its input, however it was damaged,
\* and none yields more than the block is said to have.
DecodersStayInside ==
  job.kind = "block" /\ damaged =>
    LET left == Left(block.payload, block.size)
    IN Len(left) <= block.size + 1 /\ \A k \in DOMAIN left : left[k] # Outside

\* Literals come back from each of the coders.
LiteralsReadBack == result # NoResult /\ job.kind = "coder" => result = Wrote(job.input)
=============================================================================
