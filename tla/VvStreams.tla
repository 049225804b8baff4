----------------------------- MODULE VvStreams ------------------------------
(***************************************************************************)
(* Writing and reading frames of VaptVupt call by call.                     *)
(*                                                                          *)
(* A writer makes frames in one call (vv_compress, vv_compress_mt) or chunk *)
(* by chunk (vv_cstream_compress_chunk); in the second case it keeps what   *)
(* it was given in a buffer, drops the oldest bytes when that is full, and  *)
(* finds matches only in what is left.  A reader (vv_dstream_...) is given  *)
(* the wire in pieces of any size and keeps a unit until it can be decoded. *)
(* Both can be reset to begin another frame.  What lies between them may    *)
(* have been damaged.                                                       *)
(***************************************************************************)
EXTENDS VvFrames

CONSTANTS
  VvTasks,     \* what may be compressed, with which options, how, and with what memory
  ChunkLens,   \* how much the caller of a stream gives at a time
  PartLen,     \* chunk_size: the bytes of a frame of vv_compress_mt
  Rounds       \* frames made with one writer and one reader

ASSUME StreamAssumption ==
  /\ \A t \in VvTasks :
       /\ t.opts \in Options /\ t.memory \in Memories
       \* "calls" are those of vv_compress_mt, "chunks" those of a stream, which takes no filter
       /\ t.mode \in {"call", "calls", "chunks"} /\ (t.mode = "chunks" => t.opts.filter = "none")
  /\ ChunkLens \subseteq 0 .. VvBlock /\ PartLen \in Nat /\ PartLen >= VvBlock /\ Rounds \in Nat

VARIABLES
  task,    \* the input, the options, how it is written and with what memory
  writer,  \* its buffer, the bytes written and summed, and whether it is done
  wire,    \* the units written
  intact,  \* whether they are as written
  reader,  \* its state, the units it keeps, what it has put out and summed
  fed,     \* how many units it was given
  round

vvVars == << task, writer, wire, intact, reader, fed, round >>

-----------------------------------------------------------------------------
(* The writer                                                               *)

\* matcher_init, vv_cstream_reset
FreshWriter == [buf |-> << >>, at |-> 0, summed |-> << >>, open |-> FALSE, done |-> FALSE]

\* One of the ends of emit_block, with what comes before and after it.
Emits(src, from, to, last, before, after) ==
  LET put(block) == wire' = wire \o before \o block \o after
      size == to - from
  IN \/ put(EndsRaw(src, from, to, last))
     \/ \E seqs \in Parses(src, from, from, to, task.opts) :
          \/ MayEndCompressed(seqs, size, task.opts) /\ put(EndsCompressed(seqs, size, task.opts, last))
          \/ /\ MayEndInSequences(seqs, size, task.opts)
             /\ \E section \in LitChoices(AllLiterals(seqs), LitForms, task.memory) :
                  put(EndsInSequences(seqs, section, size, task.opts, last))
          \/ MayEndInSection(seqs, size, task.opts) /\ put(EndsInSection(seqs, size, task.opts, last))

HeaderOnce == IF writer.open THEN << >> ELSE << Header(task.opts) >>
FooterOf(bytes) == IF task.opts.sum THEN << Footer(bytes) >> ELSE << >>

\* vv_compress: a block of the input, which has gone through the filter, or an
\* empty one.  vv_compress_mt: the same for one part of the input after the
\* other; what threads make in any order is put together in that of the parts.
CompressBlock ==
  LET start == IF task.mode = "calls" THEN (writer.at \div PartLen) * PartLen ELSE 0
      end == IF task.mode = "calls" THEN Smaller(start + PartLen, Len(task.input)) ELSE Len(task.input)
      part == Filter(SubSeq(task.input, start + 1, end), task.opts.filter, TRUE)
      from == writer.at - start
      to == Smaller(from + VvBlock, Len(part))
      last == to = Len(part)
      footer == IF last THEN FooterOf(part) ELSE << >>
  IN /\ task.mode \in {"call", "calls"} /\ ~writer.done
     /\ IF part = << >> THEN wire' = wire \o HeaderOnce \o Raw(<< >>, TRUE) \o footer
        ELSE Emits(part, from, to, last, HeaderOnce, footer)
     /\ writer' = [writer EXCEPT !.at = start + to, !.open = ~last, !.done = start + to = Len(task.input)]
     /\ UNCHANGED << task, intact, reader, fed, round >>

\* What vv_cstream_compress_chunk keeps of its buffer when a chunk of n bytes
\* no longer fits: as much as the window is long.
Kept(buf, n) ==
  LET window == 2^task.opts.log
      keep == Smaller(window, Len(buf))
  IN IF Len(buf) + n <= 2 * window + VvBlock THEN buf ELSE SubSeq(buf, Len(buf) - keep + 1, Len(buf))

\* The caller says which chunk is the last; that one may be empty.
CompressChunk(n) ==
  LET chunk == SubSeq(task.input, writer.at + 1, writer.at + n)
      buf == Kept(writer.buf, n) \o chunk
      summed == IF task.opts.sum THEN writer.summed \o chunk ELSE << >>
      footer(last) == IF last THEN FooterOf(summed) ELSE << >>
  IN /\ task.mode = "chunks" /\ ~writer.done
     /\ writer.at + n <= Len(task.input)
     /\ \E last \in {writer.at + n = Len(task.input), FALSE} :
          /\ IF n = 0 THEN wire' = wire \o HeaderOnce \o (IF last THEN Raw(<< >>, TRUE) ELSE << >>) \o footer(last)
             ELSE Emits(buf, Len(buf) - n, Len(buf), last, HeaderOnce, footer(last))
          /\ n = 0 => last \/ ~writer.open
          /\ writer' = [buf |-> buf, at |-> writer.at + n, summed |-> summed, open |-> TRUE, done |-> last]
     /\ UNCHANGED << task, intact, reader, fed, round >>

-----------------------------------------------------------------------------
(* Damage: the wire is cut short, or a unit is changed in a way that leaves  *)
(* those behind it where they are.                                          *)

ChangedByte(bytes) == [bytes EXCEPT ![1] = (@ + 1) % Byte]
ChangedBody(u) ==
  IF "seqs" \in DOMAIN u THEN {[u EXCEPT !.seqs.matches = @ + 1], [u EXCEPT !.seqs.bits = << >>]}
  ELSE IF u.bytes = << >> THEN {} ELSE {[u EXCEPT !.bytes = ChangedByte(@)]}
ChangedHeader(u) ==
  {[u EXCEPT !.log = l] : l \in WindowLogs \cup {0}}
  \cup {[u EXCEPT !.filters = f] : f \in SUBSET (Filters \ {"none"})}
  \cup {[u EXCEPT !.sum = ~@]}
Changed(u) ==
  CASE u.at = "header" -> ChangedHeader(u)
    [] u.at = "block" -> (IF u.type = "RAW" THEN {} ELSE {[u EXCEPT !.size = @ + 1]})
                         \cup (IF u.last /\ task.opts.sum THEN {} ELSE {[u EXCEPT !.last = ~@]})
    [] u.at = "body" -> ChangedBody(u)
    [] u.at = "footer" -> {[u EXCEPT !.of = Append(@, 0)]}

Damage ==
  /\ writer.done /\ intact /\ fed = 0 /\ task.mode # "calls"
  /\ \E k \in DOMAIN wire :
       \/ wire' = SubSeq(wire, 1, k - 1)
       \/ \E u \in Changed(wire[k]) : wire' = [wire EXCEPT ![k] = u]
  /\ intact' = FALSE
  /\ UNCHANGED << task, writer, reader, fed, round >>

-----------------------------------------------------------------------------
(* The reader                                                               *)

NoHeader == [at |-> "header", sum |-> FALSE, log |-> 0, filters |-> {}]

\* vv_dstream_create, vv_dstream_reset
FreshReader == [state |-> "HEADER", header |-> NoHeader, kept |-> << >>, out |-> << >>, summed |-> << >>, rc |-> "OK"]

Fails(r, rc) == [r EXCEPT !.state = "ERROR", !.rc = rc]
\* dstream_finish: the filter is undone once.
Finishes(r) == [r EXCEPT !.state = "DONE", !.out = Undone(@, r.header)]

ReadsHeader(r) ==
  LET u == r.kept[1]
  IN IF u.at # "header" \/ BadHeader(u) THEN Fails(r, "CORRUPT")
     ELSE [r EXCEPT !.state = "BLOCK", !.header = u, !.kept = Tail(@)]

\* A block is decoded when all of it is there.
Empty(head) == head.type = "RAW" /\ head.size = 0
TooLarge(head, r, room) == head.size > VvBlock \/ head.size > room - Len(r.out)
Output(r, units, out) ==
  [r EXCEPT !.out = out, !.kept = SubSeq(@, units + 1, Len(@)),
            !.summed = IF r.header.sum THEN @ \o SubSeq(out, Len(r.out) + 1, Len(out)) ELSE @]
AfterBlock(r, last) ==
  IF ~last THEN r ELSE IF r.header.sum THEN [r EXCEPT !.state = "FOOTER"] ELSE Finishes(r)
TakesBlock(r, units, read) ==
  IF read.rc = "OK" THEN AfterBlock(Output(r, units, read.out), r.kept[1].last) ELSE Fails(r, read.rc)
ReadsBlock(r, room) ==
  LET head == r.kept[1]
  IN IF head.at # "block" THEN Fails(r, "CORRUPT")
     ELSE IF TooLarge(head, r, room) THEN Fails(r, "OVERFLOW")
     ELSE IF Empty(head) THEN TakesBlock(r, 1, Wrote(r.out))
     ELSE IF r.kept[2].at # "body" THEN Fails(r, "CORRUPT")
     ELSE TakesBlock(r, 2, ReadBody(head, r.kept[2], r.out, r.header.log))

\* Seeded fault: the sum is read over.
PassesFooter(r) == Finishes([r EXCEPT !.kept = Tail(@)])

ReadsFooter(r) ==
  LET u == r.kept[1]
  IN IF u.at # "footer" \/ u.of # r.summed THEN Fails(r, "CORRUPT")
     ELSE Finishes([r EXCEPT !.kept = Tail(@)])

\* What a turn of the loop needs to have been given.  The head alone tells that a
\* block has no body or does not fit.
HeadIsEnough(u, r, room) == u.at # "block" \/ Empty(u) \/ TooLarge(u, r, room)
Needs(r, room) ==
  IF r.state = "BLOCK" /\ r.kept # << >> /\ ~HeadIsEnough(r.kept[1], r, room) THEN 2 ELSE 1

RECURSIVE Turns(_, _)
Turns(r, room) ==
  IF r.state \in {"DONE", "ERROR"} \/ Len(r.kept) < Needs(r, room) THEN r
  ELSE CASE r.state = "HEADER" -> Turns(ReadsHeader(r), room)
         [] r.state = "BLOCK" -> Turns(ReadsBlock(r, room), room)
         [] r.state = "FOOTER" -> Turns(ReadsFooter(r), room)

\* Seeded fault: what was kept is given up for what comes.
ForgetsKept(r, units, room) ==
  IF r.state \in {"DONE", "ERROR"} THEN r ELSE Turns([r EXCEPT !.kept = units], room)

\* Seeded fault: after an error the next piece is taken for the next block.
GoesOn(r, units, room) ==
  IF r.state = "DONE" THEN r
  ELSE Turns([r EXCEPT !.kept = @ \o units, !.state = IF @ = "ERROR" THEN "BLOCK" ELSE @], room)

\* vv_dstream_decompress_chunk: one that has ended takes nothing more.
Given(r, units, room) ==
  IF r.state \in {"DONE", "ERROR"} THEN r ELSE Turns([r EXCEPT !.kept = @ \o units], room)

Room == Len(task.input) + 1
DecompressChunk(n) ==
  /\ writer.done /\ fed + n <= Len(wire)
  /\ reader' = Given(reader, SubSeq(wire, fed + 1, fed + n), Room)
  /\ fed' = fed + n
  /\ UNCHANGED << task, writer, wire, intact, round >>

\* No memory for the input.
DecompressFails ==
  /\ writer.done /\ fed < Len(wire) /\ reader.state \notin {"DONE", "ERROR"}
  /\ reader' = Fails(reader, "NOMEM")
  /\ UNCHANGED << task, writer, wire, intact, fed, round >>

-----------------------------------------------------------------------------
(* Another frame with the same writer and reader, begun at any time.  The   *)
(* window stays.                                                            *)

Reset ==
  /\ round < Rounds /\ task.mode = "chunks"
  /\ task' \in {t \in VvTasks : t.mode = "chunks" /\ t.opts.log = task.opts.log}
  /\ writer' = FreshWriter
  /\ reader' = FreshReader
  /\ wire' = << >> /\ intact' = TRUE /\ fed' = 0 /\ round' = round + 1

VvInit ==
  /\ task \in VvTasks
  /\ writer = FreshWriter /\ reader = FreshReader
  /\ wire = << >> /\ intact = TRUE /\ fed = 0 /\ round = 1

VvNext ==
  \/ CompressBlock
  \/ \E n \in ChunkLens : CompressChunk(n)
  \/ Damage
  \/ \E n \in 1 .. Len(wire) : DecompressChunk(n)
  \/ DecompressFails
  \/ Reset

VvSpec == VvInit /\ [][VvNext]_vvVars

-----------------------------------------------------------------------------
(* What is right                                                            *)

\* Whatever forms its blocks took, in however many calls it was written and in
\* whatever pieces it is read: a frame gives back what was compressed
\* (emit_block, vv_decompress_flags, vv_dstream_decompress_chunk).
FramesReadBack ==
  writer.done /\ intact /\ task.memory = "all" =>
    /\ Decompress(wire, Room, TRUE) = Wrote(task.input)
    /\ fed = Len(wire) /\ task.mode # "calls" /\ reader.rc # "NOMEM" =>
         reader.state = "DONE" /\ reader.out = task.input

\* How the wire is cut into pieces makes no difference, and a reader that ends
\* agrees with one that has all at once (vv_dstream_decompress_chunk against
\* vv_decompress_flags), also where the wire is damaged.
PiecesDoNotMatter ==
  reader.rc # "NOMEM" =>
    /\ reader = [FoldLeft(LAMBDA r, u : Given(r, << u >>, Room), FreshReader, SubSeq(wire, 1, fed))
                   EXCEPT !.kept = reader.kept]
    /\ reader.state = "ERROR" => Decompress(wire, Room, TRUE).rc # "OK"
    /\ reader.state = "DONE" =>
         \E k \in 0 .. fed : Decompress(SubSeq(wire, 1, k), Room, TRUE) = Wrote(reader.out)

\* A reader that ends behind a sum has decoded the very bytes that the writer
\* summed, whatever was damaged (dstream_finish is only reached behind the
\* comparison).  They are those between filter and block, and no check covers the
\* filter that the header names: it is undone as named, and what was compressed
\* comes back if it is the writer's.
SumFindsDamage ==
  LET sent == Filter(task.input, task.opts.filter, TRUE)
  IN reader.state = "DONE" /\ reader.header.sum /\ task.mode # "calls" =>
       /\ reader.summed = sent
       /\ reader.out = Undone(sent, reader.header)
       /\ reader.header.filters = Header(task.opts).filters => reader.out = task.input

\* The checksum in the footer is the "XXH64 of decompressed content" (vaptvupt.h
\* of vv_frame_footer_t): a frame that passes it gives what was compressed.
SumIsOfContent ==
  reader.state = "DONE" /\ reader.header.sum /\ task.mode # "calls" => reader.out = task.input

\* A reader that has ended stays as it is until it is reset: the filter is not
\* undone twice, and an error is not forgotten.
EndsOnce == [][reader.state \in {"DONE", "ERROR"} => reader' \in {reader, FreshReader}]_vvVars
=============================================================================
