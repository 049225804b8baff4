------------------------------ MODULE VvFrames ------------------------------
(***************************************************************************)
(* Frames of VaptVupt (vv_encoder.c, vv_decoder.c): a header, blocks and,   *)
(* if the header says so, a sum of what they hold.  A block is stored,      *)
(* repeats a byte, has tokens, or has them in an entropy coded form that a  *)
(* tag names.  On the wire a block is the unit that says its size and the   *)
(* unit with what it holds.                                                 *)
(*                                                                          *)
(* The writer takes whichever form is smallest and, where that depends on   *)
(* sizes not counted here, any form; a finder may miss any match.           *)
(***************************************************************************)
EXTENDS VvSequences, BranchFilters

CONSTANTS
  VvBlock,     \* VV_MAX_BLOCK_SIZE: the bytes of a block
  WindowLogs   \* 10 .. 24: logarithms of the window

ASSUME FrameAssumption == VvBlock \in Nat \ {0} /\ WindowLogs \subseteq 1 .. 3 * ByteBits

-----------------------------------------------------------------------------
(* The header                                                               *)

Options == [v2 : BOOLEAN, entropy : BOOLEAN, sum : BOOLEAN, log : WindowLogs, filter : Filters]
Header(opts) == [at |-> "header", sum |-> opts.sum, log |-> opts.log, filters |-> {opts.filter} \ {"none"}]

\* An offset has two bytes up to a window of as many; frame_max_offset.
OffsetWidth(log) == IF log > 2 * ByteBits THEN 3 ELSE 2
MostOffset(log) == Smaller(2^log, Byte^OffsetWidth(log) - 1)
FrameOf(log, least) == [offBytes |-> OffsetWidth(log), least |-> least, maxOffset |-> MostOffset(log)]

\* Only modes with entropy coding take the second format.
Second(opts) == opts.v2 /\ opts.entropy

-----------------------------------------------------------------------------
(* Blocks                                                                   *)

\* compress_block and compress_block_optimal: every way to cut the bytes
\* "from" .. "to" into literals and matches.
RECURSIVE Parses(_, _, _, _, _)
Parses(src, anchor, pos, to, opts) ==
  LET least == VvMinMatch(Second(opts))
      matches == VvMatches(src, pos, to, 2^opts.log, least, Smaller(to - pos, VvMaxMatch(Second(opts))))
      with(m) == {<< Sequence(src, anchor, pos, m) >> \o p : p \in Parses(src, pos + m.len, pos + m.len, to, opts)}
  IN IF pos = to THEN {<< Sequence(src, anchor, to, NoMatch) >>}
     ELSE Parses(src, anchor, pos + 1, to, opts) \cup UNION {with(m) : m \in matches}

BlockHead(type, size, last) == [at |-> "block", type |-> type, size |-> size, last |-> last]
Raw(bytes, last) ==
  << BlockHead("RAW", Len(bytes), last) >>
  \o IF bytes = << >> THEN << >> ELSE << [at |-> "body", bytes |-> bytes] >>
Tokens(bytes, size, last) == << BlockHead("COMPRESSED", size, last), [at |-> "body", bytes |-> bytes] >>
Sequences(block, tag, size, last) == << BlockHead("ENTROPY", size, last), [at |-> "body", tag |-> tag, seqs |-> block] >>

\* The number of literals before a section has two bytes.
Sections(section, n, stripped, tag, size, last) ==
  << BlockHead("ENTROPY", size, last),
     [at |-> "body", tag |-> tag, lits |-> n % (Byte * Byte), section |-> section, bytes |-> stripped] >>

\* emit_block with the tokens of a parse, as one of its four ends.  The literals
\* in sequences must be coded there; tokens of the second format are only
\* written as sequences.
EndsRaw(src, from, to, last) == Raw(SubSeq(src, from + 1, to), last)

TokensOf(seqs, opts) == TokenBytes(seqs, VvMinMatch(Second(opts)), OffsetWidth(opts.log))
MayEndCompressed(seqs, size, opts) == ~Second(opts) /\ Len(TokensOf(seqs, opts)) < size
EndsCompressed(seqs, size, opts, last) == Tokens(TokensOf(seqs, opts), size, last)

\* More than an eighth above the block's size nothing else is tried.
MayCode(seqs, size, opts) == opts.entropy /\ Len(TokensOf(seqs, opts)) < size + size \div 8
MayEndInSequences(seqs, size, opts) == MayCode(seqs, size, opts) /\ ~CutTooLate(seqs)
EndsInSequences(seqs, section, size, opts, last) ==
  Sequences(EncodeSequences(seqs, VvMinMatch(Second(opts)), section),
            IF Second(opts) THEN "T" ELSE "S", size, last)

\* Four streams if they can be made, or one.
Section4Or1(lits) ==
  IF AnsEncode(lits, 4, Len(lits)) # NoAns THEN [tag |-> "I", form |-> "ans4"] ELSE [tag |-> "A", form |-> "ans1"]
MayEndInSection(seqs, size, opts) ==
  LET lits == AllLiterals(seqs)
  IN /\ MayCode(seqs, size, opts) /\ ~Second(opts) /\ lits # << >>
     /\ Encoded(LitSection(lits, Section4Or1(lits).form, "all"))
EndsInSection(seqs, size, opts, last) ==
  LET lits == AllLiterals(seqs)
      way == Section4Or1(lits)
  IN Sections(LitSection(lits, way.form, "all"), Len(lits),
              Stripped(seqs, VvMinMatch(FALSE), OffsetWidth(opts.log)), way.tag, size, last)

-----------------------------------------------------------------------------
(* Reading a block behind the output of its frame.  Tokens always have the  *)
(* shortest match of the first format; a block must yield what its head     *)
(* says.                                                                    *)

Tagged(body) == body.tag \in {"I", "A", "H", "C"}
ReadTagged(body, lits, out, limit, log) ==
  IF Len(lits) < body.lits THEN Error("CORRUPT")
  ELSE DecodeTokens(body.bytes, 0, Apart(lits), out, limit, FrameOf(log, VvMinMatch(FALSE)))

OrCorrupt(read) == IF read.rc = "OK" THEN read ELSE Error("CORRUPT")
ReadCoded(body, out, limit, log) ==
  IF Tagged(body) THEN ReadTagged(body, ReadLiterals(body.section, body.lits), out, limit, log)
  ELSE IF body.tag \notin {"S", "T"} THEN Error("CORRUPT")
  ELSE OrCorrupt(DecodeSequences(body.seqs, out, limit, FrameOf(log, VvMinMatch(body.tag = "T"))))

ReadUpTo(limit, head, body, out, log) ==
  CASE head.type = "RAW" -> Wrote(out \o body.bytes)
    [] head.type = "RLE" -> Wrote(out \o [k \in 1 .. head.size |-> body.bytes[1]])
    [] head.type = "COMPRESSED" ->
         DecodeTokens(body.bytes, 0, Between, out, limit, FrameOf(log, VvMinMatch(FALSE)))
    [] head.type = "ENTROPY" -> ReadCoded(body, out, limit, log)
Exactly(limit, read) == IF read.rc = "OK" /\ Len(read.out) # limit THEN Error("CORRUPT") ELSE read
ReadBody(head, body, out, log) ==
  Exactly(Len(out) + head.size, ReadUpTo(Len(out) + head.size, head, body, out, log))

-----------------------------------------------------------------------------
(* The sum is that of the bytes it was made of; only the same bytes have it *)
Footer(bytes) == [at |-> "footer", of |-> bytes]

\* vv_decompress_flags: frame after frame, and within one block after block.
\* Each frame is a sequence on its own: no match reaches into the one before.
BadHeader(u) == u.log \notin WindowLogs \/ Cardinality(u.filters) > 1
Undone(out, header) ==
  IF header.filters = {} THEN out ELSE Filter(out, CHOOSE f \in header.filters : TRUE, FALSE)

\* What is known behind a unit: the whole frames so far, and of the one that is
\* read its header, its output and what must come next.
Begun == [rc |-> "OK", next |-> "header", frames |-> << >>, header |-> [filters |-> {}], head |-> [size |-> 0], out |-> << >>]
Stopped(d, rc) == [d EXCEPT !.rc = rc]
EndsFrame(d, out) == [d EXCEPT !.next = "header", !.frames = @ \o Undone(out, d.header), !.out = << >>]
EndsBlock(d, head, read) ==
  IF read.rc # "OK" THEN Stopped(d, read.rc)
  ELSE IF head.last /\ ~d.header.sum THEN EndsFrame(d, read.out)
  ELSE [d EXCEPT !.next = IF head.last THEN "footer" ELSE "block", !.out = read.out]

TakesHead(d, u, room) ==
  IF u.size > VvBlock \/ u.size > room - Len(d.frames) - Len(d.out) THEN Stopped(d, "OVERFLOW")
  ELSE IF u.type = "RAW" /\ u.size = 0 THEN EndsBlock(d, u, Wrote(d.out))
  ELSE [d EXCEPT !.next = "body", !.head = u]

ReadUnit(d, u, room, sums) ==
  IF d.rc # "OK" THEN d
  ELSE IF u.at # d.next \/ (u.at = "header" /\ BadHeader(u)) THEN Stopped(d, "CORRUPT")
  ELSE CASE u.at = "header" -> [d EXCEPT !.next = "block", !.header = u]
         [] u.at = "block" -> TakesHead(d, u, room)
         [] u.at = "body" -> EndsBlock(d, d.head, ReadBody(d.head, u, d.out, d.header.log))
         [] u.at = "footer" -> IF sums /\ u.of # d.out THEN Stopped(d, "CORRUPT") ELSE EndsFrame(d, d.out)

Answer(d) == IF d.rc # "OK" THEN Error(d.rc) ELSE IF d.next # "header" THEN Error("CORRUPT") ELSE Wrote(d.frames)
Decompress(wire, room, sums) ==
  IF wire = << >> THEN Error("CORRUPT")
  ELSE Answer(FoldLeft(LAMBDA d, u : ReadUnit(d, u, room, sums), Begun, wire))
=============================================================================
