----------------------------- MODULE VvSequences ----------------------------
(***************************************************************************)
(* The sequences of VaptVupt (vv_ans.c): the literals of a block in one of  *)
(* five forms, and its run lengths, offsets and match lengths as codes with *)
(* extra bits.  The three kinds of codes have tables and states of their    *)
(* own and share one stream of bits.  Nothing on the wire says which        *)
(* sequence has a match: the first ones have.                               *)
(***************************************************************************)
EXTENDS VvTokens, VvHuffman, VvAns

CONSTANTS
  RunBase, RunExtra,  \* ll_base and ll_extra
  LenStep, MatchExtra,\* ml_base_v2 less its first entry, and ml_extra
  OffsetCodes         \* VVA_OF_CODES: 27, three of them for repeated offsets

Top(base, extra) == base[Len(base)] + 2^extra[Len(extra)] - 1

\* Each code goes on where the one before ends.
Tiles(base, extra) == base[1] = 0 /\ \A c \in 1 .. Len(base) - 1 : base[c + 1] = base[c] + 2^extra[c]

ASSUME SequenceAssumption ==
  /\ Byte = 2^ByteBits
  /\ Len(RunBase) = Len(RunExtra) /\ Tiles(RunBase, RunExtra)
  /\ Len(LenStep) = Len(MatchExtra) /\ Tiles(LenStep, MatchExtra)
  /\ OffsetCodes \in Nat /\ OffsetCodes > 3

RunMost == Top(RunBase, RunExtra)                          \* LL_MAX: 65535
VvMaxMatch(v2) == VvMinMatch(v2) + Top(LenStep, MatchExtra) \* 65535, less one in the second format

-----------------------------------------------------------------------------
(* Codes: a number, and how many bits of it follow.                         *)

RunCode(n) == LET c == CodeFor(RunBase, n) IN [code |-> c - 1, extra |-> Bits(n - RunBase[c], RunExtra[c])]
LenCode(len, least) ==
  LET c == CodeFor(LenStep, len - least)
  IN [code |-> c - 1, extra |-> Bits(len - least - LenStep[c], MatchExtra[c])]

\* An offset among the last three that differ is named by its place.
OffsetCode(last, off) ==
  LET places == {k \in 1 .. 3 : last[k] = off}
      c == Max({k \in 0 .. OffsetCodes - 4 : 2^k <= off})
  IN IF places # {} THEN [code |-> Min(places) - 1, extra |-> << >>]
     ELSE [code |-> c + 3, extra |-> Bits(off - 2^c, c)]
Recent(last, off) == IF off = last[1] THEN last ELSE << off, last[1], last[2] >>

-----------------------------------------------------------------------------
(* parse_sequences: a run too long for a code is cut into pieces, which may *)
(* not be done before a match.                                              *)

\* Seeded fault: a run that was cut before a match is coded all the same.
NeverTooLate(seqs) == seqs = << >>

CutTooLate(seqs) == \E k \in 1 .. Len(seqs) - 1 : Len(seqs[k].lits) > RunMost

Pieces(n) ==
  LET full == IF n = 0 THEN 0 ELSE (n - 1) \div RunMost
  IN [k \in 1 .. full |-> RunMost] \o << n - full * RunMost >>

Runs(seqs) == FlattenSeq([k \in DOMAIN seqs |-> Pieces(Len(seqs[k].lits))])

-----------------------------------------------------------------------------
(* Literals: the smaller coded form of those tried.  Beyond a size not all  *)
(* are tried, by estimates that are left open, but never a larger one than  *)
(* the literals.                                                            *)

LitForms == {"raw", "ans4", "ans1", "huf", "huf4"}
LitSection(src, form, memory) ==
  [form |-> form,
   coded |-> CASE form = "raw" -> src
               [] form = "ans4" -> AnsEncode(src, 4, Len(src))
               [] form = "ans1" -> AnsEncode(src, 1, Len(src))
               [] form = "huf" -> VvhEncode(src, Len(src), memory)
               [] form = "huf4" -> VvhEncode4(src, Len(src), memory)]
Encoded(section) == section.form = "raw" \/ section.coded \notin {NoAns, NoSection}
LitChoices(src, allowed, memory) ==
  {section \in {LitSection(src, form, memory) : form \in allowed} : Encoded(section)}

ReadLiterals(section, n) ==
  CASE section.form = "raw" -> SubSeq(section.coded, 1, n)
    [] section.form \in {"ans4", "ans1"} -> AnsDecode(section.coded, n, n)
    [] section.form \in {"huf", "huf4"} -> VvhDecode(section.coded, n, n)

-----------------------------------------------------------------------------
(* Writing.  An item is a code of one kind and its extra bits.              *)

Kinds == {"run", "off", "len"}
KindCodes(kind) == 0 .. (CASE kind = "run" -> Len(RunBase) [] kind = "off" -> OffsetCodes [] kind = "len" -> Len(LenStep)) - 1
Item(kind, coded) == [kind |-> kind, code |-> coded.code, extra |-> coded.extra]

\* A reader finds the run of a sequence first, then the offset and the length.
Items(seqs, least) ==
  LET runs == Runs(seqs)
      matches == SelectSeq(seqs, LAMBDA s : s.len > 0)
      last[k \in 0 .. Len(matches)] == IF k = 0 THEN << 0, 0, 0 >> ELSE Recent(last[k - 1], matches[k].off)
      match(k) == << Item("off", OffsetCode(last[k - 1], matches[k].off)),
                     Item("len", LenCode(matches[k].len, least)) >>
  IN FlattenSeq([k \in DOMAIN runs |->
       << Item("run", RunCode(runs[k])) >> \o IF k > Len(matches) THEN << >> ELSE match(k)])

ItemCounts(items, kind) ==
  LET count(f, i) == IF i.kind = kind THEN [f EXCEPT ![i.code] = @ + 1] ELSE f
      raw == FoldLeft(count, [c \in KindCodes(kind) |-> 0], items)
  IN IF Total(raw) = 0 THEN raw ELSE Normalised(raw)

\* A table is only made of counts that fill it; the others are not consulted.
Coder(norm) == [norm |-> norm, table |-> IF ValidCounts(norm) THEN DecodeTable(norm) ELSE << >>]

\* All items back to front, with what each kind is coded in.
PutItem(i, acc) ==
  LET coder == acc.coders[i.kind]
      e == EncSym(coder.norm, coder.table, acc.states[i.kind], i.code)
  IN [acc EXCEPT !.states[i.kind] = e.state, !.bits = e.bits \o i.extra \o @]
WrittenItems(items) ==
  FoldRight(PutItem, items,
            [coders |-> [kind \in Kinds |-> Coder(ItemCounts(items, kind))],
             states |-> [kind \in Kinds |-> 0], bits |-> << >>])

\* vva_encode_sequences_impl; what the bits and the headers come to is not counted.
NoSequences == [lits |-> 0]
EncodeSequences(seqs, least, section) ==
  LET out == WrittenItems(Items(seqs, least))
  IN IF seqs = << >> \/ CutTooLate(seqs) THEN NoSequences
     ELSE [lits |-> Len(AllLiterals(seqs)), section |-> section,
           matches |-> Len(SelectSeq(seqs, LAMBDA s : s.len > 0)),
           norm |-> [kind \in Kinds |-> out.coders[kind].norm],
           states |-> out.states, bits |-> Filled(out.bits)]

-----------------------------------------------------------------------------
(* Reading *)

\* What is read before the sequences, checked once: literals and matches there
\* is room for, counts that fill the tables and name no code beyond them.
BadSequences(block, lits, room) ==
  \/ block.lits > room \/ block.matches > room \/ Len(lits) < block.lits
  \/ \E kind \in Kinds : \E c \in Occurring(block.norm[kind]) : c \notin KindCodes(kind)
  \/ block.lits + block.matches > 0 /\ ~ValidCounts(block.norm["run"])
  \/ block.matches > 0 /\ ~(ValidCounts(block.norm["off"]) /\ ValidCounts(block.norm["len"]))

\* A code, the state it leads to and where its extra bits begin.
Decoded(tables, r, kind, bits) ==
  LET e == At(tables[kind], r.states[kind] % TableSize)
  IN [code |-> e.symbol, at |-> r.at + e.bits,
      states |-> [r.states EXCEPT ![kind] = e.base + Number(bits, r.at, e.bits)]]

\* What a code is taken for: literals to copy, an offset, or a match.
TakesRun(r, c, block, lits, limit) ==
  LET n == RunBase[c.code + 1] + Number(block.bits, c.at, RunExtra[c.code + 1])
  IN IF r.lit + n > block.lits THEN [r EXCEPT !.rc = "CORRUPT"]
     ELSE IF Len(r.out) + n > limit THEN [r EXCEPT !.rc = "OVERFLOW"]
     ELSE [r EXCEPT !.turn = @ + 1, !.states = c.states, !.at = c.at + RunExtra[c.code + 1],
                    !.kind = IF r.matches < block.matches THEN "off" ELSE "run",
                    !.lit = @ + n, !.out = @ \o SubSeq(lits, r.lit + 1, r.lit + n)]

TakesOffset(r, c, bits) ==
  LET off == IF c.code < 3 THEN r.last[c.code + 1] ELSE 2^(c.code - 3) + Number(bits, c.at, c.code - 3)
  IN [r EXCEPT !.states = c.states, !.at = IF c.code < 3 THEN c.at ELSE c.at + c.code - 3,
               !.kind = "len", !.off = off, !.last = IF off = 0 THEN @ ELSE Recent(@, off)]

TakesMatch(r, c, bits, limit, frame) ==
  LET len == frame.least + LenStep[c.code + 1] + Number(bits, c.at, MatchExtra[c.code + 1])
      match == Matched(r.out, limit, r.off, len, frame.maxOffset)
  IN [r EXCEPT !.states = c.states, !.at = c.at + MatchExtra[c.code + 1],
               !.kind = "run", !.matches = @ + 1, !.rc = match.rc, !.out = match.out]

Takes(r, c, block, lits, limit, frame) ==
  CASE r.kind = "run" -> TakesRun(r, c, block, lits, limit)
    [] r.kind = "off" -> TakesOffset(r, c, block.bits)
    [] r.kind = "len" -> TakesMatch(r, c, block.bits, limit, frame)

\* Code after code; whether there is another sequence is asked before its run.
RECURSIVE ReadSequences(_, _, _, _, _, _)
ReadSequences(block, tables, lits, r, limit, frame) ==
  IF r.rc # "OK" THEN Error(r.rc)
  ELSE IF r.kind = "run" /\ r.lit >= block.lits /\ r.matches >= block.matches THEN Wrote(r.out)
  ELSE IF r.kind = "run" /\ r.turn > block.lits + block.matches + 16 THEN Error("CORRUPT")
  ELSE LET c == Decoded(tables, r, r.kind, block.bits)
       IN ReadSequences(block, tables, lits, Takes(r, c, block, lits, limit, frame), limit, frame)

\* vva_decode_sequences_impl behind the output "out" of the frame.
DecodeSequences(block, out, limit, frame) ==
  LET lits == ReadLiterals(block.section, block.lits)
      start == [kind |-> "run", turn |-> 1, rc |-> "OK", states |-> block.states, at |-> 0,
                lit |-> 0, matches |-> 0, off |-> 0, last |-> << 0, 0, 0 >>, out |-> out]
  IN IF BadSequences(block, lits, limit - Len(out)) THEN Error("CORRUPT")
     ELSE ReadSequences(block, [kind \in Kinds |-> Coder(block.norm[kind]).table], lits, start, limit, frame)
=============================================================================
