------------------------------ MODULE LzhCodec ------------------------------
(***************************************************************************)
(* Zupt-LZH (zupt_lzh.c): zero runs taken out first where that pays, LZ77   *)
(* with looks ahead, two prefix codes whose lengths travel run-length       *)
(* coded, and the bits.  A block is a record with the fields of the stream; *)
(* the symbols 0 .. Byte - 1 are literals, Byte ends the block and the      *)
(* numbers above it are the length codes.                                   *)
(***************************************************************************)
EXTENDS LzCodec, PrefixCodes

CONSTANTS
  FieldBytes,     \* 2: bytes of the counts in the header
  LenBase,        \* LEN_BASE, LEN_EXTRA, DIST_BASE and DIST_EXTRA
  LenExtra, DistBase, DistExtra,
  LzhConfig(_),   \* lzh_config: window, chain, lazy and min of a level
  LzhGood,        \* 512: long enough in the second quarter of a chain
  RepeatMost,     \* 6, 11 and 138: the runs of code lengths 16, 17 and 18
  ZeroLong, ZeroMost

ASSUME LzhAssumption ==
  /\ Byte = 2^ByteBits
  /\ Len(LenBase) = Len(LenExtra) /\ Len(DistBase) = Len(DistExtra)

EndOfBlock == Byte
LitCodes == Byte + 1 + Len(LenBase)
LzhMaxMatch == LenBase[Len(LenBase)] + 2^LenExtra[Len(LenExtra)] - 1

-----------------------------------------------------------------------------
(* Zero runs: a zero and how many, where the count 0 says one *)

ZerosFrom(src, ip) ==
  LET run[n \in 0 .. Len(src) - ip] ==
        IF ip + n < Len(src) /\ n < MaxOffset /\ src[ip + n + 1] = 0 THEN run[n + 1] ELSE n
  IN run[0]

Run(n) ==
  IF n = 1 THEN << 0, 0 >>
  ELSE FlattenSeq([k \in 1 .. (n + Byte - 2) \div (Byte - 1) |->
                     << 0, Smaller(n - (k - 1) * (Byte - 1), Byte - 1) >>])

RECURSIVE RlePairs(_, _)
RlePairs(src, ip) ==
  IF ip >= Len(src) THEN << >>
  ELSE IF src[ip + 1] = 0
       THEN Run(ZerosFrom(src, ip)) \o RlePairs(src, ip + ZerosFrom(src, ip))
  ELSE << src[ip + 1] >> \o RlePairs(src, ip + 1)

\* rle_encode: nothing when it is no smaller.
RleEncode(src) == IF Len(RlePairs(src, 0)) < Len(src) THEN RlePairs(src, 0) ELSE << >>

RECURSIVE RleFrom(_, _, _, _)
RleFrom(src, ip, out, room) ==
  LET paired == src[ip + 1] = 0 /\ ip + 1 < Len(src)
      zeros == IF src[ip + 2] = 0 THEN 1 ELSE src[ip + 2]
  IN IF ip >= Len(src) \/ Len(out) >= room THEN out
     ELSE IF ~paired THEN RleFrom(src, ip + 1, Append(out, src[ip + 1]), room)
     ELSE IF Len(out) + zeros > room THEN << >>
     ELSE RleFrom(src, ip + 2, out \o [k \in 1 .. zeros |-> 0], room)
RleDecode(src, room) == RleFrom(src, 0, << >>, room)

\* Worth it: more than an eighth zeros, and a tenth saved.
TakesRle(src) ==
  LET zeros == Len(SelectSeq(src, LAMBDA b : b = 0))
      size == Len(RleEncode(src))
  IN zeros > Len(src) \div 8 /\ size > 0 /\ size < (Len(src) * 9) \div 10

-----------------------------------------------------------------------------
(* Matches: a literal is a symbol of no length *)

LzhFind(table, src, ip, cfg) ==
  LET cands == Candidates(table, cfg.window, ip, table.head[HashAt(src, ip)], cfg.chain)
      longer(best, k) ==
        LET n == Common(src, cands[k], ip, LzhMaxMatch)
        IN IF best.done \/ n <= best.len THEN best
           ELSE [len |-> n, off |-> ip - cands[k],
                 done |-> n >= LzhMaxMatch \/ (n >= LzhGood /\ k - 1 > cfg.chain \div 4)]
      best == FoldLeft(longer, [len |-> cfg.min - 1, off |-> 0, done |-> FALSE],
                       [k \in 1 .. Len(cands) |-> k])
  IN IF ip + HashLen > Len(src) \/ best.off = 0 THEN NoMatch ELSE [len |-> best.len, off |-> best.off]

Literal(byte) == [byte |-> byte, len |-> 0, off |-> 0]

\* A match gives way to that of the next position as long as this one is longer
\* by more than one, up to three positions on.
RECURSIVE LzhParse(_, _, _, _), LookAhead(_, _, _, _, _, _), LzhTake(_, _, _, _, _)
LzhParse(table, src, cfg, ip) ==
  LET first == LzhFind(table, src, ip, cfg)
  IN IF ip >= Len(src) THEN << >>
     ELSE IF first.len > 0 THEN LookAhead(table, src, cfg, ip, first, 1)
     ELSE << Literal(src[ip + 1]) >> \o LzhParse(Insert(table, cfg.window, src, ip), src, cfg, ip + 1)

LookAhead(table, src, cfg, ip, match, step) ==
  LET seen == Insert(table, cfg.window, src, ip)
      next == LzhFind(seen, src, ip + 1, cfg)
  IN IF step > Smaller(cfg.lazy, 3) \/ ip + 1 >= Len(src) THEN LzhTake(table, src, cfg, ip, match)
     ELSE IF next.len <= match.len + 1 THEN LzhTake(seen, src, cfg, ip, match)
     ELSE << Literal(src[ip + 1]) >> \o LookAhead(seen, src, cfg, ip + 1, next, step + 1)

LzhTake(table, src, cfg, ip, match) ==
  LET entered == IF cfg.lazy < 1 THEN Insert(table, cfg.window, src, ip) ELSE table
  IN << [byte |-> 0, len |-> match.len, off |-> match.off] >>
     \o LzhParse(InsertAll(entered, cfg.window, src, ip + 1, ip + match.len), src, cfg, ip + match.len)

LitLen(s) == IF s.len = 0 THEN s.byte ELSE Byte + CodeFor(LenBase, s.len)
Dist(s) == CodeFor(DistBase, s.off) - 1
-----------------------------------------------------------------------------
(* Code lengths, run-length coded: a length, or one of three runs and how   *)
(* much longer it is than the shortest of its kind.                         *)

Repeat == MaxCodeLen + 1
Zeros == MaxCodeLen + 2
ManyZeros == MaxCodeLen + 3

SameFrom(lens, i, most) ==
  LET run[n \in 0 .. most] == IF n < most /\ i + n <= Len(lens) /\ lens[i + n] = lens[i] THEN run[n + 1] ELSE n
  IN run[0]

RECURSIVE ClFrom(_, _)
ClFrom(lens, i) ==
  LET v == lens[i]
      zeros == SameFrom(lens, i, ZeroMost)
      again == SameFrom(lens, i, RepeatMost + 1) - 1
      plain(n) == [k \in 1 .. n |-> v]
  IN IF i > Len(lens) THEN << >>
     ELSE IF v = 0
          THEN (IF zeros >= ZeroLong THEN << ManyZeros, zeros - ZeroLong >>
                ELSE IF zeros >= 3 THEN << Zeros, zeros - 3 >> ELSE plain(zeros))
               \o ClFrom(lens, i + zeros)
     ELSE << v >> \o (IF again >= 3 THEN << Repeat, again - 3 >> ELSE plain(again))
          \o ClFrom(lens, i + 1 + again)

\* cl_decode: what is left out is 0, what is too much is dropped.
BadLengths == [bad |-> TRUE, lens |-> << >>]
RECURSIVE ClDecodeFrom(_, _, _, _, _)
ClDecodeFrom(in, ip, lens, prev, count) ==
  LET c == in[ip]
      times == (IF c = ManyZeros THEN ZeroLong ELSE 3) + in[ip + 1]
      value == IF c = Repeat THEN prev ELSE 0
      fill == [k \in 1 .. Smaller(times, count - Len(lens)) |-> value]
  IN IF Len(lens) = count \/ ip > Len(in)
     THEN [bad |-> FALSE, lens |-> lens \o [k \in 1 .. count - Len(lens) |-> 0]]
     ELSE IF c <= MaxCodeLen THEN ClDecodeFrom(in, ip + 1, Append(lens, c), c, count)
     ELSE IF c > ManyZeros \/ ip = Len(in) THEN BadLengths
     ELSE ClDecodeFrom(in, ip + 2, lens \o fill, prev, count)

\* Lengths may also come as they are; no writer makes them so.
ReadLens(coded, count, most) ==
  IF ~coded.raw THEN ClDecodeFrom(coded.units, 1, << >>, 0, count)
  ELSE IF Len(coded.units) > most \/ \E i \in DOMAIN coded.units : coded.units[i] > MaxCodeLen THEN BadLengths
  ELSE [bad |-> FALSE,
        lens |-> [i \in 1 .. count |-> IF i \in DOMAIN coded.units THEN coded.units[i] ELSE 0]]

\* Sequences of lengths and the functions on symbols they stand for.
OnSymbols(lens) == [s \in 0 .. Len(lens) - 1 |-> lens[s + 1]]
Coded(lens) == [raw |-> FALSE, units |-> ClFrom([i \in 1 .. Cardinality(DOMAIN lens) |-> lens[i - 1]], 1)]

-----------------------------------------------------------------------------
(* Packing *)

BuiltLengths(freq, memory) ==
  IF memory = "no trees" /\ Cardinality(Used(freq)) > 1 THEN [s \in DOMAIN freq |-> 0]
  ELSE LzhLengths(freq, Depths(freq), memory # "no order")

HowMany(syms, test(_)) == Len(SelectSeq(syms, test))
LitFreq(syms) ==
  LET of(s) == HowMany(syms, LAMBDA x : LitLen(x) = s) + (IF s = EndOfBlock THEN 1 ELSE 0)
  IN [s \in 0 .. Max({EndOfBlock} \cup {LitLen(syms[k]) : k \in DOMAIN syms}) |-> of(s)]
DistFreq(syms) ==
  LET matches == SelectSeq(syms, LAMBDA x : x.len > 0)
  IN [d \in 0 .. Max({0} \cup {Dist(matches[k]) : k \in DOMAIN matches}) |->
        HowMany(matches, LAMBDA x : Dist(x) = d)]

\* The block ends with its symbol even when no tree could be built.
WithEnd(lens) == [lens EXCEPT ![EndOfBlock] = IF @ = 0 THEN 1 ELSE @]

\* A symbol without a code is left out.
CodeBits(codes, s) == IF s \in DOMAIN codes THEN codes[s] ELSE << >>
SymbolBits(x, lit, dist) ==
  LET l == CodeFor(LenBase, x.len)
      d == CodeFor(DistBase, x.off)
  IN CodeBits(lit, LitLen(x))
     \o IF x.len = 0 THEN << >>
        ELSE Bits(x.len - LenBase[l], LenExtra[l]) \o CodeBits(dist, Dist(x))
             \o Bits(x.off - DistBase[d], DistExtra[d])

HeaderSize(block) ==
  1 + (IF block.rle THEN 2 * FieldBytes ELSE 0) + 4 * FieldBytes + Len(block.lit.units) + Len(block.dist.units)
LzhSize(block) == HeaderSize(block) + BytesFor(block.bits)

CodedBits(syms, lit, dist) ==
  FlattenSeq([k \in DOMAIN syms |-> SymbolBits(syms[k], lit, dist)]) \o CodeBits(lit, EndOfBlock)
CodedBlock(rle, size, syms, litLens, distLens) ==
  [rle |-> rle, size |-> size,
   litCount |-> Cardinality(DOMAIN litLens), distCount |-> Cardinality(DOMAIN distLens),
   lit |-> Coded(litLens), dist |-> Coded(distLens),
   bits |-> CodedBits(syms, Codes(litLens), Codes(distLens))]
LzhSymbols(src, cfg) == LzhParse(EmptyTable(cfg.window), src, cfg, 0)
LzhBlocks(src, level, memory) ==
  {CodedBlock(TakesRle(src), Len(src), syms,
              WithEnd(BuiltLengths(LitFreq(syms), memory)), BuiltLengths(DistFreq(syms), memory)) :
     syms \in {LzhSymbols(IF TakesRle(src) THEN RleEncode(src) ELSE src, LzhConfig(Level(level)))}}

\* zupt_lzh_compress: bits that find no room are dropped, and a block that is
\* not smaller is none.
NoBlock == [rle |-> FALSE, size |-> 0, litCount |-> 0, distCount |-> 0,
            lit |-> Coded(<< >>), dist |-> Coded(<< >>), bits |-> << >>]
Cut(block, room) == [block EXCEPT !.bits = SubSeq(@, 1, Smaller(room, Len(@)))]
IfLess(put) == IF LzhSize(put) < put.size THEN put ELSE NoBlock
PutInto(block, room) == IF block.size = 0 \/ room < 0 THEN NoBlock ELSE IfLess(Cut(block, room))
LzhCompress(src, capacity, level, memory) ==
  {PutInto(block, ByteBits * (capacity - HeaderSize(block))) : block \in LzhBlocks(src, level, memory)}

-----------------------------------------------------------------------------
(* Unpacking: what cannot be decoded ends the block, and the caller sees by *)
(* the length that it is not whole.                                         *)

RECURSIVE LzhDecode(_, _, _, _, _, _)
LzhDecode(lit, dist, bits, at, out, room) ==
  LET s == LzhSymbol(lit, bits, at)
      litEnd == at + Len(lit[s])
      l == s - Byte
      len == LenBase[l] + Number(bits, litEnd, LenExtra[l])
      lenEnd == litEnd + LenExtra[l]
      d == LzhSymbol(dist, bits, lenEnd)
      distEnd == lenEnd + Len(dist[d])
      off == DistBase[d + 1] + Number(bits, distEnd, DistExtra[d + 1])
  IN IF s \in {None, EndOfBlock} THEN out
     ELSE IF s < Byte
          THEN (IF Len(out) >= room THEN out
                ELSE LzhDecode(lit, dist, bits, litEnd, Append(out, s), room))
     ELSE IF d = None THEN out
     ELSE IF BadOffset(out, off) \/ Len(out) + len > room THEN out
     ELSE LzhDecode(lit, dist, bits, distEnd + DistExtra[d + 1], CopyMatch(out, off, len), room)

LzhDecompress(block, room) ==
  LET lit == ReadLens(block.lit, block.litCount, LitCodes)
      dist == ReadLens(block.dist, block.distCount, Len(DistBase))
      out == LzhDecode(Codes(OnSymbols(lit.lens)), Codes(OnSymbols(dist.lens)), block.bits, 0, << >>, room)
  IN IF block.litCount > LitCodes \/ block.distCount > Len(DistBase) \/ lit.bad \/ dist.bad THEN << >>
     ELSE IF block.rle THEN RleDecode(out, room) ELSE out
=============================================================================
