----------------------------- MODULE VvHuffman ------------------------------
(***************************************************************************)
(* The literal coder of VaptVupt (vv_huffman.c): one prefix code for all    *)
(* literals, in one bit stream or, for many, in four that take turns.  A    *)
(* coded section is a record of its code lengths and its streams, each      *)
(* filled up to whole bytes.                                                *)
(***************************************************************************)
EXTENDS PrefixCodes

CONSTANTS
  FourLiterals,  \* VVH4_MIN_LITERALS: 1024 literals take four streams
  FourRoom,      \* 200: and that much room
  FourHeader     \* VVH4_STREAM_HDR_SZ: bytes of three stream sizes

ASSUME HuffmanAssumption == {FourLiterals, FourRoom, FourHeader} \subseteq Nat

VvSymbols == 0 .. 2^ByteBits - 1

NoSection == [lens |-> << >>, streams |-> << >>]
VvhHeader(lens) == 1 + (Max({0} \cup Used(lens)) + 2) \div 2
VvhSize(section) ==
  VvhHeader(section.lens) + (IF Len(section.streams) = 1 THEN 0 ELSE FourHeader)
  + FoldLeft(LAMBDA n, stream : n + BytesFor(stream), 0, section.streams)

\* build_code_lengths: without memory for a tree no symbol has a code.
VvhLengths(src, memory) ==
  LET freq == [s \in VvSymbols |-> Len(SelectSeq(src, LAMBDA x : x = s))]
      used == Cardinality(Used(freq))
  IN IF memory = "no trees" /\ used > 2 THEN [s \in VvSymbols |-> 0]
     ELSE VvLengths(Depths(freq))

\* One stream with the literals of every turn.
Stream(codes, mine) ==
  Filled(FlattenSeq([k \in DOMAIN mine |-> IF mine[k] \in DOMAIN codes THEN codes[mine[k]] ELSE << >>]))

\* A section that is not smaller than its literals, or finds no room, is none.
Section(src, lens, turns, capacity) ==
  LET section == [lens |-> lens, streams |-> [s \in 1 .. turns |-> Stream(Codes(lens), Lane(src, s, turns))]]
  IN IF VvhSize(section) >= Len(src) \/ VvhSize(section) > capacity THEN NoSection ELSE section

\* vvh_encode leaves the bits of a symbol without a code out; vvh_encode4 fails.
VvhEncode(src, capacity, memory) == Section(src, VvhLengths(src, memory), 1, capacity)
VvhEncode4(src, capacity, memory) ==
  LET lens == VvhLengths(src, memory)
  IN IF Len(src) < FourLiterals \/ capacity < FourRoom \/ Used(lens) = {} THEN NoSection
     ELSE Section(src, lens, 4, capacity)

-----------------------------------------------------------------------------
(* Reading a number of literals: fewer than that stand for an error.        *)

RECURSIVE FromStream(_, _, _, _)
FromStream(codes, bits, at, n) ==
  LET s == VvSymbol(codes, bits, at)
  IN IF n = 0 \/ s = None THEN << >>
     ELSE << s >> \o FromStream(codes, bits, at + Len(codes[s]), n - 1)

VvhDecode(section, n, capacity) ==
  LET codes == Codes(section.lens)
      turns == Len(section.streams)
      mine == [s \in 1 .. turns |-> FromStream(codes, section.streams[s], 0, InLane(n, s, turns))]
      whole == \A s \in 1 .. turns : Len(mine[s]) = InLane(n, s, turns)
      empty == turns = 4 /\ n >= 4 /\ << >> \in Range(section.streams)
  IN IF n > capacity \/ Used(section.lens) = {} \/ empty \/ ~whole THEN << >>
     ELSE Woven(mine, n)
=============================================================================
