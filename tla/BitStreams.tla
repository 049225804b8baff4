----------------------------- MODULE BitStreams -----------------------------
(***************************************************************************)
(* Streams of bits, first to last, as the coders write and read them, and   *)
(* what the coders ask memory for.                                          *)
(***************************************************************************)
EXTENDS Integers, FiniteSets, FiniteSetsExt, SequencesExt

CONSTANT ByteBits  \* 8

ASSUME ByteAssumption == ByteBits \in Nat \ {0}

\* A number in n bits, the lowest first; bits that are not there are zeros.
Bits(value, n) == [k \in 1 .. n |-> (value \div 2^(k - 1)) % 2]
BytesFor(bits) == (Len(bits) + ByteBits - 1) \div ByteBits
BitAt(bits, p) == IF p \in DOMAIN bits THEN bits[p] ELSE 0
Number(bits, at, n) == MapThenSumSet(LAMBDA k : BitAt(bits, at + k) * 2^(k - 1), 1 .. n)

\* Filled up to whole bytes, as a reader finds it.
Filled(bits) == bits \o [k \in 1 .. ByteBits * BytesFor(bits) - Len(bits) |-> 0]

\* A number as a code and its distance from the code's base: the last code
\* whose base is not above the number.
CodeFor(base, value) == Max({1} \cup {i \in DOMAIN base : base[i] <= value})

\* Literals in turns: those of one lane, and all from those of the lanes.
Lane(src, lane, lanes) == [k \in 1 .. (Len(src) - lane + lanes) \div lanes |-> src[(k - 1) * lanes + lane]]
InLane(n, lane, lanes) == (n - lane + lanes) \div lanes
Woven(parts, n) == [k \in 1 .. n |-> parts[((k - 1) % Len(parts)) + 1][((k - 1) \div Len(parts)) + 1]]

\* What memory there is when codes are built: all that is asked for, none for
\* the trees, or none for the list that reorders the lengths.
Memories == {"all", "no trees", "no order"}

=============================================================================
