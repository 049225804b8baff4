--------------------------- MODULE BranchFilters ----------------------------
(***************************************************************************)
(* The branch filters of VaptVupt (vv_bcj.c): before machine code is        *)
(* compressed, the distances of its jumps are replaced by their targets,    *)
(* and after it is unpacked the other way round.  Neither side knows where  *)
(* the instructions begin: both must see the same ones in bytes that the    *)
(* filter itself has changed.                                               *)
(***************************************************************************)
EXTENDS BitStreams

CONSTANTS
  Jumps,     \* 0xE8 and 0xE9: bytes that begin a jump or a call of x86
  Calls,     \* 0x94 .. 0x97: last bytes of an AArch64 word that is a call ...
  Pages,     \* ... or names a page
  PageWords  \* 1024: words of a page

Values == 2^ByteBits
ASSUME FilterAssumption ==
  Jumps \subseteq 1 .. Values - 2 /\ (Calls \cup Pages) \subseteq 0 .. Values - 1 /\ Calls \cap Pages = {}
  /\ PageWords \in Nat \ {0}

Word(data, from, n) == MapThenSumSet(LAMBDA k : data[from + k] * Values^(k - 1), 1 .. n)
Put(data, from, n, v) ==
  [k \in DOMAIN data |-> IF k \in from + 1 .. from + n THEN (v \div Values^(k - from - 1)) % Values ELSE data[k]]
Shifted(v, by, n, forward) == (IF forward THEN v + by ELSE v - by) % Values^n

-----------------------------------------------------------------------------
(* x86: a jump of four bytes whose last one only extends the sign.  The     *)
(* mask says which of the last three bytes looked like a jump and were not  *)
(* taken for one.                                                           *)

Sign(b) == b \in {0, Values - 1}

\* The distance again, when the first sum looks like one that has been changed.
Converted(v, cur, mask, forward) ==
  LET sum == Shifted(v, cur, 4, forward)
      low == Values^(1 + ((mask \div 2) % 4))
      flipped == (sum - 2 * (sum % low)) + low - 1
  IN IF mask # 0 /\ Sign(((sum * Values) \div low) % Values)
     THEN Shifted(flipped, cur, 4, forward) ELSE sum

SignExtended(v) == (v % Values^3) + (IF (v \div Values^3) % 2 = 1 THEN (Values - 1) * Values^3 ELSE 0)

RECURSIVE X86(_, _, _, _)
X86(data, pos, mask, forward) ==
  LET jumps == {p \in pos .. Len(data) - 5 : data[p + 1] \in Jumps}
      p == Min(jumps)
      seen == IF p - pos > 2 THEN 0 ELSE mask \div 2^(p - pos)
      doubtful == seen # 0 /\ (seen > 4 \/ seen = 3 \/ Sign(data[p + seen \div 2 + 2]))
      v == Converted(Word(data, p + 1, 4), p + 5, seen, forward)
  IN IF jumps = {} THEN data
     ELSE IF doubtful \/ ~Sign(data[p + 5]) THEN X86(data, p + 1, seen \div 2 + 4, forward)
     ELSE X86(Put(data, p + 1, 4, SignExtended(v)), p + 5, 0, forward)

-----------------------------------------------------------------------------
(* AArch64: whole words, of which only the distance changes.  Here it is    *)
(* all but the last byte; that it has bits of that byte too, and a register *)
(* bits of the first, is left out.                                          *)

Arm64(data, forward) ==
  LET changed(at) ==
        LET top == data[4 * at + 4]
            by == IF top \in Calls THEN at ELSE IF top \in Pages THEN at \div PageWords ELSE 0
        IN Shifted(Word(data, 4 * at, 3), by, 3, forward)
      byte(k) == (changed(k \div 4) \div Values^(k % 4)) % Values
  IN [k \in DOMAIN data |-> IF k % 4 = 0 \/ k > 4 * (Len(data) \div 4) THEN data[k] ELSE byte(k - 1)]

Filters == {"none", "x86", "arm64"}
Filter(data, filter, forward) ==
  IF filter = "x86" THEN X86(data, 0, 0, forward) ELSE IF filter = "arm64" THEN Arm64(data, forward) ELSE data
=============================================================================
