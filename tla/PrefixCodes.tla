---------------------------- MODULE PrefixCodes -----------------------------
(***************************************************************************)
(* Canonical prefix codes, as zupt_lzh.c and vv_huffman.c build them: code  *)
(* lengths from frequencies, the lengths cut down to the longest a table    *)
(* takes, the codes the lengths stand for, and the symbol a reader finds.   *)
(* Lengths are a function on the symbols, which are numbers from 0; a       *)
(* symbol that is not used has length 0. *)
(***************************************************************************)
EXTENDS BitStreams

CONSTANTS
  MaxCodeLen,  \* 15: LZH_MAX_CODELEN and VVH_MAX_CODE_LEN
  FastBits     \* 12: VVH_DECODE_BITS, the longest code the table of vv_huffman finds

ASSUME CodeAssumption == {MaxCodeLen, FastBits} \subseteq Nat \ {0} /\ FastBits <= MaxCodeLen

Counts(lens) == [b \in 1 .. MaxCodeLen |-> Cardinality({s \in DOMAIN lens : lens[s] = b})]
KraftOf(counts) == MapThenSumSet(LAMBDA b : counts[b] * 2^(MaxCodeLen - b), 1 .. MaxCodeLen)
Full == 2^MaxCodeLen

-----------------------------------------------------------------------------
(* Lengths.  A node is a tree with its frequency and the depth of each of   *)
(* its symbols; the two rarest nodes become one.  Which of equals is taken  *)
(* first is left to the heap of the one and the queues of the other.        *)

Used(freq) == {s \in DOMAIN freq : freq[s] > 0}
Leaf(freq, s) == [freq |-> freq[s], depth |-> [t \in {s} |-> 0]]
Joined(a, b) ==
  [freq |-> a.freq + b.freq,
   depth |-> [t \in DOMAIN a.depth \cup DOMAIN b.depth |->
                1 + IF t \in DOMAIN a.depth THEN a.depth[t] ELSE b.depth[t]]]
Rarest(nodes) == CHOOSE a \in nodes : \A b \in nodes : a.freq <= b.freq

RECURSIVE Tree(_)
Tree(nodes) ==
  LET a == Rarest(nodes)
      b == Rarest(nodes \ {a})
  IN IF Cardinality(nodes) = 1 THEN a ELSE Tree((nodes \ {a, b}) \cup {Joined(a, b)})

\* A symbol that is alone gets one bit.
Depths(freq) ==
  LET used == Used(freq)
      tree == Tree({Leaf(freq, s) : s \in used})
  IN [s \in DOMAIN freq |-> IF s \notin used THEN 0
                            ELSE IF used = {s} THEN 1 ELSE tree.depth[s]]

Clamped(depth) == [s \in DOMAIN depth |-> IF depth[s] > MaxCodeLen THEN MaxCodeLen ELSE depth[s]]
DeepestBelow(counts) == Max({b \in 1 .. MaxCodeLen - 1 : counts[b] > 0})

\* Lengths by rank: the shortest to the first, as many of each as counted.
Dealt(lens, before(_, _), counts) ==
  LET upTo(b) == MapThenSumSet(LAMBDA c : counts[c], 1 .. b)
      rank(s) == 1 + Cardinality({t \in Used(lens) : before(t, s)})
  IN [s \in DOMAIN lens |-> IF lens[s] = 0 THEN 0
                            ELSE Min({b \in 1 .. MaxCodeLen : rank(s) <= upTo(b)})]

\* huff_build: a code from the deepest level that has one takes one of the
\* longest codes to it, until the sum fits.
RECURSIVE LzhSplit(_)
LzhSplit(counts) ==
  LET b == DeepestBelow(counts)
      split == [counts EXCEPT ![b] = @ - 1]
      grown == [split EXCEPT ![b + 1] = @ + 2]
  IN IF KraftOf(counts) <= Full THEN counts
     ELSE LzhSplit([grown EXCEPT ![MaxCodeLen] = @ - 1])

\* The list for the new order may not be had: then the lengths stay.
LzhLengths(freq, depth, sorts) ==
  LET lens == Clamped(depth)
      before(s, t) == freq[s] > freq[t] \/ (freq[s] = freq[t] /\ s < t)
  IN IF KraftOf(Counts(lens)) <= Full \/ ~sorts THEN lens
     ELSE Dealt(lens, before, LzhSplit(Counts(lens)))

\* build_code_lengths: one code of the deepest level below the longest goes
\* down, until the sum fits.
RECURSIVE VvSink(_)
VvSink(counts) ==
  LET b == DeepestBelow(counts)
      sunk == [counts EXCEPT ![b] = @ - 1]
  IN IF KraftOf(counts) <= Full THEN counts ELSE VvSink([sunk EXCEPT ![b + 1] = @ + 1])

\* Seeded fault: lengths are cut down and nothing makes up for it.
CutDown(depth) == Clamped(depth)

VvLengths(depth) ==
  LET lens == Clamped(depth)
      before(s, t) == lens[s] < lens[t] \/ (lens[s] = lens[t] /\ s < t)
  IN IF \A s \in DOMAIN depth : depth[s] <= MaxCodeLen THEN depth
     ELSE Dealt(lens, before, VvSink(Counts(lens)))

-----------------------------------------------------------------------------
(* Codes *)

\* The first code of each length, counted up from the shorter ones.
FirstCode(lens) ==
  LET counts == Counts(lens)
      first[b \in 1 .. MaxCodeLen] == IF b = 1 THEN 0 ELSE 2 * (first[b - 1] + counts[b - 1])
  IN first

\* Lengths that no tree has may overflow a code: only its last bits are used.
Code(lens, s) ==
  LET code == FirstCode(lens)[lens[s]] + Cardinality({t \in DOMAIN lens : t < s /\ lens[t] = lens[s]})
  IN [k \in 1 .. lens[s] |-> (code \div 2^(lens[s] - k)) % 2]
Codes(lens) == [s \in Used(lens) |-> Code(lens, s)]

Starts(bits, at, code) == \A k \in DOMAIN code : BitAt(bits, at + k) = code[k]

\* huff_lut and huff_dec: of two codes for the same bits the later symbol has
\* overwritten the earlier; nothing keeps a reader from the zeros behind the end.
None == -1
LzhSymbol(codes, bits, at) ==
  LET found == {s \in DOMAIN codes : Starts(bits, at, codes[s])}
  IN IF found = {} THEN None ELSE Max(found)

\* build_dec_table and one turn of vvh_decode: short codes by the table, long
\* ones in the order of the symbols; the bits of a code must be there.
VvSymbol(codes, bits, at) ==
  LET fits(s) == at + Len(codes[s]) <= Len(bits)
      found == {s \in DOMAIN codes : Starts(bits, at, codes[s])}
      fast == {s \in found : Len(codes[s]) <= FastBits}
      slow == {s \in found \ fast : fits(s)}
  IN IF fast # {} THEN (IF fits(Max(fast)) THEN Max(fast) ELSE None)
     ELSE IF slow # {} THEN Min(slow) ELSE None
=============================================================================
