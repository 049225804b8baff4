------------------------------- MODULE VvAns --------------------------------
(***************************************************************************)
(* The tANS coder (vv_ans.c): counts scaled to the size of the table, the   *)
(* symbols spread over its states, what a reader does in a state, and the   *)
(* state a writer came from; then literals in one stream, in four that take *)
(* turns, or with a table for every literal before.  Counts are a function  *)
(* on the symbols, which are numbers from 0.  A coded section has the       *)
(* counts, the first states and the streams; an encoder that fails gives    *)
(* none, and fewer literals than asked for stand for a decoder's error.     *)
(***************************************************************************)
EXTENDS BitStreams

CONSTANTS
  TableLog,   \* ANS_LOG: 12
  SparseMost, \* SPARSE_THRESHOLD: 64 symbols are listed one by one
  LaneHeader,    \* 8 + 16: bytes of four states and four sizes
  StateBytes,    \* 2
  ContextBytes,  \* 32: one bit for each context that has no table of its own
  ContextLeast   \* CTX_MIN_OBS: 16 literals make a table of their own

\* The step over the table must be odd to reach every state.
ASSUME TableAssumption == TableLog \in Nat /\ TableLog >= 4 /\ SparseMost \in Nat
ASSUME LiteralAssumption == {LaneHeader, StateBytes, ContextBytes, ContextLeast} \subseteq Nat

TableSize == 2^TableLog
States == 0 .. TableSize - 1
Step == TableSize \div 2 + TableSize \div 8 + 3
Log2(n) == Max({k \in 0 .. TableLog : 2^k <= n})
Occurring(raw) == {s \in DOMAIN raw : raw[s] > 0}
Total(raw) == MapThenSumSet(LAMBDA s : raw[s], DOMAIN raw)

-----------------------------------------------------------------------------
(* normalize_freq *)

\* The first symbol with the least, or the most, of something.
Least(symbols, of(_)) == CHOOSE s \in symbols : \A t \in symbols : of(s) < of(t) \/ (of(s) = of(t) /\ s <= t)
Most(symbols, of(_)) == Least(symbols, LAMBDA s : -of(s))

\* Too many: those with the smallest rest give one each, and when all that
\* can have done so the one with most gives.
RECURSIVE Reduced(_, _, _, _)
Reduced(norm, rest, fresh, excess) ==
  LET able == {s \in fresh : norm[s] > 1}
      s == IF able # {} THEN Least(able, LAMBDA x : rest[x]) ELSE Most(DOMAIN norm, LAMBDA x : norm[x])
  IN IF excess = 0 THEN norm ELSE Reduced([norm EXCEPT ![s] = @ - 1], rest, fresh \ {s}, excess - 1)

Normalised(raw) ==
  LET total == Total(raw)
      rest == [s \in DOMAIN raw |-> (raw[s] * TableSize) % total]
      share(s) == Max({1, (raw[s] * TableSize) \div total})
      given == [s \in DOMAIN raw |-> IF raw[s] = 0 THEN 0 ELSE share(s)]
      missing == TableSize - Total(given)
      before(t, s) == rest[t] > rest[s] \/ (rest[t] = rest[s] /\ t < s)
      gains(s) == Cardinality({t \in Occurring(raw) : before(t, s)}) < missing
  IN IF Cardinality(Occurring(raw)) = 1
     THEN [s \in DOMAIN raw |-> IF raw[s] > 0 THEN TableSize ELSE 0]
     ELSE IF missing < 0 THEN Reduced(given, rest, Occurring(raw), -missing)
     ELSE [s \in DOMAIN raw |-> given[s] + (IF raw[s] > 0 /\ gains(s) THEN 1 ELSE 0)]

-----------------------------------------------------------------------------
(* The table of a reader: at x + 1 what it does in state x.                 *)

\* spread_symbols: the symbols one after the other, a step apart.
Spread(norm) ==
  LET listed == FlattenSeq([s \in 1 .. Cardinality(DOMAIN norm) |-> [k \in 1 .. norm[s - 1] |-> s - 1]])
  IN [x \in States |-> listed[1 + CHOOSE j \in States : (j * Step) % TableSize = x]]

\* How many states of a symbol take the larger number of bits, and that number.
LowCount(f) == 2^(Log2(f) + 1) - f
MostBits(f) == TableLog - Log2(f)

\* The k-th state of a symbol, counted from 0.
Entry(f, s, k) ==
  IF f = TableSize THEN [symbol |-> s, bits |-> 0, base |-> 0]
  ELSE IF k < LowCount(f) THEN [symbol |-> s, bits |-> MostBits(f), base |-> k * 2^MostBits(f)]
  ELSE [symbol |-> s, bits |-> MostBits(f) - 1,
        base |-> LowCount(f) * 2^MostBits(f) + (k - LowCount(f)) * 2^(MostBits(f) - 1)]

\* build_dec and build_dec_direct
DecodeTable(norm) ==
  LET spread == Spread(norm)
      put(acc, s) == [seen |-> [acc.seen EXCEPT ![s] = @ + 1],
                      table |-> Append(acc.table, Entry(norm[s], s, acc.seen[s]))]
  IN FoldLeft(put, [seen |-> [s \in DOMAIN norm |-> 0], table |-> << >>],
              [x \in 1 .. TableSize |-> spread[x - 1]]).table
At(table, state) == table[state + 1]

\* validated_symbol_count: any other counts would leave states unset.
ValidCounts(norm) == Total(norm) = TableSize

-----------------------------------------------------------------------------
(* The step of a writer: the state a symbol was read in, and the bits that  *)
(* lead from it to the given state.                                         *)

\* build_enc: the states of a symbol in the order of their bases.
Slot(table, s, k) ==
  CHOOSE x \in States :
    /\ At(table, x).symbol = s
    /\ Cardinality({y \in States : At(table, y).symbol = s /\ At(table, y).base < At(table, x).base}) = k

\* enc_sym: which of them leads to the state is computed, not searched.
EncSym(norm, table, state, s) ==
  LET f == norm[s]
      threshold == LowCount(f) * 2^MostBits(f)
      from(slot, bits) == [state |-> slot, bits |-> Bits(state - At(table, slot).base, bits)]
  IN IF f = TableSize THEN [state |-> 0, bits |-> << >>]
     ELSE IF state < threshold THEN from(Slot(table, s, state \div 2^MostBits(f)), MostBits(f))
     ELSE from(Slot(table, s, LowCount(f) + (state - threshold) \div 2^(MostBits(f) - 1)), MostBits(f) - 1)

-----------------------------------------------------------------------------
(* write_hdr_v2: one symbol, a list of pairs, or counts up to the largest.  *)

CountsSize(norm) ==
  LET active == Cardinality(Occurring(norm))
  IN IF active = 1 THEN 2 ELSE IF active <= SparseMost THEN 2 + 3 * active
     ELSE 2 + 2 * (Max(Occurring(norm)) + 1)

-----------------------------------------------------------------------------
(* One stream of symbols: read front to back, so written back to front.     *)

\* The state before the symbols from i on, and their bits.
WrittenFrom(norm, table, syms) ==
  LET put(s, acc) ==
        LET e == EncSym(norm, table, acc.state, s)
        IN [acc EXCEPT !.state = e.state, !.bits = e.bits \o @]
  IN FoldRight(put, syms, [state |-> 0, bits |-> << >>])

\* Bits that are not there are zeros; a state outside the table is an error,
\* which a valid table does not lead to.
RECURSIVE ReadSymbols(_, _, _, _, _)
ReadSymbols(table, bits, at, state, n) ==
  LET e == At(table, state)
  IN IF n = 0 \/ state \notin States THEN << >>
     ELSE << e.symbol >> \o ReadSymbols(table, bits, at + e.bits, e.base + Number(bits, at, e.bits), n - 1)

-----------------------------------------------------------------------------
(* Literals *)

AnsSymbols == 0 .. 2^ByteBits - 1
NoAns == [norm |-> << >>, states |-> << >>, streams |-> << >>]
Frequency(src) == FoldLeft(LAMBDA f, x : [f EXCEPT ![x] = @ + 1], [s \in AnsSymbols |-> 0], src)

AnsSize(section) ==
  LET streams == FoldLeft(LAMBDA n, bits : n + BytesFor(bits), 0, section.streams)
  IN CountsSize(section.norm)
     + (IF section.streams = << >> THEN 0
        ELSE IF Len(section.streams) = 1 THEN StateBytes + streams ELSE LaneHeader + streams)

\* One symbol is its header and nothing else.
AnsSection(norm, lanes, src) ==
  LET table == DecodeTable(norm)
      parts == [k \in 1 .. lanes |-> WrittenFrom(norm, table, Lane(src, k, lanes))]
  IN IF Cardinality(Occurring(norm)) = 1 THEN [norm |-> norm, states |-> << >>, streams |-> << >>]
     ELSE [norm |-> norm, states |-> [k \in 1 .. lanes |-> parts[k].state],
           streams |-> [k \in 1 .. lanes |-> Filled(parts[k].bits)]]

\* vva_encode and vva_encode4
AnsIfSmaller(section, n, capacity) ==
  IF AnsSize(section) > capacity \/ AnsSize(section) >= n THEN NoAns ELSE section
AnsEncode(src, lanes, capacity) ==
  AnsIfSmaller(AnsSection(Normalised(Frequency(src)), lanes, src), Len(src), capacity)

\* vva_decode and vva_decode4
AnsDecode(section, n, capacity) ==
  LET single == CHOOSE s \in Occurring(section.norm) : TRUE
      table == DecodeTable(section.norm)
      lanes == Len(section.streams)
      mine == [k \in 1 .. lanes |->
                 ReadSymbols(table, section.streams[k], 0, section.states[k], InLane(n, k, lanes))]
  IN IF n > capacity \/ ~ValidCounts(section.norm) THEN << >>
     ELSE IF Cardinality(Occurring(section.norm)) = 1 THEN [k \in 1 .. n |-> single]
     ELSE IF lanes = 0 \/ \E k \in 1 .. lanes : Len(mine[k]) < InLane(n, k, lanes) THEN << >>
     ELSE Woven(mine, n)

-----------------------------------------------------------------------------
(* vva_encode_ctx: each literal in the table of the one before it, with a   *)
(* state of its own for every table, and all bits in one stream.            *)

Context(src, k) == IF k = 1 THEN 0 ELSE src[k - 1]
Followers(src, c) == SelectSeq([k \in DOMAIN src |-> << Context(src, k), src[k] >>], LAMBDA p : p[1] = c)

\* A context seen too seldom has the table of all literals.
ContextCounts(src) ==
  LET all == Normalised(Frequency(src))
      after(c) == [k \in DOMAIN Followers(src, c) |-> Followers(src, c)[k][2]]
      own == {c \in AnsSymbols : Len(after(c)) >= ContextLeast}
  IN [own |-> own, norm |-> [c \in AnsSymbols |-> IF c \in own THEN Normalised(Frequency(after(c))) ELSE all],
      all |-> all]

Tables(counts) == [c \in AnsSymbols |-> DecodeTable(counts.norm[c])]

ContextSize(section) ==
  StateBytes + CountsSize(section.counts.all) + ContextBytes
  + MapThenSumSet(LAMBDA c : 1 + StateBytes + CountsSize(section.counts.norm[c]), section.counts.own)
  + StateBytes * Cardinality(AnsSymbols) + BytesFor(section.bits)

NoContext == [counts |-> [own |-> {}, norm |-> << >>, all |-> << >>], states |-> << >>, bits |-> << >>]
ContextSection(src, counts, tables) ==
  LET put(k, acc) ==
        LET c == Context(src, k)
            e == EncSym(counts.norm[c], tables[c], acc.states[c], src[k])
        IN [states |-> [acc.states EXCEPT ![c] = e.state], bits |-> e.bits \o acc.bits]
      out == FoldRight(put, [k \in DOMAIN src |-> k], [states |-> [c \in AnsSymbols |-> 0], bits |-> << >>])
  IN [counts |-> counts, states |-> out.states, bits |-> Filled(out.bits)]
ContextIfSmaller(section, n, capacity) ==
  IF ContextSize(section) > capacity \/ ContextSize(section) >= n THEN NoContext ELSE section
ContextEncode(src, capacity) ==
  LET counts == ContextCounts(src)
  IN ContextIfSmaller(ContextSection(src, counts, Tables(counts)), Len(src), capacity)

\* vva_decode_ctx
RECURSIVE ReadInContext(_, _, _, _, _, _)
ReadInContext(tables, states, bits, at, c, n) ==
  LET e == At(tables[c], states[c])
      next == [states EXCEPT ![c] = e.base + Number(bits, at, e.bits)]
  IN IF n = 0 \/ states[c] \notin States THEN << >>
     ELSE << e.symbol >> \o ReadInContext(tables, next, bits, at + e.bits, e.symbol, n - 1)

ContextDecode(section, n, capacity) ==
  LET valid == ValidCounts(section.counts.all) /\ \A c \in section.counts.own : ValidCounts(section.counts.norm[c])
      out == ReadInContext(Tables(section.counts), section.states, section.bits, 0, 0, n)
  IN IF n > capacity \/ ~valid \/ Len(out) < n THEN << >> ELSE out
=============================================================================
