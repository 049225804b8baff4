------------------------------ MODULE LzCodec -------------------------------
(***************************************************************************)
(* Zupt-LZ (zupt_lz.c): the match finder with its hash heads and chains,    *)
(* the greedy and the lazy parse, the byte format and its decoder.  A byte  *)
(* is a number below Byte; positions count from 0, as in the code, so that  *)
(* the byte at position p of a sequence s is s[p + 1].                      *)
(***************************************************************************)
EXTENDS Integers, SequencesExt

CONSTANTS
  Nibble,      \* 16: values of half a token
  Hashes,      \* what lz_hash4 yields
  Hash(_),     \* lz_hash4: a hash of four bytes
  LzChain(_),  \* links followed at a level: 4 + 3 * level^2
  LzGood       \* 256: a match this long ends the search

ASSUME LzAssumption == Nibble \in Nat \ {0, 1} /\ LzGood \in Nat

Byte == Nibble * Nibble
MaxOffset == Byte * Byte - 1     \* LZ_MAX_OFFSET, LZ_WINDOW_SIZE and 65535
MinMatch == 3
HashLen == 4
Smaller(a, b) == IF a < b THEN a ELSE b

\* A byte that is not there: what a read beyond a buffer would return.
Outside == -1
ByteAt(s, p) == IF p + 1 \in DOMAIN s THEN s[p + 1] ELSE Outside

-----------------------------------------------------------------------------
(* Finding matches.  A table has the last position of each hash, and for a  *)
(* position modulo the window the one with the same hash before it.         *)

EmptyTable(window) == [head |-> [h \in Hashes |-> -1], link |-> [c \in 0 .. window - 1 |-> 0]]

HashAt(src, ip) == Hash(SubSeq(src, ip + 1, ip + HashLen))

Insert(table, window, src, ip) ==
  IF ip + HashLen > Len(src) THEN table
  ELSE [head |-> [table.head EXCEPT ![HashAt(src, ip)] = ip],
        link |-> [table.link EXCEPT ![ip % window] = table.head[HashAt(src, ip)]]]

InsertAll(table, window, src, from, to) ==
  FoldLeft(LAMBDA t, ip : Insert(t, window, src, ip), table, [k \in 1 .. to - from |-> from + k - 1])

\* The candidates for ip, nearest first.  A link may have been overwritten:
\* a candidate not before ip, or too far before it, ends the list.
RECURSIVE Candidates(_, _, _, _, _)
Candidates(table, window, ip, ref, count) ==
  IF ref < 0 \/ count = 0 \/ ip - ref \notin 1 .. window THEN << >>
  ELSE << ref >> \o Candidates(table, window, ip, table.link[ref % window], count - 1)

\* How far the bytes from ref on are those from ip on.
Common(src, ref, ip, most) ==
  LET room == Smaller(Len(src) - ip, most)
      same[n \in 0 .. room] == IF n < room /\ src[ref + n + 1] = src[ip + n + 1] THEN same[n + 1] ELSE n
  IN same[0]

NoMatch == [len |-> 0, off |-> 0]

LzFind(table, src, ip, count) ==
  LET longer(best, ref) ==
        LET n == Common(src, ref, ip, MaxOffset)
        IN IF best.len < LzGood /\ n > best.len THEN [len |-> n, off |-> ip - ref] ELSE best
      best == FoldLeft(longer, [len |-> MinMatch - 1, off |-> 0],
                       Candidates(table, MaxOffset, ip, table.head[HashAt(src, ip)], count))
  IN IF ip + HashLen > Len(src) \/ best.off = 0 THEN NoMatch ELSE best

-----------------------------------------------------------------------------
(* Parsing: the literals before each match and the match, and in the end    *)
(* the literals that are left.                                              *)

Sequence(src, anchor, ip, match) == [lits |-> SubSeq(src, anchor + 1, ip), len |-> match.len, off |-> match.off]

RECURSIVE LzParse(_, _, _, _, _), LzTake(_, _, _, _, _, _)
LzParse(table, src, level, anchor, ip) ==
  LET first == LzFind(table, src, ip, LzChain(level))
      seen == Insert(table, MaxOffset, src, ip)
      next == LzFind(seen, src, ip + 1, LzChain(level))
      looks == level >= 3 /\ ip + 1 + MinMatch <= Len(src)
  IN IF ip + MinMatch > Len(src) THEN << Sequence(src, anchor, Len(src), NoMatch) >>
     ELSE IF first.len = 0 THEN LzParse(seen, src, level, anchor, ip + 1)
     ELSE IF looks /\ next.len > first.len + 1 THEN LzTake(seen, src, level, anchor, ip + 1, next)
     ELSE LzTake(IF level >= 3 /\ ~looks THEN table ELSE seen, src, level, anchor, ip, first)

LzTake(table, src, level, anchor, ip, match) ==
  << Sequence(src, anchor, ip, match) >>
  \o LzParse(InsertAll(table, MaxOffset, src, ip + 1, ip + match.len), src, level,
             ip + match.len, ip + match.len)

-----------------------------------------------------------------------------
(* Writing.  A length that its half of the token cannot hold goes on in     *)
(* bytes, the last of which is not the largest byte.                        *)

Half(n) == Smaller(n, Nibble - 1)
Extra(n) ==
  LET rest == n - (Nibble - 1)
  IN IF rest < 0 THEN << >> ELSE [k \in 1 .. rest \div (Byte - 1) |-> Byte - 1] \o << rest % (Byte - 1) >>

LzBytes(s) ==
  IF s.len = 0 THEN << Half(Len(s.lits)) * Nibble >> \o Extra(Len(s.lits)) \o s.lits
  ELSE << Half(Len(s.lits)) * Nibble + Half(s.len - MinMatch) >> \o Extra(Len(s.lits)) \o s.lits
       \o << s.off % Byte, s.off \div Byte >> \o Extra(s.len - MinMatch)

\* What must be free before a sequence is written.
LzRoom(s) ==
  LET spread(n) == n \div (Byte - 1) + 1
  IN 1 + spread(Len(s.lits)) + Len(s.lits) + (IF s.len = 0 THEN 0 ELSE 2 + spread(s.len - MinMatch))

LzBound(len) == len + len \div (Byte - 1) + 2 * Nibble

\* zupt_lz_compress; the empty sequence stands for its result 0.
Level(level) == IF level < 1 THEN 1 ELSE Smaller(level, 9)
LzCompress(src, capacity, level) ==
  LET put(out, s) ==
        IF out.full \/ Len(out.bytes) + LzRoom(s) > capacity THEN [out EXCEPT !.full = TRUE]
        ELSE [out EXCEPT !.bytes = @ \o LzBytes(s)]
      out == FoldLeft(put, [full |-> FALSE, bytes |-> << >>],
                      LzParse(EmptyTable(MaxOffset), src, Level(level), 0, 0))
  IN IF src = << >> \/ out.full THEN << >> ELSE out.bytes

-----------------------------------------------------------------------------
(* Reading *)

\* lz_read_extra: the length and the position behind it; a stream that ends
\* here ends the length.
RECURSIVE ReadExtra(_, _, _)
ReadExtra(src, ip, len) ==
  IF ip >= Len(src) THEN [len |-> len, ip |-> ip]
  ELSE IF src[ip + 1] < Byte - 1 THEN [len |-> len + src[ip + 1], ip |-> ip + 1]
  ELSE ReadExtra(src, ip + 1, len + src[ip + 1])

ReadLength(src, ip, half, base) ==
  IF half = Nibble - 1 THEN ReadExtra(src, ip, half + base) ELSE [len |-> half + base, ip |-> ip]

\* Byte by byte, so that a match may reach into what it produces.
RECURSIVE CopyMatch(_, _, _)
CopyMatch(out, offset, len) ==
  IF len = 0 THEN out ELSE CopyMatch(Append(out, ByteAt(out, Len(out) - offset)), offset, len - 1)

\* Seeded fault: an offset may lead to before the output.
OnlyZeroIsBad(out, offset) == offset = 0 /\ Len(out) >= 0

BadOffset(out, offset) == offset = 0 \/ offset > Len(out)

\* zupt_lz_decompress: the empty sequence stands for its result 0.
RECURSIVE LzDecode(_, _, _, _)
LzDecode(src, ip, out, room) ==
  LET lits == ReadLength(src, ip + 1, src[ip + 1] \div Nibble, 0)
      at == lits.ip + lits.len
      read == out \o [k \in 1 .. lits.len |-> ByteAt(src, lits.ip + k - 1)]
      offset == src[at + 1] + Byte * src[at + 2]
      match == ReadLength(src, at + 2, src[ip + 1] % Nibble, MinMatch)
  IN IF ip >= Len(src) THEN out
     ELSE IF at > Len(src) \/ Len(out) + lits.len > room THEN << >>
     ELSE IF at = Len(src) THEN read
     ELSE IF at + 2 > Len(src) THEN << >>
     ELSE IF BadOffset(read, offset) \/ Len(read) + match.len > room THEN << >>
     ELSE LzDecode(src, match.ip, CopyMatch(read, offset, match.len), room)

LzDecompress(src, room) == LzDecode(src, 0, << >>, room)
=============================================================================
