------------------------------ MODULE MCCodecs ------------------------------
(***************************************************************************)
(* The codecs on small instances: bytes of four bits, tables of 16 states,  *)
(* codes of up to five bits, blocks of a frame of 32 bytes.                 *)
(***************************************************************************)
EXTENDS CodecCalls, TLC

\* One hash for all: the chains alone find the candidates.
MCHash(bytes) == 0
MCLzChain(level) == level
MCLzhConfig(level) == [window |-> IF level = 1 THEN 6 ELSE 24, chain |-> 2 * level, lazy |-> level - 1,
                       min |-> IF level = 1 THEN 4 ELSE 3]

MCRunBase == << 0, 1, 2, 4, 8 >>
MCRunExtra == << 0, 0, 1, 2, 3 >>
MCLenStep == << 0, 1, 2, 4 >>
MCMatchExtra == << 0, 0, 1, 2 >>
MCLenBase == << 3, 4, 7, 8 >>
MCLenExtra == << 0, 2, 0, 2 >>
MCDistBase == << 1, 2, 3, 5, 9, 17 >>
MCDistExtra == << 0, 0, 1, 2, 3, 4 >>

\* Two bytes so that no four in a row come back within a window of eight; and
\* so that some three, or four, do.
Turns8 == << 0, 0, 0, 1, 0, 1, 1, 1 >>
Two == Turns8 \o Turns8 \o Turns8 \o Turns8
Three == << 1, 0, 0, 0, 1, 0, 1, 1, 0, 0, 0, 0, 1, 0, 1, 1, 1, 0, 0, 0, 1, 0, 1, 1 >>
Zeros5 == << 0, 0, 0, 0, 0, 1, 0, 0, 0, 1, 0, 1, 1, 1, 0, 0, 0, 0, 1, 0, 1, 1, 0, 1 >>
\* A match behind more literals than a code can count.
LateMatch == SubSeq(Two, 1, 17) \o SubSeq(Two, 14, 17) \o << 2, 3, 4 >>
\* A second chunk that begins like the end of the first.
Chunks == Two \o SubSeq(Two, 29, 32) \o << 2, 0, 0, 2, 3, 2, 0, 4, 0, 2, 3, 2, 2, 0, 3, 0, 4, 3, 0, 1 >>
Late == SubSeq(Chunks, 9, 56)
\* Branches of both filters among bytes that repeat.
Branches == << 2, 0, 3, 0, 1, 1, 1, 9, 0, 3, 0, 1, 1, 1, 4, 15, 15, 1, 2, 15, 0, 0, 0, 0, 1, 1, 4, 15, 15, 3 >>
\* Few bytes, none of a branch, and hardly three in a row twice, however long the window.
Few == << 4, 4, 5, 0, 0, 0, 3, 4, 5, 4, 3, 3, 0, 3, 4, 4, 4, 0, 0, 4, 0, 4, 3, 4, 0, 5, 0, 4, 4, 3, 0, 0 >>
\* Bytes as rare as Fibonacci has them: the deepest tree for their number.
Skewed == << 0, 4, 6, 6, 4, 5, 6, 3, 5, 6, 1, 4, 6, 6, 4, 5, 6, 3,
             5, 6, 2, 5, 6, 6, 4, 5, 6, 3, 5, 6, 2, 5, 6 >>
\* Mostly in turns: what is next depends on what was last.
Turns2 == [k \in 1 .. 90 |-> IF k % 7 = 0 THEN 0 ELSE k % 2]

Opt(v2, entropy, sum, log, filter) == [v2 |-> v2, entropy |-> entropy, sum |-> sum, log |-> log, filter |-> filter]
Frame(input, opts, mode) == [input |-> input, opts |-> opts, mode |-> mode, memory |-> "all"]

MCVvTasks ==
  {Frame(Chunks, Opt(FALSE, FALSE, TRUE, 3, "none"), "chunks"), Frame(Late, Opt(FALSE, TRUE, TRUE, 3, "none"), "chunks")}
  \cup {Frame(Three, Opt(TRUE, TRUE, FALSE, 3, "none"), mode) : mode \in {"call", "chunks"}}
  \cup {Frame(input, Opt(FALSE, TRUE, FALSE, 3, "none"), "call") : input \in {Zeros5, LateMatch}}
  \cup {Frame(Branches, opts, "call") : opts \in {Opt(FALSE, TRUE, TRUE, 3, "x86"), Opt(FALSE, FALSE, FALSE, 9, "arm64")}}
  \cup {Frame(Branches \o Branches, Opt(FALSE, FALSE, TRUE, 3, "x86"), "calls")}
  \cup {Frame(<< >>, Opt(FALSE, TRUE, sum, 3, "none"), mode) : sum \in BOOLEAN, mode \in {"call", "chunks"}}
MCChunkLens == {0, 24, 32}

\* Bytes in a period, and in the same with other bytes between.
Period(n, p) == [k \in 1 .. n |-> (3 * k) % p]
Between5(n, p, q) == [k \in 1 .. n |-> IF k % q = 0 THEN 9 ELSE k % p]
ZeroRuns == [k \in 1 .. 56 |-> IF k % 14 \in {3, 9} THEN k % 5 ELSE 0]
\* Each byte says the next.
Cycle == [k \in 1 .. 64 |-> (k * k) % 16]

BlockInputs == {Period(44, 7), Between5(50, 3, 11), ZeroRuns, Cycle, Skewed}
Short == {<< >>, << 5 >>, << 1, 1, 1, 1, 1, 1, 1 >>, Few}
Blocks(inputs, codecs, levels, memory) ==
  [input : inputs, codec : codecs, level : levels, memory : memory]

MCBlockJobs ==
  Blocks(BlockInputs \cup Short, {"STORE", "LZ", "LZH"}, {1, 4}, {"all"})
  \cup Blocks(BlockInputs, {"LZHP"}, {3}, {"all", "no counts", "no copy"})
  \cup Blocks({Few}, {"AUTO"}, {1}, {"all", "no copy"}) \cup Blocks({Few}, {"AUTO"}, {7}, {"all"})
  \cup Blocks({Few}, {"VAPTVUPT"}, {7}, {"no trees"})
  \cup Blocks(BlockInputs, {"LZH", "LZHP"}, {3}, {"no trees", "no order"})

MCCoderJobs ==
  [input : {Two, Skewed, Skewed \o Skewed, Turns2, [k \in 1 .. 24 |-> 3], Branches}, form : (LitForms \ {"raw"}) \cup {"context"}]
=============================================================================
