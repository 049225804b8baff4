--------------------------- MODULE MCDedupArchive ---------------------------
(* Small tables and archives for DedupArchive. *)
EXTENDS DedupArchive

Blocks == 1 .. 4

\* Blocks 1 and 2 have one fingerprint, 3 the next home place (6 is 2 modulo 4),
\* and 4 has the hashes of block 1 but another size.
Fingerprints == [c \in Blocks |-> IF c = 3 THEN 6 ELSE 1]
Digests == [c \in Blocks |-> IF c = 4 THEN 1 ELSE c]
Sizes == [c \in Blocks |-> IF c = 4 THEN 1 ELSE 2]

FilesOf(n) == UNION {[1 .. k -> Blocks] : k \in 0 .. n}

TwoFiles(m, n) == {[f \in 0 .. 1 |-> IF f = 0 THEN a ELSE b] : a \in FilesOf(m), b \in FilesOf(n)}

FourBlocks == TwoFiles(3, 1)
=============================================================================
