--------------------------- MODULE MCParCompress ----------------------------
(* Small instances of ParCompress: the block counts of the input files. *)
EXTENDS ParCompress

\* An empty file, one whose last batch is not full (with three threads), and one
\* of less than a batch.
NoneFourTwo == [f \in 0 .. 2 |-> IF f = 0 THEN 0 ELSE IF f = 1 THEN 4 ELSE 2]

\* A file of as many blocks as a small ring has slots, then a larger one.
TwoFour == [f \in 0 .. 1 |-> IF f = 0 THEN 2 ELSE 4]
=============================================================================
