---------------------------- MODULE MCParExtract ----------------------------
(* Small archives for ParExtract. *)
EXTENDS ParExtract

\* All entries of n frames of the given kinds.
Entries(n, kinds) == [1 .. n -> kinds]

TwoEntries(first, second) ==
  {[f \in 0 .. 1 |-> IF f = 0 THEN a ELSE b] : a \in first, b \in second}

\* One entry of up to three frames, whatever may be wrong with it, and nothing
\* in the other.
AnyEntry == TwoEntries(UNION {Entries(n, Kinds) : n \in 0 .. 3}, Entries(0, {}))

\* An entry whose blocks may be damaged or references, then one that follows on it.
DamagedThenSmall ==
  TwoEntries(Entries(3, {"DATA", "REF", "BAD_CHECKSUM"}), Entries(2, {"DATA", "STRAY"}))

SmallArchives == AnyEntry \cup DamagedThenSmall

\* One entry of sound DATA frames.
SoundEntry == {[f \in 0 .. 0 |-> <<"DATA", "DATA", "DATA">>]}
=============================================================================
