----------------------------- MODULE DedupTable -----------------------------
(***************************************************************************)
(* The table of zupt_dedup.c: open addressing with linear probing, a limit  *)
(* on the probes and on the load, no deletion.  A block is known to the     *)
(* table by its XXH64 fingerprint, its digest and its size.                 *)
(***************************************************************************)
EXTENDS Naturals, FiniteSets

CONSTANTS
  Contents,      \* what a block may contain
  Fingerprint,   \* XXH64 of each content
  Digest,        \* the prefix of its SHA-256
  Size,          \* and its length
  Capacity,      \* ZUPT_DEDUP_MAX_ENTRIES, 2M in the code
  MaxProbes      \* 64 in the code

\* The digest is meant to tell blocks of one size apart; nothing is assumed of
\* the fingerprint, nor of blocks of different sizes.
ASSUME DedupConstants ==
  /\ Fingerprint \in [Contents -> Nat]
  /\ Size \in [Contents -> Nat]
  /\ Capacity \in Nat \ {0} /\ MaxProbes \in Nat
  /\ \A c, d \in Contents :
       Fingerprint[c] = Fingerprint[d] /\ Digest[c] = Digest[d] /\ Size[c] = Size[d]
       => c = d

Places == 0 .. Capacity - 1
Probes == 0 .. MaxProbes - 1

VARIABLES
  table,   \* the entry of each place, or {}
  count    \* entries in use

tableVars == << table, count >>

\* An empty place is the empty set, an occupied one holds its entry alone.
\* offset is block_offset, seq is aad_seq.
Entry(c, offset, seq) == [content |-> c, offset |-> offset, seq |-> seq]
Entries == [content : Contents, offset : Nat, seq : Nat]

TableInit == table = [p \in Places |-> {}] /\ count = 0

Place(c, i) == ((Fingerprint[c] % Capacity) + i) % Capacity

Occupied(p) == table[p] # {}

\* Seeded fault: the digest is not compared.
MatchesFingerprint(p, c) ==
  \E e \in table[p] : Fingerprint[e.content] = Fingerprint[c]

\* The entry at p has the fingerprint and the digest of c.
Matches(p, c) ==
  \E e \in table[p] : Fingerprint[e.content] = Fingerprint[c] /\ Digest[e.content] = Digest[c]

\* zupt_dedup_lookup_secure and the comparison of ref_sz behind it: the first
\* match stands before the first empty place, and has the size of c.
zupt_dedup_lookup_secure(c, e) ==
  \E i \in Probes :
    /\ e \in table[Place(c, i)]
    /\ Matches(Place(c, i), c)
    /\ \A j \in 0 .. i - 1 : Occupied(Place(c, j)) /\ ~Matches(Place(c, j), c)

Hit(c, e) == zupt_dedup_lookup_secure(c, e) /\ Size[e.content] = Size[c]

Hits(c) == {e \in UNION {table[p] : p \in Places} : Hit(c, e)}

Full == count >= (Capacity * 3) \div 4

\* Seeded fault: the load is not limited, any empty place is taken.
InsertsAnywhere(c, offset, seq) ==
  \E p \in Places :
    /\ ~Occupied(p)
    /\ table' = [table EXCEPT ![p] = {Entry(c, offset, seq)}]
    /\ count' = count + 1

\* Seeded fault: insertion takes the home place of the block, used or not.
InsertsAtHome(c, offset, seq) ==
  IF Full
    THEN UNCHANGED tableVars
    ELSE /\ table' = [table EXCEPT ![Place(c, 0)] = {Entry(c, offset, seq)}]
         /\ count' = count + 1

\* The first empty place among the probes; nothing when the table is full or
\* all of them are taken.
zupt_dedup_insert_secure(c, offset, seq) ==
  IF Full \/ \A i \in Probes : Occupied(Place(c, i))
    THEN UNCHANGED tableVars
    ELSE \E i \in Probes :
           /\ ~Occupied(Place(c, i))
           /\ \A j \in 0 .. i - 1 : Occupied(Place(c, j))
           /\ table' = [table EXCEPT ![Place(c, i)] = {Entry(c, offset, seq)}]
           /\ count' = count + 1

-----------------------------------------------------------------------------
TableTypeOK ==
  /\ table \in [Places -> SUBSET Entries]
  /\ \A p \in Places : \A e, f \in table[p] : e = f
  /\ count \in Nat

\* Every entry can be reached: all places its probes visit before it are used.
ChainsHaveNoHoles ==
  \A p \in Places : \A e \in table[p] :
    \E i \in Probes :
      /\ p = Place(e.content, i)
      /\ \A j \in 0 .. i - 1 : Occupied(Place(e.content, j))

\* What a lookup of c finds will not change any more: its probes end at a match,
\* of whatever size, or they are all taken, or the table takes no more entries.
Settled(c) ==
  \/ Full
  \/ \A i \in Probes : Occupied(Place(c, i))
  \/ \E i \in Probes :
       /\ Matches(Place(c, i), c)
       /\ \A j \in 0 .. i - 1 : Occupied(Place(c, j))
=============================================================================
