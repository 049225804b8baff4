\* Blocks that collide, two files, calls that fail, a table of four places.
SPECIFICATION Spec
CONSTANTS
  Contents <- Blocks
  Fingerprint <- Fingerprints
  Digest <- Digests
  Size <- Sizes
  Capacity = 4
  MaxProbes = 2
  NumFiles = 2
  Inputs <- FourBlocks
  SeqShift = 5
  IoFails = TRUE
INVARIANTS
  ChainsHaveNoHoles
  NothingKnownIsStoredTwice
  ExtractGivesInput
