\* Six sources, five ways to back them up and four earlier archives; nine kinds
\* of target and three readers; the source is changed once and the archive
\* overwritten once at any moment, any call fails.
CONSTANTS
  u = u
  v = v
  old = old
  Zero = Zero
  Garbage = Garbage
  BlockSize = 2
  SeqShift = 16
  MaxSeq = 255
  SolidLimit = 7
  MaxComment = 3
  Incompressible <- MCIncompressible
  MaxPath = 20
  ReservedNames <- MCReservedNames
  Sources <- MCSources
  Changed <- MCChanged
  DiskOptions <- MCDiskOptions
  MaxBlocks = 3
  MaxChanges = 1
  Faults = TRUE
  Targets <- MCTargets
  Readers <- MCReaders
  Overwrites <- MCOverwrites
  Earlier <- MCEarlier
SPECIFICATION Spec
INVARIANTS
  BackedUpIsRestorable
  TargetShowsTheImage
  ImageIsOfOneArchive
  RestoreSaysWhatItDid
