\* Thirteen ways to write two lists of files, every single damage, seven
\* callers.  The second list is larger than what readers take solid.
CONSTANTS
  u = u
  v = v
  w = w
  x = x
  Zero = Zero
  Garbage = Garbage
  BlockSize = 2
  SeqShift = 16
  MaxSeq = 255
  SolidLimit = 7
  MaxComment = 3
  Incompressible <- MCIncompressible
  FileLists <- MCFileLists
  WriteOptions <- MCWriteOptions
  ReadOptions <- MCReadOptions
SPECIFICATION CallsSpec
INVARIANTS
  RightSecretOpens
  OnlyArchivedIsExtracted
  TestAgreesWithExtract
  ListingIsArchived
  DamageIsLocal
