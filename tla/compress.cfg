\* Three workers, of which none, some or all start; an empty file, a last
\* batch that is not full, less than a batch; every failure the code handles.
SPECIFICATION FairSpec
CONSTANTS
  Threads = 3
  MaxThreads = 3
  Starts = {0, 1, 2, 3}
  NoJob = NoJob
  NumFiles = 3
  Blocks <- NoneFourTwo
  SeqShift = 5
  IoFails = TRUE
INVARIANTS
  SlotsHandedOver
  PublishedArchiveIsComplete
PROPERTIES
  WritesLikeTheSerialLoop
  Returns
