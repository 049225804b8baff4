\* Two workers, of which none, one or both start; calls that fail, or none that
\* does; frames with sequence numbers of their own, or all with number zero.
SPECIFICATION FairSpec
CONSTANTS
  Threads = 2
  MaxThreads = 2
  Starts = {0, 1, 2}
  NoJob = NoJob
  NumFiles = 2
  Archives <- SmallArchives
  SeqShift = 5
  DiskImage = FALSE
  Dedup = TRUE
  AuthRefs = {TRUE, FALSE}
  FailureModes = {TRUE, FALSE}
INVARIANTS
  PoolIdleAtShutdown
  PublishedFileIsIntact
  SoundFileLostOnlyAfterWorkerError
PROPERTIES
  WritesEntriesInOrder
  Returns
