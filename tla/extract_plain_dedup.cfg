\* An archive whose DATA frames all have sequence number zero.
SPECIFICATION FairSpec
CONSTANTS
  Threads = 2
  MaxThreads = 2
  Starts = {2}
  NoJob = NoJob
  NumFiles = 1
  Archives <- SoundEntry
  SeqShift = 5
  DiskImage = FALSE
  Dedup = TRUE
  AuthRefs = {FALSE}
  FailureModes = {FALSE}
PROPERTY
  SubmitReturns
