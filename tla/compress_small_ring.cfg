\* More threads are asked for than the ring has slots: batches of three blocks, a
\* ring of two.
SPECIFICATION Spec
CONSTANTS
  Threads = 3
  MaxThreads = 2
  Starts = {0, 1, 2}
  NoJob = NoJob
  NumFiles = 2
  Blocks <- TwoFour
  SeqShift = 5
  IoFails = TRUE
INVARIANT
  BlockedOnItself
