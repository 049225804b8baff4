\* The codecs: frames written and read in pieces, blocks packed, damaged and unpacked, literals coded.
INIT Init
NEXT Next
CHECK_DEADLOCK FALSE
CONSTANTS
  ByteBits = 4
  Nibble = 4
  Hashes = {0}
  Hash <- MCHash
  LzChain <- MCLzChain
  LzGood = 6
  MaxCodeLen = 5
  FastBits = 4
  FieldBytes = 1
  LenBase <- MCLenBase
  LenExtra <- MCLenExtra
  DistBase <- MCDistBase
  DistExtra <- MCDistExtra
  LzhConfig <- MCLzhConfig
  LzhGood = 6
  RepeatMost = 4
  ZeroLong = 5
  ZeroMost = 6
  FourLiterals = 10
  FourRoom = 4
  FourHeader = 1
  TableLog = 4
  SparseMost = 2
  LaneHeader = 4
  StateBytes = 1
  ContextBytes = 1
  ContextLeast = 3
  RunBase <- MCRunBase
  RunExtra <- MCRunExtra
  LenStep <- MCLenStep
  MatchExtra <- MCMatchExtra
  OffsetCodes = 10
  Jumps = {2}
  Calls = {1}
  Pages = {2}
  PageWords = 2
  VvBlock = 32
  WindowLogs = {3, 9}
  VvTasks <- MCVvTasks
  ChunkLens <- MCChunkLens
  PartLen = 32
  Rounds = 2
  BlockJobs <- MCBlockJobs
  CoderJobs <- MCCoderJobs
INVARIANTS
  FramesReadBack
  PiecesDoNotMatter
  SumFindsDamage
  BlocksReadBack
  DecodersStayInside
  LiteralsReadBack
PROPERTY
  EndsOnce
