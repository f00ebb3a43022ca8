CONSTANTS
  CpuTypes = {"000", "010", "020"}
  CodeSize = 2
  VectorTable <- MCVectorTable
  Levels = {0, 3, 7}
  SRs <- MCSRs
  UserTop = 1
  InterruptTop = 11
  MasterTop = 21
  small = small  large = large  missing = missing
  main = main  helper = helper  ac = ac
  FileNames = {small, large, missing}
  Programs = {small, large, missing}
  Images <- MCImages
  Hash <- MCHash
  NoPath = NoPath
  NoSource = NoSource
  Arenas = {64, 160}
  codeSize = 40
  dataSize = 8
  bssSize = 12
  Page = 4
  Word = 128
  Half = 16
  MaxFiles = 3
  StackTop = 32
  NoPC = NoPC
  ZeroSlot = ZeroSlot
  Capacity = 2
  MaxId = 3
  Chunks = {8, 17}
  maxSize = 5
  Sizes = {0, 2, 3}
  Alignments = {1, 4}
SPECIFICATION MCSpec
INVARIANT MusashiTypes
INVARIANT StacksBalanced
INVARIANT NoPendingUnmasked
INVARIANT ReturnAddressKept
INVARIANT RelocationsStayHome
INVARIANT BreakpointsInProgram
INVARIANT BlocksSound
PROPERTY RteResumes
PROPERTY NoEscalation
\* A load of a program that is not there crashes the second time.
CHECK_DEADLOCK FALSE
