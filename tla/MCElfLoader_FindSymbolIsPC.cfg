CONSTANTS
  ao = ao  bo = bo  co = co  no = no  eo = eo  missing = missing
  main = main  helper = helper  counter = counter  spare = spare
  ac = ac  bc = bc  cc = cc
  FileNames <- MCFileNames
  Images <- MCImages
  Hash <- MCHash
  NoPath = NoPath
  NoSource = NoSource
  Arenas <- MCArenas
  codeSize = 32
  dataSize = 8
  bssSize = 12
  Page = 4
  Word = 128
  Half = 16
  MaxFiles = 3
SPECIFICATION Spec
INVARIANT FindSymbolIsPC
CHECK_DEADLOCK FALSE
