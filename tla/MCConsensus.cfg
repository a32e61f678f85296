SPECIFICATION MCSpec
CONSTANTS
  t1 = t1
  t2 = t2
  NoAnswer = NoAnswer
  NoError = NoError
  Threads = {t1, t2}
  Sigs <- MCSigs
  ValidSigs <- MCValidSigs
  MaxSigCacheSize <- MCMaxSigCacheSize
  Mebi = 1
  SizeT = 4
  Radix = 16
  OP_PUSHDATA1 = 3
  MaxSmall = 4
  MaxNumSize = 4
  Starts <- MCStarts
  Ints <- MCInts
  Opcodes = {8, 11, 12}
  Datas <- MCDatas
  Scripts <- MCScripts
  MaxLen = 2
  Buffers <- MCBuffers
  TxToLens = {0, 1, 5, 6, 7, 9, 10}
  Indices = {0, 1, 2}
  Half = 2
  MaxInt32 = 3
  MaxInt64 = 7
  MaxUint64 = 15
  BufLen = 3
  Values <- MCValues
  MaxSent = 2
INVARIANT SizeWithinLimit
PROPERTIES VerdictsAreTrue ScriptsReadBack ReadingUndoesWriting
CHECK_DEADLOCK FALSE
