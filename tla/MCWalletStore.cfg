SPECIFICATION MCSpec
CONSTANTS
  Threads = {p, q}
  KeyIds = {k1, k2, k3}
  MasterKeys = {m1, m2}
  NoKey = NoKey
  Plain = Plain
  MaxTime = 2
  Files = {f, g}
  Users = {p, q}
  Keys <- MCKeys
  Txns = {s, t}
  Lines <- MCLines
  Dumps <- MCDumps
  MaxUse = 3
  NULL = NULL
SYMMETRY Symmetry
INVARIANTS KeysOfOneKind PromisedKeysFound
  MemoryMatchesFile FirstKeyTimeCoversFile
  UsesAccountedFor SalvageReadsThePairs
PROPERTY FilesChangeWhole
