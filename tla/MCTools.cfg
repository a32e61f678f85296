SPECIFICATION MCSpec
CONSTANTS
  a = a
  b = b
  oa = oa
  ob = ob
  x = x
  y = y
  c1 = c1
  c2 = c2
  c3 = c3
  NoConn = NoConn
  Lists <- MCLists
  Unset = Unset
  Outpoints = {oa, ob}
  Keys = {a, b}
  Owner <- MCOwner
  Outputs = {x, y}
  KeySets <- MCKeySets
  PrevTxs <- MCPrevTxs
  Versions = {0, 1, 3}
  CURRENT_VERSION = 2
  Locktimes <- MCLocktimes
  MaxLocktime = 1
  Flags <- MCFlags
  MaxInputs = 2
  MaxOutputs = 2
  MaxCommands = 9
  MaxDepth = 4
INVARIANTS TransactionIsSound FailoverIsThorough
PROPERTIES SignaturesLast OneRoundPerCall
