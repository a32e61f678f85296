SPECIFICATION ChainSpec
CONSTANTS
  g = g
  a1 = a1
  a2 = a2
  b1 = b1
  b2 = b2
  b3 = b3
  coin = coin
  payA = payA
  payB = payB
  again = again
  NULL = NULL
  Genesis = g
  Blocks = {g, a1, a2, b1, b2, b3}
  Prev <- MCPrev
  ChainWork <- MCWork
  Version <- MCVersion
  Body <- MCBody
  Txs = {coin, payA, payB, again}
  Outputs <- MCOutputs
  Inputs <- MCInputs
  RpcThreads = {p, q}
  Keep = 1
  MaxHeaders = 3
  Window = 2
INVARIANTS IdleMeansBest AnswersDescribeTheChain
PROPERTY BestChainWins
CHECK_DEADLOCK FALSE
