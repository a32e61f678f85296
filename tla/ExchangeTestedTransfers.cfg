SPECIFICATION Spec
CONSTANTS
  maker = maker
  taker = taker
  third = third
  gov = gov
  A = A
  Z = Z
  exch = exch
  other = other
  proxy = proxy
  Null = Null
  Callers = {gov}
  Target = {exch}
  Account = {maker, taker, third}
  Spender = {proxy}
  Tokens = {A, Z}
  ZRX = Z
  This = exch
  ProxyAddress = proxy
  Modulus = 16
  RoundingLimit = 4
  MaxTime = 2
  Values = {1, 2}
  Orders <- FeeOrders
  Signed <- FeeOrders
  Batches = {}
  Gifts = {}
  InitialBalance <- MCBalance
  Approvals <- MCApprovals
INVARIANT TestedTransfersSucceed
