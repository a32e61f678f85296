SPECIFICATION SingleSpec
CONSTANTS
  maker = maker
  taker = taker
  third = third
  gov = gov
  A = A
  Z = Z
  exch = exch
  other = other
  proxy = proxy
  Null = Null
  Callers = {gov}
  Target = {exch, other}
  Account = {maker, taker, third}
  Spender = {proxy}
  Tokens = {A, Z}
  ZRX = Z
  This = exch
  ProxyAddress = proxy
  Modulus = 16
  RoundingLimit = 4
  MaxTime = 2
  Values = {1, 2}
  Orders <- MarketOrders
  Signed <- MarketOrders
  Batches = {}
  Gifts <- MarketGifts
  InitialBalance <- MCBalance
  Approvals <- MarketApprovals
INVARIANTS NeverOverfilled LimitPriceHonoured SupplyConserved
  AuthoritiesAreTheAuthorized
PROPERTY SpentWithinAllowance
