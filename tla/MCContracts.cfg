SPECIFICATION MCSpec
CONSTANTS
  maker = maker
  taker = taker
  third = third
  gov = gov
  A = A
  Z = Z
  exch = exch
  other = other
  proxy = proxy
  Null = Null
  Callers = {gov}
  Target = {exch}
  Account = {maker, taker, third, shop}
  Spender = {proxy}
  Tokens = {A, Z}
  ZRX = Z
  This = exch
  ProxyAddress = proxy
  Modulus = 16
  RoundingLimit = 4
  MaxTime = 1
  Values = {1, 3}
  Orders <- ContractsOrders
  Signed <- ContractsSigned
  Batches <- BatchBatches
  Gifts = {}
  InitialBalance <- ContractsBalance
  Approvals <- ContractsApprovals
  shop = shop
  Sale = shop
  CHX_TOKEN = A
  PROTOCOL_TOKEN = Z
  SaleOrders <- ForSale
  SignedToSell <- ForSale
  Savers = {taker}
  MaxSupply = 9
  ta = ta
  tb = tb
  Zero = Null
  Registrars = {gov}
  Addresses = {Null, ta, tb}
  Texts = {"x", "y"}
  Empty = ""
  Data = {1, 2}
  NoData = 0
  MaxAddresses = 3
INVARIANTS CallsKeepTheirWord TokensAreBacked RegistryAgrees
