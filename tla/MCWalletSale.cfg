SPECIFICATION MCSpec
CONSTANTS
  u1 = u1
  u2 = u2
  c1 = c1
  Wallet = Wallet
  Null = Null
  Users = {u1, u2}
  Contracts = {c1}
  MaxOwnerCount = 3
  MaxTx = 2
  MaxDeposit = 1
  Payloads <- MCPayloads
  Decode <- MCDecode
  i1 = i1
  Investors = {i1}
  beneficiary = beneficiary
  teamMultisig = teamMultisig
  vault = vault
  Owner = i1
  Whitelist = {i1}
  Decimals = 2
  WeiAmounts = {0, 1}
  TokenAmounts = {0, 1}
  FullTokens = {0, 1, 2}
  Prices = {0, 2}
  Grants = {0, 2}
  unlockedAt = 1
  Modulus = 3
  MaxTime = 1
  InitialBalance <- SaleBalance
INVARIANTS OwnersWellFormed BalanceConserved ViewsAgree ExactlyOnce
  CrowdsaleAddsUp
PROPERTIES ExecutedConfirmationsFrozen QuorumBehindExecution
CHECK_DEADLOCK FALSE
