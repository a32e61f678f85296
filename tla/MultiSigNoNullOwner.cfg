SPECIFICATION Spec
CONSTANTS
  u1 = u1
  u2 = u2
  c1 = c1
  Wallet = Wallet
  Null = Null
  Users = {u1, u2}
  Contracts = {c1}
  MaxOwnerCount = 2
  MaxTx = 2
  MaxDeposit = 1
  Payloads <- ClaimPayloads
  Decode <- ClaimDecode
INVARIANT NoNullOwner
CHECK_DEADLOCK FALSE
