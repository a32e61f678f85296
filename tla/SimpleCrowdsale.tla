--------------------------- MODULE SimpleCrowdsale ---------------------------
(***************************************************************************)
(* The ChainX token (Contracts/ChainX Token/ChainX_Token.sol), which turns *)
(* ether into tokens and back, and the simple crowdsale that would sell    *)
(* for it (Contracts/Base/SimpleCrowdsale.sol): a contract that stores one *)
(* signed order, and has the exchange fill it with the ether it is sent.   *)
(*                                                                         *)
(* The signature is of one message.  The sale takes an order that is       *)
(* signed with its own words before the hash, the exchange fills an order  *)
(* that is signed with other words, and the sale hands the signature that  *)
(* it took on to the exchange.  So no purchase goes through (NoPurchase    *)
(* below): the fallback function always throws, which leaves everything as *)
(* it was, and takes no step here.                                         *)
(*                                                                         *)
(* The ChainX token's ledger is one of the exchange's ledgers; it differs  *)
(* from the standard token in that a transfer of 0 succeeds, which moves   *)
(* nothing.                                                                *)
(***************************************************************************)
EXTENDS Exchange

CONSTANTS
  Sale,         \* the contract's account
  CHX_TOKEN,
  PROTOCOL_TOKEN,
  SaleOrders,   \* those its owner may store, or others trade meanwhile
  SignedToSell, \* those the maker has signed with the sale's words
  Savers,       \* accounts that deposit and withdraw
  MaxSupply     \* bound: the supply up to which they deposit

ASSUME SaleAssumption ==
  /\ Sale \in Account
  /\ CHX_TOKEN \in Tokens /\ PROTOCOL_TOKEN \in Tokens
  /\ SaleOrders \subseteq Orders /\ SignedToSell \subseteq Orders
  /\ Savers \subseteq Account \ {Sale}
  /\ MaxSupply \in Nat

VARIABLES
  sale,   \* storage of the crowdsale
  supply  \* totalSupply of the ChainX token, and the ether it holds

saleVars == <<sale, supply>>

NoOrder == [valueT |-> 0]

(* What isValidSignature of either contract puts before the hash.          *)
SaleWords == "CHX Signed Message"
ExchangeWords == "chainxSigned Message"

(* The signatures there are, as the order and the words of the message.    *)
Signatures ==
  (Signed \X {ExchangeWords}) \cup (SignedToSell \X {SaleWords})

IsValidSignature(signature, o, words) ==
  signature \in Signatures /\ signature = <<o, words>>

NoSignature == << >>

SaleInit ==
  /\ Init
  /\ sale = [isInitialized |-> FALSE, isFinished |-> FALSE,
             order |-> NoOrder, signature |-> NoSignature]
  /\ supply = SumFunctionOnSet(InitialBalance[CHX_TOKEN], Account)

Buyers == Account \ {Sale}

Approved(b, token, value) ==
  [b EXCEPT !.ledgers[token] = Approve(@, Sale, ProxyAddress, value)]

(* init, by the owner; the second call of it throws.                       *)
Initialize(o, signature) ==
  /\ Idle
  /\ ~sale.isInitialized
  /\ o.tokenM = PROTOCOL_TOKEN /\ o.tokenT = CHX_TOKEN
  /\ IsValidSignature(signature, o, SaleWords)
  /\ book' = Approved(book, o.tokenT, o.valueT)
  /\ sale' = [sale EXCEPT !.order = o, !.signature = signature,
                          !.isInitialized = TRUE]
  /\ UNCHANGED <<supply, tx, now, proxyVars>>

(* setTokenAllowance, by the owner, of whatever token.                     *)
SetTokenAllowance(token, value) ==
  /\ Idle
  /\ book' = Approved(book, token, value)
  /\ UNCHANGED <<saleVars, tx, now, proxyVars>>

-----------------------------------------------------------------------------
(* The ChainX token.                                                       *)

Credited(b, account, amount) ==
  [b EXCEPT !.ledgers[CHX_TOKEN].balances[account] = @ + amount]

Depositable(account, amount) ==
  /\ book.ledgers[CHX_TOKEN].balances[account] + amount < Modulus
  /\ supply + amount < Modulus

Deposit(account, amount) ==
  /\ Idle
  /\ supply + amount <= MaxSupply
  /\ Depositable(account, amount)
  /\ book' = Credited(book, account, amount)
  /\ supply' = supply + amount
  /\ UNCHANGED <<sale, tx, now, proxyVars>>

(* Mutant: the supply stays.                                               *)
WithdrawUncounted(account, amount) ==
  /\ Idle
  /\ book.ledgers[CHX_TOKEN].balances[account] >= amount
  /\ book' = Credited(book, account, -amount)
  /\ UNCHANGED <<supply, sale, tx, now, proxyVars>>

(* When the ether cannot be sent the call throws; what it is sent with     *)
(* does not suffice to call back.                                          *)
Withdraw(account, amount) ==
  /\ Idle
  /\ book.ledgers[CHX_TOKEN].balances[account] >= amount
  /\ supply >= amount
  /\ book' = Credited(book, account, -amount)
  /\ supply' = supply - amount
  /\ UNCHANGED <<sale, tx, now, proxyVars>>

-----------------------------------------------------------------------------
(* Ether sent to the sale.                                                 *)

ChxToFill(value) == Least(value, RemainingValueT(book, sale.order))

Bought(value) ==
  AfterFill(Credited(book, Sale, ChxToFill(value)), sale.order, Sale,
            ChxToFill(value))

SoldFor(value) ==
  GetPartialValue(sale.order.valueT, ChxToFill(value), sale.order.valueM)

(* What the fallback function asks for, but for the signature: as much of  *)
(* the ether as the order has left becomes tokens, the order is filled     *)
(* with all of them, and what the sale got for them is passed on, which    *)
(* throws where the token refuses to transfer nothing.                     *)
Affordable(buyer, value) ==
  /\ Idle
  /\ sale.isInitialized /\ ~sale.isFinished
  /\ Depositable(Sale, ChxToFill(value))
  /\ FilledEntirely(Credited(book, Sale, ChxToFill(value)), sale.order, Sale,
                    ChxToFill(value))
  /\ Multipliable(sale.order.valueM, ChxToFill(value))
  /\ CanTransfer(Bought(value).ledgers[PROTOCOL_TOKEN], Sale, buyer,
                 SoldFor(value))

(* fill checks the signature that it is handed.                            *)
Buyable(buyer, value) ==
  /\ Affordable(buyer, value)
  /\ IsValidSignature(sale.signature, sale.order, ExchangeWords)

-----------------------------------------------------------------------------
SaleStep ==
  \/ \E o \in SaleOrders, signature \in Signatures : Initialize(o, signature)
  \/ \E value \in Values :
       \/ \E token \in Tokens : SetTokenAllowance(token, value)
       \/ \E a \in Savers : Deposit(a, value) \/ Withdraw(a, value)

(* What others do, on the exchange and with their tokens.                  *)
OthersStep ==
  \/ \E sender \in Buyers, o \in SaleOrders, v \in Values :
       Fill(sender, o, v, FALSE) \/ Cancel(sender, o, v)
  \/ \E p \in Approvals : HolderApproves(p[1], p[2], p[3])
  \/ \E g \in Gifts : HolderTransfers(g[1], g[2], g[3], g[4])
  \/ ProxyStep
  \/ Tick

SaleNext == SaleStep \/ (OthersStep /\ UNCHANGED saleVars)

SaleSpec == SaleInit /\ [][SaleNext]_<<vars, saleVars>>
-----------------------------------------------------------------------------
(* Every ChainX token can be turned back into ether, whatever the tokens   *)
(* have paid for: deposits and withdrawals change as much of the supply as *)
(* of a balance, and the exchange only moves tokens.                       *)
TokensAreBacked ==
  SumFunctionOnSet(book.ledgers[CHX_TOKEN].balances, Account) = supply

(* The fallback function of a sale throws for everyone.                    *)
NoPurchase ==
  \A buyer \in Buyers, value \in Values : ~Buyable(buyer, value)

-----------------------------------------------------------------------------
(* What the contract's comments claim.                                     *)

(* Line 73, of the fallback function: "Allows users to fill stored order   *)
(* by sending ChainX to contract", so a purchase goes through when nothing *)
(* but the stored order's signature could be in its way.                   *)
OpenSaleCanFill ==
  \A buyer \in Buyers, value \in Values :
    Affordable(buyer, value) => Buyable(buyer, value)
=============================================================================
