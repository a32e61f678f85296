------------------------------ MODULE Crowdsale ------------------------------
(***************************************************************************)
(* The crowdsale of Contracts/ICO: Crowdsale.sol, as far as it goes in the *)
(* tree, with AllocatedCrowdsale.sol, which sells out of the allowance a   *)
(* beneficiary gives it; the token, StandardToken.sol and                  *)
(* CentrallyIssuedToken.sol; and TimeVault.sol, which keeps the team's     *)
(* tokens for a time.                                                      *)
(*                                                                         *)
(* Prices, the state machine (getState), the emergency stop and the        *)
(* setters of the policy are not in the tree: a call meets any of them.    *)
(***************************************************************************)
EXTENDS Integers, FiniteSets, FiniteSetsExt

CONSTANTS
  Investors,
  beneficiary, teamMultisig, vault, \* accounts of the token
  Owner,          \* of the crowdsale: the beneficiary or another account
  Whitelist,      \* earlyParticipantWhitelist
  Modulus,
  Decimals,       \* units of a full token
  InitialBalance, \* who holds how much at the start
  WeiAmounts,     \* ether sent, from 0
  TokenAmounts,   \* what calculatePrice may answer, from 0
  FullTokens,     \* tokens, and the price of one, of a preallocation
  Prices,
  Grants,         \* amounts that approve is called with
  unlockedAt,
  MaxTime         \* bound

Holders == Investors \cup {beneficiary, teamMultisig, vault, Owner}
Uint == 0 .. Modulus - 1
States == {"PreFunding", "Funding", "Unwanted"}

ASSUME IcoAssumption ==
  /\ IsFiniteSet(Investors)
  /\ Modulus \in Nat \ {0} /\ Decimals \in Nat /\ MaxTime \in Nat
  /\ InitialBalance \in [Holders -> Uint]
  /\ WeiAmounts \subseteq Nat /\ TokenAmounts \subseteq Nat
  /\ FullTokens \subseteq Nat /\ Prices \subseteq Nat
  /\ Grants \subseteq Uint /\ unlockedAt \in Nat

VARIABLES
  balances,
  allowed,           \* what accounts have approved for the crowdsale
  investedAmountOf,
  tokenAmountOf,
  weiRaised,
  tokensSold,
  investorCount,
  multisig,          \* the ether in the multisig wallet
  now,
  granted, prepaid,  \* history: tokens ever approved, wei of preallocate,
  freebies           \* and new investors who sent no ether

tokenVars == <<balances, allowed, granted>>
saleVars == <<investedAmountOf, tokenAmountOf, weiRaised, tokensSold,
              investorCount, multisig, prepaid, freebies>>
icoVars == <<tokenVars, saleVars, now>>

IcoInit ==
  /\ balances = InitialBalance
  /\ allowed = [a \in Holders |-> 0]
  /\ investedAmountOf = [a \in Holders |-> 0]
  /\ tokenAmountOf = [a \in Holders |-> 0]
  /\ weiRaised = 0 /\ tokensSold = 0 /\ investorCount = 0
  /\ multisig = 0
  /\ now = 0
  /\ granted = [a \in Holders |-> 0]
  /\ prepaid = 0 /\ freebies = 0

(* plus, safeAdd and safeSub throw where the result is not a uint.         *)
Fits(n) == n \in Uint

-----------------------------------------------------------------------------
(* The token.  Both sides are changed one after the other.                 *)

Moved(from, to, value) ==
  [[balances EXCEPT ![to] = @ + value] EXCEPT ![from] = @ - value]

Transfer(from, to, value) ==
  /\ balances[from] >= value
  /\ from = to \/ Fits(balances[to] + value)
  /\ balances' = Moved(from, to, value)
  /\ UNCHANGED <<allowed, granted, saleVars, now>>

(* An allowance is set to 0 before it is set to another amount.            *)
Approve(from, value) ==
  /\ value = 0 \/ allowed[from] = 0
  /\ allowed' = [allowed EXCEPT ![from] = value]
  /\ granted' = [granted EXCEPT ![from] = @ - allowed[from] + value]
  /\ UNCHANGED <<balances, saleVars, now>>

(* transferFrom by the crowdsale.  It adds before it subtracts, so that an *)
(* account may send itself what it does not have.                          *)
Assignable(receiver, amount) ==
  /\ Fits(balances[receiver] + amount)
  /\ receiver = beneficiary \/ balances[beneficiary] >= amount
  /\ allowed[beneficiary] >= amount

(* Mutant: the allowance is only compared.                                 *)
AssignTokensUncounted(receiver, amount) ==
  /\ Assignable(receiver, amount)
  /\ balances' = Moved(beneficiary, receiver, amount)
  /\ UNCHANGED <<allowed, granted>>

AssignTokens(receiver, amount) ==
  /\ Assignable(receiver, amount)
  /\ balances' = Moved(beneficiary, receiver, amount)
  /\ allowed' = [allowed EXCEPT ![beneficiary] = @ - amount]
  /\ UNCHANGED granted

(* The cap is looked up in the allowance of the owner.                     *)
GetTokensLeft == allowed[Owner]

-----------------------------------------------------------------------------
(* The crowdsale.                                                          *)

Welcome(receiver) ==
  \E state \in States :
    \/ state = "PreFunding" /\ receiver \in Whitelist
    \/ state = "Funding"

Credit(receiver, weiAmount, tokenAmount) ==
  /\ Fits(weiRaised + weiAmount) /\ Fits(tokensSold + tokenAmount)
  /\ weiRaised' = weiRaised + weiAmount
  /\ tokensSold' = tokensSold + tokenAmount
  /\ investedAmountOf' = [investedAmountOf EXCEPT ![receiver] = @ + weiAmount]
  /\ tokenAmountOf' = [tokenAmountOf EXCEPT ![receiver] = @ + tokenAmount]

(* Mutant: the investor is looked up after the amount was added.           *)
IsNewAfter(receiver) == investedAmountOf'[receiver] = 0

IsNew(receiver) == investedAmountOf[receiver] = 0

(* investInternal.  What no ether buys is for the pricing strategy to say. *)
InvestInternal(receiver, weiAmount, tokenAmount) ==
  /\ Welcome(receiver)
  /\ tokenAmount # 0
  /\ Credit(receiver, weiAmount, tokenAmount)
  /\ investorCount' = investorCount + (IF IsNew(receiver) THEN 1 ELSE 0)
  /\ tokenAmount <= GetTokensLeft
  /\ AssignTokens(receiver, tokenAmount)
  /\ multisig' = multisig + weiAmount
  /\ freebies' =
       freebies + (IF IsNew(receiver) /\ weiAmount = 0 THEN 1 ELSE 0)
  /\ UNCHANGED <<prepaid, now>>

(* invest, investWithCustomerId and investWithSignedAddress, and the buy   *)
(* forms of them: under some policy, for some customer, each may be used.  *)
Policies == [requireCustomerId : BOOLEAN, requiredSignedAddress : BOOLEAN]

Invest(receiver, weiAmount, tokenAmount) ==
  \E policy \in Policies, customerId \in {0, 1}, signed \in BOOLEAN :
    /\ \/ ~policy.requireCustomerId /\ ~policy.requiredSignedAddress
       \/ ~policy.requiredSignedAddress /\ customerId # 0
       \/ signed /\ customerId # 0
    /\ InvestInternal(receiver, weiAmount, tokenAmount)

(* By the owner.  The products are not checked; nobody counts investors or *)
(* compares the cap, and the money has come another way.                   *)
Preallocate(receiver, fullTokens, weiPrice) ==
  LET tokenAmount == (fullTokens * Decimals) % Modulus
      weiAmount == (weiPrice * fullTokens) % Modulus
  IN  /\ Credit(receiver, weiAmount, tokenAmount)
      /\ prepaid' = prepaid + weiAmount
      /\ AssignTokens(receiver, tokenAmount)
      /\ UNCHANGED <<investorCount, freebies, multisig, now>>

(* Mutant: the vault is opened a moment early.                             *)
UnlockEarly ==
  /\ now + 1 >= unlockedAt
  /\ Transfer(vault, teamMultisig, balances[vault])

(* unlock, by anyone.                                                      *)
Unlock ==
  /\ now >= unlockedAt
  /\ Transfer(vault, teamMultisig, balances[vault])

Tick ==
  /\ now < MaxTime
  /\ now' = now + 1
  /\ UNCHANGED <<tokenVars, saleVars>>

(* The vault, a contract, does nothing but unlock; anybody else disposes   *)
(* of its tokens.  Nobody reads what other accounts allow the crowdsale.   *)
IcoNext ==
  \/ \E receiver \in Holders :
       \/ \E weiAmount \in WeiAmounts, tokenAmount \in TokenAmounts :
            Invest(receiver, weiAmount, tokenAmount)
       \/ \E fullTokens \in FullTokens, weiPrice \in Prices :
            Preallocate(receiver, fullTokens, weiPrice)
  \/ \E from \in {Owner, beneficiary} \ {vault}, value \in Grants :
       Approve(from, value)
  \/ \E from \in Holders \ {vault}, to \in Holders, value \in TokenAmounts :
       Transfer(from, to, value)
  \/ Unlock
  \/ Tick
-----------------------------------------------------------------------------
Total(f) == SumFunctionOnSet(f, Holders)

IcoTypeOK ==
  /\ balances \in [Holders -> Uint] /\ allowed \in [Holders -> Uint]
  /\ investedAmountOf \in [Holders -> Uint]
  /\ tokenAmountOf \in [Holders -> Uint]
  /\ weiRaised \in Uint /\ tokensSold \in Uint
  /\ investorCount \in Nat /\ freebies \in Nat
  /\ multisig \in Nat /\ now \in 0..MaxTime

(* What investors have is what was raised and sold, though two calls keep  *)
(* the books; and the money came in, or was said to have.                  *)
BooksAgree ==
  /\ Total(investedAmountOf) = weiRaised
  /\ Total(tokenAmountOf) = tokensSold
  /\ multisig + prepaid = weiRaised

(* Whatever account the cap is read from, no more is sold than the         *)
(* beneficiary has approved, and its allowance is what is left of that;    *)
(* the cap goes down with the sales only where the two are one account.    *)
(* The vault has approved nothing.                                         *)
SoldFromTheGrant ==
  /\ tokensSold + allowed[beneficiary] = granted[beneficiary]
  /\ GetTokensLeft + (IF Owner = beneficiary THEN tokensSold ELSE 0)
       = granted[Owner]
  /\ allowed[vault] = 0
  /\ Total(balances) = Total(InitialBalance)

(* "How many distinct addresses have invested": each is counted once for   *)
(* its first ether, if nothing was preallocated to it for money before,    *)
(* and once more for every time it was given tokens for none until then.   *)
InvestorsCountOnce ==
  LET invested == {a \in Holders : investedAmountOf[a] > 0}
  IN  /\ investorCount <= Cardinality(invested) + freebies
      /\ prepaid = 0 => investorCount = Cardinality(invested) + freebies

(* The team's tokens stay in the vault until the time has come, whatever   *)
(* others put there.                                                       *)
VaultIsShut == now < unlockedAt => balances[vault] >= InitialBalance[vault]

(* The crowdsale's books, the allowance it sells from, the money and the   *)
(* vault agree, through any sequence of calls.                             *)
CrowdsaleAddsUp ==
  /\ IcoTypeOK
  /\ BooksAgree
  /\ SoldFromTheGrant
  /\ InvestorsCountOnce
  /\ VaultIsShut
-----------------------------------------------------------------------------
(* AllocatedCrowdsale.sol, line 35: "We are sold out when our approve pool *)
(* becomes empty."                                                         *)
SoldOutWhenPoolIsEmpty ==
  granted[beneficiary] > 0 /\ allowed[beneficiary] = 0 => GetTokensLeft = 0
=============================================================================
