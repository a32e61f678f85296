---------------------------- MODULE StandardToken ----------------------------
(***************************************************************************)
(* The ERC20 ledger of Contracts/Base/StandardToken.sol, as operators on a *)
(* ledger that other modules keep in their state.  Amounts are uint: they  *)
(* wrap at Modulus (2^256 in the source).                                  *)
(***************************************************************************)
EXTENDS Integers, FiniteSets

CONSTANTS
  Account,  \* holders
  Spender,  \* accounts that holders approve
  Modulus

ASSUME ModulusAssumption == Modulus \in Nat \ {0}
ASSUME AccountAssumption == IsFiniteSet(Account)  \* 20 bytes are an address

Uint == 0 .. Modulus - 1

Ledger ==
  [balances : [Account -> Uint],
   allowed  : [Account -> [Spender -> Uint]]]

Plus(a, b) == (a + b) % Modulus

(* The condition under which transfer moves anything: since the balance of *)
(* the receiver must grow, a value of zero fails like one that wraps it.   *)
CanTransfer(ledger, from, to, value) ==
  /\ ledger.balances[from] >= value
  /\ Plus(ledger.balances[to], value) > ledger.balances[to]

Transfer(ledger, from, to, value) ==
  LET credited == [ledger.balances EXCEPT ![to] = Plus(@, value)]
  IN  [ledger EXCEPT !.balances = [credited EXCEPT ![from] = @ - value]]

CanTransferFrom(ledger, spender, from, to, value) ==
  /\ CanTransfer(ledger, from, to, value)
  /\ ledger.allowed[from][spender] >= value

(* Mutants: the allowance is not used up; the sender is not debited.       *)
TransferFromUncounted(ledger, spender, from, to, value) ==
  Transfer(ledger, from, to, value)

TransferFromMinting(ledger, spender, from, to, value) ==
  [ledger EXCEPT !.balances[to] = Plus(@, value),
                 !.allowed[from][spender] = @ - value]

TransferFrom(ledger, spender, from, to, value) ==
  [Transfer(ledger, from, to, value)
     EXCEPT !.allowed[from][spender] = @ - value]

Approve(ledger, from, spender, value) ==
  [ledger EXCEPT !.allowed[from][spender] = value]
=============================================================================
