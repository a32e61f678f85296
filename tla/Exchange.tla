------------------------------ MODULE Exchange ------------------------------
(***************************************************************************)
(* The exchange, Contracts/chainx.sol, with the token proxy it moves       *)
(* tokens through and the token ledgers it moves them on.                  *)
(*                                                                         *)
(* An order offers valueM of tokenM for valueT of tokenT; it lives off the *)
(* chain, signed by its maker, and anyone it allows can fill part of it.   *)
(* The exchange remembers only how much of each order is filled and how    *)
(* much its maker has cancelled, both in units of tokenT.                  *)
(*                                                                         *)
(* A call on a single order is one step.  A call on several orders is a    *)
(* transaction `tx` that handles one order a step and can fail at any of   *)
(* them, which undoes the orders before it; nothing else happens meanwhile.*)
(***************************************************************************)
EXTENDS Proxy, StandardToken, FiniteSetsExt

CONSTANTS
  Orders,          \* the orders that makers have drawn up
  Signed,          \* those the maker has signed
  Tokens,
  ZRX,             \* the token fees are paid in
  This,            \* the exchange's own address
  ProxyAddress,
  RoundingLimit,   \* 10**3 in the source
  InitialBalance,  \* who holds how much of which token at the start
  Approvals,       \* the (account, token, amount) triples of approve calls
  Values,          \* amounts callers ask for
  Batches,         \* the order and amount lists of calls on several orders
  Gifts,           \* (from, to, token, amount) of transfers around the exchange
  MaxTime          \* bound: block.timestamp

(* An order is keyed by a hash of all its fields, so the record serves as  *)
(* its own key.  The salt only tells otherwise equal orders apart.  Every  *)
(* field is a word, so there are finitely many orders.                     *)
OrderType ==
  [maker : Account, taker : Account \cup {Null}, tokenM : Tokens,
   tokenT : Tokens, feeRecipient : Account \cup {Null}, valueM : Uint,
   valueT : Uint, feeM : Uint, feeT : Uint, expiration : Nat, salt : Nat]

ASSUME OrderAssumption == Orders \subseteq OrderType /\ IsFiniteSet(Orders)
ASSUME SignedAssumption == Signed \subseteq Orders
ASSUME PartyAssumption ==
  /\ Null \notin Account
  /\ ProxyAddress \in Spender
  /\ ZRX \in Tokens
ASSUME BalanceAssumption == InitialBalance \in [Tokens -> [Account -> Uint]]
ASSUME ValueAssumption ==
  /\ Values \subseteq Uint
  /\ Approvals \subseteq Account \X Tokens \X Uint
  /\ Gifts \subseteq Account \X Account \X Tokens \X Uint
  /\ \A batch \in Batches : /\ batch.orders \in Seq(Orders)
                            /\ batch.values \in Seq(Uint)
                            /\ Len(batch.orders) = Len(batch.values)
ASSUME TimeAssumption == MaxTime \in Nat /\ RoundingLimit \in Nat

VARIABLES
  book,  \* storage of the exchange, and the ledgers of the tokens
  tx,    \* the call on several orders in progress
  now    \* block.timestamp

vars == <<book, tx, now, owner, authorized, authorities>>

(* `given` is history: the tokenM that the maker of an order has paid.     *)
Book ==
  [filled    : [Orders -> Nat],
   cancelled : [Orders -> Nat],
   given     : [Orders -> Nat],
   ledgers   : [Tokens -> Ledger]]

(* `at` is the position in `orders` to handle next; `values` are the       *)
(* amounts of a batch, `want` and `left` the total of a fillUpTo and what  *)
(* is still to fill of it; `before` is the state a failure returns to.     *)
BatchOps == {"batchFill", "batchFillOrKill", "batchCancel", "fillUpTo"}

Calls ==
  [op : BatchOps, sender : Account, orders : Seq(Orders), values : Seq(Uint),
   want : Uint, left : Uint, check : BOOLEAN, at : Nat, before : Book]

Idle == tx.op = "none"

NoCall == [op |-> "none"]

-----------------------------------------------------------------------------
(* Pure helpers.                                                           *)

Least(a, b) == IF a < b THEN a ELSE b

(* safeAdd and safeMul of the missing SafeMath throw on overflow.          *)
Multipliable(a, b) == a * b < Modulus

(* Mutant: no order is too small to be cut.                                *)
IsRoundingErrorNever(denominator, numerator, target) == FALSE

IsRoundingError(denominator, numerator, target) ==
  /\ target < RoundingLimit
  /\ (target * numerator) % denominator # 0

GetPartialValue(value, fillValue, target) == (fillValue * target) \div value

GetUnavailableValueT(b, o) == b.filled[o] + b.cancelled[o]

RemainingValueT(b, o) == o.valueT - GetUnavailableValueT(b, o)

-----------------------------------------------------------------------------
(* fill.  The transfers happen in this order, each through the proxy and   *)
(* each on the ledgers the one before left; a fee the recipient of which   *)
(* is not given, or of which the order names none, is not transferred.     *)

Payment(token, from, to, value) ==
  [token |-> token, from |-> from, to |-> to, value |-> value]

MakerPays(o, sender, f) ==
  Payment(o.tokenM, o.maker, sender, GetPartialValue(o.valueT, f, o.valueM))
TakerPays(o, sender, f) ==
  Payment(o.tokenT, sender, o.maker, f)
MakerFee(o, sender, f) ==
  Payment(ZRX, o.maker, o.feeRecipient, GetPartialValue(o.valueT, f, o.feeM))
TakerFee(o, sender, f) ==
  Payment(ZRX, sender, o.feeRecipient, GetPartialValue(o.valueT, f, o.feeT))

FeeDue(o, fee) == o.feeRecipient # Null /\ fee > 0

(* The proxy lets only authorized callers through, and throws when the     *)
(* token refuses.                                                          *)
Payable(ledgers, p) ==
  /\ This \in authorized
  /\ CanTransferFrom(ledgers[p.token], ProxyAddress, p.from, p.to, p.value)

Paid(ledgers, p) ==
  [ledgers EXCEPT ![p.token] =
     TransferFrom(@, ProxyAddress, p.from, p.to, p.value)]

AfterSwap(ledgers, o, sender, f) ==
  Paid(Paid(ledgers, MakerPays(o, sender, f)), TakerPays(o, sender, f))

AfterMakerFee(ledgers, o, sender, f) ==
  LET swapped == AfterSwap(ledgers, o, sender, f)
  IN  IF FeeDue(o, o.feeM) THEN Paid(swapped, MakerFee(o, sender, f))
                           ELSE swapped

Settled(ledgers, o, sender, f) ==
  LET charged == AfterMakerFee(ledgers, o, sender, f)
  IN  IF FeeDue(o, o.feeT) THEN Paid(charged, TakerFee(o, sender, f))
                           ELSE charged

TransfersSucceed(ledgers, o, sender, f) ==
  /\ Multipliable(f, o.valueM)
  /\ Payable(ledgers, MakerPays(o, sender, f))
  /\ Payable(Paid(ledgers, MakerPays(o, sender, f)), TakerPays(o, sender, f))
  /\ FeeDue(o, o.feeM) =>
       /\ Multipliable(f, o.feeM)
       /\ Payable(AfterSwap(ledgers, o, sender, f), MakerFee(o, sender, f))
  /\ FeeDue(o, o.feeT) =>
       /\ Multipliable(f, o.feeT)
       /\ Payable(AfterMakerFee(ledgers, o, sender, f), TakerFee(o, sender, f))

(* isTransferable looks at each payment on the ledgers as they are; its own *)
(* multiplications throw on overflow, those of the fees only when they are  *)
(* reached.                                                                 *)
Covered(ledgers, p) ==
  /\ ledgers[p.token].balances[p.from] >= p.value
  /\ ledgers[p.token].allowed[p.from][ProxyAddress] >= p.value

SwapCovered(ledgers, o, sender, f) ==
  /\ Covered(ledgers, MakerPays(o, sender, f))
  /\ Covered(ledgers, TakerPays(o, sender, f))

FeesCovered(ledgers, o, sender, f) ==
  /\ Covered(ledgers, MakerFee(o, sender, f))
  /\ Covered(ledgers, TakerFee(o, sender, f))

FeesMultipliable(o, f) == Multipliable(f, o.feeM) /\ Multipliable(f, o.feeT)

IsTransferable(ledgers, o, sender, f) ==
  /\ Multipliable(f, o.valueM)
  /\ SwapCovered(ledgers, o, sender, f)
  /\ o.feeRecipient # Null =>
       FeesMultipliable(o, f) /\ FeesCovered(ledgers, o, sender, f)

IsNotTransferable(ledgers, o, sender, f) ==
  /\ Multipliable(f, o.valueM)
  /\ SwapCovered(ledgers, o, sender, f) =>
       /\ o.feeRecipient # Null
       /\ FeesMultipliable(o, f)
       /\ ~FeesCovered(ledgers, o, sender, f)

(* Mutant: what the maker cancelled is still on offer.                     *)
FilledValueTOverCancelled(b, o, v) == Least(v, o.valueT - b.filled[o])

FilledValueT(b, o, v) == Least(v, RemainingValueT(b, o))

(* fill returns 0 and changes nothing, or carries the trade out, or - when *)
(* neither of the next two holds - throws.                                 *)
Refused(b, o, sender, v, check) ==
  LET f == FilledValueT(b, o, v)
  IN  /\ o.taker \in {Null, sender}
      /\ \/ now >= o.expiration
         \/ f = 0
         \/ IsRoundingError(o.valueT, f, o.valueM)
         \/ check /\ IsNotTransferable(b.ledgers, o, sender, f)

Fillable(b, o, sender, v, check) ==
  LET f == FilledValueT(b, o, v)
  IN  /\ o.taker \in {Null, sender}
      /\ now < o.expiration
      /\ f # 0
      /\ ~IsRoundingError(o.valueT, f, o.valueM)
      /\ check => IsTransferable(b.ledgers, o, sender, f)
      /\ o \in Signed
      /\ TransfersSucceed(b.ledgers, o, sender, f)

AfterFill(b, o, sender, v) ==
  LET f == FilledValueT(b, o, v)
  IN  [b EXCEPT !.filled[o] = @ + f,
                !.given[o] = @ + GetPartialValue(o.valueT, f, o.valueM),
                !.ledgers = Settled(@, o, sender, f)]

(* cancel, of as much as there is left; past expiration it returns 0.  The *)
(* value in tokenM is computed for the log, and can overflow.              *)
CancelledValueT(b, o, v) == Least(v, RemainingValueT(b, o))

Cancellable(b, o, sender, v) ==
  /\ sender = o.maker
  /\ now < o.expiration => Multipliable(CancelledValueT(b, o, v), o.valueM)

AfterCancel(b, o, v) ==
  IF now < o.expiration
  THEN [b EXCEPT !.cancelled[o] = @ + CancelledValueT(b, o, v)]
  ELSE b

-----------------------------------------------------------------------------

Init ==
  /\ ProxyInit
  /\ book = [filled    |-> [o \in Orders |-> 0],
             cancelled |-> [o \in Orders |-> 0],
             given     |-> [o \in Orders |-> 0],
             ledgers   |->
               [t \in Tokens |->
                  [balances |-> InitialBalance[t],
                   allowed  |-> [a \in Account |-> [s \in Spender |-> 0]]]]]
  /\ tx = NoCall
  /\ now = 0

(* Calls on one order.                                                     *)
Fill(sender, o, v, check) ==
  /\ Idle
  /\ Fillable(book, o, sender, v, check)
  /\ book' = AfterFill(book, o, sender, v)
  /\ UNCHANGED <<tx, now, proxyVars>>

Cancel(sender, o, v) ==
  /\ Idle
  /\ Cancellable(book, o, sender, v)
  /\ book' = AfterCancel(book, o, v)
  /\ UNCHANGED <<tx, now, proxyVars>>

(* Mutant: a part of the amount will do.                                   *)
FilledEntirelyOrInPart(b, o, sender, v) == Fillable(b, o, sender, v, FALSE)

(* What fillOrKill asserts of the fill it makes.                           *)
FilledEntirely(b, o, sender, v) ==
  /\ Fillable(b, o, sender, v, FALSE)
  /\ FilledValueT(b, o, v) = v

FillOrKill(sender, o, v) ==
  /\ Idle
  /\ FilledEntirely(book, o, sender, v)
  /\ book' = AfterFill(book, o, sender, v)
  /\ UNCHANGED <<tx, now, proxyVars>>

-----------------------------------------------------------------------------
(* Calls on several orders.                                                *)

Begin(call) ==
  /\ Idle
  /\ tx' = call
  /\ UNCHANGED <<book, now, proxyVars>>

BatchOf(op, sender, orders, values, check) ==
  [op |-> op, sender |-> sender, orders |-> orders, values |-> values,
   want |-> 0, left |-> 0, check |-> check, at |-> 1, before |-> book]

BatchFill(sender, orders, values, check) ==
  Begin(BatchOf("batchFill", sender, orders, values, check))

BatchFillOrKill(sender, orders, values) ==
  Begin(BatchOf("batchFillOrKill", sender, orders, values, FALSE))

BatchCancel(sender, orders, values) ==
  Begin(BatchOf("batchCancel", sender, orders, values, FALSE))

FillUpTo(sender, orders, v, check) ==
  Begin([op |-> "fillUpTo", sender |-> sender, orders |-> orders,
         values |-> << >>, want |-> v, left |-> v, check |-> check,
         at |-> 1, before |-> book])

(* One turn of the loop of an operation.                                   *)
Turn(op) ==
  /\ tx.op = op
  /\ tx.at <= Len(tx.orders)
  /\ UNCHANGED <<now, proxyVars>>

Order == tx.orders[tx.at]
Value == tx.values[tx.at]
Onward == [tx EXCEPT !.at = @ + 1]

FillOrSkip(v) ==
  \/ /\ Fillable(book, Order, tx.sender, v, tx.check)
     /\ book' = AfterFill(book, Order, tx.sender, v)
  \/ /\ Refused(book, Order, tx.sender, v, tx.check)
     /\ UNCHANGED book

BatchFillTurn ==
  /\ Turn("batchFill")
  /\ FillOrSkip(Value)
  /\ tx' = Onward

(* A fill of nothing that fill refuses returns the nothing it was asked.   *)
BatchFillOrKillTurn ==
  /\ Turn("batchFillOrKill")
  /\ \/ /\ FilledEntirely(book, Order, tx.sender, Value)
        /\ book' = AfterFill(book, Order, tx.sender, Value)
     \/ /\ Value = 0
        /\ Refused(book, Order, tx.sender, Value, FALSE)
        /\ UNCHANGED book
  /\ tx' = Onward

BatchCancelTurn ==
  /\ Turn("batchCancel")
  /\ Cancellable(book, Order, tx.sender, Value)
  /\ book' = AfterCancel(book, Order, Value)
  /\ tx' = Onward

(* The loop is left when nothing remains to be filled.                     *)
FillUpToTurn ==
  LET got  == book'.filled[Order] - book.filled[Order]
      left == tx.left - got
  IN  /\ Turn("fillUpTo")
      /\ Order.tokenT = tx.orders[1].tokenT
      /\ FillOrSkip(tx.left)
      /\ tx' = [tx EXCEPT !.left = left,
                          !.at = IF left = 0 THEN Len(tx.orders) + 1
                                             ELSE @ + 1]

Commit ==
  /\ ~Idle
  /\ tx.at > Len(tx.orders)
  /\ tx' = NoCall
  /\ UNCHANGED <<book, now, proxyVars>>

(* An assertion fails, or the gas runs out: the call throws.               *)
Abort ==
  /\ ~Idle
  /\ tx.at <= Len(tx.orders)
  /\ book' = tx.before
  /\ tx' = NoCall
  /\ UNCHANGED <<now, proxyVars>>

-----------------------------------------------------------------------------
(* What happens around the exchange.                                       *)

HolderApproves(a, token, v) ==
  /\ Idle
  /\ book' = [book EXCEPT !.ledgers[token] = Approve(@, a, ProxyAddress, v)]
  /\ UNCHANGED <<tx, now, proxyVars>>

HolderTransfers(a, to, token, v) ==
  /\ Idle
  /\ CanTransfer(book.ledgers[token], a, to, v)
  /\ book' = [book EXCEPT !.ledgers[token] = Transfer(@, a, to, v)]
  /\ UNCHANGED <<tx, now, proxyVars>>

(* Another contract that the proxy's owner authorized.                     *)
OtherTransfersFrom(caller, a, to, token, v) ==
  /\ Idle
  /\ caller \in authorized \ {This}
  /\ CanTransferFrom(book.ledgers[token], ProxyAddress, a, to, v)
  /\ book' = [book EXCEPT !.ledgers[token] =
                TransferFrom(@, ProxyAddress, a, to, v)]
  /\ UNCHANGED <<tx, now, proxyVars>>

ProxyStep ==
  /\ Idle
  /\ ProxyNext
  /\ UNCHANGED <<book, tx, now>>

Tick ==
  /\ Idle
  /\ now < MaxTime
  /\ now' = now + 1
  /\ UNCHANGED <<book, tx, proxyVars>>

Trade(sender) ==
  \/ \E o \in Orders, v \in Values :
       \/ \E check \in BOOLEAN : Fill(sender, o, v, check)
       \/ FillOrKill(sender, o, v)
       \/ Cancel(sender, o, v)
  \/ \E batch \in Batches :
       \/ \E check \in BOOLEAN :
            \/ BatchFill(sender, batch.orders, batch.values, check)
            \/ \E v \in Values : FillUpTo(sender, batch.orders, v, check)
       \/ BatchFillOrKill(sender, batch.orders, batch.values)
       \/ BatchCancel(sender, batch.orders, batch.values)

Next ==
  \/ \E sender \in Account : Trade(sender)
  \/ BatchFillTurn
  \/ BatchFillOrKillTurn
  \/ BatchCancelTurn
  \/ FillUpToTurn
  \/ Commit
  \/ Abort
  \/ \E p \in Approvals : HolderApproves(p[1], p[2], p[3])
  \/ \E g \in Gifts :
       \/ HolderTransfers(g[1], g[2], g[3], g[4])
       \/ \E caller \in Target :
            OtherTransfersFrom(caller, g[1], g[2], g[3], g[4])
  \/ ProxyStep
  \/ Tick

Spec == Init /\ [][Next]_vars
-----------------------------------------------------------------------------
(* Properties.                                                             *)

(* The variables have their types; in particular no ledger entry leaves    *)
(* the range of a uint.                                                    *)
TypeOK ==
  /\ ProxyTypeOK
  /\ book \in Book
  /\ now \in 0..MaxTime
  /\ tx = NoCall \/ tx \in Calls

(* fill and cancel both draw on what is left of an order: together they    *)
(* never exceed it, across batches that name an order twice, failed        *)
(* batches and partial cancellations.                                      *)
NeverOverfilledIn(b) == \A o \in Orders : GetUnavailableValueT(b, o) <= o.valueT

NeverOverfilled == NeverOverfilledIn(book)

(* The price of an order is its maker's limit: over any number of partial  *)
(* fills, each rounded on its own, the maker has not paid more than the    *)
(* filled share of valueM, and exactly that share when isRoundingError     *)
(* watches the order.                                                      *)
LimitPriceHonouredIn(b) ==
  \A o \in Orders :
    /\ b.given[o] * o.valueT <= b.filled[o] * o.valueM
    /\ o.valueM < RoundingLimit =>
         b.given[o] * o.valueT = b.filled[o] * o.valueM

LimitPriceHonoured == LimitPriceHonouredIn(book)

(* Transfers move tokens and make none, whoever trades with whom (the      *)
(* maker may be the taker, and either may be the fee recipient).           *)
SupplyConserved ==
  \A t \in Tokens :
    SumFunctionOnSet(book.ledgers[t].balances, Account)
      = SumFunctionOnSet(InitialBalance[t], Account)

(* No account loses tokens but by its own transfer or within the allowance *)
(* it gave the proxy, which shrinks by at least as much; a call that is    *)
(* undone is not counted.                                                  *)
SpentWithinAllowance ==
  [][\A t \in Tokens, a \in Account :
       LET was == book.ledgers[t]
           is  == book'.ledgers[t]
       IN  \/ was.balances[a] - is.balances[a] <= 0
           \/ was.balances[a] - is.balances[a]
                <= was.allowed[a][ProxyAddress] - is.allowed[a][ProxyAddress]
           \/ Abort
           \/ \E g \in Gifts : /\ a = g[1]
                              /\ HolderTransfers(a, g[2], g[3], g[4])]_vars

(* Where a call on several orders stands after some of them: how much of   *)
(* an order it has filled or cancelled, against what the caller asked for. *)
(* fillOrKill has filled all of it, also where an order is named twice;    *)
(* fill and cancel at most that; fillUpTo has filled what it has counted.  *)
Progress(new, old, o) == new[o] - old[o]

Asked(o) ==
  SumFunctionOnSet(tx.values, {i \in 1 .. tx.at - 1 : tx.orders[i] = o})

CallsKeepTheirWord ==
  ~Idle =>
    LET gain(o) == Progress(book.filled, tx.before.filled, o)
        lost(o) == Progress(book.cancelled, tx.before.cancelled, o)
    IN  /\ tx.op # "batchCancel" => \A o \in Orders : lost(o) = 0
        /\ tx.op = "batchFill" => \A o \in Orders : gain(o) \in 0..Asked(o)
        /\ tx.op = "batchFillOrKill" => \A o \in Orders : gain(o) = Asked(o)
        /\ tx.op = "batchCancel" =>
             \A o \in Orders : gain(o) = 0 /\ lost(o) \in 0..Asked(o)
        /\ tx.op = "fillUpTo" =>
             SumFunction([o \in Orders |-> gain(o)]) = tx.want - tx.left

-----------------------------------------------------------------------------
(* What the contract's comments claim.                                     *)

(* Line 517, of isTransferable: it checks "if any order transfers will     *)
(* fail"; line 76 promises the caller a "test if transfer will fail before *)
(* attempting".                                                            *)
TestedTransfersSucceed ==
  \A sender \in Account, o \in Signed, v \in Values :
    LET f == FilledValueT(book, o, v)
    IN  /\ This \in authorized
        /\ f # 0
        /\ ~IsRoundingError(o.valueT, f, o.valueM)
        /\ IsTransferable(book.ledgers, o, sender, f)
        => TransfersSucceed(book.ledgers, o, sender, f)

(* Line 461, of isRoundingError: it checks "if rounding error > 0.1%", so  *)
(* what a fill pays is short of the exact share by no more.                *)
RoundingWithinPermille ==
  \A sender \in Account, o \in Orders, v \in Values :
    Fillable(book, o, sender, v, FALSE) =>
      LET f == FilledValueT(book, o, v)
      IN  1000 * ((f * o.valueM) % o.valueT) <= f * o.valueM
=============================================================================
