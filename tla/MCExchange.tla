----------------------------- MODULE MCExchange -----------------------------
(* A small market for TLC: a maker, a taker and a third account that takes *)
(* fees and trades as well; two tokens, of which one pays the fees.        *)
EXTENDS Exchange, TLC

CONSTANTS maker, taker, third, gov, A, Z, exch, other, proxy

OrderOf(by, for, give, take, valueM, valueT, recipient, fee, expiration) ==
  [maker |-> by, taker |-> for, tokenM |-> give, tokenT |-> take,
   feeRecipient |-> recipient, valueM |-> valueM, valueT |-> valueT,
   feeM |-> fee, feeT |-> fee, expiration |-> expiration, salt |-> 0]

(* An order big enough to be rounded, open to everyone; one that must be   *)
(* exact, with fees in the token it takes, for the taker alone.            *)
Rounded == OrderOf(maker, Null, A, Z, 4, 3, Null, 0, 2)
Exact   == OrderOf(maker, taker, A, Z, 3, 2, third, 2, 1)
Forged  == OrderOf(maker, Null, A, Z, 2, 1, Null, 0, 2)

(* Single calls, and all that can happen between them.                     *)
MarketOrders == {Rounded, Exact}
MarketGifts  == {<<taker, third, Z, 1>>}

(* Calls on several orders, with as little as possible around them.        *)
BatchOrders == {Rounded, Exact, Forged}
BatchSigned == {Rounded, Exact}
BatchBatches ==
  {[orders |-> <<Exact, Rounded>>, values |-> <<0, 1>>],
   [orders |-> <<Exact, Forged>>,  values |-> <<2, 1>>],
   [orders |-> <<Rounded, Exact, Rounded>>, values |-> <<2, 2, 2>>]}

(* The comment's claim: an order whose fee is a fraction of a unit.        *)
FeeOrders   == {OrderOf(maker, Null, A, Z, 6, 3, third, 1, 2)}

MCBalance ==
  (A :> (maker :> 7 @@ taker :> 0 @@ third :> 0))
    @@ (Z :> (maker :> 3 @@ taker :> 4 @@ third :> 1))

MCApprovals == {<<maker, A, 7>>, <<maker, Z, 2>>, <<taker, Z, 4>>}
MarketApprovals == MCApprovals \cup {<<third, Z, 1>>}

(* The market without calls on several orders.                             *)
SingleCalls == Next /\ tx' = tx
SingleSpec == Init /\ [][SingleCalls]_vars
=============================================================================
