----------------------------- MODULE MCContracts -----------------------------
(* Three parts that share no step, one of them at work in a behaviour:     *)
(* calls on several orders of the exchange, the ChainX token in the trade  *)
(* of a simple crowdsale's order, and the token registry.                  *)
EXTENDS SimpleCrowdsale, MCExchange, TokenRegistry

CONSTANTS shop, ta, tb

VARIABLE part

(* The sale's account comes to those of the market; Z is the protocol      *)
(* token and A the ChainX token.  One order is rounded, one must be exact. *)
ContractsBalance ==
  (A :> (maker :> 7 @@ taker :> 0 @@ third :> 0 @@ shop :> 0))
    @@ (Z :> (maker :> 4 @@ taker :> 4 @@ third :> 1 @@ shop :> 0))
ContractsApprovals ==
  {<<maker, A, 7>>, <<maker, Z, 4>>, <<taker, Z, 4>>, <<taker, A, 2>>}

ForSale ==
  {OrderOf(maker, Null, Z, A, 4, 5, Null, 0, 2),
   OrderOf(maker, shop, Z, A, 2, 2, third, 0, 1)}
ContractsOrders == BatchOrders \cup ForSale
ContractsSigned == BatchSigned \cup ForSale

allVars == <<part, vars, saleVars, registryVars>>

MCInit ==
  /\ part \in {"batches", "sale", "registry"}
  /\ SaleInit /\ RegistryInit

(* What is for the simple crowdsale is left alone by the batches.          *)
NothingSold ==
  /\ \A o \in SaleOrders : /\ book'.filled[o] = 0
                           /\ book'.cancelled[o] = 0
  /\ book'.ledgers[A].allowed[taker] = book.ledgers[A].allowed[taker]
  /\ tx'.op # "none" => tx'.sender # Sale
  /\ authorized \subseteq authorized'

(* Around the sale, only the approvals that its orders need.               *)
NothingElseApproved ==
  /\ book'.ledgers[A].allowed[maker] = book.ledgers[A].allowed[maker]
  /\ book'.ledgers[Z].allowed[taker] = book.ledgers[Z].allowed[taker]
  /\ authorized \subseteq authorized'

MCNext ==
  /\ UNCHANGED part
  /\ \/ /\ part = "batches"
        /\ Next /\ NothingSold
        /\ UNCHANGED <<saleVars, registryVars>>
     \/ /\ part = "sale"
        /\ SaleNext /\ NothingElseApproved
        /\ UNCHANGED registryVars
     \/ /\ part = "registry"
        /\ RegistryNext
        /\ UNCHANGED <<vars, saleVars>>

MCSpec == MCInit /\ [][MCNext]_allVars
=============================================================================
