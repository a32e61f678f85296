---------------------------- MODULE MCWalletSale ----------------------------
(* The wallet, and the crowdsale whose ether goes into one, with the       *)
(* team's vault; they share no step, and one is at work in a behaviour.    *)
EXTENDS MCMultiSigWallet, Crowdsale

CONSTANT i1

VARIABLE part

SaleBalance ==
  [a \in Holders |-> CASE a = beneficiary -> 2 [] a = vault -> 1 [] OTHER -> 0]

(* A wallet that owns itself is the last of its first owners; others may   *)
(* come behind it.                                                         *)
OwnsItselfLast ==
  \A i \in DOMAIN store.owners :
    store.owners[i] = Wallet => i = Len(store.owners)

MCInit ==
  /\ part \in {"wallet", "crowdsale"}
  /\ Init /\ IcoInit
  /\ OwnsItselfLast
  /\ part = "crowdsale" => store.owners = <<u1>>

MCNext ==
  /\ UNCHANGED part
  /\ \/ part = "wallet" /\ Next /\ UNCHANGED icoVars
     \/ part = "crowdsale" /\ IcoNext /\ UNCHANGED vars

MCSpec == MCInit /\ [][MCNext]_<<part, vars, icoVars>>
=============================================================================
