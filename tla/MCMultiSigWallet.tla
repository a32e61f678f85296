-------------------------- MODULE MCMultiSigWallet --------------------------
(* A small wallet for TLC: two users and a contract that calls back, a few *)
(* owners at once, and requests that between them reach every method.      *)
EXTENDS MultiSigWallet, TLC

CONSTANTS u1, u2, c1

Call(op) == [op |-> op]
OwnerCall(op, a) == [op |-> op, owner |-> a]
OnId(op, id) == [op |-> op, id |-> id]
To(a, v, data) == [destination |-> a, value |-> v, data |-> data]

(* A payment to a contract, which may call back or, as a user would, only  *)
(* take it; an ether transfer to itself; each owner-management method; and *)
(* the wallet's calls of its own public methods.                           *)
MCDecode ==
  [call |-> To(c1, 1, Call("fallback")),
   keep |-> To(Wallet, 1, Call("fallback")),
   null |-> To(Null, 0, Call("fallback")),
   addContract |-> To(Wallet, 0, OwnerCall("addOwner", c1)),
   addPaying |-> To(Wallet, 1, OwnerCall("addOwner", u2)),
   removeFirst |-> To(Wallet, 0, OwnerCall("removeOwner", u1)),
   replace |->
     To(Wallet, 0, [op |-> "replaceOwner", owner |-> u1, newOwner |-> u2]),
   require |-> To(Wallet, 0, [op |-> "changeRequirement", required |-> 1]),
   execute |-> To(Wallet, 0, OnId("executeTransaction", 0)),
   confirm |-> To(Wallet, 0, OnId("confirmTransaction", 0)),
   revoke |-> To(Wallet, 0, OnId("revokeConfirmation", 0)),
   submit |-> To(Wallet, 0, [op |-> "submitTransaction", request |-> "call"])]

MCPayloads == DOMAIN MCDecode

(* The documents' claims the code does not keep.                           *)
ClaimDecode ==
  [pay |-> To(u1, 1, Call("fallback")),
   replace |->
     To(Wallet, 0, [op |-> "replaceOwner", owner |-> u1, newOwner |-> Null])]

ClaimPayloads == DOMAIN ClaimDecode
=============================================================================
