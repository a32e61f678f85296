--------------------------- MODULE MultiSigWallet ---------------------------
(***************************************************************************)
(* The multi-signature wallet contract, Contracts/Base/MultiSigWallet.sol. *)
(*                                                                         *)
(* A transaction submitted to the wallet is carried out once `required`    *)
(* of its current owners have confirmed it.  Carrying it out is a call of  *)
(* foreign code: the callee may call the wallet back before it returns,    *)
(* and when it throws every effect of the call is undone.  Owners and the  *)
(* requirement are changed only by the wallet calling itself.              *)
(*                                                                         *)
(* The contract's storage is the record `store`; `stack` holds the calls   *)
(* the wallet has made and not yet seen return, the innermost first.  Each *)
(* frame keeps the storage the machine goes back to if that call fails.    *)
(***************************************************************************)
EXTENDS Naturals, Sequences, FiniteSets, FiniteSetsExt

CONSTANTS
  Users,          \* externally owned accounts
  Contracts,      \* accounts with code: they may call back
  Wallet,         \* the wallet's own address
  Null,           \* address 0
  MaxOwnerCount,  \* MAX_OWNER_COUNT (50 in the source)
  MaxTx,          \* bound: transactions submitted
  MaxDeposit,     \* bound: ether received
  Payloads,       \* the encoded requests that submissions are made with
  Decode          \* the destination, value and data each of them holds

Callers == Users \cup Contracts
Address == Callers \cup {Wallet, Null}
TxId    == 0 .. MaxTx - 1

(* The data of a call to the wallet, decoded: a method and its arguments,  *)
(* or the payable fallback.  A submission names its request, so that the   *)
(* data of a call may hold the data of another.                            *)
WalletCalls ==
  [op : {"fallback"}]
    \cup [op : {"submitTransaction"}, request : Payloads]
    \cup [op : {"confirmTransaction", "revokeConfirmation",
                "executeTransaction"}, id : TxId]
    \cup [op : {"addOwner", "removeOwner"}, owner : Address]
    \cup [op : {"replaceOwner"}, owner : Address, newOwner : Address]
    \cup [op : {"changeRequirement"}, required : Nat]

Transactions == [destination : Address, value : Nat, data : WalletCalls]

(* What an unset entry of the mapping `transactions` reads as.             *)
NoTransaction ==
  [destination |-> Null, value |-> 0, data |-> [op |-> "fallback"]]

ASSUME AddressAssumption ==
  /\ Wallet # Null
  /\ {Wallet, Null} \cap Callers = {}
  /\ Users \cap Contracts = {}
ASSUME FiniteAssumption == IsFiniteSet(Callers)
ASSUME BoundAssumption ==
  MaxOwnerCount \in Nat /\ MaxTx \in Nat /\ MaxDeposit \in Nat
ASSUME RequestAssumption == Decode \in [Payloads -> Transactions]

VARIABLES
  store,  \* storage and balance of the contract
  stack   \* calls in progress

vars == <<store, stack>>

(* `isOwner`, `confirmations` and the `executed` flags are mappings to     *)
(* bool, kept here as the sets they are the characteristic functions of.   *)
(* `received` and `performed` are history: the ether deposited, and how    *)
(* often the call of a transaction is in effect.                           *)
Storage ==
  [isOwner          : SUBSET Address,
   owners           : Seq(Address),
   required         : Nat,
   transactions     : [TxId -> Transactions],
   executed         : SUBSET TxId,
   confirmations    : [TxId -> SUBSET Address],
   transactionCount : 0 .. MaxTx,
   balance          : Nat,
   received         : Nat,
   performed        : [TxId -> Nat]]

(* `done`: the wallet, called by itself, has run the method it was called  *)
(* with, and what that method called has returned or is further up.        *)
Frames == [tx : TxId, snap : Storage, done : BOOLEAN]

(* No address twice in an owner list; the addresses on it.                 *)
NoRepetition(list) ==
  \A i, j \in 1..Len(list) : list[i] = list[j] => i = j

Elements(list) == {list[i] : i \in 1..Len(list)}

-----------------------------------------------------------------------------
(* Modifiers and views.                                                    *)

ValidRequirement(ownerCount, required) ==
  /\ ownerCount <= MaxOwnerCount
  /\ required <= ownerCount
  /\ required # 0
  /\ ownerCount # 0

(* The positions below k of the owner list whose owner has confirmed.      *)
ConfirmedUpTo(s, id, k) == {i \in 1..k : s.owners[i] \in s.confirmations[id]}

GetConfirmationCount(s, id) == Cardinality(ConfirmedUpTo(s, id, Len(s.owners)))

(* Mutants: a comparison that misses equality, and a count over everyone   *)
(* who ever confirmed.                                                     *)
IsConfirmedPastRequirement(s, id) ==
  \E k \in 1..Len(s.owners) :
    Cardinality(ConfirmedUpTo(s, id, k)) > s.required

IsConfirmedByAnyone(s, id) == Cardinality(s.confirmations[id]) >= s.required

(* The loop returns at the first prefix that holds `required` confirmed    *)
(* owners, and false when there is none.                                   *)
IsConfirmed(s, id) ==
  \E k \in 1..Len(s.owners) :
    Cardinality(ConfirmedUpTo(s, id, k)) = s.required

(* The public getter: the ids that pass the filter are packed at the front *)
(* of an array as long as transactionCount, zero behind them, and the      *)
(* slice [from, to) of that array is returned.                             *)
GetTransactionIds(s, from, to, pending, executed) ==
  LET Listed(id) == IF id \in s.executed THEN executed ELSE pending
      all    == 0 .. s.transactionCount - 1
      rank(id) == Cardinality({j \in all : j < id /\ Listed(j)})
      packed == [p \in all |->
                   IF \E id \in all : Listed(id) /\ rank(id) = p
                   THEN CHOOSE id \in all : Listed(id) /\ rank(id) = p
                   ELSE 0]
  IN  [p \in 0 .. to - from - 1 |-> packed[from + p]]

-----------------------------------------------------------------------------
(* The constructor.                                                        *)

Constructor(initial, required) ==
  /\ ValidRequirement(Len(initial), required)
  /\ NoRepetition(initial)
  /\ Null \notin Elements(initial)
  /\ store = [isOwner          |-> Elements(initial),
              owners           |-> initial,
              required         |-> required,
              transactions     |-> [id \in TxId |-> NoTransaction],
              executed         |-> {},
              confirmations    |-> [id \in TxId |-> {}],
              transactionCount |-> 0,
              balance          |-> 0,
              received         |-> 0,
              performed        |-> [id \in TxId |-> 0]]
  /\ stack = << >>

Init ==
  \E n \in 1..MaxOwnerCount :
    \E initial \in [1..n -> Address], required \in 1..n :
      Constructor(initial, required)

-----------------------------------------------------------------------------
(* Who may call.  Between transactions any account; while the wallet waits *)
(* for a contract, only contract code runs, and it may call the wallet;    *)
(* a wallet that has called itself runs the method the data names, once.   *)

Waiting == stack # << >>
Top     == Head(stack)
Called  == store.transactions[Top.tx]

MayCall(sender) ==
  IF Waiting THEN Called.destination \in Contracts /\ sender \in Contracts
             ELSE sender \in Callers

Calling(sender, data) ==
  IF sender = Wallet
  THEN /\ Waiting /\ ~Top.done
       /\ Called.destination = Wallet /\ Called.value = 0
       /\ Called.data = data
  ELSE MayCall(sender)

(* The calls in progress once the sender has made its call.                *)
CallsBy(sender) ==
  IF sender = Wallet THEN [stack EXCEPT ![1].done = TRUE] ELSE stack

Outflow(tx) == IF tx.destination = Wallet THEN 0 ELSE tx.value

(* Mutant: the flag is not raised before the call.                         *)
RunMarksLate(s, id, calls) ==
  LET tx == s.transactions[id]
  IN  IF IsConfirmed(s, id) /\ tx.value <= s.balance
      THEN /\ stack' = <<[tx |-> id, snap |-> s, done |-> FALSE]>> \o calls
           /\ store' = [s EXCEPT !.balance = @ - Outflow(tx),
                                 !.performed[id] = @ + 1]
      ELSE store' = s /\ stack' = calls

(* executeTransaction from storage s: the flag goes up before the call, so *)
(* that the frame's snapshot already has it; a call the balance does not   *)
(* cover returns false at once, and the flag is taken back.                *)
Run(s, id, calls) ==
  LET tx     == s.transactions[id]
      marked == [s EXCEPT !.executed = @ \cup {id}]
  IN  IF IsConfirmed(s, id) /\ tx.value <= s.balance
      THEN /\ stack' = <<[tx |-> id, snap |-> marked, done |-> FALSE]>>
                         \o calls
           /\ store' = [marked EXCEPT !.balance = @ - Outflow(tx),
                                      !.performed[id] = @ + 1]
      ELSE /\ store' = s
           /\ stack' = calls

(* confirmTransaction from storage s; that the transaction is not executed *)
(* yet is a modifier of the executeTransaction it ends with.               *)
Confirm(s, sender, id) ==
  /\ sender \in s.isOwner
  /\ s.transactions[id].destination # Null
  /\ sender \notin s.confirmations[id]
  /\ id \notin s.executed
  /\ Run([s EXCEPT !.confirmations[id] = @ \cup {sender}],
         id, CallsBy(sender))

(* addTransaction to storage s, of which the id is the count.              *)
AddTransaction(s, request) ==
  [s EXCEPT !.transactions[s.transactionCount] = request,
            !.executed = @ \ {s.transactionCount},
            !.transactionCount = @ + 1]

SubmitTransaction(sender, payload) ==
  LET id == store.transactionCount
      request == Decode[payload]
  IN  /\ Calling(sender, [op |-> "submitTransaction", request |-> payload])
      /\ id < MaxTx
      /\ request.destination # Null
      /\ Confirm(AddTransaction(store, request), sender, id)

ConfirmTransaction(sender, id) ==
  /\ Calling(sender, [op |-> "confirmTransaction", id |-> id])
  /\ Confirm(store, sender, id)

(* Mutant: without the modifier notExecuted.                               *)
RevokeAnyConfirmation(sender, id) ==
  /\ Calling(sender, [op |-> "revokeConfirmation", id |-> id])
  /\ sender \in store.isOwner
  /\ sender \in store.confirmations[id]
  /\ store' = [store EXCEPT !.confirmations[id] = @ \ {sender}]
  /\ stack' = CallsBy(sender)

RevokeConfirmation(sender, id) ==
  /\ Calling(sender, [op |-> "revokeConfirmation", id |-> id])
  /\ sender \in store.isOwner
  /\ sender \in store.confirmations[id]
  /\ id \notin store.executed
  /\ store' = [store EXCEPT !.confirmations[id] = @ \ {sender}]
  /\ stack' = CallsBy(sender)

ExecuteTransaction(sender, id) ==
  /\ Calling(sender, [op |-> "executeTransaction", id |-> id])
  /\ id \notin store.executed
  /\ Run(store, id, CallsBy(sender))

(* The payable fallback, called by anyone but the wallet.                  *)
Deposit(sender) ==
  /\ MayCall(sender)
  /\ store.received < MaxDeposit
  /\ store' = [store EXCEPT !.balance = @ + 1, !.received = @ + 1]
  /\ stack' = stack

-----------------------------------------------------------------------------
(* The methods only the wallet may call: the body runs and the call        *)
(* returns in one step, since none of them calls out.  They are not        *)
(* payable.                                                                *)

SelfCall(op) ==
  /\ Waiting
  /\ Called.destination = Wallet
  /\ Called.data.op = op
  /\ op = "fallback" \/ Called.value = 0

Return(s) ==
  /\ store' = s
  /\ stack' = Tail(stack)

AddOwner ==
  LET owner == Called.data.owner
  IN  /\ SelfCall("addOwner")
      /\ owner \notin store.isOwner
      /\ owner # Null
      /\ ValidRequirement(Len(store.owners) + 1, store.required)
      /\ Return([store EXCEPT !.isOwner = @ \cup {owner},
                              !.owners = Append(@, owner)])

(* The loop looks at all positions but the last, overwrites the first that *)
(* holds the owner with the last element, and then drops the last.         *)
SwapOut(list, owner) ==
  LET n == Len(list)
      hit(i) == list[i] = owner /\ \A j \in 1 .. i - 1 : list[j] # owner
  IN  [i \in 1 .. n - 1 |-> IF hit(i) THEN list[n] ELSE list[i]]

(* Mutant: the requirement is left as it was.                              *)
RemoveOwnerKeepsRequirement ==
  LET owner == Called.data.owner
  IN  /\ SelfCall("removeOwner")
      /\ owner \in store.isOwner
      /\ Return([store EXCEPT !.isOwner = @ \ {owner},
                              !.owners = SwapOut(@, owner)])

(* Lowers the requirement when too few owners are left for it, by a call   *)
(* of changeRequirement, which throws when no owner is left.               *)
RemoveOwner ==
  LET owner == Called.data.owner
      left  == SwapOut(store.owners, owner)
  IN  /\ SelfCall("removeOwner")
      /\ owner \in store.isOwner
      /\ store.required > Len(left) => ValidRequirement(Len(left), Len(left))
      /\ Return([store EXCEPT
                   !.isOwner = @ \ {owner},
                   !.owners = left,
                   !.required = IF @ > Len(left) THEN Len(left) ELSE @])

SwapIn(list, owner, newOwner) ==
  LET hit(i) == list[i] = owner /\ \A j \in 1 .. i - 1 : list[j] # owner
  IN  [i \in 1 .. Len(list) |-> IF hit(i) THEN newOwner ELSE list[i]]

(* The new owner is checked against the owners, not against address 0.     *)
ReplaceOwner ==
  LET owner    == Called.data.owner
      newOwner == Called.data.newOwner
  IN  /\ SelfCall("replaceOwner")
      /\ owner \in store.isOwner
      /\ newOwner \notin store.isOwner
      /\ Return([store EXCEPT
                   !.isOwner = (@ \ {owner}) \cup {newOwner},
                   !.owners = SwapIn(@, owner, newOwner)])

ChangeRequirement ==
  LET required == Called.data.required
  IN  /\ SelfCall("changeRequirement")
      /\ ValidRequirement(Len(store.owners), required)
      /\ Return([store EXCEPT !.required = required])

(* A callee other than the wallet returns, or the wallet from its fallback *)
(* or from the method it has run.                                          *)
CallReturns ==
  /\ Waiting
  /\ Called.destination # Wallet \/ SelfCall("fallback") \/ Top.done
  /\ Return(store)

(* Mutants: nothing but the flag is undone; the flag is not taken back.    *)
CallFailsFlagOnly ==
  /\ Waiting
  /\ Return([store EXCEPT !.executed = @ \ {Top.tx}])

(* The callee throws, runs out of gas or exceeds the call depth: what it   *)
(* did, and what the wallet did in calls nested in it, is undone, and the  *)
(* flag is taken back.                                                     *)
CallFails ==
  /\ Waiting
  /\ Return([Top.snap EXCEPT !.executed = @ \ {Top.tx}])

-----------------------------------------------------------------------------

Next ==
  \/ \E sender \in Callers \cup {Wallet} :
       \/ \E payload \in Payloads : SubmitTransaction(sender, payload)
       \/ \E id \in TxId : \/ ConfirmTransaction(sender, id)
                           \/ RevokeConfirmation(sender, id)
                           \/ ExecuteTransaction(sender, id)
  \/ \E sender \in Callers : Deposit(sender)
  \/ AddOwner
  \/ RemoveOwner
  \/ ReplaceOwner
  \/ ChangeRequirement
  \/ CallReturns
  \/ CallFails

Spec == Init /\ [][Next]_vars

-----------------------------------------------------------------------------
(* Properties.                                                             *)

(* The variables have their types: in particular the balance never goes    *)
(* below zero, whatever is paid out in nested calls.                       *)
TypeOK ==
  /\ store \in Storage
  /\ stack \in Seq(Frames)

(* What removeOwner, replaceOwner and addOwner must keep between them: the *)
(* owner list has no address twice, lists exactly the addresses isOwner    *)
(* holds, and the requirement can be met by the owners there are.          *)
WellFormed(s) ==
  /\ NoRepetition(s.owners)
  /\ Elements(s.owners) = s.isOwner
  /\ ValidRequirement(Len(s.owners), s.required)

OwnersWellFormed == WellFormed(store)

(* The call of a transaction is in effect exactly once when the executed   *)
(* flag is up and not at all when it is down, however the callee re-enters *)
(* the wallet and whichever of the nested calls fail.                      *)
ExactlyOnce ==
  \A id \in TxId : store.performed[id] = IF id \in store.executed THEN 1 ELSE 0

(* executeTransaction never runs a transaction that fewer than `required`  *)
(* of the owners of that moment confirm: confirmations that former owners  *)
(* left behind do not count.                                               *)
Approvers(s, id) == s.isOwner \cap s.confirmations[id]

QuorumBehindExecution ==
  [][\A id \in store'.executed \ store.executed :
       Cardinality(Approvers(store', id)) >= store'.required]_vars

(* Once a transaction has been carried out the record of who confirmed it  *)
(* does not change: confirmTransaction and revokeConfirmation both refuse. *)
ExecutedConfirmationsFrozen ==
  [][\A id \in store.executed \cap store'.executed :
       store'.confirmations[id] = store.confirmations[id]]_vars

Outflows(s) == [id \in TxId |-> Outflow(s.transactions[id])]

(* The ether the wallet holds is what it received less the values of the   *)
(* executed transactions that pay others: a failing call returns the value *)
(* together with everything calls nested in it moved.                      *)
BalanceConserved ==
  store.balance + SumFunctionOnSet(Outflows(store), store.executed)
    = store.received

(* isConfirmed counts along the list up to the requirement and returns at  *)
(* an equality; the public count getter has no such cut.  They agree.      *)
ViewsAgree ==
  \A id \in TxId :
    IsConfirmed(store, id) <=> GetConfirmationCount(store, id) >= store.required

(***************************************************************************)
(* The invariant the proofs need.  A failing call brings a snapshot back,  *)
(* so what holds of the storage has to hold of every snapshot on the stack *)
(* and of what each would become.                                          *)
(***************************************************************************)

(* b is a storage some time after a: what a has executed stays executed,   *)
(* with the same confirmations.                                            *)
Extends(a, b) ==
  /\ a.executed \subseteq b.executed
  /\ \A id \in a.executed : b.confirmations[id] = a.confirmations[id]

(* What holds of a storage in which the calls of `open` are marked as      *)
(* executed and not made yet.                                              *)
Sound(s, open) ==
  /\ WellFormed(s)
  /\ open \subseteq s.executed
  /\ \A id \in TxId :
       s.performed[id] = IF id \in s.executed \ open THEN 1 ELSE 0
  /\ \A id \in TxId :
       id >= s.transactionCount => /\ s.transactions[id].destination = Null
                                   /\ id \notin s.executed
                                   /\ s.confirmations[id] = {}

(* The state is sound at every level of the call stack, every level        *)
(* extends the levels it was called from, and the transaction of a frame   *)
(* was not executed when the enclosing calls were made.                    *)
CallsSound(s, calls) ==
  /\ Sound(s, {})
  /\ \A k \in 1..Len(calls) :
       /\ Sound(calls[k].snap, {calls[k].tx})
       /\ Extends(calls[k].snap, s)
  /\ \A j, k \in 1..Len(calls) :
       j < k => /\ Extends(calls[k].snap, calls[j].snap)
                /\ calls[j].tx \notin calls[k].snap.executed

StackSound == CallsSound(store, stack)

-----------------------------------------------------------------------------
(* What the contract's comments and checks claim.                          *)

(* The constructor (line 109) and addOwner (line 122, notNull) refuse the  *)
(* null address as an owner: it can confirm nothing, and a requirement     *)
(* that counts on it cannot be met.                                        *)
NoNullOwner == Null \notin store.isOwner

(* Line 255: a transaction is added "if transaction does not exist yet".   *)
NoDuplicateTransaction ==
  \A i, j \in 0 .. store.transactionCount - 1 :
    store.transactions[i] = store.transactions[j] => i = j

(* getTransactionIds (lines 338-344): the ids returned are those the       *)
(* parameters ask to include, "pending transactions" or "executed          *)
(* transactions".                                                          *)
PageHonoursFilter ==
  \A to \in 0 .. store.transactionCount, pending, executed \in BOOLEAN :
    \A from \in 0 .. to :
      LET page == GetTransactionIds(store, from, to, pending, executed)
      IN  \A p \in DOMAIN page :
            IF page[p] \in store.executed THEN executed ELSE pending
=============================================================================
