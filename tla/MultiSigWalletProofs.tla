------------------------ MODULE MultiSigWalletProofs ------------------------
(* Proofs about the multi-signature wallet, for every set of accounts, all *)
(* bounds and every set of requests, and about the crowdsale that pays     *)
(* into it, for all accounts and amounts.                                  *)
EXTENDS MultiSigWallet, Crowdsale, SumTheorems, FiniteSetTheorems, TLAPS

-----------------------------------------------------------------------------
(* Types.                                                                  *)

LEMMA NoTransactionType == NoTransaction \in Transactions
BY DEF NoTransaction, Transactions, WalletCalls, Address

LEMMA SwapOutType ==
  ASSUME NEW list \in Seq(Address), NEW anOwner
  PROVE  /\ SwapOut(list, anOwner) \in Seq(Address)
         /\ Len(list) > 0 => Len(SwapOut(list, anOwner)) = Len(list) - 1
<1> DEFINE out == SwapOut(list, anOwner)
<1>1. CASE Len(list) > 0
  <2>1. out \in [1 .. Len(list) - 1 -> Address]
    BY DEF SwapOut
  <2>2. Len(list) - 1 \in Nat
    BY <1>1
  <2>3. QED
    BY <2>1, <2>2
<1>2. CASE Len(list) = 0
  <2>1. out \in [1 .. 0 -> Address]
    BY <1>2 DEF SwapOut
  <2>2. QED
    BY <1>2, <2>1
<1>3. QED
  BY <1>1, <1>2

LEMMA SwapInType ==
  ASSUME NEW list \in Seq(Address), NEW anOwner, NEW newOwner \in Address
  PROVE  /\ SwapIn(list, anOwner, newOwner) \in Seq(Address)
         /\ Len(SwapIn(list, anOwner, newOwner)) = Len(list)
BY DEF SwapIn

(* What executeTransaction leaves is a storage and a stack again.          *)
LEMMA RunType ==
  ASSUME NEW s \in Storage, NEW id \in TxId, NEW calls \in Seq(Frames),
         Run(s, id, calls)
  PROVE  TypeOK'
<1> DEFINE marked == [s EXCEPT !.executed = @ \cup {id}]
           tx == s.transactions[id]
           paid == [marked EXCEPT !.balance = @ - Outflow(tx),
                                  !.performed[id] = @ + 1]
<1>1. marked \in Storage
  BY DEF Storage
<1>2. tx \in Transactions
  BY DEF Storage
<1>3. ASSUME tx.value <= s.balance
      PROVE  paid \in Storage
  <2>1. s.balance - Outflow(tx) \in Nat
    BY <1>2, <1>3 DEF Outflow, Transactions, Storage
  <2>2. [s.performed EXCEPT ![id] = @ + 1] \in [TxId -> Nat]
    BY DEF Storage
  <2>3. QED
    BY <1>1, <2>1, <2>2 DEF Storage
<1>4. CASE IsConfirmed(s, id) /\ tx.value <= s.balance
  <2> DEFINE frame == [tx |-> id, snap |-> marked, done |-> FALSE]
  <2>1. frame \in Frames
    BY <1>1 DEF Frames
  <2>2. stack' = <<frame>> \o calls /\ store' = paid
    BY <1>4 DEF Run
  <2>3. QED
    BY <1>3, <1>4, <2>1, <2>2 DEF TypeOK
<1>5. CASE ~ (IsConfirmed(s, id) /\ tx.value <= s.balance)
  BY <1>5 DEF Run, TypeOK
<1>6. QED
  BY <1>4, <1>5

LEMMA ConfirmType ==
  ASSUME NEW s \in Storage, NEW id \in TxId, NEW sender \in Address,
         CallsBy(sender) \in Seq(Frames), Confirm(s, sender, id)
  PROVE  TypeOK'
<1> DEFINE t == [s EXCEPT !.confirmations[id] = @ \cup {sender}]
<1>1. t \in Storage
  BY DEF Storage
<1>2. Run(t, id, CallsBy(sender))
  BY DEF Confirm
<1>3. QED
  BY <1>1, <1>2, RunType

(* A call that returns leaves a shorter stack of frames.                   *)
LEMMA ReturnType ==
  ASSUME NEW s \in Storage, TypeOK, Waiting, Return(s)
  PROVE  TypeOK'
BY DEF TypeOK, Waiting, Return

LEMMA CallerAddress == Callers \cup {Wallet} \subseteq Address
BY DEF Address

(* A caller's call changes nothing of the frames but, when the wallet has  *)
(* called itself, that the innermost one has run its method.               *)
LEMMA CallsByType ==
  ASSUME TypeOK, NEW sender, NEW data, Calling(sender, data)
  PROVE  /\ CallsBy(sender) \in Seq(Frames)
         /\ Len(CallsBy(sender)) = Len(stack)
         /\ \A k \in 1..Len(stack) :
              /\ CallsBy(sender)[k].tx = stack[k].tx
              /\ CallsBy(sender)[k].snap = stack[k].snap
<1>1. stack \in Seq(Frames)
  BY DEF TypeOK
<1>2. CASE sender = Wallet
  <2>1. stack # << >> /\ 1 \in 1..Len(stack) /\ Len(stack) \in Nat
    BY <1>1, <1>2 DEF Calling, Waiting
  <2> DEFINE frame == [stack[1] EXCEPT !.done = TRUE]
             calls == [stack EXCEPT ![1] = frame]
  <2>2. stack[1] \in Frames
    BY <1>1, <2>1
  <2>3. /\ frame \in Frames
        /\ frame.tx = stack[1].tx /\ frame.snap = stack[1].snap
    BY <2>2 DEF Frames
  <2>4. CallsBy(sender) = calls
    BY <1>2 DEF CallsBy
  <2> HIDE DEF frame
  <2>5. /\ calls \in Seq(Frames) /\ Len(calls) = Len(stack)
        /\ calls[1] = frame
        /\ \A k \in 1..Len(stack) : k # 1 => calls[k] = stack[k]
    BY <1>1, <2>1, <2>3
  <2> HIDE DEF calls
  <2> QED
    BY <2>3, <2>4, <2>5
<1>3. CASE sender # Wallet
  BY <1>1, <1>3 DEF CallsBy
<1> QED
  BY <1>2, <1>3

(* While the wallet waits the innermost frame is one, and the call it is   *)
(* in belongs to a transaction.                                            *)
LEMMA TopFrame ==
  ASSUME TypeOK, Waiting
  PROVE  /\ Top.tx \in TxId
         /\ Top.snap \in Storage
         /\ Called \in Transactions
<1>1. Top \in Frames
  BY DEF TypeOK, Waiting, Top
<1>2. Top.tx \in TxId /\ Top.snap \in Storage
  BY <1>1 DEF Frames
<1>3. Called \in Transactions
  BY <1>2 DEF TypeOK, Called, Storage
<1>4. QED
  BY <1>2, <1>3

(* Type correctness is inductive: one step per action.                     *)
LEMMA TypeInductive == TypeOK /\ [Next]_vars => TypeOK'
<1> SUFFICES ASSUME TypeOK, [Next]_vars
             PROVE  TypeOK'
  OBVIOUS
<1> USE DEF TypeOK
<1>1. ASSUME NEW sender \in Callers \cup {Wallet},
             NEW payload \in Payloads, SubmitTransaction(sender, payload)
      PROVE  TypeOK'
  <2> DEFINE id == store.transactionCount
             request == Decode[payload]
             s == AddTransaction(store, request)
  <2>1. id \in TxId /\ id + 1 \in 0 .. MaxTx
    BY <1>1, BoundAssumption DEF SubmitTransaction, TxId, Storage
  <2>2. request \in Transactions
    BY RequestAssumption
  <2>3. s \in Storage
    BY <2>1, <2>2 DEF Storage, AddTransaction
  <2>4. Confirm(s, sender, id) /\ CallsBy(sender) \in Seq(Frames)
    BY <1>1, CallsByType DEF SubmitTransaction
  <2>5. QED
    BY <2>1, <2>3, <2>4, ConfirmType, CallerAddress
<1>2. ASSUME NEW sender \in Callers \cup {Wallet},
             NEW id \in TxId, ConfirmTransaction(sender, id)
      PROVE  TypeOK'
  BY <1>2, CallsByType, ConfirmType, CallerAddress DEF ConfirmTransaction
<1>3. ASSUME NEW sender \in Callers \cup {Wallet},
             NEW id \in TxId, RevokeConfirmation(sender, id)
      PROVE  TypeOK'
  BY <1>3, CallsByType DEF RevokeConfirmation, Storage
<1>4. ASSUME NEW sender \in Callers \cup {Wallet},
             NEW id \in TxId, ExecuteTransaction(sender, id)
      PROVE  TypeOK'
  BY <1>4, CallsByType, RunType DEF ExecuteTransaction
<1>5. ASSUME NEW sender \in Callers, Deposit(sender)
      PROVE  TypeOK'
  <2>1. store.balance + 1 \in Nat /\ store.received + 1 \in Nat
    BY DEF Storage
  <2>2. [store EXCEPT !.balance = @ + 1, !.received = @ + 1] \in Storage
    BY <2>1 DEF Storage
  <2>3. QED
    BY <1>5, <2>2 DEF Deposit
<1>6. ASSUME NEW op, SelfCall(op)
      PROVE  /\ Waiting
             /\ Called \in Transactions
             /\ Called.data.op = op
  BY <1>6, TopFrame DEF SelfCall
<1>7. CASE AddOwner
  <2> DEFINE anOwner == Called.data.owner
  <2>1. Waiting /\ anOwner \in Address
    BY <1>6, <1>7 DEF AddOwner, Transactions, WalletCalls
  <2>2. store.owners \in Seq(Address) =>
          Append(store.owners, anOwner) \in Seq(Address)
    BY <2>1
  <2>3. [store EXCEPT !.isOwner = @ \cup {anOwner},
                      !.owners = Append(@, anOwner)] \in Storage
    BY <2>1, <2>2 DEF Storage
  <2>4. QED
    BY <1>7, <2>1, <2>3, ReturnType DEF AddOwner
<1>8. CASE ReplaceOwner
  <2> DEFINE anOwner == Called.data.owner
             newOwner == Called.data.newOwner
  <2>1. Waiting /\ newOwner \in Address
    BY <1>6, <1>8 DEF ReplaceOwner, Transactions, WalletCalls
  <2>2. SwapIn(store.owners, anOwner, newOwner) \in Seq(Address)
    BY <2>1, SwapInType DEF Storage
  <2>3. [store EXCEPT !.isOwner = (@ \ {anOwner}) \cup {newOwner},
                      !.owners = SwapIn(@, anOwner, newOwner)] \in Storage
    BY <2>1, <2>2 DEF Storage
  <2>4. QED
    BY <1>8, <2>1, <2>3, ReturnType DEF ReplaceOwner
<1>9. CASE ChangeRequirement
  <2>1. Waiting /\ Called.data.required \in Nat
    BY <1>6, <1>9 DEF ChangeRequirement, Transactions, WalletCalls
  <2>2. [store EXCEPT !.required = Called.data.required] \in Storage
    BY <2>1 DEF Storage
  <2>3. QED
    BY <1>9, <2>1, <2>2, ReturnType DEF ChangeRequirement
<1>10. CASE CallReturns
  BY <1>10, ReturnType DEF CallReturns
<1>11. CASE CallFails
  <2>1. Waiting /\ Top.snap \in Storage
    BY <1>11, TopFrame DEF CallFails
  <2>2. [Top.snap EXCEPT !.executed = @ \ {Top.tx}] \in Storage
    BY <2>1 DEF Storage
  <2>3. QED
    BY <1>11, <2>1, <2>2, ReturnType DEF CallFails
<1>12. CASE RemoveOwner
  <2> DEFINE left == SwapOut(store.owners, Called.data.owner)
  <2>1. Waiting
    BY <1>6, <1>12 DEF RemoveOwner
  <2>2. left \in Seq(Address) /\ Len(left) \in Nat
    BY SwapOutType DEF Storage
  <2>3. [store EXCEPT !.isOwner = @ \ {Called.data.owner},
                      !.owners = left,
                      !.required = IF @ > Len(left) THEN Len(left) ELSE @]
        \in Storage
    BY <2>2 DEF Storage
  <2>4. QED
    BY <1>12, <2>1, <2>3, ReturnType DEF RemoveOwner
<1>13. CASE UNCHANGED vars
  BY <1>13 DEF vars
<1>14. QED
  BY <1>1, <1>2, <1>3, <1>4, <1>5, <1>7, <1>8, <1>9, <1>10, <1>11, <1>12, <1>13
  DEF Next

LEMMA InitType == Init => TypeOK
<1> SUFFICES ASSUME NEW n \in 1..MaxOwnerCount,
                    NEW initial \in [1..n -> Address],
                    NEW required \in 1..n,
                    Constructor(initial, required)
             PROVE  TypeOK
  BY DEF Init
<1>1. initial \in Seq(Address) /\ Len(initial) = n
  BY BoundAssumption
<1>2. Elements(initial) \in SUBSET Address
  BY <1>1 DEF Elements
<1>3. [id \in TxId |-> NoTransaction] \in [TxId -> Transactions]
  BY NoTransactionType
<1>4. store \in Storage
  BY <1>1, <1>2, <1>3, BoundAssumption DEF Constructor, Storage
<1>5. QED
  BY <1>4 DEF Constructor, TypeOK

(* The variables of the wallet always have their types; the balance covers *)
(* every payment made, in calls nested to any depth.                       *)
THEOREM TypeCorrect == Spec => []TypeOK
BY InitType, TypeInductive, PTL DEF Spec

-----------------------------------------------------------------------------
(* The owner list.  Each method keeps it free of repetitions and equal, as *)
(* a set, to isOwner; the lemmas say what the loops do to the list.        *)

LEMMA AppendList ==
  ASSUME NEW list \in Seq(Address), NoRepetition(list),
         NEW anOwner \in Address, anOwner \notin Elements(list)
  PROVE  /\ NoRepetition(Append(list, anOwner))
         /\ Elements(Append(list, anOwner)) = Elements(list) \cup {anOwner}
         /\ Len(Append(list, anOwner)) = Len(list) + 1
<1> DEFINE new == Append(list, anOwner)
<1>1. /\ Len(new) = Len(list) + 1
      /\ \A i \in 1..Len(list) : new[i] = list[i]
      /\ new[Len(list) + 1] = anOwner
      /\ Len(list) \in Nat
  OBVIOUS
<1>2. NoRepetition(new)
  BY <1>1 DEF NoRepetition, Elements
<1>3. Elements(new) = Elements(list) \cup {anOwner}
  BY <1>1 DEF Elements
<1>4. QED
  BY <1>1, <1>2, <1>3

LEMMA SwapOutList ==
  ASSUME NEW list \in Seq(Address), NoRepetition(list),
         NEW anOwner \in Elements(list)
  PROVE  /\ NoRepetition(SwapOut(list, anOwner))
         /\ Elements(SwapOut(list, anOwner)) = Elements(list) \ {anOwner}
         /\ Len(SwapOut(list, anOwner)) = Len(list) - 1
<1> DEFINE n == Len(list)
           out == SwapOut(list, anOwner)
<1>1. PICK p \in 1..n : list[p] = anOwner
  BY DEF Elements
<1>2. n \in Nat /\ n > 0 /\ Len(out) = n - 1
  BY <1>1, SwapOutType
<1>3. \A i \in 1 .. n - 1 : out[i] = IF i = p THEN list[n] ELSE list[i]
  BY <1>1, <1>2 DEF SwapOut, NoRepetition
<1>4. NoRepetition(out)
  BY <1>1, <1>2, <1>3 DEF NoRepetition
<1>5. Elements(out) \subseteq Elements(list) \ {anOwner}
  <2> SUFFICES ASSUME NEW i \in 1 .. n - 1
               PROVE  out[i] \in Elements(list) \ {anOwner}
    BY <1>2 DEF Elements
  <2>1. CASE i = p
    BY <1>1, <1>2, <1>3, <2>1 DEF NoRepetition, Elements
  <2>2. CASE i # p
    BY <1>1, <1>2, <1>3, <2>2 DEF NoRepetition, Elements
  <2>3. QED
    BY <2>1, <2>2
<1>6. Elements(list) \ {anOwner} \subseteq Elements(out)
  <2> SUFFICES ASSUME NEW i \in 1..n, list[i] # anOwner
               PROVE  list[i] \in Elements(out)
    BY DEF Elements
  <2>1. CASE i = n
    <3>1. p \in 1 .. n - 1 /\ out[p] = list[n]
      BY <1>1, <1>2, <1>3, <2>1
    <3>2. QED
      BY <1>2, <2>1, <3>1 DEF Elements
  <2>2. CASE i # n
    <3>1. i \in 1 .. n - 1 /\ out[i] = list[i]
      BY <1>1, <1>2, <1>3, <2>2
    <3>2. QED
      BY <1>2, <3>1 DEF Elements
  <2>3. QED
    BY <2>1, <2>2
<1>7. QED
  BY <1>2, <1>4, <1>5, <1>6

LEMMA SwapInList ==
  ASSUME NEW list \in Seq(Address), NoRepetition(list),
         NEW anOwner \in Elements(list),
         NEW newOwner \in Address, newOwner \notin Elements(list)
  PROVE  LET out == SwapIn(list, anOwner, newOwner)
         IN  /\ NoRepetition(out)
             /\ Elements(out) = (Elements(list) \ {anOwner}) \cup {newOwner}
             /\ Len(out) = Len(list)
<1> DEFINE n == Len(list)
           out == SwapIn(list, anOwner, newOwner)
<1>1. PICK p \in 1..n : list[p] = anOwner
  BY DEF Elements
<1>2. n \in Nat /\ Len(out) = n
  BY SwapInType
<1>3. \A i \in 1..n : out[i] = IF i = p THEN newOwner ELSE list[i]
  BY <1>1, <1>2 DEF SwapIn, NoRepetition
<1>4. \A i \in 1..n : list[i] # newOwner /\ (list[i] = anOwner <=> i = p)
  BY <1>1 DEF Elements, NoRepetition
<1>5. NoRepetition(out)
  BY <1>2, <1>3, <1>4 DEF NoRepetition
<1>6. Elements(out) = (Elements(list) \ {anOwner}) \cup {newOwner}
  BY <1>1, <1>2, <1>3, <1>4 DEF Elements
<1>7. QED
  BY <1>2, <1>5, <1>6

-----------------------------------------------------------------------------
(* The call stack.                                                         *)

LEMMA ExtendsReflexive ==
  ASSUME NEW a PROVE Extends(a, a)
BY DEF Extends

LEMMA ExtendsTransitive ==
  ASSUME NEW a, NEW b, NEW c, Extends(a, b), Extends(b, c)
  PROVE  Extends(a, c)
BY DEF Extends

(* A step that makes no call: the new storage extends the old one.         *)
LEMMA StoreMoves ==
  ASSUME NEW s, NEW t, NEW calls \in Seq(Frames), CallsSound(s, calls),
         Sound(t, {}), Extends(s, t)
  PROVE  CallsSound(t, calls)
BY ExtendsTransitive DEF CallsSound

(* The innermost call returns: the levels below it are untouched.          *)
LEMMA StackPops ==
  ASSUME NEW s, NEW calls \in Seq(Frames), CallsSound(s, calls), calls # << >>
  PROVE  CallsSound(s, Tail(calls))
<1> DEFINE rest == Tail(calls)
<1>1. /\ Len(rest) = Len(calls) - 1 /\ Len(calls) \in Nat
      /\ \A k \in 1..Len(rest) : rest[k] = calls[k + 1]
  OBVIOUS
<1>2. \A k \in 1..Len(rest) : k + 1 \in 1..Len(calls)
  BY <1>1
<1>3. \A j, k \in 1..Len(rest) : j < k => j + 1 < k + 1
  BY <1>1
<1>4. QED
  BY <1>1, <1>2, <1>3 DEF CallsSound

(* A call is made: the storage the frame keeps extends every level below,  *)
(* and the transaction is in none of them.                                 *)
LEMMA StackPushes ==
  ASSUME NEW s, NEW t, NEW marked, NEW id, NEW calls \in Seq(Frames),
         CallsSound(s, calls), id \notin s.executed,
         Extends(s, marked), Sound(marked, {id}),
         Extends(marked, t), Sound(t, {})
  PROVE  CallsSound(t, <<[tx |-> id, snap |-> marked, done |-> FALSE]>>
                         \o calls)
<1> DEFINE frame == [tx |-> id, snap |-> marked, done |-> FALSE]
           new == <<frame>> \o calls
<1>1. /\ Len(new) = Len(calls) + 1 /\ Len(calls) \in Nat
      /\ new[1] = frame
      /\ \A k \in 2..Len(new) : new[k] = calls[k - 1]
  OBVIOUS
<1>2. \A k \in 2..Len(new) : k - 1 \in 1..Len(calls)
  BY <1>1
<1>3. ASSUME NEW k \in 1..Len(new)
      PROVE  Sound(new[k].snap, {new[k].tx}) /\ Extends(new[k].snap, t)
  <2>1. CASE k = 1
    <3>1. new[k].snap = marked /\ new[k].tx = id
      BY <1>1, <2>1
    <3>2. QED
      BY <3>1
  <2>2. CASE k # 1
    <3>1. k \in 2..Len(new) /\ k - 1 \in 1..Len(calls) /\ new[k] = calls[k - 1]
      BY <1>1, <1>2, <2>2
    <3>2. Sound(new[k].snap, {new[k].tx}) /\ Extends(new[k].snap, s)
      BY <3>1 DEF CallsSound
    <3>3. QED
      BY <3>2, ExtendsTransitive
  <2>3. QED
    BY <2>1, <2>2
<1>4. ASSUME NEW j \in 1..Len(new), NEW k \in 1..Len(new), j < k
      PROVE  /\ Extends(new[k].snap, new[j].snap)
             /\ new[j].tx \notin new[k].snap.executed
  <2>1. k \in 2..Len(new) /\ k - 1 \in 1..Len(calls) /\ new[k] = calls[k - 1]
    BY <1>1, <1>2, <1>4
  <2>2. CASE j = 1
    <3>1. Extends(new[k].snap, s)
      BY <2>1 DEF CallsSound
    <3>2. new[j].snap = marked /\ new[j].tx = id
      BY <1>1, <2>2
    <3>3. QED
      BY <3>1, <3>2, ExtendsTransitive DEF Extends
  <2>3. CASE j # 1
    <3>1. /\ j - 1 \in 1..Len(calls) /\ new[j] = calls[j - 1]
          /\ j - 1 < k - 1
      BY <1>1, <1>2, <1>4, <2>3
    <3>2. QED
      BY <2>1, <3>1 DEF CallsSound
  <2>4. QED
    BY <2>2, <2>3
<1>5. QED
  BY <1>3, <1>4 DEF CallsSound

(* The soundness of the levels does not depend on what has been run.       *)
LEMMA CallsBySound ==
  ASSUME TypeOK, StackSound, NEW sender, NEW data, Calling(sender, data)
  PROVE  CallsSound(store, CallsBy(sender))
BY CallsByType DEF StackSound, CallsSound

(* The innermost call fails: its snapshot comes back, without the flag.    *)
LEMMA StackUnwinds ==
  ASSUME NEW s, NEW calls \in Seq(Frames), CallsSound(s, calls), calls # << >>
  PROVE  LET top == Head(calls)
         IN  CallsSound([top.snap EXCEPT !.executed = @ \ {top.tx}],
                        Tail(calls))
<1> DEFINE top == Head(calls)
           t == [top.snap EXCEPT !.executed = @ \ {top.tx}]
           rest == Tail(calls)
<1>1. /\ Len(rest) = Len(calls) - 1 /\ Len(calls) \in Nat
      /\ top = calls[1] /\ 1 \in 1..Len(calls) /\ top \in Frames
      /\ \A k \in 1..Len(rest) : rest[k] = calls[k + 1]
  OBVIOUS
<1>2. top.snap \in Storage /\ top.tx \in TxId
  BY <1>1 DEF Frames
<1>3. Sound(top.snap, {top.tx})
  BY <1>1 DEF CallsSound
<1>4. /\ t.executed = top.snap.executed \ {top.tx}
      /\ t.isOwner = top.snap.isOwner /\ t.owners = top.snap.owners
      /\ t.required = top.snap.required
      /\ t.performed = top.snap.performed
      /\ t.confirmations = top.snap.confirmations
      /\ t.transactions = top.snap.transactions
      /\ t.transactionCount = top.snap.transactionCount
  BY <1>2 DEF Storage
<1>5. Sound(t, {})
  BY <1>3, <1>4 DEF Sound, WellFormed
<1>6. ASSUME NEW k \in 1..Len(rest)
      PROVE  Extends(rest[k].snap, t)
  <2>1. k + 1 \in 1..Len(calls) /\ 1 < k + 1
    BY <1>1
  <2>2. Extends(rest[k].snap, top.snap) /\ top.tx \notin rest[k].snap.executed
    BY <1>1, <2>1 DEF CallsSound
  <2>3. QED
    BY <1>4, <2>2 DEF Extends
<1>7. CallsSound(s, rest)
  BY StackPops
<1>8. QED
  BY <1>5, <1>6, <1>7 DEF CallsSound

-----------------------------------------------------------------------------
(* The quorum.                                                             *)

(* The prefix at which isConfirmed stops holds `required` positions of the *)
(* owner list, and as the list repeats no address, as many owners.         *)
LEMMA ConfirmedByOwners ==
  ASSUME NEW s \in Storage, NEW id \in TxId, WellFormed(s), IsConfirmed(s, id)
  PROVE  /\ Cardinality(Approvers(s, id)) >= s.required
         /\ s.confirmations[id] # {}
<1> DEFINE owners == s.owners
<1>1. PICK k \in 1..Len(owners) :
        Cardinality(ConfirmedUpTo(s, id, k)) = s.required
  BY DEF IsConfirmed
<1> DEFINE P == ConfirmedUpTo(s, id, k)
           f == [i \in P |-> owners[i]]
<1>2. owners \in Seq(Address) /\ k \in Nat /\ Len(owners) \in Nat
  BY DEF Storage
<1>3. P \subseteq 1..k /\ \A i \in P : i \in 1..Len(owners)
  BY <1>1, <1>2 DEF ConfirmedUpTo
<1>4. IsFiniteSet(P)
  BY <1>2, <1>3, FS_Interval, FS_Subset, 1 \in Int
<1>5. f \in Injection(P, Approvers(s, id))
  <2>1. \A i \in P : owners[i] \in Approvers(s, id)
    BY <1>3 DEF ConfirmedUpTo, Approvers, WellFormed, Elements
  <2>2. \A i, j \in P : owners[i] = owners[j] => i = j
    BY <1>3 DEF WellFormed, NoRepetition
  <2>3. QED
    BY <2>1, <2>2 DEF Injection, IsInjective
<1>6. IsFiniteSet(Approvers(s, id))
  <2>1. IsFiniteSet(Address)
    <3>1. IsFiniteSet(Callers \cup {Wallet})
      BY FiniteAssumption, FS_AddElement
    <3>2. IsFiniteSet((Callers \cup {Wallet}) \cup {Null})
      BY <3>1, FS_AddElement
    <3>3. Address = (Callers \cup {Wallet}) \cup {Null}
      BY DEF Address
    <3>4. QED
      BY <3>2, <3>3
  <2>2. Approvers(s, id) \subseteq Address
    BY DEF Approvers, Storage
  <2>3. QED
    BY <2>1, <2>2, FS_Subset
<1>7. Cardinality(P) <= Cardinality(Approvers(s, id))
  BY <1>5, <1>6, FS_Injection
<1>8. s.confirmations[id] # {}
  <2> SUFFICES ASSUME s.confirmations[id] = {} PROVE FALSE
    OBVIOUS
  <2>1. P = {}
    BY DEF ConfirmedUpTo
  <2>2. s.required = 0
    BY <1>1, <2>1, FS_EmptySet
  <2>3. QED
    BY <2>2 DEF WellFormed, ValidRequirement
<1>9. s.required \in Nat
  BY DEF Storage
<1>10. Cardinality(Approvers(s, id)) \in Nat
  BY <1>6, FS_CardinalityType
<1>11. QED
  BY <1>1, <1>7, <1>8, <1>9, <1>10

-----------------------------------------------------------------------------
(* The invariant.                                                          *)

(* executeTransaction, from a storage that extends the current one.        *)
LEMMA RunSound ==
  ASSUME NEW s \in Storage, NEW id \in TxId, NEW calls \in Seq(Frames),
         CallsSound(s, calls), id \notin s.executed, Run(s, id, calls)
  PROVE  /\ StackSound'
         /\ Extends(s, store')
         /\ \A i \in store'.executed \ s.executed :
              Cardinality(Approvers(store', i)) >= store'.required
<1> DEFINE tx == s.transactions[id]
           marked == [s EXCEPT !.executed = @ \cup {id}]
           paid == [marked EXCEPT !.balance = @ - Outflow(tx),
                                  !.performed[id] = @ + 1]
           frame == [tx |-> id, snap |-> marked, done |-> FALSE]
<1>2. CASE IsConfirmed(s, id) /\ tx.value <= s.balance
  <2>1. stack' = <<frame>> \o calls /\ store' = paid
    BY <1>2 DEF Run
  <2>2. Sound(s, {}) /\ WellFormed(s)
    BY DEF CallsSound, Sound
  <2>3. Cardinality(Approvers(s, id)) >= s.required /\ s.confirmations[id] # {}
    BY <1>2, <2>2, ConfirmedByOwners
  <2>4. /\ marked.executed = s.executed \cup {id}
        /\ marked.isOwner = s.isOwner /\ marked.owners = s.owners
        /\ marked.required = s.required
        /\ marked.performed = s.performed
        /\ marked.confirmations = s.confirmations
        /\ marked.transactions = s.transactions
        /\ marked.transactionCount = s.transactionCount
    BY DEF Storage
  <2>5. /\ paid.executed = s.executed \cup {id}
        /\ paid.isOwner = s.isOwner /\ paid.owners = s.owners
        /\ paid.required = s.required
        /\ paid.performed = [s.performed EXCEPT ![id] = @ + 1]
        /\ paid.confirmations = s.confirmations
        /\ paid.transactions = s.transactions
        /\ paid.transactionCount = s.transactionCount
    BY DEF Storage
  <2>6. s.performed \in [TxId -> Nat] /\ s.transactionCount \in Nat
    BY BoundAssumption DEF Storage
  <2>7. Sound(marked, {id})
    BY <2>2, <2>3, <2>4, <2>6 DEF Sound, WellFormed
  <2>8. Sound(paid, {})
    BY <2>2, <2>3, <2>5, <2>6 DEF Sound, WellFormed
  <2>9. Extends(s, marked) /\ Extends(marked, paid) /\ Extends(s, paid)
    BY <2>4, <2>5 DEF Extends
  <2>10. CallsSound(paid, <<frame>> \o calls)
    BY <2>7, <2>8, <2>9, StackPushes
  <2>11. Approvers(paid, id) = Approvers(s, id)
    BY <2>5 DEF Approvers
  <2>12. QED
    BY <2>1, <2>3, <2>5, <2>9, <2>10, <2>11 DEF StackSound
<1>3. CASE ~ (IsConfirmed(s, id) /\ tx.value <= s.balance)
  BY <1>3, ExtendsReflexive DEF Run, StackSound
<1>4. QED
  BY <1>2, <1>3

(* confirmTransaction, from a storage that extends the current one.        *)
LEMMA ConfirmSound ==
  ASSUME NEW s \in Storage, NEW id \in TxId, NEW sender \in Address,
         CallsBy(sender) \in Seq(Frames), CallsSound(s, CallsBy(sender)),
         id < s.transactionCount, Confirm(s, sender, id)
  PROVE  /\ StackSound'
         /\ Extends(s, store')
         /\ \A i \in store'.executed \ s.executed :
              Cardinality(Approvers(store', i)) >= store'.required
<1> DEFINE t == [s EXCEPT !.confirmations[id] = @ \cup {sender}]
<1>1. t \in Storage
  BY DEF Storage
<1>2. /\ t.executed = s.executed
      /\ t.isOwner = s.isOwner /\ t.owners = s.owners
      /\ t.required = s.required
      /\ t.performed = s.performed
      /\ t.confirmations = [s.confirmations EXCEPT ![id] = @ \cup {sender}]
      /\ t.transactions = s.transactions
      /\ t.transactionCount = s.transactionCount
  BY DEF Storage
<1>3. s.confirmations \in [TxId -> SUBSET Address] /\ s.transactionCount \in Nat
      /\ TxId \subseteq Nat
  BY BoundAssumption DEF Storage, TxId
<1>4. id \notin s.executed /\ Run(t, id, CallsBy(sender))
  BY DEF Confirm
<1>5. Sound(t, {})
  BY <1>2, <1>3 DEF CallsSound, Sound, WellFormed
<1>6. Extends(s, t)
  BY <1>2, <1>3, <1>4 DEF Extends, Storage
<1>7. CallsSound(t, CallsBy(sender))
  BY <1>5, <1>6, StoreMoves
<1>8. QED
  BY <1>1, <1>2, <1>4, <1>6, <1>7, RunSound, ExtendsTransitive

(* What one step has to respect, besides keeping the invariant: the        *)
(* actions of the two action properties.                                   *)
QuorumStep ==
  \A id \in store'.executed \ store.executed :
    Cardinality(Approvers(store', id)) >= store'.required

FrozenStep ==
  \A id \in store.executed \cap store'.executed :
    store'.confirmations[id] = store.confirmations[id]

LEMMA ExtendsFrozen ==
  ASSUME Extends(store, store') PROVE FrozenStep
BY DEF Extends, FrozenStep

(* An owner-management method ran: flags, confirmations and effects stay.  *)
LEMMA SelfCallSound ==
  ASSUME TypeOK, StackSound, Waiting, NEW t \in Storage, Return(t),
         WellFormed(t),
         t.executed = store.executed, t.confirmations = store.confirmations,
         t.performed = store.performed, t.transactions = store.transactions,
         t.transactionCount = store.transactionCount
  PROVE  StackSound' /\ QuorumStep /\ FrozenStep
<1>1. Sound(t, {}) /\ Extends(store, t)
  BY DEF StackSound, CallsSound, Sound, Extends
<1>2. CallsSound(t, stack)
  BY <1>1, StoreMoves DEF StackSound, TypeOK
<1>3. CallsSound(t, Tail(stack))
  BY <1>2, StackPops DEF TypeOK, Waiting
<1>4. store' = t /\ stack' = Tail(stack)
  BY DEF Return
<1>5. QED
  BY <1>1, <1>3, <1>4, ExtendsFrozen DEF StackSound, QuorumStep

LEMMA StepSound ==
  ASSUME TypeOK, StackSound, [Next]_vars
  PROVE  StackSound' /\ QuorumStep /\ FrozenStep
<1>1. /\ store \in Storage /\ stack \in Seq(Frames)
      /\ CallsSound(store, stack) /\ Sound(store, {}) /\ WellFormed(store)
  BY DEF TypeOK, StackSound, CallsSound, Sound
<1>2. ASSUME NEW sender \in Callers \cup {Wallet},
             NEW payload \in Payloads, SubmitTransaction(sender, payload)
      PROVE  StackSound' /\ QuorumStep /\ FrozenStep
  <2> DEFINE id == store.transactionCount
             request == Decode[payload]
             s == AddTransaction(store, request)
  <2>1. id \in TxId /\ id + 1 \in 0 .. MaxTx /\ id \in Nat
    BY <1>1, <1>2, BoundAssumption DEF SubmitTransaction, TxId, Storage
  <2>2. request \in Transactions
    BY RequestAssumption
  <2>3. s \in Storage
    BY <1>1, <2>1, <2>2 DEF Storage, AddTransaction
  <2>4. /\ Confirm(s, sender, id)
        /\ CallsBy(sender) \in Seq(Frames)
        /\ CallsSound(store, CallsBy(sender))
    BY <1>2, CallsByType, CallsBySound DEF SubmitTransaction
  <2>5. id \notin store.executed
    BY <1>1, <2>1 DEF Sound
  <2>6. /\ s.executed = store.executed
        /\ s.isOwner = store.isOwner /\ s.owners = store.owners
        /\ s.required = store.required
        /\ s.performed = store.performed
        /\ s.confirmations = store.confirmations
        /\ s.transactions = [store.transactions EXCEPT ![id] = request]
        /\ s.transactionCount = id + 1
    BY <1>1, <2>5 DEF Storage, AddTransaction
  <2>7. \A i \in TxId :
          i >= id + 1 => /\ i >= id
                         /\ s.transactions[i] = store.transactions[i]
    BY <1>1, <2>1, <2>6, BoundAssumption DEF TxId, Storage
  <2>8. Sound(s, {}) /\ Extends(store, s)
    BY <1>1, <2>6, <2>7 DEF Sound, WellFormed, Extends
  <2>9. CallsSound(s, CallsBy(sender)) /\ id < s.transactionCount
    BY <2>1, <2>4, <2>6, <2>8, StoreMoves
  <2>10. /\ StackSound' /\ Extends(s, store')
         /\ \A i \in store'.executed \ s.executed :
              Cardinality(Approvers(store', i)) >= store'.required
    BY <2>1, <2>3, <2>4, <2>9, ConfirmSound, CallerAddress
  <2>11. QED
    BY <2>6, <2>8, <2>10, ExtendsTransitive, ExtendsFrozen DEF QuorumStep
<1>3. ASSUME NEW sender \in Callers \cup {Wallet},
             NEW id \in TxId, ConfirmTransaction(sender, id)
      PROVE  StackSound' /\ QuorumStep /\ FrozenStep
  <2>1. /\ Confirm(store, sender, id)
        /\ CallsBy(sender) \in Seq(Frames)
        /\ CallsSound(store, CallsBy(sender))
    BY <1>3, CallsByType, CallsBySound DEF ConfirmTransaction
  <2>2. id < store.transactionCount
    <3>1. id \in Nat /\ store.transactionCount \in Nat
      BY <1>1, BoundAssumption DEF TxId, Storage
    <3>2. store.transactions[id].destination # Null
      BY <2>1 DEF Confirm
    <3>3. QED
      BY <1>1, <3>1, <3>2 DEF Sound
  <2>3. QED
    BY <1>1, <2>1, <2>2, ConfirmSound, CallerAddress, ExtendsFrozen
    DEF QuorumStep
<1>4. ASSUME NEW sender \in Callers \cup {Wallet},
             NEW id \in TxId, RevokeConfirmation(sender, id)
      PROVE  StackSound' /\ QuorumStep /\ FrozenStep
  <2> DEFINE t == [store EXCEPT !.confirmations[id] = @ \ {sender}]
  <2>1. /\ id \notin store.executed
        /\ store' = t /\ stack' = CallsBy(sender)
        /\ CallsBy(sender) \in Seq(Frames)
        /\ CallsSound(store, CallsBy(sender))
    BY <1>4, CallsByType, CallsBySound DEF RevokeConfirmation
  <2>2. /\ t.executed = store.executed
        /\ t.isOwner = store.isOwner /\ t.owners = store.owners
        /\ t.required = store.required
        /\ t.performed = store.performed
        /\ t.confirmations = [store.confirmations EXCEPT ![id] = @ \ {sender}]
        /\ t.transactions = store.transactions
        /\ t.transactionCount = store.transactionCount
    BY <1>1 DEF Storage
  <2>3. store.confirmations \in [TxId -> SUBSET Address]
        /\ store.executed \subseteq TxId
    BY <1>1 DEF Storage
  <2>4. Sound(t, {}) /\ Extends(store, t)
    BY <1>1, <2>1, <2>2, <2>3 DEF Sound, WellFormed, Extends
  <2>5. CallsSound(t, CallsBy(sender))
    BY <2>1, <2>4, StoreMoves
  <2>6. QED
    BY <2>1, <2>2, <2>4, <2>5, ExtendsFrozen DEF StackSound, QuorumStep
<1>5. ASSUME NEW sender \in Callers \cup {Wallet},
             NEW id \in TxId, ExecuteTransaction(sender, id)
      PROVE  StackSound' /\ QuorumStep /\ FrozenStep
  <2>1. /\ Run(store, id, CallsBy(sender)) /\ id \notin store.executed
        /\ CallsBy(sender) \in Seq(Frames)
        /\ CallsSound(store, CallsBy(sender))
    BY <1>5, CallsByType, CallsBySound DEF ExecuteTransaction
  <2> QED
    BY <1>1, <2>1, RunSound, ExtendsFrozen DEF QuorumStep
<1>6. ASSUME NEW sender \in Callers, Deposit(sender)
      PROVE  StackSound' /\ QuorumStep /\ FrozenStep
  <2> DEFINE t == [store EXCEPT !.balance = @ + 1, !.received = @ + 1]
  <2>1. /\ t.executed = store.executed
        /\ t.isOwner = store.isOwner /\ t.owners = store.owners
        /\ t.required = store.required
        /\ t.performed = store.performed
        /\ t.confirmations = store.confirmations
        /\ t.transactions = store.transactions
        /\ t.transactionCount = store.transactionCount
    BY <1>1 DEF Storage
  <2>2. Sound(t, {}) /\ Extends(store, t)
    BY <1>1, <2>1 DEF Sound, WellFormed, Extends
  <2>3. CallsSound(t, stack)
    BY <1>1, <2>2, StoreMoves
  <2>4. store' = t /\ stack' = stack
    BY <1>6 DEF Deposit
  <2>5. QED
    BY <2>1, <2>2, <2>3, <2>4, ExtendsFrozen DEF StackSound, QuorumStep
<1> DEFINE anOwner == Called.data.owner
<1>7. ASSUME NEW op, SelfCall(op)
      PROVE  /\ Waiting
             /\ Called \in Transactions
             /\ Called.data.op = op
  BY <1>7, TopFrame DEF SelfCall
<1>8. CASE AddOwner
  <2> DEFINE t == [store EXCEPT !.isOwner = @ \cup {anOwner},
                                !.owners = Append(@, anOwner)]
  <2>1. Waiting /\ anOwner \in Address
    BY <1>7, <1>8 DEF AddOwner, Transactions, WalletCalls
  <2>2. /\ anOwner \notin store.isOwner
        /\ ValidRequirement(Len(store.owners) + 1, store.required)
        /\ Return(t)
    BY <1>8 DEF AddOwner
  <2>3. store.owners \in Seq(Address)
    BY <1>1 DEF Storage
  <2>4. Append(store.owners, anOwner) \in Seq(Address)
    BY <2>1, <2>3
  <2>5. t \in Storage
    BY <1>1, <2>1, <2>4 DEF Storage
  <2>6. /\ t.isOwner = store.isOwner \cup {anOwner}
        /\ t.owners = Append(store.owners, anOwner)
        /\ t.required = store.required
        /\ t.executed = store.executed /\ t.confirmations = store.confirmations
        /\ t.performed = store.performed /\ t.transactions = store.transactions
        /\ t.transactionCount = store.transactionCount
    BY <1>1 DEF Storage
  <2>7. WellFormed(t)
    BY <1>1, <2>1, <2>2, <2>3, <2>6, AppendList DEF WellFormed
  <2>8. QED
    BY <2>1, <2>2, <2>5, <2>6, <2>7, SelfCallSound
<1>9. CASE RemoveOwner
  <2> DEFINE left == SwapOut(store.owners, anOwner)
             t == [store EXCEPT
                     !.isOwner = @ \ {anOwner},
                     !.owners = left,
                     !.required = IF @ > Len(left) THEN Len(left) ELSE @]
  <2>1. Waiting
    BY <1>7, <1>9 DEF RemoveOwner
  <2>2. /\ anOwner \in store.isOwner
        /\ store.required > Len(left) => ValidRequirement(Len(left), Len(left))
        /\ Return(t)
    BY <1>9 DEF RemoveOwner
  <2>3. store.owners \in Seq(Address) /\ store.required \in Nat
        /\ Len(store.owners) \in Nat
    BY <1>1 DEF Storage
  <2>4. /\ left \in Seq(Address) /\ Len(left) = Len(store.owners) - 1
        /\ NoRepetition(left) /\ Elements(left) = store.isOwner \ {anOwner}
    BY <1>1, <2>2, <2>3, SwapOutType, SwapOutList DEF WellFormed
  <2>5. Len(left) \in Nat
    BY <2>4
  <2>6. t \in Storage
    BY <1>1, <2>3, <2>4, <2>5 DEF Storage
  <2>7. /\ t.isOwner = store.isOwner \ {anOwner}
        /\ t.owners = left
        /\ t.required = IF store.required > Len(left) THEN Len(left)
                                                      ELSE store.required
        /\ t.executed = store.executed /\ t.confirmations = store.confirmations
        /\ t.performed = store.performed /\ t.transactions = store.transactions
        /\ t.transactionCount = store.transactionCount
    BY <1>1 DEF Storage
  <2>8. ValidRequirement(Len(left), t.required)
    <3>1. ValidRequirement(Len(store.owners), store.required)
      BY <1>1 DEF WellFormed
    <3>2. QED
      BY <2>2, <2>3, <2>4, <2>5, <2>7, <3>1, BoundAssumption
      DEF ValidRequirement
  <2>9. WellFormed(t)
    BY <2>4, <2>7, <2>8 DEF WellFormed
  <2>10. QED
    BY <2>1, <2>2, <2>6, <2>7, <2>9, SelfCallSound
<1>10. CASE ReplaceOwner
  <2> DEFINE newOwner == Called.data.newOwner
             new == SwapIn(store.owners, anOwner, newOwner)
             t == [store EXCEPT !.isOwner = (@ \ {anOwner}) \cup {newOwner},
                                !.owners = SwapIn(@, anOwner, newOwner)]
  <2>1. Waiting /\ newOwner \in Address
    BY <1>7, <1>10 DEF ReplaceOwner, Transactions, WalletCalls
  <2>2. anOwner \in store.isOwner /\ newOwner \notin store.isOwner /\ Return(t)
    BY <1>10 DEF ReplaceOwner
  <2>3. store.owners \in Seq(Address)
    BY <1>1 DEF Storage
  <2>4. /\ new \in Seq(Address) /\ Len(new) = Len(store.owners)
        /\ NoRepetition(new)
        /\ Elements(new) = (store.isOwner \ {anOwner}) \cup {newOwner}
    BY <1>1, <2>1, <2>2, <2>3, SwapInType, SwapInList DEF WellFormed
  <2>5. t \in Storage
    BY <1>1, <2>1, <2>4 DEF Storage
  <2>6. /\ t.isOwner = (store.isOwner \ {anOwner}) \cup {newOwner}
        /\ t.owners = new
        /\ t.required = store.required
        /\ t.executed = store.executed /\ t.confirmations = store.confirmations
        /\ t.performed = store.performed /\ t.transactions = store.transactions
        /\ t.transactionCount = store.transactionCount
    BY <1>1 DEF Storage
  <2>7. WellFormed(t)
    BY <1>1, <2>4, <2>6 DEF WellFormed
  <2>8. QED
    BY <2>1, <2>2, <2>5, <2>6, <2>7, SelfCallSound
<1>11. CASE ChangeRequirement
  <2> DEFINE required == Called.data.required
             t == [store EXCEPT !.required = required]
  <2>1. Waiting /\ required \in Nat
    BY <1>7, <1>11 DEF ChangeRequirement, Transactions, WalletCalls
  <2>2. ValidRequirement(Len(store.owners), required) /\ Return(t)
    BY <1>11 DEF ChangeRequirement
  <2>3. t \in Storage
    BY <1>1, <2>1 DEF Storage
  <2>4. /\ t.isOwner = store.isOwner /\ t.owners = store.owners
        /\ t.required = required
        /\ t.executed = store.executed /\ t.confirmations = store.confirmations
        /\ t.performed = store.performed /\ t.transactions = store.transactions
        /\ t.transactionCount = store.transactionCount
    BY <1>1 DEF Storage
  <2>5. WellFormed(t)
    BY <1>1, <2>2, <2>4 DEF WellFormed
  <2>6. QED
    BY <2>1, <2>2, <2>3, <2>4, <2>5, SelfCallSound
<1>12. CASE CallReturns
  <2>1. Waiting /\ Return(store)
    BY <1>12 DEF CallReturns
  <2>2. QED
    BY <1>1, <2>1, SelfCallSound
<1>13. CASE CallFails
  <2> DEFINE t == [Top.snap EXCEPT !.executed = @ \ {Top.tx}]
  <2>1. Waiting /\ Return(t)
    BY <1>13 DEF CallFails
  <2>2. CallsSound(t, Tail(stack))
    BY <1>1, <2>1, StackUnwinds DEF Waiting, Top
  <2>3. Top.snap \in Storage
    BY <2>1, TopFrame
  <2>4. Extends(Top.snap, store)
    <3>1. 1 \in 1..Len(stack) /\ Top = stack[1]
      BY <1>1, <2>1 DEF Waiting, Top
    <3>2. QED
      BY <1>1, <3>1 DEF CallsSound
  <2>5. /\ t.executed = Top.snap.executed \ {Top.tx}
        /\ t.confirmations = Top.snap.confirmations
    BY <2>3 DEF Storage
  <2>6. QED
    BY <2>1, <2>2, <2>4, <2>5
    DEF Return, StackSound, QuorumStep, FrozenStep, Extends
<1>14. CASE UNCHANGED vars
  BY <1>14 DEF vars, StackSound, QuorumStep, FrozenStep
<1>15. QED
  BY <1>2, <1>3, <1>4, <1>5, <1>6, <1>8, <1>9, <1>10, <1>11, <1>12, <1>13,
     <1>14
  DEF Next

LEMMA InitSound == Init => StackSound
<1> SUFFICES ASSUME NEW n \in 1..MaxOwnerCount,
                    NEW initial \in [1..n -> Address],
                    NEW required \in 1..n,
                    Constructor(initial, required)
             PROVE  StackSound
  BY DEF Init
<1>1. WellFormed(store)
  BY DEF Constructor, WellFormed
<1>2. Sound(store, {})
  BY <1>1 DEF Constructor, Sound, NoTransaction
<1>3. Len(stack) = 0
  BY DEF Constructor
<1>4. QED
  BY <1>2, <1>3 DEF StackSound, CallsSound

(* At every level of the call stack the storage is sound and extends the   *)
(* levels that called it, whatever re-enters and whatever fails.           *)
THEOREM SoundAlways == Spec => []StackSound
<1>1. TypeOK /\ StackSound /\ [Next]_vars => StackSound'
  BY StepSound
<1>2. QED
  BY <1>1, InitSound, TypeCorrect, PTL DEF Spec

(* The owner list and isOwner agree, without repetitions, and the          *)
(* requirement can be met by the owners there are, through every sequence  *)
(* of additions, removals, replacements and changes of the requirement.    *)
THEOREM OwnersAlwaysWellFormed == Spec => []OwnersWellFormed
<1>1. StackSound => OwnersWellFormed
  BY DEF StackSound, CallsSound, Sound, OwnersWellFormed
<1>2. QED
  BY <1>1, SoundAlways, PTL

(* The effects of a transaction are in force once if it is executed and    *)
(* not at all if it is not, with any re-entrance by the contracts called.  *)
THEOREM ExecutedExactlyOnce == Spec => []ExactlyOnce
<1>1. StackSound => ExactlyOnce
  BY DEF StackSound, CallsSound, Sound, ExactlyOnce
<1>2. QED
  BY <1>1, SoundAlways, PTL

(* Nothing is executed without the confirmations of `required` owners of   *)
(* that moment.                                                            *)
THEOREM ExecutionNeedsQuorum == Spec => QuorumBehindExecution
<1>1. TypeOK /\ StackSound /\ [Next]_vars => [QuorumStep]_vars
  BY StepSound
<1>2. QED
  BY <1>1, TypeCorrect, SoundAlways, PTL
  DEF Spec, QuorumBehindExecution, QuorumStep

(* The confirmations an executed transaction was carried out with are kept.*)
THEOREM ConfirmationsStayFrozen == Spec => ExecutedConfirmationsFrozen
<1>1. TypeOK /\ StackSound /\ [Next]_vars => [FrozenStep]_vars
  BY StepSound
<1>2. QED
  BY <1>1, TypeCorrect, SoundAlways, PTL
  DEF Spec, ExecutedConfirmationsFrozen, FrozenStep
-----------------------------------------------------------------------------
(* The balance.  At every level of the call stack it is what was received  *)
(* less what the calls that are in effect there paid.                      *)

LEMMA OutflowsType ==
  ASSUME NEW s \in Storage
  PROVE  /\ IsFiniteSet(TxId)
         /\ \A id \in TxId : /\ Outflows(s)[id] = Outflow(s.transactions[id])
                             /\ Outflows(s)[id] \in Nat
                             /\ Outflows(s)[id] <= s.transactions[id].value
         /\ \A S \in SUBSET TxId : /\ IsFiniteSet(S)
                                   /\ SumFunctionOnSet(Outflows(s), S) \in Nat
<1>1. IsFiniteSet(TxId)
  BY BoundAssumption, FS_Interval DEF TxId
<1>2. \A id \in TxId : s.transactions[id] \in Transactions
  BY DEF Storage
<1>3. \A id \in TxId : /\ Outflows(s)[id] = Outflow(s.transactions[id])
                      /\ Outflows(s)[id] \in Nat
                      /\ Outflows(s)[id] <= s.transactions[id].value
  BY <1>2 DEF Outflows, Outflow, Transactions
<1>4. ASSUME NEW S \in SUBSET TxId
      PROVE  IsFiniteSet(S) /\ SumFunctionOnSet(Outflows(s), S) \in Nat
  <2>1. IsFiniteSet(S) /\ \A id \in S : Outflows(s)[id] \in Nat
    BY <1>1, <1>3, FS_Subset
  <2> QED
    BY <2>1, SumIsNat
<1> QED
  BY <1>1, <1>3, <1>4

(* The balance of a storage in which the calls of `open` are not made yet. *)
Squares(s, open) ==
  s.balance + SumFunctionOnSet(Outflows(s), s.executed \ open) = s.received

CallsSquare(calls) ==
  \A k \in 1 .. Len(calls) : Squares(calls[k].snap, {calls[k].tx})

LevelsSquare == Squares(store, {}) /\ CallsSquare(stack)

LEMMA CallsBySquare ==
  ASSUME TypeOK, LevelsSquare, NEW sender, NEW data, Calling(sender, data)
  PROVE  CallsBy(sender) \in Seq(Frames) /\ CallsSquare(CallsBy(sender))
BY CallsByType DEF LevelsSquare, CallsSquare

(* executeTransaction moves the value out as it marks the transaction.     *)
LEMMA RunSquares ==
  ASSUME NEW s \in Storage, Squares(s, {}), NEW calls \in Seq(Frames),
         CallsSquare(calls),
         NEW id \in TxId, id \notin s.executed, Run(s, id, calls)
  PROVE  LevelsSquare'
<1> DEFINE tx == s.transactions[id]
           marked == [s EXCEPT !.executed = @ \cup {id}]
           paid == [marked EXCEPT !.balance = @ - Outflow(tx),
                                  !.performed[id] = @ + 1]
           frame == [tx |-> id, snap |-> marked, done |-> FALSE]
<1>1. CASE IsConfirmed(s, id) /\ tx.value <= s.balance
  <2>1. stack' = <<frame>> \o calls /\ store' = paid
    BY <1>1 DEF Run
  <2>2. /\ marked.executed = s.executed \cup {id}
        /\ marked.transactions = s.transactions
        /\ marked.balance = s.balance /\ marked.received = s.received
        /\ paid.executed = s.executed \cup {id}
        /\ paid.transactions = s.transactions
        /\ paid.balance = s.balance - Outflow(tx)
        /\ paid.received = s.received
        /\ s.balance \in Nat /\ s.executed \subseteq TxId
    BY DEF Storage
  <2>3. Squares(marked, {id})
    <3>1. Outflows(marked) = Outflows(s)
      BY <2>2 DEF Outflows
    <3>2. marked.executed \ {id} = s.executed \ {}
      BY <2>2
    <3> QED
      BY <2>2, <3>1, <3>2 DEF Squares
  <2>4. Squares(paid, {})
    <3> DEFINE f == Outflows(s)
               S == s.executed
    <3>1. /\ Outflows(paid) = f /\ f[id] = Outflow(tx)
          /\ f[id] \in Nat /\ IsFiniteSet(S)
          /\ \A i \in S \cup {id} : f[i] \in Int
          /\ SumFunctionOnSet(f, S) \in Nat
      BY <2>2, OutflowsType DEF Outflows
    <3>2. SumFunctionOnSet(f, S \cup {id}) = f[id] + SumFunctionOnSet(f, S)
      <4> HIDE DEF f, S
      <4> QED
        BY <3>1, SumAdd DEF S
    <3>3. s.balance + SumFunctionOnSet(f, S) = s.received
      BY DEF Squares
    <3> HIDE DEF f
    <3>4. paid.balance + SumFunctionOnSet(f, S \cup {id}) = s.received
      BY <2>2, <3>1, <3>2, <3>3
    <3>5. paid.executed \ {} = S \cup {id}
      BY <2>2
    <3> QED
      <4> HIDE DEF paid
      <4> QED
        BY <2>2, <3>1, <3>4, <3>5 DEF Squares
  <2>5. ASSUME NEW k \in 1 .. Len(stack')
        PROVE  Squares(stack'[k].snap, {stack'[k].tx})
    <3>0. frame.snap = marked /\ frame.tx = id
      OBVIOUS
    <3> HIDE DEF frame, marked
    <3>1. /\ stack'[1] = frame
          /\ k # 1 => k - 1 \in 1 .. Len(calls) /\ stack'[k] = calls[k - 1]
      BY <2>1
    <3>2. CASE k = 1
      BY <2>3, <3>0, <3>1, <3>2
    <3>3. CASE k # 1
      BY <3>1, <3>3 DEF CallsSquare
    <3> QED
      BY <3>2, <3>3
  <2> QED
    BY <2>1, <2>4, <2>5 DEF LevelsSquare, CallsSquare
<1>2. CASE ~ (IsConfirmed(s, id) /\ tx.value <= s.balance)
  BY <1>2 DEF Run, LevelsSquare
<1> QED
  BY <1>1, <1>2

(* A call comes back with a storage that squares.                          *)
LEMMA ReturnSquares ==
  ASSUME TypeOK, LevelsSquare, Waiting, NEW s, Squares(s, {}), Return(s)
  PROVE  LevelsSquare'
<1>1. /\ store' = s /\ stack' = Tail(stack) /\ stack # << >>
      /\ stack \in Seq(Frames)
  BY DEF Return, Waiting, TypeOK
<1>2. \A k \in 1 .. Len(stack') : /\ k + 1 \in 1 .. Len(stack)
                                 /\ stack'[k] = stack[k + 1]
  BY <1>1
<1> QED
  BY <1>1, <1>2 DEF LevelsSquare, CallsSquare

(* Money, flags and values are as they were.                               *)
SameMoney(s, t) ==
  /\ t.balance = s.balance /\ t.received = s.received
  /\ t.executed = s.executed /\ t.transactions = s.transactions

LEMMA SameMoneySquares ==
  ASSUME NEW s, NEW t, Squares(s, {}), SameMoney(s, t)
  PROVE  Squares(t, {})
BY DEF SameMoney, Squares, Outflows

LEMMA LevelsSquareStep ==
  ASSUME TypeOK, StackSound, LevelsSquare, [Next]_vars
  PROVE  LevelsSquare'
<1>1. /\ store \in Storage /\ Squares(store, {}) /\ Sound(store, {})
      /\ stack \in Seq(Frames)
  BY DEF TypeOK, LevelsSquare, StackSound, CallsSound
<1>2. ASSUME NEW s \in Storage, NEW sender \in Callers \cup {Wallet},
             NEW id \in TxId, NEW data, Calling(sender, data),
             Squares(s, {}), Confirm(s, sender, id)
      PROVE  LevelsSquare'
  <2> DEFINE t == [s EXCEPT !.confirmations[id] = @ \cup {sender}]
  <2>1. t \in Storage /\ SameMoney(s, t)
    BY CallerAddress DEF Storage, SameMoney
  <2>2. id \notin t.executed /\ Run(t, id, CallsBy(sender))
    BY <1>2, <2>1 DEF Confirm, SameMoney
  <2>3. CallsBy(sender) \in Seq(Frames) /\ CallsSquare(CallsBy(sender))
    BY <1>2, CallsBySquare
  <2> HIDE DEF t
  <2> QED
    BY <1>2, <2>1, <2>2, <2>3, SameMoneySquares, RunSquares
<1>3. ASSUME NEW sender \in Callers \cup {Wallet},
             NEW payload \in Payloads, SubmitTransaction(sender, payload)
      PROVE  LevelsSquare'
  <2> DEFINE id == store.transactionCount
             request == Decode[payload]
             s == AddTransaction(store, request)
  <2>1. id \in TxId /\ id + 1 \in 0 .. MaxTx /\ id \in Nat
    BY <1>1, <1>3, BoundAssumption DEF SubmitTransaction, TxId, Storage
  <2>2. id \notin store.executed
    BY <1>1, <2>1 DEF Sound
  <2>3. s \in Storage
    BY <1>1, <2>1, RequestAssumption DEF Storage, AddTransaction
  <2>4. /\ s.executed = store.executed /\ store.executed \subseteq TxId
        /\ s.balance = store.balance /\ s.received = store.received
        /\ \A i \in TxId \ {id} : s.transactions[i] = store.transactions[i]
    BY <1>1, <2>2 DEF Storage, AddTransaction
  <2>5. /\ Confirm(s, sender, id)
        /\ Calling(sender, [op |-> "submitTransaction", request |-> payload])
    BY <1>3 DEF SubmitTransaction
  <2> HIDE DEF s, id
  <2>6. Squares(s, {})
    <3>1. \A i \in store.executed : Outflows(s)[i] = Outflows(store)[i]
      BY <1>1, <2>2, <2>3, <2>4, OutflowsType
    <3>2. IsFiniteSet(store.executed)
      BY <1>1, <2>4, OutflowsType
    <3>3. SumFunctionOnSet(Outflows(s), store.executed)
            = SumFunctionOnSet(Outflows(store), store.executed)
      BY <3>1, <3>2, SumCongruent
    <3>4. /\ s.executed \ {} = store.executed
          /\ store.executed \ {} = store.executed
      BY <2>4
    <3> QED
      BY <1>1, <2>4, <3>3, <3>4 DEF Squares
  <2> QED
    BY <1>2, <2>1, <2>3, <2>5, <2>6
<1>4. ASSUME NEW sender \in Callers \cup {Wallet},
             NEW id \in TxId, ConfirmTransaction(sender, id)
      PROVE  LevelsSquare'
  BY <1>1, <1>2, <1>4 DEF ConfirmTransaction
<1>5. ASSUME NEW sender \in Callers \cup {Wallet},
             NEW id \in TxId, RevokeConfirmation(sender, id)
      PROVE  LevelsSquare'
  <2> DEFINE t == [store EXCEPT !.confirmations[id] = @ \ {sender}]
  <2>1. /\ store' = t /\ stack' = CallsBy(sender) /\ SameMoney(store, t)
        /\ CallsSquare(CallsBy(sender))
    BY <1>1, <1>5, CallsBySquare
    DEF RevokeConfirmation, Storage, SameMoney
  <2> HIDE DEF t
  <2> QED
    BY <1>1, <2>1, SameMoneySquares DEF LevelsSquare
<1>6. ASSUME NEW sender \in Callers \cup {Wallet},
             NEW id \in TxId, ExecuteTransaction(sender, id)
      PROVE  LevelsSquare'
  <2>1. /\ Run(store, id, CallsBy(sender)) /\ id \notin store.executed
        /\ CallsBy(sender) \in Seq(Frames) /\ CallsSquare(CallsBy(sender))
    BY <1>6, CallsBySquare DEF ExecuteTransaction
  <2> QED
    BY <1>1, <2>1, RunSquares
<1>7. ASSUME NEW sender \in Callers, Deposit(sender) PROVE LevelsSquare'
  <2> DEFINE t == [store EXCEPT !.balance = @ + 1, !.received = @ + 1]
             paid == SumFunctionOnSet(Outflows(store), store.executed \ {})
  <2>1. store' = t /\ stack' = stack
    BY <1>7 DEF Deposit
  <2>2. /\ t.balance = store.balance + 1 /\ t.received = store.received + 1
        /\ t.executed = store.executed /\ Outflows(t) = Outflows(store)
        /\ store.balance \in Nat /\ store.received \in Nat
        /\ store.executed \ {} \in SUBSET TxId
    BY <1>1 DEF Storage, Outflows
  <2>3. paid \in Nat /\ store.balance + paid = store.received
    BY <1>1, <2>2, OutflowsType DEF Squares
  <2> HIDE DEF t, paid
  <2>4. t.balance + paid = t.received
    BY <2>2, <2>3
  <2>5. Squares(t, {})
    BY <2>2, <2>4 DEF Squares, paid
  <2> QED
    BY <2>1, <2>5 DEF LevelsSquare, CallsSquare
<1>8. ASSUME NEW op, SelfCall(op) PROVE Waiting
  BY <1>8 DEF SelfCall
<1>9. ASSUME NEW t, SameMoney(store, t), Waiting, Return(t)
      PROVE  LevelsSquare'
  BY <1>1, <1>9, SameMoneySquares, ReturnSquares
<1>10. CASE AddOwner
  <2> DEFINE anOwner == Called.data.owner
             t == [store EXCEPT !.isOwner = @ \cup {anOwner},
                                !.owners = Append(@, anOwner)]
  <2>1. Waiting /\ Return(t) /\ SameMoney(store, t)
    BY <1>1, <1>8, <1>10 DEF AddOwner, Storage, SameMoney
  <2> QED
    BY <1>9, <2>1
<1>11. CASE RemoveOwner
  <2> DEFINE anOwner == Called.data.owner
             left == SwapOut(store.owners, anOwner)
             t == [store EXCEPT
                     !.isOwner = @ \ {anOwner},
                     !.owners = left,
                     !.required = IF @ > Len(left) THEN Len(left) ELSE @]
  <2>1. Waiting /\ Return(t) /\ SameMoney(store, t)
    BY <1>1, <1>8, <1>11 DEF RemoveOwner, Storage, SameMoney
  <2> QED
    BY <1>9, <2>1
<1>12. CASE ReplaceOwner
  <2> DEFINE anOwner == Called.data.owner
             newOwner == Called.data.newOwner
             t == [store EXCEPT !.isOwner = (@ \ {anOwner}) \cup {newOwner},
                                !.owners = SwapIn(@, anOwner, newOwner)]
  <2>1. Waiting /\ Return(t) /\ SameMoney(store, t)
    BY <1>1, <1>8, <1>12 DEF ReplaceOwner, Storage, SameMoney
  <2> QED
    BY <1>9, <2>1
<1>13. CASE ChangeRequirement
  <2> DEFINE t == [store EXCEPT !.required = Called.data.required]
  <2>1. Waiting /\ Return(t) /\ SameMoney(store, t)
    BY <1>1, <1>8, <1>13 DEF ChangeRequirement, Storage, SameMoney
  <2> QED
    BY <1>9, <2>1
<1>14. CASE CallReturns
  <2>1. Waiting /\ Return(store)
    BY <1>14 DEF CallReturns
  <2> QED
    BY <1>1, <2>1, ReturnSquares
<1>15. CASE CallFails
  <2> DEFINE t == [Top.snap EXCEPT !.executed = @ \ {Top.tx}]
  <2>1. Waiting /\ Return(t) /\ Top.snap \in Storage
    BY <1>15, TopFrame DEF CallFails
  <2>2. 1 \in 1 .. Len(stack) /\ Top = stack[1]
    BY <1>1, <2>1 DEF Waiting, Top
  <2>3. Squares(Top.snap, {Top.tx})
    BY <2>2 DEF LevelsSquare, CallsSquare
  <2>4. /\ t.executed \ {} = Top.snap.executed \ {Top.tx}
        /\ t.balance = Top.snap.balance /\ t.received = Top.snap.received
        /\ Outflows(t) = Outflows(Top.snap)
    BY <2>1 DEF Storage, Outflows
  <2> HIDE DEF t
  <2>5. Squares(t, {})
    BY <2>3, <2>4 DEF Squares
  <2> QED
    BY <2>1, <2>5, ReturnSquares
<1>16. CASE UNCHANGED vars
  BY <1>16 DEF vars, LevelsSquare
<1> QED
  BY <1>3, <1>4, <1>5, <1>6, <1>7, <1>10, <1>11, <1>12, <1>13, <1>14, <1>15,
     <1>16
  DEF Next

LEMMA LevelsSquareInit == Init => LevelsSquare
<1> SUFFICES ASSUME NEW n \in 1 .. MaxOwnerCount,
                    NEW initial \in [1 .. n -> Address],
                    NEW required \in 1 .. n,
                    Constructor(initial, required)
             PROVE  LevelsSquare
  BY DEF Init
<1>1. /\ store.executed \ {} = {} /\ store.balance = 0 /\ store.received = 0
      /\ stack = << >>
  BY DEF Constructor
<1>2. SumFunctionOnSet(Outflows(store), {}) = 0
  BY FS_EmptySet, SumEquation
<1>3. SumFunctionOnSet(Outflows(store), store.executed \ {}) = 0
  BY <1>1, <1>2
<1>4. Squares(store, {})
  BY <1>1, <1>3 DEF Squares
<1>5. Len(stack) = 0
  BY <1>1
<1> QED
  BY <1>4, <1>5 DEF LevelsSquare, CallsSquare

(* The wallet holds what it received less what the executed transactions   *)
(* paid, whichever calls fail inside which others.                         *)
THEOREM BalanceAlwaysConserved == Spec => []BalanceConserved
<1>1. TypeOK /\ StackSound /\ LevelsSquare /\ [Next]_vars => LevelsSquare'
  BY LevelsSquareStep
<1>2. Spec => []LevelsSquare
  BY <1>1, LevelsSquareInit, TypeCorrect, SoundAlways, PTL DEF Spec
<1>3. LevelsSquare => BalanceConserved
  <2>1. store.executed \ {} = store.executed
    OBVIOUS
  <2> QED
    BY <2>1 DEF LevelsSquare, Squares, BalanceConserved
<1> QED
  BY <1>2, <1>3, PTL

-----------------------------------------------------------------------------
(* The views.                                                              *)

(* The confirmed positions of a longer prefix: at most one more for one    *)
(* position more.                                                          *)
LEMMA ConfirmedPrefixes ==
  ASSUME NEW s \in Storage, NEW id \in TxId, NEW k \in 0..Len(s.owners)
  PROVE  LET Up(n) == ConfirmedUpTo(s, id, n)
         IN  /\ IsFiniteSet(Up(k)) /\ Cardinality(Up(k)) \in Nat
             /\ Cardinality(Up(k)) <= Cardinality(Up(Len(s.owners)))
             /\ Cardinality(Up(0)) = 0
             /\ k # 0 => Cardinality(Up(k)) <= Cardinality(Up(k - 1)) + 1
<1> DEFINE Up(n) == ConfirmedUpTo(s, id, n)
           n == Len(s.owners)
<1>1. n \in Nat
  BY DEF Storage
<1>2. ASSUME NEW j \in 0..n
      PROVE  IsFiniteSet(Up(j)) /\ Cardinality(Up(j)) \in Nat
  <2>1. Up(j) \subseteq 1..j
    BY DEF ConfirmedUpTo
  <2>2. IsFiniteSet(1..j)
    BY <1>1, FS_Interval, 1 \in Int
  <2> QED
    BY <2>1, <2>2, FS_Subset, FS_CardinalityType
<1>3. Cardinality(Up(k)) <= Cardinality(Up(n))
  <2>1. Up(k) \subseteq Up(n)
    BY <1>1 DEF ConfirmedUpTo
  <2> QED
    BY <1>1, <1>2, <2>1, FS_Subset
<1>4. Cardinality(Up(0)) = 0
  <2>1. Up(0) = {}
    BY DEF ConfirmedUpTo
  <2> QED
    BY <2>1, FS_EmptySet
<1>5. ASSUME k # 0 PROVE Cardinality(Up(k)) <= Cardinality(Up(k - 1)) + 1
  <2>1. k - 1 \in 0..n /\ Up(k) \subseteq Up(k - 1) \cup {k}
    BY <1>1, <1>5 DEF ConfirmedUpTo
  <2>2. /\ IsFiniteSet(Up(k - 1) \cup {k})
        /\ Cardinality(Up(k - 1) \cup {k}) <= Cardinality(Up(k - 1)) + 1
        /\ Cardinality(Up(k - 1) \cup {k}) \in Nat
    <3>1. IsFiniteSet(Up(k - 1)) /\ Cardinality(Up(k - 1)) \in Nat
      BY <1>2, <2>1
    <3> HIDE DEF Up
    <3>2. /\ IsFiniteSet(Up(k - 1) \cup {k})
          /\ Cardinality(Up(k - 1) \cup {k})
               = IF k \in Up(k - 1) THEN Cardinality(Up(k - 1))
                                    ELSE Cardinality(Up(k - 1)) + 1
      BY <3>1, FS_AddElement, Zenon
    <3> QED
      BY <3>1, <3>2
  <2>3. Cardinality(Up(k)) <= Cardinality(Up(k - 1) \cup {k})
    BY <2>1, <2>2, FS_Subset
  <2> HIDE DEF Up
  <2> QED
    BY <1>2, <2>1, <2>2, <2>3
<1> QED
  BY <1>2, <1>3, <1>4, <1>5

(* The loop over the prefixes meets the requirement on its way to a count  *)
(* that is no less: at the shortest prefix with as many.                   *)
LEMMA LoopMeetsRequirement ==
  ASSUME NEW s \in Storage, NEW id \in TxId, s.required # 0,
         GetConfirmationCount(s, id) >= s.required
  PROVE  IsConfirmed(s, id)
<1> DEFINE Count(k) == Cardinality(ConfirmedUpTo(s, id, k))
           n == Len(s.owners)
           Positions == 1..n
           B == {T \in SUBSET Positions :
                   \E k \in 0..n : T = 1..k /\ Count(k) >= s.required}
<1>1. n \in Nat /\ s.required \in Nat
  BY DEF Storage
<1>2. ASSUME NEW k \in 0..n
      PROVE  /\ Count(k) \in Nat /\ Count(0) = 0
             /\ k # 0 => Count(k) <= Count(k - 1) + 1
  BY ConfirmedPrefixes
<1>3. IsFiniteSet(Positions) /\ B \in SUBSET SUBSET Positions
  <2>1. IsFiniteSet(1..n)
    BY <1>1, FS_Interval, 1 \in Int
  <2> QED
    BY <2>1
<1>4. 1..n \in B
  BY <1>1 DEF GetConfirmationCount
<1>5. PICK T \in B : \A U \in B : U \subseteq T => U = T
  <2> HIDE DEF B, Positions
  <2>1. B # {}
    BY <1>4
  <2> QED
    BY <1>3, <2>1, SmallestSubset
<1>6. PICK k \in 0..n : T = 1..k /\ Count(k) >= s.required
  OBVIOUS
<1>7. k # 0
  BY <1>1, <1>2, <1>6
<1>8. ~(Count(k - 1) >= s.required)
  <2>1. k - 1 \in 0..n /\ 1..(k - 1) \subseteq T /\ 1..(k - 1) # T
    BY <1>1, <1>6, <1>7
  <2>2. 1..(k - 1) \in SUBSET (1..n)
    BY <1>1
  <2> QED
    BY <1>5, <2>1, <2>2
<1> HIDE DEF Count
<1>9. Count(k) = s.required
  <2>1. k - 1 \in 0..n
    BY <1>1, <1>7
  <2>2. Count(k - 1) \in Nat /\ Count(k) \in Nat /\ Count(k) <= Count(k - 1) + 1
    BY <1>2, <1>7, <2>1
  <2> QED
    BY <1>1, <1>6, <1>8, <2>2
<1>10. k \in 1..n
  BY <1>1, <1>7
<1> QED
  BY <1>9, <1>10 DEF IsConfirmed, Count

(* isConfirmed, which stops counting at an equality, and the getter        *)
(* getConfirmationCount, which counts on to the end of the owner list,     *)
(* never disagree on whether a transaction may be executed.                *)
THEOREM ViewsAlwaysAgree == Spec => []ViewsAgree
<1>1. TypeOK /\ StackSound => ViewsAgree
  <2> SUFFICES ASSUME TypeOK, StackSound, NEW id \in TxId
               PROVE  IsConfirmed(store, id) <=>
                        GetConfirmationCount(store, id) >= store.required
    BY DEF ViewsAgree
  <2>1. store \in Storage /\ store.required # 0 /\ store.required \in Nat
    BY DEF TypeOK, StackSound, CallsSound, Sound, WellFormed, ValidRequirement,
           Storage
  <2>2. ASSUME IsConfirmed(store, id)
        PROVE  GetConfirmationCount(store, id) >= store.required
    <3>1. PICK k \in 1..Len(store.owners) :
            Cardinality(ConfirmedUpTo(store, id, k)) = store.required
      BY <2>2 DEF IsConfirmed
    <3>2. {k, Len(store.owners)} \subseteq 0..Len(store.owners)
      BY <2>1 DEF Storage
    <3>3. /\ Cardinality(ConfirmedUpTo(store, id, k))
               <= Cardinality(ConfirmedUpTo(store, id, Len(store.owners)))
          /\ Cardinality(ConfirmedUpTo(store, id, Len(store.owners))) \in Nat
      BY <2>1, <3>2, ConfirmedPrefixes
    <3> QED
      BY <2>1, <3>1, <3>3 DEF GetConfirmationCount
  <2> QED
    BY <2>1, <2>2, LoopMeetsRequirement
<1> QED
  BY <1>1, TypeCorrect, SoundAlways, PTL

-----------------------------------------------------------------------------
(* The crowdsale that pays into the wallet: with the types of its history, *)
(* the property is inductive.                                              *)
IcoInv ==
  /\ prepaid \in Nat /\ granted \in [Holders -> Int]
  /\ CrowdsaleAddsUp

Invested == {a \in Holders : investedAmountOf[a] > 0}

LEMMA HoldersFinite == IsFiniteSet(Holders)
<1>1. IsFiniteSet({beneficiary, teamMultisig, vault, Owner})
  <2>1. {beneficiary, teamMultisig, vault, Owner} =
          {beneficiary} \cup {teamMultisig} \cup {vault} \cup {Owner}
    OBVIOUS
  <2>2. IsFiniteSet({beneficiary} \cup {teamMultisig})
    BY FS_Singleton, FS_Union
  <2>3. IsFiniteSet({beneficiary} \cup {teamMultisig} \cup {vault})
    BY <2>2, FS_AddElement
  <2> QED
    BY <2>1, <2>3, FS_AddElement
<1>2. IsFiniteSet(Investors)
  BY IcoAssumption
<1>3. IsFiniteSet(Investors \cup {beneficiary, teamMultisig, vault, Owner})
  BY <1>1, <1>2, FS_Union
<1> QED
  BY <1>3 DEF Holders

LEMMA IcoInitHolds == IcoInit => IcoInv
<1> SUFFICES ASSUME IcoInit PROVE IcoInv
  OBVIOUS
<1>1. IsFiniteSet(Holders)
  BY HoldersFinite
<1>2. Total(investedAmountOf) = 0 /\ Total(tokenAmountOf) = 0
  BY <1>1, SumZero DEF IcoInit, Total
<1>3. IcoTypeOK /\ granted \in [Holders -> Int] /\ prepaid \in Nat
  BY IcoAssumption DEF IcoInit, IcoTypeOK, Uint, Holders
<1>4. BooksAgree /\ SoldFromTheGrant /\ VaultIsShut
  <2>1. \A a \in Holders : InitialBalance[a] \in Nat
    BY IcoAssumption DEF Uint
  <2> QED
    BY <1>2, <2>1
    DEF IcoInit, BooksAgree, SoldFromTheGrant, VaultIsShut, GetTokensLeft,
        Holders
<1>5. InvestorsCountOnce
  <2>1. {a \in Holders : investedAmountOf[a] > 0} = {}
    BY DEF IcoInit
  <2> QED
    BY <2>1, FS_EmptySet DEF IcoInit, InvestorsCountOnce
<1> QED
  BY <1>3, <1>4, <1>5 DEF IcoInv, CrowdsaleAddsUp

(* One account's amount grows, and the total by as much; no amount is more *)
(* than the total.                                                         *)
LEMMA TotalAfter ==
  ASSUME NEW f \in [Holders -> Int], NEW a \in Holders, NEW n \in Int
  PROVE  Total([f EXCEPT ![a] = @ + n]) = Total(f) + n
<1> DEFINE g == [f EXCEPT ![a] = @ + n]
<1>1. /\ IsFiniteSet(Holders) /\ \A x \in Holders : f[x] \in Int
      /\ g[a] = f[a] + n /\ g[a] \in Int /\ \A x \in Holders \ {a} : g[x] = f[x]
  BY HoldersFinite
<1> HIDE DEF g
<1>2. Total(g) = Total(f) + g[a] - f[a]
  BY <1>1, SumUpdate DEF Total
<1>3. Total(f) \in Int
  BY <1>1, SumIsInt DEF Total
<1> QED
  BY <1>1, <1>2, <1>3 DEF g

LEMMA PartOfTotal ==
  ASSUME NEW f, \A x \in Holders : f[x] \in Nat, NEW a \in Holders
  PROVE  f[a] <= Total(f)
<1>1. IsFiniteSet(Holders) /\ IsFiniteSet(Holders \ {a})
  BY HoldersFinite, FS_Subset
<1>2. SumFunctionOnSet(f, Holders \ {a}) \in Nat
  BY <1>1, SumIsNat
<1>3. Total(f) = f[a] + SumFunctionOnSet(f, Holders \ {a})
  BY <1>1, SumSplit DEF Total
<1> QED
  BY <1>2, <1>3

(* The tokens of a holder go to another, or stay.                          *)
LEMMA MovedFacts ==
  ASSUME IcoInv, NEW from \in Holders, NEW to \in Holders, NEW n \in Nat,
         from = to \/ (n <= balances[from] /\ Fits(balances[to] + n))
  PROVE  /\ Moved(from, to, n) \in [Holders -> Uint]
         /\ Total(Moved(from, to, n)) = Total(balances)
         /\ \A a \in Holders \ {from} : Moved(from, to, n)[a] >= balances[a]
         /\ n = 0 => Moved(from, to, n)[from] = balances[from]
<1> DEFINE given == [balances EXCEPT ![to] = @ + n]
           moved == Moved(from, to, n)
<1>1. /\ balances \in [Holders -> Uint]
      /\ balances \in [Holders -> Int]
      /\ Modulus \in Nat \ {0} /\ n \in Int /\ -n \in Int
  BY IcoAssumption DEF IcoInv, CrowdsaleAddsUp, IcoTypeOK, Uint
<1>2. given \in [Holders -> Int] /\ moved = [given EXCEPT ![from] = @ - n]
  BY <1>1 DEF Moved
<1>3. Total(given) = Total(balances) + n
  BY <1>1, TotalAfter
<1>4. Total(moved) = Total(given) + (-n)
  <2> DEFINE less == -n
  <2>1. moved = [given EXCEPT ![from] = @ + less] /\ less \in Int
    BY <1>1, <1>2
  <2> HIDE DEF given, moved, less
  <2>2. /\ given \in [Holders -> Int]
        /\ from \in Holders /\ less \in Int
    BY <1>1, <1>2, <2>1
  <2>3. Total([given EXCEPT ![from] = @ + less]) = Total(given) + less
    BY <2>2, TotalAfter
  <2> QED
    BY <2>1, <2>3 DEF less
<1>5. Total(balances) \in Int
  BY <1>1, HoldersFinite, SumIsInt DEF Total
<1>6. Total(moved) = Total(balances)
  <2> HIDE DEF given, moved
  <2> QED
    BY <1>3, <1>4, <1>5
<1>7. moved \in [Holders -> Uint]
  BY <1>1 DEF Moved, Fits, Uint
<1>8. \A a \in Holders \ {from} : moved[a] >= balances[a]
  BY <1>1 DEF Moved, Uint
<1>9. n = 0 => moved[from] = balances[from]
  BY <1>1 DEF Moved, Uint
<1> QED
  BY <1>6, <1>7, <1>8, <1>9

LEMMA CreditFacts ==
  ASSUME IcoInv, NEW r \in Holders, NEW wei \in Nat, NEW tokens \in Nat,
         Credit(r, wei, tokens)
  PROVE  /\ weiRaised' = weiRaised + wei /\ weiRaised' \in Uint
         /\ tokensSold' = tokensSold + tokens /\ tokensSold' \in Uint
         /\ investedAmountOf' \in [Holders -> Uint]
         /\ tokenAmountOf' \in [Holders -> Uint]
         /\ Total(investedAmountOf') = weiRaised'
         /\ Total(tokenAmountOf') = tokensSold'
         /\ investedAmountOf' = [investedAmountOf EXCEPT ![r] = @ + wei]
<1>1. /\ Modulus \in Nat \ {0} /\ r \in Holders
      /\ investedAmountOf \in [Holders -> Uint]
      /\ tokenAmountOf \in [Holders -> Uint]
      /\ investedAmountOf \in [Holders -> Int]
      /\ tokenAmountOf \in [Holders -> Int]
      /\ Total(investedAmountOf) = weiRaised
      /\ Total(tokenAmountOf) = tokensSold
      /\ wei \in Int /\ tokens \in Int
  BY IcoAssumption
     DEF IcoInv, CrowdsaleAddsUp, IcoTypeOK, BooksAgree, Uint, Holders
<1>2. /\ weiRaised' = weiRaised + wei /\ weiRaised' \in Uint
      /\ tokensSold' = tokensSold + tokens /\ tokensSold' \in Uint
      /\ investedAmountOf' = [investedAmountOf EXCEPT ![r] = @ + wei]
      /\ tokenAmountOf' = [tokenAmountOf EXCEPT ![r] = @ + tokens]
  BY DEF Credit, Fits
<1>3. /\ Total(investedAmountOf') = weiRaised'
      /\ Total(tokenAmountOf') = tokensSold'
  BY <1>1, <1>2, TotalAfter
<1>4. ASSUME NEW f, f \in [Holders -> Nat], Total(f) \in Uint
      PROVE  f \in [Holders -> Uint]
  <2>1. \A a \in Holders : f[a] <= Total(f)
    BY <1>1, <1>4, PartOfTotal
  <2> QED
    BY <1>1, <1>4, <2>1 DEF Uint
<1>5. /\ investedAmountOf' \in [Holders -> Nat]
      /\ tokenAmountOf' \in [Holders -> Nat]
  BY <1>1, <1>2 DEF Uint
<1> QED
  BY <1>2, <1>3, <1>4, <1>5

LEMMA AssignFacts ==
  ASSUME IcoInv, NEW r \in Holders, NEW n \in Nat, AssignTokens(r, n)
  PROVE  /\ balances' \in [Holders -> Uint] /\ allowed' \in [Holders -> Uint]
         /\ Total(balances') = Total(InitialBalance)
         /\ allowed'[beneficiary] = allowed[beneficiary] - n
         /\ allowed'[vault] = 0
         /\ Owner # beneficiary => allowed'[Owner] = allowed[Owner]
         /\ granted' = granted /\ balances'[vault] >= balances[vault]
<1>1. /\ beneficiary \in Holders /\ vault \in Holders /\ Owner \in Holders
      /\ allowed \in [Holders -> Uint] /\ Modulus \in Nat \ {0}
      /\ balances \in [Holders -> Uint] /\ allowed[vault] = 0
      /\ Total(balances) = Total(InitialBalance)
  BY IcoAssumption
     DEF Holders, IcoInv, CrowdsaleAddsUp, IcoTypeOK, SoldFromTheGrant
<1>2. /\ Fits(balances[r] + n)
      /\ r = beneficiary \/ balances[beneficiary] >= n
      /\ allowed[beneficiary] >= n
      /\ balances' = Moved(beneficiary, r, n)
      /\ allowed' = [allowed EXCEPT ![beneficiary] = @ - n]
      /\ granted' = granted
  BY DEF AssignTokens, Assignable
<1>3. beneficiary = r \/ n <= balances[beneficiary]
  BY <1>1, <1>2 DEF Uint
<1>4. vault = beneficiary => n = 0
  BY <1>1, <1>2
<1>5. /\ balances' \in [Holders -> Uint] /\ Total(balances') = Total(balances)
      /\ vault # beneficiary => balances'[vault] >= balances[vault]
      /\ n = 0 => balances'[beneficiary] = balances[beneficiary]
  BY <1>1, <1>2, <1>3, MovedFacts
<1>6. balances'[vault] >= balances[vault]
  BY <1>1, <1>4, <1>5 DEF Uint
<1>7. /\ allowed' \in [Holders -> Uint]
      /\ allowed'[beneficiary] = allowed[beneficiary] - n
      /\ allowed'[vault] = 0
      /\ Owner # beneficiary => allowed'[Owner] = allowed[Owner]
  BY <1>1, <1>2, <1>4 DEF Uint
<1> QED
  BY <1>1, <1>2, <1>5, <1>6, <1>7

(* The allowances after a sale of n tokens.                                *)
LEMMA GrantAfter ==
  ASSUME IcoInv, NEW r \in Holders, NEW wei \in Nat, NEW n \in Nat,
         Credit(r, wei, n), AssignTokens(r, n)
  PROVE  SoldFromTheGrant'
<1>1. /\ tokensSold \in Int /\ allowed \in [Holders -> Uint]
      /\ Owner \in Holders /\ beneficiary \in Holders
      /\ Modulus \in Nat
      /\ tokensSold + allowed[beneficiary] = granted[beneficiary]
      /\ allowed[Owner] + (IF Owner = beneficiary THEN tokensSold ELSE 0)
           = granted[Owner]
  BY IcoAssumption
     DEF IcoInv, CrowdsaleAddsUp, IcoTypeOK, SoldFromTheGrant, GetTokensLeft,
         Uint, Holders
<1>2. /\ tokensSold' = tokensSold + n /\ granted' = granted
      /\ allowed'[beneficiary] = allowed[beneficiary] - n
      /\ allowed'[vault] = 0 /\ Total(balances') = Total(InitialBalance)
      /\ Owner # beneficiary => allowed'[Owner] = allowed[Owner]
  BY CreditFacts, AssignFacts
<1>3. tokensSold' + allowed'[beneficiary] = granted'[beneficiary]
  BY <1>1, <1>2 DEF Uint
<1>4. allowed'[Owner] + (IF Owner = beneficiary THEN tokensSold' ELSE 0)
        = granted'[Owner]
  BY <1>1, <1>2 DEF Uint
<1> QED
  BY <1>2, <1>3, <1>4 DEF SoldFromTheGrant, GetTokensLeft

(* The vault keeps what it had, if its balance does not go down.           *)
LEMMA VaultStaysShut ==
  ASSUME IcoInv, balances' \in [Holders -> Uint],
         balances'[vault] >= balances[vault], now' = now
  PROVE  VaultIsShut'
<1>1. /\ vault \in Holders /\ Modulus \in Nat
      /\ balances[vault] \in Int /\ balances'[vault] \in Int
      /\ InitialBalance[vault] \in Int
  BY IcoAssumption DEF IcoInv, CrowdsaleAddsUp, IcoTypeOK, Uint, Holders
<1> QED
  BY <1>1 DEF IcoInv, CrowdsaleAddsUp, VaultIsShut

(* Those who have invested after one investor has paid something.          *)
LEMMA InvestedAfter ==
  ASSUME IcoInv, NEW r \in Holders, NEW wei \in Nat,
         investedAmountOf' = [investedAmountOf EXCEPT ![r] = @ + wei]
  PROVE  /\ IsFiniteSet(Invested) /\ IsFiniteSet(Invested')
         /\ Cardinality(Invested) \in Nat
         /\ wei = 0 => Invested' = Invested
         /\ wei # 0 => Cardinality(Invested') =
              IF investedAmountOf[r] = 0 THEN Cardinality(Invested) + 1
              ELSE Cardinality(Invested)
<1>1. /\ IsFiniteSet(Holders) /\ r \in Holders /\ Modulus \in Nat \ {0}
      /\ investedAmountOf \in [Holders -> Nat]
  BY HoldersFinite, IcoAssumption
     DEF IcoInv, CrowdsaleAddsUp, IcoTypeOK, Uint, Holders
<1>2. IsFiniteSet(Invested) /\ Cardinality(Invested) \in Nat
  BY <1>1, FS_Subset, FS_CardinalityType DEF Invested
<1>3. wei = 0 => Invested' = Invested
  BY <1>1 DEF Invested
<1>4. wei # 0 => Invested' = Invested \cup {r}
  BY <1>1 DEF Invested
<1>5. (r \in Invested) <=> investedAmountOf[r] # 0
  BY <1>1 DEF Invested
<1> QED
  BY <1>2, <1>3, <1>4, <1>5, FS_AddElement

LEMMA InvestKeeps ==
  ASSUME IcoInv, NEW r \in Holders, NEW wei \in WeiAmounts,
         NEW tokens \in TokenAmounts, Invest(r, wei, tokens)
  PROVE  IcoInv'
<1> DEFINE new == investedAmountOf[r] = 0
<1>1. /\ wei \in Nat /\ tokens \in Nat
      /\ Credit(r, wei, tokens) /\ AssignTokens(r, tokens)
      /\ investorCount' = investorCount + (IF new THEN 1 ELSE 0)
      /\ freebies' = freebies + (IF new /\ wei = 0 THEN 1 ELSE 0)
      /\ multisig' = multisig + wei /\ UNCHANGED <<prepaid, now>>
  BY IcoAssumption DEF Invest, InvestInternal, IsNew, IcoInv
<1>2. IcoTypeOK' /\ granted' \in [Holders -> Int]
  BY <1>1, CreditFacts, AssignFacts DEF IcoInv, CrowdsaleAddsUp, IcoTypeOK
<1>3. BooksAgree'
  <2>1. /\ multisig \in Nat /\ prepaid \in Nat
        /\ multisig + prepaid = weiRaised
    BY DEF IcoInv, CrowdsaleAddsUp, IcoTypeOK, BooksAgree
  <2>2. multisig' + prepaid' = weiRaised + wei
    BY <1>1, <2>1
  <2> QED
    BY <1>1, <2>2, CreditFacts DEF BooksAgree
<1>4. SoldFromTheGrant'
  BY <1>1, GrantAfter
<1>5. VaultIsShut'
  BY <1>1, AssignFacts, VaultStaysShut
<1>6. InvestorsCountOnce'
  <2>1. /\ Cardinality(Invested) \in Nat /\ investorCount \in Nat
        /\ freebies \in Nat
        /\ investorCount <= Cardinality(Invested) + freebies
        /\ prepaid = 0 => investorCount = Cardinality(Invested) + freebies
    BY <1>1, CreditFacts, InvestedAfter
       DEF IcoInv, CrowdsaleAddsUp, IcoTypeOK, InvestorsCountOnce, Invested
  <2>2. /\ wei = 0 => Invested' = Invested
        /\ wei # 0 => Cardinality(Invested') =
                        Cardinality(Invested) + (IF new THEN 1 ELSE 0)
    BY <1>1, <2>1, CreditFacts, InvestedAfter
  <2> HIDE DEF new
  <2>3. /\ investorCount' <= Cardinality(Invested') + freebies'
        /\ prepaid' = 0 => investorCount' = Cardinality(Invested') + freebies'
    BY <1>1, <2>1, <2>2
  <2> QED
    BY <2>3 DEF InvestorsCountOnce, Invested
<1> QED
  BY <1>1, <1>2, <1>3, <1>4, <1>5, <1>6 DEF IcoInv, CrowdsaleAddsUp

(* Whatever the unchecked products are, the same amounts go into every     *)
(* book, and the money is known to have come another way.                  *)
LEMMA PreallocateKeeps ==
  ASSUME IcoInv, NEW r \in Holders, NEW price \in Prices,
         NEW full \in FullTokens, Preallocate(r, full, price)
  PROVE  IcoInv'
<1> DEFINE tokens == (full * Decimals) % Modulus
           wei == (price * full) % Modulus
<1>1. wei \in Nat /\ tokens \in Nat
  <2>1. price * full \in Nat /\ full * Decimals \in Nat
    BY IcoAssumption DEF IcoInv
  <2>2. \A n \in Nat : n % Modulus \in Nat
    BY IcoAssumption DEF IcoInv
  <2> QED
    BY <2>1, <2>2
<1>2. /\ Credit(r, wei, tokens) /\ AssignTokens(r, tokens)
      /\ prepaid' = prepaid + wei
      /\ UNCHANGED <<investorCount, freebies, multisig, now>>
  BY DEF Preallocate
<1> HIDE DEF wei, tokens
<1>3. IcoTypeOK' /\ granted' \in [Holders -> Int]
  BY <1>1, <1>2, CreditFacts, AssignFacts DEF IcoInv, CrowdsaleAddsUp, IcoTypeOK
<1>4. BooksAgree' /\ prepaid' \in Nat
  <2>1. /\ multisig \in Nat /\ prepaid \in Nat
        /\ multisig + prepaid = weiRaised
    BY DEF IcoInv, CrowdsaleAddsUp, IcoTypeOK, BooksAgree
  <2>2. multisig' + prepaid' = weiRaised + wei /\ prepaid' \in Nat
    BY <1>1, <1>2, <2>1
  <2> QED
    BY <1>1, <1>2, <2>2, CreditFacts DEF BooksAgree
<1>5. SoldFromTheGrant'
  BY <1>1, <1>2, GrantAfter
<1>6. VaultIsShut'
  BY <1>1, <1>2, AssignFacts, VaultStaysShut
<1>7. InvestorsCountOnce'
  <2>1. /\ Cardinality(Invested) \in Nat /\ investorCount \in Nat
        /\ freebies \in Nat
        /\ investorCount <= Cardinality(Invested) + freebies
        /\ prepaid = 0 => investorCount = Cardinality(Invested) + freebies
    BY <1>1, <1>2, CreditFacts, InvestedAfter
       DEF IcoInv, CrowdsaleAddsUp, IcoTypeOK, InvestorsCountOnce, Invested
  <2>2. /\ Cardinality(Invested') \in Nat
        /\ Cardinality(Invested) <= Cardinality(Invested')
        /\ wei = 0 => Cardinality(Invested') = Cardinality(Invested)
    BY <1>1, <1>2, <2>1, CreditFacts, InvestedAfter
  <2>3. prepaid' = 0 => prepaid = 0 /\ wei = 0
    BY <1>1, <1>2 DEF IcoInv
  <2>4. /\ investorCount' <= Cardinality(Invested') + freebies'
        /\ prepaid' = 0 => investorCount' = Cardinality(Invested') + freebies'
    BY <1>2, <2>1, <2>2, <2>3
  <2> QED
    BY <2>4 DEF InvestorsCountOnce, Invested
<1> QED
  BY <1>3, <1>4, <1>5, <1>6, <1>7 DEF IcoInv, CrowdsaleAddsUp

LEMMA ApproveKeeps ==
  ASSUME IcoInv, NEW from \in {Owner, beneficiary} \ {vault},
         NEW value \in Grants, Approve(from, value)
  PROVE  IcoInv'
<1>1. /\ allowed' = [allowed EXCEPT ![from] = value]
      /\ granted' = [granted EXCEPT ![from] = @ - allowed[from] + value]
      /\ UNCHANGED <<balances, saleVars, now>>
  BY DEF Approve
<1>2. /\ from \in Holders /\ value \in Uint /\ beneficiary \in Holders
      /\ Owner \in Holders /\ vault \in Holders /\ from # vault
      /\ allowed \in [Holders -> Uint] /\ Modulus \in Nat
      /\ granted \in [Holders -> Int] /\ tokensSold \in Uint
  BY IcoAssumption DEF IcoInv, CrowdsaleAddsUp, IcoTypeOK, Holders
<1>3. allowed' \in [Holders -> Uint] /\ granted' \in [Holders -> Int]
  BY <1>1, <1>2 DEF Uint
<1>4. /\ tokensSold + allowed'[beneficiary] = granted'[beneficiary]
      /\ allowed'[Owner] + (IF Owner = beneficiary THEN tokensSold ELSE 0)
           = granted'[Owner]
      /\ allowed'[vault] = 0
  <2>1. /\ tokensSold + allowed[beneficiary] = granted[beneficiary]
        /\ allowed[Owner] + (IF Owner = beneficiary THEN tokensSold ELSE 0)
             = granted[Owner]
        /\ allowed[vault] = 0
    BY DEF IcoInv, CrowdsaleAddsUp, SoldFromTheGrant, GetTokensLeft
  <2> QED
    BY <1>1, <1>2, <2>1 DEF Uint
<1> QED
  BY <1>1, <1>3, <1>4
     DEF GetTokensLeft, IcoInv, CrowdsaleAddsUp, IcoTypeOK, BooksAgree,
         SoldFromTheGrant, InvestorsCountOnce, VaultIsShut, saleVars

(* Tokens leave the vault when its time has come.                          *)
LEMMA TransferKeeps ==
  ASSUME IcoInv, NEW from \in Holders, NEW to \in Holders, NEW n \in Nat,
         Transfer(from, to, n),
         now >= unlockedAt \/ from # vault
  PROVE  IcoInv'
<1>1. /\ balances[from] >= n
      /\ from = to \/ Fits(balances[to] + n)
      /\ balances' = Moved(from, to, n)
      /\ UNCHANGED <<allowed, granted, saleVars, now>>
  BY DEF Transfer
<1>2. n <= balances[from]
  <2>1. balances[from] >= n /\ balances[from] \in Int
    BY IcoAssumption DEF Transfer, IcoInv, CrowdsaleAddsUp, IcoTypeOK, Uint
  <2> QED
    BY <2>1
<1>3. /\ balances' \in [Holders -> Uint] /\ Total(balances') = Total(balances)
      /\ \A a \in Holders \ {from} : balances'[a] >= balances[a]
  BY <1>1, <1>2, MovedFacts DEF Transfer
<1>4. VaultIsShut'
  <2>1. /\ vault \in Holders /\ now \in Nat /\ unlockedAt \in Nat
        /\ now' = now
    BY <1>1, IcoAssumption
    DEF Holders, IcoInv, CrowdsaleAddsUp, IcoTypeOK, saleVars
  <2>2. CASE from # vault
    BY <1>3, <2>1, <2>2, VaultStaysShut
  <2>3. CASE now >= unlockedAt
    BY <2>1, <2>3 DEF VaultIsShut
  <2> QED
    BY <2>2, <2>3
<1> QED
  BY <1>1, <1>3, <1>4
     DEF IcoInv, CrowdsaleAddsUp, IcoTypeOK, BooksAgree, SoldFromTheGrant,
         GetTokensLeft, InvestorsCountOnce, saleVars

LEMMA IcoStep == IcoInv /\ [IcoNext]_icoVars => IcoInv'
<1> SUFFICES ASSUME IcoInv, [IcoNext]_icoVars PROVE IcoInv'
  OBVIOUS
<1>1. ASSUME NEW r \in Holders, NEW wei \in WeiAmounts,
             NEW tokens \in TokenAmounts, Invest(r, wei, tokens)
      PROVE  IcoInv'
  BY <1>1, InvestKeeps
<1>2. ASSUME NEW r \in Holders, NEW full \in FullTokens, NEW price \in Prices,
             Preallocate(r, full, price)
      PROVE  IcoInv'
  BY <1>2, PreallocateKeeps
<1>3. ASSUME NEW from \in {Owner, beneficiary} \ {vault}, NEW value \in Grants,
             Approve(from, value)
      PROVE  IcoInv'
  BY <1>3, ApproveKeeps
<1>7. ASSUME NEW from \in Holders \ {vault}, NEW to \in Holders,
             NEW value \in TokenAmounts, Transfer(from, to, value)
      PROVE  IcoInv'
  <2>1. value \in Nat
    BY IcoAssumption DEF IcoInv
  <2> QED
    BY <1>7, <2>1, TransferKeeps
<1>4. ASSUME Unlock PROVE IcoInv'
  <2>1. /\ vault \in Holders /\ teamMultisig \in Holders
        /\ balances[vault] \in Nat
        /\ Transfer(vault, teamMultisig, balances[vault])
        /\ now >= unlockedAt
    BY <1>4, IcoAssumption
       DEF Unlock, Holders, IcoInv, CrowdsaleAddsUp, IcoTypeOK, Uint
  <2> QED
    BY <2>1, TransferKeeps
<1>5. ASSUME Tick PROVE IcoInv'
  <2>1. /\ now' \in 0..MaxTime /\ UNCHANGED <<tokenVars, saleVars>>
        /\ now' < unlockedAt => now < unlockedAt
    BY <1>5, IcoAssumption DEF Tick, IcoInv, CrowdsaleAddsUp, IcoTypeOK
  <2> QED
    BY <2>1
       DEF IcoInv, CrowdsaleAddsUp, IcoTypeOK, BooksAgree, SoldFromTheGrant,
           GetTokensLeft, InvestorsCountOnce, VaultIsShut, tokenVars, saleVars
<1>6. CASE UNCHANGED icoVars
  BY <1>6
     DEF IcoInv, CrowdsaleAddsUp, IcoTypeOK, BooksAgree, SoldFromTheGrant,
         GetTokensLeft, InvestorsCountOnce, VaultIsShut, icoVars, tokenVars,
         saleVars
<1> QED
  BY <1>1, <1>2, <1>3, <1>4, <1>5, <1>6, <1>7 DEF IcoNext

(* Through any sequence of calls the crowdsale's books, the allowance that *)
(* it sells from, the ether of the wallet and the vault agree, for any     *)
(* accounts and amounts, though the products of preallocate may overflow.  *)
THEOREM CrowdsaleAlwaysAddsUp ==
  IcoInit /\ [][IcoNext]_icoVars => []CrowdsaleAddsUp
<1>1. IcoInv => CrowdsaleAddsUp
  BY DEF IcoInv
<1> QED
  BY <1>1, IcoInitHolds, IcoStep, PTL
=============================================================================
