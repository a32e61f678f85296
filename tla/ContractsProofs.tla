---------------------------- MODULE ContractsProofs ----------------------------
(***************************************************************************)
(* Proofs about the contracts that move tokens: first the exchange and the *)
(* proxy it moves them through, for every set of orders, accounts, tokens, *)
(* batches, callers and targets, every word size and every rounding limit; *)
(* then the ChainX token and the simple crowdsale, whose world is the      *)
(* exchange's with one more account; and last the token registry.          *)
(***************************************************************************)
EXTENDS SimpleCrowdsale, TokenRegistry, SumTheorems, TLAPS

-----------------------------------------------------------------------------
(* Lists.                                                                  *)

(* A list read through the definitions of Functions.                       *)
LEMMA ListFacts ==
  ASSUME NEW S, NEW list \in Seq(S)
  PROVE  /\ Len(list) \in Nat
         /\ DOMAIN list = 1..Len(list)
         /\ Range(list) = {list[i] : i \in 1..Len(list)}
         /\ IsInjective(list) <=>
              \A i, j \in 1..Len(list) : list[i] = list[j] => i = j
BY DEF Range, IsInjective

LEMMA AppendList ==
  ASSUME NEW S, NEW list \in Seq(S), NEW e \in S,
         IsInjective(list), e \notin Range(list)
  PROVE  /\ Append(list, e) \in Seq(S)
         /\ IsInjective(Append(list, e))
         /\ Range(Append(list, e)) = Range(list) \cup {e}
<1> DEFINE n == Len(list)
           out == Append(list, e)
<1>1. /\ out \in Seq(S)
      /\ n \in Nat
      /\ Len(out) = n + 1
      /\ out[n + 1] = e
      /\ \A i \in 1..n : out[i] = list[i]
  OBVIOUS
<1>2. \A i \in 1..n : list[i] # e
  BY ListFacts
<1>3. \A i, j \in 1 .. n + 1 : out[i] = out[j] => i = j
  <2> SUFFICES ASSUME NEW i \in 1 .. n + 1, NEW j \in 1 .. n + 1,
                      out[i] = out[j]
               PROVE  i = j
    OBVIOUS
  <2>1. \A k \in 1 .. n + 1 : k = n + 1 \/ k \in 1..n
    BY <1>1
  <2>2. QED
    BY <1>1, <1>2, <2>1, ListFacts
<1>4. IsInjective(out)
  BY <1>1, <1>3, ListFacts
<1>5. Range(out) = Range(list) \cup {e}
  <2>1. 1 .. n + 1 = 1..n \cup {n + 1}
    BY <1>1
  <2>2. Range(out) = {out[i] : i \in 1 .. n + 1}
    BY <1>1, ListFacts
  <2>3. Range(list) = {list[i] : i \in 1..n}
    BY ListFacts
  <2>4. QED
    BY <1>1, <2>1, <2>2, <2>3
<1>6. QED
  BY <1>1, <1>4, <1>5

(* The swap takes the target out, and nothing else, when it is listed once.*)
LEMMA SwapOutList ==
  ASSUME NEW S, NEW list \in Seq(S), NEW target \in Range(list),
         IsInjective(list)
  PROVE  /\ SwapOut(list, target) \in Seq(S)
         /\ IsInjective(SwapOut(list, target))
         /\ Range(SwapOut(list, target)) = Range(list) \ {target}
<1> DEFINE n == Len(list)
           out == SwapOut(list, target)
<1>1. PICK p \in 1..n : list[p] = target
  BY ListFacts
<1>2. /\ n \in Nat
      /\ n - 1 \in Nat
      /\ \A i \in 1..n : list[i] \in S
      /\ \A i, j \in 1..n : list[i] = list[j] => i = j
  BY <1>1, ListFacts
<1>3. out = [i \in 1 .. n - 1 |-> IF i = p THEN list[n] ELSE list[i]]
  BY <1>1, <1>2 DEF SwapOut
<1>4. /\ out \in Seq(S)
      /\ Len(out) = n - 1
      /\ \A i \in 1 .. n - 1 : out[i] = IF i = p THEN list[n] ELSE list[i]
  <2> HIDE DEF out
  <2>1. out \in [1 .. n - 1 -> S]
    BY <1>2, <1>3
  <2>2. QED
    BY <1>2, <1>3, <2>1
<1> HIDE DEF out
<1>5. IsInjective(out)
  <2>1. \A i, j \in 1 .. n - 1 : out[i] = out[j] => i = j
    BY <1>1, <1>2, <1>4
  <2>2. QED
    BY <1>4, <2>1, ListFacts
<1>6. Range(out) \subseteq Range(list) \ {target}
  <2> SUFFICES ASSUME NEW i \in 1 .. n - 1
               PROVE  out[i] \in {list[j] : j \in 1..n} \ {target}
    BY <1>4, ListFacts
  <2>1. CASE i = p
    BY <1>1, <1>2, <1>4, <2>1
  <2>2. CASE i # p
    BY <1>1, <1>2, <1>4, <2>2
  <2>3. QED
    BY <2>1, <2>2
<1>7. Range(list) \ {target} \subseteq Range(out)
  <2> SUFFICES ASSUME NEW i \in 1..n, list[i] # target
               PROVE  \E j \in 1 .. n - 1 : out[j] = list[i]
    BY <1>4, ListFacts
  <2>1. CASE i = n
    <3>1. p \in 1 .. n - 1 /\ out[p] = list[n]
      BY <1>1, <1>2, <1>4, <2>1
    <3>2. QED
      BY <2>1, <3>1
  <2>2. CASE i # n
    BY <1>1, <1>2, <1>4, <2>2
  <2>3. QED
    BY <2>1, <2>2
<1>8. QED
  BY <1>4, <1>5, <1>6, <1>7 DEF out

-----------------------------------------------------------------------------
(* The proxy's record of authorized addresses.                             *)

ProxyInv == ProxyTypeOK /\ AuthoritiesAreTheAuthorized

LEMMA ProxyInitInv == ProxyInit => ProxyInv
<1> SUFFICES ASSUME ProxyInit
             PROVE  ProxyInv
  OBVIOUS
<1>1. << >> \in Seq(Target)
  OBVIOUS
<1>2. IsInjective(<< >>) /\ Range(<< >>) = {}
  BY DEF IsInjective, Range
<1>3. QED
  BY <1>1, <1>2 DEF ProxyInit, ProxyInv, ProxyTypeOK,
                    AuthoritiesAreTheAuthorized

LEMMA ProxyStepInv == ProxyInv /\ [ProxyNext]_proxyVars => ProxyInv'
<1> SUFFICES ASSUME ProxyInv, [ProxyNext]_proxyVars
             PROVE  ProxyInv'
  OBVIOUS
<1> USE DEF ProxyInv, ProxyTypeOK, AuthoritiesAreTheAuthorized
<1>1. ASSUME NEW sender \in Callers, NEW newOwner \in Callers \cup {Null},
             TransferOwnership(sender, newOwner)
      PROVE  ProxyInv'
  BY <1>1 DEF TransferOwnership
<1>2. ASSUME NEW sender \in Callers, NEW target \in Target,
             AddAuthorizedAddress(sender, target)
      PROVE  ProxyInv'
  BY <1>2, AppendList DEF AddAuthorizedAddress
<1>3. ASSUME NEW sender \in Callers, NEW target \in Target,
             RemoveAuthorizedAddress(sender, target)
      PROVE  ProxyInv'
  BY <1>3, SwapOutList DEF RemoveAuthorizedAddress
<1>4. CASE UNCHANGED proxyVars
  BY <1>4 DEF proxyVars
<1>5. QED
  BY <1>1, <1>2, <1>3, <1>4 DEF ProxyNext

(* The state of the proxy is well typed whatever its owners do.            *)
THEOREM ProxyTypeCorrect == ProxySpec => []ProxyTypeOK
<1>1. ProxyInv => ProxyTypeOK
  BY DEF ProxyInv
<1>2. QED
  BY <1>1, ProxyInitInv, ProxyStepInv, PTL DEF ProxySpec

(* addAuthorizedAddress and removeAuthorizedAddress never let the mapping  *)
(* and the array of authorities come apart.                                *)
THEOREM AuthoritiesStayAuthorized == ProxySpec => []AuthoritiesAreTheAuthorized
<1>1. ProxyInv => AuthoritiesAreTheAuthorized
  BY DEF ProxyInv
<1>2. QED
  BY <1>1, ProxyInitInv, ProxyStepInv, PTL DEF ProxySpec

-----------------------------------------------------------------------------
(* Arithmetic.                                                             *)

LEMMA DivFacts ==
  ASSUME NEW a \in Nat, NEW b \in Nat \ {0}
  PROVE  /\ a \div b \in Nat
         /\ a % b \in 0 .. b - 1
         /\ a = b * (a \div b) + (a % b)
OBVIOUS

LEMMA ProductNat ==
  ASSUME NEW a \in Nat, NEW b \in Nat
  PROVE  a * b \in Nat
OBVIOUS

(* Adding two words wraps or is exact, and it is exact when it grows.      *)
LEMMA PlusFacts ==
  ASSUME NEW a \in Uint, NEW b \in Uint
  PROVE  /\ Plus(a, b) \in Uint
         /\ Plus(a, b) > a => Plus(a, b) = a + b
<1> USE ModulusAssumption
<1>1. CASE a + b < Modulus
  BY <1>1 DEF Plus, Uint
<1>2. CASE a + b >= Modulus
  <2>1. Plus(a, b) = a + b - Modulus
    BY <1>2 DEF Plus, Uint
  <2>2. QED
    BY <1>2, <2>1 DEF Uint
<1>3. QED
  BY <1>1, <1>2 DEF Uint

-----------------------------------------------------------------------------
(* The token ledger.                                                       *)

LEMMA TransferType ==
  ASSUME NEW ledger \in Ledger, NEW from \in Account, NEW to \in Account,
         NEW value \in Nat, CanTransfer(ledger, from, to, value)
  PROVE  Transfer(ledger, from, to, value) \in Ledger
<1> DEFINE credited == [ledger.balances EXCEPT ![to] = Plus(@, value)]
           moved == [credited EXCEPT ![from] = @ - value]
<1>1. /\ ledger.balances \in [Account -> Uint]
      /\ ledger.allowed \in [Account -> [Spender -> Uint]]
  BY DEF Ledger
<1>2. value \in Uint /\ ledger.balances[from] >= value
  <2>1. ledger.balances[from] \in Uint /\ ledger.balances[from] >= value
    BY <1>1 DEF CanTransfer
  <2>2. QED
    BY <2>1, ModulusAssumption DEF Uint
<1>3. Plus(ledger.balances[to], value) = ledger.balances[to] + value
      /\ ledger.balances[to] + value \in Uint
  BY <1>1, <1>2, PlusFacts DEF CanTransfer
<1>4. credited \in [Account -> Uint]
  BY <1>1, <1>3
<1>5. credited[from] - value \in Uint
  <2>1. CASE from = to
    BY <1>1, <1>2, <1>3, <2>1 DEF Uint
  <2>2. CASE from # to
    <3>1. credited[from] = ledger.balances[from]
      BY <1>1, <2>2
    <3>2. ledger.balances[from] \in Uint
      BY <1>1
    <3>3. QED
      BY <1>2, <3>1, <3>2, ModulusAssumption DEF Uint
  <2>3. QED
    BY <2>1, <2>2
<1>6. moved \in [Account -> Uint]
  BY <1>4, <1>5
<1>7. Transfer(ledger, from, to, value) = [ledger EXCEPT !.balances = moved]
  BY DEF Transfer
<1>8. QED
  BY <1>6, <1>7 DEF Ledger

LEMMA TransferFromType ==
  ASSUME NEW ledger \in Ledger, NEW spender \in Spender,
         NEW from \in Account, NEW to \in Account, NEW value \in Nat,
         CanTransferFrom(ledger, spender, from, to, value)
  PROVE  TransferFrom(ledger, spender, from, to, value) \in Ledger
<1> DEFINE moved == Transfer(ledger, from, to, value)
<1>1. moved \in Ledger
  BY TransferType DEF CanTransferFrom
<1>2. moved.allowed = ledger.allowed
  BY DEF Transfer, Ledger
<1>3. ledger.allowed[from][spender] - value \in Uint
  <2>1. ledger.allowed[from][spender] \in Uint
    BY DEF Ledger
  <2>2. ledger.allowed[from][spender] >= value
    BY DEF CanTransferFrom
  <2>3. QED
    BY <2>1, <2>2, ModulusAssumption DEF Uint
<1>4. QED
  BY <1>1, <1>2, <1>3 DEF TransferFrom, Ledger

LEMMA ApproveType ==
  ASSUME NEW ledger \in Ledger, NEW from \in Account,
         NEW spender \in Spender, NEW value \in Uint
  PROVE  Approve(ledger, from, spender, value) \in Ledger
BY DEF Approve, Ledger

-----------------------------------------------------------------------------
(* One fill.                                                               *)

LEMMA OrderFacts ==
  ASSUME NEW o \in Orders
  PROVE  /\ o.maker \in Account
         /\ o.tokenM \in Tokens
         /\ o.tokenT \in Tokens
         /\ o.feeRecipient \in Account \cup {Null}
         /\ o.valueM \in Nat
         /\ o.valueT \in Nat
         /\ o.feeM \in Nat
         /\ o.feeT \in Nat
BY OrderAssumption, ModulusAssumption DEF OrderType, Uint

Payments == [token : Tokens, from : Account, to : Account, value : Nat]

LEMMA PaidType ==
  ASSUME NEW ledgers \in [Tokens -> Ledger], NEW p \in Payments,
         Payable(ledgers, p)
  PROVE  Paid(ledgers, p) \in [Tokens -> Ledger]
<1>1. TransferFrom(ledgers[p.token], ProxyAddress, p.from, p.to, p.value)
        \in Ledger
  BY TransferFromType, PartyAssumption DEF Payable, Payments
<1>2. QED
  BY <1>1 DEF Paid

PaymentsOf(o, sender, f) ==
  /\ MakerPays(o, sender, f) \in Payments
  /\ TakerPays(o, sender, f) \in Payments
  /\ FeeDue(o, o.feeM) => MakerFee(o, sender, f) \in Payments
  /\ FeeDue(o, o.feeT) => TakerFee(o, sender, f) \in Payments

LEMMA PaymentsType ==
  ASSUME NEW o \in Orders, NEW sender \in Account,
         NEW f \in Nat \ {0}, f <= o.valueT
  PROVE  PaymentsOf(o, sender, f)
<1>1. \A target \in Nat : GetPartialValue(o.valueT, f, target) \in Nat
  <2> SUFFICES ASSUME NEW target \in Nat
               PROVE  GetPartialValue(o.valueT, f, target) \in Nat
    OBVIOUS
  <2>1. f * target \in Nat /\ o.valueT \in Nat \ {0}
    BY ProductNat, OrderFacts
  <2>2. QED
    BY <2>1, DivFacts DEF GetPartialValue
<1>2. /\ MakerPays(o, sender, f) \in Payments
      /\ TakerPays(o, sender, f) \in Payments
  BY <1>1, OrderFacts DEF MakerPays, TakerPays, Payment, Payments
<1>3. /\ FeeDue(o, o.feeM) => MakerFee(o, sender, f) \in Payments
      /\ FeeDue(o, o.feeT) => TakerFee(o, sender, f) \in Payments
  BY <1>1, OrderFacts, PartyAssumption
     DEF MakerFee, TakerFee, FeeDue, Payment, Payments
<1>4. QED
  BY <1>2, <1>3 DEF PaymentsOf

LEMMA SettledType ==
  ASSUME NEW ledgers \in [Tokens -> Ledger], NEW o \in Orders,
         NEW sender \in Account, NEW f \in Nat \ {0}, f <= o.valueT,
         TransfersSucceed(ledgers, o, sender, f)
  PROVE  Settled(ledgers, o, sender, f) \in [Tokens -> Ledger]
<1>1. PaymentsOf(o, sender, f)
  BY PaymentsType
<1>2. Paid(ledgers, MakerPays(o, sender, f)) \in [Tokens -> Ledger]
  BY <1>1, PaidType DEF TransfersSucceed, PaymentsOf
<1>3. AfterSwap(ledgers, o, sender, f) \in [Tokens -> Ledger]
  BY <1>1, <1>2, PaidType DEF TransfersSucceed, AfterSwap, PaymentsOf
<1>4. AfterMakerFee(ledgers, o, sender, f) \in [Tokens -> Ledger]
  BY <1>1, <1>3, PaidType DEF TransfersSucceed, AfterMakerFee, PaymentsOf
<1>5. QED
  BY <1>1, <1>4, PaidType DEF TransfersSucceed, Settled, PaymentsOf

(* What has to hold of the book of a quiet exchange, and of the book that  *)
(* a call in progress would return to.                                     *)
BookInv(b) ==
  /\ b \in Book
  /\ NeverOverfilledIn(b)
  /\ LimitPriceHonouredIn(b)

(* The amount filled is what was asked for or what is left.                *)
LEMMA FilledFacts ==
  ASSUME NEW b, BookInv(b), NEW o \in Orders, NEW v \in Nat
  PROVE  /\ FilledValueT(b, o, v) \in Nat
         /\ FilledValueT(b, o, v) <= v
         /\ FilledValueT(b, o, v) <= RemainingValueT(b, o)
         /\ RemainingValueT(b, o) \in Nat
         /\ RemainingValueT(b, o) <= o.valueT
<1>1. b.filled[o] \in Nat /\ b.cancelled[o] \in Nat
  BY DEF BookInv, Book
<1>2. b.filled[o] + b.cancelled[o] <= o.valueT
  BY DEF BookInv, NeverOverfilledIn, GetUnavailableValueT
<1>3. RemainingValueT(b, o) \in Nat /\ RemainingValueT(b, o) <= o.valueT
  BY <1>1, <1>2, OrderFacts DEF RemainingValueT, GetUnavailableValueT
<1>4. QED
  BY <1>3 DEF FilledValueT, Least

(* Paying the rounded-down share of each fill keeps the sum of the shares  *)
(* below the share of the sum.                                             *)
LEMMA ShareBelow ==
  ASSUME NEW given \in Nat, NEW filled \in Nat, NEW f \in Nat,
         NEW valueM \in Nat, NEW valueT \in Nat \ {0},
         given * valueT <= filled * valueM
  PROVE  /\ GetPartialValue(valueT, f, valueM) \in Nat
         /\ (given + GetPartialValue(valueT, f, valueM)) * valueT
              <= (filled + f) * valueM
<1> DEFINE q == GetPartialValue(valueT, f, valueM)
           product == f * valueM
<1>1. product \in Nat
  BY ProductNat
<1>2. q = product \div valueT
  BY DEF GetPartialValue
<1> HIDE DEF product, q
<1>3. q \in Nat /\ valueT * q <= product
  <2>1. product % valueT \in Nat
    BY <1>1, DivFacts
  <2>2. product = valueT * (product \div valueT) + (product % valueT)
    BY <1>1, DivFacts
  <2>3. q \in Nat /\ valueT * q \in Nat
    BY <1>1, <1>2, DivFacts, ProductNat
  <2>4. QED
    BY <1>2, <2>1, <2>2, <2>3
<1>4. (given + q) * valueT = given * valueT + valueT * q
  BY <1>3
<1>5. (filled + f) * valueM = filled * valueM + product
  BY DEF product
<1>6. /\ given * valueT \in Nat
      /\ filled * valueM \in Nat
      /\ valueT * q \in Nat
  BY <1>3, ProductNat
<1>7. (given + q) * valueT <= (filled + f) * valueM
  BY <1>1, <1>3, <1>4, <1>5, <1>6
<1>8. QED
  BY <1>3, <1>7 DEF q

(* And when isRoundingError finds nothing cut off, no share is lost.       *)
LEMMA ShareExact ==
  ASSUME NEW given \in Nat, NEW filled \in Nat, NEW f \in Nat,
         NEW valueM \in Nat, NEW valueT \in Nat \ {0},
         given * valueT >= filled * valueM, (valueM * f) % valueT = 0
  PROVE  (given + GetPartialValue(valueT, f, valueM)) * valueT
           >= (filled + f) * valueM
<1> DEFINE q == GetPartialValue(valueT, f, valueM)
           product == f * valueM
<1>1. product \in Nat /\ product = valueM * f
  BY ProductNat
<1>2. q = product \div valueT
  BY DEF GetPartialValue
<1>3. product % valueT = 0
  BY <1>1
<1> HIDE DEF product, q
<1>4. q \in Nat /\ valueT * q = product
  <2>1. product = valueT * (product \div valueT) + (product % valueT)
    BY <1>1, DivFacts
  <2>2. q \in Nat /\ valueT * q \in Nat
    BY <1>1, <1>2, DivFacts, ProductNat
  <2>3. QED
    BY <1>2, <1>3, <2>1, <2>2
<1>5. (given + q) * valueT = given * valueT + valueT * q
  BY <1>4
<1>6. (filled + f) * valueM = filled * valueM + product
  BY DEF product
<1>7. (given + q) * valueT >= (filled + f) * valueM
  <2>1. /\ given * valueT \in Nat
        /\ filled * valueM \in Nat
    BY ProductNat
  <2>2. QED
    BY <1>1, <1>4, <1>5, <1>6, <2>1
<1>8. QED
  BY <1>7 DEF q

(* A fill keeps the books.                                                 *)
LEMMA FillKeepsBook ==
  ASSUME NEW b, BookInv(b), NEW o \in Orders, NEW sender \in Account,
         NEW v \in Nat, NEW check, Fillable(b, o, sender, v, check)
  PROVE  /\ BookInv(AfterFill(b, o, sender, v))
         /\ AfterFill(b, o, sender, v).filled[o]
              = b.filled[o] + FilledValueT(b, o, v)
<1> DEFINE f == FilledValueT(b, o, v)
           q == GetPartialValue(o.valueT, f, o.valueM)
           n == AfterFill(b, o, sender, v)
<1>1. f \in Nat \ {0} /\ f <= RemainingValueT(b, o) /\ f <= o.valueT
  BY FilledFacts, OrderFacts DEF Fillable
<1>2. o.valueT \in Nat \ {0} /\ o.valueM \in Nat
  BY <1>1, OrderFacts
<1>3. /\ b.filled \in [Orders -> Nat]
      /\ b.cancelled \in [Orders -> Nat]
      /\ b.given \in [Orders -> Nat]
      /\ b.ledgers \in [Tokens -> Ledger]
  BY DEF BookInv, Book
<1>4. Settled(b.ledgers, o, sender, f) \in [Tokens -> Ledger]
  BY <1>1, <1>3, SettledType DEF Fillable
<1>5. /\ q \in Nat
      /\ (b.given[o] + q) * o.valueT <= (b.filled[o] + f) * o.valueM
  BY <1>1, <1>2, <1>3, ShareBelow DEF BookInv, LimitPriceHonouredIn
<1>6. o.valueM < RoundingLimit =>
        (b.given[o] + q) * o.valueT = (b.filled[o] + f) * o.valueM
  <2> SUFFICES ASSUME o.valueM < RoundingLimit
               PROVE  (b.given[o] + q) * o.valueT
                        = (b.filled[o] + f) * o.valueM
    OBVIOUS
  <2>1. b.given[o] * o.valueT = b.filled[o] * o.valueM
    BY DEF BookInv, LimitPriceHonouredIn
  <2>2. (o.valueM * f) % o.valueT = 0
    BY DEF Fillable, IsRoundingError
  <2>3. b.given[o] \in Nat /\ b.filled[o] \in Nat /\ f \in Nat
    BY <1>1, <1>3
  <2>4. QED
    <3>1. b.given[o] * o.valueT >= b.filled[o] * o.valueM
      <4>1. b.filled[o] * o.valueM \in Nat
        BY <1>2, <2>3, ProductNat
      <4>2. QED
        BY <2>1, <4>1
    <3>2. (b.given[o] + q) * o.valueT >= (b.filled[o] + f) * o.valueM
      BY <1>2, <2>2, <2>3, <3>1, ShareExact
    <3>3. /\ (b.given[o] + q) * o.valueT \in Nat
          /\ (b.filled[o] + f) * o.valueM \in Nat
      <4>1. b.given[o] + q \in Nat /\ b.filled[o] + f \in Nat
        BY <1>5, <2>3
      <4>2. QED
        BY <1>2, <4>1, ProductNat
    <3>4. QED
      BY <1>5, <3>2, <3>3
<1>61. n = [b EXCEPT !.filled[o] = @ + f,
                    !.given[o] = @ + q,
                    !.ledgers = Settled(@, o, sender, f)]
  BY DEF AfterFill
<1>62. b \in Book
  BY DEF BookInv
<1> HIDE DEF f, q, n
<1>7. /\ n.filled = [b.filled EXCEPT ![o] = @ + f]
      /\ n.given = [b.given EXCEPT ![o] = @ + q]
      /\ n.cancelled = b.cancelled
      /\ n.ledgers = Settled(b.ledgers, o, sender, f)
      /\ n \in Book
  <2>1. /\ n.filled = [b.filled EXCEPT ![o] = @ + f]
        /\ n.given = [b.given EXCEPT ![o] = @ + q]
        /\ n.cancelled = b.cancelled
        /\ n.ledgers = Settled(b.ledgers, o, sender, f)
    BY <1>61, <1>62 DEF Book
  <2>2. /\ [b.filled EXCEPT ![o] = @ + f] \in [Orders -> Nat]
        /\ [b.given EXCEPT ![o] = @ + q] \in [Orders -> Nat]
    BY <1>1, <1>3, <1>5
  <2>3. n \in Book
    BY <1>3, <1>4, <1>61, <1>62, <2>1, <2>2 DEF Book
  <2>4. QED
    BY <2>1, <2>3
<1>8. NeverOverfilledIn(n)
  <2> SUFFICES ASSUME NEW p \in Orders
               PROVE  n.filled[p] + n.cancelled[p] <= p.valueT
    BY DEF NeverOverfilledIn, GetUnavailableValueT
  <2>1. b.filled[p] + b.cancelled[p] <= p.valueT
    BY DEF BookInv, NeverOverfilledIn, GetUnavailableValueT
  <2>2. f <= o.valueT - (b.filled[o] + b.cancelled[o])
    BY <1>1 DEF RemainingValueT, GetUnavailableValueT
  <2>3. QED
    BY <1>1, <1>2, <1>3, <1>7, <2>1, <2>2
<1>9. LimitPriceHonouredIn(n)
  <2> SUFFICES ASSUME NEW p \in Orders
               PROVE  /\ n.given[p] * p.valueT <= n.filled[p] * p.valueM
                      /\ p.valueM < RoundingLimit =>
                           n.given[p] * p.valueT = n.filled[p] * p.valueM
    BY DEF LimitPriceHonouredIn
  <2>1. CASE p = o
    <3>1. n.given[p] = b.given[o] + q /\ n.filled[p] = b.filled[o] + f
      BY <1>3, <1>7, <2>1
    <3>2. QED
      BY <1>5, <1>6, <2>1, <3>1
  <2>2. CASE p # o
    <3>1. n.given[p] = b.given[p] /\ n.filled[p] = b.filled[p]
      BY <1>3, <1>7, <2>2
    <3>2. QED
      BY <3>1 DEF BookInv, LimitPriceHonouredIn
  <2>3. QED
    BY <2>1, <2>2
<1>10. n.filled[o] = b.filled[o] + f
  BY <1>3, <1>7
<1>11. QED
  BY <1>7, <1>8, <1>9, <1>10 DEF BookInv, n, f

(* So does a cancellation.                                                 *)
LEMMA CancelKeepsBook ==
  ASSUME NEW b, BookInv(b), NEW o \in Orders, NEW v \in Nat
  PROVE  BookInv(AfterCancel(b, o, v))
<1> DEFINE c == CancelledValueT(b, o, v)
           n == [b EXCEPT !.cancelled[o] = @ + c]
<1>1. c \in Nat /\ c <= RemainingValueT(b, o)
  BY FilledFacts DEF CancelledValueT, Least
<1>2. b.filled \in [Orders -> Nat] /\ b.cancelled \in [Orders -> Nat]
  BY DEF BookInv, Book
<1> HIDE DEF c
<1>3. /\ n.cancelled = [b.cancelled EXCEPT ![o] = @ + c]
      /\ n.filled = b.filled
      /\ n.given = b.given
      /\ n \in Book
  BY <1>1, <1>2 DEF BookInv, Book
<1> HIDE DEF n
<1>4. NeverOverfilledIn(n)
  <2> SUFFICES ASSUME NEW p \in Orders
               PROVE  n.filled[p] + n.cancelled[p] <= p.valueT
    BY DEF NeverOverfilledIn, GetUnavailableValueT
  <2>1. b.filled[p] + b.cancelled[p] <= p.valueT
    BY DEF BookInv, NeverOverfilledIn, GetUnavailableValueT
  <2>2. c <= o.valueT - (b.filled[o] + b.cancelled[o])
    BY <1>1 DEF RemainingValueT, GetUnavailableValueT
  <2>3. QED
    BY <1>1, <1>2, <1>3, <2>1, <2>2, OrderFacts
<1>5. LimitPriceHonouredIn(n)
  BY <1>3 DEF BookInv, LimitPriceHonouredIn
<1>6. BookInv(n)
  BY <1>3, <1>4, <1>5 DEF BookInv
<1>7. QED
  BY <1>6 DEF AfterCancel, n, c

(* Tokens that move without the exchange leave its records alone.          *)
LEMMA LedgerKeepsBook ==
  ASSUME NEW b, BookInv(b), NEW token \in Tokens, NEW ledger \in Ledger
  PROVE  BookInv([b EXCEPT !.ledgers[token] = ledger])
BY DEF BookInv, Book, NeverOverfilledIn, GetUnavailableValueT,
       LimitPriceHonouredIn

-----------------------------------------------------------------------------
(* The invariant.                                                          *)

(* A call in progress can return to a good book, and the amounts of a      *)
(* batch match its orders.                                                 *)
CallInv(call) ==
  /\ call \in Calls
  /\ BookInv(call.before)
  /\ call.at >= 1
  /\ call.op # "fillUpTo" => Len(call.values) = Len(call.orders)

Inv ==
  /\ ProxyInv
  /\ BookInv(book)
  /\ now \in 0..MaxTime
  /\ tx = NoCall \/ CallInv(tx)

LEMMA InvIsEnough ==
  Inv => TypeOK /\ NeverOverfilled /\ LimitPriceHonoured
                /\ AuthoritiesAreTheAuthorized
BY DEF Inv, TypeOK, NeverOverfilled, LimitPriceHonoured, BookInv, CallInv,
       ProxyInv

LEMMA InitInv == Init => Inv
<1> SUFFICES ASSUME Init
             PROVE  Inv
  OBVIOUS
<1>1. 0 \in Uint
  BY ModulusAssumption DEF Uint
<1>2. \A t \in Tokens :
        [balances |-> InitialBalance[t],
         allowed |-> [a \in Account |-> [s \in Spender |-> 0]]] \in Ledger
  BY <1>1, BalanceAssumption DEF Ledger
<1>3. /\ book \in Book
      /\ book.filled = [o \in Orders |-> 0]
      /\ book.cancelled = [o \in Orders |-> 0]
      /\ book.given = [o \in Orders |-> 0]
  BY <1>2 DEF Init, Book
<1>4. NeverOverfilledIn(book)
  BY <1>3, OrderFacts DEF NeverOverfilledIn, GetUnavailableValueT
<1>5. LimitPriceHonouredIn(book)
  BY <1>3, OrderFacts DEF LimitPriceHonouredIn
<1>6. ProxyInv /\ now \in 0..MaxTime
  BY ProxyInitInv, TimeAssumption DEF Init
<1>7. QED
  BY <1>3, <1>4, <1>5, <1>6 DEF Init, Inv, BookInv

(* A call that begins.                                                     *)
LEMMA BeginInv ==
  ASSUME Inv, NEW call, CallInv(call), Begin(call)
  PROVE  Inv'
BY DEF Inv, Begin, proxyVars, ProxyInv, ProxyTypeOK,
       AuthoritiesAreTheAuthorized, CallInv, BookInv

LEMMA BatchBegins ==
  ASSUME Inv, NEW op \in BatchOps, NEW sender \in Account,
         NEW batch \in Batches, NEW check \in BOOLEAN,
         Begin(BatchOf(op, sender, batch.orders, batch.values, check))
  PROVE  Inv'
<1>1. 0 \in Uint
  BY ModulusAssumption DEF Uint
<1>2. CallInv(BatchOf(op, sender, batch.orders, batch.values, check))
  BY <1>1, ValueAssumption DEF Inv, BookInv, CallInv, BatchOf, Calls
<1>3. QED
  BY <1>2, BeginInv

LEMMA FillUpToBegins ==
  ASSUME Inv, NEW sender \in Account, NEW batch \in Batches,
         NEW v \in Values, NEW check \in BOOLEAN,
         FillUpTo(sender, batch.orders, v, check)
  PROVE  Inv'
<1> DEFINE call == [op |-> "fillUpTo", sender |-> sender,
                    orders |-> batch.orders, values |-> << >>, want |-> v,
                    left |-> v, check |-> check, at |-> 1, before |-> book]
<1>1. call \in Calls
  <2>1. << >> \in Seq(Uint)
    OBVIOUS
  <2>2. QED
    BY <2>1, ValueAssumption DEF Calls, BatchOps, Inv, BookInv
<1>2. CallInv(call)
  BY <1>1 DEF CallInv, Inv
<1>3. QED
  BY <1>2, BeginInv DEF FillUpTo

(* A turn of a loop: the order it handles, and how it moves on.            *)
LEMMA TurnFacts ==
  ASSUME Inv, NEW op \in BatchOps, Turn(op)
  PROVE  /\ CallInv(tx)
         /\ tx.op = op
         /\ tx.at \in 1 .. Len(tx.orders)
         /\ tx.sender \in Account
         /\ Order \in Orders
         /\ op # "fillUpTo" => Value \in Nat
         /\ tx.left \in Nat
         /\ CallInv(Onward)
<1>1. tx # NoCall
  BY DEF Turn, NoCall, BatchOps
<1>2. /\ CallInv(tx)
      /\ tx \in Calls
      /\ tx.op = op
  BY <1>1 DEF Inv, CallInv, Turn
<1>3. /\ tx.orders \in Seq(Orders)
      /\ tx.values \in Seq(Uint)
      /\ tx.sender \in Account
      /\ tx.left \in Uint
      /\ tx.at \in Nat
  BY <1>2 DEF Calls
<1>4. tx.at \in 1 .. Len(tx.orders)
  BY <1>2, <1>3 DEF Turn, CallInv
<1>5. Order \in Orders
  BY <1>3, <1>4 DEF Order
<1>6. op # "fillUpTo" => Value \in Nat
  <2> SUFFICES ASSUME op # "fillUpTo"
               PROVE  Value \in Nat
    OBVIOUS
  <2>1. tx.at \in 1 .. Len(tx.values)
    BY <1>2, <1>4 DEF CallInv
  <2>2. Value \in Uint
    BY <1>3, <2>1 DEF Value
  <2>3. QED
    BY <2>2, ModulusAssumption DEF Uint
<1>7. tx.left \in Nat
  BY <1>3, ModulusAssumption DEF Uint
<1>8. CallInv(Onward)
  <2>1. Onward \in Calls /\ Onward.at = tx.at + 1
    BY <1>2, <1>3 DEF Onward, Calls
  <2>2. /\ Onward.before = tx.before
        /\ Onward.op = tx.op
        /\ Onward.values = tx.values
        /\ Onward.orders = tx.orders
    BY <1>2 DEF Onward, Calls
  <2>3. QED
    BY <1>2, <1>3, <2>1, <2>2 DEF CallInv
<1>9. QED
  BY <1>2, <1>3, <1>4, <1>5, <1>6, <1>7, <1>8

LEMMA FillOrSkipKeepsBook ==
  ASSUME BookInv(book), Order \in Orders, tx.sender \in Account,
         NEW v \in Nat, FillOrSkip(v)
  PROVE  /\ BookInv(book')
         /\ book'.filled[Order] - book.filled[Order] \in 0..v
<1>1. book.filled[Order] \in Nat
  BY DEF BookInv, Book
<1>2. CASE /\ Fillable(book, Order, tx.sender, v, tx.check)
           /\ book' = AfterFill(book, Order, tx.sender, v)
  <2>1. /\ BookInv(AfterFill(book, Order, tx.sender, v))
        /\ AfterFill(book, Order, tx.sender, v).filled[Order]
             = book.filled[Order] + FilledValueT(book, Order, v)
    BY <1>2, FillKeepsBook
  <2>2. FilledValueT(book, Order, v) \in 0..v
    BY FilledFacts
  <2>3. QED
    BY <1>1, <1>2, <2>1, <2>2
<1>3. CASE UNCHANGED book
  BY <1>1, <1>3
<1>4. QED
  BY <1>2, <1>3 DEF FillOrSkip

(* Steps that leave the proxy and the clock alone.                         *)
LEMMA QuietInv ==
  ASSUME Inv, UNCHANGED <<now, proxyVars>>, BookInv(book'),
         tx' = NoCall \/ CallInv(tx')
  PROVE  Inv'
BY DEF Inv, proxyVars, ProxyInv, ProxyTypeOK, AuthoritiesAreTheAuthorized,
       BookInv, CallInv

(* An unchanged call in progress stays good.                               *)
LEMMA SameCall ==
  ASSUME Inv, tx' = tx
  PROVE  tx' = NoCall \/ CallInv(tx')
BY DEF Inv

(* Every turn of a call on several orders.                                 *)
LEMMA TurnInv ==
  ASSUME Inv,
         \/ BatchFillTurn \/ BatchFillOrKillTurn
         \/ BatchCancelTurn \/ FillUpToTurn
  PROVE  Inv'
<1>0. BookInv(book)
  BY DEF Inv
<1>1. CASE BatchFillTurn
  <2>1. BookInv(book')
    BY <1>0, <1>1, TurnFacts, FillOrSkipKeepsBook DEF BatchFillTurn, BatchOps
  <2>2. CallInv(tx') /\ UNCHANGED <<now, proxyVars>>
    BY <1>1, TurnFacts DEF BatchFillTurn, BatchOps, Turn
  <2>3. QED
    BY <2>1, <2>2, QuietInv
<1>2. CASE BatchFillOrKillTurn
  <2>1. /\ Order \in Orders /\ tx.sender \in Account /\ Value \in Nat
        /\ CallInv(Onward)
    BY <1>2, TurnFacts DEF BatchFillOrKillTurn, BatchOps
  <2>2. BookInv(book')
    BY <1>0, <1>2, <2>1, FillKeepsBook
       DEF BatchFillOrKillTurn, FilledEntirely
  <2>3. CallInv(tx') /\ UNCHANGED <<now, proxyVars>>
    BY <1>2, <2>1 DEF BatchFillOrKillTurn, Turn
  <2>4. QED
    BY <2>2, <2>3, QuietInv
<1>3. CASE BatchCancelTurn
  <2>1. BookInv(book')
    BY <1>0, <1>3, TurnFacts, CancelKeepsBook DEF BatchCancelTurn, BatchOps
  <2>2. CallInv(tx') /\ UNCHANGED <<now, proxyVars>>
    BY <1>3, TurnFacts DEF BatchCancelTurn, BatchOps, Turn
  <2>3. QED
    BY <2>1, <2>2, QuietInv
<1>4. CASE FillUpToTurn
  <2> DEFINE got == book'.filled[Order] - book.filled[Order]
             left == tx.left - got
             at == IF left = 0 THEN Len(tx.orders) + 1 ELSE tx.at + 1
  <2>1. /\ Turn("fillUpTo")
        /\ FillOrSkip(tx.left)
        /\ tx' = [tx EXCEPT !.left = left, !.at = at]
    BY <1>4 DEF FillUpToTurn
  <2>2. /\ CallInv(tx)
        /\ tx.op = "fillUpTo"
        /\ tx.at \in 1 .. Len(tx.orders)
        /\ tx.sender \in Account
        /\ Order \in Orders
        /\ tx.left \in Nat
    BY <2>1, TurnFacts DEF BatchOps
  <2>3. BookInv(book') /\ got \in 0 .. tx.left
    BY <1>0, <2>1, <2>2, FillOrSkipKeepsBook
  <2> HIDE DEF got
  <2>4. tx \in Calls /\ tx.left \in Uint /\ tx.orders \in Seq(Orders)
    BY <2>2 DEF CallInv, Calls
  <2>5. left \in Uint
    BY <2>2, <2>3, <2>4, ModulusAssumption DEF Uint
  <2>6. at \in Nat /\ at >= 1
    BY <2>2, <2>4
  <2> HIDE DEF left, at
  <2>7. tx' \in Calls /\ tx'.at = at
    BY <2>1, <2>4, <2>5, <2>6 DEF Calls
  <2>8. tx'.op = "fillUpTo" /\ tx'.before = tx.before
    BY <2>1, <2>2, <2>4 DEF Calls
  <2>9. CallInv(tx')
    BY <2>2, <2>6, <2>7, <2>8 DEF CallInv
  <2>10. QED
    BY <2>1, <2>3, <2>9, QuietInv DEF Turn
<1>5. QED
  BY <1>1, <1>2, <1>3, <1>4

(* Every call on one order, and every call on several that begins.         *)
LEMMA TradeInv ==
  ASSUME Inv, NEW sender \in Account, Trade(sender)
  PROVE  Inv'
<1>0. BookInv(book)
  BY DEF Inv
<1>01. Values \subseteq Nat
  BY ValueAssumption, ModulusAssumption DEF Uint
<1>1. ASSUME NEW o \in Orders, NEW v \in Values, NEW check \in BOOLEAN,
             Fill(sender, o, v, check)
      PROVE  Inv'
  BY <1>0, <1>01, <1>1, FillKeepsBook, SameCall, QuietInv DEF Fill
<1>2. ASSUME NEW o \in Orders, NEW v \in Values, FillOrKill(sender, o, v)
      PROVE  Inv'
  BY <1>0, <1>01, <1>2, FillKeepsBook, SameCall, QuietInv
     DEF FillOrKill, FilledEntirely
<1>3. ASSUME NEW o \in Orders, NEW v \in Values, Cancel(sender, o, v)
      PROVE  Inv'
  BY <1>0, <1>01, <1>3, CancelKeepsBook, SameCall, QuietInv DEF Cancel
<1>4. ASSUME NEW batch \in Batches, NEW check \in BOOLEAN,
             BatchFill(sender, batch.orders, batch.values, check)
      PROVE  Inv'
  BY <1>4, BatchBegins DEF BatchFill, BatchOps
<1>5. ASSUME NEW batch \in Batches,
             BatchFillOrKill(sender, batch.orders, batch.values)
      PROVE  Inv'
  BY <1>5, BatchBegins DEF BatchFillOrKill, BatchOps
<1>6. ASSUME NEW batch \in Batches,
             BatchCancel(sender, batch.orders, batch.values)
      PROVE  Inv'
  BY <1>6, BatchBegins DEF BatchCancel, BatchOps
<1>7. QED
  BY <1>1, <1>2, <1>3, <1>4, <1>5, <1>6, FillUpToBegins DEF Trade

(* What ends a call, and what happens between calls.                       *)
LEMMA SurroundingsInv ==
  ASSUME Inv,
         \/ Commit \/ Abort \/ ProxyStep \/ Tick
         \/ \E p \in Approvals : HolderApproves(p[1], p[2], p[3])
         \/ \E g \in Gifts :
              \/ HolderTransfers(g[1], g[2], g[3], g[4])
              \/ \E caller \in Target :
                   OtherTransfersFrom(caller, g[1], g[2], g[3], g[4])
  PROVE  Inv'
<1>0. BookInv(book) /\ book.ledgers \in [Tokens -> Ledger]
  BY DEF Inv, BookInv, Book
<1>01. Uint \subseteq Nat
  BY ModulusAssumption DEF Uint
<1>1. CASE Commit
  BY <1>0, <1>1, QuietInv DEF Commit
<1>2. CASE Abort
  <2>1. CallInv(tx)
    BY <1>2 DEF Inv, Abort, Idle, NoCall
  <2>2. QED
    BY <1>2, <2>1, QuietInv DEF Abort, CallInv
<1>3. CASE ProxyStep
  <2>1. ProxyInv'
    BY <1>3, ProxyStepInv DEF ProxyStep, Inv
  <2>2. QED
    BY <1>3, <2>1 DEF ProxyStep, Inv
<1>4. CASE Tick
  <2>1. now' \in 0..MaxTime
    BY <1>4, TimeAssumption DEF Tick, Inv
  <2>2. ProxyInv'
    BY <1>4 DEF Tick, proxyVars, Inv, ProxyInv, ProxyTypeOK,
                AuthoritiesAreTheAuthorized
  <2>3. QED
    BY <1>4, <2>1, <2>2 DEF Tick, Inv
<1>5. ASSUME NEW p \in Approvals, HolderApproves(p[1], p[2], p[3])
      PROVE  Inv'
  <2>1. p[1] \in Account /\ p[2] \in Tokens /\ p[3] \in Uint
    BY ValueAssumption
  <2>2. Approve(book.ledgers[p[2]], p[1], ProxyAddress, p[3]) \in Ledger
    BY <1>0, <2>1, ApproveType, PartyAssumption
  <2>3. book' = [book EXCEPT !.ledgers[p[2]] =
                   Approve(book.ledgers[p[2]], p[1], ProxyAddress, p[3])]
    BY <1>5 DEF HolderApproves
  <2>4. QED
    BY <1>0, <1>5, <2>1, <2>2, <2>3, LedgerKeepsBook, SameCall, QuietInv
       DEF HolderApproves
<1>6. ASSUME NEW g \in Gifts, HolderTransfers(g[1], g[2], g[3], g[4])
      PROVE  Inv'
  <2>1. /\ g[1] \in Account /\ g[2] \in Account /\ g[3] \in Tokens
        /\ g[4] \in Nat
    BY <1>01, ValueAssumption
  <2>2. Transfer(book.ledgers[g[3]], g[1], g[2], g[4]) \in Ledger
    BY <1>0, <1>6, <2>1, TransferType DEF HolderTransfers
  <2>3. book' = [book EXCEPT !.ledgers[g[3]] =
                   Transfer(book.ledgers[g[3]], g[1], g[2], g[4])]
    BY <1>6 DEF HolderTransfers
  <2>4. QED
    BY <1>0, <1>6, <2>1, <2>2, <2>3, LedgerKeepsBook, SameCall, QuietInv
       DEF HolderTransfers
<1>7. ASSUME NEW g \in Gifts, NEW caller \in Target,
             OtherTransfersFrom(caller, g[1], g[2], g[3], g[4])
      PROVE  Inv'
  <2> DEFINE after ==
        TransferFrom(book.ledgers[g[3]], ProxyAddress, g[1], g[2], g[4])
  <2>1. /\ g[1] \in Account /\ g[2] \in Account /\ g[3] \in Tokens
        /\ g[4] \in Nat
    BY <1>01, ValueAssumption
  <2>2. after \in Ledger
    BY <1>0, <1>7, <2>1, TransferFromType, PartyAssumption
       DEF OtherTransfersFrom
  <2>3. book' = [book EXCEPT !.ledgers[g[3]] = after]
    BY <1>7 DEF OtherTransfersFrom
  <2> HIDE DEF after
  <2>4. QED
    BY <1>0, <1>7, <2>1, <2>2, <2>3, LedgerKeepsBook, SameCall, QuietInv
       DEF OtherTransfersFrom
<1>8. QED
  BY <1>1, <1>2, <1>3, <1>4, <1>5, <1>6, <1>7

LEMMA StepInv == Inv /\ [Next]_vars => Inv'
<1> SUFFICES ASSUME Inv, [Next]_vars
             PROVE  Inv'
  OBVIOUS
<1>1. CASE \E sender \in Account : Trade(sender)
  BY <1>1, TradeInv
<1>2. CASE \/ BatchFillTurn \/ BatchFillOrKillTurn
           \/ BatchCancelTurn \/ FillUpToTurn
  BY <1>2, TurnInv
<1>3. CASE UNCHANGED vars
  BY <1>3, QuietInv, SameCall DEF vars, proxyVars, Inv
<1>4. QED
  BY <1>1, <1>2, <1>3, SurroundingsInv DEF Next

-----------------------------------------------------------------------------
(* Money.  What the proxy does to the ledgers conserves each token, and    *)
(* takes off an account's allowance what it takes from the account.        *)

SupplyOf(ledger) == SumFunctionOnSet(ledger.balances, Account)

DrawsOn(was, is) ==
  /\ SupplyOf(is) = SupplyOf(was)
  /\ \A a \in Account :
       was.balances[a] - is.balances[a]
         <= was.allowed[a][ProxyAddress] - is.allowed[a][ProxyAddress]

Draws(was, is) == \A t \in Tokens : DrawsOn(was[t], is[t])

LEMMA TransferMoves ==
  ASSUME NEW ledger \in Ledger, NEW from \in Account, NEW to \in Account,
         NEW value \in Nat, CanTransfer(ledger, from, to, value)
  PROVE  LET is == Transfer(ledger, from, to, value)
         IN  /\ SupplyOf(is) = SupplyOf(ledger)
             /\ is.allowed = ledger.allowed
             /\ \A a \in Account :
                  is.balances[a] >= IF a = from
                                    THEN ledger.balances[a] - value
                                    ELSE ledger.balances[a]
<1> DEFINE was == ledger.balances
           credited == [was EXCEPT ![to] = Plus(@, value)]
           moved == [credited EXCEPT ![from] = @ - value]
<1>1. /\ was \in [Account -> Uint]
      /\ \A a \in Account : was[a] \in Nat
  BY ModulusAssumption DEF Ledger, Uint
<1>2. value \in Uint /\ was[from] >= value
  <2>1. was[from] \in Uint /\ was[from] >= value
    BY <1>1 DEF CanTransfer
  <2>2. QED
    BY <2>1, ModulusAssumption DEF Uint
<1>3. Plus(was[to], value) = was[to] + value
  BY <1>1, <1>2, PlusFacts DEF CanTransfer
<1>4. /\ Transfer(ledger, from, to, value).balances = moved
      /\ Transfer(ledger, from, to, value).allowed = ledger.allowed
  BY DEF Transfer, Ledger
<1> HIDE DEF was
<1>5. /\ credited[to] = was[to] + value
      /\ \A a \in Account \ {to} : credited[a] = was[a]
      /\ DOMAIN credited = Account
  BY <1>1, <1>3
<1> HIDE DEF credited
<1>6. /\ moved[from] = credited[from] - value
      /\ \A a \in Account \ {from} : moved[a] = credited[a]
  BY <1>5
<1> HIDE DEF moved
<1>7. \A a \in Account : credited[a] \in Nat /\ credited[a] >= was[a]
  BY <1>1, <1>5
<1>8. SumFunctionOnSet(credited, Account)
        = SumFunctionOnSet(was, Account) + credited[to] - was[to]
  <2>1. /\ \A a \in Account : was[a] \in Int
        /\ credited[to] \in Int
    BY <1>1, <1>7
  <2>2. QED
    BY <1>5, <2>1, SumUpdate, AccountAssumption
<1>9. SumFunctionOnSet(moved, Account)
        = SumFunctionOnSet(credited, Account) + moved[from] - credited[from]
  <2>1. /\ \A a \in Account : credited[a] \in Int
        /\ moved[from] \in Int
    BY <1>6, <1>7
  <2>2. QED
    BY <1>6, <2>1, SumUpdate, AccountAssumption
<1>10. SumFunctionOnSet(was, Account) \in Int
  BY <1>1, SumIsInt, AccountAssumption
<1>11. SumFunctionOnSet(moved, Account) = SumFunctionOnSet(was, Account)
  <2>1. /\ credited[to] - was[to] = value
        /\ moved[from] - credited[from] = -value
        /\ credited[to] \in Int /\ was[to] \in Int
        /\ moved[from] \in Int /\ credited[from] \in Int
    BY <1>1, <1>5, <1>6, <1>7
  <2>2. QED
    BY <1>8, <1>9, <1>10, <2>1
<1>12. \A a \in Account :
         moved[a] >= IF a = from THEN was[a] - value ELSE was[a]
  BY <1>1, <1>6, <1>7
<1>13. QED
  BY <1>4, <1>11, <1>12 DEF SupplyOf, was

LEMMA TransferFromDraws ==
  ASSUME NEW ledger \in Ledger, NEW from \in Account, NEW to \in Account,
         NEW value \in Nat,
         CanTransferFrom(ledger, ProxyAddress, from, to, value)
  PROVE  DrawsOn(ledger, TransferFrom(ledger, ProxyAddress, from, to, value))
<1> DEFINE moved == Transfer(ledger, from, to, value)
           is == TransferFrom(ledger, ProxyAddress, from, to, value)
           was(a) == ledger.allowed[a][ProxyAddress]
<1>1. /\ ledger.allowed \in [Account -> [Spender -> Uint]]
      /\ ledger.balances \in [Account -> Uint]
      /\ \A a \in Account : was(a) \in Nat /\ ledger.balances[a] \in Nat
  BY PartyAssumption, ModulusAssumption DEF Ledger, Uint
<1>2. /\ SupplyOf(moved) = SupplyOf(ledger)
      /\ moved.allowed = ledger.allowed
      /\ \A a \in Account :
           moved.balances[a] >= IF a = from THEN ledger.balances[a] - value
                                            ELSE ledger.balances[a]
  BY TransferMoves DEF CanTransferFrom
<1>3. moved \in Ledger
  BY TransferType DEF CanTransferFrom
<1>4. /\ is.balances = moved.balances
      /\ is.allowed = [ledger.allowed EXCEPT ![from][ProxyAddress] = @ - value]
  BY <1>2, <1>3 DEF TransferFrom, Ledger
<1> HIDE DEF moved, is
<1>5. \A a \in Account :
        is.allowed[a][ProxyAddress] = IF a = from THEN was(a) - value
                                                  ELSE was(a)
  BY <1>1, <1>4, PartyAssumption
<1>6. \A a \in Account : moved.balances[a] \in Nat
  BY <1>3, ModulusAssumption DEF Ledger, Uint
<1>7. \A a \in Account :
        ledger.balances[a] - is.balances[a]
          <= was(a) - is.allowed[a][ProxyAddress]
  <2> SUFFICES ASSUME NEW a \in Account
               PROVE  ledger.balances[a] - is.balances[a]
                        <= was(a) - is.allowed[a][ProxyAddress]
    OBVIOUS
  <2>1. /\ was(a) \in Nat
        /\ ledger.balances[a] \in Nat
        /\ is.balances[a] \in Nat
    BY <1>1, <1>4, <1>6
  <2>2. CASE a = from
    <3>1. /\ is.allowed[a][ProxyAddress] = was(a) - value
          /\ is.balances[a] >= ledger.balances[a] - value
      BY <1>2, <1>4, <1>5, <2>2
    <3> HIDE DEF was
    <3>2. QED
      BY <2>1, <3>1
  <2>3. CASE a # from
    <3>1. /\ is.allowed[a][ProxyAddress] = was(a)
          /\ is.balances[a] >= ledger.balances[a]
      BY <1>2, <1>4, <1>5, <2>3
    <3> HIDE DEF was
    <3>2. QED
      BY <2>1, <3>1
  <2>4. QED
    BY <2>2, <2>3
<1>8. QED
  BY <1>2, <1>4, <1>7 DEF DrawsOn, SupplyOf, is

LEMMA DrawsTransitive ==
  ASSUME NEW was \in [Tokens -> Ledger], NEW mid \in [Tokens -> Ledger],
         NEW is \in [Tokens -> Ledger], Draws(was, mid), Draws(mid, is)
  PROVE  Draws(was, is)
<1> SUFFICES ASSUME NEW t \in Tokens
             PROVE  DrawsOn(was[t], is[t])
  BY DEF Draws
<1>1. DrawsOn(was[t], mid[t]) /\ DrawsOn(mid[t], is[t])
  BY DEF Draws
<1>2. \A l \in Ledger, a \in Account :
        l.balances[a] \in Nat /\ l.allowed[a][ProxyAddress] \in Nat
  BY PartyAssumption, ModulusAssumption DEF Ledger, Uint
<1>3. was[t] \in Ledger /\ mid[t] \in Ledger /\ is[t] \in Ledger
  OBVIOUS
<1>4. ASSUME NEW a \in Account
      PROVE  was[t].balances[a] - is[t].balances[a]
               <= was[t].allowed[a][ProxyAddress]
                    - is[t].allowed[a][ProxyAddress]
  <2>1. /\ was[t].balances[a] \in Nat /\ was[t].allowed[a][ProxyAddress] \in Nat
        /\ mid[t].balances[a] \in Nat /\ mid[t].allowed[a][ProxyAddress] \in Nat
        /\ is[t].balances[a] \in Nat /\ is[t].allowed[a][ProxyAddress] \in Nat
    BY <1>2, <1>3
  <2>2. /\ was[t].balances[a] - mid[t].balances[a]
             <= was[t].allowed[a][ProxyAddress]
                  - mid[t].allowed[a][ProxyAddress]
        /\ mid[t].balances[a] - is[t].balances[a]
             <= mid[t].allowed[a][ProxyAddress]
                  - is[t].allowed[a][ProxyAddress]
    BY <1>1 DEF DrawsOn
  <2>3. QED
    BY <2>1, <2>2
<1>5. QED
  BY <1>1, <1>4 DEF DrawsOn

(* To leave a ledger alone draws nothing.                                  *)
LEMMA DrawsNothing ==
  ASSUME NEW ledger \in Ledger
  PROVE  DrawsOn(ledger, ledger)
<1>1. \A a \in Account :
        ledger.balances[a] \in Nat /\ ledger.allowed[a][ProxyAddress] \in Nat
  BY PartyAssumption, ModulusAssumption DEF Ledger, Uint
<1>2. QED
  BY <1>1 DEF DrawsOn

LEMMA PaidDraws ==
  ASSUME NEW ledgers \in [Tokens -> Ledger], NEW p \in Payments,
         Payable(ledgers, p)
  PROVE  Draws(ledgers, Paid(ledgers, p))
<1> DEFINE after == TransferFrom(ledgers[p.token], ProxyAddress, p.from, p.to,
                                 p.value)
<1>1. /\ p.token \in Tokens /\ p.from \in Account /\ p.to \in Account
      /\ p.value \in Nat /\ ledgers[p.token] \in Ledger
  BY DEF Payments
<1>2. DrawsOn(ledgers[p.token], after)
  BY <1>1, TransferFromDraws DEF Payable
<1>3. Paid(ledgers, p) = [ledgers EXCEPT ![p.token] = after]
  BY DEF Paid
<1> HIDE DEF after
<1>4. QED
  BY <1>1, <1>2, <1>3, DrawsNothing DEF Draws

LEMMA SettledDraws ==
  ASSUME NEW ledgers \in [Tokens -> Ledger], NEW o \in Orders,
         NEW sender \in Account, NEW f \in Nat \ {0}, f <= o.valueT,
         TransfersSucceed(ledgers, o, sender, f)
  PROVE  Draws(ledgers, Settled(ledgers, o, sender, f))
<1>1. PaymentsOf(o, sender, f)
  BY PaymentsType
<1>2. /\ Paid(ledgers, MakerPays(o, sender, f)) \in [Tokens -> Ledger]
      /\ Draws(ledgers, Paid(ledgers, MakerPays(o, sender, f)))
  BY <1>1, PaidType, PaidDraws DEF TransfersSucceed, PaymentsOf
<1>3. /\ AfterSwap(ledgers, o, sender, f) \in [Tokens -> Ledger]
      /\ Draws(Paid(ledgers, MakerPays(o, sender, f)),
               AfterSwap(ledgers, o, sender, f))
  BY <1>1, <1>2, PaidType, PaidDraws
     DEF TransfersSucceed, AfterSwap, PaymentsOf
<1>4. Draws(ledgers, AfterSwap(ledgers, o, sender, f))
  BY <1>2, <1>3, DrawsTransitive
<1>5. /\ AfterMakerFee(ledgers, o, sender, f) \in [Tokens -> Ledger]
      /\ Draws(ledgers, AfterMakerFee(ledgers, o, sender, f))
  <2>1. CASE FeeDue(o, o.feeM)
    <3>1. /\ AfterMakerFee(ledgers, o, sender, f) \in [Tokens -> Ledger]
          /\ Draws(AfterSwap(ledgers, o, sender, f),
                   AfterMakerFee(ledgers, o, sender, f))
      BY <1>1, <1>3, <2>1, PaidType, PaidDraws
         DEF TransfersSucceed, AfterMakerFee, PaymentsOf
    <3>2. QED
      BY <1>3, <1>4, <3>1, DrawsTransitive
  <2>2. CASE ~FeeDue(o, o.feeM)
    BY <1>3, <1>4, <2>2 DEF AfterMakerFee
  <2>3. QED
    BY <2>1, <2>2
<1>6. CASE FeeDue(o, o.feeT)
  <2>1. /\ Settled(ledgers, o, sender, f) \in [Tokens -> Ledger]
        /\ Draws(AfterMakerFee(ledgers, o, sender, f),
                 Settled(ledgers, o, sender, f))
    BY <1>1, <1>5, <1>6, PaidType, PaidDraws
       DEF TransfersSucceed, Settled, PaymentsOf
  <2>2. QED
    BY <1>5, <2>1, DrawsTransitive
<1>7. CASE ~FeeDue(o, o.feeT)
  BY <1>5, <1>7 DEF Settled
<1>8. QED
  BY <1>6, <1>7

LEMMA FillDraws ==
  ASSUME NEW b, BookInv(b), NEW o \in Orders, NEW sender \in Account,
         NEW v \in Nat, NEW check, Fillable(b, o, sender, v, check)
  PROVE  Draws(b.ledgers, AfterFill(b, o, sender, v).ledgers)
<1> DEFINE f == FilledValueT(b, o, v)
<1>1. f \in Nat \ {0} /\ f <= o.valueT
  BY FilledFacts, OrderFacts DEF Fillable
<1>2. b \in Book /\ b.ledgers \in [Tokens -> Ledger]
  BY DEF BookInv, Book
<1>3. TransfersSucceed(b.ledgers, o, sender, f)
  BY DEF Fillable
<1>4. AfterFill(b, o, sender, v).ledgers = Settled(b.ledgers, o, sender, f)
  BY <1>2 DEF AfterFill, Book
<1> HIDE DEF f
<1>5. QED
  BY <1>1, <1>2, <1>3, <1>4, SettledDraws

LEMMA NothingDraws ==
  ASSUME NEW b, BookInv(b), NEW n, n.ledgers = b.ledgers
  PROVE  Draws(b.ledgers, n.ledgers)
BY DrawsNothing DEF Draws, BookInv, Book

LEMMA CancelDraws ==
  ASSUME NEW b, BookInv(b), NEW o \in Orders, NEW v \in Nat
  PROVE  Draws(b.ledgers, AfterCancel(b, o, v).ledgers)
<1>1. AfterCancel(b, o, v).ledgers = b.ledgers
  BY DEF AfterCancel, BookInv, Book
<1>2. QED
  BY <1>1, NothingDraws

LEMMA FillOrSkipDraws ==
  ASSUME BookInv(book), Order \in Orders, tx.sender \in Account,
         NEW v \in Nat, FillOrSkip(v)
  PROVE  Draws(book.ledgers, book'.ledgers)
<1>1. CASE /\ Fillable(book, Order, tx.sender, v, tx.check)
           /\ book' = AfterFill(book, Order, tx.sender, v)
  BY <1>1, FillDraws
<1>2. CASE UNCHANGED book
  BY <1>2, NothingDraws
<1>3. QED
  BY <1>1, <1>2 DEF FillOrSkip

LEMMA TurnDraws ==
  ASSUME Inv,
         \/ BatchFillTurn \/ BatchFillOrKillTurn
         \/ BatchCancelTurn \/ FillUpToTurn
  PROVE  Draws(book.ledgers, book'.ledgers)
<1>0. BookInv(book)
  BY DEF Inv
<1>1. CASE BatchFillTurn
  BY <1>0, <1>1, TurnFacts, FillOrSkipDraws DEF BatchFillTurn, BatchOps
<1>2. CASE BatchFillOrKillTurn
  <2>1. Order \in Orders /\ tx.sender \in Account /\ Value \in Nat
    BY <1>2, TurnFacts DEF BatchFillOrKillTurn, BatchOps
  <2>2. QED
    BY <1>0, <1>2, <2>1, FillDraws, NothingDraws
       DEF BatchFillOrKillTurn, FilledEntirely
<1>3. CASE BatchCancelTurn
  BY <1>0, <1>3, TurnFacts, CancelDraws DEF BatchCancelTurn, BatchOps
<1>4. CASE FillUpToTurn
  <2>1. Turn("fillUpTo") /\ FillOrSkip(tx.left)
    BY <1>4 DEF FillUpToTurn
  <2>2. Order \in Orders /\ tx.sender \in Account /\ tx.left \in Nat
    BY <2>1, TurnFacts DEF BatchOps
  <2>3. QED
    BY <1>0, <2>1, <2>2, FillOrSkipDraws
<1>5. QED
  BY <1>1, <1>2, <1>3, <1>4

LEMMA TradeDraws ==
  ASSUME Inv, NEW sender \in Account, Trade(sender)
  PROVE  Draws(book.ledgers, book'.ledgers)
<1>0. BookInv(book)
  BY DEF Inv
<1>01. Values \subseteq Nat
  BY ValueAssumption, ModulusAssumption DEF Uint
<1>1. ASSUME NEW o \in Orders, NEW v \in Values, NEW check \in BOOLEAN,
             Fill(sender, o, v, check)
      PROVE  Draws(book.ledgers, book'.ledgers)
  BY <1>0, <1>01, <1>1, FillDraws DEF Fill
<1>2. ASSUME NEW o \in Orders, NEW v \in Values, FillOrKill(sender, o, v)
      PROVE  Draws(book.ledgers, book'.ledgers)
  BY <1>0, <1>01, <1>2, FillDraws DEF FillOrKill, FilledEntirely
<1>3. ASSUME NEW o \in Orders, NEW v \in Values, Cancel(sender, o, v)
      PROVE  Draws(book.ledgers, book'.ledgers)
  BY <1>0, <1>01, <1>3, CancelDraws DEF Cancel
<1>4. CASE UNCHANGED book
  BY <1>0, <1>4, NothingDraws
<1>5. QED
  BY <1>1, <1>2, <1>3, <1>4
     DEF Trade, BatchFill, BatchFillOrKill, BatchCancel, FillUpTo, Begin

(* Every step draws on allowances, but for a call that is undone, and for  *)
(* what the holders do themselves.                                         *)
LEMMA StepDraws ==
  ASSUME Inv, Next
  PROVE  \/ Draws(book.ledgers, book'.ledgers)
         \/ Abort
         \/ \E p \in Approvals : HolderApproves(p[1], p[2], p[3])
         \/ \E g \in Gifts : HolderTransfers(g[1], g[2], g[3], g[4])
<1>0. BookInv(book) /\ book.ledgers \in [Tokens -> Ledger]
  BY DEF Inv, BookInv, Book
<1>1. CASE \E sender \in Account : Trade(sender)
  BY <1>1, TradeDraws
<1>2. CASE \/ BatchFillTurn \/ BatchFillOrKillTurn
           \/ BatchCancelTurn \/ FillUpToTurn
  BY <1>2, TurnDraws
<1>3. CASE Commit \/ ProxyStep \/ Tick
  BY <1>0, <1>3, NothingDraws DEF Commit, ProxyStep, Tick
<1>4. ASSUME NEW g \in Gifts, NEW caller \in Target,
             OtherTransfersFrom(caller, g[1], g[2], g[3], g[4])
      PROVE  Draws(book.ledgers, book'.ledgers)
  <2> DEFINE after ==
        TransferFrom(book.ledgers[g[3]], ProxyAddress, g[1], g[2], g[4])
  <2>1. /\ g[1] \in Account /\ g[2] \in Account /\ g[3] \in Tokens
        /\ g[4] \in Nat
    BY ValueAssumption, ModulusAssumption DEF Uint
  <2>2. DrawsOn(book.ledgers[g[3]], after)
    BY <1>0, <1>4, <2>1, TransferFromDraws DEF OtherTransfersFrom
  <2>3. book' = [book EXCEPT !.ledgers[g[3]] = after]
    BY <1>4 DEF OtherTransfersFrom
  <2> HIDE DEF after
  <2>4. book'.ledgers = [book.ledgers EXCEPT ![g[3]] = after]
    BY <1>0, <2>3 DEF BookInv, Book
  <2>5. QED
    BY <1>0, <2>1, <2>2, <2>4, DrawsNothing DEF Draws
<1>5. QED
  BY <1>1, <1>2, <1>3, <1>4 DEF Next

(* The book a failing call returns to is one that had been reached.        *)
LEMMA StepReturns ==
  ASSUME Inv, Next
  PROVE  \/ tx' = NoCall
         \/ tx' = tx
         \/ tx # NoCall /\ tx'.before = tx.before
         \/ tx'.before = book
<1>1. ASSUME NEW sender \in Account, Trade(sender)
      PROVE  tx' = tx \/ tx'.before = book
  BY <1>1 DEF Trade, Fill, FillOrKill, Cancel, BatchFill, BatchFillOrKill,
              BatchCancel, FillUpTo, Begin, BatchOf
<1>2. CASE \/ BatchFillTurn \/ BatchFillOrKillTurn
           \/ BatchCancelTurn \/ FillUpToTurn
  <2>1. tx # NoCall
    <3>1. tx.op \in BatchOps
      BY <1>2 DEF BatchFillTurn, BatchFillOrKillTurn, BatchCancelTurn,
                  FillUpToTurn, Turn, BatchOps
    <3>2. QED
      BY <3>1 DEF NoCall, BatchOps
  <2>2. tx \in Calls
    BY <2>1 DEF Inv, CallInv
  <2>3. tx'.before = tx.before
    BY <1>2, <2>2 DEF BatchFillTurn, BatchFillOrKillTurn, BatchCancelTurn,
                      FillUpToTurn, Onward, Calls
  <2>4. QED
    BY <2>1, <2>3
<1>3. QED
  BY <1>1, <1>2 DEF Next, Commit, Abort, HolderApproves, HolderTransfers,
                    OtherTransfersFrom, ProxyStep, Tick

(* The supply of each token, also in the book a call would return to.      *)
ConservedIn(b) ==
  \A t \in Tokens :
    SupplyOf(b.ledgers[t]) = SumFunctionOnSet(InitialBalance[t], Account)

SupplyInv ==
  /\ ConservedIn(book)
  /\ tx # NoCall => ConservedIn(tx.before)

LEMMA SupplyInit == Init => SupplyInv
BY DEF Init, SupplyInv, ConservedIn, SupplyOf

LEMMA SupplyStep == Inv /\ SupplyInv /\ [Next]_vars => SupplyInv'
<1> SUFFICES ASSUME Inv, SupplyInv, Next
             PROVE  SupplyInv'
  BY DEF vars, SupplyInv, ConservedIn
<1>0. book \in Book /\ book.ledgers \in [Tokens -> Ledger]
  BY DEF Inv, BookInv, Book
<1>1. ConservedIn(book)'
  <2>1. CASE Draws(book.ledgers, book'.ledgers)
    BY <2>1 DEF SupplyInv, ConservedIn, Draws, DrawsOn
  <2>2. CASE Abort
    BY <2>2 DEF Abort, Idle, NoCall, SupplyInv, ConservedIn
  <2>3. ASSUME NEW p \in Approvals, HolderApproves(p[1], p[2], p[3])
        PROVE  ConservedIn(book)'
    <3>1. p[2] \in Tokens
      BY ValueAssumption
    <3>2. book'.ledgers = [book.ledgers EXCEPT ![p[2]] =
                             Approve(@, p[1], ProxyAddress, p[3])]
      BY <1>0, <2>3 DEF HolderApproves, Book
    <3>3. \A l \in Ledger : Approve(l, p[1], ProxyAddress, p[3]).balances
                              = l.balances
      BY DEF Approve, Ledger
    <3>4. \A t \in Tokens : book'.ledgers[t].balances = book.ledgers[t].balances
      BY <1>0, <3>1, <3>2, <3>3
    <3>5. QED
      BY <3>4 DEF SupplyInv, ConservedIn, SupplyOf
  <2>4. ASSUME NEW g \in Gifts, HolderTransfers(g[1], g[2], g[3], g[4])
        PROVE  ConservedIn(book)'
    <3> DEFINE after == Transfer(book.ledgers[g[3]], g[1], g[2], g[4])
    <3>1. /\ g[1] \in Account /\ g[2] \in Account /\ g[3] \in Tokens
          /\ g[4] \in Nat
      BY ValueAssumption, ModulusAssumption DEF Uint
    <3>2. SupplyOf(after) = SupplyOf(book.ledgers[g[3]])
      BY <1>0, <2>4, <3>1, TransferMoves DEF HolderTransfers
    <3>3. book' = [book EXCEPT !.ledgers[g[3]] = after]
      BY <2>4 DEF HolderTransfers
    <3> HIDE DEF after
    <3>4. book'.ledgers = [book.ledgers EXCEPT ![g[3]] = after]
      BY <1>0, <3>3 DEF Book
    <3>5. QED
      BY <1>0, <3>1, <3>2, <3>4 DEF SupplyInv, ConservedIn
  <2>5. QED
    BY <2>1, <2>2, <2>3, <2>4, StepDraws
<1>2. tx' # NoCall => ConservedIn(tx.before)'
  BY StepReturns DEF SupplyInv, ConservedIn
<1>3. QED
  BY <1>1, <1>2 DEF SupplyInv

-----------------------------------------------------------------------------
(* What a call on several orders has done so far.                          *)

Gain(o) == Progress(book.filled, tx.before.filled, o)
Lost(o) == Progress(book.cancelled, tx.before.cancelled, o)

Word ==
  /\ tx.op # "batchCancel" => \A o \in Orders : Lost(o) = 0
  /\ tx.op = "batchFill" => \A o \in Orders : Gain(o) \in 0..Asked(o)
  /\ tx.op = "batchFillOrKill" => \A o \in Orders : Gain(o) = Asked(o)
  /\ tx.op = "batchCancel" =>
       \A o \in Orders : Gain(o) = 0 /\ Lost(o) \in 0..Asked(o)
  /\ tx.op = "fillUpTo" =>
       SumFunctionOnSet([o \in Orders |-> Gain(o)], Orders) = tx.want - tx.left

LEMMA WordIsKept == CallsKeepTheirWord <=> (~Idle => Word)
BY DEF CallsKeepTheirWord, Word, Gain, Lost, SumFunction

(* What a fill and a cancellation do to the counts.                        *)
Adds(count, o, f) == [count EXCEPT ![o] = @ + f]

LEMMA FillCounts ==
  ASSUME NEW b, BookInv(b), NEW o \in Orders, NEW sender, NEW v \in Nat
  PROVE  LET n == AfterFill(b, o, sender, v)
         IN  /\ n.filled = Adds(b.filled, o, FilledValueT(b, o, v))
             /\ n.cancelled = b.cancelled
BY DEF AfterFill, BookInv, Book, Adds

LEMMA CancelCounts ==
  ASSUME NEW b, BookInv(b), NEW o \in Orders, NEW v \in Nat
  PROVE  \E c \in 0..v :
           LET n == AfterCancel(b, o, v)
           IN  /\ n.cancelled = Adds(b.cancelled, o, c)
               /\ n.filled = b.filled
<1>1. b \in Book /\ b.cancelled \in [Orders -> Nat]
  BY DEF BookInv, Book
<1>2. CancelledValueT(b, o, v) \in 0..v
  BY FilledFacts DEF CancelledValueT, Least
<1>3. CASE now < o.expiration
  BY <1>1, <1>2, <1>3 DEF AfterCancel, Adds, Book
<1>4. CASE ~(now < o.expiration)
  <2>1. b.cancelled = Adds(b.cancelled, o, 0)
    BY <1>1 DEF Adds
  <2>2. QED
    BY <1>4, <2>1 DEF AfterCancel
<1>5. QED
  BY <1>3, <1>4

LEMMA FillOrSkipCounts ==
  ASSUME BookInv(book), Order \in Orders, NEW v \in Nat, FillOrSkip(v)
  PROVE  /\ book'.cancelled = book.cancelled
         /\ \E f \in 0..v : book'.filled = Adds(book.filled, Order, f)
<1>1. CASE book' = AfterFill(book, Order, tx.sender, v)
  <2>1. FilledValueT(book, Order, v) \in 0..v
    BY FilledFacts
  <2>2. QED
    BY <1>1, <2>1, FillCounts
<1>2. CASE UNCHANGED book
  <2>1. book.filled = Adds(book.filled, Order, 0)
    BY DEF Adds, BookInv, Book
  <2>2. QED
    BY <1>2, <2>1
<1>3. QED
  BY <1>1, <1>2 DEF FillOrSkip

(* The next order of a list adds its amount to what is asked of it.        *)
LEMMA AskedOnward ==
  ASSUME CallInv(tx), tx.op # "fillUpTo", tx.at \in 1 .. Len(tx.orders),
         tx' = Onward, NEW o \in Orders
  PROVE  /\ Asked(o) \in Nat
         /\ Asked(o)' = IF o = Order THEN Asked(o) + Value ELSE Asked(o)
<1> DEFINE S == {i \in 1 .. tx.at - 1 : tx.orders[i] = o}
<1>1. /\ tx \in Calls
      /\ tx.values \in Seq(Uint)
      /\ tx.at \in Nat
      /\ Len(tx.values) = Len(tx.orders)
      /\ tx.orders \in Seq(Orders)
  BY DEF CallInv, Calls
<1>2. /\ tx'.values = tx.values
      /\ tx'.orders = tx.orders
      /\ tx'.at = tx.at + 1
  BY <1>1 DEF Onward, Calls
<1>3. \A i \in 1 .. tx.at : tx.values[i] \in Nat /\ tx.values[i] \in Int
  BY <1>1, ModulusAssumption DEF Uint
<1>4. IsFiniteSet(S)
  <2>1. 1 \in Int /\ tx.at - 1 \in Int
    BY <1>1
  <2>2. IsFiniteSet(1 .. tx.at - 1)
    BY <2>1, FS_Interval
  <2>3. QED
    BY <2>2, FS_Subset
<1>5. SumFunctionOnSet(tx.values, S) \in Nat
  BY <1>3, <1>4, SumIsNat
<1>6. Asked(o)' = SumFunctionOnSet(tx.values,
                                   {i \in 1 .. tx.at : tx.orders[i] = o})
  <2>1. tx'.at - 1 = tx.at
    BY <1>1, <1>2
  <2>2. QED
    BY <1>2, <2>1 DEF Asked
<1>7. 1 .. tx.at = (1 .. tx.at - 1) \cup {tx.at}
  BY <1>1
<1>8. CASE o = Order
  <2>1. {i \in 1 .. tx.at : tx.orders[i] = o} = S \cup {tx.at}
    BY <1>7, <1>8 DEF Order
  <2>2. tx.at \notin S
    BY <1>1
  <2>3. \A i \in S \cup {tx.at} : tx.values[i] \in Int
    BY <1>3
  <2> HIDE DEF S
  <2>4. SumFunctionOnSet(tx.values, S \cup {tx.at})
          = tx.values[tx.at] + SumFunctionOnSet(tx.values, S)
    BY <1>4, <2>2, <2>3, SumAdd
  <2>5. tx.values[tx.at] \in Nat
    BY <1>3
  <2>6. /\ Asked(o) = SumFunctionOnSet(tx.values, S)
        /\ Asked(o)' = Value + SumFunctionOnSet(tx.values, S)
        /\ Value \in Nat
    BY <1>6, <2>1, <2>4, <2>5 DEF Asked, S, Value
  <2>7. QED
    BY <1>5, <1>8, <2>6
<1>9. CASE o # Order
  <2>1. {i \in 1 .. tx.at : tx.orders[i] = o} = S
    BY <1>7, <1>9 DEF Order
  <2>2. QED
    BY <1>5, <1>6, <1>9, <2>1 DEF Asked
<1>10. QED
  BY <1>5, <1>8, <1>9 DEF Asked

(* The counts of the two books, and how they differ after a turn.          *)
LEMMA CountFacts ==
  ASSUME Inv, CallInv(tx), NEW o \in Orders
  PROVE  /\ book.filled[o] \in Nat /\ book.cancelled[o] \in Nat
         /\ tx.before.filled[o] \in Nat /\ tx.before.cancelled[o] \in Nat
         /\ Gain(o) \in Int /\ Lost(o) \in Int
<1>1. book \in Book /\ tx.before \in Book
  BY DEF Inv, BookInv, CallInv
<1>2. QED
  BY <1>1 DEF Book, Gain, Lost, Progress

LEMMA TurnGains ==
  ASSUME Inv, CallInv(tx), tx'.before = tx.before, Order \in Orders,
         book'.cancelled = book.cancelled,
         NEW f \in Nat, book'.filled = Adds(book.filled, Order, f),
         NEW o \in Orders
  PROVE  /\ Gain(o)' = IF o = Order THEN Gain(o) + f ELSE Gain(o)
         /\ Lost(o)' = Lost(o)
<1>1. book.filled \in [Orders -> Nat] /\ tx.before.filled[o] \in Nat
  BY CountFacts DEF Inv, BookInv, Book
<1>2. QED
  BY <1>1 DEF Gain, Lost, Progress, Adds

LEMMA TurnLoses ==
  ASSUME Inv, CallInv(tx), tx'.before = tx.before, Order \in Orders,
         book'.filled = book.filled,
         NEW f \in Nat, book'.cancelled = Adds(book.cancelled, Order, f),
         NEW o \in Orders
  PROVE  /\ Lost(o)' = IF o = Order THEN Lost(o) + f ELSE Lost(o)
         /\ Gain(o)' = Gain(o)
<1>1. book.cancelled \in [Orders -> Nat] /\ tx.before.cancelled[o] \in Nat
  BY CountFacts DEF Inv, BookInv, Book
<1>2. QED
  BY <1>1 DEF Gain, Lost, Progress, Adds

(* The total of what is filled grows by what is filled of one order.       *)
LEMMA TotalGain ==
  ASSUME Inv, CallInv(tx), tx'.before = tx.before, Order \in Orders,
         book'.cancelled = book.cancelled,
         NEW f \in Nat, book'.filled = Adds(book.filled, Order, f)
  PROVE  /\ SumFunctionOnSet([o \in Orders |-> Gain(o)], Orders) \in Int
         /\ SumFunctionOnSet([o \in Orders |-> Gain(o)'], Orders)
              = SumFunctionOnSet([o \in Orders |-> Gain(o)], Orders) + f
<1> DEFINE was == [o \in Orders |-> Gain(o)]
           is == [o \in Orders |-> Gain(o)']
           here == Order
<1>1. /\ \A o \in Orders : was[o] \in Int
      /\ \A o \in Orders \ {here} : is[o] = was[o]
      /\ here \in Orders
      /\ is[here] = was[here] + f
  BY CountFacts, TurnGains
<1>2. IsFiniteSet(Orders)
  BY OrderAssumption
<1>3. was[here] \in Int /\ is[here] \in Int
  BY <1>1
<1> HIDE DEF was, is, here
<1>4. SumFunctionOnSet(is, Orders)
        = SumFunctionOnSet(was, Orders) + is[here] - was[here]
  BY <1>1, <1>2, <1>3, SumUpdate
<1>5. SumFunctionOnSet(was, Orders) \in Int
  BY <1>1, <1>2, SumIsInt
<1>6. QED
  BY <1>1, <1>3, <1>4, <1>5 DEF was, is

LEMMA WordTurn ==
  ASSUME Inv, CallInv(tx), Word,
         \/ BatchFillTurn \/ BatchFillOrKillTurn
         \/ BatchCancelTurn \/ FillUpToTurn
  PROVE  Word'
<1>0. BookInv(book) /\ tx \in Calls
  BY DEF Inv, CallInv
<1>1. CASE BatchFillTurn
  <2>1. /\ tx.op = "batchFill" /\ Order \in Orders /\ Value \in Nat
        /\ tx.at \in 1 .. Len(tx.orders)
        /\ FillOrSkip(Value) /\ tx' = Onward
    BY <1>1, TurnFacts DEF BatchFillTurn, BatchOps
  <2>2. tx'.op = "batchFill" /\ tx'.before = tx.before
    BY <1>0, <2>1 DEF Onward, Calls
  <2>3. PICK f \in 0..Value : /\ book'.filled = Adds(book.filled, Order, f)
                              /\ book'.cancelled = book.cancelled
    BY <1>0, <2>1, FillOrSkipCounts
  <2>4. ASSUME NEW o \in Orders
        PROVE  Lost(o)' = 0 /\ Gain(o)' \in 0..Asked(o)'
    <3>1. Lost(o) = 0 /\ Gain(o) \in 0..Asked(o)
      BY <2>1 DEF Word
    <3>2. /\ Gain(o)' = IF o = Order THEN Gain(o) + f ELSE Gain(o)
          /\ Lost(o)' = Lost(o)
      BY <2>1, <2>2, <2>3, TurnGains
    <3>3. /\ Asked(o) \in Nat
          /\ Asked(o)' = IF o = Order THEN Asked(o) + Value ELSE Asked(o)
      BY <2>1, AskedOnward
    <3>4. QED
      BY <2>1, <3>1, <3>2, <3>3
  <2>5. QED
    BY <2>2, <2>4 DEF Word
<1>2. CASE BatchFillOrKillTurn
  <2>1. /\ tx.op = "batchFillOrKill" /\ Order \in Orders /\ Value \in Nat
        /\ tx.at \in 1 .. Len(tx.orders)
        /\ tx' = Onward
    BY <1>2, TurnFacts DEF BatchFillOrKillTurn, BatchOps
  <2>2. tx'.op = "batchFillOrKill" /\ tx'.before = tx.before
    BY <1>0, <2>1 DEF Onward, Calls
  <2>3. /\ book'.filled = Adds(book.filled, Order, Value)
        /\ book'.cancelled = book.cancelled
    <3>1. CASE /\ FilledEntirely(book, Order, tx.sender, Value)
               /\ book' = AfterFill(book, Order, tx.sender, Value)
      BY <1>0, <2>1, <3>1, FillCounts DEF FilledEntirely
    <3>2. CASE Value = 0 /\ UNCHANGED book
      BY <1>0, <3>2 DEF Adds, BookInv, Book
    <3>3. QED
      BY <1>2, <3>1, <3>2 DEF BatchFillOrKillTurn
  <2>4. ASSUME NEW o \in Orders
        PROVE  Lost(o)' = 0 /\ Gain(o)' = Asked(o)'
    <3>1. Lost(o) = 0 /\ Gain(o) = Asked(o)
      BY <2>1 DEF Word
    <3>2. /\ Gain(o)' = IF o = Order THEN Gain(o) + Value ELSE Gain(o)
          /\ Lost(o)' = Lost(o)
      BY <2>1, <2>2, <2>3, TurnGains
    <3>3. Asked(o)' = IF o = Order THEN Asked(o) + Value ELSE Asked(o)
      BY <2>1, AskedOnward
    <3>4. QED
      BY <3>1, <3>2, <3>3
  <2>5. QED
    BY <2>2, <2>4 DEF Word
<1>3. CASE BatchCancelTurn
  <2>1. /\ tx.op = "batchCancel" /\ Order \in Orders /\ Value \in Nat
        /\ tx.at \in 1 .. Len(tx.orders)
        /\ book' = AfterCancel(book, Order, Value) /\ tx' = Onward
    BY <1>3, TurnFacts DEF BatchCancelTurn, BatchOps
  <2>2. tx'.op = "batchCancel" /\ tx'.before = tx.before
    BY <1>0, <2>1 DEF Onward, Calls
  <2>3. PICK f \in 0..Value :
          /\ book'.cancelled = Adds(book.cancelled, Order, f)
          /\ book'.filled = book.filled
    BY <1>0, <2>1, CancelCounts
  <2>4. ASSUME NEW o \in Orders
        PROVE  Gain(o)' = 0 /\ Lost(o)' \in 0..Asked(o)'
    <3>1. Gain(o) = 0 /\ Lost(o) \in 0..Asked(o)
      BY <2>1 DEF Word
    <3>2. /\ Lost(o)' = IF o = Order THEN Lost(o) + f ELSE Lost(o)
          /\ Gain(o)' = Gain(o)
      BY <2>1, <2>2, <2>3, TurnLoses
    <3>3. /\ Asked(o) \in Nat
          /\ Asked(o)' = IF o = Order THEN Asked(o) + Value ELSE Asked(o)
      BY <2>1, AskedOnward
    <3>4. QED
      BY <2>1, <3>1, <3>2, <3>3
  <2>5. QED
    BY <2>2, <2>4 DEF Word
<1>4. CASE FillUpToTurn
  <2>1. /\ tx.op = "fillUpTo" /\ Order \in Orders /\ tx.left \in Nat
        /\ tx.want \in Int
        /\ FillOrSkip(tx.left)
    BY <1>0, <1>4, TurnFacts, ModulusAssumption
       DEF FillUpToTurn, BatchOps, Turn, Calls, Uint
  <2>2. /\ tx'.op = "fillUpTo" /\ tx'.before = tx.before
        /\ tx'.want = tx.want
        /\ tx'.left = tx.left - (book'.filled[Order] - book.filled[Order])
    BY <1>0, <1>4, <2>1 DEF FillUpToTurn, Calls
  <2>3. PICK f \in 0..tx.left : /\ book'.filled = Adds(book.filled, Order, f)
                                /\ book'.cancelled = book.cancelled
    BY <1>0, <2>1, FillOrSkipCounts
  <2>4. tx'.left = tx.left - f
    BY <1>0, <2>1, <2>2, <2>3 DEF Adds, BookInv, Book
  <2>5. \A o \in Orders : Lost(o)' = 0
    BY <2>1, <2>2, <2>3, TurnGains DEF Word
  <2>6. /\ SumFunctionOnSet([o \in Orders |-> Gain(o)], Orders) \in Int
        /\ SumFunctionOnSet([o \in Orders |-> Gain(o)'], Orders)
             = SumFunctionOnSet([o \in Orders |-> Gain(o)], Orders) + f
    BY <2>1, <2>2, <2>3, TotalGain
  <2>7. SumFunctionOnSet([o \in Orders |-> Gain(o)], Orders)
          = tx.want - tx.left
    BY <2>1 DEF Word
  <2>8. SumFunctionOnSet([o \in Orders |-> Gain(o)'], Orders)
          = tx'.want - tx'.left
    BY <2>1, <2>2, <2>4, <2>6, <2>7
  <2>9. QED
    BY <2>2, <2>5, <2>8 DEF Word
<1>5. QED
  BY <1>1, <1>2, <1>3, <1>4

(* A call that begins has done nothing of what nothing is asked of.        *)
LEMMA WordBegins ==
  ASSUME Inv, tx'.before = book, UNCHANGED book, tx'.at = 1,
         tx'.op = "fillUpTo" => tx'.want \in Int /\ tx'.left = tx'.want
  PROVE  Word'
<1>1. ASSUME NEW o \in Orders
      PROVE  Gain(o)' = 0 /\ Lost(o)' = 0 /\ Asked(o)' = 0
  <2>1. book.filled[o] \in Nat /\ book.cancelled[o] \in Nat
    BY DEF Inv, BookInv, Book
  <2>2. Gain(o)' = 0 /\ Lost(o)' = 0
    BY <2>1 DEF Gain, Lost, Progress
  <2>3. {i \in 1 .. tx'.at - 1 : tx'.orders[i] = o} = {}
    OBVIOUS
  <2>4. SumFunctionOnSet(tx'.values, {}) = 0
    BY SumEquation, FS_EmptySet
  <2>5. QED
    BY <2>2, <2>3, <2>4 DEF Asked
<1>2. SumFunctionOnSet([o \in Orders |-> Gain(o)'], Orders) = 0
  <2> DEFINE is == [o \in Orders |-> Gain(o)']
  <2>1. \A o \in Orders : is[o] = 0
    BY <1>1
  <2> HIDE DEF is
  <2>2. SumFunctionOnSet(is, Orders) = 0
    BY <2>1, SumZero, OrderAssumption
  <2>3. QED
    BY <2>2 DEF is
<1>3. QED
  BY <1>1, <1>2 DEF Word

LEMMA WordStep ==
  Inv /\ CallsKeepTheirWord /\ [Next]_vars => CallsKeepTheirWord'
<1> SUFFICES ASSUME Inv, CallsKeepTheirWord, [Next]_vars
             PROVE  CallsKeepTheirWord'
  OBVIOUS
<1>0. Word' => CallsKeepTheirWord'
  BY WordIsKept, PTL
<1>1. CASE UNCHANGED vars
  BY <1>1 DEF vars, CallsKeepTheirWord, Idle, Progress, Asked
<1>2. CASE tx' = NoCall
  BY <1>2 DEF CallsKeepTheirWord, Idle, NoCall
<1>3. CASE Idle /\ tx' = tx
  BY <1>3 DEF CallsKeepTheirWord, Idle
<1>4. CASE \/ BatchFillTurn \/ BatchFillOrKillTurn
           \/ BatchCancelTurn \/ FillUpToTurn
  <2>1. tx.op \in BatchOps
    BY <1>4 DEF BatchFillTurn, BatchFillOrKillTurn, BatchCancelTurn,
                FillUpToTurn, Turn, BatchOps
  <2>2. ~Idle /\ CallInv(tx)
    BY <2>1 DEF Inv, Idle, NoCall, BatchOps
  <2>3. Word'
    BY <1>4, <2>2, WordTurn, WordIsKept
  <2>4. QED
    BY <1>0, <2>3
<1>5. ASSUME NEW sender \in Account, Trade(sender)
      PROVE  CallsKeepTheirWord'
  <2>1. CASE Idle /\ tx' = tx
    BY <1>3, <2>1
  <2>2. ASSUME NEW batch \in Batches, NEW v \in Values, NEW check \in BOOLEAN,
               FillUpTo(sender, batch.orders, v, check)
        PROVE  Word'
    <3>1. v \in Int
      BY ValueAssumption, ModulusAssumption DEF Uint
    <3>2. QED
      BY <2>2, <3>1, WordBegins DEF FillUpTo, Begin
  <2>3. ASSUME NEW batch \in Batches, NEW op \in BatchOps \ {"fillUpTo"},
               NEW check,
               Begin(BatchOf(op, sender, batch.orders, batch.values, check))
        PROVE  Word'
    BY <2>3, WordBegins DEF Begin, BatchOf
  <2>4. QED
    BY <1>0, <1>5, <2>1, <2>2, <2>3
       DEF Trade, Fill, FillOrKill, Cancel, BatchFill, BatchFillOrKill,
           BatchCancel, BatchOps
<1>6. QED
  BY <1>1, <1>2, <1>3, <1>4, <1>5
     DEF Next, Commit, Abort, ProxyStep, Tick, HolderApproves,
         HolderTransfers, OtherTransfersFrom

-----------------------------------------------------------------------------
(* The theorems.                                                           *)

(* No sequence of calls takes a ledger entry out of the range of a uint or *)
(* leaves a call in progress that is not one.                              *)
THEOREM TypeCorrect == Spec => []TypeOK
<1>1. Spec => []Inv
  BY InitInv, StepInv, PTL DEF Spec
<1>2. QED
  BY <1>1, InvIsEnough, PTL

(* Whatever is filled, cancelled, batched and undone, an order is never    *)
(* filled and cancelled for more than its valueT.                          *)
THEOREM OrdersNeverOverfilled == Spec => []NeverOverfilled
<1>1. Spec => []Inv
  BY InitInv, StepInv, PTL DEF Spec
<1>2. QED
  BY <1>1, InvIsEnough, PTL

(* Over all its partial fills a maker pays at most its limit price, and    *)
(* exactly that under the limit of isRoundingError.                        *)
THEOREM LimitPriceAlwaysHonoured == Spec => []LimitPriceHonoured
<1>1. Spec => []Inv
  BY InitInv, StepInv, PTL DEF Spec
<1>2. QED
  BY <1>1, InvIsEnough, PTL

(* Transfers move tokens and make none: through every trade, every batch   *)
(* and its undoing, the balances of a token add up to what they did at the *)
(* start.                                                                  *)
THEOREM SupplyAlwaysConserved == Spec => []SupplyConserved
<1>1. Spec => []Inv
  BY InitInv, StepInv, PTL DEF Spec
<1>2. Init => Inv /\ SupplyInv
  BY InitInv, SupplyInit
<1>3. (Inv /\ SupplyInv) /\ [Next]_vars => (Inv /\ SupplyInv)'
  BY StepInv, SupplyStep
<1>4. Inv /\ SupplyInv => SupplyConserved
  BY DEF SupplyInv, ConservedIn, SupplyOf, SupplyConserved
<1>5. QED
  BY <1>2, <1>3, <1>4, PTL DEF Spec

(* An account loses tokens by a transfer of its own, by the undoing of a   *)
(* call, or to the proxy, within an allowance that shrinks with it.        *)
THEOREM SpendingStaysWithinAllowance == Spec => SpentWithinAllowance
<1> DEFINE Kept(t, a) ==
             LET was == book.ledgers[t]
                 is  == book'.ledgers[t]
             IN  \/ was.balances[a] - is.balances[a] <= 0
                 \/ was.balances[a] - is.balances[a]
                      <= was.allowed[a][ProxyAddress]
                           - is.allowed[a][ProxyAddress]
                 \/ Abort
                 \/ \E g \in Gifts : /\ a = g[1]
                                    /\ HolderTransfers(a, g[2], g[3], g[4])
<1>1. Inv /\ [Next]_vars => [\A t \in Tokens, a \in Account : Kept(t, a)]_vars
  <2> SUFFICES ASSUME Inv, Next, NEW t \in Tokens, NEW a \in Account
               PROVE  Kept(t, a)
    OBVIOUS
  <2>0. /\ book \in Book
        /\ book.ledgers \in [Tokens -> Ledger]
        /\ book.ledgers[t].balances \in [Account -> Uint]
        /\ book.ledgers[t].balances[a] \in Nat
    BY ModulusAssumption DEF Inv, BookInv, Book, Ledger, Uint
  <2>1. CASE Draws(book.ledgers, book'.ledgers)
    BY <2>1 DEF Draws, DrawsOn
  <2>2. CASE Abort
    BY <2>2
  <2>3. ASSUME NEW p \in Approvals, HolderApproves(p[1], p[2], p[3])
        PROVE  Kept(t, a)
    <3>1. p[2] \in Tokens
      BY ValueAssumption
    <3>2. book'.ledgers = [book.ledgers EXCEPT ![p[2]] =
                             Approve(@, p[1], ProxyAddress, p[3])]
      BY <2>0, <2>3 DEF HolderApproves, Book
    <3>3. \A l \in Ledger : Approve(l, p[1], ProxyAddress, p[3]).balances
                              = l.balances
      BY DEF Approve, Ledger
    <3>4. book'.ledgers[t].balances = book.ledgers[t].balances
      BY <2>0, <3>1, <3>2, <3>3
    <3>5. QED
      BY <2>0, <3>4
  <2>4. ASSUME NEW g \in Gifts, HolderTransfers(g[1], g[2], g[3], g[4])
        PROVE  Kept(t, a)
    <3> DEFINE after == Transfer(book.ledgers[g[3]], g[1], g[2], g[4])
    <3>1. /\ g[1] \in Account /\ g[2] \in Account /\ g[3] \in Tokens
          /\ g[4] \in Nat
      BY ValueAssumption, ModulusAssumption DEF Uint
    <3>2. CASE a = g[1]
      BY <2>4, <3>2
    <3>3. CASE a # g[1]
      <4>1. after.balances[a] >= book.ledgers[g[3]].balances[a]
        BY <2>0, <2>4, <3>1, <3>3, TransferMoves DEF HolderTransfers
      <4>2. after \in Ledger
        BY <2>0, <2>4, <3>1, TransferType DEF HolderTransfers
      <4>3. book' = [book EXCEPT !.ledgers[g[3]] = after]
        BY <2>4 DEF HolderTransfers
      <4> HIDE DEF after
      <4>4. book'.ledgers = [book.ledgers EXCEPT ![g[3]] = after]
        BY <2>0, <4>3 DEF Book
      <4>5. book'.ledgers[t].balances[a] >= book.ledgers[t].balances[a]
        BY <2>0, <3>1, <4>1, <4>4
      <4>6. book'.ledgers[t].balances[a] \in Nat
        BY <2>0, <3>1, <4>2, <4>4, ModulusAssumption DEF Ledger, Uint
      <4>7. QED
        BY <2>0, <4>5, <4>6
    <3>4. QED
      BY <3>2, <3>3
  <2>5. QED
    BY <2>1, <2>2, <2>3, <2>4, StepDraws
<1>2. Spec => []Inv
  BY InitInv, StepInv, PTL DEF Spec
<1>3. QED
  BY <1>1, <1>2, PTL DEF Spec, SpentWithinAllowance

(* However a call on several orders goes, and also when it names an order  *)
(* twice, what it has filled and cancelled so far is what it was asked to: *)
(* all of it, or no more than it.                                          *)
THEOREM CallsAlwaysKeepTheirWord == Spec => []CallsKeepTheirWord
<1>1. Init => Inv /\ CallsKeepTheirWord
  BY InitInv DEF Init, CallsKeepTheirWord, Idle, NoCall
<1>2. (Inv /\ CallsKeepTheirWord) /\ [Next]_vars
        => (Inv /\ CallsKeepTheirWord)'
  BY StepInv, WordStep
<1>3. QED
  BY <1>1, <1>2, PTL DEF Spec

-----------------------------------------------------------------------------
(* The ChainX token and the simple crowdsale.                              *)

WithLedger(b, token, ledger) == [b EXCEPT !.ledgers[token] = ledger]

(* A book with another ledger for one token.                               *)
LEMMA LedgerChanged ==
  ASSUME NEW b, BookInv(b), NEW token \in Tokens, NEW ledger \in Ledger,
         NEW n, n = WithLedger(b, token, ledger)
  PROVE  /\ BookInv(n)
         /\ n.ledgers = [b.ledgers EXCEPT ![token] = ledger]
<1>1. BookInv(n)
  BY LedgerKeepsBook DEF WithLedger
<1> QED
  BY <1>1 DEF BookInv, Book, WithLedger

LEMMA ApprovedLeaves ==
  ASSUME NEW b, BookInv(b), NEW token \in Tokens, NEW value \in Uint,
         NEW n, n = Approved(b, token, value)
  PROVE  /\ BookInv(n)
         /\ \A t \in Tokens : SupplyOf(n.ledgers[t]) = SupplyOf(b.ledgers[t])
<1> DEFINE l == b.ledgers[token]
           after == Approve(l, Sale, ProxyAddress, value)
<1>1. b.ledgers \in [Tokens -> Ledger] /\ l \in Ledger
  BY DEF BookInv, Book
<1>2. after \in Ledger
  BY <1>1, ApproveType, PartyAssumption, SaleAssumption
<1>3. after.balances = l.balances
  BY <1>1 DEF Approve, Ledger
<1>4. n = WithLedger(b, token, after)
  BY DEF Approved, WithLedger
<1> HIDE DEF after
<1>5. /\ BookInv(n)
      /\ n.ledgers = [b.ledgers EXCEPT ![token] = after]
  BY <1>2, <1>4, LedgerChanged
<1>6. ASSUME NEW t \in Tokens
      PROVE  n.ledgers[t].balances = b.ledgers[t].balances
  BY <1>1, <1>3, <1>5
<1> QED
  BY <1>5, <1>6 DEF SupplyOf

LEMMA CreditedLeaves ==
  ASSUME NEW b, BookInv(b), NEW a \in Account, NEW amount \in Int,
         b.ledgers[CHX_TOKEN].balances[a] + amount \in Uint,
         NEW n, n = Credited(b, a, amount)
  PROVE  /\ BookInv(n)
         /\ SupplyOf(n.ledgers[CHX_TOKEN])
              = SupplyOf(b.ledgers[CHX_TOKEN]) + amount
<1> DEFINE l == b.ledgers[CHX_TOKEN]
           after == [l EXCEPT !.balances[a] = @ + amount]
<1>1. /\ CHX_TOKEN \in Tokens
      /\ b.ledgers \in [Tokens -> Ledger] /\ l \in Ledger
  BY SaleAssumption DEF BookInv, Book
<1>2. /\ l.balances \in [Account -> Uint]
      /\ \A x \in Account : l.balances[x] \in Int
  BY <1>1, ModulusAssumption DEF Ledger, Uint
<1>3. /\ after.balances = [l.balances EXCEPT ![a] = @ + amount]
      /\ after \in Ledger
  BY <1>1, <1>2 DEF Ledger
<1>4. n = WithLedger(b, CHX_TOKEN, after)
  BY DEF Credited, WithLedger
<1> HIDE DEF after
<1>5. /\ BookInv(n)
      /\ n.ledgers = [b.ledgers EXCEPT ![CHX_TOKEN] = after]
  BY <1>1, <1>3, <1>4, LedgerChanged
<1>6. SupplyOf(after) = SupplyOf(l) + amount
  <2>1. /\ after.balances[a] = l.balances[a] + amount
        /\ \A x \in Account \ {a} : after.balances[x] = l.balances[x]
        /\ l.balances[a] \in Int /\ after.balances[a] \in Int
    BY <1>2, <1>3
  <2>2. SumFunctionOnSet(after.balances, Account)
          = SumFunctionOnSet(l.balances, Account) + after.balances[a]
              - l.balances[a]
    BY <1>2, <2>1, SumUpdate, AccountAssumption
  <2>3. SumFunctionOnSet(l.balances, Account) \in Int
    BY <1>2, SumIsInt, AccountAssumption
  <2> QED
    BY <2>1, <2>2, <2>3 DEF SupplyOf
<1> QED
  BY <1>1, <1>5, <1>6

-----------------------------------------------------------------------------
(* The invariant: the exchange's own, no call on several orders, a supply  *)
(* that is what the accounts have, and a stored signature that is of the   *)
(* sale's message.                                                         *)

Backed == supply \in Int /\ supply = SupplyOf(book.ledgers[CHX_TOKEN])

SignedForTheSale ==
  sale.isInitialized => sale.signature = <<sale.order, SaleWords>>

SaleRecord ==
  [isInitialized : BOOLEAN, isFinished : BOOLEAN,
   order : SaleOrders \cup {NoOrder},
   signature : Signatures \cup {NoSignature}]

SaleInv ==
  /\ Inv /\ tx = NoCall
  /\ sale \in SaleRecord
  /\ Backed
  /\ SignedForTheSale

LEMMA SaleInvIsEnough == SaleInv => TokensAreBacked /\ NoPurchase
<1> SUFFICES ASSUME SaleInv PROVE TokensAreBacked /\ NoPurchase
  OBVIOUS
<1>1. TokensAreBacked
  BY DEF SaleInv, Backed, TokensAreBacked, SupplyOf
<1>2. ASSUME NEW buyer \in Buyers, NEW value \in Values, Buyable(buyer, value)
      PROVE  FALSE
  <2>1. sale.isInitialized /\ sale.signature = <<sale.order, ExchangeWords>>
    BY <1>2 DEF Buyable, Affordable, IsValidSignature
  <2>2. sale.signature = <<sale.order, SaleWords>>
    BY <2>1 DEF SaleInv, SignedForTheSale
  <2>3. ExchangeWords # SaleWords
    BY DEF ExchangeWords, SaleWords
  <2> QED
    BY <2>1, <2>2, <2>3
<1> QED
  BY <1>1, <1>2 DEF NoPurchase

LEMMA SaleInitInv == SaleInit => SaleInv
<1> SUFFICES ASSUME SaleInit PROVE SaleInv
  OBVIOUS
<1>1. Inv /\ tx = NoCall
  BY InitInv DEF SaleInit, Init
<1>2. book.ledgers[CHX_TOKEN].balances = InitialBalance[CHX_TOKEN]
  BY SaleAssumption DEF SaleInit, Init
<1>3. Backed
  <2>1. \A a \in Account : InitialBalance[CHX_TOKEN][a] \in Int
    BY BalanceAssumption, SaleAssumption, ModulusAssumption DEF Uint
  <2> QED
    BY <1>2, <2>1, SumIsInt, AccountAssumption DEF SaleInit, SupplyOf, Backed
<1> QED
  BY <1>1, <1>3 DEF SaleInit, SaleInv, SaleRecord, SignedForTheSale

LEMMA SaleFacts ==
  ASSUME SaleInv
  PROVE  /\ BookInv(book) /\ book.ledgers \in [Tokens -> Ledger]
         /\ CHX_TOKEN \in Tokens
         /\ \A v \in Values : v \in Nat /\ v \in Uint
         /\ \A o \in SaleOrders : o \in Orders
BY SaleAssumption, ValueAssumption, ModulusAssumption
   DEF SaleInv, Inv, BookInv, Book, Uint

(* What others do is a step of the exchange that moves tokens at most.     *)
LEMMA OthersStepIsNext == ASSUME SaleInv, OthersStep PROVE Next
<1> USE SaleFacts
<1>1. ASSUME NEW sender \in Buyers, NEW o \in SaleOrders, NEW v \in Values,
             Fill(sender, o, v, FALSE) \/ Cancel(sender, o, v)
      PROVE  Next
  <2>1. sender \in Account /\ o \in Orders
    BY DEF Buyers
  <2>2. Trade(sender)
    BY <1>1, <2>1 DEF Trade
  <2> QED
    BY <2>1, <2>2 DEF Next
<1>2. CASE \E p \in Approvals : HolderApproves(p[1], p[2], p[3])
  BY <1>2 DEF Next
<1>3. CASE \E g \in Gifts : HolderTransfers(g[1], g[2], g[3], g[4])
  BY <1>3 DEF Next
<1>4. CASE ProxyStep \/ Tick
  BY <1>4 DEF Next
<1> QED
  BY <1>1, <1>2, <1>3, <1>4 DEF OthersStep

LEMMA OthersKeepTheSupply ==
  ASSUME SaleInv, OthersStep, UNCHANGED saleVars
  PROVE  SaleInv'
<1> USE SaleFacts
<1>1. Inv /\ Next /\ tx = NoCall
  BY OthersStepIsNext DEF SaleInv
<1>2. Inv' /\ tx' = NoCall
  <2>1. tx' = NoCall
    BY <1>1 DEF OthersStep, Fill, Cancel, HolderApproves, HolderTransfers,
                ProxyStep, Tick
  <2> QED
    BY <1>1, <2>1, StepInv
<1>3. SupplyOf(book'.ledgers[CHX_TOKEN]) = SupplyOf(book.ledgers[CHX_TOKEN])
  <2>1. CASE Draws(book.ledgers, book'.ledgers)
    BY <2>1 DEF Draws, DrawsOn
  <2>2. ASSUME NEW p \in Approvals, HolderApproves(p[1], p[2], p[3])
        PROVE  SupplyOf(book'.ledgers[CHX_TOKEN])
                 = SupplyOf(book.ledgers[CHX_TOKEN])
    <3>1. p[2] \in Tokens
      BY ValueAssumption
    <3>2. book'.ledgers = [book.ledgers EXCEPT ![p[2]] =
                             Approve(@, p[1], ProxyAddress, p[3])]
      BY <2>2 DEF HolderApproves, BookInv, Book
    <3>3. \A l \in Ledger : Approve(l, p[1], ProxyAddress, p[3]).balances
                              = l.balances
      BY DEF Approve, Ledger
    <3> QED
      BY <3>1, <3>2, <3>3 DEF SupplyOf
  <2>3. ASSUME NEW g \in Gifts, HolderTransfers(g[1], g[2], g[3], g[4])
        PROVE  SupplyOf(book'.ledgers[CHX_TOKEN])
                 = SupplyOf(book.ledgers[CHX_TOKEN])
    <3> DEFINE after == Transfer(book.ledgers[g[3]], g[1], g[2], g[4])
    <3>1. /\ g[1] \in Account /\ g[2] \in Account /\ g[3] \in Tokens
          /\ g[4] \in Nat
      BY ValueAssumption, ModulusAssumption DEF Uint
    <3>2. SupplyOf(after) = SupplyOf(book.ledgers[g[3]])
      BY <2>3, <3>1, TransferMoves DEF HolderTransfers
    <3>3. book' = [book EXCEPT !.ledgers[g[3]] = after]
      BY <2>3 DEF HolderTransfers
    <3> HIDE DEF after
    <3>4. book'.ledgers = [book.ledgers EXCEPT ![g[3]] = after]
      BY <3>3 DEF BookInv, Book
    <3> QED
      BY <3>1, <3>2, <3>4
  <2>4. ~Abort
    BY <1>1 DEF Abort, Idle, NoCall
  <2> QED
    BY <1>1, <2>1, <2>2, <2>3, <2>4, StepDraws
<1> QED
  BY <1>2, <1>3 DEF SaleInv, saleVars, Backed, SignedForTheSale

-----------------------------------------------------------------------------
(* The calls on the sale and on the ChainX token.                          *)

(* They leave the proxy, the clock and calls alone.                        *)
LEMMA SaleQuiet ==
  ASSUME SaleInv, UNCHANGED <<tx, now, proxyVars>>, BookInv(book')
  PROVE  Inv' /\ tx' = NoCall
BY QuietInv DEF SaleInv

LEMMA InitializeKeeps ==
  ASSUME SaleInv, NEW o \in SaleOrders, NEW signature \in Signatures,
         Initialize(o, signature)
  PROVE  SaleInv'
<1> USE SaleFacts
<1>1. o.tokenT \in Tokens /\ o.valueT \in Uint
  BY OrderAssumption DEF OrderType
<1>2. /\ BookInv(book')
      /\ SupplyOf(book'.ledgers[CHX_TOKEN])
           = SupplyOf(book.ledgers[CHX_TOKEN])
  BY <1>1, ApprovedLeaves DEF Initialize
<1>3. Inv' /\ tx' = NoCall /\ supply' = supply
  BY <1>2, SaleQuiet DEF Initialize
<1>4. /\ sale' \in SaleRecord
      /\ sale'.order = o /\ sale'.signature = signature
  BY DEF Initialize, SaleInv, SaleRecord
<1>5. signature = <<o, SaleWords>>
  BY DEF Initialize, IsValidSignature
<1> QED
  BY <1>2, <1>3, <1>4, <1>5 DEF SaleInv, Backed, SignedForTheSale

LEMMA AllowanceKeeps ==
  ASSUME SaleInv, NEW token \in Tokens, NEW value \in Values,
         SetTokenAllowance(token, value)
  PROVE  SaleInv'
<1> USE SaleFacts
<1>1. /\ BookInv(book')
      /\ SupplyOf(book'.ledgers[CHX_TOKEN])
           = SupplyOf(book.ledgers[CHX_TOKEN])
  BY ApprovedLeaves DEF SetTokenAllowance
<1>2. Inv' /\ tx' = NoCall /\ UNCHANGED saleVars
  BY <1>1, SaleQuiet DEF SetTokenAllowance
<1> QED
  BY <1>1, <1>2 DEF SaleInv, saleVars, Backed, SignedForTheSale

LEMMA SavingKeeps ==
  ASSUME SaleInv, NEW a \in Savers, NEW value \in Values,
         Deposit(a, value) \/ Withdraw(a, value)
  PROVE  SaleInv'
<1> USE SaleFacts
<1>1. a \in Account
  BY SaleAssumption
<1>2. PICK amount \in {value, -value} :
        /\ book' = Credited(book, a, amount)
        /\ supply' = supply + amount
        /\ book.ledgers[CHX_TOKEN].balances[a] + amount \in Uint
  <2>1. /\ book.ledgers[CHX_TOKEN].balances[a] \in Uint
        /\ supply \in Int /\ Modulus \in Nat
    BY <1>1, ModulusAssumption DEF Ledger, SaleInv, Backed
  <2>2. CASE Deposit(a, value)
    BY <2>1, <2>2 DEF Deposit, Depositable, Uint
  <2>3. CASE Withdraw(a, value)
    <3>1. supply' = supply + (-value)
      BY <2>1, <2>3 DEF Withdraw
    <3> QED
      BY <2>1, <2>3, <3>1 DEF Withdraw, Uint
  <2> QED
    BY <2>2, <2>3
<1>3. amount \in Int
  OBVIOUS
<1>4. /\ BookInv(book')
      /\ SupplyOf(book'.ledgers[CHX_TOKEN])
           = SupplyOf(book.ledgers[CHX_TOKEN]) + amount
  BY <1>1, <1>2, <1>3, CreditedLeaves
<1>5. Inv' /\ tx' = NoCall /\ sale' = sale
  BY <1>4, SaleQuiet DEF Deposit, Withdraw
<1>6. Backed'
  BY <1>2, <1>3, <1>4 DEF SaleInv, Backed
<1> QED
  BY <1>5, <1>6 DEF SaleInv, SignedForTheSale
-----------------------------------------------------------------------------
LEMMA SaleStepInv == SaleInv /\ [SaleNext]_<<vars, saleVars>> => SaleInv'
<1> SUFFICES ASSUME SaleInv, [SaleNext]_<<vars, saleVars>> PROVE SaleInv'
  OBVIOUS
<1>1. CASE SaleStep
  BY <1>1, InitializeKeeps, AllowanceKeeps, SavingKeeps DEF SaleStep
<1>2. CASE OthersStep /\ UNCHANGED saleVars
  BY <1>2, OthersKeepTheSupply
<1>3. CASE UNCHANGED <<vars, saleVars>>
  <2>1. book' = book /\ tx' = NoCall /\ UNCHANGED vars /\ UNCHANGED saleVars
    BY <1>3 DEF vars, SaleInv
  <2>2. Inv'
    BY <2>1, StepInv DEF SaleInv
  <2> QED
    BY <2>1, <2>2 DEF SaleInv, saleVars, Backed, SignedForTheSale
<1> QED
  BY <1>1, <1>2, <1>3 DEF SaleNext

(* However ChainX tokens are deposited, traded on the exchange and         *)
(* withdrawn, what the accounts have of them is the ether the token holds. *)
THEOREM TokensAlwaysBacked == SaleSpec => []TokensAreBacked
BY SaleInitInv, SaleStepInv, SaleInvIsEnough, PTL DEF SaleSpec

(* The signature that init has accepted is not one that fill accepts,      *)
(* whatever makers have signed, so that the fallback function throws for   *)
(* every buyer and every amount.                                           *)
THEOREM SaleNeverSells == SaleSpec => []NoPurchase
BY SaleInitInv, SaleStepInv, SaleInvIsEnough, PTL DEF SaleSpec
-----------------------------------------------------------------------------
(* The lists of the token registry.                                        *)

Absent(list, token) == \A i \in 1..Len(list) : list[i] # token

LEMMA AppendFacts ==
  ASSUME NEW S, NEW list \in Seq(S), NEW e \in S
  PROVE  /\ Append(list, e) \in Seq(S)
         /\ Len(list) \in Nat
         /\ Len(Append(list, e)) = Len(list) + 1
         /\ Append(list, e)[Len(list) + 1] = e
         /\ \A i \in 1..Len(list) : Append(list, e)[i] = list[i]
OBVIOUS

(* A new element is listed once, and what was listed is listed as before.  *)
LEMMA AppendLists ==
  ASSUME NEW S, NEW list \in Seq(S), NEW e \in S
  PROVE  /\ Absent(list, e) => ListedOnce(Append(list, e), e)
         /\ \A t : t # e =>
              /\ ListedOnce(list, t) => ListedOnce(Append(list, e), t)
              /\ Absent(list, t) => Absent(Append(list, e), t)
<1> DEFINE n == Len(list)
           out == Append(list, e)
<1>1. /\ n \in Nat
      /\ Len(out) = n + 1
      /\ out[n + 1] = e
      /\ \A i \in 1..n : out[i] = list[i]
  BY AppendFacts
<1> HIDE DEF out, n
<1>2. Absent(list, e) => ListedOnce(out, e)
  <2> SUFFICES ASSUME Absent(list, e)
               PROVE  ListedOnceAt(out, e, n + 1)
    BY <1>1 DEF ListedOnce
  <2>1. QED
    BY <1>1 DEF ListedOnceAt, Absent, n
<1>3. ASSUME NEW t, t # e
      PROVE  /\ ListedOnce(list, t) => ListedOnce(out, t)
             /\ Absent(list, t) => Absent(out, t)
  <2>1. ASSUME NEW i \in 1..n, ListedOnceAt(list, t, i)
        PROVE  i \in 1..Len(out) /\ ListedOnceAt(out, t, i)
    BY <1>1, <1>3, <2>1 DEF ListedOnceAt, n
  <2>2. Absent(list, t) => Absent(out, t)
    BY <1>1, <1>3 DEF Absent, n
  <2>3. QED
    BY <2>1, <2>2 DEF ListedOnce, n
<1>4. QED
  BY <1>2, <1>3 DEF out

(* An element that is listed once is gone after the swap, and the others   *)
(* are listed as before.                                                   *)
LEMMA SwapOutLists ==
  ASSUME NEW S, NEW list \in Seq(S), NEW e \in S, ListedOnce(list, e)
  PROVE  /\ SwapOut(list, e) \in Seq(S)
         /\ Absent(SwapOut(list, e), e)
         /\ \A t : t # e =>
              /\ ListedOnce(list, t) => ListedOnce(SwapOut(list, e), t)
              /\ Absent(list, t) => Absent(SwapOut(list, e), t)
<1> DEFINE n == Len(list)
           out == SwapOut(list, e)
<1>1. PICK p \in 1..n : ListedOnceAt(list, e, p)
  BY DEF ListedOnce
<1>2. /\ n \in Nat
      /\ n - 1 \in Nat
      /\ \A i \in 1..n : list[i] \in S
      /\ list[p] = e
      /\ \A j \in 1..n : list[j] = e => j = p
  BY <1>1 DEF ListedOnceAt
<1>3. out = [i \in 1 .. n - 1 |-> IF i = p THEN list[n] ELSE list[i]]
  BY <1>2 DEF SwapOut
<1>4. /\ out \in Seq(S)
      /\ Len(out) = n - 1
      /\ \A i \in 1 .. n - 1 : out[i] = IF i = p THEN list[n] ELSE list[i]
  <2> HIDE DEF out
  <2>1. out \in [1 .. n - 1 -> S]
    BY <1>2, <1>3
  <2>2. QED
    BY <1>2, <1>3, <2>1
<1> HIDE DEF out, n
<1>5. Absent(out, e)
  BY <1>2, <1>4 DEF Absent
<1>6. ASSUME NEW t, t # e
      PROVE  /\ ListedOnce(list, t) => ListedOnce(out, t)
             /\ Absent(list, t) => Absent(out, t)
  <2>1. Absent(list, t) => Absent(out, t)
    BY <1>2, <1>4 DEF Absent, n
  <2>2. ASSUME NEW q \in 1..n, ListedOnceAt(list, t, q)
        PROVE  ListedOnce(out, t)
    <3>1. list[q] = t /\ \A j \in 1..n : list[j] = t => j = q
      BY <2>2 DEF ListedOnceAt, n
    <3>2. CASE q = n
      <4>1. p \in 1 .. n - 1
        BY <1>2, <1>6, <3>1, <3>2
      <4>2. out[p] = t /\ \A j \in 1 .. n - 1 : out[j] = t => j = p
        BY <1>2, <1>4, <3>1, <3>2, <4>1
      <4>3. QED
        BY <1>4, <4>1, <4>2 DEF ListedOnce, ListedOnceAt
    <3>3. CASE q # n
      <4>1. q \in 1 .. n - 1 /\ q # p
        BY <1>2, <1>6, <3>1, <3>3
      <4>2. out[q] = t /\ \A j \in 1 .. n - 1 : out[j] = t => j = q
        BY <1>2, <1>4, <3>1, <3>3, <4>1
      <4>3. QED
        BY <1>4, <4>1, <4>2 DEF ListedOnce, ListedOnceAt
    <3>4. QED
      BY <3>2, <3>3
  <2>3. QED
    BY <2>1, <2>2 DEF ListedOnce, n
<1>7. QED
  BY <1>4, <1>5, <1>6 DEF out

-----------------------------------------------------------------------------
(* The records of the token registry.                                      *)

LEMMA InitAgrees == RegistryInit => RegistryAgrees
BY DEF RegistryInit, RegistryAgrees, RegistryTypeOK, MetadataInPlace,
       TokenMetadata, NoToken,
       ListedAreRegistered, Exists, NamesLeadHome

(* addToken of a new token.                                                *)
LEMMA AddAgrees ==
  ASSUME RegistryAgrees, NEW sender, NEW token \in Addresses,
         NEW name \in Texts, NEW symbol \in Texts, NEW data \in Data,
         AddToken(sender, token, name, symbol, data)
  PROVE  RegistryAgrees'
<1> USE DEF RegistryAgrees
<1>1. RegistryTypeOK' /\ MetadataInPlace'
  BY DEF AddToken, RegistryTypeOK, TokenMetadata, MetadataInPlace, Exists
<1>2. ListedAreRegistered'
  <2> SUFFICES ASSUME NEW t \in Addresses \ {Zero}
               PROVE  IF Exists(t)' THEN ListedOnce(tokenAddresses, t)'
                                    ELSE Absent(tokenAddresses', t)
    BY DEF ListedAreRegistered, Absent
  <2>1. tokenAddresses' = Append(tokenAddresses, token)
    BY DEF AddToken
  <2>2. IF Exists(t) THEN ListedOnce(tokenAddresses, t)
                     ELSE Absent(tokenAddresses, t)
    BY DEF ListedAreRegistered, Absent
  <2>3. ListedOnce(tokenAddresses, t)' <=> ListedOnce(tokenAddresses', t)
    BY DEF ListedOnce, ListedOnceAt
  <2>4. tokenAddresses \in Seq(Addresses)
    BY DEF RegistryTypeOK
  <2>5. CASE t = token
    <3>1. ~Exists(t) /\ Exists(t)'
      BY <2>5 DEF AddToken, Exists, RegistryTypeOK
    <3>2. QED
      BY <2>1, <2>2, <2>3, <2>4, <2>5, <3>1, AppendLists
  <2>6. CASE t # token
    <3>1. Exists(t)' <=> Exists(t)
      BY <2>6 DEF AddToken, Exists, RegistryTypeOK
    <3>2. QED
      BY <2>1, <2>2, <2>3, <2>4, <2>6, <3>1, AppendLists
  <2>7. QED
    BY <2>5, <2>6
<1>3. NamesLeadHome'
  BY DEF AddToken, RegistryTypeOK, Exists, NamesLeadHome, MetadataInPlace,
         GetTokenByName,
         GetTokenBySymbol, GetTokenMetaData, TokenMetadata
<1>4. QED
  BY <1>1, <1>2, <1>3

(* removeToken of a token that exists.                                     *)
LEMMA RemoveAgrees ==
  ASSUME RegistryAgrees, NEW sender, NEW token \in Addresses,
         RemoveToken(sender, token)
  PROVE  RegistryAgrees'
<1> USE DEF RegistryAgrees
<1>1. /\ token # Zero
      /\ tokenAddresses \in Seq(Addresses)
      /\ ListedOnce(tokenAddresses, token)
      /\ tokenAddresses' = SwapOut(tokenAddresses, token)
  <2>1. token # Zero
    BY DEF RemoveToken, Exists, MetadataInPlace
  <2>2. QED
    BY <2>1 DEF RemoveToken, RegistryTypeOK, ListedAreRegistered
<1>2. RegistryTypeOK' /\ MetadataInPlace'
  BY <1>1, SwapOutLists DEF RemoveToken, RegistryTypeOK, TokenMetadata, NoToken,
                            MetadataInPlace, Exists
<1>3. ListedAreRegistered'
  <2> SUFFICES ASSUME NEW t \in Addresses \ {Zero}
               PROVE  IF Exists(t)' THEN ListedOnce(tokenAddresses', t)
                                    ELSE Absent(tokenAddresses', t)
    BY DEF ListedAreRegistered, Absent, ListedOnce, ListedOnceAt
  <2>1. IF Exists(t) THEN ListedOnce(tokenAddresses, t)
                     ELSE Absent(tokenAddresses, t)
    BY DEF ListedAreRegistered, Absent
  <2>2. CASE t = token
    <3>1. ~Exists(t)'
      BY <2>2 DEF RemoveToken, Exists, RegistryTypeOK, NoToken
    <3>2. QED
      BY <1>1, <2>2, <3>1, SwapOutLists
  <2>3. CASE t # token
    <3>1. Exists(t)' <=> Exists(t)
      BY <2>3 DEF RemoveToken, Exists, RegistryTypeOK
    <3>2. QED
      BY <1>1, <2>1, <2>3, <3>1, SwapOutLists
  <2>4. QED
    BY <2>2, <2>3
<1>4. NamesLeadHome'
  BY DEF RemoveToken, RegistryTypeOK, Exists, NamesLeadHome, MetadataInPlace,
         GetTokenByName,
         GetTokenBySymbol, GetTokenMetaData, TokenMetadata
<1>5. QED
  BY <1>2, <1>3, <1>4

(* The calls that change a token's metadata and not whether it exists.     *)
LEMMA SetAgrees ==
  ASSUME RegistryAgrees, NEW sender, NEW token \in Addresses,
         \/ \E text \in Texts : \/ SetTokenName(sender, token, text)
                                \/ SetTokenSymbol(sender, token, text)
         \/ \E data \in Data : SetTokenData(sender, token, data)
  PROVE  RegistryAgrees'
<1> USE DEF RegistryAgrees
<1>1. RegistryTypeOK' /\ MetadataInPlace'
  BY DEF SetTokenName, SetTokenSymbol, SetTokenData, RegistryTypeOK,
         TokenMetadata,
         MetadataInPlace, Exists
<1>2. ListedAreRegistered'
  <2>1. tokenAddresses' = tokenAddresses
    BY DEF SetTokenName, SetTokenSymbol, SetTokenData
  <2>2. \A t \in Addresses : Exists(t)' <=> Exists(t)
    BY DEF SetTokenName, SetTokenSymbol, SetTokenData, Exists, RegistryTypeOK,
           TokenMetadata
  <2>3. QED
    BY <2>1, <2>2 DEF ListedAreRegistered, ListedOnce, ListedOnceAt
<1>3. NamesLeadHome'
  <2> USE DEF RegistryTypeOK, Exists, MetadataInPlace, NamesLeadHome,
  GetTokenByName,
              GetTokenBySymbol, GetTokenMetaData, TokenMetadata
  <2>1. CASE \E text \in Texts : SetTokenName(sender, token, text)
    BY <2>1 DEF SetTokenName
  <2>2. CASE \E text \in Texts : SetTokenSymbol(sender, token, text)
    BY <2>2 DEF SetTokenSymbol
  <2>3. CASE \E data \in Data : SetTokenData(sender, token, data)
    BY <2>3 DEF SetTokenData
  <2>4. QED
    BY <2>1, <2>2, <2>3
<1>4. QED
  BY <1>1, <1>2, <1>3

(* Through any calls of any callers the array, the metadata and the two    *)
(* indexes of the registry agree: the lemmas go through the calls, and     *)
(* what they need of the loop of removeToken is SwapOutLists.              *)
THEOREM RecordsStayInAgreement == RegistrySpec => []RegistryAgrees
<1>1. RegistryAgrees /\ [RegistryNext]_registryVars => RegistryAgrees'
  <2> SUFFICES ASSUME RegistryAgrees, [RegistryNext]_registryVars
               PROVE  RegistryAgrees'
    OBVIOUS
  <2>1. CASE \E sender, newOwner \in Registrars :
               TransferRegistry(sender, newOwner)
    BY <2>1 DEF TransferRegistry, RegistryAgrees, RegistryTypeOK, Exists,
         MetadataInPlace, ListedAreRegistered, ListedOnce, ListedOnceAt,
         NamesLeadHome,
         GetTokenByName, GetTokenBySymbol, GetTokenMetaData
  <2>2. CASE \E sender \in Registrars, token \in Addresses,
               name, symbol \in Texts, data \in Data :
               AddToken(sender, token, name, symbol, data)
    BY <2>2, AddAgrees
  <2>3. CASE \E sender \in Registrars, token \in Addresses :
               RemoveToken(sender, token)
    BY <2>3, RemoveAgrees
  <2>4. CASE \E sender \in Registrars, token \in Addresses :
               \/ \E text \in Texts : \/ SetTokenName(sender, token, text)
                                      \/ SetTokenSymbol(sender, token, text)
               \/ \E data \in Data : SetTokenData(sender, token, data)
    BY <2>4, SetAgrees
  <2>5. CASE UNCHANGED registryVars
    BY <2>5 DEF registryVars, RegistryAgrees, RegistryTypeOK, Exists,
      MetadataInPlace,
         ListedAreRegistered, ListedOnce, ListedOnceAt, NamesLeadHome,
         GetTokenByName,
         GetTokenBySymbol, GetTokenMetaData
  <2>6. QED
    BY <2>1, <2>2, <2>3, <2>4, <2>5 DEF RegistryNext
<1>2. QED
  BY <1>1, InitAgrees, PTL DEF RegistrySpec
=============================================================================
