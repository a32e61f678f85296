----------------------------- MODULE ToolsProofs -----------------------------
(***************************************************************************)
(* Proofs about the two client tools: for every list of configurations,    *)
(* and every set of keys, scripts, outputs, numbers and registers.         *)
(***************************************************************************)
EXTENDS TxTool, RpcFailover, SequenceTheorems, TLAPS

-----------------------------------------------------------------------------
(* The masternode tool's connection.  A call goes round the list from the  *)
(* configuration it begins with; what it has left behind it has tried, but *)
(* perhaps the first, which may have been connected already.               *)
Places == 1 .. Len(connections)

UpTo(s, i) ==
  {j \in Places : IF s <= i THEN s <= j /\ j <= i ELSE s <= j \/ j <= i}

ToTry == pc = "open" /\ ~active

Behind(s) == UpTo(s, cur_conn_index) \ (IF ToTry THEN {cur_conn_index} ELSE {})

Going(s) ==
  /\ connections[s] = starting_conn
  /\ \A c \in tried : \E j \in Behind(s) : c = connections[j]
  /\ \A j \in Behind(s) : connections[j] \in tried \cup {starting_conn}

RoundInv ==
  /\ connections \in Lists
  /\ connections # << >> =>
       cur_conn_index \in Places /\ cur_conn_def = connections[cur_conn_index]
  /\ active => proxy = cur_conn_def
  /\ pc \in {"true", "proxy"} => active
  /\ pc = "connect" => ~active /\ proxy = cur_conn_def
  /\ pc = "refused" \/ (pc = "false" /\ ~cut) =>
       connections # << >> /\ connections[Idx] = starting_conn
  /\ pc = "error" /\ ~cut => connections = << >>
  /\ pc = "idle" => opens = << >>
  /\ pc # "idle" /\ connections = << >> =>
       /\ opens = << >> \/ pc \in {"switch", "error"}
       /\ ToTry => tried = {}
  /\ pc # "idle" /\ connections # << >> => \E s \in Places : Going(s)

(* The list has come round when the next configuration is the first.       *)
LEMMA ListFacts ==
  ASSUME RoundInv, connections # << >>
  PROVE  /\ Len(connections) \in Nat \ {0}
         /\ Idx \in Places /\ cur_conn_index \in Places
         /\ \A i, j \in Places : connections[i] = connections[j] => i = j
<1>1. connections \in Seq(Range(connections))
  BY ListsAssumption DEF RoundInv
<1>2. Len(connections) \in Nat \ {0}
  BY <1>1
<1> QED
  BY <1>2, ListsAssumption DEF RoundInv, Idx, Places

LEMMA RoundIsFull ==
  ASSUME RoundInv, connections # << >>, NEW s \in Places, Idx = s
  PROVE  UpTo(s, cur_conn_index) = Places
BY ListFacts DEF UpTo, Idx, Places

LEMMA RoundGoesOn ==
  ASSUME RoundInv, connections # << >>, NEW s \in Places, Idx # s
  PROVE  UpTo(s, Idx) \ {Idx} = UpTo(s, cur_conn_index)
BY ListFacts DEF UpTo, Idx, Places

LEMMA RoundImplies == RoundInv => AllTriedBeforeFailing /\ CallsOnConnection
<1> SUFFICES ASSUME RoundInv PROVE AllTriedBeforeFailing /\ CallsOnConnection
  OBVIOUS
<1>1. CallsOnConnection
  BY DEF RoundInv, CallsOnConnection
<1>2. Range(connections) = {connections[j] : j \in Places}
  <2>1. connections \in Seq(Range(connections))
    BY ListsAssumption DEF RoundInv
  <2>2. DOMAIN connections = Places
    BY <2>1 DEF Places
  <2> QED
    BY <2>2 DEF Range
<1>3. ASSUME pc = "refused" \/ (pc = "false" /\ ~cut)
      PROVE  Range(connections) \subseteq tried \cup {starting_conn}
  <2>1. connections # << >> /\ connections[Idx] = starting_conn
    BY <1>3 DEF RoundInv
  <2>2. PICK s \in Places : Going(s)
    BY <1>3, <2>1 DEF RoundInv
  <2>3. Idx = s
    BY <2>1, <2>2, ListFacts DEF Going
  <2>4. Behind(s) = Places
    BY <1>3, <2>1, <2>3, RoundIsFull DEF Behind, ToTry
  <2> QED
    BY <1>2, <2>2, <2>4 DEF Going
<1>4. pc = "error" /\ ~cut => Range(connections) = {}
  BY <1>2 DEF RoundInv, Places
<1> QED
  BY <1>1, <1>3, <1>4 DEF AllTriedBeforeFailing, Failing

LEMMA RoundInit == RpcInit => RoundInv
<1> SUFFICES ASSUME RpcInit PROVE RoundInv
  OBVIOUS
<1>1. connections # << >> => Len(connections) \in Nat \ {0}
  BY ListsAssumption DEF RpcInit
<1> QED
  BY <1>1 DEF RpcInit, RoundInv, Places

(* A call begins with nothing behind it but, where it is connected, the    *)
(* configuration it is connected to.                                       *)
LEMMA BeginKeeps == RoundInv /\ MarkCallBegin => RoundInv'
<1> SUFFICES ASSUME RoundInv, MarkCallBegin PROVE RoundInv'
  OBVIOUS
<1> USE DEF MarkCallBegin, config
<1>1. CASE connections # << >>
  <2>1. PICK s \in Places : s = cur_conn_index
    BY <1>1, ListFacts
  <2>2. s \in Places' /\ connections'[s] = starting_conn' /\ tried' = {}
    BY <1>1, <2>1 DEF RoundInv, Places
  <2>3. Behind(s)' \subseteq {s}
    BY <1>1, <2>1, ListFacts DEF Behind, UpTo, Places
  <2>4. Going(s)'
    BY <2>2, <2>3 DEF Going
  <2> QED
    BY <1>1, <2>2, <2>4 DEF RoundInv, Places, Idx
<1>2. CASE connections = << >>
  BY <1>2 DEF RoundInv, ToTry
<1> QED
  BY <1>1, <1>2

(* Steps that go elsewhere in the call, and leave the list where it was.   *)
LEMMA GotoKeeps ==
  ASSUME RoundInv, NEW label, Goto(label), ~ToTry, pc # "idle",
         label \in {"open", "true"} => active,
         label = "proxy" => active,
         label \in {"false", "refused"} =>
           connections # << >> /\ connections[Idx] = starting_conn,
         label = "error" => connections = << >>,
         label # "connect",
         label = "idle" => opens' = << >>,
         connections = << >> => opens' = << >> \/ label \in {"switch", "error"}
  PROVE  RoundInv'
<1> USE DEF Goto, config
<1>1. ~ToTry'
  BY DEF ToTry, RoundInv
<1>2. \A s \in Places : Going(s) => Going(s)'
  BY <1>1 DEF Going, Behind, UpTo, Places
<1> QED
  BY <1>1, <1>2 DEF RoundInv, Places, Idx

LEMMA OpenInternalKeeps == RoundInv /\ OpenInternal => RoundInv'
<1> SUFFICES ASSUME RoundInv, OpenInternal PROVE RoundInv'
  OBVIOUS
<1> USE DEF OpenInternal, config, CutShort, Switch
<1>1. /\ ToTry /\ ~ToTry' /\ pc' \in {"false", "error", "switch", "connect"}
      /\ pc' \in {"false", "error"} => cut'
      /\ pc' = "connect" => proxy' = cur_conn_def
      /\ opens' = opens \/ pc' = "switch"
  BY DEF ToTry
<1>2. ASSUME connections # << >>, NEW s \in Places, Going(s)
      PROVE  Going(s)'
  <2>1. Behind(s)' = Behind(s) \cup {cur_conn_index}
    BY <1>1, <1>2, ListFacts DEF Behind, UpTo, Places
  <2>2. tried' = tried \cup {connections[cur_conn_index]}
    BY <1>2 DEF RoundInv
  <2> QED
    BY <1>2, <2>1, <2>2 DEF Going
<1> QED
  BY <1>1, <1>2 DEF RoundInv, Places, Idx, ToTry

(* Steps that leave the connection as it is, and go round no further.      *)
LEMMA RoundStays ==
  ASSUME RoundInv, UNCHANGED <<config, tried, starting_conn, proxy>>,
         ~ToTry, ~ToTry', pc # "idle",
         active' => proxy = cur_conn_def,
         pc' \in {"true", "proxy"} => active',
         pc' \in {"switch", "true"} \/ (pc' = "error" /\ cut'),
         connections = << >> => opens' = << >> \/ pc' \in {"switch", "error"}
  PROVE  RoundInv'
<1>1. \A s \in Places : Going(s) => Going(s)'
  BY DEF Going, Behind, UpTo, Places, config
<1> QED
  BY <1>1 DEF RoundInv, Places, Idx, config

LEMMA ConnectKeeps == RoundInv /\ Connect => RoundInv'
<1> SUFFICES ASSUME RoundInv, Connect PROVE RoundInv'
  OBVIOUS
<1>1. /\ pc = "connect" /\ proxy = cur_conn_def /\ ~active
      /\ UNCHANGED <<config, tried, starting_conn, proxy>>
      /\ \/ pc' = "error" /\ cut' /\ active' = active
         \/ pc' = "switch" /\ active' = active
         \/ pc' = "true" /\ active' /\ opens' = opens
  BY DEF Connect, CutShort, Switch, RoundInv
<1>2. connections = << >> => opens = << >>
  BY <1>1 DEF RoundInv
<1> QED
  BY <1>1, <1>2, RoundStays DEF ToTry

LEMMA TooDeepKeeps == RoundInv /\ TooDeep => RoundInv'
<1> SUFFICES ASSUME RoundInv, TooDeep PROVE RoundInv'
  OBVIOUS
<1>1. /\ pc = "switch" /\ pc' = "error" /\ cut' /\ active' = active
      /\ UNCHANGED <<config, tried, starting_conn, proxy>>
  BY DEF TooDeep, CutShort
<1>2. active => proxy = cur_conn_def
  BY DEF RoundInv
<1> QED
  BY <1>1, <1>2, RoundStays DEF ToTry

LEMMA SwitchKeeps == RoundInv /\ SwitchToNextConfig => RoundInv'
<1> SUFFICES ASSUME RoundInv, SwitchToNextConfig PROVE RoundInv'
  OBVIOUS
<1> USE DEF SwitchToNextConfig
<1>1. PICK s \in Places : Going(s)
  BY DEF RoundInv
<1>2. ToTry' /\ ~ToTry
  BY DEF ToTry
<1>3. Behind(s)' = Behind(s)
  <2>1. Idx # s
    BY <1>1 DEF Going
  <2>2. Behind(s)' = UpTo(s, Idx) \ {Idx}
    BY <1>2 DEF Behind, UpTo, Places
  <2> QED
    BY <1>2, <2>1, <2>2, RoundGoesOn DEF Behind
<1>4. Going(s)'
  BY <1>1, <1>3 DEF Going
<1> QED
  BY <1>1, <1>4, ListFacts DEF RoundInv, Places

LEMMA ProceedKeeps == RoundInv /\ Proceed => RoundInv'
<1> SUFFICES ASSUME RoundInv, Proceed PROVE RoundInv'
  OBVIOUS
<1>1. CASE OpenInternal
  BY <1>1, OpenInternalKeeps
<1>2. CASE SwitchToNextConfig
  BY <1>2, SwitchKeeps
<1>3. CASE OpenAtOnce /\ cur_conn_def = NoConn
  <2>1. connections = << >>
    <3>1. connections # << >> => cur_conn_def \in Range(connections)
      <4>1. connections \in Seq(Range(connections))
        BY ListsAssumption DEF RoundInv
      <4> QED
        BY <4>1 DEF RoundInv, Range, Places
    <3> QED
      BY <1>3, <3>1, ListsAssumption DEF RoundInv
  <2> QED
    BY <1>3, <2>1 DEF OpenAtOnce, Goto, config, RoundInv, ToTry
<1>4. CASE OpenAtOnce /\ cur_conn_def # NoConn
  <2>1. active /\ Goto("true") /\ UNCHANGED opens /\ pc = "open"
    BY <1>4 DEF OpenAtOnce
  <2> QED
    BY <2>1, GotoKeeps DEF RoundInv, ToTry
<1>5. CASE NoOtherConfig
  <2>1. /\ pc = "switch" /\ connections # << >>
        /\ connections[Idx] = starting_conn
        /\ Goto("false") \/ Goto("refused")
    BY <1>5 DEF NoOtherConfig
  <2> QED
    BY <2>1, GotoKeeps DEF ToTry
<1>6. CASE NoConfigAtAll
  BY <1>6, GotoKeeps DEF NoConfigAtAll, ToTry
<1>7. CASE OpenReturns
  <2>1. CASE pc = "true" /\ opens = << >>
    BY <1>7, <2>1, GotoKeeps DEF OpenReturns, ToTry, RoundInv
  <2>2. CASE pc = "true" /\ opens # << >>
    <3>1. connections # << >> /\ active
      BY <2>2 DEF RoundInv
    <3>2. Goto("open") \/ Goto("true")
      BY <1>7, <2>2 DEF OpenReturns
    <3> QED
      BY <2>2, <3>1, <3>2, GotoKeeps DEF ToTry
  <2>3. CASE pc = "false" /\ opens = << >>
    BY <1>7, <2>3, GotoKeeps DEF OpenReturns, Ends, ToTry
  <2>4. CASE pc = "false" /\ opens # << >>
    BY <1>7, <2>4, GotoKeeps DEF OpenReturns, ToTry
  <2> QED
    BY <1>7, <2>1, <2>2, <2>3, <2>4 DEF OpenReturns
<1>8. CASE OpenRaises
  <2>1. CASE pc = "error" \/ opens = << >>
    <3>1. Goto("idle") /\ opens' = << >> /\ pc \in {"error", "refused"}
      BY <1>8, <2>1 DEF OpenRaises, Ends
    <3> QED
      BY <3>1, GotoKeeps DEF ToTry
  <2>2. CASE pc = "refused" /\ opens # << >>
    <3>1. connections # << >> /\ connections[Idx] = starting_conn
      BY <2>2 DEF RoundInv
    <3>2. Goto("refused") \/ Goto("switch")
      BY <1>8, <2>2 DEF OpenRaises
    <3> QED
      BY <2>2, <3>1, <3>2, GotoKeeps DEF ToTry
  <2> QED
    BY <1>8, <2>1, <2>2 DEF OpenRaises
<1>9. CASE Proxy
  <2>1. pc = "proxy" /\ ((Goto("idle") /\ opens' = << >>) \/ Goto("switch"))
    BY <1>9 DEF Proxy, Ends
  <2> QED
    BY <2>1, GotoKeeps DEF ToTry
<1> QED
  BY <1>1, <1>2, <1>3, <1>4, <1>5, <1>6, <1>7, <1>8, <1>9, ConnectKeeps,
     TooDeepKeeps DEF Proceed

(* All this as long as the list stays what it was when the call began.     *)
FailoverInv == overtaken \/ RoundInv

LEMMA RpcNextKeeps == FailoverInv /\ [RpcNext]_rpcVars => FailoverInv'
<1> SUFFICES ASSUME FailoverInv, [RpcNext]_rpcVars PROVE FailoverInv'
  OBVIOUS
<1>1. overtaken => overtaken'
  BY DEF RpcNext, ApplyNewCfg, MarkCallBegin, Proceed, OpenInternal, Connect,
         OpenAtOnce, SwitchToNextConfig, TooDeep, NoOtherConfig, NoConfigAtAll,
         OpenReturns, OpenRaises, Proxy, Ends, Goto, rpcVars
<1>2. CASE UNCHANGED rpcVars
  BY <1>2 DEF FailoverInv, rpcVars, RoundInv, Going, Behind, UpTo, Places,
              ToTry, Idx
<1>3. CASE ApplyNewCfg /\ pc # "idle"
  BY <1>3 DEF ApplyNewCfg, FailoverInv
<1>4. CASE ApplyNewCfg /\ pc = "idle"
  <2>1. connections' # << >> => Len(connections') \in Nat \ {0}
    BY <1>4, ListsAssumption DEF ApplyNewCfg
  <2> QED
    BY <1>1, <1>4, <2>1 DEF ApplyNewCfg, FailoverInv, RoundInv, Places
<1> QED
  BY <1>1, <1>2, <1>3, <1>4, BeginKeeps, ProceedKeeps DEF RpcNext, FailoverInv

LEMMA FailoverInit == RpcInit => FailoverInv
BY RoundInit DEF FailoverInv

(* However attempts fail and calls of open wait for each other, as long as *)
(* the list does not change under a call: the call fails for want of a     *)
(* connection, or without an attempt cut short, only when every other      *)
(* configuration has failed, and the remote call is made on the one that   *)
(* is configured.                                                          *)
THEOREM FailoverAlwaysThorough ==
  RpcInit /\ [][RpcNext]_rpcVars => []FailoverIsThorough
<1>1. FailoverInv => FailoverIsThorough
  BY RoundImplies DEF FailoverInv, FailoverIsThorough
<1> QED
  BY <1>1, FailoverInit, RpcNextKeeps, PTL

(* No configuration is tried twice in a call, by whichever level of the    *)
(* recursion it is switched to, as long as the list does not change.       *)
THEOREM EachTriedOnce == RpcInit /\ [][RpcNext]_rpcVars => TriedOnce
<1>1. ASSUME RoundInv, OpenInternal PROVE cur_conn_def \notin tried
  <2>1. ToTry
    BY <1>1 DEF OpenInternal, ToTry
  <2>2. CASE connections = << >>
    BY <1>1, <2>1, <2>2 DEF RoundInv, OpenInternal
  <2>3. CASE connections # << >>
    <3>1. PICK s \in Places : Going(s)
      BY <1>1, <2>3 DEF RoundInv, OpenInternal
    <3>2. cur_conn_index \notin Behind(s) /\ Behind(s) \subseteq Places
      BY <2>1 DEF Behind, UpTo
    <3> QED
      BY <1>1, <2>3, <3>1, <3>2, ListFacts DEF Going, RoundInv
  <2> QED
    BY <2>2, <2>3
<1>2. FailoverInv /\ [RpcNext]_rpcVars =>
        [OpenInternal => cur_conn_def \notin tried \/ overtaken]_rpcVars
  BY <1>1 DEF FailoverInv
<1> QED
  BY FailoverInit, RpcNextKeeps, <1>2, PTL DEF TriedOnce

-----------------------------------------------------------------------------
(* chainx-tx.  A transaction of any number of inputs and outputs.          *)
Inputs == [prevout : Outpoints, scriptSig : SUBSET Signatures]

Transactions ==
  [nVersion : 1 .. CURRENT_VERSION, vin : Seq(Inputs), vout : Seq(Outputs),
   nLockTime : 0 .. MaxLocktime]

OfSomething(input) == \A s \in input.scriptSig : s.digest # Nothing

Sound(t) ==
  /\ t \in Transactions
  /\ \A i \in 1 .. Len(t.vin) : OfSomething(t.vin[i])

ToolInv ==
  /\ phase \in {"ready", "running", "done"}
  /\ Sound(tx)
  /\ stdout # Unset => Sound(stdout)
  /\ prev # Unset => prev \subseteq Outpoints \X SUBSET Keys

LEMMA SoundFacts ==
  ASSUME NEW t, Sound(t)
  PROVE  /\ t.vin \in Seq(Inputs) /\ t.vout \in Seq(Outputs)
         /\ DOMAIN t.vin = 1 .. Len(t.vin) /\ DOMAIN t.vout = 1 .. Len(t.vout)
         /\ Len(t.vin) \in Nat /\ Len(t.vout) \in Nat
         /\ \A i \in DOMAIN t.vin : t.vin[i] \in Inputs
         /\ \A i \in DOMAIN t.vout : t.vout[i] \in Outputs
         /\ t.nVersion \in 1 .. CURRENT_VERSION
         /\ t.nLockTime \in 0 .. MaxLocktime
<1>1. t \in Transactions
  BY DEF Sound
<1>2. /\ t.vin \in Seq(Inputs) /\ t.vout \in Seq(Outputs)
      /\ t.nVersion \in 1 .. CURRENT_VERSION /\ t.nLockTime \in 0 .. MaxLocktime
  BY <1>1 DEF Transactions
<1> DEFINE vin == t.vin
           vout == t.vout
<1> HIDE DEF vin, vout
<1>3. /\ vin \in Seq(Inputs) =>
           /\ DOMAIN vin = 1 .. Len(vin) /\ Len(vin) \in Nat
           /\ \A i \in DOMAIN vin : vin[i] \in Inputs
      /\ vout \in Seq(Outputs) =>
           /\ DOMAIN vout = 1 .. Len(vout) /\ Len(vout) \in Nat
           /\ \A i \in DOMAIN vout : vout[i] \in Outputs
  OBVIOUS
<1> QED
  BY <1>2, <1>3 DEF vin, vout

LEMMA ToolInvImplies == ToolInv => TransactionIsSound
<1> SUFFICES ASSUME ToolInv PROVE TransactionIsSound
  OBVIOUS
<1>1. Sound(tx)
  BY DEF ToolInv
<1>2. TypeOK
  BY <1>1, SoundFacts DEF TypeOK, ToolInv, Inputs
<1>3. NoSignatureOfNothing
  BY <1>1, SoundFacts DEF Sound, OfSomething, NoSignatureOfNothing
<1> QED
  BY <1>2, <1>3 DEF TransactionIsSound

(* Parts of a sequence: what a deletion leaves.                            *)
LEMMA RemoveAtFacts ==
  ASSUME NEW S, NEW s \in Seq(S), NEW i \in 1 .. Len(s)
  PROVE  /\ RemoveAt(s, i) \in Seq(S)
         /\ Len(RemoveAt(s, i)) = Len(s) - 1
         /\ \A j \in 1 .. Len(s) - 1 :
              RemoveAt(s, i)[j] = s[IF j < i THEN j ELSE j + 1]
<1> DEFINE front == SubSeq(s, 1, i - 1)
           back == SubSeq(s, i + 1, Len(s))
<1>1. Len(s) \in Nat /\ i \in Nat /\ i >= 1 /\ i <= Len(s)
  OBVIOUS
<1>2. /\ front \in Seq(S) /\ Len(front) = i - 1
      /\ \A j \in 1 .. i - 1 : front[j] = s[j]
  BY <1>1
<1>3. /\ back \in Seq(S) /\ Len(back) = Len(s) - i
      /\ \A j \in 1 .. Len(s) - i : back[j] = s[i + j]
  BY <1>1
<1>4. RemoveAt(s, i) = front \o back
  BY DEF RemoveAt
<1> HIDE DEF front, back
<1>5. /\ front \o back \in Seq(S)
      /\ Len(front \o back) = Len(s) - 1
  <2>1. /\ front \o back \in Seq(S)
        /\ Len(front \o back) = Len(front) + Len(back)
    BY <1>2, <1>3, ConcatProperties
  <2>2. (i - 1) + (Len(s) - i) = Len(s) - 1
    BY <1>1
  <2> QED
    BY <1>2, <1>3, <2>1, <2>2
<1>6. ASSUME NEW j \in 1 .. Len(s) - 1
      PROVE  (front \o back)[j] = s[IF j < i THEN j ELSE j + 1]
  <2>1. CASE j < i
    BY <1>1, <1>2, <1>3, <2>1
  <2>2. CASE ~(j < i)
    <3>1. j - (i - 1) \in 1 .. Len(s) - i
      BY <1>1, <2>2
    <3>2. (front \o back)[j] = back[j - (i - 1)]
      BY <1>1, <1>2, <1>3, <2>2
    <3>3. back[j - (i - 1)] = s[i + (j - (i - 1))]
      BY <1>3, <3>1
    <3>4. i + (j - (i - 1)) = j + 1
      BY <1>1
    <3> QED
      BY <2>2, <3>2, <3>3, <3>4
  <2> QED
    BY <2>1, <2>2
<1> QED
  BY <1>4, <1>5, <1>6

-----------------------------------------------------------------------------
(* Building a transaction from its parts, and one part anew.               *)
LEMMA Rebuilt ==
  ASSUME NEW t, Sound(t), NEW x
  PROVE  /\ [t EXCEPT !.vin = x]
              = [nVersion |-> t.nVersion, vin |-> x, vout |-> t.vout,
                 nLockTime |-> t.nLockTime]
         /\ [t EXCEPT !.vout = x]
              = [nVersion |-> t.nVersion, vin |-> t.vin, vout |-> x,
                 nLockTime |-> t.nLockTime]
         /\ [t EXCEPT !.nLockTime = x]
              = [nVersion |-> t.nVersion, vin |-> t.vin, vout |-> t.vout,
                 nLockTime |-> x]
         /\ [t EXCEPT !.nVersion = x]
              = [nVersion |-> x, vin |-> t.vin, vout |-> t.vout,
                 nLockTime |-> t.nLockTime]
BY DEF Sound, Transactions

LEMMA InputsSound ==
  ASSUME NEW t, Sound(t), NEW vin \in Seq(Inputs),
         \A i \in 1 .. Len(vin) : OfSomething(vin[i])
  PROVE  Sound([t EXCEPT !.vin = vin])
BY Rebuilt, SoundFacts DEF Sound, Transactions

LEMMA OutputsSound ==
  ASSUME NEW t, Sound(t), NEW vout \in Seq(Outputs)
  PROVE  Sound([t EXCEPT !.vout = vout])
BY Rebuilt, SoundFacts DEF Sound, Transactions

LEMMA NumbersSound ==
  ASSUME NEW t, Sound(t)
  PROVE  /\ \A n \in 0 .. MaxLocktime : Sound([t EXCEPT !.nLockTime = n])
         /\ \A n \in 1 .. CURRENT_VERSION : Sound([t EXCEPT !.nVersion = n])
<1>1. ASSUME NEW n \in 0 .. MaxLocktime PROVE Sound([t EXCEPT !.nLockTime = n])
  BY Rebuilt, SoundFacts DEF Sound, Transactions
<1>2. ASSUME NEW n \in 1 .. CURRENT_VERSION
      PROVE  Sound([t EXCEPT !.nVersion = n])
  BY Rebuilt, SoundFacts DEF Sound, Transactions
<1> QED
  BY <1>1, <1>2

LEMMA BlankSound == Sound(Blank)
<1> DEFINE none == << >>
<1>1. /\ none \in Seq(Inputs) /\ none \in Seq(Outputs) /\ Len(none) = 0
      /\ Blank = [nVersion |-> CURRENT_VERSION, vin |-> none, vout |-> none,
                  nLockTime |-> 0]
  BY DEF Blank
<1> HIDE DEF none
<1>2. CURRENT_VERSION \in 1 .. CURRENT_VERSION /\ 0 \in 0 .. MaxLocktime
  BY ToolAssumption
<1> QED
  BY <1>1, <1>2 DEF Sound, Transactions

LEMMA AddedInputSound ==
  ASSUME NEW t, Sound(t), NEW o \in Outpoints
  PROVE  Sound([t EXCEPT !.vin = Append(@, [prevout |-> o, scriptSig |-> {}])])
<1> DEFINE new == [prevout |-> o, scriptSig |-> {}]
           more == Append(t.vin, new)
<1>1. new \in Inputs /\ OfSomething(new)
  BY DEF Inputs, OfSomething
<1>2. t.vin \in Seq(Inputs) /\ Len(t.vin) \in Nat
  BY SoundFacts
<1> HIDE DEF new
<1>3. /\ more \in Seq(Inputs) /\ Len(more) = Len(t.vin) + 1
      /\ \A i \in 1 .. Len(t.vin) : more[i] = t.vin[i]
      /\ more[Len(t.vin) + 1] = new
  BY <1>1, <1>2
<1>4. ASSUME NEW i \in 1 .. Len(more) PROVE OfSomething(more[i])
  <2>1. i \in 1 .. Len(t.vin) \/ i = Len(t.vin) + 1
    BY <1>2, <1>3
  <2> QED
    BY <1>1, <1>3, <2>1 DEF Sound
<1> HIDE DEF more
<1>5. Sound([t EXCEPT !.vin = more])
  BY <1>3, <1>4, InputsSound
<1> QED
  BY <1>5 DEF more, new

LEMMA DeletedInputSound ==
  ASSUME NEW t, Sound(t), NEW n \in 1 .. Len(t.vin)
  PROVE  Sound([t EXCEPT !.vin = RemoveAt(@, n)])
<1> DEFINE less == RemoveAt(t.vin, n)
<1>1. t.vin \in Seq(Inputs) /\ Len(t.vin) \in Nat
  BY SoundFacts
<1>2. /\ less \in Seq(Inputs) /\ Len(less) = Len(t.vin) - 1
      /\ \A i \in 1 .. Len(t.vin) - 1 :
           \E j \in 1 .. Len(t.vin) : less[i] = t.vin[j]
  <2>1. \A i \in 1 .. Len(t.vin) - 1 :
          (IF i < n THEN i ELSE i + 1) \in 1 .. Len(t.vin)
    BY <1>1
  <2> QED
    BY <1>1, <2>1, RemoveAtFacts
<1> HIDE DEF less
<1>3. \A i \in 1 .. Len(less) : OfSomething(less[i])
  BY <1>1, <1>2 DEF Sound
<1>4. Sound([t EXCEPT !.vin = less])
  BY <1>2, <1>3, InputsSound
<1> QED
  BY <1>4 DEF less

-----------------------------------------------------------------------------
(* Signing.  A digest is of something, as its version shows.               *)
LEMMA DigestFacts ==
  ASSUME NEW t, Sound(t), NEW i \in DOMAIN t.vin, NEW f \in Flags,
         MaySign(t, i, f)
  PROVE  /\ Digest(t, i, f) # Nothing
         /\ Digest(t, i, f) \in
              [nVersion : 0 .. CURRENT_VERSION, ins : Seq(Outpoints), at : Nat,
               outs : Seq(Outputs \cup {Unset}), nLockTime : 0 .. MaxLocktime]
<1> DEFINE ins == IF f.anyone THEN <<t.vin[i].prevout>>
                  ELSE [j \in DOMAIN t.vin |-> t.vin[j].prevout]
           outs == CASE f.base = "ALL" -> t.vout
                     [] f.base = "NONE" -> << >>
                     [] f.base = "SINGLE" ->
                          [j \in 1..i |-> IF j = i THEN t.vout[i] ELSE Unset]
<1>1. f.base \in {"ALL", "NONE", "SINGLE"} /\ CURRENT_VERSION \in Nat
  BY ToolAssumption
<1>2. /\ i \in 1 .. Len(t.vin) /\ Len(t.vin) \in Nat
      /\ DOMAIN t.vin = 1 .. Len(t.vin) /\ DOMAIN t.vout = 1 .. Len(t.vout)
      /\ Len(t.vout) \in Nat
      /\ \A j \in DOMAIN t.vin : t.vin[j].prevout \in Outpoints
      /\ \A j \in DOMAIN t.vout : t.vout[j] \in Outputs
      /\ t.nVersion \in 1 .. CURRENT_VERSION /\ t.nLockTime \in 0 .. MaxLocktime
  BY SoundFacts DEF Inputs
<1>3. Digest(t, i, f) = [nVersion |-> t.nVersion, ins |-> ins,
                         at |-> IF f.anyone THEN 1 ELSE i,
                         outs |-> outs, nLockTime |-> t.nLockTime]
  <2>1. ~(f.base = "SINGLE" /\ i > Len(t.vout))
    BY <1>1, <1>2 DEF MaySign
  <2> QED
    BY <2>1 DEF Digest
<1>4. ins \in Seq(Outpoints)
  <2>1. <<t.vin[i].prevout>> \in Seq(Outpoints)
    BY <1>2
  <2>2. [j \in 1 .. Len(t.vin) |-> t.vin[j].prevout]
          \in [1 .. Len(t.vin) -> Outpoints]
    BY <1>2
  <2>3. [j \in DOMAIN t.vin |-> t.vin[j].prevout] \in Seq(Outpoints)
    BY <1>2, <2>2, SeqDef
  <2> QED
    BY <2>1, <2>3
<1>5. outs \in Seq(Outputs \cup {Unset})
  <2>1. CASE f.base = "ALL"
    <3>1. t.vout \in [1 .. Len(t.vout) -> Outputs \cup {Unset}]
      BY <1>2, SoundFacts
    <3> QED
      BY <1>2, <2>1, <3>1, SeqDef
  <2>2. CASE f.base = "NONE"
    BY <2>2
  <2>3. CASE f.base = "SINGLE"
    <3>1. i \in Nat /\ t.vout[i] \in Outputs
      BY <1>1, <1>2, <2>3 DEF MaySign
    <3>2. [j \in 1..i |-> IF j = i THEN t.vout[i] ELSE Unset]
            \in [1 .. i -> Outputs \cup {Unset}]
      BY <3>1
    <3> QED
      BY <2>3, <3>1, <3>2, SeqDef
  <2> QED
    BY <1>1, <2>1, <2>2, <2>3
<1> HIDE DEF ins, outs
<1>6. (IF f.anyone THEN 1 ELSE i) \in Nat /\ t.nVersion \in 0 .. CURRENT_VERSION
  BY <1>1, <1>2
<1>7. t.nVersion # 0
  BY <1>1, <1>2
<1> QED
  BY <1>2, <1>3, <1>4, <1>5, <1>6, <1>7 DEF Nothing

(* The script that the registers give for an input.                        *)
Script(o) == CHOOSE s \in Scripts(o) : TRUE

LEMMA ScriptFacts ==
  ASSUME ToolInv, prev # Unset, NEW o
  PROVE  /\ Scripts(o) # {} =>
              Script(o) \subseteq Keys /\ <<o, Script(o)>> \in prev
         /\ \A s : <<o, s>> \in prev /\ ~Mismatch =>
              Scripts(o) # {} /\ Script(o) = s
<1>1. prev \subseteq Outpoints \X SUBSET Keys
  BY DEF ToolInv
<1>2. ASSUME NEW s \in Scripts(o) PROVE s \subseteq Keys /\ <<o, s>> \in prev
  <2>1. PICK p \in prev : p[1] = o /\ p[2] = s
    BY DEF Scripts
  <2>2. p = <<p[1], p[2]>> /\ p[2] \subseteq Keys
    BY <1>1
  <2> QED
    BY <2>1, <2>2
<1>3. Scripts(o) # {} => Script(o) \in Scripts(o)
  BY DEF Script
<1>4. ASSUME NEW s, <<o, s>> \in prev, ~Mismatch
      PROVE  Scripts(o) # {} /\ Script(o) = s
  <2>1. s \in Scripts(o)
    BY <1>4 DEF Scripts
  <2>2. <<o, Script(o)>> \in prev
    BY <1>2, <1>3, <2>1
  <2> QED
    BY <1>4, <2>1, <2>2 DEF Mismatch
<1> QED
  BY <1>2, <1>3, <1>4

LEMMA NewSignaturesFacts ==
  ASSUME ToolInv, NEW i \in DOMAIN tx.vin, NEW f \in Flags, prev # Unset,
         Scripts(tx.vin[i].prevout) # {}
  PROVE  /\ NewSignatures(tx, i, f) \subseteq Signatures
         /\ \A s \in NewSignatures(tx, i, f) :
              /\ s.digest # Nothing /\ Signs(s, tx, i)
              /\ s.key \in Script(tx.vin[i].prevout)
         /\ \A k \in Script(tx.vin[i].prevout) :
              k \in keys /\ MaySign(tx, i, f) =>
                \E s \in NewSignatures(tx, i, f) : s.key = k
<1> DEFINE script == Script(tx.vin[i].prevout)
           new == NewSignatures(tx, i, f)
           d == Digest(tx, i, f)
<1>1. Sound(tx) /\ script \subseteq Keys
  BY ScriptFacts DEF ToolInv
<1>2. new = IF MaySign(tx, i, f)
            THEN {[key |-> k, flags |-> f, digest |-> d] :
                    k \in script \cap keys}
            ELSE {}
  BY DEF NewSignatures, SignSignature, Script
<1>3. MaySign(tx, i, f) =>
        /\ d # Nothing
        /\ d \in [nVersion : 0 .. CURRENT_VERSION, ins : Seq(Outpoints),
                  at : Nat, outs : Seq(Outputs \cup {Unset}),
                  nLockTime : 0 .. MaxLocktime]
  BY <1>1, DigestFacts
<1>4. ASSUME NEW s \in new
      PROVE  /\ s.key \in script /\ s.flags = f /\ s.digest = d
             /\ MaySign(tx, i, f)
             /\ s = [key |-> s.key, flags |-> f, digest |-> d]
  <2> HIDE DEF d, script
  <2> QED
    BY <1>2
<1>5. ASSUME NEW s \in new
      PROVE  s \in Signatures /\ s.digest # Nothing /\ Signs(s, tx, i)
  <2>1. s \in Signatures
    <3> HIDE DEF d, new, script
    <3> QED
      BY <1>1, <1>3, <1>4 DEF Signatures
  <2> QED
    BY <1>3, <1>4, <2>1 DEF Signs
<1>6. ASSUME NEW k \in script, k \in keys, MaySign(tx, i, f)
      PROVE  \E s \in new : s.key = k
  <2>1. [key |-> k, flags |-> f, digest |-> d] \in new
    <3> HIDE DEF d, script
    <3> QED
      BY <1>2, <1>6
  <2> QED
    BY <2>1
<1> QED
  BY <1>4, <1>5, <1>6

(* What signing makes of an input.                                         *)
LEMMA SignInputFacts ==
  ASSUME ToolInv, NEW i \in DOMAIN tx.vin, NEW f \in Flags, prev # Unset
  PROVE  /\ SignInput(tx, i, f) \in Inputs
         /\ SignInput(tx, i, f).prevout = tx.vin[i].prevout
         /\ OfSomething(SignInput(tx, i, f))
         /\ SignInput(tx, i, f).scriptSig =
              IF Scripts(tx.vin[i].prevout) = {} THEN tx.vin[i].scriptSig
              ELSE CombineSignatures(tx, i, Script(tx.vin[i].prevout),
                     NewSignatures(tx, i, f), tx.vin[i].scriptSig)
<1> DEFINE o == tx.vin[i].prevout
           old == tx.vin[i].scriptSig
           new == NewSignatures(tx, i, f)
           sigs == CombineSignatures(tx, i, Script(o), new, old)
<1>1. tx.vin[i] \in Inputs /\ OfSomething(tx.vin[i])
  BY SoundFacts DEF ToolInv, Sound
<1>2. SignInput(tx, i, f) = IF Scripts(o) = {} THEN tx.vin[i]
                            ELSE [prevout |-> o, scriptSig |-> sigs]
  BY <1>1 DEF SignInput, Inputs, Script
<1>3. sigs \subseteq new \cup old
  BY DEF CombineSignatures
<1>4. ASSUME Scripts(o) # {}
      PROVE  sigs \subseteq Signatures /\ \A s \in sigs : s.digest # Nothing
  BY <1>1, <1>3, <1>4, NewSignaturesFacts DEF Inputs, OfSomething
<1> HIDE DEF sigs
<1>5. CASE Scripts(o) = {}
  BY <1>1, <1>2, <1>5
<1>6. CASE Scripts(o) # {}
  BY <1>1, <1>2, <1>4, <1>6 DEF Inputs, OfSomething, sigs
<1> QED
  BY <1>5, <1>6

Signed(f) == [i \in DOMAIN tx.vin |-> SignInput(tx, i, f)]

LEMMA SignedSound ==
  ASSUME ToolInv, NEW f \in Flags, prev # Unset
  PROVE  /\ Sound([tx EXCEPT !.vin = Signed(f)])
         /\ Signed(f) \in Seq(Inputs) /\ Len(Signed(f)) = Len(tx.vin)
         /\ DOMAIN Signed(f) = DOMAIN tx.vin
<1>1. /\ Sound(tx) /\ DOMAIN tx.vin = 1 .. Len(tx.vin) /\ Len(tx.vin) \in Nat
  BY SoundFacts DEF ToolInv
<1>2. \A i \in 1 .. Len(tx.vin) :
        Signed(f)[i] \in Inputs /\ OfSomething(Signed(f)[i])
  BY <1>1, SignInputFacts DEF Signed
<1>3. Signed(f) \in [1 .. Len(tx.vin) -> Inputs]
  BY <1>1, <1>2 DEF Signed
<1>4. Signed(f) \in Seq(Inputs) /\ Len(Signed(f)) = Len(tx.vin)
  BY <1>1, <1>3
<1>5. Sound([tx EXCEPT !.vin = Signed(f)])
  BY <1>1, <1>2, <1>4, InputsSound
<1> QED
  BY <1>1, <1>3, <1>4, <1>5

-----------------------------------------------------------------------------
LEMMA ToolInit == Init => ToolInv
BY BlankSound DEF Init, ToolInv

LEMMA DoneKeeps ==
  ASSUME ToolInv, NEW t, Sound(t), Done(t)
  PROVE  ToolInv'
BY DEF ToolInv, Done

LEMMA ThrowKeeps == ToolInv /\ Throw => ToolInv'
BY DEF ToolInv, Throw, Finish

(* What the commands that delete do, when they do not throw.               *)
LEMMA DeletionFacts ==
  ASSUME ToolInv, NEW n \in -1 .. MaxInputs
  PROVE  /\ MutateTxDelInput(n) =>
              \/ Throw
              \/ /\ n + 1 \in 1 .. Len(tx.vin)
                 /\ Done([tx EXCEPT !.vin = RemoveAt(@, n + 1)])
         /\ MutateTxDelOutput(n) =>
              \/ Throw
              \/ /\ n + 1 \in 1 .. Len(tx.vout)
                 /\ Done([tx EXCEPT !.vout = RemoveAt(@, n + 1)])
<1>1. /\ n \in Int /\ Len(tx.vin) \in Nat /\ Len(tx.vout) \in Nat
  BY SoundFacts, ToolAssumption DEF ToolInv
<1>2. \A len \in Nat : ~(n < 0 \/ n >= len) => n + 1 \in 1 .. len
  BY <1>1
<1> QED
  BY <1>1, <1>2 DEF MutateTxDelInput, MutateTxDelOutput

LEMMA MutateKeeps == ToolInv /\ MutateTx => ToolInv'
<1> SUFFICES ASSUME ToolInv, MutateTx PROVE ToolInv'
  OBVIOUS
<1>0. Sound(tx) /\ tx.vout \in Seq(Outputs)
  BY SoundFacts DEF ToolInv
<1>1. ASSUME NEW n \in Locktimes, MutateTxLocktime(n) PROVE ToolInv'
  <2>1. CASE n < 0 \/ n > MaxLocktime
    BY <1>1, <2>1, ThrowKeeps DEF MutateTxLocktime
  <2>2. CASE ~(n < 0 \/ n > MaxLocktime)
    <3>1. n \in 0 .. MaxLocktime
      BY <2>2, ToolAssumption
    <3> QED
      BY <1>0, <1>1, <2>2, <3>1, NumbersSound, DoneKeeps DEF MutateTxLocktime
  <2> QED
    BY <2>1, <2>2
<1>2. ASSUME NEW n \in Versions, MutateTxVersion(n) PROVE ToolInv'
  <2>1. CASE n < 1 \/ n > CURRENT_VERSION
    BY <1>2, <2>1, ThrowKeeps DEF MutateTxVersion
  <2>2. CASE ~(n < 1 \/ n > CURRENT_VERSION)
    <3>1. n \in 1 .. CURRENT_VERSION
      BY <2>2, ToolAssumption
    <3> QED
      BY <1>0, <1>2, <2>2, <3>1, NumbersSound, DoneKeeps DEF MutateTxVersion
  <2> QED
    BY <2>1, <2>2
<1>3. ASSUME NEW o \in Outpoints, MutateTxAddInput(o) PROVE ToolInv'
  BY <1>0, <1>3, AddedInputSound, DoneKeeps DEF MutateTxAddInput
<1>4. ASSUME NEW o \in Outputs, MutateTxAddOut(o) PROVE ToolInv'
  <2>1. Append(tx.vout, o) \in Seq(Outputs)
    BY <1>0
  <2>2. Sound([tx EXCEPT !.vout = Append(@, o)])
    BY <1>0, <2>1, OutputsSound
  <2> QED
    BY <1>4, <2>2, DoneKeeps DEF MutateTxAddOut
<1>5. ASSUME NEW n \in -1 .. MaxInputs, MutateTxDelInput(n) PROVE ToolInv'
  BY <1>0, <1>5, DeletionFacts, DeletedInputSound, DoneKeeps, ThrowKeeps
<1>6. ASSUME NEW n \in -1 .. MaxInputs, MutateTxDelOutput(n) PROVE ToolInv'
  <2>1. CASE Throw
    BY <2>1, ThrowKeeps
  <2>2. CASE /\ n + 1 \in 1 .. Len(tx.vout)
             /\ Done([tx EXCEPT !.vout = RemoveAt(@, n + 1)])
    <3>1. RemoveAt(tx.vout, n + 1) \in Seq(Outputs)
      BY <1>0, <2>2, RemoveAtFacts
    <3>2. Sound([tx EXCEPT !.vout = RemoveAt(@, n + 1)])
      BY <1>0, <3>1, OutputsSound
    <3> QED
      BY <2>2, <3>2, DoneKeeps
  <2> QED
    BY <1>6, <2>1, <2>2, DeletionFacts
<1>7. ASSUME NEW newKeys, NEW newPrev, newPrev \in PrevTxs \cup {prev},
             RegisterSet(newKeys, newPrev)
      PROVE  ToolInv'
  <2>1. newPrev # prev => newPrev \subseteq Outpoints \X SUBSET Keys
    BY <1>7, ToolAssumption
  <2> QED
    BY <1>7, <2>1 DEF RegisterSet, ToolInv
<1>8. ASSUME NEW f \in Flags, MutateTxSign(f) PROVE ToolInv'
  <2>1. CASE keys = Unset \/ prev = Unset \/ Mismatch
    BY <1>8, <2>1, ThrowKeeps DEF MutateTxSign
  <2>2. CASE ~(keys = Unset \/ prev = Unset \/ Mismatch)
    BY <1>8, <2>2, SignedSound, DoneKeeps DEF MutateTxSign, Signed
  <2> QED
    BY <2>1, <2>2
<1>9. CASE BadCommand
  BY <1>9, ThrowKeeps DEF BadCommand
<1> QED
  BY <1>1, <1>2, <1>3, <1>4, <1>5, <1>6, <1>7, <1>8, <1>9 DEF MutateTx

LEMMA ToolNextKeeps == ToolInv /\ [Next]_vars => ToolInv'
<1> SUFFICES ASSUME ToolInv, [Next]_vars PROVE ToolInv'
  OBVIOUS
<1>1. CASE UNCHANGED vars
  BY <1>1 DEF vars, ToolInv
<1>2. CASE Start
  BY <1>2, BlankSound DEF Start, ToolInv
<1>3. CASE OutputTx
  BY <1>3 DEF OutputTx, Finish, ToolInv
<1>4. CASE Exit
  BY <1>4 DEF Exit, ToolInv
<1> QED
  BY <1>1, <1>2, <1>3, <1>4, MutateKeeps DEF Next

(* Whatever the order of commands and the numbers they ask for, for any    *)
(* number of inputs and outputs, and whoever's output a run takes over:    *)
(* the version and the locktime stay in the ranges that the tool accepts,  *)
(* and no signature covers nothing.                                        *)
THEOREM TransactionAlwaysSound == Spec => []TransactionIsSound
BY ToolInit, ToolInvImplies, ToolNextKeeps, PTL DEF Spec

-----------------------------------------------------------------------------
(* Signatures under the commands of others.  A signature is good as long   *)
(* as the digest is, which tells what has changed.                         *)
LEMMA GoodFacts ==
  ASSUME ToolInv, NEW i \in DOMAIN tx.vin, NEW s \in tx.vin[i].scriptSig,
         Signs(s, tx, i)
  PROVE  /\ s.flags.base \in {"ALL", "NONE", "SINGLE"}
         /\ s.flags.base = "SINGLE" => i <= Len(tx.vout)
<1>1. s \in Signatures /\ i \in Nat /\ Len(tx.vout) \in Nat
  BY SoundFacts DEF ToolInv, Inputs
<1>2. s.digest # Nothing
  BY SoundFacts DEF ToolInv, Sound, OfSomething
<1>3. s.flags \in Flags
  BY <1>1 DEF Signatures
<1>4. s.flags.base = "SINGLE" /\ i > Len(tx.vout) => s.digest = Nothing
  BY DEF Signs, Digest
<1> QED
  BY <1>1, <1>2, <1>3, <1>4, ToolAssumption

(* A digest that does not cover all outputs.                               *)
LEMMA OutputsNotCovered ==
  ASSUME NEW i, NEW f, f.base \in {"NONE", "SINGLE"},
         tx'.vin = tx.vin, tx'.nVersion = tx.nVersion,
         tx'.nLockTime = tx.nLockTime,
         f.base = "SINGLE" => /\ ~(i > Len(tx.vout)) /\ ~(i > Len(tx'.vout))
                              /\ tx'.vout[i] = tx.vout[i]
  PROVE  Digest(tx', i, f) = Digest(tx, i, f)
<1>1. CASE f.base = "NONE"
  BY <1>1 DEF Digest
<1>2. CASE f.base = "SINGLE"
  BY <1>2 DEF Digest
<1> QED
  BY <1>1, <1>2

(* A digest of the one input, wherever it stands.                          *)
LEMMA InputsNotCovered ==
  ASSUME NEW i, NEW j, NEW f, f.anyone,
         tx'.vin[j] = tx.vin[i], tx'.vout = tx.vout,
         tx'.nVersion = tx.nVersion, tx'.nLockTime = tx.nLockTime,
         i = j \/ f.base \in {"ALL", "NONE"}
  PROVE  Digest(tx', j, f) = Digest(tx, i, f)
<1>1. CASE i = j
  BY <1>1 DEF Digest
<1>2. CASE f.base = "ALL"
  BY <1>2 DEF Digest
<1>3. CASE f.base = "NONE"
  BY <1>3 DEF Digest
<1> QED
  BY <1>1, <1>2, <1>3

LEMMA OutputSpoilsNothing ==
  ASSUME ToolInv, NEW o, NEW i \in DOMAIN tx.vin,
         NEW s \in tx.vin[i].scriptSig, Signs(s, tx, i), s.flags.base # "ALL"
  PROVE  tx' = [tx EXCEPT !.vout = Append(@, o)] =>
           s \in tx'.vin[i].scriptSig /\ Signs(s, tx', i)
<1>0. SUFFICES ASSUME tx' = [tx EXCEPT !.vout = Append(@, o)]
               PROVE  s \in tx'.vin[i].scriptSig /\ Signs(s, tx', i)
  OBVIOUS
<1> DEFINE more == Append(tx.vout, o)
<1>1. /\ Sound(tx) /\ tx.vout \in Seq(Outputs) /\ Len(tx.vout) \in Nat
      /\ i \in Nat \ {0}
  BY SoundFacts DEF ToolInv
<1>2. /\ tx'.vin = tx.vin /\ tx'.vout = more
      /\ tx'.nVersion = tx.nVersion /\ tx'.nLockTime = tx.nLockTime
  BY <1>0, <1>1, Rebuilt
<1>3. /\ Len(more) = Len(tx.vout) + 1
      /\ \A j \in 1 .. Len(tx.vout) : more[j] = tx.vout[j]
  BY <1>1
<1> HIDE DEF more
<1>4. s.flags.base \in {"NONE", "SINGLE"}
  BY GoodFacts
<1>5. s.flags.base = "SINGLE" =>
        /\ ~(i > Len(tx.vout)) /\ ~(i > Len(tx'.vout))
        /\ tx'.vout[i] = tx.vout[i]
  BY <1>1, <1>2, <1>3, GoodFacts
<1>6. Digest(tx', i, s.flags) = Digest(tx, i, s.flags)
  BY <1>2, <1>4, <1>5, OutputsNotCovered
<1> QED
  BY <1>2, <1>6 DEF Signs

LEMMA InputSpoilsNothing ==
  ASSUME ToolInv, NEW new, NEW i \in DOMAIN tx.vin,
         NEW s \in tx.vin[i].scriptSig, Signs(s, tx, i), s.flags.anyone
  PROVE  tx' = [tx EXCEPT !.vin = Append(@, new)] =>
           s \in tx'.vin[i].scriptSig /\ Signs(s, tx', i)
<1>0. SUFFICES ASSUME tx' = [tx EXCEPT !.vin = Append(@, new)]
               PROVE  s \in tx'.vin[i].scriptSig /\ Signs(s, tx', i)
  OBVIOUS
<1>1. Sound(tx) /\ tx.vin \in Seq(Inputs) /\ i \in 1 .. Len(tx.vin)
  BY SoundFacts DEF ToolInv
<1>2. /\ tx'.vin = Append(tx.vin, new) /\ tx'.vout = tx.vout
      /\ tx'.nVersion = tx.nVersion /\ tx'.nLockTime = tx.nLockTime
  BY <1>0, <1>1, Rebuilt
<1>3. Append(tx.vin, new)[i] = tx.vin[i]
  BY <1>1
<1>4. Digest(tx', i, s.flags) = Digest(tx, i, s.flags)
  BY <1>2, <1>3, InputsNotCovered
<1> QED
  BY <1>2, <1>3, <1>4 DEF Signs

LEMMA DeletedOutputSpoils ==
  ASSUME ToolInv, NEW n \in -1 .. MaxInputs, MutateTxDelOutput(n),
         phase' = "running",
         NEW i \in DOMAIN tx.vin, NEW s \in tx.vin[i].scriptSig,
         Signs(s, tx, i),
         ~(s.flags.base = "ALL" \/ (s.flags.base = "SINGLE" /\ n < i))
  PROVE  Signs(s, tx', i) /\ s \in tx'.vin[i].scriptSig
<1> DEFINE less == RemoveAt(tx.vout, n + 1)
<1>1. /\ Sound(tx) /\ tx.vout \in Seq(Outputs) /\ Len(tx.vout) \in Nat
      /\ i \in Nat \ {0} /\ n \in Int
  BY SoundFacts, ToolAssumption DEF ToolInv
<1>2. n + 1 \in 1 .. Len(tx.vout) /\ Done([tx EXCEPT !.vout = less])
  BY DeletionFacts DEF Throw, Finish
<1>3. /\ tx'.vin = tx.vin /\ tx'.vout = less
      /\ tx'.nVersion = tx.nVersion /\ tx'.nLockTime = tx.nLockTime
  BY <1>1, <1>2, Rebuilt DEF Done
<1>4. /\ Len(less) = Len(tx.vout) - 1
      /\ \A j \in 1 .. Len(tx.vout) - 1 :
           less[j] = tx.vout[IF j < n + 1 THEN j ELSE j + 1]
  BY <1>1, <1>2, RemoveAtFacts
<1> HIDE DEF less
<1>5. s.flags.base \in {"NONE", "SINGLE"}
  BY GoodFacts
<1>6. s.flags.base = "SINGLE" =>
        /\ ~(i > Len(tx.vout)) /\ ~(i > Len(tx'.vout))
        /\ tx'.vout[i] = tx.vout[i]
  <2> SUFFICES ASSUME s.flags.base = "SINGLE"
               PROVE  /\ ~(i > Len(tx.vout)) /\ ~(i > Len(less))
                      /\ less[i] = tx.vout[i]
    BY <1>3
  <2>1. i <= n /\ i < n + 1 /\ i \in 1 .. Len(tx.vout) - 1
    BY <1>1, <1>2
  <2> QED
    BY <1>1, <1>4, <2>1
<1>7. Digest(tx', i, s.flags) = Digest(tx, i, s.flags)
  BY <1>3, <1>5, <1>6, OutputsNotCovered
<1> QED
  BY <1>3, <1>7 DEF Signs

LEMMA DeletedInputSpoils ==
  ASSUME ToolInv, NEW n \in -1 .. MaxInputs, MutateTxDelInput(n),
         phase' = "running",
         NEW i \in DOMAIN tx.vin, i # n + 1, NEW s \in tx.vin[i].scriptSig,
         Signs(s, tx, i), s.flags.anyone,
         ~(s.flags.base = "SINGLE" /\ i > n)
  PROVE  LET j == IF i <= n THEN i ELSE i - 1
         IN Signs(s, tx', j) /\ s \in tx'.vin[j].scriptSig
<1> DEFINE less == RemoveAt(tx.vin, n + 1)
           j == IF i <= n THEN i ELSE i - 1
<1>1. /\ Sound(tx) /\ tx.vin \in Seq(Inputs) /\ Len(tx.vin) \in Nat
      /\ i \in 1 .. Len(tx.vin) /\ n \in Int
  BY SoundFacts, ToolAssumption DEF ToolInv
<1>2. n + 1 \in 1 .. Len(tx.vin) /\ Done([tx EXCEPT !.vin = less])
  BY DeletionFacts DEF Throw, Finish
<1>3. /\ tx'.vin = less /\ tx'.vout = tx.vout
      /\ tx'.nVersion = tx.nVersion /\ tx'.nLockTime = tx.nLockTime
  BY <1>1, <1>2, Rebuilt DEF Done
<1>4. \A k \in 1 .. Len(tx.vin) - 1 :
        less[k] = tx.vin[IF k < n + 1 THEN k ELSE k + 1]
  BY <1>1, <1>2, RemoveAtFacts
<1>5. /\ j \in 1 .. Len(tx.vin) - 1
      /\ (IF j < n + 1 THEN j ELSE j + 1) = i
      /\ i <= n => i = j
  BY <1>1, <1>2
<1> HIDE DEF less, j
<1>6. less[j] = tx.vin[i]
  BY <1>4, <1>5
<1>7. i = j \/ s.flags.base \in {"ALL", "NONE"}
  BY <1>1, <1>5, GoodFacts
<1>8. Digest(tx', j, s.flags) = Digest(tx, i, s.flags)
  BY <1>3, <1>6, <1>7, InputsNotCovered
<1>9. Signs(s, tx', j) /\ s \in tx'.vin[j].scriptSig
  BY <1>3, <1>6, <1>8 DEF Signs
<1> QED
  BY <1>9 DEF j

(* Only the commands that add make a transaction longer.                   *)
Longer == Len(tx'.vout) > Len(tx.vout) \/ Len(tx'.vin) > Len(tx.vin)

LEMMA LongerByAdding ==
  ASSUME ToolInv, Next, phase = "running", Longer
  PROVE  \/ /\ Len(tx'.vout) > Len(tx.vout)
            /\ \E o \in Outputs : tx' = [tx EXCEPT !.vout = Append(@, o)]
         \/ /\ Len(tx'.vin) > Len(tx.vin)
            /\ \E new : tx' = [tx EXCEPT !.vin = Append(@, new)]
<1> DEFINE Added ==
      \/ /\ Len(tx'.vout) > Len(tx.vout)
         /\ \E o \in Outputs : tx' = [tx EXCEPT !.vout = Append(@, o)]
      \/ /\ Len(tx'.vin) > Len(tx.vin)
         /\ \E new : tx' = [tx EXCEPT !.vin = Append(@, new)]
<1>0. /\ Sound(tx) /\ tx.vin \in Seq(Inputs) /\ tx.vout \in Seq(Outputs)
      /\ Len(tx.vin) \in Nat /\ Len(tx.vout) \in Nat
  BY SoundFacts DEF ToolInv
<1>1. ASSUME Len(tx'.vin) <= Len(tx.vin), Len(tx'.vout) <= Len(tx.vout),
             Len(tx'.vin) \in Nat, Len(tx'.vout) \in Nat
      PROVE  FALSE
  BY <1>0, <1>1 DEF Longer
<1>2. tx' # tx
  BY <1>0, <1>1
<1>3. ASSUME NEW x, tx' = [tx EXCEPT !.nLockTime = x]
                    \/ tx' = [tx EXCEPT !.nVersion = x]
      PROVE  FALSE
  <2>1. tx'.vin = tx.vin /\ tx'.vout = tx.vout
    BY <1>0, <1>3, Rebuilt
  <2> QED
    BY <1>0, <1>1, <2>1
<1>4. ASSUME NEW n, MutateTxLocktime(n) \/ MutateTxVersion(n) PROVE FALSE
  BY <1>2, <1>3, <1>4 DEF MutateTxLocktime, MutateTxVersion, Throw, Done
<1>5. ASSUME NEW o \in Outpoints, MutateTxAddInput(o) PROVE Added
  <2> DEFINE new == [prevout |-> o, scriptSig |-> {}]
  <2>1. tx' = [tx EXCEPT !.vin = Append(@, new)]
    BY <1>5 DEF MutateTxAddInput, Done
  <2>2. tx'.vin = Append(tx.vin, new) /\ tx'.vout = tx.vout
    BY <1>0, <2>1, Rebuilt
  <2>3. Len(Append(tx.vin, new)) = Len(tx.vin) + 1
    BY <1>0
  <2>4. Len(tx'.vin) > Len(tx.vin)
    BY <1>0, <2>2, <2>3
  <2> QED
    BY <2>1, <2>4
<1>6. ASSUME NEW o \in Outputs, MutateTxAddOut(o) PROVE Added
  <2>1. tx' = [tx EXCEPT !.vout = Append(@, o)]
    BY <1>6 DEF MutateTxAddOut, Done
  <2>2. tx'.vout = Append(tx.vout, o)
    BY <1>0, <2>1, Rebuilt
  <2>3. Len(Append(tx.vout, o)) = Len(tx.vout) + 1
    BY <1>0
  <2>4. Len(tx'.vout) > Len(tx.vout)
    BY <1>0, <2>2, <2>3
  <2> QED
    BY <2>1, <2>4
<1>7. ASSUME NEW n \in -1 .. MaxInputs, MutateTxDelInput(n) PROVE FALSE
  <2>1. /\ n + 1 \in 1 .. Len(tx.vin)
        /\ tx' = [tx EXCEPT !.vin = RemoveAt(@, n + 1)]
    BY <1>2, <1>7, DeletionFacts DEF Throw, Done
  <2>2. tx'.vin = RemoveAt(tx.vin, n + 1) /\ tx'.vout = tx.vout
    BY <1>0, <2>1, Rebuilt
  <2>3. Len(RemoveAt(tx.vin, n + 1)) = Len(tx.vin) - 1 /\ Len(tx.vin) >= 1
    BY <1>0, <2>1, RemoveAtFacts
  <2> QED
    BY <1>0, <1>1, <2>2, <2>3
<1>8. ASSUME NEW n \in -1 .. MaxInputs, MutateTxDelOutput(n) PROVE FALSE
  <2>1. /\ n + 1 \in 1 .. Len(tx.vout)
        /\ tx' = [tx EXCEPT !.vout = RemoveAt(@, n + 1)]
    BY <1>2, <1>8, DeletionFacts DEF Throw, Done
  <2>2. tx'.vout = RemoveAt(tx.vout, n + 1) /\ tx'.vin = tx.vin
    BY <1>0, <2>1, Rebuilt
  <2>3. Len(RemoveAt(tx.vout, n + 1)) = Len(tx.vout) - 1 /\ Len(tx.vout) >= 1
    BY <1>0, <2>1, RemoveAtFacts
  <2> QED
    BY <1>0, <1>1, <2>2, <2>3
<1>9. ASSUME NEW f \in Flags, MutateTxSign(f) PROVE FALSE
  <2>1. prev # Unset /\ tx' = [tx EXCEPT !.vin = Signed(f)]
    BY <1>2, <1>9 DEF MutateTxSign, Throw, Done, Signed
  <2>2. tx'.vin = Signed(f) /\ tx'.vout = tx.vout
    BY <1>0, <2>1, Rebuilt
  <2>3. Len(Signed(f)) = Len(tx.vin)
    BY <2>1, SignedSound
  <2> QED
    BY <1>0, <1>1, <2>2, <2>3
<1>10. (\E newKeys, newPrev : RegisterSet(newKeys, newPrev)) \/ BadCommand
         \/ OutputTx => tx' = tx
  BY DEF RegisterSet, BadCommand, Throw, OutputTx
<1> HIDE DEF Added
<1>11. Added
  BY <1>2, <1>4, <1>5, <1>6, <1>7, <1>8, <1>9, <1>10
     DEF Next, MutateTx, Start, Exit
<1> QED
  BY <1>11 DEF Added

LEMMA SigningKeepsDigests ==
  ASSUME ToolInv, NEW f \in Flags, MutateTxSign(f), phase' = "running",
         NEW i \in DOMAIN tx.vin
  PROVE  /\ prev # Unset /\ ~Mismatch
         /\ tx'.vin[i] = SignInput(tx, i, f)
         /\ \A g : Digest(tx', i, g) = Digest(tx, i, g)
<1>1. /\ prev # Unset /\ ~Mismatch /\ Sound(tx)
      /\ tx' = [tx EXCEPT !.vin = Signed(f)]
  BY DEF MutateTxSign, Throw, Finish, Done, Signed, ToolInv
<1>2. /\ tx'.vin = Signed(f) /\ tx'.vout = tx.vout
      /\ tx'.nVersion = tx.nVersion /\ tx'.nLockTime = tx.nLockTime
  BY <1>1, Rebuilt
<1>3. /\ DOMAIN tx'.vin = DOMAIN tx.vin
      /\ \A j \in DOMAIN tx.vin : /\ tx'.vin[j] = SignInput(tx, j, f)
                                   /\ tx'.vin[j].prevout = tx.vin[j].prevout
  BY <1>1, <1>2, SignInputFacts, SignedSound DEF Signed
<1>4. [j \in DOMAIN tx'.vin |-> tx'.vin[j].prevout]
        = [j \in DOMAIN tx.vin |-> tx.vin[j].prevout]
  BY <1>3
<1> QED
  BY <1>1, <1>2, <1>3, <1>4 DEF Digest

(* A signing, for one key of the script of one input.                      *)
LEMMA SigningStep ==
  ASSUME ToolInv, NEW f \in Flags, MutateTxSign(f), phase' = "running",
         NEW i \in DOMAIN tx.vin, NEW k \in Owner[tx.vin[i].prevout]
  PROVE  LET o == tx.vin[i].prevout
         IN /\ \/ ~Verifies(tx, i, k)
               \/ Verifies(tx', i, k)
               \/ \E p \in prev : p[1] = o /\ p[2] # Owner[p[1]]
            /\ \/ Verifies(tx', i, k)
               \/ k \notin keys
               \/ <<o, Owner[o]>> \notin prev
               \/ f.base = "SINGLE" /\ i > Len(tx.vout)
<1> DEFINE o == tx.vin[i].prevout
           script == Script(o)
           new == NewSignatures(tx, i, f)
           old == tx.vin[i].scriptSig
           sigs == tx'.vin[i].scriptSig
<1>1. /\ prev # Unset /\ ~Mismatch
      /\ \A g : Digest(tx', i, g) = Digest(tx, i, g)
      /\ sigs = IF Scripts(o) = {} THEN old
                ELSE CombineSignatures(tx, i, script, new, old)
  BY SigningKeepsDigests, SignInputFacts
<1>2. \A s : Signs(s, tx', i) <=> Signs(s, tx, i)
  BY <1>1 DEF Signs
<1>3. Scripts(o) # {} =>
        /\ <<o, script>> \in prev
        /\ \A s \in new : Signs(s, tx, i) /\ s.key \in script
        /\ \A m \in script : m \in keys /\ MaySign(tx, i, f) =>
             \E s \in new : s.key = m
        /\ new \subseteq sigs
  BY <1>1, ScriptFacts, NewSignaturesFacts DEF CombineSignatures
<1>4. <<o, Owner[o]>> \in prev => Scripts(o) # {} /\ script = Owner[o]
  BY <1>1, ScriptFacts
<1>5. Verifies(tx', i, k) <=> \E s \in sigs : s.key = k /\ Signs(s, tx, i)
  BY <1>2 DEF Verifies
<1>6. Verifies(tx, i, k) <=> \E s \in old : s.key = k /\ Signs(s, tx, i)
  BY DEF Verifies
<1> HIDE DEF new, script, old, sigs
<1>7. ASSUME k \in keys, <<o, Owner[o]>> \in prev, MaySign(tx, i, f)
      PROVE  Verifies(tx', i, k)
  BY <1>3, <1>4, <1>5, <1>7
<1>8. MaySign(tx, i, f) \/ (f.base = "SINGLE" /\ i > Len(tx.vout))
  BY SoundFacts DEF MaySign, ToolInv
<1>9. ASSUME Verifies(tx, i, k), Scripts(o) # {}, script = Owner[o]
      PROVE  Verifies(tx', i, k)
  <2>1. PICK s \in old : s.key = k /\ Signs(s, tx, i)
    BY <1>6, <1>9
  <2>2. CASE \E n \in new : n.key = k
    BY <1>3, <1>5, <1>9, <2>2
  <2>3. CASE ~\E n \in new : n.key = k
    <3>1. (\E m \in script : script = {m}) => new = {}
      BY <1>3, <1>9, <2>3
    <3>2. s \in sigs
      BY <1>1, <1>9, <2>1, <2>3, <3>1 DEF CombineSignatures
    <3> QED
      BY <1>5, <2>1, <3>2
  <2> QED
    BY <2>2, <2>3
<1>10. ASSUME Scripts(o) = {} PROVE Verifies(tx, i, k) => Verifies(tx', i, k)
  BY <1>1, <1>5, <1>6, <1>10
<1>11. ASSUME Scripts(o) # {}, script # Owner[o]
       PROVE  \E p \in prev : p[1] = o /\ p[2] # Owner[p[1]]
  BY <1>3, <1>11
<1> HIDE DEF o
<1>12. \/ ~Verifies(tx, i, k)
       \/ Verifies(tx', i, k)
       \/ \E p \in prev : p[1] = o /\ p[2] # Owner[p[1]]
  BY <1>9, <1>10, <1>11
<1>13. \/ Verifies(tx', i, k)
       \/ k \notin keys
       \/ <<o, Owner[o]>> \notin prev
       \/ f.base = "SINGLE" /\ i > Len(tx.vout)
  BY <1>7, <1>8
<1> QED
  BY <1>12, <1>13 DEF o

(* Commands and parties may come in turns, in any order: a signature is    *)
(* spoiled only by a command that changes what its hash type covers, and   *)
(* never by a signing, which signs all that its registers are enough for.  *)
THEOREM SignaturesAlwaysLast == Spec => SignaturesLast
<1>1. ASSUME ToolInv, Next, NEW i \in DOMAIN tx.vin, phase = "running",
             NEW s \in tx.vin[i].scriptSig, Signs(s, tx, i)
      PROVE  \/ Len(tx'.vout) <= Len(tx.vout) /\ Len(tx'.vin) <= Len(tx.vin)
             \/ s \in tx'.vin[i].scriptSig /\ Signs(s, tx', i)
             \/ Len(tx'.vout) > Len(tx.vout) /\ s.flags.base = "ALL"
             \/ Len(tx'.vin) > Len(tx.vin) /\ ~s.flags.anyone
  <2>1. CASE Longer
    BY <1>1, <2>1, LongerByAdding, OutputSpoilsNothing, InputSpoilsNothing
  <2>2. CASE ~Longer
    <3>1. ToolInv'
      BY <1>1, ToolNextKeeps
    <3>2. /\ Len(tx'.vout) \in Nat /\ Len(tx'.vin) \in Nat
          /\ Len(tx.vout) \in Nat /\ Len(tx.vin) \in Nat
      BY <1>1, <3>1, SoundFacts DEF ToolInv
    <3> QED
      BY <2>2, <3>2 DEF Longer
  <2> QED
    BY <2>1, <2>2
<1>2. ToolInv /\ Next => AddsHarmlessly
  BY <1>1 DEF AddsHarmlessly
<1>3. ToolInv => DeletesHarmlessly
  BY DeletedOutputSpoils, DeletedInputSpoils DEF DeletesHarmlessly
<1>4. ToolInv => SignsHarmlessly
  BY SigningStep DEF SignsHarmlessly
<1>5. ToolInv => SignsAll
  BY SigningStep DEF SignsAll
<1> QED
  BY ToolInit, ToolNextKeeps, <1>2, <1>3, <1>4, <1>5, PTL
     DEF Spec, SignaturesLast
=============================================================================
