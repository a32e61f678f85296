--------------------------- MODULE ConsensusProofs ---------------------------
(***************************************************************************)
(* For any number of threads and any signatures: the cache answers what a  *)
(* verifier without a cache answers, and keeps its limit.  For any buffers *)
(* and lengths: the library verifies only scripts of whole transactions.   *)
(* For any tree of blocks and any commands: the best chain is active, and  *)
(* the queries of rpcclient.cpp describe it.                               *)
(***************************************************************************)
EXTENDS ChainRpc, SignatureCache, ConsensusLib, SumTheorems, SequenceTheorems,
        FiniteSetTheorems, TLAPS

(* What is appended after a prefix of a known length can be told apart.    *)
LEMMA AppendCancel ==
  ASSUME NEW a \in Seq(Nat), NEW b \in Seq(Nat),
         NEW c \in Seq(Nat), NEW d \in Seq(Nat),
         Len(a) = Len(c), a \o b = c \o d
  PROVE  a = c /\ b = d
<1>1. /\ Len(a) \in Nat /\ Len(b) \in Nat /\ Len(d) \in Nat
      /\ Len(a \o b) = Len(a) + Len(b) /\ Len(c \o d) = Len(c) + Len(d)
  BY LenProperties, ConcatProperties
<1>2. Len(b) = Len(d)
  BY <1>1
<1>3. ASSUME NEW i \in 1..Len(a) PROVE a[i] = c[i]
  <2>1. (a \o b)[i] = a[i] /\ (c \o d)[i] = c[i]
    BY <1>1, ConcatProperties
  <2> QED
    BY <2>1
<1>4. ASSUME NEW i \in 1..Len(b) PROVE b[i] = d[i]
  <2> DEFINE j == Len(a) + i
  <2>1. j \in 1 .. Len(a) + Len(b) /\ ~(j <= Len(a)) /\ j - Len(a) = i
    BY <1>1
  <2> HIDE DEF j
  <2>2. (a \o b)[j] = IF j <= Len(a) THEN a[j] ELSE b[j - Len(a)]
    BY <1>1, <2>1, ConcatProperties
  <2>3. (c \o d)[j] = IF j <= Len(c) THEN c[j] ELSE d[j - Len(c)]
    BY <1>1, <1>2, <2>1, ConcatProperties
  <2> QED
    BY <2>1, <2>2, <2>3
<1> QED
  BY <1>2, <1>3, <1>4, SeqEqual

LEMMA ThreeParts ==
  ASSUME NEW a \in Seq(Nat), NEW b \in Seq(Nat), NEW c \in Seq(Nat)
  PROVE  a \o b \o c = a \o (b \o c) /\ b \o c \in Seq(Nat)
<1>1. a \o b \o c = a \o (b \o c)
  BY ConcatAssociative
<1> QED
  BY <1>1, ConcatProperties

(* Without lengths between its parts the concatenation still has one       *)
(* reading: the hash has one length, and the key announces its own.        *)
LEMMA EntriesDiffer ==
  ASSUME NEW r \in Sigs, NEW s \in Sigs, ComputeEntry(r) = ComputeEntry(s)
  PROVE  r = s
<1>1. /\ r \in [hash : Seq(Nat), pubkey : Seq(Nat), sig : Seq(Nat)]
      /\ s \in [hash : Seq(Nat), pubkey : Seq(Nat), sig : Seq(Nat)]
      /\ Len(r.hash) = Len(s.hash)
      /\ r.pubkey # << >> /\ s.pubkey # << >>
      /\ r.pubkey[1] = s.pubkey[1] => Len(r.pubkey) = Len(s.pubkey)
  BY CacheAssumption
<1> DEFINE rest(x) == x.pubkey \o x.sig
<1>2. ASSUME NEW x \in Sigs
      PROVE  ComputeEntry(x) = x.hash \o rest(x) /\ rest(x) \in Seq(Nat)
  <2>1. PICK a \in Seq(Nat), b \in Seq(Nat), c \in Seq(Nat) :
          a = x.hash /\ b = x.pubkey /\ c = x.sig
    BY CacheAssumption
  <2>2. a \o b \o c = a \o (b \o c) /\ b \o c \in Seq(Nat)
    BY ThreeParts
  <2> QED
    BY <2>1, <2>2 DEF ComputeEntry
<1> HIDE DEF rest
<1>3. r.hash = s.hash /\ rest(r) = rest(s)
  BY <1>1, <1>2, AppendCancel
<1>4. r.pubkey[1] = s.pubkey[1]
  <2>1. Len(r.pubkey) \in Nat \ {0} /\ Len(s.pubkey) \in Nat \ {0}
    BY <1>1, EmptySeq, LenProperties
  <2>2. rest(r)[1] = r.pubkey[1] /\ rest(s)[1] = s.pubkey[1]
    BY <1>1, <2>1, ConcatProperties DEF rest
  <2> QED
    BY <1>3, <2>2
<1>5. r.pubkey = s.pubkey /\ r.sig = s.sig
  BY <1>1, <1>3, <1>4, AppendCancel DEF rest
<1> QED
  BY <1>1, <1>3, <1>5

(* An entry of the cache makes its caller's signature valid.               *)
LEMMA HitIsValid ==
  ASSUME EntriesAreValid, NEW s \in Sigs, ComputeEntry(s) \in setValid
  PROVE  s \in ValidSigs
BY EntriesDiffer, CacheAssumption DEF EntriesAreValid
-----------------------------------------------------------------------------
(* The variables have their types.                                         *)
LEMMA TypeInit == Init => TypeOK
BY CacheAssumption DEF Init, TypeOK

LEMMA TypeStep == TypeOK /\ [Next]_vars => TypeOK'
<1> SUFFICES ASSUME TypeOK, [Next]_vars PROVE TypeOK'
  OBVIOUS
<1> USE DEF TypeOK
<1>1. ASSUME NEW t \in Threads, VerifySignature(t) PROVE TypeOK'
  BY <1>1 DEF VerifySignature
<1>2. ASSUME NEW t \in Threads, Get(t) PROVE TypeOK'
  BY <1>2 DEF Get, Stay, Return, Goto
<1>3. ASSUME NEW t \in Threads, Erase(t) PROVE TypeOK'
  BY <1>3 DEF Erase, Return, Goto
<1>4. ASSUME NEW t \in Threads, Verify(t) PROVE TypeOK'
  <2> DEFINE b == arg[t] \in ValidSigs
  <2>1. b \in BOOLEAN
    OBVIOUS
  <2>2. \/ Stay(t, "set")
        \/ Return(t, b) /\ UNCHANGED setValid
    BY <1>4 DEF Verify
  <2> HIDE DEF b
  <2> QED
    BY <2>1, <2>2 DEF Stay, Return, Goto
<1>5. ASSUME NEW t \in Threads, Set(t) PROVE TypeOK'
  BY <1>5 DEF Set, Return, Goto, Entry
<1>6. CASE UNCHANGED vars
  BY <1>6 DEF vars
<1> QED
  BY <1>1, <1>2, <1>3, <1>4, <1>5, <1>6 DEF Next, Step

(* The state of the cache and of its callers is well typed.                *)
THEOREM TypeCorrect == Spec => []TypeOK
BY TypeInit, TypeStep, PTL DEF Spec
-----------------------------------------------------------------------------
(* What a thread has found out before it stores, erases or is done.        *)
ThreadSound(t) ==
  /\ pc[t] \in {"erase", "set"} => arg[t] \in ValidSigs
  /\ pc[t] = "idle" /\ ret[t] # NoAnswer => ret[t] = (arg[t] \in ValidSigs)

IInv == TypeOK /\ EntriesAreValid /\ \A t \in Threads : ThreadSound(t)

LEMMA IInvInit == Init => IInv
BY TypeInit DEF Init, IInv, EntriesAreValid, ThreadSound

LEMMA IInvStep == IInv /\ [Next]_vars => IInv'
<1> SUFFICES ASSUME IInv, [Next]_vars PROVE IInv'
  OBVIOUS
<1>0. TypeOK' /\ TypeOK /\ EntriesAreValid
  BY TypeStep DEF IInv
<1> USE DEF TypeOK, ThreadSound
<1>1. ASSUME NEW t \in Threads, VerifySignature(t) PROVE IInv'
  BY <1>0, <1>1 DEF VerifySignature, IInv, EntriesAreValid
<1>2. ASSUME NEW t \in Threads, Get(t) PROVE IInv'
  <2>1. Entry(t) \in setValid => arg[t] \in ValidSigs
    BY <1>0, HitIsValid DEF Entry
  <2>2. EntriesAreValid'
    BY <1>0, <1>2 DEF Get, Stay, Return, Goto, EntriesAreValid
  <2>3. ASSUME NEW u \in Threads PROVE ThreadSound(u)'
    BY <1>0, <1>2, <2>1, <2>3 DEF Get, Stay, Return, Goto, IInv
  <2> QED
    BY <1>0, <2>2, <2>3 DEF IInv
<1>3. ASSUME NEW t \in Threads, Erase(t) PROVE IInv'
  <2>1. EntriesAreValid'
    BY <1>0, <1>3 DEF Erase, EntriesAreValid
  <2>2. ASSUME NEW u \in Threads PROVE ThreadSound(u)'
    BY <1>0, <1>3, <2>2 DEF Erase, Return, Goto, IInv
  <2> QED
    BY <1>0, <2>1, <2>2 DEF IInv
<1>4. ASSUME NEW t \in Threads, Verify(t) PROVE IInv'
  <2>1. EntriesAreValid'
    BY <1>0, <1>4 DEF Verify, Stay, Return, Goto, EntriesAreValid
  <2>2. ASSUME NEW u \in Threads PROVE ThreadSound(u)'
    BY <1>0, <1>4, <2>2 DEF Verify, Stay, Return, Goto, IInv
  <2> QED
    BY <1>0, <2>1, <2>2 DEF IInv
<1>5. ASSUME NEW t \in Threads, Set(t) PROVE IInv'
  <2>1. arg[t] \in ValidSigs
    BY <1>5 DEF Set, IInv
  <2>2. EntriesAreValid'
    BY <1>0, <1>5, <2>1 DEF Set, Entry, EntriesAreValid
  <2>3. ASSUME NEW u \in Threads PROVE ThreadSound(u)'
    BY <1>0, <1>5, <2>1, <2>3 DEF Set, Return, Goto, IInv
  <2> QED
    BY <1>0, <2>2, <2>3 DEF IInv
<1>6. CASE UNCHANGED vars
  BY <1>0, <1>6 DEF vars, IInv, EntriesAreValid
<1> QED
  BY <1>1, <1>2, <1>3, <1>4, <1>5, <1>6 DEF Next, Step

(* Only valid signatures ever have an entry.                               *)
THEOREM EntriesStayValid == Spec => []EntriesAreValid
<1>1. IInv => EntriesAreValid
  BY DEF IInv
<1> QED
  BY <1>1, IInvInit, IInvStep, PTL DEF Spec
-----------------------------------------------------------------------------
(* Every step is the verifier's question, its answer, or hidden.           *)
Calls == [t \in Threads |->
            IF pc[t] # "idle" THEN Asking(arg[t])
            ELSE IF ret[t] = NoAnswer THEN NoCall
            ELSE Told(arg[t], ret[t])]

LEMMA HiddenStep ==
  ASSUME TypeOK, NEW t \in Threads, NEW label \in {"erase", "verify", "set"},
         pc[t] # "idle", Stay(t, label)
  PROVE  Calls' = Calls
BY DEF TypeOK, Calls, Stay, Goto

LEMMA AnswerStep ==
  ASSUME TypeOK, NEW t \in Threads, pc[t] # "idle",
         Return(t, arg[t] \in ValidSigs)
  PROVE  V!Answer(t)
<1>1. Calls[t] = Asking(arg[t]) /\ arg[t] \in Sigs
  BY DEF TypeOK, Calls
<1>2. Calls' = [Calls EXCEPT ![t] = Told(arg[t], arg[t] \in ValidSigs)]
  <2> DEFINE b == arg[t] \in ValidSigs
  <2>1. b \in BOOLEAN
    OBVIOUS
  <2>2. b # NoAnswer
    BY <2>1, CacheAssumption
  <2>3. /\ pc' = [pc EXCEPT ![t] = "idle"] /\ arg' = arg
        /\ ret' = [ret EXCEPT ![t] = b]
    BY DEF Return, Goto
  <2> HIDE DEF b
  <2>4. Calls' = [Calls EXCEPT ![t] = Told(arg[t], b)]
    BY <2>2, <2>3 DEF TypeOK, Calls
  <2> QED
    BY <2>4 DEF b
<1> QED
  BY <1>1, <1>2 DEF V!Answer, Calls, V!Asking, V!Told, Asking, Told, NoCall

LEMMA QuestionStep ==
  ASSUME TypeOK, NEW t \in Threads, VerifySignature(t)
  PROVE  V!Ask(t)
<1>1. PICK s \in Sigs, st \in BOOLEAN :
        /\ pc[t] = "idle" /\ pc' = [pc EXCEPT ![t] = "get"]
        /\ arg' = [arg EXCEPT ![t] = s] /\ UNCHANGED ret
  BY DEF VerifySignature
<1>2. Calls[t].state # "asking"
  BY <1>1 DEF Calls, NoCall, Told
<1>3. Calls' = [Calls EXCEPT ![t] = Asking(s)]
  BY <1>1 DEF TypeOK, Calls
<1> QED
  BY <1>2, <1>3 DEF V!Ask, Calls, V!Asking, Asking, Told, NoCall

(* Whatever other threads store, erase and evict in between, a call is     *)
(* answered by whether its signature is valid: the cache implements the    *)
(* verifier without one.                                                   *)
THEOREM AnswersAreTrue == Spec => V!Safety
<1>1. Init => V!Init
  BY DEF Init, V!Init, NoCall, V!NoCall
<1>2. IInv /\ [Next]_vars => [V!Next]_Calls
  <2> SUFFICES ASSUME IInv, [Next]_vars PROVE V!Next \/ Calls' = Calls
    OBVIOUS
  <2>0. TypeOK /\ EntriesAreValid
    BY DEF IInv
  <2>1. ASSUME NEW t \in Threads, VerifySignature(t) PROVE V!Next
    BY <2>0, <2>1, QuestionStep DEF V!Next
  <2>2. ASSUME NEW t \in Threads, Get(t) PROVE V!Next \/ Calls' = Calls
    <3>1. Entry(t) \in setValid => (arg[t] \in ValidSigs) = TRUE
      BY <2>0, HitIsValid DEF Entry, TypeOK
    <3>2. CASE Entry(t) \in setValid /\ store[t]
      <4>1. Return(t, arg[t] \in ValidSigs) /\ pc[t] # "idle"
        BY <2>2, <3>1, <3>2 DEF Get
      <4> QED
        BY <2>0, <4>1, AnswerStep DEF V!Next
    <3>3. CASE ~(Entry(t) \in setValid /\ store[t])
      BY <2>0, <2>2, <3>3, HiddenStep DEF Get
    <3> QED
      BY <3>2, <3>3
  <2>3. ASSUME NEW t \in Threads, Erase(t) \/ Set(t) PROVE V!Next
    <3>1. pc[t] # "idle" /\ (arg[t] \in ValidSigs) = TRUE /\ Return(t, TRUE)
      BY <2>3 DEF Erase, Set, IInv, ThreadSound
    <3>2. Return(t, arg[t] \in ValidSigs)
      BY <3>1
    <3> QED
      BY <2>0, <3>1, <3>2, AnswerStep DEF V!Next
  <2>4. ASSUME NEW t \in Threads, Verify(t) PROVE V!Next \/ Calls' = Calls
    <3>1. CASE arg[t] \in ValidSigs /\ store[t]
      BY <2>0, <2>4, <3>1, HiddenStep DEF Verify
    <3>2. CASE ~(arg[t] \in ValidSigs /\ store[t])
      BY <2>0, <2>4, <3>2, AnswerStep DEF Verify, V!Next
    <3> QED
      BY <3>1, <3>2
  <2>5. CASE UNCHANGED vars
    BY <2>5 DEF vars, Calls
  <2> QED
    BY <2>1, <2>2, <2>3, <2>4, <2>5 DEF Next, Step
<1> QED
  BY <1>1, <1>2, IInvInit, IInvStep, PTL DEF Spec, V!Safety, Calls, Asking,
     Told, NoCall
-----------------------------------------------------------------------------
(* The size of the cache.                                                  *)
SizeInv == TypeOK /\ IsFiniteSet(setValid) /\ SizeWithinLimit

LEMMA LimitIsNatural == TypeOK => nMaxCacheSize \in Nat
<1> SUFFICES ASSUME TypeOK PROVE nMaxCacheSize \in Nat
  OBVIOUS
<1>1. maxsigcachesize \in Int /\ Mebi \in Int /\ SizeT \in Nat \ {0}
  BY CacheAssumption DEF TypeOK
<1> DEFINE product == maxsigcachesize * Mebi
<1>2. product \in Int
  BY <1>1
<1> HIDE DEF product
<1>3. product % SizeT \in Nat
  BY <1>1, <1>2
<1> QED
  BY <1>3 DEF nMaxCacheSize, product

LEMMA SizeStep == SizeInv /\ [Next]_vars => SizeInv'
<1> SUFFICES ASSUME SizeInv, [Next]_vars PROVE SizeInv'
  OBVIOUS
<1>0. /\ TypeOK' /\ TypeOK /\ IsFiniteSet(setValid) /\ SizeWithinLimit
      /\ nMaxCacheSize \in Nat
  BY TypeStep, LimitIsNatural DEF SizeInv
<1>1. nMaxCacheSize' = nMaxCacheSize
  BY DEF Next, Step, VerifySignature, Get, Erase, Verify, Set, Stay, Return,
         Goto, vars, nMaxCacheSize
<1>2. ASSUME setValid' = setValid PROVE SizeInv'
  BY <1>0, <1>1, <1>2 DEF SizeInv, SizeWithinLimit
<1>3. ASSUME NEW t \in Threads, Erase(t) PROVE SizeInv'
  <2>1. setValid' \subseteq setValid
    BY <1>3 DEF Erase
  <2>2. /\ IsFiniteSet(setValid') /\ Cardinality(setValid') \in Nat
        /\ Cardinality(setValid) \in Nat
        /\ Cardinality(setValid') <= Cardinality(setValid)
    BY <1>0, <2>1, FS_Subset, FS_CardinalityType
  <2> QED
    BY <1>0, <1>1, <2>2 DEF SizeInv, SizeWithinLimit
<1>4. ASSUME NEW t \in Threads, Set(t) PROVE SizeInv'
  <2>1. CASE nMaxCacheSize = 0
    BY <1>0, <1>2, <1>4, <2>1 DEF Set
  <2>2. CASE nMaxCacheSize # 0
    <3>1. PICK kept \in SUBSET setValid :
            /\ Cardinality(kept) = Smaller(Cardinality(setValid), nMaxCacheSize)
            /\ setValid' = kept \cup {Entry(t)}
      BY <1>0, <1>4, <2>2 DEF Set
    <3>2. IsFiniteSet(kept) /\ Cardinality(kept) \in Nat
          /\ Cardinality(setValid) \in Nat
      BY <1>0, FS_Subset, FS_CardinalityType
    <3>3. Cardinality(kept) <= nMaxCacheSize
      BY <1>0, <3>1, <3>2 DEF Smaller
    <3>4. /\ IsFiniteSet(setValid')
          /\ Cardinality(setValid') = Cardinality(kept)
               \/ Cardinality(setValid') = Cardinality(kept) + 1
      BY <3>1, <3>2, FS_AddElement
    <3> QED
      BY <1>0, <1>1, <2>2, <3>2, <3>3, <3>4 DEF SizeInv, SizeWithinLimit
  <2> QED
    BY <2>1, <2>2
<1>5. \/ setValid' = setValid
      \/ \E t \in Threads : Erase(t) \/ Set(t)
  BY DEF Next, Step, VerifySignature, Get, Verify, Stay, vars
<1> QED
  BY <1>2, <1>3, <1>4, <1>5

(* The cache never has more than one entry over its limit, and none if the *)
(* limit is zero.                                                          *)
THEOREM SizeStaysWithinLimit == Spec => []SizeWithinLimit
<1>1. Init => SizeInv
  <2> SUFFICES ASSUME Init PROVE SizeInv
    OBVIOUS
  <2>1. TypeOK /\ nMaxCacheSize \in Nat /\ setValid = {}
    BY TypeInit, LimitIsNatural DEF Init
  <2> QED
    BY <2>1, FS_EmptySet DEF SizeInv, SizeWithinLimit
<1>2. SizeInv => SizeWithinLimit
  BY DEF SizeInv
<1> QED
  BY <1>1, <1>2, SizeStep, PTL DEF Spec
-----------------------------------------------------------------------------
(* Whatever a caller passes, the answer that a script is good, and the     *)
(* code that says nothing went wrong, are about one input of a transaction *)
(* that is the whole buffer: no check can be passed by one field and       *)
(* spoiled by a later one.                                                 *)
THEOREM WholeBuffersOnly ==
  LibInit /\ [][Verify_script]_libVars => []OnlyWholeBuffersVerify
<1>1. LibInit => OnlyWholeBuffersVerify
  BY NoErrorAssumption DEF LibInit, OnlyWholeBuffersVerify
<1>2. OnlyWholeBuffersVerify /\ [Verify_script]_libVars
        => OnlyWholeBuffersVerify'
  <2>1. CASE UNCHANGED libVars
    BY <2>1 DEF libVars, OnlyWholeBuffersVerify
  <2>2. ASSUME NEW tx \in Buffers, NEW len \in TxToLens, NEW nIn \in Indices,
               NEW hasErr \in BOOLEAN, NEW txTo \in {"NULL", "data"},
               asked' = [tx |-> tx, txTo |-> txTo, len |-> len,
                         nIn |-> nIn, hasErr |-> hasErr],
               result' = 1 \/ err' = "OK" => Check(tx, txTo, len, nIn) = "OK"
        PROVE  OnlyWholeBuffersVerify'
    <3>1. Check(tx, txTo, len, nIn) = "OK" =>
            ~(nIn >= tx.vin) /\ GetSerializeSize(tx) = len
      BY DEF Check
    <3>2. nIn \in Int /\ tx.vin \in Int
      BY BufferAssumption
    <3>3. Check(tx, txTo, len, nIn) = "OK" =>
            nIn < tx.vin /\ len = GetSerializeSize(tx)
      BY <3>1, <3>2
    <3> QED
      BY <2>2, <3>3 DEF OnlyWholeBuffersVerify
  <2>3. Verify_script =>
          \E tx \in Buffers, len \in TxToLens, nIn \in Indices,
             hasErr \in BOOLEAN, txTo \in {"NULL", "data"} :
            /\ asked' = [tx |-> tx, txTo |-> txTo, len |-> len, nIn |-> nIn,
                          hasErr |-> hasErr]
            /\ result' = 1 \/ err' = "OK" => Check(tx, txTo, len, nIn) = "OK"
    BY NoErrorAssumption DEF Verify_script, set_error
  <2> QED
    BY <2>1, <2>2, <2>3
<1> QED
  BY <1>1, <1>2, PTL

-----------------------------------------------------------------------------
(* The tree.  The chain of a block is the least set that has the block and *)
(* whatever comes before a block that it has.                              *)
Closed(S) == \A x \in S \ {Genesis} : Prev[x] \in S

LeastChain(b) ==
  {a \in Blocks :
     \A S \in SUBSET Blocks : b \in S /\ Closed(S) => a \in S}

LEMMA LeastChainFacts ==
  ASSUME NEW b \in Blocks
  PROVE  /\ b \in LeastChain(b) /\ LeastChain(b) \subseteq Blocks
         /\ Closed(LeastChain(b))
         /\ \A a \in LeastChain(b) : LeastChain(a) \subseteq LeastChain(b)
         /\ b = Genesis => LeastChain(b) = {b}
         /\ b # Genesis => LeastChain(b) = {b} \cup LeastChain(Prev[b])
<1>1. b \in LeastChain(b) /\ LeastChain(b) \subseteq Blocks
  BY DEF LeastChain
<1>2. Closed(LeastChain(b))
  BY TreeAssumption DEF LeastChain, Closed
<1>3. \A a \in LeastChain(b) : LeastChain(a) \subseteq LeastChain(b)
  BY DEF LeastChain
<1>4. ASSUME b = Genesis PROVE LeastChain(b) = {b}
  <2>1. {b} \in SUBSET Blocks /\ Closed({b})
    BY <1>4 DEF Closed
  <2> QED
    BY <1>1, <2>1 DEF LeastChain
<1>5. ASSUME b # Genesis PROVE LeastChain(b) = {b} \cup LeastChain(Prev[b])
  <2> DEFINE S == {b} \cup LeastChain(Prev[b])
  <2>1. Prev[b] \in Blocks
    BY <1>5, TreeAssumption
  <2>2. S \in SUBSET Blocks
    BY DEF LeastChain
  <2>3. Closed(S)
    <3>1. Prev[b] \in LeastChain(Prev[b]) /\ Closed(LeastChain(Prev[b]))
      BY <2>1, TreeAssumption DEF LeastChain, Closed
    <3> QED
      BY <3>1 DEF Closed
  <2>4. LeastChain(b) \subseteq S
    BY <2>2, <2>3 DEF LeastChain
  <2>5. Prev[b] \in LeastChain(b)
    BY <1>1, <1>2, <1>5 DEF Closed
  <2> QED
    BY <1>1, <1>3, <2>4, <2>5
<1> QED
  BY <1>1, <1>2, <1>3, <1>4, <1>5

LEMMA BranchEquation ==
  \A b \in Blocks : Branch[b] = IF b = Genesis THEN {b}
                                ELSE {b} \cup Branch[Prev[b]]
<1> DEFINE IsBranch(g) ==
             g = [b \in Blocks |-> IF b = Genesis THEN {b}
                                   ELSE {b} \cup g[Prev[b]]]
           least == [b \in Blocks |-> LeastChain(b)]
<1>1. IsBranch(least)
  BY LeastChainFacts, TreeAssumption
<1>2. Branch = CHOOSE g : IsBranch(g)
  BY DEF Branch
<1> HIDE DEF least
<1>3. IsBranch(Branch)
  BY <1>1, <1>2
<1> QED
  BY <1>3

(* Among some blocks there is one with the least work, a lowest and a      *)
(* highest one.                                                            *)
LEMMA LeastOf ==
  ASSUME NEW B, B \subseteq Blocks, B # {},
         NEW f, \A b \in B : f[b] \in Int
  PROVE  /\ \E b \in B : \A c \in B : f[b] <= f[c]
         /\ \E b \in B : \A c \in B : f[b] >= f[c]
<1> DEFINE W == {f[b] : b \in B}
           g == [b \in B |-> f[b]]
<1>1. g \in Surjection(B, W)
  BY DEF Surjection
<1>2. IsFiniteSet(B)
  BY FS_Subset, TreeAssumption
<1> HIDE DEF g
<1>3. IsFiniteSet(W)
  BY <1>1, <1>2, FS_Surjection
<1>4. W # {} /\ \A w \in W : w \in Int
  OBVIOUS
<1>5. /\ \E w \in W : \A v \in W : w <= v
      /\ \E w \in W : \A v \in W : w >= v
  <2> HIDE DEF W
  <2> QED
    BY <1>3, <1>4, EndsExist
<1> QED
  BY <1>5

LEMMA LeastWork ==
  ASSUME NEW B, B \subseteq Blocks, B # {}
  PROVE  \E b \in B : \A c \in B : ChainWork[b] <= ChainWork[c]
<1> DEFINE work == ChainWork
<1>1. \A b \in B : work[b] \in Int
  BY TreeAssumption
<1> HIDE DEF work
<1>2. \E b \in B : \A c \in B : work[b] <= work[c]
  BY <1>1, LeastOf, Zenon
<1> QED
  BY <1>2 DEF work

LEMMA ChainIsLeast == ASSUME NEW b \in Blocks PROVE ChainTo[b] = LeastChain(b)
<1> DEFINE B == {c \in Blocks : Branch[c] # LeastChain(c)}
<1>1. ASSUME B # {} PROVE FALSE
  <2>1. PICK c \in B : \A d \in B : ChainWork[c] <= ChainWork[d]
    BY <1>1, LeastWork
  <2>2. c \in Blocks /\ c # Genesis
    BY LeastChainFacts, BranchEquation, TreeAssumption
  <2>3. /\ Prev[c] \in Blocks
        /\ ChainWork[Prev[c]] \in Nat /\ ChainWork[c] \in Nat
        /\ ChainWork[Prev[c]] < ChainWork[c]
    BY <2>2, TreeAssumption
  <2>4. Prev[c] \notin B
    BY <2>1, <2>3
  <2> QED
    BY <2>2, <2>3, <2>4, LeastChainFacts, BranchEquation
<1> QED
  BY <1>1 DEF ChainTo

LEMMA ChainFacts ==
  ASSUME NEW b \in Blocks
  PROVE  /\ b \in ChainTo[b] /\ ChainTo[b] \subseteq Blocks
         /\ Genesis \in ChainTo[b] /\ ChainTo[Genesis] = {Genesis}
         /\ b # Genesis => /\ Prev[b] \in Blocks
                           /\ ChainTo[b] = {b} \cup ChainTo[Prev[b]]
         /\ \A a \in ChainTo[b] : ChainTo[a] \subseteq ChainTo[b]
         /\ \A a \in ChainTo[b] \ {Genesis} : Prev[a] \in ChainTo[b]
         /\ \A a \in ChainTo[b] \ {b} : ChainWork[a] < ChainWork[b]
<1>1. /\ b \in ChainTo[b] /\ ChainTo[b] \subseteq Blocks
      /\ \A a \in ChainTo[b] : ChainTo[a] \subseteq ChainTo[b]
      /\ \A a \in ChainTo[b] \ {Genesis} : Prev[a] \in ChainTo[b]
      /\ ChainTo[Genesis] = {Genesis}
  BY LeastChainFacts, ChainIsLeast, TreeAssumption DEF Closed
<1>2. \A c \in Blocks \ {Genesis} :
        /\ Prev[c] \in Blocks /\ ChainWork[Prev[c]] < ChainWork[c]
        /\ ChainWork[c] \in Nat /\ ChainWork[Prev[c]] \in Nat
        /\ ChainTo[c] = {c} \cup ChainTo[Prev[c]]
  BY LeastChainFacts, ChainIsLeast, TreeAssumption
<1>3. Genesis \in ChainTo[b]
  <2>1. PICK c \in ChainTo[b] :
          \A d \in ChainTo[b] : ChainWork[c] <= ChainWork[d]
    BY <1>1, LeastWork
  <2> QED
    BY <1>1, <1>2, <2>1
<1>4. \A a \in ChainTo[b] \ {b} : ChainWork[a] < ChainWork[b]
  <2> DEFINE B == {c \in Blocks : \E a \in ChainTo[c] \ {c} :
                                    ~(ChainWork[a] < ChainWork[c])}
  <2>1. ASSUME B # {} PROVE FALSE
    <3>1. PICK c \in B : \A d \in B : ChainWork[c] <= ChainWork[d]
      BY <2>1, LeastWork
    <3>2. PICK a \in ChainTo[c] \ {c} : ~(ChainWork[a] < ChainWork[c])
      OBVIOUS
    <3>3. c # Genesis
      BY <1>1, <3>2
    <3>4. a \in ChainTo[Prev[c]] /\ Prev[c] \notin B
      BY <1>2, <3>1, <3>2, <3>3
    <3>5. a \in Blocks /\ ChainWork[a] \in Nat
      BY <1>2, <3>3, <3>4, LeastChainFacts, ChainIsLeast, TreeAssumption
    <3> QED
      BY <1>2, <3>2, <3>3, <3>4, <3>5
  <2> QED
    BY <2>1
<1> QED
  BY <1>1, <1>2, <1>3, <1>4

(* Of two blocks of a chain one is on the chain of the other.              *)
LEMMA ChainIsLinear ==
  ASSUME NEW b \in Blocks, NEW a \in ChainTo[b], NEW c \in ChainTo[b]
  PROVE  a \in ChainTo[c] \/ c \in ChainTo[a]
<1> DEFINE Linear(d) == \A x, y \in ChainTo[d] :
                          x \in ChainTo[y] \/ y \in ChainTo[x]
           B == {d \in Blocks : ~Linear(d)}
<1>1. ASSUME B # {} PROVE FALSE
  <2>1. PICK d \in B : \A e \in B : ChainWork[d] <= ChainWork[e]
    BY <1>1, LeastWork
  <2>2. PICK x \in ChainTo[d], y \in ChainTo[d] :
          ~(x \in ChainTo[y] \/ y \in ChainTo[x])
    OBVIOUS
  <2>3. d # Genesis /\ x # d /\ y # d
    BY <2>2, ChainFacts
  <2>4. /\ Prev[d] \in Blocks /\ Prev[d] \notin B
        /\ x \in ChainTo[Prev[d]] /\ y \in ChainTo[Prev[d]]
    BY <2>1, <2>3, ChainFacts, TreeAssumption
  <2> QED
    BY <2>2, <2>4
<1> QED
  BY <1>1

(* A block of a chain that is not its last has the next one after it.      *)
LEMMA ChainGoesOn ==
  ASSUME NEW b \in Blocks, NEW a \in ChainTo[b], a # b
  PROVE  \E c \in ChainTo[b] \ {Genesis} : Prev[c] = a
<1> DEFINE After == {c \in ChainTo[b] \ {a} : a \in ChainTo[c]}
<1>1. b \in After /\ After \subseteq Blocks
  BY ChainFacts
<1>2. PICK c \in After : \A d \in After : ChainWork[c] <= ChainWork[d]
  BY <1>1, LeastWork
<1>3. /\ c \in ChainTo[b] /\ c \in Blocks /\ c # Genesis
      /\ a \in ChainTo[Prev[c]] /\ Prev[c] \in ChainTo[b]
  BY <1>1, ChainFacts
<1>4. Prev[c] \notin After
  BY <1>2, <1>3, TreeAssumption
<1> QED
  BY <1>3, <1>4

LEMMA HeightFacts ==
  ASSUME NEW b \in Blocks
  PROVE  /\ Height(b) \in Nat /\ Height(Genesis) = 0
         /\ IsFiniteSet(ChainTo[b])
         /\ Cardinality(ChainTo[b]) = Height(b) + 1
         /\ b # Genesis => Height(b) = Height(Prev[b]) + 1
         /\ \A a \in ChainTo[b] : Height(a) <= Height(b)
         /\ \A a \in ChainTo[b] \ {b} : Height(a) < Height(b)
<1>1. \A c \in Blocks : /\ IsFiniteSet(ChainTo[c])
                        /\ Cardinality(ChainTo[c]) \in Nat \ {0}
                        /\ Height(c) = Cardinality(ChainTo[c]) - 1
  <2> TAKE c \in Blocks
  <2>1. IsFiniteSet(ChainTo[c]) /\ c \in ChainTo[c]
    BY ChainFacts, FS_Subset, TreeAssumption
  <2> QED
    BY <2>1, FS_CardinalityType, FS_EmptySet DEF Height, HeightOf
<1>2. Height(Genesis) = 0
  <2>1. Genesis \in Blocks /\ ChainTo[Genesis] = {Genesis}
    BY ChainFacts, TreeAssumption
  <2>2. Cardinality(ChainTo[Genesis]) = 1
    BY <2>1, FS_Singleton
  <2>3. Height(Genesis) = Cardinality(ChainTo[Genesis]) - 1
    BY <1>1, <2>1
  <2> QED
    BY <2>2, <2>3
<1>3. \A a \in ChainTo[b] \ {b} : Height(a) < Height(b)
  <2> TAKE a \in ChainTo[b] \ {b}
  <2>1. a \in Blocks /\ ChainTo[a] \subseteq ChainTo[b]
    BY ChainFacts
  <2>2. b \notin ChainTo[a]
    <3>1. ChainWork[a] < ChainWork[b]
      BY ChainFacts
    <3>2. b \in ChainTo[a] => ChainWork[b] < ChainWork[a]
      BY <2>1, ChainFacts
    <3> QED
      BY <2>1, <3>1, <3>2, TreeAssumption
  <2>3. Cardinality(ChainTo[a]) <= Cardinality(ChainTo[b])
          /\ Cardinality(ChainTo[a]) # Cardinality(ChainTo[b])
    BY <1>1, <2>1, <2>2, ChainFacts, FS_Subset
  <2> QED
    BY <1>1, <2>1, <2>3
<1>4. ASSUME b # Genesis PROVE Height(b) = Height(Prev[b]) + 1
  <2>1. /\ Prev[b] \in Blocks /\ Prev[b] # b
        /\ ChainTo[b] = ChainTo[Prev[b]] \cup {b}
    BY <1>4, ChainFacts, TreeAssumption
  <2>2. b \notin ChainTo[Prev[b]]
    <3>1. ChainWork[Prev[b]] < ChainWork[b]
      BY <1>4, TreeAssumption
    <3>2. b \in ChainTo[Prev[b]] => ChainWork[b] < ChainWork[Prev[b]]
      BY <2>1, ChainFacts
    <3> QED
      BY <2>1, <3>1, <3>2, TreeAssumption
  <2>3. Cardinality(ChainTo[b]) = Cardinality(ChainTo[Prev[b]]) + 1
    BY <1>1, <2>1, <2>2, FS_AddElement
  <2>4. /\ Height(b) = Cardinality(ChainTo[b]) - 1
        /\ Height(Prev[b]) = Cardinality(ChainTo[Prev[b]]) - 1
        /\ Cardinality(ChainTo[Prev[b]]) \in Nat
    BY <1>1, <2>1
  <2> QED
    BY <2>3, <2>4
<1> QED
  BY <1>1, <1>2, <1>3, <1>4, ChainFacts

(* A chain has one block of each height up to its last.                    *)
LEMMA HeightsOfChain ==
  ASSUME NEW b \in Blocks, NEW h \in 0 .. Height(b)
  PROVE  /\ \E a \in ChainTo[b] : Height(a) = h
         /\ \A a, c \in ChainTo[b] : Height(a) = Height(c) => a = c
<1>1. \A a, c \in ChainTo[b] : Height(a) = Height(c) => a = c
  <2> SUFFICES ASSUME NEW a \in ChainTo[b], NEW c \in ChainTo[b], a # c
               PROVE  Height(a) # Height(c)
    OBVIOUS
  <2>1. a \in Blocks /\ c \in Blocks
    BY ChainFacts
  <2>2. a \in ChainTo[c] \/ c \in ChainTo[a]
    BY ChainIsLinear
  <2>3. Height(a) < Height(c) \/ Height(c) < Height(a)
    BY <2>1, <2>2, HeightFacts
  <2> QED
    BY <2>1, <2>3, HeightFacts
<1>2. \E a \in ChainTo[b] : Height(a) = h
  <2> DEFINE Above == {c \in ChainTo[b] : Height(c) >= h}
  <2>1. b \in Above /\ Above \subseteq Blocks
    BY ChainFacts, HeightFacts
  <2>2. PICK c \in Above : \A d \in Above : Height(c) <= Height(d)
    <3>1. \A d \in Above : HeightOf[d] \in Int
      BY <2>1, HeightFacts DEF Height
    <3> HIDE DEF Above
    <3> QED
      BY <2>1, <3>1, LeastOf DEF Height
  <2>3. c \in ChainTo[b] /\ c \in Blocks /\ Height(c) \in Nat /\ Height(c) >= h
    BY <2>1, HeightFacts
  <2>4. CASE c = Genesis
    BY <2>3, <2>4, HeightFacts
  <2>5. CASE c # Genesis
    <3>1. /\ Prev[c] \in ChainTo[b] /\ Prev[c] \in Blocks
          /\ Height(c) = Height(Prev[c]) + 1 /\ Height(Prev[c]) \in Nat
      BY <2>3, <2>5, ChainFacts, HeightFacts
    <3>2. Prev[c] \notin Above
      BY <2>2, <2>3, <3>1
    <3> QED
      BY <2>3, <3>1, <3>2
  <2> QED
    BY <2>4, <2>5
<1> QED
  BY <1>1, <1>2

-----------------------------------------------------------------------------
(* The active chain has come as a whole, failures reach all that is known  *)
(* to follow, and the pool fits the chain.                                 *)
ChainInv ==
  /\ ChainTypeOK
  /\ ChainTo[tip] \subseteq received
  /\ Closed(mapBlockIndex) /\ Closed(validated)
  /\ \A a \in failed : Descendants(a) \cap mapBlockIndex \subseteq failed
  /\ Fits(mempool, tip)
  /\ IdleMeansBest

LEMMA ChainInitHolds == ChainInit => ChainInv
<1> SUFFICES ASSUME ChainInit PROVE ChainInv
  OBVIOUS
<1>1. ChainTypeOK
  BY TreeAssumption DEF ChainInit, ChainTypeOK
<1>2. ChainTo[Genesis] = {Genesis} /\ Closed({Genesis})
  BY ChainFacts, TreeAssumption DEF Closed
<1>3. Fits({}, Genesis)
  BY DEF Fits, Spent
<1>4. Best(Genesis, {})
  <2>1. Candidates({}) = {Genesis}
    BY <1>2 DEF ChainInit, Candidates, HasChainTx
  <2> QED
    BY <2>1, TreeAssumption DEF Best
<1> QED
  BY <1>1, <1>2, <1>3, <1>4 DEF ChainInit, ChainInv, IdleMeansBest

LEMMA MovedFacts ==
  ASSUME ChainInv, NEW t \in Blocks, ChainTo[t] \subseteq received, MoveTo(t)
  PROVE  /\ tip' = t /\ t \in validated'
         /\ validated \subseteq validated' /\ validated' \subseteq received
         /\ Closed(validated')
         /\ mempool' \subseteq Txs /\ Fits(mempool', t)
<1>1. /\ tip' = t /\ validated' = validated \cup ChainTo[t]
      /\ mempool' \in PoolsAfter(t)
  BY DEF MoveTo
<1>2. Closed(validated') /\ t \in validated'
  BY <1>1, ChainFacts DEF ChainInv, Closed
<1>3. tip \in Blocks /\ mempool \subseteq Txs /\ validated \subseteq received
  BY DEF ChainInv, ChainTypeOK
<1>4. Mined(tip) \subseteq Txs
  BY <1>3, ChainFacts, BodyAssumption DEF Mined
<1>5. mempool' \subseteq Txs /\ Fits(mempool', t)
  BY <1>1, <1>3, <1>4 DEF PoolsAfter
<1> QED
  BY <1>1, <1>2, <1>3, <1>5

(* A block at which disconnecting stops is one of those to disconnect.     *)
LEMMA StuckFacts ==
  ASSUME NEW S, S \subseteq Blocks, ~Disconnectable(S)
  PROVE  StuckAt(S) \in S
<1> DEFINE B == S \ haveData
<1>1. B \subseteq Blocks /\ B # {}
  BY DEF Disconnectable
<1>2. \A b \in B : HeightOf[b] \in Int
  BY <1>1, HeightFacts DEF Height
<1>3. \E b \in B : \A o \in B : Height(o) <= Height(b)
  <2> HIDE DEF B
  <2>1. PICK b \in B : \A o \in B : HeightOf[b] >= HeightOf[o]
    BY <1>1, <1>2, LeastOf
  <2>2. \A o \in B : HeightOf[o] <= HeightOf[b]
    BY <1>2, <2>1
  <2> QED
    BY <2>2 DEF Height
<1>4. StuckAt(S) = CHOOSE b \in B : \A o \in B : Height(o) <= Height(b)
  BY DEF StuckAt
<1> QED
  BY <1>3, <1>4

(* A block whose header has come is no candidate before its body has, and  *)
(* has no failed block before it.                                          *)
LEMMA HeaderKeeps ==
  ASSUME ChainInv, NEW b \in Blocks, AcceptHeader(b)
  PROVE  ChainInv'
<1>1. /\ b # Genesis /\ b \notin received /\ Prev[b] \in Blocks
      /\ Prev[b] \in mapBlockIndex \ failed
  BY ChainFacts DEF ChainInv, ChainTypeOK, AcceptHeader
<1>2. ChainTypeOK' /\ Fits(mempool, tip)' /\ Closed(validated)'
        /\ (ChainTo[tip] \subseteq received)'
  BY DEF ChainInv, ChainTypeOK, AcceptHeader
<1>3. Closed(mapBlockIndex)'
  BY <1>1 DEF ChainInv, AcceptHeader, Closed
<1>4. (\A a \in failed : Descendants(a) \cap mapBlockIndex \subseteq failed)'
  <2>1. ASSUME NEW a \in failed PROVE b \notin Descendants(a)
    <3>1. a # b /\ a \in Blocks
      BY DEF ChainInv, ChainTypeOK, AcceptHeader
    <3>2. ASSUME b \in Descendants(a) PROVE Prev[b] \in Descendants(a)
      BY <1>1, <3>1, <3>2, ChainFacts DEF Descendants
    <3> QED
      BY <1>1, <3>2 DEF ChainInv
  <2> QED
    BY <2>1 DEF ChainInv, AcceptHeader, Descendants
<1>5. IdleMeansBest'
  <2>1. Candidates(failed)' = Candidates(failed)
    BY <1>1, ChainFacts DEF AcceptHeader, Candidates, HasChainTx
  <2> QED
    BY <2>1 DEF ChainInv, IdleMeansBest, AcceptHeader, Best
<1> QED
  BY <1>2, <1>3, <1>4, <1>5 DEF ChainInv

LEMMA BodyKeeps ==
  ASSUME ChainInv, NEW t \in RpcThreads, NEW b \in Blocks, AcceptBody(t, b)
  PROVE  ChainInv'
<1>1. call'[t] = "activate"
  BY DEF ChainInv, ChainTypeOK, AcceptBody
<1>2. IdleMeansBest'
  BY <1>1 DEF IdleMeansBest
<1> QED
  BY <1>2 DEF ChainInv, ChainTypeOK, AcceptBody, Descendants

LEMMA TxKeeps ==
  ASSUME ChainInv, NEW x \in Txs, AcceptTx(x)
  PROVE  ChainInv'
<1>1. IdleMeansBest'
  BY DEF ChainInv, IdleMeansBest, AcceptTx, Best, Candidates, HasChainTx
<1> QED
  BY <1>1 DEF ChainInv, ChainTypeOK, AcceptTx, Descendants

LEMMA PruneKeeps ==
  ASSUME ChainInv, NEW b \in Blocks, Prune(b)
  PROVE  ChainInv'
<1>1. Candidates(failed)' \subseteq Candidates(failed)
  BY DEF Prune, Candidates, HasChainTx
<1>2. tip \in Candidates(failed) => tip \in Candidates(failed)'
  BY DEF Prune, Candidates, HasChainTx
<1>3. IdleMeansBest'
  BY <1>1, <1>2 DEF ChainInv, IdleMeansBest, Prune, Best
<1> QED
  BY <1>3 DEF ChainInv, ChainTypeOK, Prune, Descendants

LEMMA InvalidateKeeps ==
  ASSUME ChainInv, NEW t \in RpcThreads, NEW b \in Blocks,
         InvalidateBlock(t, b)
  PROVE  ChainInv'
<1> DEFINE leaving == ChainTo[tip] \cap Descendants(b)
           ok == Disconnectable(leaving)
<1>1. /\ b \in mapBlockIndex /\ b # Genesis
      /\ failed' = failed \cup {b} \cup (Descendants(b) \cap mapBlockIndex)
      /\ call' = [call EXCEPT ![t] = IF ok THEN "activate" ELSE "aborted"]
      /\ UNCHANGED <<mapBlockIndex, received, haveData>>
      /\ IF leaving = {} THEN UNCHANGED <<tip, validated, mempool>>
         ELSE MoveTo(IF ok THEN Prev[b] ELSE StuckAt(leaving))
  BY DEF InvalidateBlock, Invalidated
<1>2. /\ tip \in Blocks /\ ChainTo[tip] \subseteq received
      /\ \A a \in failed : a \in Blocks
      /\ failed \subseteq mapBlockIndex /\ mapBlockIndex \subseteq Blocks
  BY DEF ChainInv, ChainTypeOK
<1>3. \A a \in failed' : Descendants(a) \cap mapBlockIndex \subseteq failed'
  <2>1. \A a \in Descendants(b) : Descendants(a) \subseteq Descendants(b)
    BY ChainFacts DEF Descendants
  <2> QED
    BY <1>1, <2>1 DEF ChainInv
<1>4. call'[t] # "none"
        /\ call' \in [RpcThreads -> {"none", "activate", "aborted"}]
  BY <1>1 DEF ChainInv, ChainTypeOK
<1>5. /\ tip' \in validated' /\ validated' \subseteq received
      /\ Genesis \in validated' /\ Closed(validated')
      /\ mempool' \subseteq Txs /\ Fits(mempool', tip')
      /\ ChainTo[tip'] \subseteq received
  <2>1. CASE leaving = {}
    BY <1>1, <2>1 DEF ChainInv, ChainTypeOK
  <2>2. CASE leaving # {}
    <3> DEFINE to == IF ok THEN Prev[b] ELSE StuckAt(leaving)
    <3>1. PICK d \in ChainTo[tip] : d \in Blocks /\ b \in ChainTo[d]
      BY <2>2 DEF Descendants
    <3>2. b \in ChainTo[tip]
      BY <1>2, <3>1, ChainFacts
    <3>3. Prev[b] \in ChainTo[tip]
      BY <1>1, <1>2, <3>2, ChainFacts
    <3>4. ~ok => StuckAt(leaving) \in ChainTo[tip]
      BY <1>2, ChainFacts, StuckFacts
    <3>5. to \in Blocks /\ ChainTo[to] \subseteq received
      <4>1. to \in ChainTo[tip]
        BY <3>3, <3>4
      <4> HIDE DEF to
      <4> QED
        BY <1>2, <4>1, ChainFacts
    <3>6. MoveTo(to)
      BY <1>1, <2>2
    <3> HIDE DEF to
    <3>7. /\ tip' = to /\ to \in validated' /\ validated \subseteq validated'
          /\ validated' \subseteq received /\ Closed(validated')
          /\ mempool' \subseteq Txs /\ Fits(mempool', to)
      BY <3>5, <3>6, MovedFacts
    <3> QED
      BY <3>5, <3>7 DEF ChainInv, ChainTypeOK
  <2> QED
    BY <2>1, <2>2
<1>6. IdleMeansBest'
  BY <1>4 DEF IdleMeansBest
<1>7. ChainTypeOK'
  BY <1>1, <1>2, <1>4, <1>5 DEF ChainInv, ChainTypeOK
<1> QED
  BY <1>1, <1>3, <1>5, <1>6, <1>7 DEF ChainInv, Descendants

LEMMA ReconsiderKeeps ==
  ASSUME ChainInv, NEW t \in RpcThreads, NEW b \in Blocks,
         ReconsiderBlock(t, b)
  PROVE  ChainInv'
<1>1. call'[t] = "activate"
        /\ call' \in [RpcThreads -> {"none", "activate", "aborted"}]
  BY DEF ChainInv, ChainTypeOK, ReconsiderBlock
<1>2. IdleMeansBest'
  BY <1>1 DEF IdleMeansBest
<1>3. ASSUME NEW a \in failed', NEW d \in Descendants(a) \cap mapBlockIndex
      PROVE  d \in failed'
  <2>1. /\ a \in failed /\ a \notin Descendants(b) /\ a \notin ChainTo[b]
        /\ failed' = failed \ (Descendants(b) \cup ChainTo[b])
    BY DEF ReconsiderBlock
  <2>2. a \in Blocks /\ d \in Blocks /\ a \in ChainTo[d] /\ d \in failed
    BY <2>1 DEF ChainInv, ChainTypeOK, Descendants
  <2>3. d \notin Descendants(b)
    <3>1. ASSUME b \in ChainTo[d] PROVE FALSE
      <4>1. a \in ChainTo[b] \/ b \in ChainTo[a]
        BY <2>2, <3>1, ChainIsLinear
      <4> QED
        BY <2>1, <2>2, <4>1 DEF Descendants
    <3> QED
      BY <3>1 DEF Descendants
  <2>4. d \notin ChainTo[b]
    BY <2>1, <2>2, ChainFacts
  <2> QED
    BY <2>1, <2>2, <2>3, <2>4
<1> QED
  BY <1>1, <1>2, <1>3
     DEF ChainInv, ChainTypeOK, ReconsiderBlock, Descendants

(* The chain a command ends on was the best when it looked, and is so      *)
(* still: moving to it made no other block a candidate.                    *)
LEMMA FinishKeeps ==
  ASSUME ChainInv, NEW t \in RpcThreads, FinishCommand(t)
  PROVE  ChainInv'
<1>1. PICK ok \in BOOLEAN :
        /\ ActivateBestChain(ok)
        /\ call' = [call EXCEPT ![t] = IF ok THEN "none" ELSE "aborted"]
  BY DEF FinishCommand
<1>2. /\ call[t] = "activate"
      /\ UNCHANGED <<mapBlockIndex, received, haveData, failed>>
      /\ call' \in [RpcThreads -> {"none", "activate", "aborted"}]
      /\ ~ok => call'[t] # "none"
      /\ tip \in Blocks /\ ChainTo[tip] \subseteq received
  BY <1>1 DEF FinishCommand, ChainInv, ChainTypeOK
<1>3. CASE ok /\ Best(tip, failed) /\ UNCHANGED <<tip, validated, mempool>>
  <2>1. Best(tip, failed)'
    BY <1>2, <1>3 DEF Best, Candidates, HasChainTx
  <2> QED
    BY <1>2, <1>3, <2>1 DEF ChainInv, ChainTypeOK, IdleMeansBest, Descendants
<1>4. CASE \E b \in Blocks :
             /\ Best(b, failed)
             /\ ok = Disconnectable(ChainTo[tip] \ ChainTo[b])
             /\ MoveTo(IF ok THEN b ELSE StuckAt(ChainTo[tip] \ ChainTo[b]))
  <2>1. PICK b \in Blocks :
             /\ Best(b, failed)
             /\ ok = Disconnectable(ChainTo[tip] \ ChainTo[b])
             /\ MoveTo(IF ok THEN b ELSE StuckAt(ChainTo[tip] \ ChainTo[b]))
    BY <1>4
  <2> DEFINE leaving == ChainTo[tip] \ ChainTo[b]
             to == IF ok THEN b ELSE StuckAt(leaving)
  <2>2. /\ ChainTo[b] \subseteq received
        /\ ChainTo[b] \ ChainTo[tip] \subseteq haveData
    BY <2>1 DEF Best, Candidates, HasChainTx
  <2>3. ~ok => StuckAt(leaving) \in ChainTo[tip]
    BY <1>2, <2>1, ChainFacts, StuckFacts
  <2>4. to \in Blocks /\ ChainTo[to] \subseteq received
    BY <1>2, <2>2, <2>3, ChainFacts
  <2>5. MoveTo(to)
    BY <2>1
  <2> HIDE DEF to
  <2>6. /\ tip' = to /\ to \in validated' /\ validated \subseteq validated'
        /\ validated' \subseteq received /\ Closed(validated')
        /\ mempool' \subseteq Txs /\ Fits(mempool', to)
    BY <2>4, <2>5, MovedFacts
  <2>7. IdleMeansBest'
    <3>1. CASE ~ok
      BY <1>2, <3>1 DEF IdleMeansBest
    <3>2. CASE ok
      <4>1. tip' = b
        BY <2>6, <3>2 DEF to
      <4>2. b \in Candidates(failed)'
        BY <1>2, <2>1, <4>1 DEF Best, Candidates, HasChainTx
      <4>3. Candidates(failed)' \subseteq Candidates(failed)
        BY <1>2, <2>2, <4>1 DEF Candidates, HasChainTx
      <4>4. Best(tip, failed)'
        BY <1>2, <2>1, <4>1, <4>2, <4>3 DEF Best
      <4> QED
        BY <4>4 DEF IdleMeansBest
    <3> QED
      BY <3>1, <3>2
  <2>8. ChainTypeOK'
    BY <1>2, <2>6 DEF ChainInv, ChainTypeOK
  <2> QED
    BY <1>2, <2>4, <2>6, <2>7, <2>8 DEF ChainInv, Descendants
<1> QED
  BY <1>1, <1>3, <1>4 DEF ActivateBestChain

LEMMA ChainStep == ChainInv /\ [ChainNext]_chainVars => ChainInv'
<1> SUFFICES ASSUME ChainInv, [ChainNext]_chainVars
             PROVE  ChainInv'
  OBVIOUS
<1>1. CASE ChainNext
  BY <1>1, HeaderKeeps, PruneKeeps, TxKeeps, BodyKeeps, InvalidateKeeps,
     ReconsiderKeeps, FinishKeeps DEF ChainNext
<1>2. CASE UNCHANGED chainVars
  BY <1>2 DEF chainVars, ChainInv, ChainTypeOK, IdleMeansBest, Best,
              Candidates, HasChainTx, Descendants
<1> QED
  BY <1>1, <1>2

(* While no command of rpcclient.cpp is half done the active chain is the  *)
(* best of those that can be had, whatever the tree of blocks and however  *)
(* many threads serve commands; the safety of the specification is enough. *)
THEOREM IdleAlwaysMeansBest ==
  ChainInit /\ [][ChainNext]_chainVars => []IdleMeansBest
<1>1. ChainInv => IdleMeansBest
  BY DEF ChainInv
<1> QED
  BY <1>1, ChainInitHolds, ChainStep, PTL

(* What was found among the last Window blocks before the i-th.            *)
Upgraded(v, p) ==
  {a \in ChainTo[p[1]] : /\ Height(p[1]) - Height(a) + p[2] < Window
                         /\ Version[a] >= v}

LEMMA UpgradedFacts ==
  ASSUME NEW v \in Int, NEW b \in Blocks, NEW i \in Nat
  PROVE  /\ Cardinality(Upgraded(v, <<b, i>>)) \in Nat
         /\ i >= Window => Cardinality(Upgraded(v, <<b, i>>)) = 0
         /\ i < Window =>
              Cardinality(Upgraded(v, <<b, i>>)) =
                (IF Version[b] >= v THEN 1 ELSE 0)
                  + (IF b = Genesis THEN 0
                     ELSE Cardinality(Upgraded(v, <<Prev[b], i + 1>>)))
<1> DEFINE U == Upgraded(v, <<b, i>>)
<1>1. /\ IsFiniteSet(U) /\ Cardinality(U) \in Nat
      /\ \A a \in ChainTo[b] : a \in Blocks /\ Height(a) \in Nat
      /\ Height(b) \in Nat
      /\ \A a \in ChainTo[b] : Height(a) <= Height(b)
  BY HeightFacts, ChainFacts, FS_Subset, FS_CardinalityType DEF Upgraded
<1>2. ASSUME i >= Window PROVE Cardinality(U) = 0
  <2>1. U = {}
    BY <1>1, <1>2, TreeAssumption DEF Upgraded
  <2> QED
    BY <2>1, FS_EmptySet
<1>3. ASSUME i < Window, b = Genesis
      PROVE  Cardinality(U) = IF Version[b] >= v THEN 1 ELSE 0
  <2>1. ChainTo[b] = {b}
    BY <1>3, ChainFacts
  <2>2. U = IF Version[b] >= v THEN {b} ELSE {}
    BY <1>1, <1>3, <2>1, TreeAssumption DEF Upgraded
  <2> QED
    BY <2>2, FS_EmptySet, FS_Singleton
<1>4. ASSUME i < Window, b # Genesis
      PROVE  Cardinality(U) = (IF Version[b] >= v THEN 1 ELSE 0)
               + Cardinality(Upgraded(v, <<Prev[b], i + 1>>))
  <2> DEFINE W == Upgraded(v, <<Prev[b], i + 1>>)
  <2>1. /\ Prev[b] \in Blocks /\ Height(b) = Height(Prev[b]) + 1
        /\ ChainTo[b] = ChainTo[Prev[b]] \cup {b}
        /\ Height(Prev[b]) \in Nat
        /\ \A a \in ChainTo[Prev[b]] : Height(a) <= Height(Prev[b])
    BY <1>4, HeightFacts, ChainFacts
  <2>2. b \notin ChainTo[Prev[b]]
    BY <1>1, <2>1
  <2>3. IsFiniteSet(W) /\ b \notin W /\ Cardinality(W) \in Nat
    BY <2>1, <2>2, HeightFacts, FS_Subset, FS_CardinalityType DEF Upgraded
  <2>4. U = IF Version[b] >= v THEN W \cup {b} ELSE W
    <3>1. \A a \in ChainTo[Prev[b]] :
            Height(b) - Height(a) + i = Height(Prev[b]) - Height(a) + (i + 1)
      BY <1>1, <2>1
    <3>2. Height(b) - Height(b) + i < Window
      BY <1>1, <1>4
    <3> QED
      BY <2>1, <3>1, <3>2 DEF Upgraded
  <2> HIDE DEF U, W
  <2>5. CASE Version[b] >= v
    BY <2>3, <2>4, <2>5, FS_AddElement DEF W
  <2>6. CASE ~(Version[b] >= v)
    BY <2>3, <2>4, <2>6 DEF W
  <2> QED
    BY <2>5, <2>6 DEF U, W
<1> QED
  BY <1>1, <1>2, <1>3, <1>4

LEMMA SoftForkCounts ==
  ASSUME ChainInv, NEW v \in Int
  PROVE  SoftForkFound(v) = Cardinality(Upgraded(v, <<tip, 0>>))
<1> DEFINE IsFound(f) ==
             f = [p \in Blocks \X Nat |->
                    IF p[2] >= Window THEN 0
                    ELSE (IF Version[p[1]] >= v THEN 1 ELSE 0)
                           + (IF p[1] = Genesis THEN 0
                              ELSE f[<<Prev[p[1]], p[2] + 1>>])]
           count == [p \in Blocks \X Nat |-> Cardinality(Upgraded(v, p))]
           found == CHOOSE f : IsFound(f)
<1>0. \A b \in Blocks, i \in Nat :
        Cardinality(Upgraded(v, <<b, i>>)) =
          IF i >= Window THEN 0
          ELSE (IF Version[b] >= v THEN 1 ELSE 0)
                 + (IF b = Genesis THEN 0
                    ELSE Cardinality(Upgraded(v, <<Prev[b], i + 1>>)))
  <2> TAKE b \in Blocks, i \in Nat
  <2>1. i >= Window \/ i < Window
    BY TreeAssumption
  <2>2. ~(i >= Window /\ i < Window)
    BY TreeAssumption
  <2> QED
    BY <2>1, <2>2, UpgradedFacts
<1>1. SoftForkFound(v) = found[<<tip, 0>>]
  BY DEF SoftForkFound
<1>2. tip \in Blocks
  BY DEF ChainInv, ChainTypeOK
<1>3. IsFound(count)
  <2>1. ASSUME NEW p \in Blocks \X Nat
        PROVE  count[p] = IF p[2] >= Window THEN 0
                          ELSE (IF Version[p[1]] >= v THEN 1 ELSE 0)
                                 + (IF p[1] = Genesis THEN 0
                                    ELSE count[<<Prev[p[1]], p[2] + 1>>])
    <3>1. PICK b \in Blocks, i \in Nat : p = <<b, i>>
      OBVIOUS
    <3>2. b # Genesis => <<Prev[b], i + 1>> \in Blocks \X Nat
      BY TreeAssumption
    <3>3. /\ count[<<b, i>>] = Cardinality(Upgraded(v, <<b, i>>))
          /\ b # Genesis =>
               count[<<Prev[b], i + 1>>]
                 = Cardinality(Upgraded(v, <<Prev[b], i + 1>>))
      BY <3>2
    <3> HIDE DEF count
    <3>4. count[<<b, i>>] = IF i >= Window THEN 0
                            ELSE (IF Version[b] >= v THEN 1 ELSE 0)
                                   + (IF b = Genesis THEN 0
                                      ELSE count[<<Prev[b], i + 1>>])
      BY <1>0, <3>3
    <3> QED
      BY <3>1, <3>4
  <2> QED
    BY <2>1
<1>4. IsFound(found)
  <2> HIDE DEF count, IsFound
  <2> QED
    BY <1>3
<1>5. \A b \in Blocks, i \in Nat :
        found[<<b, i>>] = IF i >= Window THEN 0
                          ELSE (IF Version[b] >= v THEN 1 ELSE 0)
                                 + (IF b = Genesis THEN 0
                                    ELSE found[<<Prev[b], i + 1>>])
  <2> HIDE DEF found
  <2> QED
    BY <1>4
<1> HIDE DEF found
<1> DEFINE B == {b \in Blocks : \E i \in Nat :
                   found[<<b, i>>] # Cardinality(Upgraded(v, <<b, i>>))}
<1>6. ASSUME B # {} PROVE FALSE
  <2>1. PICK b \in B : \A c \in B : ChainWork[b] <= ChainWork[c]
    BY <1>6, LeastWork
  <2>2. PICK i \in Nat :
          found[<<b, i>>] # Cardinality(Upgraded(v, <<b, i>>))
    OBVIOUS
  <2>3. b # Genesis /\ found[<<Prev[b], i + 1>>]
                          # Cardinality(Upgraded(v, <<Prev[b], i + 1>>))
    BY <1>0, <1>5, <2>2
  <2>4. Prev[b] \in Blocks /\ ~(ChainWork[b] <= ChainWork[Prev[b]])
    BY <2>3, TreeAssumption
  <2> QED
    BY <2>1, <2>3, <2>4
<1> QED
  BY <1>1, <1>2, <1>6

LEMMA MajorityHolds == ChainInv => MajorityOfTheWindow
<1> SUFFICES ASSUME ChainInv, NEW v \in {Version[b] : b \in Blocks}
             PROVE  SoftForkFound(v) =
                      Cardinality({b \in ChainTo[tip] :
                                     /\ Height(tip) - Height(b) < Window
                                     /\ Version[b] >= v})
  BY DEF MajorityOfTheWindow
<1>1. v \in Int /\ tip \in Blocks
  BY TreeAssumption DEF ChainInv, ChainTypeOK
<1>2. \A b \in ChainTo[tip] :
        Height(tip) - Height(b) + 0 = Height(tip) - Height(b)
  BY <1>1, HeightFacts, ChainFacts
<1>3. Upgraded(v, <<tip, 0>>) = {b \in ChainTo[tip] :
                                     /\ Height(tip) - Height(b) < Window
                                     /\ Version[b] >= v}
  BY <1>2 DEF Upgraded
<1> QED
  BY <1>1, <1>3, SoftForkCounts

-----------------------------------------------------------------------------
LEMMA AtHeightFacts ==
  ASSUME tip \in Blocks
  PROVE  /\ \A h \in 0 .. Height(tip) :
              AtHeight(h) \in ChainTo[tip] /\ Height(AtHeight(h)) = h
         /\ \A a \in ChainTo[tip] :
              Height(a) \in 0 .. Height(tip) /\ AtHeight(Height(a)) = a
<1>1. \A h \in 0 .. Height(tip) :
        AtHeight(h) \in ChainTo[tip] /\ Height(AtHeight(h)) = h
  BY HeightsOfChain DEF AtHeight
<1>2. ASSUME NEW a \in ChainTo[tip]
      PROVE  Height(a) \in 0 .. Height(tip) /\ AtHeight(Height(a)) = a
  <2>1. Height(a) \in 0 .. Height(tip)
    BY ChainFacts, HeightFacts
  <2> QED
    BY <1>1, <2>1, HeightsOfChain
<1> QED
  BY <1>1, <1>2

(* Where the walk of getblockchaininfo from b stops.                       *)
Stops(b) ==
  {a \in ChainTo[b] :
     /\ a = Genesis \/ Prev[a] \notin haveData
     /\ \A c \in ChainTo[b] \ {b} : a \in ChainTo[c] => c \in haveData}

LEMMA StopsFacts ==
  ASSUME NEW b \in Blocks
  PROVE  Stops(b) = IF b # Genesis /\ Prev[b] \in haveData
                    THEN Stops(Prev[b]) ELSE {b}
<1>1. ASSUME NEW c \in ChainTo[b], b \in ChainTo[c] PROVE c = b
  <2>1. c # b => ChainWork[c] < ChainWork[b] /\ ChainWork[b] < ChainWork[c]
    BY <1>1, ChainFacts
  <2> QED
    BY <2>1, ChainFacts, TreeAssumption
<1>2. CASE b = Genesis
  BY <1>2, ChainFacts DEF Stops
<1>3. CASE b # Genesis /\ Prev[b] \notin haveData
  <2>1. /\ ChainTo[b] = {b} \cup ChainTo[Prev[b]]
        /\ Prev[b] # b /\ Prev[b] \in ChainTo[b]
    BY <1>3, ChainFacts, TreeAssumption
  <2>2. b \in Stops(b)
    BY <1>1, <1>3, <2>1 DEF Stops
  <2>3. \A a \in Stops(b) : a = b
    BY <1>3, <2>1 DEF Stops
  <2> QED
    BY <1>3, <2>2, <2>3
<1>4. CASE b # Genesis /\ Prev[b] \in haveData
  <2>1. /\ Prev[b] \in Blocks
        /\ ChainTo[b] = {b} \cup ChainTo[Prev[b]]
        /\ b \notin ChainTo[Prev[b]]
    <3>1. Prev[b] \in Blocks /\ ChainTo[b] = {b} \cup ChainTo[Prev[b]]
      BY <1>4, ChainFacts
    <3>2. Prev[b] \in ChainTo[b] /\ Prev[b] # b
      BY <1>4, <3>1, ChainFacts, TreeAssumption
    <3> QED
      BY <1>1, <3>1, <3>2
  <2> QED
    BY <1>4, <2>1 DEF Stops
<1> QED
  BY <1>2, <1>3, <1>4

(* The height reported is that of the block where the walk stops.          *)
LEMMA PruneHeightStops ==
  ASSUME tip \in Blocks
  PROVE  \E a \in Stops(tip) : PruneHeight = Height(a)
<1> DEFINE IsBack(f) ==
             f = [b \in Blocks |-> IF b # Genesis /\ Prev[b] \in haveData
                                   THEN f[Prev[b]] ELSE b]
           stop == [b \in Blocks |-> CHOOSE a : a \in Stops(b)]
           back == CHOOSE f : IsBack(f)
<1>1. PruneHeight = Height(back[tip])
  BY DEF PruneHeight
<1>2. IsBack(stop)
  BY StopsFacts, TreeAssumption
<1>3. IsBack(back)
  <2> HIDE DEF stop, IsBack
  <2> QED
    BY <1>2
<1>4. \A b \in Blocks : back[b] = IF b # Genesis /\ Prev[b] \in haveData
                                  THEN back[Prev[b]] ELSE b
  <2> HIDE DEF back
  <2> QED
    BY <1>3
<1> HIDE DEF back
<1> DEFINE B == {b \in Blocks : back[b] \notin Stops(b)}
<1>5. ASSUME B # {} PROVE FALSE
  <2>1. PICK b \in B : \A c \in B : ChainWork[b] <= ChainWork[c]
    BY <1>5, LeastWork
  <2>2. /\ b # Genesis /\ Prev[b] \in haveData
        /\ back[Prev[b]] \notin Stops(Prev[b])
    BY <1>4, StopsFacts
  <2>3. Prev[b] \in Blocks /\ ~(ChainWork[b] <= ChainWork[Prev[b]])
    BY <2>2, TreeAssumption
  <2> QED
    BY <2>1, <2>2, <2>3
<1> QED
  BY <1>1, <1>5

LEMMA PruneHeightHolds == ChainInv => PruneHeightIsTheLimit
<1> SUFFICES ASSUME ChainInv PROVE PruneHeightIsTheLimit
  OBVIOUS
<1>1. tip \in Blocks /\ ChainTo[tip] \subseteq received
  BY DEF ChainInv, ChainTypeOK
<1>2. PICK a \in Stops(tip) : PruneHeight = Height(a)
  BY <1>1, PruneHeightStops
<1>3. /\ a \in ChainTo[tip] /\ a \in Blocks /\ Height(a) \in Nat
      /\ a = Genesis \/ Prev[a] \notin haveData
      /\ \A c \in ChainTo[tip] \ {tip} : a \in ChainTo[c] => c \in haveData
  BY <1>1, ChainFacts, HeightFacts DEF Stops
<1>4. ASSUME NEW h \in PruneHeight .. Height(tip), h # Height(tip)
      PROVE  GetBlock(AtHeight(h)) = AtHeight(h)
  <2> DEFINE c == AtHeight(h)
  <2>1. c \in ChainTo[tip] /\ Height(c) = h /\ c \in Blocks
    BY <1>1, <1>2, <1>3, AtHeightFacts, ChainFacts, HeightFacts
  <2>2. c # tip /\ Height(a) <= Height(c)
    BY <1>2, <1>3, <1>4, <2>1, HeightFacts, <1>1
  <2>3. a \in ChainTo[c]
    <3>1. a \in ChainTo[c] \/ c \in ChainTo[a]
      BY <1>1, <1>3, <2>1, ChainIsLinear
    <3>2. c \in ChainTo[a] /\ c # a => Height(c) < Height(a)
      BY <1>3, HeightFacts
    <3>3. ~(Height(c) < Height(a))
      BY <1>3, <2>1, <2>2, HeightFacts
    <3> QED
      BY <1>3, <3>1, <3>2, <3>3, ChainFacts
  <2> QED
    BY <1>3, <2>1, <2>2, <2>3 DEF GetBlock
<1>5. ASSUME PruneHeight > 0
      PROVE  GetBlock(AtHeight(PruneHeight - 1)) = "pruned"
  <2>1. a # Genesis
    BY <1>2, <1>5, HeightFacts, TreeAssumption
  <2>2. /\ Prev[a] \in ChainTo[tip] /\ Prev[a] \in Blocks
        /\ Height(a) = Height(Prev[a]) + 1 /\ Height(Prev[a]) \in Nat
    BY <1>1, <1>3, <2>1, ChainFacts, HeightFacts
  <2>3. AtHeight(PruneHeight - 1) = Prev[a]
    <3>1. PruneHeight - 1 = Height(Prev[a])
      BY <1>2, <1>3, <2>2
    <3> QED
      BY <1>1, <2>2, <3>1, AtHeightFacts
  <2> QED
    BY <1>1, <1>3, <2>1, <2>2, <2>3 DEF GetBlock
<1> QED
  BY <1>4, <1>5 DEF PruneHeightIsTheLimit

-----------------------------------------------------------------------------
LEMMA ForkFacts ==
  ASSUME tip \in Blocks, NEW b \in Blocks
  PROVE  /\ BranchLen(b) \in Nat
         /\ Cardinality(ChainTo[b] \ ChainTo[tip]) = BranchLen(b)
         /\ b \in ChainTo[tip] => BranchLen(b) = 0
         /\ b \notin ChainTo[tip] => BranchLen(b) # 0
<1> DEFINE common == ChainTo[b] \cap ChainTo[tip]
           fork == FindFork(b)
           branch == ChainTo[b] \ ChainTo[tip]
<1>1. common \subseteq Blocks /\ Genesis \in common
  BY ChainFacts
<1>2. fork \in common /\ \A o \in common : Height(o) <= Height(fork)
  <2>1. \A a \in common : HeightOf[a] \in Int
    BY <1>1, HeightFacts DEF Height
  <2>2. \E a \in common : \A o \in common : Height(o) <= Height(a)
    <3> HIDE DEF common
    <3>1. PICK a \in common : \A o \in common : HeightOf[a] >= HeightOf[o]
      BY <1>1, <2>1, LeastOf
    <3>2. \A o \in common : HeightOf[o] <= HeightOf[a]
      BY <2>1, <3>1
    <3> QED
      BY <3>2 DEF Height
  <2>3. fork = CHOOSE a \in common : \A o \in common : Height(o) <= Height(a)
    BY DEF FindFork
  <2> HIDE DEF common, fork
  <2> QED
    BY <2>2, <2>3
<1> HIDE DEF fork
<1>3. common = ChainTo[fork]
  <2>1. fork \in Blocks /\ ChainTo[fork] \subseteq common
    BY <1>1, <1>2, ChainFacts
  <2>2. ASSUME NEW o \in common PROVE o \in ChainTo[fork]
    <3>1. o \in ChainTo[fork] \/ fork \in ChainTo[o]
      BY <1>2, ChainIsLinear
    <3>2. /\ o \in Blocks /\ Height(o) \in Nat /\ Height(fork) \in Nat
          /\ Height(o) <= Height(fork)
      BY <1>1, <1>2, <2>1, HeightFacts
    <3>3. fork \in ChainTo[o] \ {o} => Height(fork) < Height(o)
      BY <3>2, HeightFacts
    <3>4. o = fork => o \in ChainTo[fork]
      BY <2>1, ChainFacts
    <3> QED
      BY <3>1, <3>2, <3>3, <3>4
  <2> QED
    BY <2>1, <2>2
<1>4. /\ fork \in Blocks /\ Height(fork) \in Nat /\ Height(b) \in Nat
      /\ Height(fork) <= Height(b)
      /\ IsFiniteSet(ChainTo[b]) /\ IsFiniteSet(branch)
      /\ Cardinality(ChainTo[b]) = Height(b) + 1
      /\ Cardinality(ChainTo[fork]) = Height(fork) + 1
  BY <1>1, <1>2, HeightFacts, FS_Subset
<1>5. Cardinality(branch) = Cardinality(ChainTo[b]) - Cardinality(ChainTo[fork])
  <2>1. Cardinality(branch) = Cardinality(ChainTo[b]) - Cardinality(common)
    BY <1>4, FS_Difference
  <2> QED
    BY <1>3, <2>1
<1>6. BranchLen(b) = Height(b) - Height(fork)
  BY DEF BranchLen, fork
<1>7. BranchLen(b) \in Nat /\ Cardinality(branch) = BranchLen(b)
  BY <1>4, <1>5, <1>6
<1>8. (b \in ChainTo[tip]) <=> (branch = {})
  BY ChainFacts
<1>9. (branch = {}) <=> (Cardinality(branch) = 0)
  BY <1>4, FS_EmptySet
<1> QED
  BY <1>7, <1>8, <1>9

(* Without limits getchaintips gives all tips.                             *)
LEMMA AllTips ==
  ASSUME ChainInv, NEW tips \in GetChainTips(Cardinality(Blocks), -1)
  PROVE  tips = SetTips
<1>1. tip \in mapBlockIndex /\ mapBlockIndex \subseteq Blocks
  BY DEF ChainInv, ChainTypeOK
<1>2. SetTips \subseteq Blocks
  BY <1>1 DEF SetTips
<1>3. {b \in SetTips : BranchLen(b) >= -1} = SetTips
  <2>1. \A b \in SetTips : BranchLen(b) \in Nat
    BY <1>1, <1>2, ForkFacts
  <2>2. \A b \in SetTips : BranchLen(b) >= -1
    BY <2>1
  <2> QED
    BY <2>2
<1>4. /\ tips \subseteq SetTips
      /\ Cardinality(tips) = IF Cardinality(SetTips) < Cardinality(Blocks)
                             THEN Cardinality(SetTips) ELSE Cardinality(Blocks)
  BY <1>3 DEF GetChainTips
<1>5. /\ IsFiniteSet(SetTips) /\ Cardinality(SetTips) \in Nat
      /\ Cardinality(Blocks) \in Nat
      /\ Cardinality(SetTips) <= Cardinality(Blocks)
  BY <1>2, FS_Subset, FS_CardinalityType, TreeAssumption
<1>6. Cardinality(tips) = Cardinality(SetTips)
  BY <1>4, <1>5
<1> QED
  BY <1>4, <1>5, <1>6, FS_Subset

LEMMA TipsHold == ChainInv => TipsAreClassified
<1> SUFFICES ASSUME ChainInv, NEW tips \in GetChainTips(Cardinality(Blocks), -1)
             PROVE
    /\ {b \in tips : TipStatus(b) = "active"} = {tip}
    /\ \A b \in tips :
         LET branch == ChainTo[b] \ ChainTo[tip]
         IN  /\ (BranchLen(b) = 0) <=> (b = tip)
             /\ Cardinality(branch) = BranchLen(b)
             /\ (TipStatus(b) = "invalid") <=> (branch \cap failed # {})
             /\ TipStatus(b) = "headers-only" => ~(branch \subseteq received)
             /\ TipStatus(b) = "valid-fork" => branch \subseteq validated
             /\ TipStatus(b) = "valid-headers" => branch \subseteq received
  BY DEF TipsAreClassified
<1>1. /\ tips = SetTips /\ tip \in Blocks /\ mapBlockIndex \subseteq Blocks
      /\ tip \in mapBlockIndex /\ ChainTo[tip] \subseteq received
      /\ received \subseteq mapBlockIndex /\ failed \subseteq mapBlockIndex
      /\ validated \subseteq Blocks
  BY AllTips DEF ChainInv, ChainTypeOK
<1>2. ASSUME NEW b \in tips
      PROVE  b \in mapBlockIndex /\ b \in Blocks /\ (Contains_(b) <=> b = tip)
  <2>1. b \in mapBlockIndex
    BY <1>1 DEF SetTips
  <2>2. ASSUME b \in ChainTo[tip], b # tip PROVE FALSE
    <3>1. PICK c \in ChainTo[tip] \ {Genesis} : Prev[c] = b
      BY <1>1, <2>2, ChainGoesOn
    <3> QED
      BY <1>1, <2>2, <3>1 DEF SetTips
  <2> QED
    BY <1>1, <2>1, <2>2, ChainFacts DEF Contains_
<1>3. tip \in tips
  BY <1>1 DEF SetTips
<1>4. \A b \in tips : (TipStatus(b) = "active") <=> (b = tip)
  BY <1>2 DEF TipStatus
<1>5. ASSUME NEW b \in tips, NEW branch, branch = ChainTo[b] \ ChainTo[tip]
      PROVE  /\ (BranchLen(b) = 0) <=> (b = tip)
             /\ Cardinality(branch) = BranchLen(b)
             /\ (TipStatus(b) = "invalid") <=> (branch \cap failed # {})
             /\ TipStatus(b) = "headers-only" => ~(branch \subseteq received)
             /\ TipStatus(b) = "valid-fork" => branch \subseteq validated
             /\ TipStatus(b) = "valid-headers" => branch \subseteq received
  <2>1. /\ (BranchLen(b) = 0) <=> (b = tip)
        /\ Cardinality(branch) = BranchLen(b)
    BY <1>1, <1>2, <1>5, ForkFacts DEF Contains_
  <2>2. CASE b = tip
    BY <1>2, <1>5, <2>1, <2>2 DEF TipStatus
  <2>3. CASE b # tip
    <3>1. ~Contains_(b) /\ b \in branch
      BY <1>2, <1>5, <2>3, ChainFacts DEF Contains_
    <3>2. branch \cap failed # {} => b \in failed
      BY <1>2, <1>5 DEF ChainInv, Descendants
    <3>3. ~HasChainTx(b) <=> ~(branch \subseteq received)
      BY <1>1, <1>5 DEF HasChainTx
    <3>4. b \in validated => branch \subseteq validated
      <4>1. ASSUME b \in validated PROVE ChainTo[b] \subseteq validated
        <5>1. validated \in SUBSET Blocks /\ Closed(validated)
          BY <1>1 DEF ChainInv
        <5> QED
          BY <1>2, <4>1, <5>1, ChainIsLeast DEF LeastChain
      <4> QED
        BY <1>5, <4>1
    <3> QED
      BY <2>1, <3>1, <3>2, <3>3, <3>4 DEF TipStatus
  <2> QED
    BY <2>2, <2>3
<1> QED
  BY <1>1, <1>3, <1>4, <1>5

-----------------------------------------------------------------------------
LEMMA CoinFacts ==
  ASSUME NEW o \in Made(Txs)
  PROVE  /\ o[1] \in Txs /\ o = <<o[1], o[2]>> /\ o \in Made({o[1]})
         /\ \A S \in SUBSET Txs : (o \in Made(S)) <=> (o[1] \in S)
<1>1. PICK x \in Txs : o \in {x} \X (0 .. Outputs[x] - 1)
  BY DEF Made
<1>2. o[1] = x /\ o = <<o[1], o[2]>>
  BY <1>1
<1>3. \A S \in SUBSET Txs : (o \in Made(S)) <=> (x \in S)
  BY <1>1 DEF Made
<1> QED
  BY <1>1, <1>2, <1>3

(* A mined transaction has the height of the block that it is in.          *)
LEMMA MinedFacts ==
  ASSUME tip \in Blocks, NEW x
  PROVE  /\ (x \in Mined(tip)) <=> ({b \in ChainTo[tip] : x \in Body[b]} # {})
         /\ \A b \in ChainTo[tip] : x \in Body[b] => HeightMined(x) = Height(b)
<1>1. ASSUME NEW b \in ChainTo[tip], x \in Body[b]
      PROVE  HeightMined(x) = Height(b)
  <2>1. Height(b) \in 0 .. Height(tip) /\ AtHeight(Height(b)) = b
    BY AtHeightFacts
  <2>2. /\ HeightMined(x) \in 0 .. Height(tip)
        /\ x \in Body[AtHeight(HeightMined(x))]
    BY <1>1, <2>1 DEF HeightMined
  <2>3. /\ AtHeight(HeightMined(x)) \in ChainTo[tip]
        /\ Height(AtHeight(HeightMined(x))) = HeightMined(x)
    BY <2>2, AtHeightFacts
  <2>4. AtHeight(HeightMined(x)) = b
    BY <1>1, <2>2, <2>3, BodyAssumption
  <2> QED
    BY <2>3, <2>4
<1> QED
  BY <1>1 DEF Mined

LEMMA TxOutHolds == ChainInv => TxOutIsUnspent
<1> SUFFICES ASSUME ChainInv, NEW o \in Made(Txs), NEW fMempool \in BOOLEAN
             PROVE
    LET answer  == GetTxOut(o[1], o[2], fMempool)
        spender(x) == o \in Inputs[x]
        pool == IF fMempool THEN mempool ELSE {}
        at(x) == {b \in ChainTo[tip] : x \in Body[b]}
    IN  /\ (answer # NULL) <=>
             /\ o[1] \in pool \/ at(o[1]) # {}
             /\ \A x \in Txs : spender(x) => x \notin pool /\ at(x) = {}
        /\ answer # NULL =>
             IF at(o[1]) = {} THEN answer.confirmations = 0
             ELSE \A b \in at(o[1]) : answer.confirmations = Confirmations(b)
  BY DEF TxOutIsUnspent
<1> DEFINE answer == GetTxOut(o[1], o[2], fMempool)
           pool == IF fMempool THEN mempool ELSE {}
           at(x) == {b \in ChainTo[tip] : x \in Body[b]}
           inPool == o[1] \in pool
           coins == (IF inPool THEN Made({o[1]}) ELSE Unspent(tip))
                      \ (IF fMempool THEN Spent(mempool) ELSE {})
           confirmations == IF inPool THEN 0
                            ELSE Height(tip) - HeightMined(o[1]) + 1
<1>1. /\ tip \in Blocks /\ mempool \subseteq Txs /\ Mined(tip) \subseteq Txs
      /\ Height(tip) \in Nat
  <2>1. tip \in Blocks /\ mempool \subseteq Txs
    BY DEF ChainInv, ChainTypeOK
  <2>2. Mined(tip) \subseteq Txs
    BY <2>1, ChainFacts, BodyAssumption DEF Mined
  <2> QED
    BY <2>1, <2>2, HeightFacts
<1>2. /\ pool \cap Mined(tip) = {} /\ pool \subseteq Txs
      /\ Spent(Mined(tip)) \subseteq Made(Mined(tip))
  BY <1>1, BodyAssumption DEF ChainInv, Fits
<1>3. \A x : (x \in Mined(tip)) <=> (at(x) # {})
  BY <1>1, MinedFacts
<1>4. answer = IF o \notin coins THEN NULL
               ELSE [bestblock |-> tip, confirmations |-> confirmations]
  BY CoinFacts DEF GetTxOut
<1>5. (o \in coins) <=>
        /\ inPool \/ o[1] \in Mined(tip)
        /\ \A x \in Txs :
             o \in Inputs[x] => x \notin pool /\ x \notin Mined(tip)
  <2>1. (\A x \in Txs : o \in Inputs[x] => x \notin pool /\ x \notin Mined(tip))
          <=> (o \notin Spent(pool) /\ o \notin Spent(Mined(tip)))
    BY <1>1, <1>2 DEF Spent
  <2>2. (o \in coins) <=>
          /\ IF inPool THEN TRUE
             ELSE o[1] \in Mined(tip) /\ o \notin Spent(Mined(tip))
          /\ o \notin Spent(pool)
    <3>1. Spent({}) = {}
      BY DEF Spent
    <3>2. (o \in Unspent(tip)) <=>
            o[1] \in Mined(tip) /\ o \notin Spent(Mined(tip))
      BY <1>1, CoinFacts DEF Unspent
    <3>3. o \in Made({o[1]})
      BY CoinFacts
    <3> QED
      BY <3>1, <3>2, <3>3
  <2>3. inPool => o \notin Spent(Mined(tip))
    BY <1>1, <1>2, CoinFacts
  <2> HIDE DEF coins, pool
  <2> QED
    BY <2>1, <2>2, <2>3
<1>6. \A b \in at(o[1]) : /\ ~inPool
                          /\ confirmations = Confirmations(b)
  <2> TAKE b \in at(o[1])
  <2>1. ~inPool
    BY <1>2, <1>3
  <2>2. HeightMined(o[1]) = Height(b)
    BY <1>1, MinedFacts
  <2> QED
    BY <2>1, <2>2 DEF Confirmations, Contains_
<1>7. o \in coins => confirmations \in Int
  <2>1. CASE inPool
    BY <2>1
  <2>2. CASE ~inPool
    <3>1. ASSUME o \in coins PROVE confirmations \in Int
      <4>1. PICK b \in ChainTo[tip] : o[1] \in Body[b]
        BY <1>3, <1>5, <2>2, <3>1
      <4>2. HeightMined(o[1]) = Height(b) /\ Height(b) \in Nat
        BY <1>1, <4>1, MinedFacts, ChainFacts, HeightFacts
      <4> QED
        BY <1>1, <2>2, <4>2
    <3> QED
      BY <3>1
  <2> QED
    BY <2>1, <2>2
<1> HIDE DEF coins, answer, confirmations
<1>8. (answer # NULL) <=> (o \in coins)
  BY <1>1, <1>4, <1>7, BodyAssumption
<1>9. answer # NULL => answer.confirmations = confirmations
  BY <1>4, <1>8
<1>10. o \in coins /\ at(o[1]) = {} => confirmations = 0
  BY <1>3, <1>5 DEF confirmations
<1>11. /\ (answer # NULL) <=>
             /\ inPool \/ at(o[1]) # {}
             /\ \A x \in Txs : o \in Inputs[x] => x \notin pool /\ at(x) = {}
       /\ answer # NULL =>
             IF at(o[1]) = {} THEN answer.confirmations = 0
             ELSE \A b \in at(o[1]) : answer.confirmations = Confirmations(b)
  <2> HIDE DEF pool, at
  <2> QED
    BY <1>3, <1>5, <1>6, <1>8, <1>9, <1>10
<1> QED
  BY <1>11 DEF answer

-----------------------------------------------------------------------------
(* The i-th block from b on, how many there are of n more, and what        *)
(* getblockheaders says of them.                                           *)
Reached(b, i) == IF Contains_(b) THEN AtHeight(Height(b) + (i - 1)) ELSE b

Following(b, n) ==
  IF ~Contains_(b) \/ n <= 0 THEN 1
  ELSE IF n <= Height(tip) - Height(b) THEN n + 1
  ELSE Height(tip) - Height(b) + 1

HeadersFrom(b, n) ==
  [i \in 1 .. Following(b, n) |-> BlockHeaderToJSON(Reached(b, i))]

Headers == {BlockHeaderToJSON(b) : b \in Blocks}

LEMMA FollowingFacts ==
  ASSUME tip \in Blocks, NEW b \in Blocks, NEW n \in Int
  PROVE  /\ Following(b, n) \in Nat \ {0}
         /\ n >= 0 => Following(b, n) <= n + 1
         /\ Reached(b, 1) = b
         /\ \A i \in 1 .. Following(b, n) : Reached(b, i) \in Blocks
         /\ Contains_(b) => \A i \in 1 .. Following(b, n) :
              /\ Reached(b, i) \in ChainTo[tip]
              /\ Height(b) + (i - 1) \in 0 .. Height(tip)
              /\ Height(Reached(b, i)) = Height(b) + (i - 1)
<1>1. /\ Height(b) \in Nat /\ Height(tip) \in Nat
      /\ Contains_(b) => Height(b) <= Height(tip)
  BY HeightFacts DEF Contains_
<1>2. /\ Following(b, n) \in Nat \ {0}
      /\ n >= 0 => Following(b, n) <= n + 1
      /\ Contains_(b) => Height(b) + (Following(b, n) - 1) <= Height(tip)
  BY <1>1 DEF Following
<1>3. ASSUME Contains_(b), NEW i \in 1 .. Following(b, n)
      PROVE  /\ Reached(b, i) \in ChainTo[tip]
             /\ Height(b) + (i - 1) \in 0 .. Height(tip)
             /\ Height(Reached(b, i)) = Height(b) + (i - 1)
  <2>1. Height(b) + (i - 1) \in 0 .. Height(tip)
    BY <1>1, <1>2, <1>3
  <2> QED
    BY <1>3, <2>1, AtHeightFacts DEF Reached
<1>4. Reached(b, 1) = b
  <2>1. Height(b) + (1 - 1) = Height(b)
    BY <1>1
  <2> QED
    BY <2>1, AtHeightFacts DEF Reached, Contains_
<1>5. \A i \in 1 .. Following(b, n) : Reached(b, i) \in Blocks
  BY <1>3, ChainFacts DEF Reached
<1> QED
  BY <1>2, <1>3, <1>4, <1>5

LEMMA NextFacts ==
  ASSUME tip \in Blocks, NEW b \in Blocks
  PROVE  /\ (Next_(b) = NULL) <=> (~Contains_(b) \/ b = tip)
         /\ Next_(b) # NULL =>
              /\ Next_(b) \in Blocks /\ Contains_(Next_(b))
              /\ Height(Next_(b)) = Height(b) + 1
              /\ Next_(b) # Genesis /\ Prev[Next_(b)] = b
<1>1. CASE ~Contains_(b) \/ b = tip
  BY <1>1 DEF Next_
<1>2. CASE Contains_(b) /\ b # tip
  <2> DEFINE c == AtHeight(Height(b) + 1)
  <2>1. Height(b) \in Nat /\ Height(tip) \in Nat /\ Height(b) < Height(tip)
    BY <1>2, HeightFacts DEF Contains_
  <2>2. Height(b) + 1 \in 0 .. Height(tip)
    BY <2>1
  <2>3. c \in ChainTo[tip] /\ Height(c) = Height(b) + 1 /\ Next_(b) = c
    BY <1>2, <2>2, AtHeightFacts DEF Next_
  <2> HIDE DEF c
  <2>4. c \in Blocks /\ c # Genesis
    BY <2>1, <2>3, ChainFacts, HeightFacts
  <2>5. Prev[c] \in ChainTo[tip] /\ Height(Prev[c]) = Height(b)
    BY <2>1, <2>3, <2>4, ChainFacts, HeightFacts
  <2>6. Prev[c] = b
    BY <1>2, <2>5, AtHeightFacts DEF Contains_
  <2> QED
    BY <1>2, <2>3, <2>4, <2>6, TreeAssumption DEF Contains_
<1> QED
  BY <1>1, <1>2

LEMMA HeadersAsSequence ==
  ASSUME tip \in Blocks, NEW b \in Blocks, NEW n \in Int
  PROVE  /\ HeadersFrom(b, n) \in Seq(Headers)
         /\ Len(HeadersFrom(b, n)) = Following(b, n)
<1>1. HeadersFrom(b, n) \in [1 .. Following(b, n) -> Headers]
  BY FollowingFacts DEF HeadersFrom, Headers
<1>2. Following(b, n) \in Nat
  BY FollowingFacts
<1>3. HeadersFrom(b, n) \in Seq(Headers)
  BY <1>1, <1>2
<1>4. /\ Len(HeadersFrom(b, n)) \in Nat
      /\ DOMAIN HeadersFrom(b, n) = 1 .. Len(HeadersFrom(b, n))
      /\ DOMAIN HeadersFrom(b, n) = 1 .. Following(b, n)
  BY <1>1, <1>3, LenProperties
<1> QED
  BY <1>2, <1>3, <1>4

LEMMA HeadersStep ==
  ASSUME tip \in Blocks, NEW b \in Blocks, NEW n \in Int
  PROVE  HeadersFrom(b, n) =
           <<BlockHeaderToJSON(b)>> \o
             (IF n <= 0 \/ Next_(b) = NULL THEN << >>
              ELSE HeadersFrom(Next_(b), n - 1))
<1> DEFINE first == <<BlockHeaderToJSON(b)>>
           whole == HeadersFrom(b, n)
<1>1. /\ first \in Seq(Headers) /\ Len(first) = 1
      /\ first[1] = BlockHeaderToJSON(b)
  BY DEF Headers
<1>2. whole \in Seq(Headers) /\ Len(whole) = Following(b, n)
  BY HeadersAsSequence
<1>3. /\ Following(b, n) \in Nat \ {0} /\ Reached(b, 1) = b
      /\ Height(b) \in Nat /\ Height(tip) \in Nat
      /\ Contains_(b) => Height(b) <= Height(tip)
      /\ \A i \in 1 .. Following(b, n) :
           whole[i] = BlockHeaderToJSON(Reached(b, i))
  BY FollowingFacts, HeightFacts DEF HeadersFrom, Contains_
<1> HIDE DEF first, whole
<1>4. CASE n <= 0 \/ Next_(b) = NULL
  <2>1. Following(b, n) = 1
    BY <1>3, <1>4, NextFacts DEF Following
  <2>2. first \o << >> = first
    BY <1>1, ConcatEmptySeq
  <2>3. whole[1] = first[1]
    BY <1>1, <1>3, <2>1
  <2>4. whole = first
    BY <1>1, <1>2, <2>1, <2>3, SeqEqual
  <2> QED
    BY <1>4, <2>2, <2>4 DEF first, whole
<1>5. CASE n > 0 /\ Next_(b) # NULL
  <2> DEFINE c == Next_(b)
             rest == HeadersFrom(c, n - 1)
             m == Following(c, n - 1)
  <2>1. /\ c \in Blocks /\ Contains_(b) /\ Contains_(c) /\ b # tip
        /\ Height(c) = Height(b) + 1 /\ n - 1 \in Int
    BY <1>5, NextFacts
  <2> HIDE DEF c
  <2>2. /\ rest \in Seq(Headers) /\ Len(rest) = m
        /\ m \in Nat \ {0} /\ Height(c) <= Height(tip)
        /\ \A i \in 1 .. m : rest[i] = BlockHeaderToJSON(Reached(c, i))
    BY <2>1, HeadersAsSequence, FollowingFacts, HeightFacts
       DEF HeadersFrom, Contains_
  <2> HIDE DEF rest
  <2>3. Following(b, n) = m + 1
    BY <1>3, <1>5, <2>1, <2>2 DEF Following
  <2>4. /\ first \o rest \in Seq(Headers)
        /\ Len(first \o rest) = 1 + m
        /\ \A i \in 1 .. 1 + m : (first \o rest)[i] =
             IF i <= 1 THEN first[i] ELSE rest[i - 1]
    <3> HIDE DEF m
    <3>1. /\ first \o rest \in Seq(Headers)
          /\ Len(first \o rest) = Len(first) + Len(rest)
          /\ \A i \in 1 .. Len(first) + Len(rest) : (first \o rest)[i] =
               IF i <= Len(first) THEN first[i] ELSE rest[i - Len(first)]
      BY <1>1, <2>2, ConcatProperties
    <3> QED
      BY <1>1, <2>2, <3>1
  <2> HIDE DEF m
  <2>5. ASSUME NEW i \in 1 .. 1 + m PROVE whole[i] = (first \o rest)[i]
    <3>1. CASE i = 1
      BY <1>1, <1>3, <2>2, <2>3, <2>4, <3>1
    <3>2. CASE i # 1
      <4>1. i - 1 \in 1 .. m /\ i \in 1 .. Following(b, n)
        BY <2>2, <2>3, <3>2
      <4>2. Height(b) + (i - 1) = Height(c) + ((i - 1) - 1)
        BY <1>3, <2>1, <4>1
      <4>3. Reached(b, i) = Reached(c, i - 1)
        BY <2>1, <4>2 DEF Reached
      <4>4. ~(i <= 1)
        BY <3>2
      <4> QED
        BY <1>3, <2>2, <2>4, <4>1, <4>3, <4>4
    <3> QED
      BY <3>1, <3>2
  <2>6. whole = first \o rest
    <3>1. Len(whole) = 1 + m
      BY <1>2, <2>2, <2>3
    <3>2. Len(whole) = Len(first \o rest)
      BY <2>4, <3>1
    <3> QED
      BY <1>2, <2>4, <2>5, <3>1, <3>2, SeqEqual
  <2>7. ~(n <= 0)
    BY <1>5
  <2> QED
    BY <1>5, <2>6, <2>7 DEF first, whole, rest, c
<1> QED
  BY <1>4, <1>5

LEMMA HeadersAreThose ==
  ASSUME tip \in Blocks, NEW b \in Blocks, NEW count \in Int
  PROVE  GetBlockHeaders(b, count) = HeadersFrom(b, count - 1)
<1> DEFINE IsHeaders(f) ==
             f = [p \in Blocks \X Int |->
                    <<BlockHeaderToJSON(p[1])>> \o
                      (IF p[2] <= 0 \/ Next_(p[1]) = NULL THEN << >>
                       ELSE f[<<Next_(p[1]), p[2] - 1>>])]
           those == [p \in Blocks \X Int |-> HeadersFrom(p[1], p[2])]
           headers == CHOOSE f : IsHeaders(f)
<1>1. GetBlockHeaders(b, count) = headers[<<b, count - 1>>]
  BY DEF GetBlockHeaders
<1>2. IsHeaders(those)
  <2>1. ASSUME NEW p \in Blocks \X Int
        PROVE  those[p] = <<BlockHeaderToJSON(p[1])>> \o
                 (IF p[2] <= 0 \/ Next_(p[1]) = NULL THEN << >>
                  ELSE those[<<Next_(p[1]), p[2] - 1>>])
    <3>1. p[1] \in Blocks /\ p[2] \in Int
      OBVIOUS
    <3>2. Next_(p[1]) # NULL =>
            /\ <<Next_(p[1]), p[2] - 1>> \in Blocks \X Int
            /\ those[<<Next_(p[1]), p[2] - 1>>]
                 = HeadersFrom(Next_(p[1]), p[2] - 1)
      BY <3>1, NextFacts
    <3>3. those[p] = HeadersFrom(p[1], p[2])
      OBVIOUS
    <3> HIDE DEF those
    <3> QED
      BY <3>1, <3>2, <3>3, HeadersStep
  <2> QED
    BY <2>1
<1>3. IsHeaders(headers)
  <2> HIDE DEF those, IsHeaders
  <2> QED
    BY <1>2
<1>4. \A c \in Blocks, n \in Int :
        headers[<<c, n>>] = <<BlockHeaderToJSON(c)>> \o
                              (IF n <= 0 \/ Next_(c) = NULL THEN << >>
                               ELSE headers[<<Next_(c), n - 1>>])
  <2> HIDE DEF headers
  <2> QED
    BY <1>3
<1> HIDE DEF headers
<1> DEFINE B == {c \in Blocks : \E n \in Int :
                   headers[<<c, n>>] # HeadersFrom(c, n)}
<1>5. ASSUME B # {} PROVE FALSE
  <2>1. \A c \in B : HeightOf[c] \in Int
    BY HeightFacts DEF Height
  <2>2. PICK c \in B : \A d \in B : HeightOf[c] >= HeightOf[d]
    <3>1. B \subseteq Blocks
      OBVIOUS
    <3> HIDE DEF B
    <3> QED
      BY <1>5, <2>1, <3>1, LeastOf
  <2>3. PICK n \in Int : headers[<<c, n>>] # HeadersFrom(c, n)
    OBVIOUS
  <2>4. /\ ~(n <= 0) /\ Next_(c) # NULL
        /\ headers[<<Next_(c), n - 1>>] # HeadersFrom(Next_(c), n - 1)
    <3>1. headers[<<c, n>>] = <<BlockHeaderToJSON(c)>> \o
                                (IF n <= 0 \/ Next_(c) = NULL THEN << >>
                                 ELSE headers[<<Next_(c), n - 1>>])
      BY <1>4
    <3>2. HeadersFrom(c, n) = <<BlockHeaderToJSON(c)>> \o
                                (IF n <= 0 \/ Next_(c) = NULL THEN << >>
                                 ELSE HeadersFrom(Next_(c), n - 1))
      BY HeadersStep
    <3> QED
      BY <2>3, <3>1, <3>2
  <2>5. /\ Next_(c) \in B
        /\ HeightOf[Next_(c)] = HeightOf[c] + 1
    BY <2>4, NextFacts DEF Height
  <2> QED
    BY <2>1, <2>2, <2>5
<1> QED
  BY <1>1, <1>5

LEMMA HeadersHold == ChainInv => HeadersFollowTheChain
<1> SUFFICES ASSUME ChainInv, NEW b \in mapBlockIndex,
                    NEW count \in 1 .. MaxHeaders
             PROVE
    LET h == GetBlockHeaders(b, count)
        last == h[Len(h)]
    IN  /\ h[1].hash = b
        /\ Len(h) <= count
        /\ Len(h) = count \/ last.confirmations \in {-1, 1}
        /\ \A i \in 1 .. Len(h) - 1 :
              /\ h[i + 1].previousblockhash = h[i].hash
              /\ h[i].nextblockhash = h[i + 1].hash
              /\ h[i].confirmations = h[i + 1].confirmations + 1
        /\ \A i \in 1 .. Len(h) : h[i].confirmations > 0 =>
              GetBlockHash(h[i].height) = h[i].hash
  BY DEF HeadersFollowTheChain
<1> DEFINE n == count - 1
           h == GetBlockHeaders(b, count)
           m == Following(b, n)
           at(i) == Reached(b, i)
<1>1. /\ tip \in Blocks /\ b \in Blocks /\ count = n + 1
      /\ n \in Nat /\ n \in Int /\ n >= 0
      /\ Height(tip) \in Nat /\ Height(b) \in Nat
      /\ Contains_(b) => Height(b) <= Height(tip)
  BY TreeAssumption, HeightFacts DEF ChainInv, ChainTypeOK, Contains_
<1> HIDE DEF n
<1>2. /\ Len(h) = m /\ m \in Nat \ {0} /\ m <= n + 1
      /\ \A i \in 1 .. m : h[i] = BlockHeaderToJSON(at(i))
      /\ at(1) = b
  <2>1. h = HeadersFrom(b, n)
    BY <1>1, HeadersAreThose DEF n
  <2>2. Len(h) = m
    BY <1>1, <2>1, HeadersAsSequence
  <2>3. m \in Nat \ {0} /\ m <= n + 1 /\ at(1) = b
    BY <1>1, FollowingFacts
  <2> QED
    BY <2>1, <2>2, <2>3 DEF HeadersFrom
<1> HIDE DEF h
<1>3. \A i \in 1 .. m :
        /\ h[i].hash = at(i) /\ h[i].height = Height(at(i))
        /\ h[i].confirmations = Confirmations(at(i))
        /\ h[i].previousblockhash =
             IF at(i) = Genesis THEN NULL ELSE Prev[at(i)]
        /\ h[i].nextblockhash = Next_(at(i))
  BY <1>2 DEF BlockHeaderToJSON
<1>4. \A i \in 1 .. m : at(i) \in Blocks
  BY <1>1, FollowingFacts
<1>5. ASSUME Contains_(b), NEW i \in 1 .. m
      PROVE  /\ Contains_(at(i)) /\ Height(at(i)) = Height(b) + (i - 1)
             /\ Confirmations(at(i)) =
                  Height(tip) - (Height(b) + (i - 1)) + 1
  <2>1. Contains_(at(i)) /\ Height(at(i)) = Height(b) + (i - 1)
    BY <1>1, <1>5, FollowingFacts DEF Contains_
  <2> QED
    BY <2>1 DEF Confirmations
<1>6. m = count \/ h[m].confirmations \in {-1, 1}
  <2>1. CASE ~Contains_(b)
    BY <1>2, <1>3, <2>1 DEF Reached, Confirmations
  <2>2. CASE Contains_(b)
    <3>1. m = count \/ m = Height(tip) - Height(b) + 1
      BY <1>1, <2>2 DEF Following
    <3>2. m = Height(tip) - Height(b) + 1 => Confirmations(at(m)) = 1
      BY <1>1, <1>2, <1>5, <2>2
    <3> QED
      BY <1>2, <1>3, <3>1, <3>2
  <2> QED
    BY <2>1, <2>2
<1>7. ASSUME NEW i \in 1 .. m - 1
      PROVE  /\ h[i + 1].previousblockhash = h[i].hash
             /\ h[i].nextblockhash = h[i + 1].hash
             /\ h[i].confirmations = h[i + 1].confirmations + 1
  <2>1. Contains_(b) /\ i \in 1 .. m /\ i + 1 \in 1 .. m
    BY <1>1, <1>2 DEF Following
  <2>2. /\ Contains_(at(i)) /\ Height(at(i)) = Height(b) + (i - 1)
        /\ Height(at(i + 1)) = Height(b) + i
        /\ Confirmations(at(i)) = Confirmations(at(i + 1)) + 1
    BY <1>1, <1>5, <2>1
  <2>3. at(i) # tip
    <3>1. Height(b) + i <= Height(tip)
      BY <1>1, <2>1, FollowingFacts
    <3> QED
      BY <1>1, <2>1, <2>2, <3>1
  <2>4. Next_(at(i)) = at(i + 1)
    <3>1. Height(at(i)) + 1 = Height(b) + ((i + 1) - 1)
      BY <1>1, <2>1, <2>2
    <3> QED
      BY <2>1, <2>2, <2>3, <3>1 DEF Next_, Reached
  <2>5. at(i + 1) # Genesis /\ Prev[at(i + 1)] = at(i)
    BY <1>1, <1>4, <2>1, <2>2, <2>3, <2>4, NextFacts
  <2> QED
    BY <1>3, <2>1, <2>2, <2>4, <2>5
<1>8. ASSUME NEW i \in 1 .. m, h[i].confirmations > 0
      PROVE  GetBlockHash(h[i].height) = h[i].hash
  <2>1. Contains_(at(i))
    BY <1>3, <1>8 DEF Confirmations
  <2> QED
    BY <1>1, <1>3, <2>1, AtHeightFacts DEF Contains_, GetBlockHash
<1>9. /\ h[1].hash = b
      /\ Len(h) <= count
      /\ Len(h) = count \/ h[Len(h)].confirmations \in {-1, 1}
      /\ \A i \in 1 .. Len(h) - 1 :
            /\ h[i + 1].previousblockhash = h[i].hash
            /\ h[i].nextblockhash = h[i + 1].hash
            /\ h[i].confirmations = h[i + 1].confirmations + 1
      /\ \A i \in 1 .. Len(h) : h[i].confirmations > 0 =>
            GetBlockHash(h[i].height) = h[i].hash
  <2>1. 1 \in 1 .. m
    BY <1>2
  <2>2. h[1].hash = b
    BY <1>2, <1>3, <2>1
  <2> HIDE DEF m
  <2> QED
    BY <1>1, <1>2, <1>6, <1>7, <1>8, <2>2
<1> QED
  BY <1>9 DEF h

(* Every answer of the queries describes the chain of that moment, in any  *)
(* state that the commands, blocks, transactions and pruning can lead to.  *)
THEOREM AnswersAlwaysDescribe ==
  ChainInit /\ [][ChainNext]_chainVars => []AnswersDescribeTheChain
<1>1. ChainInv => AnswersDescribeTheChain
  BY HeadersHold, TxOutHolds, PruneHeightHolds, MajorityHolds, TipsHold
     DEF ChainInv, AnswersDescribeTheChain
<1> QED
  BY <1>1, ChainInitHolds, ChainStep, PTL
==============================================================================
