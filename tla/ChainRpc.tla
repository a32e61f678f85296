------------------------------- MODULE ChainRpc -------------------------------
(***************************************************************************)
(* The block chain commands of Maternodes/ChainX-MN/rpcclient.cpp on a     *)
(* tree of blocks that grows, reorganises and is pruned around them.       *)
(* Queries run under cs_main and are operators of the state; only          *)
(* invalidateblock and reconsiderblock change it, each in two steps with   *)
(* the lock released between them.  The tree itself, the coins and the     *)
(* memory pool belong to main.cpp, which the repository lacks.             *)
(***************************************************************************)
EXTENDS Integers, FiniteSets, FiniteSetsExt, Sequences

CONSTANTS
  Blocks, Genesis,
  Prev,        \* pprev of every block but Genesis
  ChainWork,   \* nChainWork; the chain with the most is made active
  Version,     \* nVersion
  Body,        \* vtx: the transactions of a block
  Txs,
  Outputs,     \* a transaction -> the number of its outputs
  Inputs,      \* a transaction -> the <<transaction, n>> it spends
  RpcThreads,  \* threads that serve commands
  NULL,
  Keep,        \* blocks below the tip that pruning keeps
  MaxHeaders,  \* MAX_HEADERS_RESULTS
  Window       \* nMajorityWindow

ASSUME TreeAssumption ==
  /\ IsFiniteSet(Blocks) /\ Genesis \in Blocks /\ NULL \notin Blocks
  /\ Prev \in [Blocks \ {Genesis} -> Blocks]
  /\ ChainWork \in [Blocks -> Nat] /\ Version \in [Blocks -> Int]
  /\ \A b \in Blocks \ {Genesis} : ChainWork[Prev[b]] < ChainWork[b]
  /\ Keep \in Nat /\ MaxHeaders \in Nat \ {0} /\ Window \in Nat

VARIABLES
  mapBlockIndex,  \* the blocks whose header is known
  received,       \* blocks whose body has come: nTx > 0
  haveData,       \* BLOCK_HAVE_DATA: the body is on disk
  validated,      \* BLOCK_VALID_SCRIPTS: was connected once
  failed,         \* BLOCK_FAILED_MASK
  tip,            \* chainActive.Tip()
  mempool,
  call            \* a thread -> what its command has still to do

chainVars == <<mapBlockIndex, received, haveData, validated, failed, tip,
               mempool, call>>

-----------------------------------------------------------------------------
(* The tree, the chain that is active, its coins and the pool.             *)
Branch[b \in Blocks] ==
  IF b = Genesis THEN {b} ELSE {b} \cup Branch[Prev[b]]

ChainTo == [b \in Blocks |-> Branch[b]]
HeightOf == [b \in Blocks |-> Cardinality(ChainTo[b]) - 1]

Height(b)      == HeightOf[b]
Descendants(b) == {d \in Blocks : b \in ChainTo[d]}
Contains_(b)   == b \in ChainTo[tip]
AtHeight(h)    == CHOOSE b \in ChainTo[tip] : Height(b) = h

Next_(b) == IF Contains_(b) /\ b # tip THEN AtHeight(Height(b) + 1) ELSE NULL

FindFork(b) ==
  LET common == ChainTo[b] \cap ChainTo[tip]
  IN  CHOOSE a \in common : \A o \in common : Height(o) <= Height(a)

(* nChainTx # 0: the bodies of the block and of all before it have come.   *)
HasChainTx(b) == ChainTo[b] \subseteq received

Mined(t)   == UNION {Body[b] : b \in ChainTo[t]}
Made(S)    == UNION {{x} \X (0 .. Outputs[x] - 1) : x \in S}
Spent(S)   == UNION {Inputs[x] : x \in S}
Unspent(t) == Made(Mined(t)) \ Spent(Mined(t))

(* Every chain has a transaction in one of its blocks at most and makes    *)
(* what it spends: the connecting of a block that main.cpp would refuse    *)
(* for its body is left out.  No answer of gettxout is taken for NULL.     *)
ASSUME BodyAssumption ==
  /\ Body \in [Blocks -> SUBSET Txs] /\ Outputs \in [Txs -> Nat]
  /\ \A t \in Blocks :
       /\ Spent(Mined(t)) \subseteq Made(Mined(t))
       /\ \A a, b \in ChainTo[t] : a # b => Body[a] \cap Body[b] = {}
  /\ NULL \notin [bestblock : Blocks, confirmations : Int]

Fits(pool, t) ==
  /\ pool \cap Mined(t) = {}
  /\ Spent(pool) \subseteq Unspent(t) \cup Made(pool)
  /\ \A x, y \in pool : x # y => Inputs[x] \cap Inputs[y] = {}

(* The pool when t becomes the tip: what was disconnected returns to it,   *)
(* as far as it still fits.                                                *)
PoolsAfter(t) ==
  LET offered == mempool \cup (Mined(tip) \ Mined(t))
      fitting == {pool \in SUBSET offered : Fits(pool, t)}
  IN  {pool \in fitting : \A o \in fitting : ~(pool \subseteq o) \/ pool = o}

MoveTo(t) ==
  /\ tip' = t
  /\ validated' = validated \cup ChainTo[t]
  /\ mempool' \in PoolsAfter(t)

(* Disconnecting stops at a block whose body has been pruned.              *)
Disconnectable(blocks) == blocks \subseteq haveData
StuckAt(blocks) ==
  CHOOSE b \in blocks \ haveData :
    \A o \in blocks \ haveData : Height(o) <= Height(b)

-----------------------------------------------------------------------------
(* The rest of the node.                                                   *)
Candidates(bad) ==
  {b \in mapBlockIndex \ bad :
     HasChainTx(b) /\ ChainTo[b] \ ChainTo[tip] \subseteq haveData}

Best(b, bad) ==
  /\ b \in Candidates(bad)
  /\ \A o \in Candidates(bad) : ChainWork[o] <= ChainWork[b]

(* ActivateBestChain; ok says whether the state it returns is valid.       *)
ActivateBestChain(ok) ==
  \/ /\ ok /\ Best(tip, failed)
     /\ UNCHANGED <<tip, validated, mempool>>
  \/ /\ ~Best(tip, failed)
     /\ \E b \in Blocks :
          LET leaving == ChainTo[tip] \ ChainTo[b]
          IN  /\ Best(b, failed)
              /\ ok = Disconnectable(leaving)
              /\ MoveTo(IF ok THEN b ELSE StuckAt(leaving))

Running == \A t \in RpcThreads : call[t] # "aborted"

AcceptHeader(b) ==
  /\ b \notin mapBlockIndex
  /\ Prev[b] \in mapBlockIndex \ failed
  /\ mapBlockIndex' = mapBlockIndex \cup {b}
  /\ UNCHANGED <<received, haveData, validated, failed, tip, mempool, call>>

(* The thread that took the body looks for a better chain next.            *)
AcceptBody(t, b) ==
  /\ call[t] = "none"
  /\ b \in mapBlockIndex \ (received \cup failed)
  /\ received' = received \cup {b}
  /\ haveData' = haveData \cup {b}
  /\ call' = [call EXCEPT ![t] = "activate"]
  /\ UNCHANGED <<mapBlockIndex, validated, failed, tip, mempool>>

AcceptTx(x) ==
  /\ x \notin mempool
  /\ Fits(mempool \cup {x}, tip)
  /\ mempool' = mempool \cup {x}
  /\ UNCHANGED <<mapBlockIndex, received, haveData, validated, failed, tip,
                 call>>

Prune(b) ==
  /\ b \in haveData
  /\ Height(b) + Keep < Height(tip)
  /\ haveData' = haveData \ {b}
  /\ UNCHANGED <<mapBlockIndex, received, validated, failed, tip, mempool,
                 call>>

-----------------------------------------------------------------------------
(* The commands that change the chain.  A block that is not in             *)
(* mapBlockIndex is refused before anything is done.                       *)
Invalidated(t, b) ==
  /\ call[t] = "none"
  /\ failed' = failed \cup {b} \cup (Descendants(b) \cap mapBlockIndex)
  /\ LET leaving == ChainTo[tip] \cap Descendants(b)
         ok == Disconnectable(leaving)
     IN  /\ call' = [call EXCEPT ![t] = IF ok THEN "activate" ELSE "aborted"]
         /\ IF leaving = {}
            THEN UNCHANGED <<tip, validated, mempool>>
            ELSE MoveTo(IF ok THEN Prev[b] ELSE StuckAt(leaving))
  /\ UNCHANGED <<mapBlockIndex, received, haveData>>

(* Mutant: the block need not be known.                                    *)
InvalidateAnyBlock(t, b) == b # Genesis /\ Invalidated(t, b)

InvalidateBlock(t, b) ==
  b \in mapBlockIndex \ {Genesis} /\ Invalidated(t, b)

ReconsiderBlock(t, b) ==
  /\ call[t] = "none"
  /\ b \in mapBlockIndex
  /\ failed' = failed \ (Descendants(b) \cup ChainTo[b])
  /\ call' = [call EXCEPT ![t] = "activate"]
  /\ UNCHANGED <<mapBlockIndex, received, haveData, validated, tip, mempool>>

(* Mutant: the commands end without looking for a better chain.            *)
FinishCommandIdly(t) ==
  /\ call[t] = "activate"
  /\ call' = [call EXCEPT ![t] = "none"]
  /\ UNCHANGED <<mapBlockIndex, received, haveData, validated, failed, tip,
                 mempool>>

(* The second half of both commands, the same lines in each (those of      *)
(* reconsiderblock are 1044 to 1050).  ActivateBestChain, which takes the  *)
(* lock again for every block it connects or disconnects, is one step.     *)
FinishCommand(t) ==
  /\ call[t] = "activate"
  /\ \E ok \in BOOLEAN :
       /\ ActivateBestChain(ok)
       /\ call' = [call EXCEPT ![t] = IF ok THEN "none" ELSE "aborted"]
  /\ UNCHANGED <<mapBlockIndex, received, haveData, failed>>

ChainInit ==
  /\ mapBlockIndex = {Genesis}
  /\ received = {Genesis} /\ haveData = {Genesis} /\ validated = {Genesis}
  /\ failed = {}
  /\ tip = Genesis
  /\ mempool = {}
  /\ call = [t \in RpcThreads |-> "none"]

ChainNext ==
  /\ Running
  /\ \/ \E b \in Blocks : AcceptHeader(b) \/ Prune(b)
     \/ \E x \in Txs : AcceptTx(x)
     \/ \E t \in RpcThreads :
          \/ \E b \in Blocks : \/ AcceptBody(t, b)
                               \/ InvalidateBlock(t, b)
                               \/ ReconsiderBlock(t, b)
          \/ FinishCommand(t)

(* A command that has begun is carried to its end by its thread.           *)
ChainSpec ==
  /\ ChainInit
  /\ [][ChainNext]_chainVars
  /\ \A t \in RpcThreads : WF_chainVars(Running /\ FinishCommand(t))
-----------------------------------------------------------------------------
(* The queries.  Those that ask for a block refuse one that is not in      *)
(* mapBlockIndex, and answer from the state as it is.                      *)
Confirmations(b) ==
  IF Contains_(b) THEN Height(tip) - Height(b) + 1 ELSE -1

BlockHeaderToJSON(b) ==
  [hash |-> b, confirmations |-> Confirmations(b), height |-> Height(b),
   previousblockhash |-> IF b = Genesis THEN NULL ELSE Prev[b],
   nextblockhash |-> Next_(b)]

(* Mutant: the count is tested before it is taken down.                    *)
GetBlockHeadersOneMore(b, count) ==
  LET headers[p \in Blocks \X Int] ==
        <<BlockHeaderToJSON(p[1])>> \o
          (IF p[2] < 0 \/ Next_(p[1]) = NULL THEN << >>
           ELSE headers[<<Next_(p[1]), p[2] - 1>>])
  IN  headers[<<b, count - 1>>]

(* The loop follows chainActive.Next until the count or the chain ends.    *)
GetBlockHeaders(b, count) ==
  LET headers[p \in Blocks \X Int] ==
        <<BlockHeaderToJSON(p[1])>> \o
          (IF p[2] <= 0 \/ Next_(p[1]) = NULL THEN << >>
           ELSE headers[<<Next_(p[1]), p[2] - 1>>])
  IN  headers[<<b, count - 1>>]

GetBlockHash(h) == IF h \in 0 .. Height(tip) THEN AtHeight(h) ELSE NULL

(* nHeight of the coins of a transaction in the chain.                     *)
HeightMined(x) == CHOOSE h \in 0 .. Height(tip) : x \in Body[AtHeight(h)]

(* Mutant: what the pool spends is not taken out.                          *)
GetTxOutUnpruned(x, n, fMempool) ==
  LET inPool == fMempool /\ x \in mempool
      coins  == IF inPool THEN Made({x}) ELSE Unspent(tip)
  IN  IF <<x, n>> \notin coins THEN NULL
      ELSE [bestblock |-> tip,
            confirmations |->
              IF inPool THEN 0
              ELSE Height(tip) - HeightMined(x) + 1]

(* coins is what the view of the chain, or of the pool over it, has of the *)
(* transaction; pruneSpent takes out what the pool spends.                 *)
GetTxOut(x, n, fMempool) ==
  LET inPool == fMempool /\ x \in mempool
      coins  == (IF inPool THEN Made({x}) ELSE Unspent(tip))
                  \ (IF fMempool THEN Spent(mempool) ELSE {})
  IN  IF <<x, n>> \notin coins THEN NULL
      ELSE [bestblock |-> tip,
            confirmations |->
              IF inPool THEN 0
              ELSE Height(tip) - HeightMined(x) + 1]

(* "pruned", "unreadable" or the block; the disk is read after the test.   *)
GetBlock(b) ==
  IF b \notin haveData /\ b \in received THEN "pruned"
  ELSE IF b \notin haveData THEN "unreadable"
  ELSE b

(* Mutant: the walk tests the block it stands on.                          *)
PruneHeightPast ==
  LET back[b \in Blocks] ==
        IF b # Genesis /\ b \in haveData THEN back[Prev[b]] ELSE b
  IN  Height(back[tip])

(* getblockchaininfo walks back while the block before has its body.       *)
PruneHeight ==
  LET back[b \in Blocks] ==
        IF b # Genesis /\ Prev[b] \in haveData THEN back[Prev[b]] ELSE b
  IN  Height(back[tip])

(* Mutant: one block more than the window is looked at.                    *)
SoftForkFoundPast(minVersion) ==
  LET found[p \in Blocks \X Nat] ==
        IF p[2] > Window THEN 0
        ELSE (IF Version[p[1]] >= minVersion THEN 1 ELSE 0)
               + (IF p[1] = Genesis THEN 0 ELSE found[<<Prev[p[1]], p[2] + 1>>])
  IN  found[<<tip, 0>>]

SoftForkFound(minVersion) ==
  LET found[p \in Blocks \X Nat] ==
        IF p[2] >= Window THEN 0
        ELSE (IF Version[p[1]] >= minVersion THEN 1 ELSE 0)
               + (IF p[1] = Genesis THEN 0 ELSE found[<<Prev[p[1]], p[2] + 1>>])
  IN  found[<<tip, 0>>]

(* getchaintips: the blocks no known block follows, and the tip.           *)
SetTips ==
  (mapBlockIndex \ {Prev[b] : b \in mapBlockIndex \ {Genesis}}) \cup {tip}

BranchLen(b) == Height(b) - Height(FindFork(b))

(* Mutant: a body that is missing is looked for before a failure.          *)
TipStatusBodiesFirst(b) ==
  CASE Contains_(b)        -> "active"
    [] ~Contains_(b) /\ ~HasChainTx(b) -> "headers-only"
    [] ~Contains_(b) /\ HasChainTx(b) /\ b \in failed -> "invalid"
    [] OTHER -> IF b \in validated THEN "valid-fork" ELSE "valid-headers"

TipStatus(b) ==
  IF Contains_(b) THEN "active"
  ELSE IF b \in failed THEN "invalid"
  ELSE IF ~HasChainTx(b) THEN "headers-only"
  ELSE IF b \in validated THEN "valid-fork"
  ELSE "valid-headers"

(* The highest first; branches that are too short are passed over, and     *)
(* count of the rest are given.  Two tips of one height come in any order. *)
GetChainTips(count, branchlen) ==
  LET long == {b \in SetTips : BranchLen(b) >= branchlen}
  IN  {tips \in SUBSET long :
         /\ Cardinality(tips) = IF Cardinality(long) < count
                                THEN Cardinality(long) ELSE count
         /\ \A b \in tips, o \in long \ tips : Height(b) >= Height(o)}

-----------------------------------------------------------------------------
(* The variables have their types.                                         *)
ChainTypeOK ==
  /\ Genesis \in validated /\ validated \subseteq received
  /\ haveData \subseteq received /\ received \subseteq mapBlockIndex
  /\ mapBlockIndex \subseteq Blocks /\ failed \subseteq mapBlockIndex
  /\ tip \in validated /\ mempool \subseteq Txs
  /\ call \in [RpcThreads -> {"none", "activate", "aborted"}]

(* While no command is half done the active chain is the best of those     *)
(* that are known, available and not marked: what invalidateblock and      *)
(* reconsiderblock promise by calling ActivateBestChain, also when they    *)
(* overlap each other or the arrival of blocks.                            *)
IdleMeansBest ==
  (\A t \in RpcThreads : call[t] = "none") => Best(tip, failed)

(* getblockheaders answers a chain: each header is the previousblockhash   *)
(* of the next and has it as nextblockhash, with one confirmation more; it *)
(* ends at the count asked for, at the tip, or at a block off the chain.   *)
HeadersFollowTheChain ==
  \A b \in mapBlockIndex, count \in 1 .. MaxHeaders :
    LET h == GetBlockHeaders(b, count)
        last == h[Len(h)]
    IN  /\ h[1].hash = b
        /\ Len(h) <= count
        /\ Len(h) = count \/ last.confirmations \in {-1, 1}
        /\ \A i \in 1 .. Len(h) - 1 :
              /\ h[i + 1].previousblockhash = h[i].hash
              /\ h[i].nextblockhash = h[i + 1].hash
              /\ h[i].confirmations = h[i + 1].confirmations + 1
        /\ \A i \in 1 .. Len(h) : h[i].confirmations > 0 =>
              GetBlockHash(h[i].height) = h[i].hash

(* gettxout answers for exactly the outputs that nothing has spent, in the *)
(* chain or, if asked, in the pool, and with the confirmations the block   *)
(* of the transaction has, or none for one of the pool.                    *)
TxOutIsUnspent ==
  \A o \in Made(Txs), fMempool \in BOOLEAN :
    LET answer  == GetTxOut(o[1], o[2], fMempool)
        spender(x) == o \in Inputs[x]
        pool == IF fMempool THEN mempool ELSE {}
        at(x) == {b \in ChainTo[tip] : x \in Body[b]}
    IN  /\ (answer # NULL) <=>
             /\ o[1] \in pool \/ at(o[1]) # {}
             /\ \A x \in Txs : spender(x) => x \notin pool /\ at(x) = {}
        /\ answer # NULL =>
             IF at(o[1]) = {} THEN answer.confirmations = 0
             ELSE \A b \in at(o[1]) : answer.confirmations = Confirmations(b)

(* From the height getblockchaininfo gives as pruneheight on, getblock has *)
(* every block of the active chain, and not the one before it; unless the  *)
(* tip itself has been pruned, which nothing but it is reported for then.  *)
PruneHeightIsTheLimit ==
  /\ \A h \in PruneHeight .. Height(tip) :
       GetBlock(AtHeight(h)) = AtHeight(h) \/ h = Height(tip)
  /\ PruneHeight > 0 => GetBlock(AtHeight(PruneHeight - 1)) = "pruned"

(* SoftForkMajorityDesc counts the upgraded among the last Window blocks   *)
(* of the active chain, also while it is shorter than that.                *)
MajorityOfTheWindow ==
  \A v \in {Version[b] : b \in Blocks} :
    SoftForkFound(v) =
      Cardinality({b \in ChainTo[tip] : /\ Height(tip) - Height(b) < Window
                                        /\ Version[b] >= v})

(* getchaintips: without limits one tip is active, it alone has branchlen  *)
(* 0, and the status is the one the help text gives for the branch.        *)
TipsAreClassified ==
  \A tips \in GetChainTips(Cardinality(Blocks), -1) :
    /\ {b \in tips : TipStatus(b) = "active"} = {tip}
    /\ \A b \in tips :
         LET branch == ChainTo[b] \ ChainTo[tip]
         IN  /\ (BranchLen(b) = 0) <=> (b = tip)
             /\ Cardinality(branch) = BranchLen(b)
             /\ (TipStatus(b) = "invalid") <=> (branch \cap failed # {})
             /\ TipStatus(b) = "headers-only" => ~(branch \subseteq received)
             /\ TipStatus(b) = "valid-fork" => branch \subseteq validated
             /\ TipStatus(b) = "valid-headers" => branch \subseteq received

(* Every query answers for the chain as it is at that moment, between the  *)
(* two halves of other threads' commands too.                              *)
AnswersDescribeTheChain ==
  /\ ChainTypeOK
  /\ HeadersFollowTheChain
  /\ TxOutIsUnspent
  /\ PruneHeightIsTheLimit
  /\ MajorityOfTheWindow
  /\ TipsAreClassified

(* "Always report the currently active tip." (rpcclient.cpp:887), here of  *)
(* calls that limit the number of tips.                                    *)
ActiveTipReported ==
  \A count \in 1 .. Cardinality(Blocks) :
    \A tips \in GetChainTips(count, -1) : tip \in tips

(* "heighest block available" (rpcclient.cpp:756): the block at the height *)
(* reported can be had.                                                    *)
PruneHeightAvailable == GetBlock(AtHeight(PruneHeight)) # "pruned"

(* A chain that is no longer the best is left, as the commands' threads    *)
(* carry them out, unless the node cannot disconnect it and stops.         *)
BestChainWins ==
  ~Best(tip, failed) ~> (Best(tip, failed) \/ ~Running)
=============================================================================
