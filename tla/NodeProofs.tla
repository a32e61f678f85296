------------------------------ MODULE NodeProofs ------------------------------
(***************************************************************************)
(* For any threads, masternodes, objects and configuration: the records    *)
(* of the governance manager agree with what commands report and peers     *)
(* were told, no query passes over an object, and the masternode of the    *)
(* node comes up as it is configured.                                      *)
(***************************************************************************)
EXTENDS Node, SumTheorems

-----------------------------------------------------------------------------
(* The masternode.                                                         *)

Configured == fMasterNode /\ fListen /\ ((network = "main") <=> defaultPort)
Sending == {c \in Threads : at[c] = "send"}

(* Where a thread is that has found the node to be a masternode, and where *)
(* it is when it has found a type.                                         *)
Checking == {"synced", "caught up", "type", "initial"}
Starting == {"remote", "local", "restored", "refused", "announce",
             "announce again"}

(* A thread sends only when the last ping is old, and none was sent since: *)
(* the pings of a period and the threads that are about to send one are    *)
(* together no more than the threads.  A type that is known, or that a     *)
(* thread has found, was found by the checks of the configuration.         *)
ActivationInv ==
  /\ Active!TypeOK
  /\ (nState = "STARTED" \/ fPingerEnabled \/ eType # "UNKNOWN") => Configured
  /\ \A c \in Threads : /\ at[c] \in Checking => fMasterNode
                        /\ at[c] \in Starting => Configured
  /\ ~recent => pings = 0
  /\ pings + Cardinality(Sending) <= Cardinality(Threads)

LEMMA ThreadsFinite ==
  /\ Cardinality(Threads) \in Nat
  /\ \A S \in SUBSET Threads : /\ IsFiniteSet(S) /\ Cardinality(S) \in Nat
                               /\ Cardinality(S) <= Cardinality(Threads)
BY GovernanceAssumption, FS_Subset, FS_CardinalityType

LEMMA ActivationInit == NodeInit => ActivationInv
<1> SUFFICES ASSUME NodeInit PROVE ActivationInv
  OBVIOUS
<1> USE DEF NodeInit, Active!Init
<1>1. Sending = {}
  BY DEF Sending
<1>2. Cardinality(Sending) = 0
  BY <1>1, FS_EmptySet
<1>3. Active!TypeOK
  BY DEF Active!TypeOK, Active!NStates, Active!Types, Active!Steps
<1> QED
  BY <1>2, <1>3, ThreadsFinite DEF ActivationInv, Checking, Starting

(* The step of one thread of ManageState, and a step that leaves the       *)
(* threads where they are.                                                 *)
LEMMA NobodySends ==
  ASSUME ActivationInv, UNCHANGED pings, Sending' \subseteq Sending
  PROVE  pings' + Cardinality(Sending') <= Cardinality(Threads)
<1>1. /\ Sending \in SUBSET Threads /\ IsFiniteSet(Sending)
      /\ Cardinality(Sending) \in Nat /\ pings \in Nat
  BY ThreadsFinite DEF Sending, ActivationInv, Active!TypeOK
<1>2. Cardinality(Sending') <= Cardinality(Sending) /\ IsFiniteSet(Sending')
  BY <1>1, FS_Subset
<1>3. Cardinality(Sending') \in Nat
  BY <1>2, FS_CardinalityType
<1> QED
  BY <1>1, <1>2, <1>3, ThreadsFinite DEF ActivationInv

(* What the steps of ManageState and of the start command before the ping  *)
(* have in common.                                                         *)
Managing(c) ==
  \/ Active!Call(c) \/ Active!StartCommand(c) \/ Active!Restarted(c)
  \/ Active!ManageState(c) \/ Active!WaitForSync(c) \/ Active!LookAtState(c)
  \/ Active!CaughtUp(c) \/ Active!LookAtType(c) \/ Active!Initial(c)
  \/ Active!IsRemote(c) \/ Active!IsLocal(c) \/ Active!ManageStateRemote(c)
  \/ Active!LocalAsRemote(c) \/ Active!IsStarted(c)
  \/ Active!ManageStateLocal(c)

LEMMA ManagingMoves ==
  ASSUME ActivationInv, NEW c \in Threads, Managing(c)
  PROVE  /\ UNCHANGED <<fMasterNode, network, fListen, defaultPort, pings,
                        recent>>
         /\ at' = [at EXCEPT ![c] = at'[c]]
         /\ at'[c] \in (Active!Steps \cup {"out", "restart"}) \ {"send"}
         /\ nState' \in Active!NStates /\ eType' \in Active!Types
<1> USE DEF Active!state, Active!config, Active!Go, Active!Steps,
            Active!NStates, Active!Types, ActivationInv, Active!TypeOK
<1>1. CASE Active!Call(c) \/ Active!StartCommand(c) \/ Active!Restarted(c)
  BY <1>1 DEF Active!Call, Active!StartCommand, Active!Restarted
<1>2. CASE Active!ManageState(c) \/ Active!WaitForSync(c)
           \/ Active!LookAtState(c) \/ Active!CaughtUp(c)
           \/ Active!LookAtType(c)
  BY <1>2 DEF Active!ManageState, Active!WaitForSync, Active!LookAtState,
              Active!CaughtUp, Active!LookAtType
<1>3. CASE Active!Initial(c) \/ Active!IsRemote(c) \/ Active!IsLocal(c)
           \/ Active!IsStarted(c)
  BY <1>3 DEF Active!Initial, Active!IsRemote, Active!IsLocal, Active!IsStarted
<1>4. CASE Active!ManageStateRemote(c) \/ Active!LocalAsRemote(c)
           \/ Active!ManageStateLocal(c)
  BY <1>4 DEF Active!ManageStateRemote, Active!LocalAsRemote,
              Active!ManageStateLocal, Active!Becomes, Active!AfterRemote,
              Active!AfterLocal
<1> QED
  BY <1>1, <1>2, <1>3, <1>4 DEF Managing

(* Only the checks of the configuration lead to a type, and only a type to *)
(* a start.                                                                *)
LEMMA ManagingIsConfigured ==
  ASSUME ActivationInv, NEW c \in Threads, Managing(c)
  PROVE  /\ at'[c] \in Checking => fMasterNode
         /\ at'[c] \in Starting => Configured
         /\ nState' = "STARTED" \/ fPingerEnabled' \/ eType' # "UNKNOWN"
              => Configured
<1> DEFINE known == nState = "STARTED" \/ fPingerEnabled \/ eType # "UNKNOWN"
<1>0. /\ at[c] \in Checking => fMasterNode
      /\ at[c] \in Starting => Configured
      /\ known => Configured
      /\ \A where : Active!Go(c, where) => at'[c] = where
  BY DEF ActivationInv, Active!TypeOK, Active!Go
<1>1. CASE \/ Active!Call(c) \/ Active!StartCommand(c) \/ Active!ManageState(c)
           \/ Active!LookAtState(c) \/ Active!LookAtType(c)
           \/ Active!IsRemote(c) \/ Active!IsLocal(c) \/ Active!IsStarted(c)
  <2>1. UNCHANGED <<nState, eType, fPingerEnabled>>
    BY <1>1 DEF Active!state, Active!Call, Active!StartCommand,
                Active!ManageState, Active!LookAtState, Active!LookAtType,
                Active!IsRemote, Active!IsLocal, Active!IsStarted
  <2>2. /\ at'[c] \in Checking => fMasterNode
        /\ at'[c] \in Starting => Configured
    BY <1>0, <1>1 DEF Active!Call, Active!StartCommand,
                Active!ManageState, Active!LookAtState, Active!LookAtType,
                Active!IsRemote, Active!IsLocal, Active!IsStarted,
                Checking, Starting
  <2>3. known' = known
    BY <2>1
  <2> QED
    BY <1>0, <2>2, <2>3
<1>2. CASE Active!Restarted(c) \/ Active!WaitForSync(c) \/ Active!CaughtUp(c)
  <2>1. /\ UNCHANGED <<eType, fPingerEnabled>> /\ nState' # "STARTED"
        /\ at'[c] \in {"manage", "out", "type"}
        /\ at[c] = "caught up" \/ at'[c] # "type"
    BY <1>0, <1>2 DEF Active!Restarted, Active!WaitForSync, Active!CaughtUp
  <2> QED
    BY <1>0, <2>1 DEF Checking, Starting
<1>3. CASE Active!Initial(c)
  BY <1>0, <1>3
  DEF Active!Initial, Active!ManageStateInitial, Configured, Checking, Starting
<1>4. CASE \/ Active!ManageStateRemote(c) \/ Active!LocalAsRemote(c)
           \/ Active!ManageStateLocal(c)
  <2>1. at[c] \in Starting /\ at'[c] \notin Checking
    BY <1>0, <1>4 DEF Active!ManageStateRemote, Active!LocalAsRemote,
                      Active!ManageStateLocal, Checking, Starting
  <2> QED
    BY <1>0, <2>1
<1> QED
  BY <1>1, <1>2, <1>3, <1>4 DEF Managing

LEMMA ManagingKeeps ==
  ASSUME ActivationInv, NEW c \in Threads, Managing(c)
  PROVE  ActivationInv'
<1>1. /\ Active!TypeOK
      /\ UNCHANGED <<fMasterNode, network, fListen, defaultPort, pings,
                     recent>>
      /\ at' = [at EXCEPT ![c] = at'[c]]
      /\ at'[c] \in (Active!Steps \cup {"out", "restart"}) \ {"send"}
      /\ nState' \in Active!NStates /\ eType' \in Active!Types
  BY ManagingMoves DEF ActivationInv
<1>2. Active!TypeOK'
  BY <1>1 DEF Active!TypeOK
<1>3. Sending' \subseteq Sending
  BY <1>1 DEF Sending, Active!TypeOK
<1>4. Configured' = Configured
  BY <1>1 DEF Configured
<1>5. \A d \in Threads : /\ at'[d] \in Checking => fMasterNode'
                         /\ at'[d] \in Starting => Configured'
  BY <1>1, <1>4, ManagingIsConfigured DEF ActivationInv, Active!TypeOK
<1>6. nState' = "STARTED" \/ fPingerEnabled' \/ eType' # "UNKNOWN"
        => Configured'
  BY <1>4, ManagingIsConfigured
<1>7. pings' + Cardinality(Sending') <= Cardinality(Threads)
  BY <1>1, <1>3, NobodySends
<1>8. ~recent' => pings' = 0
  BY <1>1 DEF ActivationInv
<1> QED
  BY <1>2, <1>5, <1>6, <1>7, <1>8 DEF ActivationInv

LEMMA PingKeeps ==
  ASSUME ActivationInv, NEW c \in Threads,
         Active!PingCheck(c) \/ Active!PingSend(c)
  PROVE  ActivationInv'
<1> USE DEF Active!PingCheck, Active!PingSend, Active!state, Active!config,
            Active!Go
<1>1. /\ Active!TypeOK
      /\ UNCHANGED <<eType, fPingerEnabled, fMasterNode>>
      /\ nState' = "STARTED" => nState = "STARTED"
      /\ nState' \in {nState, "NOT_CAPABLE"}
      /\ Configured => Configured'
      /\ at' = [at EXCEPT ![c] = at'[c]] /\ at'[c] \in {"out", "send"}
  BY DEF ActivationInv, Configured, Active!TypeOK
<1>2. Active!TypeOK'
  <2>1. pings' \in Nat /\ eType' = eType
    BY <1>1 DEF Active!TypeOK
  <2>2. nState' \in Active!NStates
    BY <1>1 DEF Active!TypeOK, Active!NStates
  <2>3. at' \in [Threads -> Active!Steps \cup {"out", "restart"}]
    BY <1>1 DEF Active!TypeOK, Active!Steps
  <2> QED
    BY <1>1, <2>1, <2>2, <2>3 DEF Active!TypeOK
<1>3. Sending \in SUBSET Threads /\ Sending' \in SUBSET Threads
  BY DEF Sending
<1>4. pings' + Cardinality(Sending') <= Cardinality(Threads)
  <2>1. CASE Active!PingCheck(c) /\ at'[c] = "send"
    BY <1>1, <2>1, <1>3, ThreadsFinite DEF ActivationInv, Active!TypeOK
  <2>2. CASE Active!PingCheck(c) /\ at'[c] # "send"
    <3>1. Sending' \subseteq Sending
      BY <1>1, <2>2 DEF Sending, Active!TypeOK
    <3> QED
      BY <2>2, <3>1, NobodySends
  <2>3. CASE Active!PingSend(c)
    <3>1. Sending' = Sending \ {c} /\ c \in Sending
      BY <1>1, <2>3 DEF Sending, Active!TypeOK
    <3>2. Cardinality(Sending') = Cardinality(Sending) - 1
      BY <1>3, <3>1, ThreadsFinite, FS_RemoveElement
    <3> QED
      BY <1>1, <1>3, <2>3, <3>2, ThreadsFinite DEF ActivationInv, Active!TypeOK
  <2> QED
    BY <2>1, <2>2, <2>3
<1>5. ~recent' => pings' = 0
  BY DEF ActivationInv
<1>6. \A d \in Threads : /\ at'[d] \in Checking => fMasterNode'
                         /\ at'[d] \in Starting => Configured'
  BY <1>1 DEF ActivationInv, Active!TypeOK, Checking, Starting
<1> QED
  BY <1>1, <1>2, <1>4, <1>5, <1>6 DEF ActivationInv

(* The steps that move no thread.                                          *)
LEMMA OthersKeep ==
  ASSUME ActivationInv,
         \/ Active!SyncChanges \/ Active!TimePasses
         \/ Next /\ UNCHANGED activeVars
         \/ UNCHANGED <<vars, activeVars>>
  PROVE  ActivationInv'
<1> USE DEF Active!SyncChanges, Active!TimePasses, Active!state,
            Active!config, activeVars
<1>1. /\ UNCHANGED <<eType, fPingerEnabled, nState, fMasterNode, at>>
      /\ Configured' = Configured
      /\ \/ recent' = recent /\ pings' = pings
         \/ ~recent' /\ pings' = 0
  BY DEF Configured
<1>2. Active!TypeOK' /\ Sending' \subseteq Sending
  BY <1>1 DEF ActivationInv, Active!TypeOK, Sending
<1>4. pings' + Cardinality(Sending') <= Cardinality(Threads)
  <2>1. CASE pings' = pings
    BY <1>2, <2>1, NobodySends
  <2>2. CASE pings' = 0
    <3>1. Sending' \in SUBSET Threads
      BY DEF Sending
    <3> QED
      BY <2>2, <3>1, ThreadsFinite
  <2> QED
    BY <1>1, <2>1, <2>2
<1> QED
  BY <1>1, <1>2, <1>4 DEF ActivationInv

LEMMA ActivationStep ==
  ActivationInv /\ [NodeNext]_<<vars, activeVars>> => ActivationInv'
<1> SUFFICES ASSUME ActivationInv, [NodeNext]_<<vars, activeVars>>
             PROVE  ActivationInv'
  OBVIOUS
<1>1. CASE Next /\ UNCHANGED activeVars
  BY <1>1, OthersKeep
<1>2. CASE Active!Next
  BY <1>2, OthersKeep, PingKeeps, ManagingKeeps
  DEF Active!Next, Active!Manage, Managing
<1>3. CASE UNCHANGED <<vars, activeVars>>
  BY <1>3, OthersKeep
<1> QED
  BY <1>1, <1>2, <1>3 DEF NodeNext

LEMMA ActivationInvImplies == ActivationInv => ActivationIsOrderly
<1> SUFFICES ASSUME ActivationInv PROVE ActivationIsOrderly
  OBVIOUS
<1>1. Sending \in SUBSET Threads
  BY DEF Sending
<1>2. Active!PingsBounded
  <2>1. Active!Cardinality(Threads) = Cardinality(Threads)
    BY DEF Cardinality, Active!Cardinality
  <2> QED
    BY <1>1, <2>1, ThreadsFinite
    DEF ActivationInv, Active!TypeOK, Active!PingsBounded
<1>3. Active!MisconfiguredNeverStarts
  BY DEF ActivationInv, Configured, Active!MisconfiguredNeverStarts
<1> QED
  BY <1>2, <1>3 DEF ActivationIsOrderly, Active!ActivationIsOrderly,
                    ActivationInv

(* A masternode comes up only on a node that listens on a port of its      *)
(* chain, and sends no more pings in a period than it has threads          *)
(* (activemasternode.cpp), while start commands, other threads and the     *)
(* list of masternodes change its state between any two steps.             *)
THEOREM ActivationAlwaysOrderly == NodeSpec => []ActivationIsOrderly
<1>1. NodeInit => ActivationInv
  BY ActivationInit
<1>2. ActivationInv /\ [NodeNext]_<<vars, activeVars>> => ActivationInv'
  BY ActivationStep
<1>3. ActivationInv => ActivationIsOrderly
  BY ActivationInvImplies
<1> QED
  BY <1>1, <1>2, <1>3, PTL DEF NodeSpec
-----------------------------------------------------------------------------
(* The governance manager and the commands of the threads.                 *)

Entries == [mn : Masternodes, key : BOOLEAN, index : BOOLEAN]
Submissions ==
  [step : {"checked", "counted", "seen", "relayed"}, obj : Objects]
VoteCalls ==
  [step : {"voting"}, obj : Objects, signal : Signals, outcome : Outcomes,
   left : Seq(Entries), of : Nat, nSuccessful : Nat, nFailed : Nat,
   skipped : Nat, sent : Seq(Votes)]
Queries ==
  [step : {"query"}, command : {"list", "diff"}, start : 0 .. MaxTime]
Calls == {Idle} \cup Submissions \cup VoteCalls \cup Queries

(* What a thread at each step is in the middle of.                         *)
LEMMA CallsByStep ==
  ASSUME NEW c \in Calls
  PROVE  /\ c.step \in {"checked", "counted", "seen", "relayed"}
              <=> c \in Submissions
         /\ c.step = "voting" <=> c \in VoteCalls
         /\ c.step = "query" <=> c \in Queries
         /\ c.step = "idle" <=> c = Idle
BY DEF Calls, Submissions, VoteCalls, Queries, Idle

(* One step of the node's governance, by what it does.                     *)
ThreadStep(t) ==
  \/ \E o \in Objects : Submit(t, o)
  \/ SubmitCount(t) \/ SubmitSeen(t) \/ SubmitRelay(t) \/ SubmitAdd(t)
  \/ \E entries \in Seq(Entries), o \in Objects,
        ballot \in Signals \X Outcomes :
       StartVote(t, entries, o, ballot)
  \/ VoteOne(t) \/ EndVote(t)
  \/ \E c \in {"list", "diff"} : StartQuery(t, c)
  \/ Query(t)

NodeStep ==
  \/ \E t \in Threads : ThreadStep(t)
  \/ \E o \in Objects : Prepare(o) \/ SetCachedValid(o)
  \/ \E o \in Objects : ReceiveObject(o)
  \/ \E o \in Objects : CheckAndRemove(o)
  \/ \E v \in mapOrphanVotes : CheckMasternodeOrphanVotes(v)
  \/ \E mn \in Masternodes : ListChanges(mn)
  \/ Tick
  \/ Restart
  \/ UNCHANGED vars

Typed == TypeOK /\ load \in Loads /\ rpc \in [Threads -> Calls]

LEMMA NextIsNodeStep ==
  ASSUME Typed, [NodeNext]_<<vars, activeVars>>
  PROVE  NodeStep
<1>1. /\ Conf \in Seq(Entries) /\ VotedOn \subseteq Objects
      /\ Self \in Masternodes /\ Ballots[load] \subseteq Signals \X Outcomes
  BY GovernanceAssumption DEF Entries, Typed
<1>2. ASSUME NEW t \in Threads, VoteStep(t) PROVE ThreadStep(t)
  <2>1. \A e \in Entries : <<e>> \in Seq(Entries)
    OBVIOUS
  <2>2. [mn |-> Self, key |-> TRUE, index |-> TRUE] \in Entries
    BY <1>1 DEF Entries
  <2>3. \A i \in 1 .. Len(Conf) : Conf[i] \in Entries
    BY <1>1
  <2> QED
    BY <1>1, <1>2, <2>1, <2>2, <2>3
       DEF VoteStep, VoteConf, VoteAlias, VoteMany, ThreadStep
<1>3. ASSUME Next PROVE NodeStep
  <2>1. CASE Around
    BY <1>1, <2>1 DEF Around, Watched, Relied, NodeStep
  <2>2. CASE \E t \in Threads : SubmitStep(t) \/ VoteStep(t) \/ QueryStep(t)
    BY <1>2, <2>2 DEF SubmitStep, QueryStep, ThreadStep, NodeStep
  <2> QED
    BY <1>3, <2>1, <2>2 DEF Next
<1>4. CASE UNCHANGED <<vars, activeVars>> \/ UNCHANGED vars
  BY <1>4 DEF NodeStep
<1> QED
  BY <1>3, <1>4 DEF NodeNext

(* A time stamp more in the window: as long as there is room in it, what   *)
(* was there is there.                                                     *)
LEMMA WindowGrows ==
  ASSUME stamps \in Seq(0 .. MaxTime), Len(stamps) <= Size,
         NEW ts \in 0 .. MaxTime, Window!Add(ts)
  PROVE  /\ stamps' \in Seq(0 .. MaxTime) /\ Len(stamps') <= Size
         /\ Len(stamps') < Size =>
              /\ Len(stamps) < Size
              /\ \A i \in DOMAIN stamps : /\ i \in DOMAIN stamps'
                                         /\ stamps'[i] = stamps[i]
              /\ Len(stamps') \in DOMAIN stamps'
              /\ stamps'[Len(stamps')] = ts
<1> USE GovernanceAssumption DEF Window!Add
<1>1. CASE Len(stamps) < Size
  <2>1. stamps' = Append(stamps, ts)
    BY <1>1
  <2> QED
    BY <1>1, <2>1
<1>2. CASE ~(Len(stamps) < Size)
  <2>1. stamps # << >> /\ Len(stamps) = Size
    BY <1>2
  <2>2. Tail(stamps) \in Seq(0 .. MaxTime) /\ Len(Tail(stamps)) = Size - 1
    BY <2>1
  <2>3. stamps' = Append(Tail(stamps), ts)
    BY <1>2
  <2>4. stamps' \in Seq(0 .. MaxTime) /\ Len(stamps') = Size
    <3> HIDE DEF Window!Add
    <3> QED
      BY <2>2, <2>3
  <2> QED
    BY <2>4
<1> QED
  BY <1>1, <1>2

(* A vote that is processed, for whichever command casts it.               *)
LEMMA VoteEntry ==
  ASSUME Typed, NEW t \in Threads, VoteOne(t)
  PROVE  LET e == Head(rpc[t].left)
             v == [mn |-> e.mn, obj |-> rpc[t].obj, signal |-> rpc[t].signal,
                   outcome |-> rpc[t].outcome]
         IN  /\ e \in Entries /\ v \in Votes
             /\ rpc[t] \in VoteCalls /\ Tail(rpc[t].left) \in Seq(Entries)
             /\ Len(Tail(rpc[t].left)) = Len(rpc[t].left) - 1
             /\ Len(rpc[t].left) \in Nat
<1>1. rpc[t] \in VoteCalls /\ rpc[t].left # << >>
  BY CallsByStep DEF Typed, VoteOne, At
<1>2. /\ rpc[t].left \in Seq(Entries) /\ rpc[t].obj \in Objects
      /\ rpc[t].outcome \in Outcomes /\ rpc[t].signal \in Signals
  BY <1>1 DEF VoteCalls
<1>3. /\ Head(rpc[t].left) \in Entries /\ Tail(rpc[t].left) \in Seq(Entries)
      /\ Len(Tail(rpc[t].left)) = Len(rpc[t].left) - 1
      /\ Len(rpc[t].left) \in Nat
  BY <1>1, <1>2
<1> QED
  BY <1>1, <1>2, <1>3 DEF Votes, Entries

(* The call after one of its entries: the counts add up as before.         *)
LEMMA CallAfter ==
  ASSUME NEW call \in VoteCalls, NEW e, NEW v \in Votes, NEW fOK
  PROVE  LET after == CountAfter(call, e, v, fOK)
         IN  /\ after \in VoteCalls /\ after.left = call.left
             /\ after.of = call.of
             /\ after.nSuccessful + after.nFailed + after.skipped
                  = call.nSuccessful + call.nFailed + call.skipped + 1
             /\ Len(call.sent) = call.nSuccessful =>
                  Len(after.sent) = after.nSuccessful
<1>1. /\ call.nSuccessful \in Nat /\ call.nFailed \in Nat
      /\ call.skipped \in Nat /\ call.sent \in Seq(Votes)
  BY DEF VoteCalls
<1>2. /\ Append(call.sent, v) \in Seq(Votes)
      /\ Len(Append(call.sent, v)) = Len(call.sent) + 1
      /\ Len(call.sent) \in Nat
  BY <1>1
<1> DEFINE skip == [call EXCEPT !.skipped = @ + 1]
           fail == Fails(call)
           succeed == Succeeds(call, v)
<1>3. /\ skip \in VoteCalls
      /\ skip.left = call.left /\ skip.of = call.of
      /\ skip.nSuccessful = call.nSuccessful /\ skip.sent = call.sent
      /\ skip.nFailed = call.nFailed /\ skip.skipped = call.skipped + 1
  BY DEF VoteCalls
<1>4. /\ fail \in VoteCalls
      /\ fail.left = call.left /\ fail.of = call.of
      /\ fail.nSuccessful = call.nSuccessful /\ fail.sent = call.sent
      /\ fail.nFailed = call.nFailed + 1 /\ fail.skipped = call.skipped
  BY DEF VoteCalls, Fails
<1>5. /\ succeed \in VoteCalls
      /\ succeed.left = call.left /\ succeed.of = call.of
      /\ succeed.nSuccessful = call.nSuccessful + 1
      /\ succeed.sent = Append(call.sent, v)
      /\ succeed.nFailed = call.nFailed /\ succeed.skipped = call.skipped
  <2> DEFINE one == [call EXCEPT !.nSuccessful = @ + 1]
             sent == Append(call.sent, v)
  <2>1. /\ one \in VoteCalls
        /\ one.left = call.left /\ one.of = call.of
        /\ one.nSuccessful = call.nSuccessful + 1
        /\ one.nFailed = call.nFailed /\ one.skipped = call.skipped
    BY DEF VoteCalls
  <2>2. succeed = [one EXCEPT !.sent = sent]
    BY DEF Succeeds
  <2> HIDE DEF one, sent, succeed
  <2>3. sent \in Seq(Votes)
    BY <1>2 DEF sent
  <2>4. /\ succeed \in VoteCalls /\ succeed.sent = sent
        /\ succeed.left = one.left /\ succeed.of = one.of
        /\ succeed.nSuccessful = one.nSuccessful
        /\ succeed.nFailed = one.nFailed /\ succeed.skipped = one.skipped
    BY <2>1, <2>2, <2>3 DEF VoteCalls
  <2> QED
    BY <2>1, <2>4 DEF sent
<1>6. CountAfter(call, e, v, fOK) \in {skip, fail, succeed}
  BY DEF CountAfter
<1> DEFINE after == CountAfter(call, e, v, fOK)
<1> HIDE DEF skip, fail, succeed
<1>7. CASE after = skip
  BY <1>1, <1>3, <1>7
<1>8. CASE after = fail
  BY <1>1, <1>4, <1>8
<1>9. CASE after = succeed
  <2>1. Len(succeed.sent) = Len(call.sent) + 1
    BY <1>2, <1>5
  <2>2. succeed.nSuccessful + succeed.nFailed + succeed.skipped
          = call.nSuccessful + call.nFailed + call.skipped + 1
    BY <1>1, <1>5
  <2>3. Len(call.sent) = call.nSuccessful =>
          Len(succeed.sent) = succeed.nSuccessful
    BY <1>1, <1>5, <2>1
  <2> QED
    BY <1>5, <1>9, <2>2, <2>3
<1> QED
  BY <1>6, <1>7, <1>8, <1>9

(* What a voting command has in hand after one of its entries.             *)
LEMMA ReportAfter ==
  ASSUME Typed, NEW t \in Threads, VoteOne(t)
  PROVE  LET call == rpc[t]
             after == rpc'[t]
         IN  /\ call \in VoteCalls /\ after \in VoteCalls
             /\ rpc' = [rpc EXCEPT ![t] = after]
             /\ Len(call.left) \in Nat /\ Len(after.left) = Len(call.left) - 1
             /\ after.of = call.of
             /\ after.nSuccessful + after.nFailed + after.skipped
                  = call.nSuccessful + call.nFailed + call.skipped + 1
             /\ Len(call.sent) = call.nSuccessful =>
                  Len(after.sent) = after.nSuccessful
<1> DEFINE e == Head(rpc[t].left)
           v == [mn |-> e.mn, obj |-> rpc[t].obj, signal |-> rpc[t].signal,
                 outcome |-> rpc[t].outcome]
           rest == Tail(rpc[t].left)
<1>1. /\ v \in Votes /\ rpc[t] \in VoteCalls /\ rest \in Seq(Entries)
      /\ Len(rest) = Len(rpc[t].left) - 1 /\ Len(rpc[t].left) \in Nat
  BY VoteEntry
<1>2. PICK fOK \in BOOLEAN :
        Goto(t, [CountAfter(rpc[t], e, v, fOK) EXCEPT !.left = Tail(@)])
  BY DEF VoteOne
<1> DEFINE counted == CountAfter(rpc[t], e, v, fOK)
<1>3. /\ counted \in VoteCalls /\ counted.left = rpc[t].left
      /\ counted.of = rpc[t].of
      /\ counted.nSuccessful + counted.nFailed + counted.skipped
           = rpc[t].nSuccessful + rpc[t].nFailed + rpc[t].skipped + 1
      /\ Len(rpc[t].sent) = rpc[t].nSuccessful =>
           Len(counted.sent) = counted.nSuccessful
  BY <1>1, CallAfter
<1>4. Goto(t, [counted EXCEPT !.left = rest])
  <2> HIDE DEF counted
  <2>1. Goto(t, [counted EXCEPT !.left = Tail(@)])
    BY <1>2 DEF counted
  <2> QED
    BY <1>3, <2>1
<1> HIDE DEF counted, rest
<1>5. rpc' = [rpc EXCEPT ![t] = [counted EXCEPT !.left = rest]]
  BY <1>4 DEF Goto
<1>6. rpc'[t] = [counted EXCEPT !.left = rest]
  BY <1>5 DEF Typed
<1>7. /\ rpc'[t] \in VoteCalls /\ rpc'[t].left = rest
      /\ rpc'[t].of = counted.of /\ rpc'[t].sent = counted.sent
      /\ rpc'[t].nSuccessful = counted.nSuccessful
      /\ rpc'[t].nFailed = counted.nFailed
      /\ rpc'[t].skipped = counted.skipped
  BY <1>1, <1>3, <1>6 DEF VoteCalls
<1> QED
  BY <1>1, <1>3, <1>5, <1>6, <1>7

(* What an object brings that is added: votes of its own that waited.  One *)
(* that is refused is dropped.                                             *)
LEMMA ObjectAdded ==
  ASSUME NEW o, AddGovernanceObject(o)
  PROVE  /\ mapObjects \subseteq mapObjects'
         /\ mapObjects' \subseteq mapObjects \cup {o}
         /\ o \in mapObjects' \cup dropped'
         /\ dropped \subseteq dropped' \cup mapObjects'
         /\ dropped' \subseteq dropped \cup {o}
         /\ votes' \subseteq votes \cup mapOrphanVotes
         /\ current' \subseteq current \cup mapOrphanVotes
         /\ mapOrphanVotes' \subseteq mapOrphanVotes
         /\ late' \subseteq late \cup {o}
BY DEF AddGovernanceObject, Counting

LEMMA VoteProcessed ==
  ASSUME NEW v, NEW fOK \in BOOLEAN, ProcessVote(v, fOK)
  PROVE  /\ votes' \subseteq votes \cup {v}
         /\ current' \subseteq current \cup {v}
         /\ mapOrphanVotes' \subseteq mapOrphanVotes \cup {v}
BY DEF ProcessVote, AddOrphanVote, RecordVote

LEMMA ThreadTyped ==
  ASSUME Typed, NEW t \in Threads, ThreadStep(t)
  PROVE  Typed' /\ \A u \in Threads \ {t} : rpc'[u] = rpc[u]
<1> USE DEF Typed
<1> DEFINE Goes == rpc'[t] \in Calls /\ rpc' = [rpc EXCEPT ![t] = rpc'[t]]
<1>0. ASSUME NEW c \in Calls, Goto(t, c) PROVE Goes
  BY <1>0 DEF Goto
<1>1. CASE \E o \in Objects : Submit(t, o)
  <2>1. PICK o \in Objects : Submit(t, o)
    BY <1>1
  <2>2. [step |-> "checked", obj |-> o] \in Calls
    BY DEF Calls, Submissions
  <2> QED
    BY <1>0, <2>1, <2>2 DEF Submit, TypeOK, env, gov, asked
<1>2. ASSUME rpc[t].step \in {"checked", "counted", "seen", "relayed"}
      PROVE  /\ rpc[t] \in Submissions /\ rpc[t].obj \in Objects
             /\ \A s \in {"checked", "counted", "seen", "relayed"} :
                  [rpc[t] EXCEPT !.step = s] \in Calls
  <2>1. rpc[t] \in Submissions
    BY <1>2, CallsByStep
  <2> QED
    BY <2>1 DEF Submissions, Calls
<1>3. Idle \in Calls
  BY DEF Calls
<1>4. CASE SubmitCount(t)
  <2>1. Goes
    BY <1>0, <1>2, <1>3, <1>4 DEF SubmitCount, At
  <2>2. TimeOf[rpc[t].obj] \in 0 .. MaxTime
    BY <1>2, <1>4, GovernanceAssumption DEF SubmitCount, At
  <2>3. stamps' \in Seq(0 .. MaxTime) /\ Len(stamps') <= Size
    BY <1>4, <2>2, WindowGrows DEF SubmitCount, TypeOK
  <2> QED
    BY <1>4, <2>1, <2>3 DEF SubmitCount, TypeOK, env, gov, asked
<1>5. CASE SubmitSeen(t)
  BY <1>0, <1>2, <1>5 DEF SubmitSeen, At, TypeOK, env, asked
<1>6. CASE SubmitRelay(t)
  BY <1>0, <1>2, <1>6 DEF SubmitRelay, At, TypeOK, env, gov, asked
<1>7. CASE SubmitAdd(t)
  <2>1. rpc[t].obj \in Objects /\ Goes
    BY <1>0, <1>2, <1>3, <1>7 DEF SubmitAdd, At
  <2>2. AddGovernanceObject(rpc[t].obj)
    BY <1>7 DEF SubmitAdd
  <2> QED
    BY <1>7, <2>1, <2>2, ObjectAdded DEF SubmitAdd, TypeOK, env, asked
<1>8. CASE \E entries \in Seq(Entries), o \in Objects,
              ballot \in Signals \X Outcomes : StartVote(t, entries, o, ballot)
  <2>1. PICK entries \in Seq(Entries), o \in Objects,
             ballot \in Signals \X Outcomes : StartVote(t, entries, o, ballot)
    BY <1>8
  <2>2. Len(entries) \in Nat /\ << >> \in Seq(Votes)
    OBVIOUS
  <2>3. [step |-> "voting", obj |-> o, signal |-> ballot[1],
         outcome |-> ballot[2], left |-> entries, of |-> Len(entries),
         nSuccessful |-> 0, nFailed |-> 0, skipped |-> 0,
         sent |-> << >>] \in Calls
    BY <2>2 DEF Calls, VoteCalls
  <2> QED
    BY <1>0, <2>1, <2>3 DEF StartVote, TypeOK, env, gov, asked
<1>9. CASE VoteOne(t)
  <2> DEFINE e == Head(rpc[t].left)
             v == [mn |-> e.mn, obj |-> rpc[t].obj, signal |-> rpc[t].signal,
                   outcome |-> rpc[t].outcome]
  <2>1. v \in Votes
    BY <1>9, VoteEntry
  <2>2. Goes
    BY <1>9, ReportAfter DEF Calls
  <2>3. /\ votes' \subseteq votes \cup {v}
        /\ current' \subseteq current \cup {v}
        /\ mapOrphanVotes' \subseteq mapOrphanVotes \cup {v}
    <3> HIDE DEF v
    <3>1. \/ \E fOK \in BOOLEAN : ProcessVote(v, fOK)
          \/ UNCHANGED <<votes, current, mapOrphanVotes>>
      BY <1>9 DEF VoteOne, v
    <3> QED
      BY <3>1, VoteProcessed
  <2>4. UNCHANGED <<env, mapObjects, mapSeen, stamps, nTimeLastDiff, relayed,
                    asked, late, dropped>>
    BY <1>9 DEF VoteOne
  <2> HIDE DEF e, v
  <2> QED
    BY <2>1, <2>2, <2>3, <2>4 DEF TypeOK, env, asked
<1>10. CASE EndVote(t)
  BY <1>0, <1>3, <1>10 DEF EndVote, TypeOK, env, gov, asked
<1>11. CASE \E c \in {"list", "diff"} : StartQuery(t, c)
  <2>1. PICK c \in {"list", "diff"} : StartQuery(t, c)
    BY <1>11
  <2>2. (IF c = "diff" THEN nTimeLastDiff ELSE 0) \in 0 .. MaxTime
    BY GovernanceAssumption DEF TypeOK
  <2>3. [step |-> "query", command |-> c,
         start |-> IF c = "diff" THEN nTimeLastDiff ELSE 0] \in Calls
    BY <2>2 DEF Calls, Queries
  <2> QED
    BY <1>0, <2>1, <2>3 DEF StartQuery, TypeOK, env, gov, asked
<1>12. CASE Query(t)
  <2>1. /\ Goes /\ nTimeLastDiff' = now
        /\ UNCHANGED <<env, gov, stamps, relayed, late, dropped>>
    BY <1>0, <1>3, <1>12 DEF Query
  <2>2. rpc[t].command \in {"list", "diff"}
    BY <1>12, CallsByStep DEF Query, At, Queries
  <2>3. GetAllNewerThan(rpc[t].start) \subseteq Objects
    BY DEF GetAllNewerThan, TypeOK
  <2>4. /\ told' \subseteq Objects \X {"list", "diff"}
        /\ filtered' \subseteq Objects
    BY <1>12, <2>2, <2>3 DEF Query, Shown, TypeOK
  <2> QED
    BY <2>1, <2>4 DEF TypeOK, env, gov
<1> QED
  BY <1>1, <1>4, <1>5, <1>6, <1>7, <1>8, <1>9, <1>10, <1>11, <1>12
  DEF ThreadStep

LEMMA TypedStep ==
  ASSUME Typed, NodeStep
  PROVE  Typed'
<1> USE DEF TypeOK, env, gov, asked
<1>1. CASE \E t \in Threads : ThreadStep(t)
  BY <1>1, ThreadTyped
<1>2. ASSUME NEW o \in Objects, Prepare(o) \/ SetCachedValid(o) PROVE Typed'
  BY <1>2 DEF Typed, Prepare, SetCachedValid
<1>3. ASSUME NEW o \in Objects, ReceiveObject(o) PROVE Typed'
  <2>1. AddGovernanceObject(o)
    BY <1>3 DEF ReceiveObject
  <2> QED
    BY <1>3, <2>1, ObjectAdded DEF Typed, ReceiveObject
<1>4. ASSUME NEW o \in Objects, CheckAndRemove(o) PROVE Typed'
  BY <1>4 DEF Typed, CheckAndRemove
<1>5. ASSUME NEW v \in mapOrphanVotes, CheckMasternodeOrphanVotes(v)
      PROVE  Typed'
  BY <1>5 DEF Typed, CheckMasternodeOrphanVotes, RecordVote
<1>6. ASSUME NEW mn \in Masternodes, ListChanges(mn) PROVE Typed'
  BY <1>6 DEF Typed, ListChanges
<1>7. CASE Tick
  BY <1>7, GovernanceAssumption DEF Typed, Tick
<1>8. CASE Restart
  <2>1. << >> \in Seq(0 .. MaxTime) /\ Len(<< >>) <= Size
    BY GovernanceAssumption
  <2>2. /\ mapObjects' \subseteq mapObjects /\ mapSeen' \subseteq mapSeen
        /\ votes' \subseteq votes /\ current' \subseteq current
        /\ mapOrphanVotes' \subseteq mapOrphanVotes
        /\ stamps' \in {stamps, << >>}
        /\ dropped' \subseteq dropped \cup mapSeen
    BY <1>8 DEF Restart, SerializationOp, Clear
  <2>3. rpc' \in [Threads -> Calls] /\ nTimeLastDiff' = 0
    BY <1>8 DEF Restart, Calls
  <2>4. TypeOK' /\ load' \in Loads
    <3>1. /\ relayed' = {} /\ told' = {} /\ filtered' = {} /\ late' = late
          /\ UNCHANGED <<load, listed, paid, cachedValid, now>>
      BY <1>8 DEF Restart
    <3>2. stamps' \in Seq(0 .. MaxTime) /\ Len(stamps') <= Size
      BY <2>1, <2>2 DEF Typed
    <3>3. 0 \in 0 .. MaxTime
      BY GovernanceAssumption
    <3> QED
      BY <2>2, <2>3, <3>1, <3>2, <3>3 DEF Typed
  <2> QED
    BY <2>3, <2>4 DEF Typed
<1>9. CASE UNCHANGED vars
  BY <1>9 DEF Typed, vars
<1> QED
  BY <1>1, <1>2, <1>3, <1>4, <1>5, <1>6, <1>7, <1>8, <1>9 DEF NodeStep
-----------------------------------------------------------------------------
(* Queries.                                                                *)

(* What a query leaves behind, and only some steps of a thread change.     *)
asking == <<mapObjects, late, told, filtered, nTimeLastDiff, now>>

LEMMA QuietThread ==
  ASSUME Typed, NEW t \in Threads, ThreadStep(t),
         ~SubmitAdd(t), ~Query(t), \A c \in {"list", "diff"} : ~StartQuery(t, c)
  PROVE  UNCHANGED asking /\ rpc'[t].step # "query"
<1> USE DEF Typed, gov, env, asked, asking, Goto
<1>1. CASE \E o \in Objects : Submit(t, o)
  BY <1>1 DEF Submit
<1>2. CASE SubmitCount(t) \/ SubmitSeen(t) \/ SubmitRelay(t)
  <2>1. rpc[t] \in Submissions
    BY <1>2, CallsByStep DEF At, SubmitCount, SubmitSeen, SubmitRelay
  <2> QED
    BY <1>2, <2>1 DEF SubmitCount, SubmitSeen, SubmitRelay, Submissions, Idle
<1>3. CASE \E entries \in Seq(Entries), o \in Objects,
              ballot \in Signals \X Outcomes : StartVote(t, entries, o, ballot)
  BY <1>3 DEF StartVote
<1>4. CASE VoteOne(t)
  <2>1. rpc'[t] \in VoteCalls
    BY <1>4, ReportAfter
  <2>2. UNCHANGED asking
    BY <1>4 DEF VoteOne
  <2> QED
    BY <2>1, <2>2 DEF VoteCalls
<1>5. CASE EndVote(t)
  BY <1>5 DEF EndVote, Idle
<1> QED
  BY <1>1, <1>2, <1>3, <1>4, <1>5 DEF ThreadStep

(* The start of a query is no later than the end of the last one, and that *)
(* no later than now.                                                      *)
QueryInv ==
  /\ nTimeLastDiff <= now
  /\ \A t \in Threads : At(t, "query") => rpc[t].start <= nTimeLastDiff
  /\ NothingPassedOver

LEMMA QueryStart ==
  ASSUME Typed, NEW t \in Threads, At(t, "query")
  PROVE  rpc[t].start \in 0 .. MaxTime /\ rpc[t].command \in {"list", "diff"}
BY CallsByStep DEF Typed, At, Queries

LEMMA TimesTyped ==
  /\ MaxTime \in Nat
  /\ \A o \in Objects : TimeOf[o] \in 0 .. MaxTime
  /\ Typed => nTimeLastDiff \in 0 .. MaxTime /\ now \in 0 .. MaxTime
BY GovernanceAssumption DEF Typed, TypeOK

(* An object that is added now is late or newer than every query.          *)
LEMMA ObjectAddedInTime ==
  ASSUME Typed, QueryInv, NEW o \in Objects, AddGovernanceObject(o),
         UNCHANGED <<told, filtered, nTimeLastDiff>>
  PROVE  NothingPassedOver'
<1> SUFFICES ASSUME NEW p \in mapObjects' \ (late' \cup filtered),
                    \A c \in {"list", "diff"} : <<p, c>> \notin told
             PROVE  TimeOf[p] >= nTimeLastDiff
  BY DEF NothingPassedOver
<1>1. CASE p \in mapObjects \ late
  BY <1>1 DEF QueryInv, NothingPassedOver
<1>2. CASE p \notin mapObjects \ late
  <2>1. o \notin mapObjects
    BY <1>2 DEF AddGovernanceObject
  <2>2. p = o /\ ~(TimeOf[o] < nTimeLastDiff)
    BY <1>2, <2>1 DEF AddGovernanceObject
  <2> QED
    BY <2>2, TimesTyped
<1> QED
  BY <1>1, <1>2

(* What a query finds, it shows or leaves out; what it does not find is    *)
(* older than its start.                                                   *)
LEMMA QueryFinds ==
  ASSUME Typed, NEW t \in Threads, Query(t)
  PROVE  /\ At(t, "query") /\ nTimeLastDiff' = now
         /\ UNCHANGED <<mapObjects, late, now>> /\ rpc'[t].step = "idle"
         /\ told \subseteq told' /\ filtered \subseteq filtered'
         /\ \A o \in mapObjects : TimeOf[o] >= rpc[t].start =>
              o \in filtered' \/ \E c \in {"list", "diff"} : <<o, c>> \in told'
<1> DEFINE objs == GetAllNewerThan(rpc[t].start)
<1>1. PICK shown \in SUBSET objs :
        /\ told' = told \cup (shown \X {rpc[t].command})
        /\ filtered' = filtered \cup (objs \ shown)
  <2>1. PICK strShow \in Shows, strType \in ShowTypes :
          /\ told' = told \cup (Shown(objs, strShow, strType)
                                 \X {rpc[t].command})
          /\ filtered' = filtered \cup (objs \ Shown(objs, strShow, strType))
    BY DEF Query
  <2>2. Shown(objs, strShow, strType) \in SUBSET objs
    BY DEF Shown
  <2> HIDE DEF objs
  <2> QED
    BY <2>1, <2>2
<1>2. /\ At(t, "query") /\ nTimeLastDiff' = now
      /\ UNCHANGED <<mapObjects, late, now>> /\ rpc'[t].step = "idle"
  BY DEF Query, env, gov, Goto, Typed, Idle
<1>3. rpc[t].command \in {"list", "diff"}
  BY <1>2, CallsByStep DEF Typed, At, Queries
<1>4. ASSUME NEW o \in mapObjects, TimeOf[o] >= rpc[t].start
      PROVE  o \in filtered' \/ \E c \in {"list", "diff"} : <<o, c>> \in told'
  <2>1. o \in objs
    BY <1>4 DEF GetAllNewerThan
  <2> HIDE DEF objs
  <2> QED
    BY <1>1, <1>3, <2>1
<1> HIDE DEF objs
<1> QED
  BY <1>1, <1>2, <1>4

LEMMA QueryThread ==
  ASSUME Typed, QueryInv, NEW t \in Threads, ThreadStep(t)
  PROVE  QueryInv'
<1>1. Typed' /\ \A u \in Threads \ {t} : rpc'[u] = rpc[u]
  BY ThreadTyped
<1>2. CASE Query(t)
  <2>1. /\ At(t, "query") /\ nTimeLastDiff' = now
        /\ UNCHANGED <<mapObjects, late, now>> /\ rpc'[t].step = "idle"
        /\ told \subseteq told' /\ filtered \subseteq filtered'
        /\ \A o \in mapObjects : TimeOf[o] >= rpc[t].start =>
             o \in filtered' \/ \E c \in {"list", "diff"} : <<o, c>> \in told'
    BY <1>2, QueryFinds
  <2>2. ASSUME NEW p \in mapObjects' \ (late' \cup filtered'),
               \A c \in {"list", "diff"} : <<p, c>> \notin told'
        PROVE  FALSE
    <3>1. TimeOf[p] >= nTimeLastDiff /\ p \in mapObjects /\ p \in Objects
      BY <2>1, <2>2 DEF QueryInv, NothingPassedOver, Typed, TypeOK
    <3>2. ~(TimeOf[p] >= rpc[t].start)
      BY <2>1, <2>2, <3>1
    <3>3. rpc[t].start <= nTimeLastDiff /\ rpc[t].start \in 0 .. MaxTime
      BY <2>1, QueryStart DEF QueryInv
    <3> QED
      BY <3>1, <3>2, <3>3, TimesTyped
  <2>3. NothingPassedOver'
    BY <2>2 DEF NothingPassedOver
  <2>4. ASSUME NEW u \in Threads, At(u, "query")'
        PROVE  rpc'[u].start <= nTimeLastDiff'
    <3>1. u # t /\ At(u, "query") /\ rpc'[u] = rpc[u]
      BY <1>1, <2>1, <2>4 DEF At
    <3> QED
      BY <2>1, <3>1, QueryStart, TimesTyped DEF QueryInv
  <2> QED
    BY <2>1, <2>3, <2>4, TimesTyped DEF QueryInv
<1>3. CASE \E c \in {"list", "diff"} : StartQuery(t, c)
  <2>1. UNCHANGED asking /\ rpc'[t].start \in {0, nTimeLastDiff}
    BY <1>3 DEF StartQuery, env, gov, asked, asking, Goto, Typed
  <2>2. ASSUME NEW u \in Threads, At(u, "query")'
        PROVE  rpc'[u].start <= nTimeLastDiff'
    BY <1>1, <2>1, <2>2, TimesTyped DEF QueryInv, At, asking
  <2> QED
    BY <2>1, <2>2 DEF QueryInv, NothingPassedOver, asking
<1>4. CASE SubmitAdd(t)
  <2>1. /\ AddGovernanceObject(rpc[t].obj) /\ rpc[t].obj \in Objects
        /\ UNCHANGED <<told, filtered, nTimeLastDiff, now>>
        /\ rpc'[t].step = "idle"
    BY <1>4, CallsByStep
    DEF SubmitAdd, At, Typed, env, asked, Goto, Idle, Submissions
  <2>2. NothingPassedOver'
    BY <2>1, ObjectAddedInTime
  <2> QED
    BY <1>1, <2>1, <2>2 DEF QueryInv, At
<1>5. CASE /\ ~SubmitAdd(t) /\ ~Query(t)
           /\ \A c \in {"list", "diff"} : ~StartQuery(t, c)
  <2>1. UNCHANGED asking /\ rpc'[t].step # "query"
    BY <1>5, QuietThread
  <2> QED
    BY <1>1, <2>1 DEF QueryInv, NothingPassedOver, At, asking
<1> QED
  BY <1>2, <1>3, <1>4, <1>5

LEMMA QueryStepKept ==
  ASSUME Typed, QueryInv, NodeStep
  PROVE  QueryInv'
<1>1. CASE \E t \in Threads : ThreadStep(t)
  BY <1>1, QueryThread
<1>2. ASSUME NEW o \in Objects, ReceiveObject(o) PROVE QueryInv'
  <2>1. NothingPassedOver'
    BY <1>2, ObjectAddedInTime DEF ReceiveObject, asked
  <2> QED
    BY <1>2, <2>1 DEF ReceiveObject, QueryInv, At, env
<1>3. ASSUME NEW o \in Objects, CheckAndRemove(o) PROVE QueryInv'
  <2>1. /\ mapObjects' = mapObjects \ {o} /\ UNCHANGED <<late, nTimeLastDiff>>
        /\ \A x \in told : x[1] # o => x \in told'
        /\ filtered' = filtered \ {o} /\ UNCHANGED <<rpc, now>>
    BY <1>3 DEF CheckAndRemove, env
  <2>2. \A p, c : p # o => (<<p, c>> \in told => <<p, c>> \in told')
    BY <2>1
  <2>3. NothingPassedOver'
    BY <2>1, <2>2 DEF QueryInv, NothingPassedOver
  <2> QED
    BY <2>1, <2>3 DEF QueryInv, At
<1>4. CASE Tick
  BY <1>4, TimesTyped DEF Tick, QueryInv, NothingPassedOver, At, gov, asked
<1>5. CASE Restart
  <2>1. /\ nTimeLastDiff' = 0 /\ now' = now /\ mapObjects' \subseteq mapObjects
        /\ \A t \in Threads : rpc'[t].step = "idle"
    BY <1>5 DEF Restart, SerializationOp, Clear, env, gov, Idle
  <2>2. \A o \in mapObjects' : TimeOf[o] >= nTimeLastDiff'
    BY <2>1, TimesTyped DEF Typed, TypeOK
  <2> QED
    BY <2>1, <2>2, TimesTyped DEF QueryInv, NothingPassedOver, At
<1>6. CASE \/ \E o \in Objects : Prepare(o) \/ SetCachedValid(o)
           \/ \E v \in mapOrphanVotes : CheckMasternodeOrphanVotes(v)
           \/ \E mn \in Masternodes : ListChanges(mn)
           \/ UNCHANGED vars
  <2>1. UNCHANGED <<rpc, mapObjects, late, told, filtered, nTimeLastDiff, now>>
    BY <1>6 DEF Prepare, SetCachedValid, CheckMasternodeOrphanVotes,
                ListChanges, vars, gov, env, asked
  <2> QED
    BY <2>1 DEF QueryInv, NothingPassedOver, At
<1> QED
  BY <1>1, <1>2, <1>3, <1>4, <1>5, <1>6 DEF NodeStep
-----------------------------------------------------------------------------
(* Submissions: an object that is counted, marked as seen, sent and added  *)
(* in this order.                                                          *)

Counted(o) ==
  TypeOf[o] = "trigger" /\ Len(stamps) < Size =>
    \E i \in DOMAIN stamps : stamps[i] = TimeOf[o]

(* A thread that has come past the count has its trigger in the window,    *)
(* one that is about to send its object has marked it as seen.             *)
SubmitInv ==
  /\ SeenIsKnown
  /\ \A t \in Threads :
       /\ rpc[t].step \in {"counted", "seen", "relayed"} => Counted(rpc[t].obj)
       /\ rpc[t].step \in {"seen", "relayed"} => rpc[t].obj \in mapSeen
  /\ \A o \in relayed : o \in mapSeen /\ Counted(o)

LEMMA CountedStays ==
  ASSUME Typed, NEW o,
         \/ UNCHANGED stamps
         \/ \E ts \in 0 .. MaxTime : Window!Add(ts),
         Counted(o)
  PROVE  Counted(o)'
<1>1. CASE UNCHANGED stamps
  BY <1>1 DEF Counted
<1>2. CASE \E ts \in 0 .. MaxTime : Window!Add(ts)
  <2>1. Len(stamps') < Size =>
          /\ Len(stamps) < Size
          /\ \A i \in DOMAIN stamps : /\ i \in DOMAIN stamps'
                                     /\ stamps'[i] = stamps[i]
    BY <1>2, WindowGrows DEF Typed, TypeOK
  <2> QED
    BY <2>1 DEF Counted
<1> QED
  BY <1>1, <1>2

(* A step that leaves the submissions of a thread at their place or takes  *)
(* it to none, and forgets nothing that was seen.                          *)
LEMMA SubmissionsStay ==
  ASSUME Typed, SubmitInv, UNCHANGED <<relayed, stamps>>,
         mapObjects \cup dropped \subseteq mapObjects' \cup dropped',
         mapSeen \subseteq mapSeen',
         \A o \in mapSeen' \ mapSeen : o \in mapObjects' \cup dropped',
         \A t \in Threads :
           \/ rpc'[t] = rpc[t]
           \/ /\ rpc[t].step \notin {"seen", "relayed"}
              /\ rpc'[t].step \notin {"counted", "seen", "relayed"}
  PROVE  SubmitInv'
<1>1. \A o : Adding(o) => Adding(o)'
  BY DEF Adding
<1>2. SeenIsKnown'
  BY <1>1 DEF SubmitInv, SeenIsKnown
<1>3. \A o : Counted(o) => Counted(o)'
  BY DEF Counted
<1> QED
  BY <1>2, <1>3 DEF SubmitInv

LEMMA SubmitThread ==
  ASSUME Typed, SubmitInv, NEW t \in Threads, ThreadStep(t)
  PROVE  SubmitInv'
<1>1. Typed' /\ \A u \in Threads \ {t} : rpc'[u] = rpc[u]
  BY ThreadTyped
<1>2. CASE SubmitCount(t)
  <2>1. /\ rpc[t] \in Submissions /\ rpc[t].step = "checked"
        /\ UNCHANGED <<mapObjects, mapSeen, relayed, dropped>>
        /\ \/ rpc'[t].step = "idle"
           \/ rpc'[t].step = "counted" /\ rpc'[t].obj = rpc[t].obj
        /\ IF TypeOf[rpc[t].obj] = "trigger"
           THEN Window!Add(TimeOf[rpc[t].obj]) ELSE UNCHANGED stamps
    BY <1>2, CallsByStep
    DEF SubmitCount, At, Typed, gov, env, Goto, Idle, Submissions
  <2>2. TimeOf[rpc[t].obj] \in 0 .. MaxTime
    BY <2>1, TimesTyped DEF Submissions
  <2>3. \A o : Counted(o) => Counted(o)'
    BY <2>1, <2>2, CountedStays
  <2>4. ASSUME NEW o, o = rpc[t].obj PROVE Counted(o)'
    <3>1. TypeOf[o] = "trigger" /\ Len(stamps') < Size =>
            \E i \in DOMAIN stamps' : stamps'[i] = TimeOf[o]
      BY <2>1, <2>2, <2>4, WindowGrows DEF Typed, TypeOK
    <3> QED
      BY <3>1 DEF Counted
  <2>5. SeenIsKnown'
    <3>1. \A o : Adding(o) => Adding(o)'
      BY <1>1, <2>1 DEF Adding
    <3> QED
      BY <2>1, <3>1 DEF SubmitInv, SeenIsKnown
  <2> QED
    BY <1>1, <2>1, <2>3, <2>4, <2>5 DEF SubmitInv
<1>3. CASE SubmitSeen(t)
  <2>1. /\ rpc[t].step = "counted" /\ rpc'[t].step = "seen"
        /\ rpc'[t].obj = rpc[t].obj /\ mapSeen' = mapSeen \cup {rpc[t].obj}
        /\ UNCHANGED <<mapObjects, stamps, relayed, dropped>>
    BY <1>3, CallsByStep
    DEF SubmitSeen, At, Typed, env, Goto, Submissions
  <2>2. \A o : Adding(o) => Adding(o)'
    BY <1>1, <2>1 DEF Adding
  <2>3. Adding(rpc[t].obj)'
    BY <2>1 DEF Adding
  <2>4. SeenIsKnown'
    BY <2>1, <2>2, <2>3 DEF SubmitInv, SeenIsKnown
  <2> QED
    BY <1>1, <2>1, <2>4 DEF SubmitInv, Counted
<1>4. CASE SubmitRelay(t)
  <2>1. /\ rpc[t].step = "seen" /\ rpc'[t].step = "relayed"
        /\ rpc'[t].obj = rpc[t].obj /\ relayed' = relayed \cup {rpc[t].obj}
        /\ UNCHANGED <<mapObjects, mapSeen, stamps, dropped>>
    BY <1>4, CallsByStep
    DEF SubmitRelay, At, Typed, env, gov, Goto, Submissions
  <2>2. \A o : Adding(o) => Adding(o)'
    BY <1>1, <2>1 DEF Adding
  <2>3. SeenIsKnown'
    BY <2>1, <2>2 DEF SubmitInv, SeenIsKnown
  <2> QED
    BY <1>1, <2>1, <2>3 DEF SubmitInv, Counted
<1>5. CASE SubmitAdd(t)
  <2>1. /\ AddGovernanceObject(rpc[t].obj) /\ rpc'[t].step = "idle"
        /\ UNCHANGED <<mapSeen, stamps, relayed>>
    BY <1>5 DEF SubmitAdd, At, Typed, env, Goto, Idle
  <2>2. /\ mapObjects \cup dropped \subseteq mapObjects' \cup dropped'
        /\ rpc[t].obj \in mapObjects' \cup dropped'
    BY <2>1, ObjectAdded
  <2>3. \A o : Adding(o) => Adding(o)' \/ o = rpc[t].obj
    BY <1>1 DEF Adding
  <2>4. SeenIsKnown'
    BY <2>1, <2>2, <2>3 DEF SubmitInv, SeenIsKnown
  <2> QED
    BY <1>1, <2>1, <2>4 DEF SubmitInv, Counted
<1>6. CASE \/ \E o \in Objects : Submit(t, o)
           \/ \E entries \in Seq(Entries), o \in Objects,
                 ballot \in Signals \X Outcomes :
                StartVote(t, entries, o, ballot)
           \/ EndVote(t)
           \/ \E c \in {"list", "diff"} : StartQuery(t, c)
           \/ Query(t)
  <2>1. /\ UNCHANGED <<mapObjects, mapSeen, relayed, stamps, dropped>>
        /\ rpc[t].step \in {"idle", "voting", "query"}
        /\ rpc'[t].step \in {"checked", "voting", "query", "idle"}
    BY <1>6 DEF Submit, StartVote, EndVote, StartQuery, Query, At, Typed, gov,
                env, Goto, Idle
  <2> QED
    BY <1>1, <2>1, SubmissionsStay
<1>7. CASE VoteOne(t)
  <2>1. rpc[t].step = "voting" /\ rpc'[t].step = "voting"
    BY <1>7, ReportAfter DEF VoteCalls
  <2>2. UNCHANGED <<mapObjects, mapSeen, relayed, stamps, dropped>>
    BY <1>7 DEF VoteOne
  <2> QED
    BY <1>1, <2>1, <2>2, SubmissionsStay
<1> QED
  BY <1>2, <1>3, <1>4, <1>5, <1>6, <1>7 DEF ThreadStep

LEMMA SubmitStepKept ==
  ASSUME Typed, SubmitInv, NodeStep
  PROVE  SubmitInv'
<1>1. CASE \E t \in Threads : ThreadStep(t)
  BY <1>1, SubmitThread
<1>2. ASSUME NEW o \in Objects, ReceiveObject(o) PROVE SubmitInv'
  BY <1>2, ObjectAdded, SubmissionsStay DEF ReceiveObject
<1>3. ASSUME NEW o \in Objects, CheckAndRemove(o) PROVE SubmitInv'
  BY <1>3, SubmissionsStay DEF CheckAndRemove
<1>4. CASE Restart
  <2>1. /\ relayed' = {} /\ \A t \in Threads : rpc'[t].step = "idle"
        /\ \/ /\ UNCHANGED <<mapObjects, mapSeen>>
              /\ dropped' = dropped \cup
                              {o \in mapSeen \ mapObjects : Adding(o)}
           \/ mapSeen' = {}
    BY <1>4 DEF Restart, SerializationOp, Clear, gov, Idle
  <2>2. SeenIsKnown'
    BY <2>1 DEF SubmitInv, SeenIsKnown
  <2> QED
    BY <2>1, <2>2 DEF SubmitInv
<1>5. CASE \/ \E o \in Objects : Prepare(o) \/ SetCachedValid(o)
           \/ \E v \in mapOrphanVotes : CheckMasternodeOrphanVotes(v)
           \/ \E mn \in Masternodes : ListChanges(mn)
           \/ Tick \/ UNCHANGED vars
  <2>1. UNCHANGED <<rpc, mapObjects, mapSeen, relayed, stamps, dropped>>
    BY <1>5 DEF Prepare, SetCachedValid, CheckMasternodeOrphanVotes,
                ListChanges, Tick, vars, gov
  <2> QED
    BY <2>1, SubmissionsStay
<1> QED
  BY <1>1, <1>2, <1>3, <1>4, <1>5 DEF NodeStep
-----------------------------------------------------------------------------
(* Votes and reports.                                                      *)

(* Votes are on known objects, and of those of a masternode on an object   *)
(* with one signal one counts.                                             *)
VoteInv ==
  /\ current \subseteq votes
  /\ \A v \in votes : v.obj \in mapObjects
  /\ \A v \in votes : \E w \in current : Slot(w) = Slot(v)
  /\ \A v, w \in current : Slot(v) = Slot(w) => v = w
  /\ IsFiniteSet(votes) /\ IsFiniteSet(mapOrphanVotes)

(* The votes that waited for an object that comes now share no slot with   *)
(* those recorded before it.                                               *)
LEMMA VotesAfterObject ==
  ASSUME VoteInv, NEW o, AddGovernanceObject(o)
  PROVE  VoteInv'
<1>1. CASE UNCHANGED <<mapObjects, votes, current, mapOrphanVotes>>
  BY <1>1 DEF VoteInv
<1>2. CASE ~UNCHANGED <<mapObjects, votes, current, mapOrphanVotes>>
  <2>1. o \notin mapObjects /\ mapObjects' = mapObjects \cup {o}
    BY <1>2 DEF AddGovernanceObject
  <2>1a. PICK taken \in SUBSET {v \in mapOrphanVotes : v.obj = o} :
           /\ votes' = votes \cup taken
           /\ \E won \in Counting(taken) : current' = current \cup won
           /\ mapOrphanVotes' = mapOrphanVotes \ taken
    BY <1>2 DEF AddGovernanceObject
  <2>1b. PICK won \in Counting(taken) : current' = current \cup won
    BY <2>1a
  <2>2. /\ votes' = votes \cup taken /\ current' = current \cup won
        /\ mapOrphanVotes' = mapOrphanVotes \ taken
    BY <2>1a, <2>1b
  <2>3. /\ won \subseteq taken
        /\ \A v \in taken : v.obj = o /\ v \in mapOrphanVotes
        /\ \A v \in taken : \E w \in won :
             {x \in won : Slot(x) = Slot(v)} = {w}
    BY <2>1b DEF Counting
  <2>4. ASSUME NEW v \in won, NEW w \in won, Slot(v) = Slot(w) PROVE v = w
    <3>1. PICK x \in won : {y \in won : Slot(y) = Slot(v)} = {x}
      BY <2>3
    <3> QED
      BY <2>4, <3>1
  <2>5. ASSUME NEW v \in taken PROVE \E w \in won : Slot(w) = Slot(v)
    BY <2>3
  <2>6. \A v \in votes, w \in taken : Slot(v) # Slot(w)
    BY <2>1, <2>3 DEF VoteInv, Slot
  <2>7. current' \subseteq votes' /\ \A v \in votes' : v.obj \in mapObjects'
    BY <2>1, <2>2, <2>3 DEF VoteInv
  <2>8. \A v \in votes' : \E w \in current' : Slot(w) = Slot(v)
    BY <2>2, <2>5 DEF VoteInv
  <2>9. \A v, w \in current' : Slot(v) = Slot(w) => v = w
    <3>1. current \subseteq votes /\ won \subseteq taken
      BY <2>3 DEF VoteInv
    <3> QED
      BY <2>2, <2>4, <2>6, <3>1 DEF VoteInv
  <2>10. IsFiniteSet(votes') /\ IsFiniteSet(mapOrphanVotes')
    <3>1. IsFiniteSet(taken) /\ IsFiniteSet(mapOrphanVotes \ taken)
      BY FS_Subset DEF VoteInv
    <3> QED
      BY <2>2, <3>1, FS_Union DEF VoteInv
  <2> QED
    BY <2>7, <2>8, <2>9, <2>10 DEF VoteInv
<1> QED
  BY <1>1, <1>2

(* A vote recorded takes the place of the one that counted before.         *)
LEMMA VotesAfterRecord ==
  ASSUME VoteInv, NEW v, v.obj \in mapObjects, RecordVote(v),
         UNCHANGED mapObjects,
         mapOrphanVotes' \subseteq mapOrphanVotes
  PROVE  VoteInv'
<1>1. /\ votes' = votes \cup {v}
      /\ current' = {w \in current : Slot(w) # Slot(v)} \cup {v}
  BY DEF RecordVote
<1>2. IsFiniteSet(votes') /\ IsFiniteSet(mapOrphanVotes')
  BY <1>1, FS_AddElement, FS_Subset DEF VoteInv
<1>3. ASSUME NEW w \in votes' PROVE \E x \in current' : Slot(x) = Slot(w)
  <2>1. CASE Slot(w) = Slot(v)
    BY <1>1, <2>1
  <2>2. CASE Slot(w) # Slot(v)
    BY <1>1, <2>2 DEF VoteInv
  <2> QED
    BY <2>1, <2>2
<1>4. \A w, x \in current' : Slot(w) = Slot(x) => w = x
  BY <1>1 DEF VoteInv
<1>5. current' \subseteq votes' /\ \A w \in votes' : w.obj \in mapObjects'
  BY <1>1 DEF VoteInv
<1> QED
  BY <1>2, <1>3, <1>4, <1>5 DEF VoteInv

LEMMA VotesAfterVote ==
  ASSUME VoteInv, NEW v, NEW fOK \in BOOLEAN, ProcessVote(v, fOK),
         UNCHANGED mapObjects
  PROVE  VoteInv'
<1>1. CASE RecordVote(v) /\ v.obj \in mapObjects /\ UNCHANGED mapOrphanVotes
  BY <1>1, VotesAfterRecord
<1>2. CASE AddOrphanVote(v)
  <2>1. mapOrphanVotes' = mapOrphanVotes \cup {v}
        /\ UNCHANGED <<votes, current>>
    BY <1>2 DEF AddOrphanVote
  <2>2. IsFiniteSet(mapOrphanVotes')
    BY <2>1, FS_AddElement DEF VoteInv
  <2> QED
    BY <2>1, <2>2 DEF VoteInv
<1>3. CASE UNCHANGED <<votes, current, mapOrphanVotes>>
  BY <1>3 DEF VoteInv
<1> QED
  BY <1>1, <1>2, <1>3 DEF ProcessVote

(* An object goes with all its votes.                                      *)
LEMMA VotesAfterRemoval ==
  ASSUME VoteInv, NEW o, CheckAndRemove(o)
  PROVE  VoteInv'
<1>1. /\ mapObjects' = mapObjects \ {o}
      /\ votes' = {v \in votes : v.obj # o}
      /\ current' = current \ {v \in votes : v.obj = o}
      /\ UNCHANGED mapOrphanVotes
  BY DEF CheckAndRemove, GetMatchingVotes
<1>2. IsFiniteSet(votes')
  BY <1>1, FS_Subset DEF VoteInv
<1>3. ASSUME NEW v \in votes' PROVE \E w \in current' : Slot(w) = Slot(v)
  <2>1. PICK w \in current : Slot(w) = Slot(v)
    BY <1>1, <1>3 DEF VoteInv
  <2>2. w.obj = v.obj
    BY <2>1 DEF Slot
  <2> QED
    BY <1>1, <2>1, <2>2
<1> QED
  BY <1>1, <1>2, <1>3 DEF VoteInv

LEMMA VoteStepKept ==
  ASSUME VoteInv, NodeStep
  PROVE  VoteInv'
<1> DEFINE Same == UNCHANGED <<mapObjects, votes, current, mapOrphanVotes>>
<1>1. ASSUME Same PROVE VoteInv'
  BY <1>1 DEF VoteInv
<1>2. ASSUME NEW t \in Threads, ThreadStep(t) PROVE VoteInv'
  <2>1. CASE SubmitAdd(t)
    BY <2>1, VotesAfterObject DEF SubmitAdd
  <2>2. CASE VoteOne(t)
    <3> DEFINE v == [mn |-> Head(rpc[t].left).mn, obj |-> rpc[t].obj,
                     signal |-> rpc[t].signal, outcome |-> rpc[t].outcome]
    <3>1. \/ \E fOK \in BOOLEAN : ProcessVote(v, fOK)
          \/ UNCHANGED <<votes, current, mapOrphanVotes>>
      BY <2>2 DEF VoteOne
    <3>2. UNCHANGED mapObjects
      BY <2>2 DEF VoteOne
    <3> HIDE DEF v
    <3> QED
      BY <1>1, <3>1, <3>2, VotesAfterVote
  <2>3. CASE ~SubmitAdd(t) /\ ~VoteOne(t)
    <3>1. Same
      BY <1>2, <2>3
      DEF ThreadStep, Submit, SubmitCount, SubmitSeen, SubmitRelay, StartVote,
          EndVote, StartQuery, Query, gov
    <3> QED
      BY <1>1, <3>1
  <2> QED
    BY <2>1, <2>2, <2>3
<1>3. ASSUME NEW o \in Objects, ReceiveObject(o) PROVE VoteInv'
  BY <1>3, VotesAfterObject DEF ReceiveObject
<1>4. ASSUME NEW o \in Objects, CheckAndRemove(o) PROVE VoteInv'
  BY <1>4, VotesAfterRemoval
<1>5. ASSUME NEW v \in mapOrphanVotes, CheckMasternodeOrphanVotes(v)
      PROVE  VoteInv'
  <2>1. /\ UNCHANGED mapObjects /\ mapOrphanVotes' = mapOrphanVotes \ {v}
        /\ \/ v.obj \in mapObjects /\ RecordVote(v)
           \/ UNCHANGED <<votes, current>>
    BY <1>5 DEF CheckMasternodeOrphanVotes
  <2>2. CASE v.obj \in mapObjects /\ RecordVote(v)
    BY <2>1, <2>2, VotesAfterRecord
  <2>3. CASE UNCHANGED <<votes, current>>
    BY <2>1, <2>3, FS_Subset DEF VoteInv
  <2> QED
    BY <2>1, <2>2, <2>3
<1>6. CASE Restart
  <2>1. \/ Same
        \/ /\ mapObjects' = {} /\ votes' = {} /\ current' = {}
           /\ mapOrphanVotes' = {}
    BY <1>6 DEF Restart, SerializationOp, Clear, gov
  <2>2. IsFiniteSet({})
    BY FS_EmptySet
  <2> QED
    BY <1>1, <2>1, <2>2 DEF VoteInv
<1>7. CASE \/ \E o \in Objects : Prepare(o) \/ SetCachedValid(o)
           \/ \E mn \in Masternodes : ListChanges(mn)
           \/ Tick \/ UNCHANGED vars
  <2>1. Same
    BY <1>7 DEF Prepare, SetCachedValid, ListChanges, Tick, vars, gov
  <2> QED
    BY <1>1, <2>1
<1> QED
  BY <1>2, <1>3, <1>4, <1>5, <1>6, <1>7 DEF NodeStep

LEMMA ReportStepKept ==
  ASSUME Typed, ReportAddsUp, NodeStep
  PROVE  ReportAddsUp'
<1>1. ASSUME NEW t \in Threads, ThreadStep(t) PROVE ReportAddsUp'
  <2>1. Typed' /\ \A u \in Threads \ {t} : rpc'[u] = rpc[u]
    BY <1>1, ThreadTyped
  <2> DEFINE Sums(c) ==
               /\ c.nSuccessful = Len(c.sent)
               /\ c.nSuccessful + c.nFailed + c.skipped + Len(c.left) = c.of
  <2>2. SUFFICES rpc'[t].step = "voting" => Sums(rpc'[t])
    BY <2>1 DEF ReportAddsUp, At
  <2>3. CASE VoteOne(t)
    <3>1. Sums(rpc[t])
      BY <2>3 DEF ReportAddsUp, VoteOne, At
    <3>2. PICK c, d : c = rpc[t] /\ d = rpc'[t]
      OBVIOUS
    <3>3. /\ Len(c.left) \in Nat /\ Len(d.left) = Len(c.left) - 1
          /\ d.of = c.of
          /\ d.nSuccessful + d.nFailed + d.skipped
               = c.nSuccessful + c.nFailed + c.skipped + 1
          /\ Len(d.sent) = d.nSuccessful
      BY <2>3, <3>1, <3>2, ReportAfter
    <3>4. /\ c.nSuccessful \in Nat /\ c.nFailed \in Nat /\ c.skipped \in Nat
          /\ d.nSuccessful \in Nat /\ d.nFailed \in Nat /\ d.skipped \in Nat
      BY <2>3, <3>2, ReportAfter DEF VoteCalls
    <3>5. c.nSuccessful + c.nFailed + c.skipped + Len(c.left) = c.of
      BY <3>1, <3>2
    <3> QED
      BY <3>2, <3>3, <3>4, <3>5
  <2>4. CASE \E entries \in Seq(Entries), o \in Objects,
                ballot \in Signals \X Outcomes :
               StartVote(t, entries, o, ballot)
    <3>1. PICK entries \in Seq(Entries), o \in Objects,
               ballot \in Signals \X Outcomes :
            StartVote(t, entries, o, ballot)
      BY <2>4
    <3>2. /\ rpc'[t].nSuccessful = 0 /\ rpc'[t].nFailed = 0
          /\ rpc'[t].skipped = 0 /\ rpc'[t].sent = << >>
          /\ rpc'[t].left = entries /\ rpc'[t].of = Len(entries)
      BY <3>1 DEF StartVote, Goto, Typed
    <3> QED
      BY <3>2
  <2>5. CASE ~VoteOne(t) /\ ~ \E entries \in Seq(Entries), o \in Objects,
                                ballot \in Signals \X Outcomes :
                               StartVote(t, entries, o, ballot)
    <3>1. rpc'[t].step # "voting"
      <4>1. CASE SubmitCount(t) \/ SubmitSeen(t) \/ SubmitRelay(t)
        BY <4>1, CallsByStep
        DEF SubmitCount, SubmitSeen, SubmitRelay, At, Goto, Typed, Idle,
            Submissions
      <4>2. CASE ~SubmitCount(t) /\ ~SubmitSeen(t) /\ ~SubmitRelay(t)
        BY <1>1, <2>5, <4>2
        DEF ThreadStep, Submit, SubmitAdd, EndVote, StartQuery, Query, Goto,
            Typed, Idle
      <4> QED
        BY <4>1, <4>2
    <3> QED
      BY <3>1
  <2> QED
    BY <2>3, <2>4, <2>5
<1>2. CASE Restart
  BY <1>2 DEF Restart, ReportAddsUp, At, Idle
<1>3. CASE \/ \E o \in Objects : Prepare(o) \/ SetCachedValid(o)
           \/ \E o \in Objects : ReceiveObject(o) \/ CheckAndRemove(o)
           \/ \E v \in mapOrphanVotes : CheckMasternodeOrphanVotes(v)
           \/ \E mn \in Masternodes : ListChanges(mn)
           \/ Tick \/ UNCHANGED vars
  <2>1. UNCHANGED rpc
    BY <1>3 DEF Prepare, SetCachedValid, ReceiveObject, CheckAndRemove,
                CheckMasternodeOrphanVotes, ListChanges, Tick, vars
  <2> QED
    BY <2>1 DEF ReportAddsUp, At
<1> QED
  BY <1>1, <1>2, <1>3 DEF NodeStep

(* Each masternode that has voted on an object with a signal has one vote  *)
(* that counts, and that is of one outcome.                                *)
LEMMA VotesAreCounted ==
  ASSUME Typed, VoteInv
  PROVE  CountsAreOfVotes
<1>1. ASSUME NEW v \in votes
      PROVE  \E w \in current : {x \in current : Slot(x) = Slot(v)} = {w}
  <2>1. PICK w \in current : Slot(w) = Slot(v)
    BY DEF VoteInv
  <2>2. \A x \in current : Slot(x) = Slot(v) => x = w
    BY <2>1 DEF VoteInv
  <2> QED
    BY <2>1, <2>2
<1>2. ASSUME NEW o \in mapObjects, NEW signal \in Signals
      PROVE  SumFunction(Get(o, signal)) =
               Cardinality({v.mn : v \in {w \in GetMatchingVotes(o) :
                                           w.signal = signal}})
  <2> DEFINE cast == {w \in GetMatchingVotes(o) : w.signal = signal}
             all == {w \in GetCurrentVotes(o) : w.signal = signal}
             names == {v.mn : v \in cast}
             name == [v \in all |-> v.mn]
             outcome == [v \in all |-> v.outcome]
  <2>1. /\ IsFiniteSet(all) /\ all \subseteq current /\ all \subseteq cast
        /\ all \subseteq Votes
        /\ \A v \in cast : v \in votes /\ v.obj = o /\ v.signal = signal
    BY FS_Subset DEF VoteInv, GetCurrentVotes, GetMatchingVotes, Typed, TypeOK
  <2>2. Cardinality(names) = Cardinality(all)
    <3>1. name \in Injection(all, names)
      <4>1. \A v, w \in all : v.mn = w.mn => Slot(v) = Slot(w)
        BY <2>1 DEF Slot
      <4>2. \A v, w \in all : v.mn = w.mn => v = w
        BY <2>1, <4>1 DEF VoteInv
      <4>3. name \in [all -> names]
        BY <2>1
      <4> HIDE DEF all, names
      <4> QED
        BY <4>2, <4>3 DEF Injection, IsInjective
    <3>2. name \in Surjection(all, names)
      <4>1. ASSUME NEW v \in cast PROVE \E w \in all : name[w] = v.mn
        <5>1. PICK w \in current : Slot(w) = Slot(v)
          BY <2>1 DEF VoteInv
        <5>2. w.mn = v.mn /\ w.obj = o /\ w.signal = signal
          BY <2>1, <5>1 DEF Slot
        <5>3. w \in all
          BY <5>1, <5>2 DEF GetCurrentVotes
        <5> QED
          BY <5>2, <5>3
      <4>2. \A n \in names : \E w \in all : name[w] = n
        BY <4>1
      <4>3. name \in [all -> names]
        BY <2>1
      <4> HIDE DEF all, names, name
      <4> QED
        BY <4>2, <4>3 DEF Surjection
    <3>3. name \in Bijection(all, names)
      BY <3>1, <3>2 DEF Bijection
    <3> QED
      BY <2>1, <3>3, FS_Bijection DEF ExistsBijection
  <2>3. SumFunction(Get(o, signal)) = Cardinality(all)
    <3>1. IsFiniteSet(Outcomes) /\ outcome \in [all -> Outcomes]
      BY <2>1, GovernanceAssumption DEF Votes
    <3>2. ASSUME NEW c \in Outcomes
          PROVE  {v \in GetCurrentVotes(o) : v.signal = signal /\ v.outcome = c}
                   = {v \in all : outcome[v] = c}
      OBVIOUS
    <3>3. Get(o, signal) =
            [c \in Outcomes |-> Cardinality({v \in all : outcome[v] = c})]
      BY <3>2 DEF Get, Count
    <3>4. DOMAIN Get(o, signal) = Outcomes
      BY DEF Get
    <3> HIDE DEF all, outcome
    <3>5. SumFunctionOnSet(Get(o, signal), Outcomes) = Cardinality(all)
      BY <2>1, <3>1, <3>3, SumOfFibres
    <3> QED
      BY <3>4, <3>5 DEF SumFunction
  <2> QED
    BY <2>2, <2>3
<1> QED
  BY <1>1, <1>2 DEF CountsAreOfVotes, VoteInv

(* All that a step keeps.                                                  *)
GovernanceInv == Typed /\ SubmitInv /\ VoteInv /\ ReportAddsUp /\ QueryInv

LEMMA GovernanceInit == NodeInit => GovernanceInv
<1> SUFFICES ASSUME NodeInit PROVE GovernanceInv
  OBVIOUS
<1> USE DEF NodeInit, Init
<1>1. Typed
  <2>1. << >> \in Seq(0 .. MaxTime) /\ Len(<< >>) = 0
    OBVIOUS
  <2>2. TypeOK
    BY <2>1, GovernanceAssumption DEF TypeOK
  <2> QED
    BY <2>2 DEF Typed, Calls
<1>2. SubmitInv
  BY DEF SubmitInv, SeenIsKnown, Idle
<1>3. VoteInv
  BY FS_EmptySet DEF VoteInv
<1>4. ReportAddsUp
  BY DEF ReportAddsUp, At, Idle
<1>5. QueryInv
  BY DEF QueryInv, NothingPassedOver, At, Idle
<1> QED
  BY <1>1, <1>2, <1>3, <1>4, <1>5 DEF GovernanceInv

LEMMA GovernanceStep ==
  GovernanceInv /\ [NodeNext]_<<vars, activeVars>> => GovernanceInv'
BY NextIsNodeStep, TypedStep, SubmitStepKept, VoteStepKept, ReportStepKept,
   QueryStepKept DEF GovernanceInv

LEMMA GovernanceInvImplies ==
  GovernanceInv => RecordsAgree /\ NothingPassedOver
<1> SUFFICES ASSUME GovernanceInv PROVE RecordsAgree /\ NothingPassedOver
  OBVIOUS
<1>1. RelayedIsCounted
  BY DEF GovernanceInv, SubmitInv, RelayedIsCounted, Counted
<1>2. CountsAreOfVotes
  BY VotesAreCounted DEF GovernanceInv
<1> QED
  BY <1>1, <1>2
  DEF GovernanceInv, Typed, SubmitInv, VoteInv, QueryInv, RecordsAgree

(* The maps of the governance manager, the window of its rate check, what  *)
(* peers were told and what a command reports (governance.h,               *)
(* rpcgovernance.cpp) speak of the same objects and votes, whatever other  *)
(* threads, peers, maintenance, refusals and restarts do between the calls *)
(* of a command.                                                           *)
THEOREM RecordsAlwaysAgree == NodeSpec => []RecordsAgree
<1>1. NodeInit => GovernanceInv
  BY GovernanceInit
<1>2. GovernanceInv /\ [NodeNext]_<<vars, activeVars>> => GovernanceInv'
  BY GovernanceStep
<1>3. GovernanceInv => RecordsAgree
  BY GovernanceInvImplies
<1> QED
  BY <1>1, <1>2, <1>3, PTL DEF NodeSpec

(* gobject list and gobject diff (rpcgovernance.cpp) together pass over no *)
(* object that came before a query had passed the time it carries: one     *)
(* that is older than the last query was shown by a query, or left out by  *)
(* its filters, though each reads the time of the last query before it     *)
(* takes the lock.                                                         *)
THEOREM NothingEverPassedOver == NodeSpec => []NothingPassedOver
<1>1. NodeInit => GovernanceInv
  BY GovernanceInit
<1>2. GovernanceInv /\ [NodeNext]_<<vars, activeVars>> => GovernanceInv'
  BY GovernanceStep
<1>3. GovernanceInv => NothingPassedOver
  BY GovernanceInvImplies
<1> QED
  BY <1>1, <1>2, <1>3, PTL DEF NodeSpec
=============================================================================
