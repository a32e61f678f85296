-------------------------- MODULE ActiveMasternode --------------------------
(***************************************************************************)
(* The masternode a node runs (Maternodes/activemasternode.cpp) and the    *)
(* command masternode start (Maternodes/ChainX-MN/rpcmasternode.cpp).      *)
(* ManageState takes no lock: the thread that calls it from time to time   *)
(* and a start command may both be in it, so each look at the state and    *)
(* each change of it is a step of its own.  ManageStateRemote and          *)
(* ManageStateLocal, the end of ManageStateInitial and the list of         *)
(* masternodes are not in the repository.                                  *)
(***************************************************************************)
EXTENDS Naturals, FiniteSets

CONSTANT Callers  \* the threads that call ManageState

VARIABLES
  fMasterNode, network, \* of the configuration: masternode, chain,
  fListen, defaultPort, \* whether it listens, on the port of the chain main
  listed,               \* mnodeman.Has(vin)
  synced,               \* masternodeSync.IsBlockchainSynced
  nState, eType, fPingerEnabled,
  recent,               \* a ping of the last MASTERNODE_MIN_MNP_SECONDS
  pings,                \* how many were sent in that time
  at,                   \* where each caller is in ManageState
  rebroadcast           \* a masternode restored as remote was announced anew

config == <<fMasterNode, network, fListen, defaultPort>>
state == <<nState, eType, fPingerEnabled, rebroadcast>>
vars == <<config, listed, synced, state, recent, pings, at>>

NStates == {"INITIAL", "SYNC_IN_PROCESS", "INPUT_TOO_NEW", "NOT_CAPABLE",
            "STARTED"}
Types == {"UNKNOWN", "REMOTE", "LOCAL"}

Go(c, where) == at' = [at EXCEPT ![c] = where]
-----------------------------------------------------------------------------
(* Mutant: the port of the main chain is good on every chain.             *)
ManageStateInitialAnyPort(address) ==
  fListen /\ address /\ (network = "main" => defaultPort)

(* The node listens, finds its address (in the configuration or by a peer) *)
(* and has the port of its chain.                                          *)
ManageStateInitial(address) ==
  fListen /\ address /\ ((network = "main") <=> defaultPort)

(* Either start leaves the state started, with the pinger on, or says why  *)
(* not.                                                                    *)
AfterRemote == IF listed THEN {"STARTED", "NOT_CAPABLE"} ELSE {"NOT_CAPABLE"}
AfterLocal == {"STARTED", "NOT_CAPABLE", "INPUT_TOO_NEW"}
Becomes(new) ==
  nState' = new /\ fPingerEnabled' = (fPingerEnabled \/ new = "STARTED")

(* ManageState of a node that is no masternode, or has to wait, ends.      *)
ManageState(c) ==
  /\ at[c] = "manage"
  /\ Go(c, IF ~fMasterNode THEN "out"
           ELSE IF network # "regtest" /\ ~synced THEN "behind" ELSE "synced")
  /\ UNCHANGED <<config, listed, synced, state, recent, pings>>

WaitForSync(c) ==
  /\ at[c] = "behind"
  /\ nState' = "SYNC_IN_PROCESS"
  /\ Go(c, "out")
  /\ UNCHANGED <<config, listed, synced, eType, fPingerEnabled, rebroadcast,
                 recent, pings>>

(* A state of waiting is looked at, and put back, in two steps.            *)
LookAtState(c) ==
  /\ at[c] = "synced"
  /\ Go(c, IF nState = "SYNC_IN_PROCESS" THEN "caught up" ELSE "type")
  /\ UNCHANGED <<config, listed, synced, state, recent, pings>>

CaughtUp(c) ==
  /\ at[c] = "caught up"
  /\ nState' = "INITIAL"
  /\ Go(c, "type")
  /\ UNCHANGED <<config, listed, synced, eType, fPingerEnabled, rebroadcast,
                 recent, pings>>

(* A type that is known is kept.                                           *)
LookAtType(c) ==
  /\ at[c] = "type"
  /\ Go(c, IF eType = "UNKNOWN" THEN "initial" ELSE "remote?")
  /\ UNCHANGED <<config, listed, synced, state, recent, pings>>

Initial(c) ==
  /\ at[c] = "initial"
  /\ \E address \in BOOLEAN :
       IF ManageStateInitial(address)
       THEN eType' \in Types /\ nState' \in {nState, "NOT_CAPABLE"}
       ELSE nState' = "NOT_CAPABLE" /\ UNCHANGED eType
  /\ Go(c, "remote?")
  /\ UNCHANGED <<config, listed, synced, fPingerEnabled, rebroadcast, recent,
                 pings>>

(* The type is compared with either kind.                                  *)
IsRemote(c) ==
  /\ at[c] = "remote?"
  /\ Go(c, IF eType = "REMOTE" THEN "remote" ELSE "local?")
  /\ UNCHANGED <<config, listed, synced, state, recent, pings>>

IsLocal(c) ==
  /\ at[c] = "local?"
  /\ Go(c, IF eType = "LOCAL" THEN "local" ELSE "ping")
  /\ UNCHANGED <<config, listed, synced, state, recent, pings>>

ManageStateRemote(c) ==
  /\ at[c] = "remote"
  /\ \E r \in AfterRemote : Becomes(r)
  /\ Go(c, "ping")
  /\ UNCHANGED <<config, listed, synced, eType, rebroadcast, recent, pings>>

(* A local masternode is started as a remote one first; what comes of it   *)
(* is in the state, for the next step or another thread to find.           *)
LocalAsRemote(c) ==
  /\ at[c] = "local"
  /\ \E r \in AfterRemote :
       Becomes(r) /\ Go(c, IF r = "STARTED" THEN "restored" ELSE "refused")
  /\ UNCHANGED <<config, listed, synced, eType, rebroadcast, recent, pings>>

IsStarted(c) ==
  /\ at[c] \in {"restored", "refused"}
  /\ Go(c, IF nState = "STARTED" THEN "ping"
           ELSE IF at[c] = "restored" THEN "announce again" ELSE "announce")
  /\ UNCHANGED <<config, listed, synced, state, recent, pings>>

(* A local start that succeeds sends a broadcast.                          *)
ManageStateLocal(c) ==
  /\ at[c] \in {"announce", "announce again"}
  /\ \E l \in AfterLocal :
       /\ Becomes(l)
       /\ rebroadcast' =
            (rebroadcast \/ (at[c] = "announce again" /\ l = "STARTED"))
  /\ Go(c, "ping")
  /\ UNCHANGED <<config, listed, synced, eType, recent, pings>>

(* SendMasternodePing up to the look at the last ping.                     *)
PingCheck(c) ==
  /\ at[c] = "ping"
  /\ nState' = IF fPingerEnabled /\ ~listed THEN "NOT_CAPABLE" ELSE nState
  /\ \/ fPingerEnabled /\ listed /\ ~recent /\ Go(c, "send")
     \/ Go(c, "out") \* too early, or the ping is not signed
  /\ UNCHANGED <<config, listed, synced, eType, fPingerEnabled, rebroadcast,
                 recent, pings>>

(* Mutant: the ping is not entered in the list.                            *)
PingSendUnmarked(c) ==
  /\ at[c] = "send"
  /\ pings' = pings + 1
  /\ Go(c, "out")
  /\ UNCHANGED <<config, listed, synced, state, recent>>

(* The ping is entered in the list of masternodes and relayed.             *)
PingSend(c) ==
  /\ at[c] = "send"
  /\ recent' = TRUE /\ pings' = pings + 1
  /\ Go(c, "out")
  /\ UNCHANGED <<config, listed, synced, state>>

(* The thread calls ManageState from time to time.                         *)
Call(c) ==
  /\ at[c] = "out"
  /\ Go(c, "manage")
  /\ UNCHANGED <<config, listed, synced, state, recent, pings>>

(* masternode start looks at the state, and puts it back to the beginning. *)
StartCommand(c) ==
  /\ at[c] = "out" /\ fMasterNode
  /\ nState # "STARTED"
  /\ Go(c, "restart")
  /\ UNCHANGED <<config, listed, synced, state, recent, pings>>

Restarted(c) ==
  /\ at[c] = "restart"
  /\ nState' = "INITIAL"
  /\ Go(c, "manage")
  /\ UNCHANGED <<config, listed, synced, eType, fPingerEnabled, rebroadcast,
                 recent, pings>>
-----------------------------------------------------------------------------
SyncChanges ==
  /\ synced' = ~synced
  /\ UNCHANGED <<config, listed, state, recent, pings, at>>

(* MASTERNODE_MIN_MNP_SECONDS pass.                                        *)
TimePasses ==
  /\ recent' = FALSE /\ pings' = 0
  /\ UNCHANGED <<config, listed, synced, state, at>>

Init ==
  /\ fMasterNode \in BOOLEAN /\ network \in {"main", "test", "regtest"}
  /\ fListen \in BOOLEAN /\ defaultPort \in BOOLEAN
  /\ synced = FALSE
  /\ nState = "INITIAL" /\ eType = "UNKNOWN" /\ fPingerEnabled = FALSE
  /\ rebroadcast = FALSE
  /\ recent = FALSE /\ pings = 0
  /\ at = [c \in Callers |-> "out"]

Manage(c) ==
  \/ ManageState(c) \/ WaitForSync(c) \/ LookAtState(c) \/ CaughtUp(c)
  \/ LookAtType(c) \/ Initial(c) \/ IsRemote(c) \/ IsLocal(c)
  \/ ManageStateRemote(c) \/ LocalAsRemote(c) \/ IsStarted(c)
  \/ ManageStateLocal(c)
  \/ PingCheck(c) \/ PingSend(c)

Next ==
  \/ \E c \in Callers : Call(c) \/ StartCommand(c) \/ Restarted(c) \/ Manage(c)
  \/ SyncChanges \/ TimePasses
-----------------------------------------------------------------------------
Steps == {"manage", "behind", "synced", "caught up", "type", "initial",
          "remote?", "local?", "remote", "local", "restored", "refused",
          "announce", "announce again", "ping", "send"}

TypeOK ==
  /\ nState \in NStates /\ eType \in Types
  /\ at \in [Callers -> Steps \cup {"out", "restart"}]
  /\ pings \in Nat

(* A node that does not listen, or not on a port of its chain, never       *)
(* becomes a masternode, whatever order its status changes come in.        *)
MisconfiguredNeverStarts ==
  nState = "STARTED" \/ fPingerEnabled =>
    fMasterNode /\ fListen /\ ((network = "main") <=> defaultPort)

(* Two threads that both find the last ping old enough both send one, but  *)
(* in no period are there more pings than threads.                         *)
PingsBounded == pings <= Cardinality(Callers)

(* A masternode comes up only as configured and pings in time, though a    *)
(* start command sets the state back, and a second thread takes any step,  *)
(* between two steps of ManageState.                                       *)
ActivationIsOrderly ==
  /\ TypeOK
  /\ MisconfiguredNeverStarts
  /\ PingsBounded

(* "Try Remote Start first so the started local masternode can be          *)
(* restarted without recreate masternode broadcast"                        *)
(* (activemasternode.cpp:39): where the remote start has succeeded, no     *)
(* broadcast is sent.                                                      *)
RestartsWithoutBroadcast == ~rebroadcast
=============================================================================
