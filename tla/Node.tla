-------------------------------- MODULE Node --------------------------------
(***************************************************************************)
(* A node: its governance commands and the masternode it runs share the    *)
(* list of masternodes.  A behaviour mixes the kinds of commands that its  *)
(* load names, "masternode" among them.                                    *)
(***************************************************************************)
EXTENDS Governance

VARIABLES
  fMasterNode, network, fListen, defaultPort, synced, nState, eType,
  fPingerEnabled, recent, pings, at, rebroadcast

Active == INSTANCE ActiveMasternode WITH Callers <- Threads,
                                         listed <- Self \in listed

activeVars ==
  <<fMasterNode, network, fListen, defaultPort, synced, nState, eType,
    fPingerEnabled, recent, pings, at, rebroadcast>>

(* The configuration of the masternode matters where it is at work.        *)
NodeInit ==
  /\ Init
  /\ Active!Init
  /\ "masternode" \notin load => fMasterNode /\ network = "main" /\ fListen
                                  /\ defaultPort

NodeNext ==
  \/ Next /\ UNCHANGED activeVars
  \/ "masternode" \in load /\ UNCHANGED vars /\ Active!Next

NodeSpec == NodeInit /\ [][NodeNext]_<<vars, activeVars>>
-----------------------------------------------------------------------------
(* The invariant of ActiveMasternode, in a node whose list of masternodes  *)
(* changes under it.                                                       *)
ActivationIsOrderly == Active!ActivationIsOrderly

(* "Try Remote Start first so the started local masternode can be          *)
(* restarted without recreate masternode broadcast"                        *)
(* (activemasternode.cpp:39).                                              *)
RestartsWithoutBroadcast == Active!RestartsWithoutBroadcast
=============================================================================
