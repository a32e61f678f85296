------------------------------- MODULE MCTools ------------------------------
(* The two client tools, one of them in a behaviour.                       *)
EXTENDS TxTool, RpcFailover, TLC

CONSTANTS a, b, oa, ob, x, y, c1, c2, c3

(* Two parties.  One output is for one of them, one for both together.     *)
(* prevtxs tells of both, or takes the first for the other party's.        *)
MCOwner == oa :> {a} @@ ob :> {a, b}
MCKeySets == {{a}, {b}}
MCPrevTxs ==
  {{<<oa, {a}>>, <<ob, {a, b}>>}, {<<oa, {b}>>}, {<<oa, {a}>>, <<oa, {b}>>}}
MCLocktimes == {-1, 1, 2}
MCFlags == [base : {"ALL", "SINGLE"}, anyone : {FALSE}]
             \cup [base : {"NONE", "SINGLE"}, anyone : {TRUE}]

MCLists == {<< >>, <<c1>>, <<c2, c1>>, <<c1, c2, c3>>, <<c3, c1, c2>>}

VARIABLE tool

MCInit ==
  /\ tool \in {"chainx-tx", "masternode tool"}
  /\ Init
  /\ RpcInit
  /\ tool = "chainx-tx" => connections = << >>

MCNext ==
  /\ UNCHANGED tool
  /\ \/ tool = "chainx-tx" /\ UNCHANGED rpcVars /\ Next
     \/ tool = "masternode tool" /\ UNCHANGED vars /\ RpcNext

MCSpec == MCInit /\ [][MCNext]_<<tool, vars, rpcVars>> /\ RpcFairness
=============================================================================
