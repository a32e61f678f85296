----------------------------- MODULE RpcFailover ----------------------------
(***************************************************************************)
(* The masternode tool's connection (Maternodes/ChainX.intf.py): a call    *)
(* opens the connection it needs; open and switch_to_next_config call each *)
(* other until a configuration works or the list has come round to the one *)
(* the call started with.  Connecting, through a tunnel or directly, and   *)
(* the remote call have any outcome.  There is no lock: the window may     *)
(* bring new configurations while a call is under way in its own thread.   *)
(* The decorator control_rpc_call is external: it marks the call's         *)
(* beginning, and when the remote call finds no connection it switches and *)
(* tries again.                                                            *)
(***************************************************************************)
EXTENDS Integers, Sequences, SequencesExt

CONSTANTS
  Lists,   \* what get_ordered_conn_list returns: no configuration twice
  NoConn,  \* None
  MaxDepth \* how many calls of open may be waiting for one another

ASSUME DepthAssumption == MaxDepth \in Nat

ASSUME ListsAssumption ==
  \A list \in Lists :
    /\ list \in Seq(Range(list)) /\ NoConn \notin Range(list)
    /\ \A i, j \in 1 .. Len(list) : list[i] = list[j] => i = j

VARIABLES
  connections, cur_conn_index, cur_conn_def, starting_conn, active,
  proxy,  \* the configuration that its proxy was made for
  pc,     \* what is called, or what has returned
  opens,  \* the calls that wait for switch_to_next_config, and why
  tried,  \* configurations that open_internal tried in this call
  cut,    \* the user, or an exception that open does not know, has ended
          \* one of its attempts
  overtaken \* the list has changed under a call

rpcVars == <<connections, cur_conn_index, cur_conn_def, starting_conn, active,
             proxy, pc, opens, tried, cut, overtaken>>

config == <<connections, cur_conn_index, cur_conn_def>>

RpcInit ==
  /\ connections \in Lists
  /\ cur_conn_index = 1
  /\ cur_conn_def = IF connections = << >> THEN NoConn ELSE connections[1]
  /\ starting_conn = NoConn /\ active = FALSE /\ proxy = NoConn
  /\ pc = "idle" /\ opens = << >> /\ tried = {}
  /\ cut = FALSE /\ overtaken = FALSE

(* Mutant: the connection stays open.                                      *)
ApplyNewCfgConnected ==
  /\ connections' \in Lists
  /\ cur_conn_index' = 1
  /\ cur_conn_def' =
       IF connections' = << >> THEN cur_conn_def ELSE connections'[1]
  /\ overtaken' = (overtaken \/ pc # "idle")
  /\ UNCHANGED <<active, pc, opens, tried, cut, starting_conn, proxy>>

(* An empty list raises, and leaves the configuration that was in use.     *)
ApplyNewCfg ==
  /\ active' = FALSE
  /\ connections' \in Lists
  /\ cur_conn_index' = 1
  /\ cur_conn_def' =
       IF connections' = << >> THEN cur_conn_def ELSE connections'[1]
  /\ overtaken' = (overtaken \/ pc # "idle")
  /\ UNCHANGED <<pc, opens, tried, cut, starting_conn, proxy>>

(* Mutant: the call begins where the first one did.                        *)
MarkCallBeginOnce ==
  /\ pc = "idle"
  /\ starting_conn' = IF starting_conn = NoConn THEN cur_conn_def
                      ELSE starting_conn
  /\ pc' = "open" /\ tried' = {} /\ cut' = FALSE
  /\ UNCHANGED <<config, active, opens, proxy, overtaken>>

(* control_rpc_call and mark_call_begin.                                   *)
MarkCallBegin ==
  /\ pc = "idle"
  /\ starting_conn' = cur_conn_def
  /\ pc' = "open" /\ tried' = {} /\ cut' = FALSE
  /\ UNCHANGED <<config, active, opens, proxy, overtaken>>

Goto(label) ==
  /\ pc' = label
  /\ UNCHANGED <<config, active, tried, starting_conn, proxy, cut, overtaken>>

(* The method returns what the remote call returned, or raises.            *)
Ends == Goto("idle") /\ opens' = << >>

(* The call above waits for switch_to_next_config.                         *)
Switch(why) == pc' = "switch" /\ opens' = Append(opens, why) /\ UNCHANGED cut

(* The user cancels, which returns False, or an exception comes that none  *)
(* of the handlers knows.                                                  *)
CutShort(outcomes) == pc' \in outcomes /\ cut' = TRUE /\ UNCHANGED opens

(* Up to the proxy: SSH asks the user and may raise, because it finds no   *)
(* host or for another reason, and a tunnel that does not open is False.   *)
OpenInternal ==
  /\ pc = "open" /\ cur_conn_def # NoConn /\ ~active
  /\ tried' = tried \cup {cur_conn_def}
  /\ \/ CutShort({"false", "error"}) /\ UNCHANGED proxy
     \/ Switch("false") /\ UNCHANGED proxy
     \/ Switch("refused") /\ UNCHANGED proxy
     \/ /\ pc' = "connect" /\ proxy' = cur_conn_def
        /\ UNCHANGED <<opens, cut>>
  /\ UNCHANGED <<config, active, starting_conn, overtaken>>

(* The proxy is made, and the connection is tested.                        *)
Connect ==
  /\ pc = "connect"
  /\ \/ CutShort({"error"}) /\ UNCHANGED active
     \/ Switch("refused") /\ UNCHANGED active
     \/ pc' = "true" /\ active' = TRUE /\ UNCHANGED <<opens, cut>>
  /\ UNCHANGED <<config, tried, starting_conn, proxy, overtaken>>

OpenAtOnce ==
  /\ pc = "open"
  /\ \/ cur_conn_def = NoConn /\ Goto("error")
     \/ cur_conn_def # NoConn /\ active /\ Goto("true")
  /\ UNCHANGED opens

Idx == IF cur_conn_index < Len(connections) THEN cur_conn_index + 1 ELSE 1

SwitchToNextConfig ==
  /\ pc = "switch" /\ connections # << >>
  /\ connections[Idx] # starting_conn
  /\ Len(opens) < MaxDepth
  /\ active' = FALSE
  /\ cur_conn_index' = Idx /\ cur_conn_def' = connections[Idx]
  /\ pc' = "open"
  /\ UNCHANGED <<connections, opens, tried, starting_conn, proxy, cut,
                 overtaken>>

(* The configuration the call started with is not in the list any more:    *)
(* the recursion goes on until Python ends it.                             *)
TooDeep ==
  /\ pc = "switch" /\ connections # << >>
  /\ connections[Idx] # starting_conn
  /\ Len(opens) >= MaxDepth
  /\ CutShort({"error"})
  /\ UNCHANGED <<config, active, tried, starting_conn, proxy, overtaken>>

(* Mutant: the list is not a round.                                        *)
NoOtherConfigAtEnd ==
  /\ pc = "switch" /\ connections # << >>
  /\ connections[Idx] = starting_conn \/ Idx = 1
  /\ Goto(IF Last(opens) = "false" THEN "false" ELSE "refused")
  /\ opens' = Front(opens)

(* The caller raises what made it switch, or returns False.                *)
NoOtherConfig ==
  /\ pc = "switch" /\ connections # << >>
  /\ connections[Idx] = starting_conn
  /\ Goto(IF Last(opens) = "false" THEN "false" ELSE "refused")
  /\ opens' = Front(opens)

NoConfigAtAll ==
  /\ pc = "switch" /\ connections = << >>
  /\ Goto("error") /\ UNCHANGED opens

(* Mutant: after False the same configuration is opened again.             *)
OpenReturnsAgain ==
  \/ pc = "true" /\ opens = << >> /\ Goto("proxy") /\ UNCHANGED opens
  \/ /\ pc = "true" /\ opens # << >>
     /\ Goto(IF Last(opens) = "call" THEN "open" ELSE "true")
     /\ opens' = Front(opens)
  \/ pc = "false" /\ opens = << >> /\ Ends
  \/ pc = "false" /\ opens # << >> /\ Goto("open") /\ UNCHANGED opens

(* open has returned to the method, or to the switch that called it; that  *)
(* one switches once more on False, also when the user cancelled.          *)
OpenReturns ==
  \/ pc = "true" /\ opens = << >> /\ Goto("proxy") /\ UNCHANGED opens
  \/ /\ pc = "true" /\ opens # << >>
     /\ Goto(IF Last(opens) = "call" THEN "open" ELSE "true")
     /\ opens' = Front(opens)
  \/ pc = "false" /\ opens = << >> /\ Ends
  \/ pc = "false" /\ opens # << >> /\ Goto("switch") /\ UNCHANGED opens

(* An exception of the connection passes through the handler it was raised *)
(* in; the handler of an open that called switch in its body takes it.     *)
OpenRaises ==
  \/ pc = "error" /\ Ends
  \/ pc = "refused" /\ opens = << >> /\ Ends
  \/ /\ pc = "refused" /\ opens # << >> /\ Last(opens) # "false"
     /\ Goto("refused") /\ opens' = Front(opens)
  \/ /\ pc = "refused" /\ opens # << >> /\ Last(opens) = "false"
     /\ Goto("switch") /\ opens' = Append(Front(opens), "refused")

Proxy ==
  /\ pc = "proxy"
  /\ Ends \/ (Goto("switch") /\ Switch("call"))

Proceed ==
  \/ OpenInternal \/ Connect \/ OpenAtOnce \/ SwitchToNextConfig \/ TooDeep
  \/ NoOtherConfig \/ NoConfigAtAll \/ OpenReturns \/ OpenRaises \/ Proxy

RpcNext == ApplyNewCfg \/ MarkCallBegin \/ Proceed

(* Attempts time out and users answer, so a call that can go on does.      *)
RpcFairness == WF_rpcVars(Proceed)
-----------------------------------------------------------------------------
(* However the attempts fail, a call ends.                                 *)
CallsEnd == pc # "idle" ~> pc = "idle" \/ overtaken

(* No configuration is tried twice in a call, although every level of the  *)
(* recursion switches again when the one below it failed.                  *)
TriedOnce == [][OpenInternal => cur_conn_def \notin tried \/ overtaken]_rpcVars

(* The call is about to end without having been made.                      *)
Failing == pc = "error" \/ (pc \in {"false", "refused"} /\ opens = << >>)

(* A call that ends for want of a connection has gone through all the      *)
(* others, and so has every call that ends without having been made unless *)
(* an attempt was cut short: by the user, or by an exception that is none  *)
(* of the four open switches on.  The one it started with failed first, in *)
(* open or in the remote call.                                             *)
AllTriedBeforeFailing ==
  Failing /\ (pc = "refused" \/ ~cut) =>
    Range(connections) \subseteq tried \cup {starting_conn}

(* The remote call is made where the current configuration says, through   *)
(* every change of the list and every failed attempt.                      *)
CallsOnConnection == pc = "proxy" => active /\ proxy = cur_conn_def

(* As long as the configurations change between calls only, a call gives   *)
(* up of itself only when it has nowhere else to go, and succeeds on the   *)
(* connection that is configured.                                          *)
FailoverIsThorough == overtaken \/ (AllTriedBeforeFailing /\ CallsOnConnection)

(* It goes through the configurations once and then ends.                  *)
OneRoundPerCall == TriedOnce /\ CallsEnd

(* "If it fails, then the next enabled conn config will be used, if any    *)
(* exists." (ChainX.intf.py:302)                                           *)
NextConfigIsUsed ==
  Failing => Range(connections) \subseteq tried \cup {starting_conn}
=============================================================================
