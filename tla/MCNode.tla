---------------------------- MODULE MCNode ----------------------------------
(* A proposal and a trigger, which may be submitted twice at once; one     *)
(* entry of the configuration can vote and one has a bad output index.     *)
(* The ring of the rate check, at the size the source gives it, turns in   *)
(* behaviours of its own.                                                  *)
EXTENDS Node, RateBuffer, TLC

CONSTANTS p, t1, m1, m2, r1, r2

MCTypeOf == p :> "proposal" @@ t1 :> "trigger"
MCTimeOf == p :> 1 @@ t1 :> 0
MCConf == <<[mn |-> m2, key |-> TRUE, index |-> TRUE],
            [mn |-> m1, key |-> TRUE, index |-> FALSE]>>
MCLoads ==
  {{"submit", "query"}, {"vote"}, {"vote", "signals"}, {"masternode"}, {"ring"}}
MCBallots ==
  [l \in MCLoads |->
     IF "signals" \in l THEN {<<"funding", "yes">>, <<"valid", "yes">>}
     ELSE {<<"funding", "yes">>, <<"funding", "no">>}]
ThreadsAlike == Permutations(Threads)

MCInit == NodeInit /\ RingInit

MCNext ==
  \/ "ring" \notin load /\ NodeNext /\ UNCHANGED ring
  \/ "ring" \in load /\ RingNext /\ UNCHANGED <<vars, activeVars>>

MCSpec == MCInit /\ [][MCNext]_<<vars, activeVars, ring>>
=============================================================================
