------------------------------ MODULE MCChainRpc ------------------------------
(* A tree for TLC: two forks of the first block, of which the longer one   *)
(* has less work, with transactions that spend one output twice.           *)
EXTENDS ChainRpc, TLC

CONSTANTS g, a1, a2, b1, b2, b3, coin, payA, payB, again

MCPrev == a1 :> g @@ a2 :> a1 @@ b1 :> g @@ b2 :> b1 @@ b3 :> b2
MCWork == g :> 1 @@ a1 :> 3 @@ a2 :> 6 @@ b1 :> 2 @@ b2 :> 4 @@ b3 :> 5
MCVersion == g :> 1 @@ a1 :> 2 @@ a2 :> 3 @@ b1 :> 2 @@ b2 :> 2 @@ b3 :> 3
MCBody == g :> {coin} @@ a1 :> {payA} @@ a2 :> {} @@ b1 :> {}
            @@ b2 :> {payB} @@ b3 :> {}
MCOutputs == coin :> 2 @@ payA :> 1 @@ payB :> 1 @@ again :> 1
MCInputs == coin :> {} @@ payA :> {<<coin, 0>>} @@ payB :> {<<coin, 0>>}
              @@ again :> {<<payA, 0>>}
=============================================================================
