---------------------------- MODULE MCConsensus -----------------------------
(* Four parts that share no state, one of them at work in a behaviour: the *)
(* signature cache, scripts, the consensus library and the Go encoding.    *)
EXTENDS SignatureCache, Script, ConsensusLib, Wire

CONSTANTS t1, t2

VARIABLE part

allVars == <<part, vars, script, libVars, wireVars>>

(* A key is the length 2 or 3 and its bytes; the signature <<6, 7>> is not *)
(* valid, and with the shorter key it reads as the longer key's <<7>>.     *)
Sig(hash, pubkey, sig) == [hash |-> <<hash>>, pubkey |-> pubkey, sig |-> sig]
MCValidSigs ==
  {Sig(0, <<2, 5>>, <<6>>), Sig(0, <<3, 5, 6>>, <<7>>), Sig(1, <<2, 5>>, <<6>>)}
MCSigs == MCValidSigs \cup {Sig(0, <<2, 5>>, <<6, 7>>)}
MCMaxSigCacheSize == {-1, 0, 1}

(* Bytes 0..15: direct pushes up to 2 bytes, opcodes of 1 to 4 at 8 to 11. *)
(* Datas lie on both sides of the ends of every form, at 3, 16 and 256.    *)
Ones(n) == [i \in 1..n |-> 1]
MCStarts ==
  UNION {[1..n -> {0, 1, 2, 3, 8}] : n \in 0..3}
    \cup {<<2, x, y>> : x, y \in 0..15}
    \cup {<<3, 3, x, y, z>> : x \in {0, 1, 8, 15}, y \in {0, 7, 8}, z \in 0..15}
    \cup {<<5, 1, 0, 0, 0, 7>>, <<5, 2, 0, 0, 0, 7>>, <<4, 1, 0, 7, 1>>}
MCDatas == {Ones(n) : n \in {0, 1, 2, 3, 15, 16, 255, 256}} \cup {<<9>>, <<5>>}
MCInts == {-128, -127, -8, -7, -1, 0, 1, 4, 5, 7, 8, 128, -32767}
MCScripts ==
  {<< >>, <<8>>, <<1>>, <<1, 8>>, <<3, 1, 8>>, <<8, 8>>, <<2, 1>>}

MCBuffers == {[fields |-> <<2, 1, 3>>, vin |-> 1],
              [fields |-> <<2, 1, 3, 3>>, vin |-> 2]}

(* Integers of one bit per byte: 31 bits are 2 of them, 63 bits are 3.     *)
Value(kind, value) == [kind |-> kind, value |-> value]
MCValues ==
  {Value("varint31", n) : n \in {0, 3, 4}}
    \cup {Value("varint63", n) : n \in {2, 7, 8}}
    \cup {Value("varstr", s) : s \in {<< >>, <<3>>, <<0, 2, 3>>, Ones(4)}}
    \cup {Value("list", l) :
            l \in {<< >>, <<<<3>>, <<2, 2>>>>, <<<<1>>, Ones(4)>>,
                   << << >>, << >>, <<1>> >>}}
    \cup {Value("extensible", [string |-> s, suffix |-> x]) :
            s \in {<< >>, <<2>>}, x \in {<< >>, <<1>>, <<2, 2>>}}

MCInit ==
  /\ part \in {"cache", "script", "library", "wire"}
  /\ Init /\ LibInit /\ WireInit
  /\ IF part = "script" THEN ScriptInit ELSE script = << >>
  /\ part # "cache" => /\ maxsigcachesize = 0
                       /\ arg = [t \in Threads |-> Sig(0, <<2, 5>>, <<6>>)]

MCNext ==
  /\ UNCHANGED part
  /\ \/ /\ part = "cache" /\ UNCHANGED <<script, libVars, wireVars>>
        /\ Next
     \/ /\ part = "script" /\ UNCHANGED <<vars, libVars, wireVars>>
        /\ ScriptNext
     \/ /\ part = "library" /\ UNCHANGED <<vars, script, wireVars>>
        /\ Verify_script
     \/ /\ part = "wire" /\ UNCHANGED <<vars, script, libVars>>
        /\ WireNext

MCSpec ==
  MCInit /\ [][MCNext]_allVars /\ \A t \in Threads : WF_vars(Step(t))
=============================================================================
