------------------------------- MODULE TxTool -------------------------------
(***************************************************************************)
(* chainx-tx (Maternodes/SRC/chain-tx.cpp): a run of the tool decodes a    *)
(* transaction or starts with an empty one, applies the commands of its    *)
(* arguments in order and prints the transaction, unless one of them       *)
(* fails.  What it prints may be handed to another run, of another party,  *)
(* whose registers know other keys.  An output script is the set of keys   *)
(* that spend it together, a script of one key or a multisignature; a      *)
(* signature is the key that made it and the digest it signs.  Signing,    *)
(* combining and verifying are external.                                   *)
(***************************************************************************)
EXTENDS Integers, Sequences, FiniteSets, SequencesExt

CONSTANTS
  Outpoints,   \* outputs of other transactions
  Keys,
  Owner,       \* the keys that spend each outpoint
  Outputs,     \* outputs a command may add
  KeySets,     \* what a user sets privatekeys to
  PrevTxs,     \* what a user sets prevtxs to: sets of <<outpoint, script>>
  Versions, CURRENT_VERSION, \* what a user asks for, and the highest
  Locktimes, MaxLocktime,    \* 0xffffffff
  Flags,       \* signature hash types: base and anyonecanpay
  Unset,       \* the register, or the result, that is not set
  MaxInputs, MaxOutputs, MaxCommands \* bounds

ASSUME ToolAssumption ==
  /\ Owner \in [Outpoints -> (SUBSET Keys) \ {{}}]
  /\ Flags \subseteq [base : {"ALL", "NONE", "SINGLE"}, anyone : BOOLEAN]
  /\ PrevTxs \subseteq SUBSET (Outpoints \X (SUBSET Keys))
  /\ Versions \subseteq Int /\ CURRENT_VERSION \in Nat \ {0}
  /\ Locktimes \subseteq Int /\ MaxLocktime \in Nat
  /\ MaxInputs \in Nat

VARIABLES
  phase,     \* ready, running or done
  tx,
  keys, prev, \* the registers privatekeys and prevtxs
  stdout, ret,
  commands   \* how many commands the runs have applied

vars == <<phase, tx, keys, prev, stdout, ret, commands>>

Blank == [nVersion |-> CURRENT_VERSION, vin |-> << >>, vout |-> << >>,
          nLockTime |-> 0]
-----------------------------------------------------------------------------
(* Signatures.                                                             *)

(* What a signature of input i covers; SINGLE covers the outputs up to the *)
(* one at i, all but that one as blanks, and without it nothing at all.    *)
Nothing == [nVersion |-> 0, ins |-> << >>, at |-> 0, outs |-> << >>,
            nLockTime |-> 0]

Digest(t, i, f) ==
  IF f.base = "SINGLE" /\ i > Len(t.vout) THEN Nothing
  ELSE [nVersion |-> t.nVersion,
        ins |-> IF f.anyone THEN <<t.vin[i].prevout>>
                ELSE [j \in DOMAIN t.vin |-> t.vin[j].prevout],
        at |-> IF f.anyone THEN 1 ELSE i,
        outs |-> CASE f.base = "ALL" -> t.vout
                   [] f.base = "NONE" -> << >>
                   [] f.base = "SINGLE" ->
                        [j \in 1..i |-> IF j = i THEN t.vout[i] ELSE Unset],
        nLockTime |-> t.nLockTime]

Signs(s, t, i) == s.digest = Digest(t, i, s.flags)

(* VerifyScript, of one of the keys of a script.                           *)
Verifies(t, i, k) == \E s \in t.vin[i].scriptSig : s.key = k /\ Signs(s, t, i)

(* SignSignature signs with the keys of the script that there are.         *)
SignSignature(t, i, script, f) ==
  {[key |-> k, flags |-> f, digest |-> Digest(t, i, f)] :
     k \in script \cap keys}

(* CombineSignatures: of a script of one key the new one, if there is one; *)
(* of several keys one that verifies for each, the new ones first.         *)
CombineSignatures(t, i, script, new, old) ==
  IF \E k \in script : script = {k}
  THEN IF new # {} THEN new ELSE old
  ELSE new \cup {s \in old : /\ s.key \in script /\ Signs(s, t, i)
                           /\ \A n \in new : n.key # s.key}
-----------------------------------------------------------------------------
(* Commands: what each makes of the transaction, and when it throws.       *)

Finish(code) == phase' = "done" /\ ret' = code /\ UNCHANGED <<keys, prev>>

(* The exception ends the run before it prints.                            *)
Throw == Finish(1) /\ UNCHANGED <<tx, stdout, commands>>

Running == phase = "running" /\ commands < MaxCommands

Done(t) ==
  /\ tx' = t
  /\ commands' = commands + 1
  /\ UNCHANGED <<phase, keys, prev, stdout, ret>>

(* nversion and locktime: a text that is no number is 0.                   *)
MutateTxVersion(n) ==
  /\ Running
  /\ IF n < 1 \/ n > CURRENT_VERSION THEN Throw
     ELSE Done([tx EXCEPT !.nVersion = n])

(* Mutant: a number too large is taken.                                    *)
MutateTxLocktimeAny(n) ==
  /\ Running
  /\ IF n < 0 THEN Throw ELSE Done([tx EXCEPT !.nLockTime = n])

MutateTxLocktime(n) ==
  /\ Running
  /\ IF n < 0 \/ n > MaxLocktime THEN Throw
     ELSE Done([tx EXCEPT !.nLockTime = n])

(* in=TXID:VOUT.                                                           *)
MutateTxAddInput(prevout) ==
  /\ Running
  /\ Len(tx.vin) < MaxInputs
  /\ Done([tx EXCEPT !.vin = Append(@, [prevout |-> prevout,
                                        scriptSig |-> {}])])

(* Mutant: the output is put before the others.                            *)
MutateTxAddOutFirst(output) ==
  /\ Running
  /\ Len(tx.vout) < MaxOutputs
  /\ Done([tx EXCEPT !.vout = <<output>> \o @])

(* outaddr, outdata and outscript differ in the script of the output.      *)
MutateTxAddOut(output) ==
  /\ Running
  /\ Len(tx.vout) < MaxOutputs
  /\ Done([tx EXCEPT !.vout = Append(@, output)])

(* delin=N: N counts from 0, and is 0 where it is no number.               *)
MutateTxDelInput(n) ==
  /\ Running
  /\ IF n < 0 \/ n >= Len(tx.vin) THEN Throw
     ELSE Done([tx EXCEPT !.vin = RemoveAt(@, n + 1)])

(* Mutant: an output before the one that is named is deleted.              *)
MutateTxDelOutputBefore(n) ==
  /\ Running
  /\ IF n < 0 \/ n >= Len(tx.vout) THEN Throw
     ELSE Done([tx EXCEPT !.vout = RemoveAt(@, IF n = 0 THEN 1 ELSE n)])

MutateTxDelOutput(n) ==
  /\ Running
  /\ IF n < 0 \/ n >= Len(tx.vout) THEN Throw
     ELSE Done([tx EXCEPT !.vout = RemoveAt(@, n + 1)])

(* set=NAME:JSON and load=NAME:FILE.                                       *)
RegisterSet(newKeys, newPrev) ==
  /\ Running
  /\ keys' = newKeys /\ prev' = newPrev
  /\ commands' = commands + 1
  /\ UNCHANGED <<phase, tx, stdout, ret>>
-----------------------------------------------------------------------------
(* Mutant: the hash type is compared with its anyonecanpay bit.            *)
MaySignUnmasked(t, i, f) ==
  f = [base |-> "SINGLE", anyone |-> FALSE] => i <= Len(t.vout)

(* Only sign SIGHASH_SINGLE if there's a corresponding output.             *)
MaySign(t, i, f) == f.base = "SINGLE" => i <= Len(t.vout)

(* The scripts that the register gives for an outpoint.                    *)
Scripts(o) == {p[2] : p \in {q \in prev : q[1] = o}}

(* Only sign what may be signed, and what the keys there are can sign.     *)
NewSignatures(t, i, f) ==
  LET script == CHOOSE s \in Scripts(t.vin[i].prevout) : TRUE
  IN IF MaySign(t, i, f) THEN SignSignature(t, i, script, f) ELSE {}

(* Mutant: the signatures that were there are not merged in.               *)
SignInputAfresh(t, i, f) ==
  IF Scripts(t.vin[i].prevout) = {} THEN t.vin[i]
  ELSE [t.vin[i] EXCEPT !.scriptSig = NewSignatures(t, i, f)]

(* Mutant: an input that has a signature is not signed again.              *)
SignInputOnce(t, i, f) ==
  IF Scripts(t.vin[i].prevout) = {} \/ t.vin[i].scriptSig # {} THEN t.vin[i]
  ELSE [t.vin[i] EXCEPT !.scriptSig = NewSignatures(t, i, f)]

(* An input whose previous output is given is signed, and what was there   *)
(* is merged in.                                                           *)
SignInput(t, i, f) ==
  LET script == CHOOSE s \in Scripts(t.vin[i].prevout) : TRUE
  IN IF Scripts(t.vin[i].prevout) = {} THEN t.vin[i]
     ELSE [t.vin[i] EXCEPT !.scriptSig =
             CombineSignatures(t, i, script, NewSignatures(t, i, f), @)]

(* Two scripts for one previous output are a mismatch.                     *)
Mismatch == \E p, q \in prev : p[1] = q[1] /\ p[2] # q[2]

(* sign=FLAGS needs both registers.                                        *)
MutateTxSign(f) ==
  /\ Running
  /\ IF keys = Unset \/ prev = Unset THEN Throw
     ELSE IF Mismatch THEN Throw
     ELSE Done([tx EXCEPT !.vin =
                  [i \in DOMAIN tx.vin |-> SignInput(tx, i, f)]])
-----------------------------------------------------------------------------
(* AppInitRawTx and the start of CommandLineRawTx: help, an empty          *)
(* transaction, or the one a run before has printed.                       *)
Start ==
  /\ phase = "ready"
  /\ keys' = Unset /\ prev' = Unset /\ UNCHANGED commands
  /\ stdout' = Unset
  /\ \/ phase' = "done" /\ ret' \in {0, 1} /\ tx' = Blank
     \/ /\ phase' = "running" /\ ret' = Unset
        /\ tx' \in {Blank, stdout} \ {Unset}

(* An unknown command, or one whose value cannot be read.                  *)
BadCommand == Running /\ Throw

(* OutputTx: after the last command.                                       *)
OutputTx ==
  /\ phase = "running"
  /\ stdout' = tx
  /\ Finish(0)
  /\ UNCHANGED <<tx, commands>>

(* main returns; what was printed may be taken to another run.             *)
Exit ==
  /\ phase = "done"
  /\ phase' = "ready"
  /\ UNCHANGED <<tx, keys, prev, stdout, ret, commands>>

Init ==
  /\ phase = "ready" /\ tx = Blank /\ keys = Unset /\ prev = Unset
  /\ stdout = Unset /\ ret = Unset /\ commands = 0

MutateTx ==
  \/ \E n \in Versions : MutateTxVersion(n)
  \/ \E n \in Locktimes : MutateTxLocktime(n)
  \/ \E prevout \in Outpoints : MutateTxAddInput(prevout)
  \/ \E output \in Outputs : MutateTxAddOut(output)
  \/ \E n \in -1 .. MaxInputs : MutateTxDelInput(n) \/ MutateTxDelOutput(n)
  \/ \E newKeys \in KeySets : RegisterSet(newKeys, prev)
  \/ \E newPrev \in PrevTxs : RegisterSet(keys, newPrev)
  \/ \E f \in Flags : MutateTxSign(f)
  \/ BadCommand

Next == Start \/ MutateTx \/ OutputTx \/ Exit

Spec == Init /\ [][Next]_vars
-----------------------------------------------------------------------------
Signatures ==
  [key : Keys, flags : Flags,
   digest : [nVersion : 0 .. CURRENT_VERSION, ins : Seq(Outpoints), at : Nat,
             outs : Seq(Outputs \cup {Unset}), nLockTime : 0 .. MaxLocktime]]

TypeOK ==
  /\ phase \in {"ready", "running", "done"}
  /\ tx.nVersion \in 1 .. CURRENT_VERSION
  /\ tx.vin \in Seq([prevout : Outpoints, scriptSig : SUBSET Signatures])
  /\ tx.vout \in Seq(Outputs)
  /\ tx.nLockTime \in 0 .. MaxLocktime

(* No signature covers nothing: such a one would sign any transaction of   *)
(* its key.  An output may be deleted before the signing, an input may     *)
(* come to stand where there is no output, and the hash type may carry     *)
(* another flag.                                                           *)
NoSignatureOfNothing ==
  \A i \in DOMAIN tx.vin :
    \A s \in tx.vin[i].scriptSig : s.digest # Nothing

(* No command leaves a transaction with a version, a locktime or a part    *)
(* out of range, or with a signature of nothing.                           *)
TransactionIsSound == TypeOK /\ NoSignatureOfNothing

(* Building a transaction around signatures: an output added spoils none   *)
(* but those of all outputs, an input added none with anyonecanpay.        *)
AddsHarmlessly ==
  \A i \in DOMAIN tx.vin : \A s \in tx.vin[i].scriptSig :
    phase = "running" /\ Signs(s, tx, i) =>
      \/ Len(tx'.vout) <= Len(tx.vout) /\ Len(tx'.vin) <= Len(tx.vin)
      \/ s \in tx'.vin[i].scriptSig /\ Signs(s, tx', i)
      \/ Len(tx'.vout) > Len(tx.vout) /\ s.flags.base = "ALL"
      \/ Len(tx'.vin) > Len(tx.vin) /\ ~s.flags.anyone

(* Taking it apart: an output deleted spoils no signature of no output,    *)
(* and none of a single one that stands before it; an input deleted none   *)
(* with anyonecanpay, unless it moves one that signs a single output.      *)
DeletesHarmlessly ==
  \A n \in -1 .. MaxInputs : \A i \in DOMAIN tx.vin :
    \A s \in tx.vin[i].scriptSig : phase' = "running" /\ Signs(s, tx, i) =>
      /\ MutateTxDelOutput(n) =>
           \/ Signs(s, tx', i) /\ s \in tx'.vin[i].scriptSig
           \/ s.flags.base = "ALL"
           \/ s.flags.base = "SINGLE" /\ n < i
      /\ MutateTxDelInput(n) /\ i # n + 1 =>
           LET j == IF i <= n THEN i ELSE i - 1
           IN \/ Signs(s, tx', j) /\ s \in tx'.vin[j].scriptSig
              \/ ~s.flags.anyone
              \/ s.flags.base = "SINGLE" /\ i > n

(* Signing in turns: a run that signs with the keys it has leaves a good   *)
(* signature of every key that had one, unless prevtxs gives a wrong       *)
(* script for the input.                                                   *)
SignsHarmlessly ==
  \A f \in Flags : MutateTxSign(f) /\ phase' = "running" =>
    \A i \in DOMAIN tx.vin : \A k \in Owner[tx.vin[i].prevout] :
      Verifies(tx, i, k) =>
        \/ Verifies(tx', i, k)
        \/ \E p \in prev : p[1] = tx.vin[i].prevout /\ p[2] # Owner[p[1]]

(* After a signing, an input that a key of its script has not signed lacks *)
(* that key, its previous output or, for SINGLE, an output of its own.     *)
SignsAll ==
  \A f \in Flags : MutateTxSign(f) /\ phase' = "running" =>
    \A i \in DOMAIN tx.vin :
      LET o == tx.vin[i].prevout
      IN \A k \in Owner[o] :
           \/ Verifies(tx', i, k)
           \/ k \notin keys
           \/ <<o, Owner[o]>> \notin prev
           \/ f.base = "SINGLE" /\ i > Len(tx.vout)

(* Commands and parties may come in turns: what one of them has signed is  *)
(* spoiled only by a command that changes what its hash type covers, the   *)
(* version and the locktime always among it, and never by a signing.       *)
SignaturesLast ==
  /\ [][AddsHarmlessly]_vars /\ [][DeletesHarmlessly]_vars
  /\ [][SignsHarmlessly]_vars /\ [][SignsAll]_vars
=============================================================================
