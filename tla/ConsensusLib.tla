---------------------------- MODULE ConsensusLib ----------------------------
(***************************************************************************)
(* The library call bitcoinconsensus_verify_script (chainx-ui.id/          *)
(* consensus/chainxconcensus.cpp): a transaction is deserialized field by  *)
(* field from a buffer of the caller's length, and one of its inputs is    *)
(* verified.  The buffer holds the transaction's bytes, cut or with others *)
(* after them, or is NULL; the interpreter is external and may throw.      *)
(***************************************************************************)
EXTENDS Integers, Sequences, SequencesExt

CONSTANTS
  Buffers, \* [fields : sizes of what is read, vin : number of inputs]
  TxToLens, Indices,
  NoError  \* what err holds when the caller passed none or nothing is set

(* NoError is none of the codes; in the source err is left as it was.      *)
ASSUME NoErrorAssumption == NoError # "OK"
ASSUME BufferAssumption ==
  Indices \subseteq Nat /\ \A tx \in Buffers : tx.vin \in Nat

VARIABLES asked, result, err

libVars == <<asked, result, err>>

(* What TxInputStream has left after the reads, or -1 when one throws, for *)
(* want of data or of a source; the destination is always there.           *)
m_remaining(fields, txTo, len) ==
  FoldLeft(LAMBDA left, nSize : IF left < nSize \/ txTo = "NULL" THEN -1
                                ELSE left - nSize, len, fields)

GetSerializeSize(tx) == FoldLeft(LAMBDA n, nSize : n + nSize, 0, tx.fields)

LibInit == asked = NoError /\ result = 0 /\ err = NoError

Check(tx, txTo, len, nIn) ==
  IF m_remaining(tx.fields, txTo, len) < 0 THEN "TX_DESERIALIZE"
  ELSE IF nIn >= tx.vin THEN "TX_INDEX"
  ELSE IF GetSerializeSize(tx) # len THEN "TX_SIZE_MISMATCH"
  ELSE "OK"

set_error(hasErr, code) == err' = IF hasErr THEN code ELSE NoError

Verify_script == \E tx \in Buffers, len \in TxToLens, nIn \in Indices,
                    hasErr \in BOOLEAN, txTo \in {"NULL", "data"},
                    outcome \in {"true", "false", "throw"} :
  LET code == Check(tx, txTo, len, nIn)
  IN /\ asked' = [tx |-> tx, txTo |-> txTo, len |-> len, nIn |-> nIn,
                  hasErr |-> hasErr]
     /\ result' = IF code = "OK" /\ outcome = "true" THEN 1 ELSE 0
     /\ set_error(hasErr, IF code = "OK" /\ outcome = "throw"
                          THEN "TX_DESERIALIZE" ELSE code)

(* A script is run only for an input of a transaction that is the whole    *)
(* buffer, whatever the caller's length and index are.                     *)
OnlyWholeBuffersVerify ==
  result = 1 \/ err = "OK" =>
    asked.nIn < asked.tx.vin /\ asked.len = GetSerializeSize(asked.tx)
=============================================================================
