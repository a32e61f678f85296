---------------------------- MODULE MCWalletStore ----------------------------
(* The key store and the database environment below the wallet, which      *)
(* share no step: a behaviour is one of the one or of the other.           *)
(*                                                                         *)
(* Two threads, which use the database as well, three keys, two master     *)
(* keys, two files, two transactions, and every dump of up to four lines,  *)
(* or of five that are no record or always the same one.                   *)
EXTENDS KeyStore, WalletDb, TLC

VARIABLE part

MCKeys == {"version", "k"}
MCLines == {"HEADER=END", "DATA=END", "a", "b", ""}
MCDumps ==
  UNION {[1 .. n -> MCLines \ {""}] : n \in 0 .. 4}
    \cup [1 .. 5 -> MCLines \ {"b", ""}]

Symmetry ==
  Permutations(Threads) \cup Permutations(KeyIds)
    \cup Permutations(MasterKeys) \cup Permutations(Txns)

(* Where the environment is at work, the key store's file is empty.        *)
MCInit ==
  /\ part \in {"keys", "files"}
  /\ Init /\ DbInit
  /\ part = "files" => Recorded = {}

MCNext ==
  /\ UNCHANGED part
  /\ \/ part = "keys" /\ Next /\ UNCHANGED dbVars
     \/ part = "files" /\ DbNext /\ UNCHANGED vars

MCSpec == MCInit /\ [][MCNext]_<<part, vars, dbVars>>
=============================================================================
