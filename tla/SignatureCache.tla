--------------------------- MODULE SignatureCache ---------------------------
(***************************************************************************)
(* CachingTransactionSignatureChecker (chainx-ui.id/consensus/             *)
(* sigcache.cpp): the threads that check scripts share one set of entries  *)
(* of valid signatures.  A thread looks its entry up under a shared lock;  *)
(* on a miss it verifies without a lock and stores afterwards under an     *)
(* exclusive one, so other threads come in between.  An entry hashes the   *)
(* concatenation of a nonce, the signature hash, the public key and the    *)
(* signature; the hash is taken as collision-free, the concatenation not.  *)
(***************************************************************************)
EXTENDS Integers, Sequences, FiniteSets

CONSTANTS
  Threads, Sigs, ValidSigs,
  MaxSigCacheSize, \* values of the option -maxsigcachesize
  Mebi,            \* 2^20 bytes, counted in entries
  SizeT,           \* how many values a size_t has
  NoAnswer

(* A signature hash has one length; a public key has the length that its   *)
(* first byte announces.                                                   *)
ASSUME CacheAssumption ==
  /\ Sigs \subseteq [hash : Seq(Nat), pubkey : Seq(Nat), sig : Seq(Nat)]
  /\ \A r, s \in Sigs :
       /\ Len(r.hash) = Len(s.hash)
       /\ r.pubkey # << >>
       /\ r.pubkey[1] = s.pubkey[1] => Len(r.pubkey) = Len(s.pubkey)
  /\ ValidSigs \subseteq Sigs
  /\ MaxSigCacheSize \subseteq Int
  /\ Mebi \in Nat /\ SizeT \in Nat \ {0}
  /\ NoAnswer \notin BOOLEAN

VARIABLES
  setValid,
  maxsigcachesize,
  pc,          \* where each thread is in VerifySignature
  arg, store,  \* what it was called with
  ret          \* what it returned last, or NoAnswer

vars == <<setValid, maxsigcachesize, pc, arg, store, ret>>

(* Mutant: the signature is left out.                                      *)
ComputeEntryUnsigned(s) == s.hash \o s.pubkey

ComputeEntry(s) == s.hash \o s.pubkey \o s.sig

(* In unsigned arithmetic, where a negative option is no limit.            *)
nMaxCacheSize == (maxsigcachesize * Mebi) % SizeT

Smaller(m, n) == IF m < n THEN m ELSE n

(* Type correctness; entries come from calls.                              *)
TypeOK ==
  /\ setValid \subseteq {ComputeEntry(s) : s \in Sigs}
  /\ maxsigcachesize \in MaxSigCacheSize
  /\ pc \in [Threads -> {"idle", "get", "erase", "verify", "set"}]
  /\ arg \in [Threads -> Sigs]
  /\ store \in [Threads -> BOOLEAN]
  /\ ret \in [Threads -> BOOLEAN \cup {NoAnswer}]

Init ==
  /\ setValid = {}
  /\ maxsigcachesize \in MaxSigCacheSize
  /\ pc = [t \in Threads |-> "idle"]
  /\ \E s \in Sigs : arg = [t \in Threads |-> s]
  /\ store = [t \in Threads |-> FALSE]
  /\ ret = [t \in Threads |-> NoAnswer]
-----------------------------------------------------------------------------
Entry(t) == ComputeEntry(arg[t])

Goto(t, label) ==
  /\ pc' = [pc EXCEPT ![t] = label]
  /\ UNCHANGED <<maxsigcachesize, arg, store>>

Stay(t, label) == Goto(t, label) /\ UNCHANGED <<setValid, ret>>

Return(t, answer) == Goto(t, "idle") /\ ret' = [ret EXCEPT ![t] = answer]

(* The memory pool stores what it verifies, a block does not.              *)
VerifySignature(t) == \E s \in Sigs, st \in BOOLEAN :
  /\ pc[t] = "idle"
  /\ pc' = [pc EXCEPT ![t] = "get"]
  /\ arg' = [arg EXCEPT ![t] = s]
  /\ store' = [store EXCEPT ![t] = st]
  /\ UNCHANGED <<setValid, maxsigcachesize, ret>>

(* The shared lock ends with Get; Erase takes the other one.               *)
Get(t) ==
  /\ pc[t] = "get"
  /\ IF Entry(t) \notin setValid THEN Stay(t, "verify")
     ELSE IF ~store[t] THEN Stay(t, "erase")
     ELSE Return(t, TRUE) /\ UNCHANGED setValid

Erase(t) ==
  /\ pc[t] = "erase"
  /\ setValid' = setValid \ {Entry(t)}
  /\ Return(t, TRUE)

Verify(t) ==
  /\ pc[t] = "verify"
  /\ IF arg[t] \in ValidSigs /\ store[t] THEN Stay(t, "set")
     ELSE Return(t, arg[t] \in ValidSigs) /\ UNCHANGED setValid

(* Mutant: room is made only when the set is more than one over the limit. *)
SetMakesRoomLate(t) ==
  /\ pc[t] = "set"
  /\ IF nMaxCacheSize <= 0 THEN UNCHANGED setValid
     ELSE \E kept \in SUBSET setValid :
            /\ Cardinality(kept) = Smaller(Cardinality(setValid),
                                          nMaxCacheSize + 1)
            /\ setValid' = kept \cup {Entry(t)}
  /\ Return(t, TRUE)

(* Entries of random buckets go until the set is within the limit; the     *)
(* exclusive lock covers that loop and the insertion.                      *)
Set(t) ==
  /\ pc[t] = "set"
  /\ IF nMaxCacheSize <= 0 THEN UNCHANGED setValid
     ELSE \E kept \in SUBSET setValid :
            /\ Cardinality(kept) = Smaller(Cardinality(setValid), nMaxCacheSize)
            /\ setValid' = kept \cup {Entry(t)}
  /\ Return(t, TRUE)

Step(t) == Get(t) \/ Erase(t) \/ Verify(t) \/ Set(t)

Next == \E t \in Threads : VerifySignature(t) \/ Step(t)

Spec == Init /\ [][Next]_vars /\ \A t \in Threads : WF_vars(Step(t))
-----------------------------------------------------------------------------
(* The cache is invisible to its callers: with other threads storing,      *)
(* erasing and evicting between a lookup and what follows it, every call   *)
(* is still answered, by whether its signature is valid.                   *)
NoCall == [state |-> "idle"]
Asking(s) == [state |-> "asking", of |-> s]
Told(s, answer) == [state |-> "told", of |-> s, answer |-> answer]

V == INSTANCE Verifier WITH call <- [t \in Threads |->
       IF pc[t] # "idle" THEN Asking(arg[t])
       ELSE IF ret[t] = NoAnswer THEN NoCall
       ELSE Told(arg[t], ret[t])]

VerdictsAreTrue == V!Spec

(* Only valid signatures have an entry.                                    *)
EntriesAreValid == setValid \subseteq {ComputeEntry(s) : s \in ValidSigs}

(* However many threads missed before any of them stored, the cache goes   *)
(* over its limit by one entry at most, and a limit of zero keeps it empty.*)
SizeWithinLimit ==
  Cardinality(setValid) <= IF nMaxCacheSize = 0 THEN 0 ELSE nMaxCacheSize + 1
=============================================================================
