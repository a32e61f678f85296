------------------------------ MODULE KeyStore ------------------------------
(***************************************************************************)
(* The wallet's key store, Wallet/crypter.cpp, with the part of the wallet *)
(* that creates keys and writes them to its file, Wallet/wallet-tx.cpp.    *)
(*                                                                         *)
(* A store holds plain keys until it becomes encrypted, and then only keys *)
(* encrypted under a master key, which Lock forgets and Unlock brings back *)
(* after trying it on the stored keys.  Several threads call the store.    *)
(* Each block that holds cs_KeyStore is one step; what a call does outside *)
(* of it is another.  cs_wallet, which the callers of GenerateNewKey hold, *)
(* is held by the thread whose `pc` is at a step of such a call.  The      *)
(* process may stop at any moment and load its file again.                 *)
(*                                                                         *)
(* A cipher text is the master key it was made with: it decrypts to the    *)
(* right key under that one and fails under any other.  The wallet has a   *)
(* file (fFileBacked).  A generated key is a new one, so no watch-only     *)
(* script is there to be removed for it.                                   *)
(***************************************************************************)
EXTENDS Naturals

CONSTANTS
  Threads,     \* threads that call the store
  KeyIds,      \* keys, by the hash of their public key
  MasterKeys,  \* encryption keys
  NoKey,       \* no master key, no entry in a map, no record in the file
  Plain,       \* the secret of a record that is not encrypted
  MaxTime      \* the clock shows 1 .. MaxTime; 0 is "unknown"

ASSUME KeyAssumption ==
  /\ NoKey \notin MasterKeys
  /\ Plain \notin MasterKeys
  /\ NoKey # Plain
ASSUME TimeAssumption == MaxTime \in Nat \ {0}

VARIABLES
  fUseCrypto,                    \* the store has become an encrypted one
  mapKeys,                       \* the plain keys, as a set
  mapCryptedKeys,                \* the cipher text of a key, or NoKey
  vMasterKey,                    \* the master key in memory, or NoKey
  fDecryptionThoroughlyChecked,  \* a master key has opened all keys
  fOnlyMixingAllowed,            \* unlocked for mixing only
  mapKeyMetadata,                \* the time of each key, 0 when unknown
  nTimeFirstKey,                 \* the time of the oldest key, 0 at first
  file,                          \* the records of the wallet file
  loading,                       \* the records still to be loaded
  promised,                      \* keys loaded once or given to a caller
  pc                             \* where each thread is

storeVars == <<fUseCrypto, mapKeys, mapCryptedKeys, vMasterKey,
               fDecryptionThoroughlyChecked, fOnlyMixingAllowed>>
metaVars == <<mapKeyMetadata, nTimeFirstKey>>
diskVars == <<file, loading, promised>>
vars == <<storeVars, metaVars, diskVars, pc>>

Times == 0 .. MaxTime

Idle == [at |-> "idle"]
Clearing == [at |-> "clear"]              \* in Lock, before the second lock
Flagging(mixing) == [at |-> "flag", mixing |-> mixing]  \* after the lock
Writing(k) == [at |-> "write", key |-> k] \* in AddKeyPubKey, key in memory
Committing == [at |-> "commit"]           \* EncryptKeys returned true
Failed == [at |-> "failed"]               \* EncryptKeys returned false
Positions == {Idle, Clearing, Committing, Failed}
               \cup {Flagging(b) : b \in BOOLEAN}
               \cup {Writing(k) : k \in KeyIds}

Record == [secret : MasterKeys \cup {NoKey, Plain}, time : Times]

Recorded == {k \in KeyIds : file[k].secret # NoKey}
Crypted == {k \in KeyIds : mapCryptedKeys[k] # NoKey}

Starts(p) == loading = {} /\ pc[p] = Idle
HasWallet(p) == pc[p].at \in {"write", "commit", "failed"}
WalletIsFree == \A p \in Threads : ~HasWallet(p)
-----------------------------------------------------------------------------
(* A file can be loaded when its records are all plain or all encrypted    *)
(* under one master key.                                                   *)
FileLoads == \A j, k \in Recorded : file[j].secret = file[k].secret

NoKeys == [k \in KeyIds |-> NoKey]
NoMetadata == [k \in KeyIds |-> 0]

(* A process starts with empty maps and every record still to load.        *)
Init ==
  /\ file \in [KeyIds -> Record]
  /\ \A k \in KeyIds : file[k].secret = NoKey => file[k].time = 0
  /\ FileLoads
  /\ promised = Recorded
  /\ loading = Recorded
  /\ fUseCrypto = FALSE
  /\ mapKeys = {}
  /\ mapCryptedKeys = NoKeys
  /\ vMasterKey = NoKey
  /\ fDecryptionThoroughlyChecked = FALSE
  /\ fOnlyMixingAllowed = FALSE
  /\ mapKeyMetadata = NoMetadata
  /\ nTimeFirstKey = 0
  /\ pc = [p \in Threads |-> Idle]

(* The process stops, wherever its threads are, and is started again.      *)
Restart ==
  /\ loading' = Recorded
  /\ fUseCrypto' = FALSE
  /\ mapKeys' = {}
  /\ mapCryptedKeys' = NoKeys
  /\ vMasterKey' = NoKey
  /\ fDecryptionThoroughlyChecked' = FALSE
  /\ fOnlyMixingAllowed' = FALSE
  /\ mapKeyMetadata' = NoMetadata
  /\ nTimeFirstKey' = 0
  /\ pc' = [p \in Threads |-> Idle]
  /\ UNCHANGED <<file, promised>>
-----------------------------------------------------------------------------
(* Mutant: 0 is compared like a time.                                      *)
FirstKeyTimeUnset(first, t) ==
  IF t # 0 /\ t < first THEN t ELSE first

(* The time of the oldest key, once a key of time t is known.              *)
FirstKeyTime(first, t) ==
  IF t # 0 /\ (first = 0 \/ t < first) THEN t ELSE first

LoadKeyMetadata(k, t) ==
  /\ mapKeyMetadata' = [mapKeyMetadata EXCEPT ![k] = t]
  /\ nTimeFirstKey' = FirstKeyTime(nTimeFirstKey, t)

(* Mutant: a store with plain keys becomes encrypted all the same.         *)
CanBeCryptedAlways == TRUE

(* Whether SetCrypted succeeds.                                            *)
CanBeCrypted == fUseCrypto \/ mapKeys = {}

(* A record is loaded: its metadata, then its key, into the map that it    *)
(* belongs to, with the calls the wallet's file makes for it.              *)
LoadPlainKey(k) ==
  /\ file[k].secret = Plain
  /\ ~fUseCrypto
  /\ mapKeys' = mapKeys \cup {k}
  /\ UNCHANGED <<fUseCrypto, mapCryptedKeys>>

LoadCryptedKey(k) ==
  /\ file[k].secret # Plain
  /\ CanBeCrypted
  /\ fUseCrypto' = TRUE
  /\ mapCryptedKeys' = [mapCryptedKeys EXCEPT ![k] = file[k].secret]
  /\ UNCHANGED mapKeys

LoadRecord(k) ==
  /\ k \in loading
  /\ loading' = loading \ {k}
  /\ LoadKeyMetadata(k, file[k].time)
  /\ LoadPlainKey(k) \/ LoadCryptedKey(k)
  /\ UNCHANGED <<vMasterKey, fDecryptionThoroughlyChecked,
                 fOnlyMixingAllowed, file, promised, pc>>
-----------------------------------------------------------------------------
(* Lock: SetCrypted, then the master key is forgotten unless mixing is to  *)
(* go on, then the flag.  A store with plain keys refuses.                 *)
Lock(p, fAllowMixing) ==
  /\ Starts(p)
  /\ CanBeCrypted
  /\ fUseCrypto' = TRUE
  /\ pc' = [pc EXCEPT ![p] = IF fAllowMixing THEN Flagging(TRUE)
                                             ELSE Clearing]
  /\ UNCHANGED <<mapKeys, mapCryptedKeys, vMasterKey,
                 fDecryptionThoroughlyChecked, fOnlyMixingAllowed,
                 metaVars, diskVars>>

ForgetMasterKey(p) ==
  /\ pc[p] = Clearing
  /\ vMasterKey' = NoKey
  /\ pc' = [pc EXCEPT ![p] = Flagging(FALSE)]
  /\ UNCHANGED <<fUseCrypto, mapKeys, mapCryptedKeys,
                 fDecryptionThoroughlyChecked, fOnlyMixingAllowed,
                 metaVars, diskVars>>

(* The end of Lock and of Unlock, after cs_KeyStore has been released.     *)
SetOnlyMixingAllowed(p) ==
  /\ pc[p].at = "flag"
  /\ fOnlyMixingAllowed' = pc[p].mixing
  /\ pc' = [pc EXCEPT ![p] = Idle]
  /\ UNCHANGED <<fUseCrypto, mapKeys, mapCryptedKeys, vMasterKey,
                 fDecryptionThoroughlyChecked, metaVars, diskVars>>

Decrypts(mk, k) == mapCryptedKeys[k] = mk

(* Mutant: a store checked before takes the key without trying one.        *)
OpensUntried(mk) ==
  IF fDecryptionThoroughlyChecked
  THEN Crypted # {}
  ELSE Crypted # {} /\ \A k \in Crypted : Decrypts(mk, k)

(* The loop of Unlock has passed: on the first key, whichever that is, of  *)
(* a store checked before, on all of them otherwise, and on one at least.  *)
Opens(mk) ==
  IF fDecryptionThoroughlyChecked
  THEN \E k \in Crypted : Decrypts(mk, k)
  ELSE Crypted # {} /\ \A k \in Crypted : Decrypts(mk, k)

(* The loop has failed on a key, or met none.                              *)
Refuses(mk) ==
  \/ Crypted = {}
  \/ \E k \in Crypted : ~Decrypts(mk, k)

Unlock(p, mk, fForMixingOnly) ==
  /\ Starts(p)
  /\ CanBeCrypted
  /\ Opens(mk)
  /\ fUseCrypto' = TRUE
  /\ vMasterKey' = mk
  /\ fDecryptionThoroughlyChecked' = TRUE
  /\ pc' = [pc EXCEPT ![p] = Flagging(fForMixingOnly)]
  /\ UNCHANGED <<mapKeys, mapCryptedKeys, fOnlyMixingAllowed,
                 metaVars, diskVars>>

(* A refused master key leaves the store encrypted if it was not before.   *)
UnlockRefused(p, mk) ==
  /\ Starts(p)
  /\ CanBeCrypted
  /\ Refuses(mk)
  /\ fUseCrypto' = TRUE
  /\ UNCHANGED <<mapKeys, mapCryptedKeys, vMasterKey,
                 fDecryptionThoroughlyChecked, fOnlyMixingAllowed,
                 metaVars, diskVars, pc>>
-----------------------------------------------------------------------------
IsLockedForMixing == fUseCrypto /\ vMasterKey = NoKey

(* WriteKey and WriteCryptedKey put the key with its metadata in the place *)
(* of whatever record the file has for it.                                 *)
WithRecord(k, secret) ==
  [file EXCEPT ![k] = [secret |-> secret, time |-> mapKeyMetadata'[k]]]

NewKey(p, k, t) ==
  /\ Starts(p)
  /\ WalletIsFree
  /\ k \notin mapKeys \cup Crypted \cup Recorded \cup promised
  /\ mapKeyMetadata[k] = 0
  /\ LoadKeyMetadata(k, t)

(* GenerateNewKey, in a store that is not encrypted: the key is in memory  *)
(* when AddKeyPubKey of the store releases cs_KeyStore.                    *)
GenerateKey(p, k, t) ==
  /\ NewKey(p, k, t)
  /\ ~fUseCrypto
  /\ mapKeys' = mapKeys \cup {k}
  /\ pc' = [pc EXCEPT ![p] = Writing(k)]
  /\ UNCHANGED <<fUseCrypto, mapCryptedKeys, vMasterKey,
                 fDecryptionThoroughlyChecked, fOnlyMixingAllowed, diskVars>>

(* The wallet then asks again whether it is encrypted, and writes the key  *)
(* if it is not; the caller gets the key.                                  *)
WriteKey(p) ==
  /\ pc[p].at = "write"
  /\ file' = IF fUseCrypto THEN file
             ELSE [file EXCEPT ![pc[p].key] =
                     [secret |-> Plain, time |-> mapKeyMetadata[pc[p].key]]]
  /\ promised' = promised \cup {pc[p].key}
  /\ pc' = [pc EXCEPT ![p] = Idle]
  /\ UNCHANGED <<storeVars, metaVars, loading>>

(* The file cannot be written: GenerateNewKey throws, the key stays.       *)
WriteKeyFails(p) ==
  /\ pc[p].at = "write"
  /\ ~fUseCrypto
  /\ pc' = [pc EXCEPT ![p] = Idle]
  /\ UNCHANGED <<storeVars, metaVars, diskVars>>

(* In an encrypted store the key is refused when the store is locked, or   *)
(* when EncryptSecret fails; the metadata stays.                           *)
GenerateKeyRefused(p, k, t) ==
  /\ NewKey(p, k, t)
  /\ fUseCrypto
  /\ UNCHANGED <<storeVars, diskVars, pc>>

(* Otherwise it is encrypted, added and written while the store's lock is  *)
(* held, and given to the caller if it could be written.                   *)
GenerateCryptedKey(p, k, t, written) ==
  /\ NewKey(p, k, t)
  /\ fUseCrypto
  /\ ~IsLockedForMixing
  /\ mapCryptedKeys' = [mapCryptedKeys EXCEPT ![k] = vMasterKey]
  /\ file' = IF written THEN WithRecord(k, vMasterKey) ELSE file
  /\ promised' = IF written THEN promised \cup {k} ELSE promised
  /\ UNCHANGED <<fUseCrypto, mapKeys, vMasterKey, pc, loading,
                 fDecryptionThoroughlyChecked, fOnlyMixingAllowed>>
-----------------------------------------------------------------------------
(* Mutant: the plain keys are not removed.                                 *)
EncryptKeysKeeping(p, mk) ==
  /\ Starts(p)
  /\ WalletIsFree
  /\ Crypted = {} /\ ~fUseCrypto
  /\ fUseCrypto' = TRUE
  /\ mapCryptedKeys' = [k \in KeyIds |->
                          IF k \in mapKeys THEN mk ELSE mapCryptedKeys[k]]
  /\ pc' = [pc EXCEPT ![p] = Committing]
  /\ UNCHANGED <<mapKeys, vMasterKey, fDecryptionThoroughlyChecked,
                 fOnlyMixingAllowed, metaVars, diskVars>>

(* EncryptKeys, called with cs_wallet held and a transaction of the file   *)
(* in pwalletdbEncryption, which gets the encrypted keys.  It moves all    *)
(* keys to the other map ...                                               *)
EncryptKeys(p, mk) ==
  /\ Starts(p)
  /\ WalletIsFree
  /\ Crypted = {} /\ ~fUseCrypto
  /\ fUseCrypto' = TRUE
  /\ mapCryptedKeys' = [k \in KeyIds |->
                          IF k \in mapKeys THEN mk ELSE mapCryptedKeys[k]]
  /\ mapKeys' = {}
  /\ pc' = [pc EXCEPT ![p] = Committing]
  /\ UNCHANGED <<vMasterKey, fDecryptionThoroughlyChecked,
                 fOnlyMixingAllowed, metaVars, diskVars>>

(* ... or stops after some of them, at one that could not be encrypted or  *)
(* written, with both maps in use.  All its caller can do is stop.         *)
EncryptKeysFails(p, mk, done) ==
  /\ Starts(p)
  /\ WalletIsFree
  /\ Crypted = {} /\ ~fUseCrypto
  /\ mapKeys # {}
  /\ fUseCrypto' = TRUE
  /\ mapCryptedKeys' = [k \in KeyIds |->
                          IF k \in done THEN mk ELSE mapCryptedKeys[k]]
  /\ pc' = [pc EXCEPT ![p] = Failed]
  /\ UNCHANGED <<mapKeys, vMasterKey, fDecryptionThoroughlyChecked,
                 fOnlyMixingAllowed, metaVars, diskVars>>

(* Mutant: the keys that were written encrypted keep their plain records.  *)
CommitEncryptionOfPlain(p) ==
  /\ pc[p] = Committing
  /\ pc' = [pc EXCEPT ![p] = Idle]
  /\ UNCHANGED <<storeVars, metaVars, diskVars>>

(* The caller commits the transaction, which holds the keys of the map.    *)
CommitEncryption(p) ==
  /\ pc[p] = Committing
  /\ file' = [k \in KeyIds |->
                IF k \in Crypted
                THEN [secret |-> mapCryptedKeys[k], time |-> mapKeyMetadata[k]]
                ELSE file[k]]
  /\ pc' = [pc EXCEPT ![p] = Idle]
  /\ UNCHANGED <<storeVars, metaVars, loading, promised>>
-----------------------------------------------------------------------------
Step(p) ==
  \/ \E b \in BOOLEAN : Lock(p, b)
  \/ ForgetMasterKey(p)
  \/ SetOnlyMixingAllowed(p)
  \/ \E mk \in MasterKeys :
       \/ \E b \in BOOLEAN : Unlock(p, mk, b)
       \/ UnlockRefused(p, mk)
       \/ EncryptKeys(p, mk)
       \/ \E done \in SUBSET mapKeys : EncryptKeysFails(p, mk, done)
  \/ \E k \in KeyIds, t \in Times \ {0} :
       \/ GenerateKey(p, k, t)
       \/ GenerateKeyRefused(p, k, t)
       \/ \E b \in BOOLEAN : GenerateCryptedKey(p, k, t, b)
  \/ WriteKey(p)
  \/ WriteKeyFails(p)
  \/ CommitEncryption(p)

Next ==
  \/ \E p \in Threads : Step(p)
  \/ \E k \in KeyIds : LoadRecord(k)
  \/ Restart

Spec == Init /\ [][Next]_vars
-----------------------------------------------------------------------------
(* The state is well typed.                                                *)
TypeOK ==
  /\ fUseCrypto \in BOOLEAN
  /\ mapKeys \subseteq KeyIds
  /\ mapCryptedKeys \in [KeyIds -> MasterKeys \cup {NoKey}]
  /\ vMasterKey \in MasterKeys \cup {NoKey}
  /\ fDecryptionThoroughlyChecked \in BOOLEAN
  /\ fOnlyMixingAllowed \in BOOLEAN
  /\ mapKeyMetadata \in [KeyIds -> Times]
  /\ nTimeFirstKey \in Times
  /\ file \in [KeyIds -> Record]
  /\ loading \subseteq KeyIds
  /\ promised \subseteq KeyIds
  /\ pc \in [Threads -> Positions]

WalletExclusive ==
  \A p, q \in Threads : HasWallet(p) /\ HasWallet(q) => p = q

HalfEncrypted == \E p \in Threads : pc[p] = Failed

(* The store is plain or encrypted, never both, however Lock, Unlock and   *)
(* the creation of keys interleave: only an EncryptKeys that has failed,   *)
(* whose caller still holds cs_wallet, leaves both maps in use.            *)
NeverPlainAndEncrypted ==
  /\ fUseCrypto /\ ~HalfEncrypted => mapKeys = {}
  /\ ~fUseCrypto => Crypted = {} /\ vMasterKey = NoKey

(* All keys are encrypted under one master key, and the one in memory is   *)
(* that one.  So Unlock never meets keys of which some decrypt and some do *)
(* not, where it asserts false, and may try the first key alone once it    *)
(* has tried all.                                                          *)
OneMasterKey ==
  /\ \A j, k \in Crypted : mapCryptedKeys[j] = mapCryptedKeys[k]
  /\ vMasterKey # NoKey => \A k \in Crypted : Decrypts(vMasterKey, k)

(* Every encrypted key opens with the master key that the store has or     *)
(* will be given, and no key is left in plain text beside them.            *)
KeysOfOneKind == NeverPlainAndEncrypted /\ OneMasterKey

(* A key that GenerateNewKey has returned is in the file from then on, so  *)
(* it outlives the process, though the wallet asks again whether it is     *)
(* encrypted, without the store's lock, before it writes the key.          *)
PromisedKeysRecorded == promised \subseteq Recorded

(* And it is in the map that GetKey and GetPubKey look into, through       *)
(* encryption and restarts.                                                *)
PromisedKeysFound ==
  loading = {} /\ ~HalfEncrypted =>
    promised \subseteq (IF fUseCrypto THEN Crypted ELSE mapKeys)

(* A record that is loaded has its key in memory: a plain one among the    *)
(* plain keys, until it is being encrypted, an encrypted one with the same *)
(* cipher text.  So restarting changes no key, only what is still locked.  *)
MemoryMatchesFile ==
  \A k \in Recorded \ loading :
    \/ file[k].secret = mapCryptedKeys[k]
    \/ /\ file[k].secret = Plain
       /\ \/ ~fUseCrypto /\ k \in mapKeys
          \/ HalfEncrypted
          \/ k \in Crypted /\ \E p \in Threads : pc[p] = Committing

(* nTimeFirstKey is no later than the time of any key in the file that is  *)
(* loaded: what is scanned from there on misses nothing of the wallet's.   *)
FirstKeyTimeCoversFile ==
  \A k \in Recorded \ loading :
    file[k].time # 0 => nTimeFirstKey # 0 /\ nTimeFirstKey <= file[k].time
=============================================================================
