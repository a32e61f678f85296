----------------------------- MODULE WalletProofs -----------------------------
(***************************************************************************)
(* Proofs about the wallet's keys, for any number of threads, keys and     *)
(* master keys, and about the database it keeps them in, for any number of *)
(* files, users and transactions and any dump that salvage may read.       *)
(***************************************************************************)
EXTENDS KeyStore, WalletDb, SumTheorems, FiniteSetTheorems, TLAPS

(* Every metadata entry is covered by nTimeFirstKey, as the file's are.    *)
FirstKeyTimeCoversMetadata ==
  \A k \in KeyIds :
    mapKeyMetadata[k] # 0 =>
      nTimeFirstKey # 0 /\ nTimeFirstKey <= mapKeyMetadata[k]

(* While the file is loaded nothing else happens, and the encrypted keys   *)
(* are those of records loaded so far.                                     *)
LoadingComesFirst ==
  /\ loading \subseteq Recorded
  /\ loading # {} =>
       /\ \A p \in Threads : pc[p] = Idle
       /\ vMasterKey = NoKey
       /\ Crypted \subseteq Recorded \ loading

(* What the thread that holds cs_wallet relies on at each of its steps.    *)
WalletStepSound(p) ==
  /\ pc[p].at = "write" => pc[p].key \in mapKeys
  /\ pc[p] = Committing => Recorded \subseteq Crypted

(* The inductive invariant.                                                *)
IInv ==
  /\ TypeOK
  /\ WalletExclusive
  /\ NeverPlainAndEncrypted
  /\ OneMasterKey
  /\ FileLoads
  /\ PromisedKeysRecorded
  /\ MemoryMatchesFile
  /\ FirstKeyTimeCoversFile
  /\ FirstKeyTimeCoversMetadata
  /\ LoadingComesFirst
  /\ \A p \in Threads : WalletStepSound(p)
-----------------------------------------------------------------------------
(* The places a thread can be at, told apart by their names.               *)
LEMMA PositionFacts ==
  /\ Idle.at = "idle" /\ Clearing.at = "clear" /\ Committing.at = "commit"
  /\ Failed.at = "failed"
  /\ \A b \in BOOLEAN : Flagging(b).at = "flag" /\ Flagging(b).mixing = b
  /\ \A k \in KeyIds : Writing(k).at = "write" /\ Writing(k).key = k
  /\ \A x \in Positions :
       /\ x.at = "idle" <=> x = Idle
       /\ x.at = "clear" <=> x = Clearing
       /\ x.at = "commit" <=> x = Committing
       /\ x.at = "failed" <=> x = Failed
       /\ x.at = "write" => x.key \in KeyIds
       /\ x.at = "flag" => x.mixing \in BOOLEAN
BY DEF Idle, Clearing, Committing, Failed, Flagging, Writing, Positions

(* The values that a start gives to metadata and threads.                  *)
LEMMA StartValues == 0 \in Times /\ Idle \in Positions
BY TimeAssumption DEF Times, Positions

(* The state the process starts in.                                        *)
LEMMA InitIInv == ASSUME Init PROVE IInv
<1>1. Crypted = {}
  BY DEF Init, NoKeys, Crypted
<1>2. \A p \in Threads : pc[p].at = "idle"
  BY PositionFacts DEF Init
<1>3. TypeOK
  <2>1. Recorded \subseteq KeyIds
    BY DEF Recorded
  <2> QED
    BY <2>1, StartValues DEF Init, TypeOK, NoKeys, NoMetadata
<1>4. WalletExclusive /\ \A p \in Threads : WalletStepSound(p)
  BY <1>2, PositionFacts DEF WalletExclusive, HasWallet, WalletStepSound
<1>5. LoadingComesFirst /\ OneMasterKey
  BY <1>1 DEF Init, LoadingComesFirst, OneMasterKey
<1>6. NeverPlainAndEncrypted
  BY <1>1 DEF Init, NeverPlainAndEncrypted
<1>7. /\ MemoryMatchesFile /\ FirstKeyTimeCoversFile
      /\ FirstKeyTimeCoversMetadata /\ PromisedKeysRecorded
  BY DEF Init, MemoryMatchesFile, FirstKeyTimeCoversFile, NoMetadata,
         FirstKeyTimeCoversMetadata, PromisedKeysRecorded
<1> QED
  BY <1>3, <1>4, <1>5, <1>6, <1>7 DEF Init, IInv

(* A restart takes the file as it is, and the invariant of the start.      *)
LEMMA RestartStep == ASSUME IInv, Restart PROVE IInv'
<1>1. Recorded' = Recorded /\ FileLoads'
  BY DEF IInv, Restart, Recorded, FileLoads
<1>2. Crypted' = {}
  BY DEF Restart, NoKeys, Crypted
<1>3. \A p \in Threads : pc'[p] = Idle /\ pc'[p].at = "idle"
  BY PositionFacts DEF Restart
<1>4. TypeOK'
  <2>1. Recorded \subseteq KeyIds
    BY DEF Recorded
  <2> QED
    BY <2>1, StartValues DEF IInv, Restart, TypeOK, NoKeys, NoMetadata
<1>5. WalletExclusive' /\ \A p \in Threads : WalletStepSound(p)'
  BY <1>3, PositionFacts DEF WalletExclusive, HasWallet, WalletStepSound
<1>6. LoadingComesFirst' /\ OneMasterKey'
  BY <1>1, <1>2, <1>3 DEF Restart, LoadingComesFirst, OneMasterKey
<1>7. NeverPlainAndEncrypted'
  BY <1>2 DEF Restart, NeverPlainAndEncrypted
<1>8. /\ MemoryMatchesFile' /\ FirstKeyTimeCoversFile'
      /\ FirstKeyTimeCoversMetadata' /\ PromisedKeysRecorded'
  BY <1>1 DEF IInv, Restart, MemoryMatchesFile, FirstKeyTimeCoversFile,
      NoMetadata, FirstKeyTimeCoversMetadata, PromisedKeysRecorded
<1> QED
  BY <1>1, <1>4, <1>5, <1>6, <1>7, <1>8 DEF IInv
-----------------------------------------------------------------------------
OffWallet(x) == x.at \notin {"write", "commit", "failed"}

(* Lock, Unlock and their second steps: no map, no record and no metadata  *)
(* changes, and the thread is in no call that holds cs_wallet.             *)
LEMMA LockingStep ==
  ASSUME IInv, NEW p \in Threads, NEW x \in Positions,
         OffWallet(pc[p]), OffWallet(x), pc' = [pc EXCEPT ![p] = x],
         loading = {},
         UNCHANGED <<mapKeys, mapCryptedKeys, metaVars, diskVars>>,
         fUseCrypto' \in BOOLEAN,
         fUseCrypto => fUseCrypto',
         fUseCrypto' /\ ~fUseCrypto => mapKeys = {},
         vMasterKey' \in MasterKeys \cup {NoKey},
         vMasterKey' # NoKey =>
           fUseCrypto' /\ \A k \in Crypted : mapCryptedKeys[k] = vMasterKey',
         fDecryptionThoroughlyChecked' \in BOOLEAN,
         fOnlyMixingAllowed' \in BOOLEAN
  PROVE  IInv'
<1>1. /\ Recorded' = Recorded /\ Crypted' = Crypted
      /\ file' = file /\ loading' = loading /\ promised' = promised
      /\ mapKeyMetadata' = mapKeyMetadata /\ nTimeFirstKey' = nTimeFirstKey
      /\ mapKeys' = mapKeys /\ mapCryptedKeys' = mapCryptedKeys
  BY DEF diskVars, metaVars, Recorded, Crypted
<1>2. \A q \in Threads : /\ pc[q] \in Positions /\ pc'[q] \in Positions
                         /\ HasWallet(q)' <=> HasWallet(q)
                         /\ HasWallet(q) => pc'[q] = pc[q]
  BY DEF IInv, TypeOK, HasWallet, OffWallet
<1>3. /\ HalfEncrypted' <=> HalfEncrypted
      /\ (\E q \in Threads : pc'[q] = Committing)
           <=> (\E q \in Threads : pc[q] = Committing)
  BY <1>2, PositionFacts DEF HalfEncrypted, HasWallet
<1>4. TypeOK'
  BY <1>1 DEF IInv, TypeOK
<1>5. WalletExclusive'
  BY <1>2 DEF IInv, WalletExclusive
<1>6. NeverPlainAndEncrypted'
  BY <1>1, <1>3 DEF IInv, TypeOK, NeverPlainAndEncrypted
<1>7. OneMasterKey'
  BY <1>1 DEF IInv, OneMasterKey, Decrypts
<1>8. FileLoads' /\ PromisedKeysRecorded'
  BY <1>1 DEF IInv, FileLoads, PromisedKeysRecorded
<1>9. MemoryMatchesFile'
  <2>1. ASSUME ~fUseCrypto, fUseCrypto'
        PROVE  MemoryMatchesFile'
    BY <1>1, <1>3, <2>1 DEF IInv, MemoryMatchesFile
  <2>2. ASSUME fUseCrypto' <=> fUseCrypto
        PROVE  MemoryMatchesFile'
    BY <1>1, <1>3, <2>2 DEF IInv, MemoryMatchesFile
  <2> QED
    BY <2>1, <2>2
<1>10. FirstKeyTimeCoversFile' /\ FirstKeyTimeCoversMetadata'
  BY <1>1 DEF IInv, FirstKeyTimeCoversFile, FirstKeyTimeCoversMetadata
<1>11. LoadingComesFirst'
  BY <1>1 DEF IInv, LoadingComesFirst
<1>12. \A q \in Threads : WalletStepSound(q)'
  BY <1>1, <1>2, PositionFacts DEF IInv, WalletStepSound, HasWallet
<1> QED
  BY <1>4, <1>5, <1>6, <1>7, <1>8, <1>9, <1>10, <1>11, <1>12 DEF IInv

(* A thread in the middle of a call means that the file is loaded.         *)
LEMMA LoadedInCall ==
  ASSUME IInv, NEW p \in Threads, pc[p] # Idle
  PROVE  loading = {}
BY DEF IInv, LoadingComesFirst

LEMMA LockStep ==
  ASSUME IInv, NEW p \in Threads, NEW b \in BOOLEAN, Lock(p, b)
  PROVE  IInv'
<1> DEFINE x == IF b THEN Flagging(TRUE) ELSE Clearing
<1>1. x \in Positions /\ OffWallet(x) /\ OffWallet(pc[p])
  BY PositionFacts DEF Lock, Starts, Positions, OffWallet
<1>2. /\ fUseCrypto' = TRUE /\ (fUseCrypto \/ mapKeys = {})
      /\ UNCHANGED <<mapKeys, mapCryptedKeys, metaVars, diskVars>>
      /\ UNCHANGED <<vMasterKey, fDecryptionThoroughlyChecked,
                     fOnlyMixingAllowed>>
      /\ pc' = [pc EXCEPT ![p] = x] /\ loading = {}
  BY DEF Lock, Starts, CanBeCrypted
<1>3. /\ vMasterKey \in MasterKeys \cup {NoKey}
      /\ fDecryptionThoroughlyChecked \in BOOLEAN
      /\ fOnlyMixingAllowed \in BOOLEAN
      /\ vMasterKey # NoKey =>
           \A k \in Crypted : mapCryptedKeys[k] = vMasterKey
  BY DEF IInv, TypeOK, OneMasterKey, Decrypts
<1> HIDE DEF x
<1> QED
  BY <1>1, <1>2, <1>3, LockingStep

LEMMA ForgetStep ==
  ASSUME IInv, NEW p \in Threads, ForgetMasterKey(p)
  PROVE  IInv'
<1>1. /\ Flagging(FALSE) \in Positions
      /\ OffWallet(Flagging(FALSE)) /\ OffWallet(pc[p])
  BY PositionFacts DEF ForgetMasterKey, Positions, OffWallet
<1>2. loading = {}
  BY LoadedInCall, PositionFacts DEF ForgetMasterKey
<1>3. /\ fUseCrypto' = fUseCrypto /\ vMasterKey' = NoKey
      /\ UNCHANGED <<mapKeys, mapCryptedKeys, metaVars, diskVars>>
      /\ UNCHANGED <<fDecryptionThoroughlyChecked, fOnlyMixingAllowed>>
      /\ pc' = [pc EXCEPT ![p] = Flagging(FALSE)]
  BY DEF ForgetMasterKey
<1>4. /\ fUseCrypto \in BOOLEAN /\ fDecryptionThoroughlyChecked \in BOOLEAN
      /\ fOnlyMixingAllowed \in BOOLEAN
  BY DEF IInv, TypeOK
<1> QED
  BY <1>1, <1>2, <1>3, <1>4, LockingStep

LEMMA FlagStep ==
  ASSUME IInv, NEW p \in Threads, SetOnlyMixingAllowed(p)
  PROVE  IInv'
<1>1. Idle \in Positions /\ OffWallet(Idle) /\ OffWallet(pc[p])
  BY PositionFacts DEF SetOnlyMixingAllowed, Positions, OffWallet
<1>2. loading = {}
  BY LoadedInCall, PositionFacts DEF SetOnlyMixingAllowed
<1>3. /\ UNCHANGED <<mapKeys, mapCryptedKeys, metaVars, diskVars>>
      /\ UNCHANGED <<fUseCrypto, vMasterKey, fDecryptionThoroughlyChecked>>
      /\ pc' = [pc EXCEPT ![p] = Idle]
      /\ fOnlyMixingAllowed' \in BOOLEAN
  BY PositionFacts DEF IInv, TypeOK, SetOnlyMixingAllowed
<1>4. /\ fUseCrypto \in BOOLEAN /\ fDecryptionThoroughlyChecked \in BOOLEAN
      /\ vMasterKey \in MasterKeys \cup {NoKey}
      /\ vMasterKey # NoKey =>
           fUseCrypto /\ \A k \in Crypted : mapCryptedKeys[k] = vMasterKey
  BY DEF IInv, TypeOK, OneMasterKey, Decrypts, NeverPlainAndEncrypted
<1> QED
  BY <1>1, <1>2, <1>3, <1>4, LockingStep

(* A key that opens the store opens all of it, also when one was tried.    *)
LEMMA UnlockStep ==
  ASSUME IInv, NEW p \in Threads, NEW mk \in MasterKeys, NEW b \in BOOLEAN,
         Unlock(p, mk, b)
  PROVE  IInv'
<1>1. /\ Flagging(b) \in Positions
      /\ OffWallet(Flagging(b)) /\ OffWallet(pc[p])
  BY PositionFacts DEF Unlock, Starts, Positions, OffWallet
<1>2. /\ fUseCrypto' = TRUE /\ (fUseCrypto \/ mapKeys = {})
      /\ UNCHANGED <<mapKeys, mapCryptedKeys, metaVars, diskVars>>
      /\ fOnlyMixingAllowed' = fOnlyMixingAllowed
      /\ fDecryptionThoroughlyChecked' = TRUE
      /\ vMasterKey' = mk
      /\ pc' = [pc EXCEPT ![p] = Flagging(b)] /\ loading = {}
  BY DEF Unlock, Starts, CanBeCrypted
<1>3. \A k \in Crypted : mapCryptedKeys[k] = mk
  BY DEF IInv, Unlock, Opens, OneMasterKey, Decrypts
<1>4. fOnlyMixingAllowed \in BOOLEAN
  BY DEF IInv, TypeOK
<1> QED
  BY <1>1, <1>2, <1>3, <1>4, LockingStep

LEMMA UnlockRefusedStep ==
  ASSUME IInv, NEW p \in Threads, NEW mk \in MasterKeys,
         UnlockRefused(p, mk)
  PROVE  IInv'
<1>1. Idle \in Positions /\ OffWallet(Idle) /\ OffWallet(pc[p])
  BY PositionFacts DEF UnlockRefused, Starts, Positions, OffWallet
<1>2. /\ fUseCrypto' = TRUE /\ (fUseCrypto \/ mapKeys = {})
      /\ UNCHANGED <<mapKeys, mapCryptedKeys, metaVars, diskVars>>
      /\ UNCHANGED <<vMasterKey, fDecryptionThoroughlyChecked,
                     fOnlyMixingAllowed>>
      /\ pc' = [pc EXCEPT ![p] = Idle] /\ loading = {}
  BY DEF IInv, TypeOK, UnlockRefused, Starts, CanBeCrypted
<1>3. /\ vMasterKey \in MasterKeys \cup {NoKey}
      /\ fDecryptionThoroughlyChecked \in BOOLEAN
      /\ fOnlyMixingAllowed \in BOOLEAN
      /\ vMasterKey # NoKey =>
           \A k \in Crypted : mapCryptedKeys[k] = vMasterKey
  BY DEF IInv, TypeOK, OneMasterKey, Decrypts
<1> QED
  BY <1>1, <1>2, <1>3, LockingStep
-----------------------------------------------------------------------------
(* nTimeFirstKey only ever moves to an earlier time, and covers the new    *)
(* one.                                                                    *)
LEMMA FirstKeyTimeCovers ==
  ASSUME NEW first \in Times, NEW t \in Times
  PROVE  /\ FirstKeyTime(first, t) \in Times
         /\ t # 0 => FirstKeyTime(first, t) # 0 /\ FirstKeyTime(first, t) <= t
         /\ first # 0 => FirstKeyTime(first, t) # 0
                         /\ FirstKeyTime(first, t) <= first
BY TimeAssumption DEF FirstKeyTime, Times

(* What the metadata of a key does to the bounds, with the file changed    *)
(* for that key at most, and its record of that time.                      *)
LEMMA MetadataStep ==
  ASSUME IInv, NEW k \in KeyIds, NEW t \in Times, LoadKeyMetadata(k, t),
         \A j \in KeyIds \ {k} :
           file'[j] = file[j] /\ (j \in loading <=> j \in loading'),
         file'[k].time \in {0, t} \/ k \notin Recorded'
  PROVE  /\ mapKeyMetadata' \in [KeyIds -> Times] /\ nTimeFirstKey' \in Times
         /\ mapKeyMetadata'[k] = t
         /\ FirstKeyTimeCoversFile' /\ FirstKeyTimeCoversMetadata'
<1>1. /\ mapKeyMetadata \in [KeyIds -> Times] /\ nTimeFirstKey \in Times
      /\ file \in [KeyIds -> Record]
  BY DEF IInv, TypeOK
<1>2. /\ nTimeFirstKey' \in Times
      /\ t # 0 => nTimeFirstKey' # 0 /\ nTimeFirstKey' <= t
      /\ nTimeFirstKey # 0 =>
           nTimeFirstKey' # 0 /\ nTimeFirstKey' <= nTimeFirstKey
  BY <1>1, FirstKeyTimeCovers DEF LoadKeyMetadata
<1>3. \A s \in Times :
        nTimeFirstKey # 0 /\ nTimeFirstKey <= s =>
          nTimeFirstKey' # 0 /\ nTimeFirstKey' <= s
  BY <1>1, <1>2 DEF Times
<1>4. mapKeyMetadata' = [mapKeyMetadata EXCEPT ![k] = t]
  BY DEF LoadKeyMetadata
<1>5. FirstKeyTimeCoversMetadata'
  <2> SUFFICES ASSUME NEW j \in KeyIds, mapKeyMetadata'[j] # 0
               PROVE  /\ nTimeFirstKey' # 0
                      /\ nTimeFirstKey' <= mapKeyMetadata'[j]
    BY DEF FirstKeyTimeCoversMetadata
  <2>1. CASE j = k
    BY <1>1, <1>2, <1>4, <2>1
  <2>2. CASE j # k
    <3>1. mapKeyMetadata'[j] = mapKeyMetadata[j] /\ mapKeyMetadata[j] \in Times
      BY <1>1, <1>4, <2>2
    <3> QED
      BY <1>3, <3>1 DEF IInv, FirstKeyTimeCoversMetadata
  <2> QED
    BY <2>1, <2>2
<1>6. FirstKeyTimeCoversFile'
  <2> SUFFICES ASSUME NEW j \in KeyIds, j \in Recorded', j \notin loading',
                      file'[j].time # 0
               PROVE  nTimeFirstKey' # 0 /\ nTimeFirstKey' <= file'[j].time
    BY DEF FirstKeyTimeCoversFile, Recorded
  <2>1. CASE j = k
    BY <1>2, <2>1
  <2>2. CASE j # k
    <3>1. file'[j] = file[j] /\ j \notin loading /\ j \in Recorded
      BY <2>2 DEF Recorded
    <3>2. file[j].time \in Times
      BY <1>1 DEF Record
    <3>3. nTimeFirstKey # 0 /\ nTimeFirstKey <= file[j].time
      BY <3>1 DEF IInv, FirstKeyTimeCoversFile
    <3> QED
      BY <1>3, <3>1, <3>2, <3>3
  <2> QED
    BY <2>1, <2>2
<1> QED
  BY <1>1, <1>2, <1>4, <1>5, <1>6

LEMMA LoadStep ==
  ASSUME IInv, NEW k \in KeyIds, LoadRecord(k)
  PROVE  IInv'
<1>1. /\ k \in loading /\ loading' = loading \ {k} /\ k \in Recorded
      /\ file' = file /\ Recorded' = Recorded /\ promised' = promised
      /\ vMasterKey' = NoKey /\ pc' = pc
      /\ Crypted \subseteq Recorded \ loading
  BY DEF IInv, LoadingComesFirst, LoadRecord, Recorded
<1>2. \A p \in Threads : pc[p] = Idle /\ pc[p].at = "idle"
  BY <1>1, PositionFacts DEF IInv, LoadingComesFirst
<1>3. ~HalfEncrypted /\ ~HalfEncrypted'
      /\ ~(\E p \in Threads : pc[p] = Committing)
  BY <1>1, <1>2, PositionFacts DEF HalfEncrypted
<1>4. /\ mapKeyMetadata' \in [KeyIds -> Times] /\ nTimeFirstKey' \in Times
      /\ FirstKeyTimeCoversFile' /\ FirstKeyTimeCoversMetadata'
  <2>1. file[k].time \in Times
    BY DEF IInv, TypeOK, Record
  <2> QED
    BY <1>1, <2>1, MetadataStep DEF LoadRecord
<1>5. file[k].secret \in MasterKeys \cup {Plain}
  BY <1>1 DEF IInv, TypeOK, Record, Recorded
<1>6. CASE LoadPlainKey(k)
  <2>1. /\ Crypted' = Crypted /\ mapCryptedKeys' = mapCryptedKeys
        /\ mapKeys' = mapKeys \cup {k}
        /\ ~fUseCrypto /\ fUseCrypto' = fUseCrypto
        /\ file[k].secret = Plain
    BY <1>6 DEF LoadPlainKey, Crypted
  <2>2. TypeOK'
    BY <1>1, <1>4, <2>1 DEF IInv, TypeOK, LoadRecord
  <2>3. NeverPlainAndEncrypted' /\ OneMasterKey'
    BY <1>1, <2>1
    DEF IInv, NeverPlainAndEncrypted, OneMasterKey, Decrypts
  <2>4. MemoryMatchesFile'
    <3> SUFFICES ASSUME NEW j \in Recorded \ loading'
                 PROVE  \/ file[j].secret = mapCryptedKeys[j]
                        \/ file[j].secret = Plain /\ j \in mapKeys'
      BY <1>1, <2>1 DEF MemoryMatchesFile
    <3>1. CASE j = k
      BY <2>1, <3>1
    <3>2. CASE j # k
      BY <1>1, <1>3, <2>1, <3>2 DEF IInv, MemoryMatchesFile
    <3> QED
      BY <3>1, <3>2
  <2> QED
    <3>1. LoadingComesFirst'
      BY <1>1, <1>2, <2>1 DEF IInv, LoadingComesFirst
    <3>2. WalletExclusive' /\ \A p \in Threads : WalletStepSound(p)'
      BY <1>1, <1>2, PositionFacts
      DEF WalletExclusive, WalletStepSound, HasWallet
    <3>3. FileLoads' /\ PromisedKeysRecorded'
      BY <1>1 DEF IInv, FileLoads, PromisedKeysRecorded
    <3> QED
      BY <1>4, <2>2, <2>3, <2>4, <3>1, <3>2, <3>3 DEF IInv
<1>7. CASE LoadCryptedKey(k)
  <2>1. /\ Crypted' = Crypted \cup {k} /\ mapKeys' = mapKeys
        /\ mapCryptedKeys' = [mapCryptedKeys EXCEPT ![k] = file[k].secret]
        /\ mapKeys = {} /\ fUseCrypto' = TRUE
        /\ file[k].secret \in MasterKeys
    BY <1>3, <1>5, <1>7, KeyAssumption
    DEF LoadCryptedKey, Crypted, CanBeCrypted, IInv, TypeOK,
        NeverPlainAndEncrypted
  <2>2. TypeOK'
    BY <1>1, <1>4, <2>1, KeyAssumption DEF IInv, TypeOK, LoadRecord
  <2>3. \A j \in Recorded \ loading : file[j].secret = mapCryptedKeys[j]
    BY <1>3, <2>1 DEF IInv, MemoryMatchesFile
  <2>4. \A j \in Crypted' : mapCryptedKeys'[j] = file[k].secret
    <3> SUFFICES ASSUME NEW j \in Crypted'
                 PROVE  mapCryptedKeys'[j] = file[k].secret
      OBVIOUS
    <3>1. CASE j = k
      BY <2>1, <3>1 DEF IInv, TypeOK
    <3>2. CASE j # k
      BY <1>1, <2>1, <2>3, <3>2 DEF IInv, TypeOK, FileLoads, Crypted
    <3> QED
      BY <3>1, <3>2
  <2>5. NeverPlainAndEncrypted' /\ OneMasterKey'
    BY <1>1, <2>1, <2>4 DEF NeverPlainAndEncrypted, OneMasterKey
  <2>6. MemoryMatchesFile'
    <3> SUFFICES ASSUME NEW j \in Recorded \ loading'
                 PROVE  file[j].secret = mapCryptedKeys'[j]
      BY <1>1 DEF MemoryMatchesFile
    <3>1. CASE j = k
      BY <2>1, <3>1 DEF IInv, TypeOK
    <3>2. CASE j # k
      BY <1>1, <2>1, <2>3, <3>2 DEF IInv, TypeOK, Recorded
    <3> QED
      BY <3>1, <3>2
  <2> QED
    <3>1. LoadingComesFirst'
      BY <1>1, <1>2, <2>1 DEF IInv, LoadingComesFirst
    <3>2. WalletExclusive' /\ \A p \in Threads : WalletStepSound(p)'
      BY <1>1, <1>2, PositionFacts
      DEF WalletExclusive, WalletStepSound, HasWallet
    <3>3. FileLoads' /\ PromisedKeysRecorded'
      BY <1>1 DEF IInv, FileLoads, PromisedKeysRecorded
    <3> QED
      BY <1>4, <2>2, <2>5, <2>6, <3>1, <3>2, <3>3 DEF IInv
<1> QED
  BY <1>6, <1>7 DEF LoadRecord
-----------------------------------------------------------------------------
(* With the file loaded and no call that holds cs_wallet, a plain store    *)
(* has the records' keys as plain ones, an encrypted one as encrypted.     *)
LEMMA QuietStore ==
  ASSUME IInv, loading = {}, WalletIsFree
  PROVE  /\ ~HalfEncrypted /\ ~(\E p \in Threads : pc[p] = Committing)
         /\ ~fUseCrypto => \A k \in Recorded :
              file[k].secret = Plain /\ k \in mapKeys
         /\ fUseCrypto =>
              mapKeys = {} /\ \A k \in Recorded :
                file[k].secret = mapCryptedKeys[k] /\ k \in Crypted
<1>1. ~HalfEncrypted /\ ~(\E p \in Threads : pc[p] = Committing)
  BY PositionFacts DEF WalletIsFree, HasWallet, HalfEncrypted
<1>2. \A k \in Recorded : file[k].secret # NoKey
  BY DEF Recorded
<1>3. \A k \in Recorded : file[k].secret = mapCryptedKeys[k] => k \in Crypted
  BY <1>2 DEF Recorded, Crypted
<1> QED
  BY <1>1, <1>3 DEF IInv, MemoryMatchesFile, NeverPlainAndEncrypted, Recorded

(* What every way to generate a key starts with.                           *)
LEMMA NewKeyFacts ==
  ASSUME IInv, NEW p \in Threads, NEW k \in KeyIds, NEW t \in Times,
         NewKey(p, k, t)
  PROVE  /\ loading = {} /\ pc[p] = Idle /\ WalletIsFree
         /\ k \notin mapKeys /\ k \notin Crypted /\ k \notin Recorded
         /\ k \notin promised /\ LoadKeyMetadata(k, t)
         /\ mapCryptedKeys[k] = NoKey
BY DEF NewKey, Starts, Crypted

LEMMA GenerateKeyStep ==
  ASSUME IInv, NEW p \in Threads, NEW k \in KeyIds, NEW t \in Times,
         GenerateKey(p, k, t)
  PROVE  IInv'
<1>1. /\ loading = {} /\ pc[p] = Idle /\ WalletIsFree
      /\ k \notin Recorded /\ LoadKeyMetadata(k, t)
  BY NewKeyFacts DEF GenerateKey
<1>2. /\ ~fUseCrypto /\ mapKeys' = mapKeys \cup {k}
      /\ pc' = [pc EXCEPT ![p] = Writing(k)]
      /\ fUseCrypto' = fUseCrypto /\ mapCryptedKeys' = mapCryptedKeys
      /\ vMasterKey' = vMasterKey /\ file' = file /\ loading' = loading
      /\ promised' = promised
      /\ fDecryptionThoroughlyChecked' = fDecryptionThoroughlyChecked
      /\ fOnlyMixingAllowed' = fOnlyMixingAllowed
  BY DEF GenerateKey, diskVars
<1>3. Recorded' = Recorded /\ Crypted' = Crypted
  BY <1>2 DEF Recorded, Crypted
<1>4. /\ mapKeyMetadata' \in [KeyIds -> Times] /\ nTimeFirstKey' \in Times
      /\ FirstKeyTimeCoversFile' /\ FirstKeyTimeCoversMetadata'
  BY <1>1, <1>2, <1>3, MetadataStep
<1>5. TypeOK'
  <2>1. Writing(k) \in Positions
    BY DEF Positions
  <2> QED
    BY <1>2, <1>4, <2>1 DEF IInv, TypeOK
<1>6. \A q \in Threads : /\ ~HasWallet(q)
                         /\ q # p => pc'[q] = pc[q] /\ ~HasWallet(q)'
                         /\ q = p => pc'[q] = Writing(k)
  BY <1>1, <1>2 DEF IInv, TypeOK, WalletIsFree, HasWallet
<1>7. WalletExclusive' /\ ~HalfEncrypted'
  BY <1>6, PositionFacts DEF WalletExclusive, HalfEncrypted, HasWallet
<1>8. \A q \in Threads : WalletStepSound(q)'
  BY <1>2, <1>6, PositionFacts DEF WalletStepSound, HasWallet
<1>9. NeverPlainAndEncrypted' /\ OneMasterKey'
  BY <1>2, <1>3 DEF IInv, NeverPlainAndEncrypted, OneMasterKey, Decrypts
<1>10. MemoryMatchesFile'
  BY <1>1, <1>2, <1>3, QuietStore DEF MemoryMatchesFile
<1>11. FileLoads' /\ PromisedKeysRecorded' /\ LoadingComesFirst'
  BY <1>1, <1>2, <1>3
  DEF IInv, FileLoads, PromisedKeysRecorded, LoadingComesFirst
<1> QED
  BY <1>4, <1>5, <1>7, <1>8, <1>9, <1>10, <1>11 DEF IInv

LEMMA GenerateKeyRefusedStep ==
  ASSUME IInv, NEW p \in Threads, NEW k \in KeyIds, NEW t \in Times,
         GenerateKeyRefused(p, k, t)
  PROVE  IInv'
<1>1. k \notin Recorded /\ LoadKeyMetadata(k, t)
  BY NewKeyFacts DEF GenerateKeyRefused
<1>2. /\ file' = file /\ loading' = loading /\ promised' = promised
      /\ UNCHANGED storeVars /\ pc' = pc
  BY DEF GenerateKeyRefused, diskVars
<1>3. Recorded' = Recorded /\ Crypted' = Crypted
  BY <1>2 DEF storeVars, Recorded, Crypted
<1>4. /\ mapKeyMetadata' \in [KeyIds -> Times] /\ nTimeFirstKey' \in Times
      /\ FirstKeyTimeCoversFile' /\ FirstKeyTimeCoversMetadata'
  BY <1>1, <1>2, <1>3, MetadataStep
<1>5. TypeOK'
  BY <1>2, <1>4 DEF IInv, TypeOK, storeVars
<1>6. WalletExclusive' /\ \A q \in Threads : WalletStepSound(q)'
  BY <1>2, <1>3
  DEF IInv, WalletExclusive, WalletStepSound, HasWallet, storeVars
<1>7. NeverPlainAndEncrypted' /\ OneMasterKey' /\ MemoryMatchesFile'
  BY <1>2, <1>3
  DEF IInv, NeverPlainAndEncrypted, OneMasterKey, Decrypts, HalfEncrypted,
      MemoryMatchesFile, storeVars
<1>8. FileLoads' /\ PromisedKeysRecorded' /\ LoadingComesFirst'
  BY <1>2, <1>3
  DEF IInv, FileLoads, PromisedKeysRecorded, LoadingComesFirst, storeVars
<1> QED
  BY <1>4, <1>5, <1>6, <1>7, <1>8 DEF IInv

(* A key encrypted under the master key in memory joins keys that all are, *)
(* in the map and in the file.                                             *)
LEMMA GenerateCryptedKeyStep ==
  ASSUME IInv, NEW p \in Threads, NEW k \in KeyIds, NEW t \in Times,
         NEW b \in BOOLEAN, GenerateCryptedKey(p, k, t, b)
  PROVE  IInv'
<1>1. /\ loading = {} /\ WalletIsFree /\ k \notin Crypted
      /\ k \notin Recorded /\ LoadKeyMetadata(k, t)
  BY NewKeyFacts DEF GenerateCryptedKey
<1>2. /\ fUseCrypto /\ vMasterKey \in MasterKeys /\ vMasterKey # NoKey
      /\ fUseCrypto' = fUseCrypto /\ mapKeys' = mapKeys
      /\ mapCryptedKeys' = [mapCryptedKeys EXCEPT ![k] = vMasterKey]
      /\ vMasterKey' = vMasterKey /\ loading' = loading /\ pc' = pc
      /\ fDecryptionThoroughlyChecked' = fDecryptionThoroughlyChecked
      /\ fOnlyMixingAllowed' = fOnlyMixingAllowed
      /\ mapCryptedKeys \in [KeyIds -> MasterKeys \cup {NoKey}]
      /\ file \in [KeyIds -> Record]
  BY DEF GenerateCryptedKey, IsLockedForMixing, IInv, TypeOK
<1>3. /\ Crypted' = Crypted \cup {k}
      /\ \A j \in KeyIds : mapCryptedKeys'[j] =
           IF j = k THEN vMasterKey ELSE mapCryptedKeys[j]
  BY <1>2 DEF Crypted
<1>4. /\ ~HalfEncrypted /\ mapKeys = {}
      /\ \A j \in Recorded : file[j].secret = mapCryptedKeys[j] /\ j \in Crypted
      /\ ~HalfEncrypted'
      /\ \A j \in Crypted : mapCryptedKeys[j] = vMasterKey
  BY <1>1, <1>2, QuietStore DEF HalfEncrypted, IInv, OneMasterKey, Decrypts
<1>5. \A q \in Threads : ~HasWallet(q) /\ ~HasWallet(q)'
  BY <1>1, <1>2 DEF WalletIsFree, HasWallet
<1>6. \A j \in KeyIds \ {k} : file'[j] = file[j]
  BY <1>2 DEF GenerateCryptedKey, WithRecord
<1>7. /\ file' \in [KeyIds -> Record]
      /\ \/ file' = file /\ promised' = promised
         \/ /\ file'[k] = [secret |-> vMasterKey, time |-> t]
            /\ promised' = promised \cup {k}
  <2>1. CASE b
    <3>1. mapKeyMetadata'[k] = t
      BY <1>1 DEF LoadKeyMetadata, IInv, TypeOK
    <3>2. [secret |-> vMasterKey, time |-> t] \in Record
      BY <1>2 DEF Record
    <3>3. file' = [file EXCEPT ![k] = [secret |-> vMasterKey, time |-> t]]
      BY <2>1, <3>1 DEF GenerateCryptedKey, WithRecord
    <3>4. promised' = promised \cup {k}
      BY <2>1 DEF GenerateCryptedKey
    <3> QED
      BY <1>2, <3>2, <3>3, <3>4
  <2>2. CASE ~b
    BY <1>2, <2>2 DEF GenerateCryptedKey
  <2> QED
    BY <2>1, <2>2
<1>8. /\ Recorded \subseteq Recorded' /\ Recorded' \subseteq Recorded \cup {k}
      /\ promised' \subseteq promised \cup {k}
      /\ k \in promised' => k \in promised \/ k \in Recorded'
  BY <1>1, <1>2, <1>6, <1>7, KeyAssumption DEF Recorded
<1>9. \A j \in Recorded' : file'[j].secret = vMasterKey
  <2> SUFFICES ASSUME NEW j \in Recorded' PROVE file'[j].secret = vMasterKey
    OBVIOUS
  <2>1. CASE j = k
    BY <1>1, <1>7, <2>1 DEF Recorded
  <2>2. CASE j # k
    BY <1>4, <1>6, <1>8, <2>2 DEF Recorded
  <2> QED
    BY <2>1, <2>2
<1>10. /\ mapKeyMetadata' \in [KeyIds -> Times] /\ nTimeFirstKey' \in Times
       /\ FirstKeyTimeCoversFile' /\ FirstKeyTimeCoversMetadata'
  <2>1. file'[k].time = t \/ k \notin Recorded'
    BY <1>1, <1>7 DEF Recorded
  <2> QED
    BY <1>1, <1>2, <1>6, <2>1, MetadataStep
<1>11. TypeOK'
  BY <1>2, <1>7, <1>8, <1>10 DEF IInv, TypeOK
<1>12. WalletExclusive' /\ \A q \in Threads : WalletStepSound(q)'
  BY <1>5, PositionFacts DEF WalletExclusive, WalletStepSound, HasWallet
<1>13. NeverPlainAndEncrypted' /\ OneMasterKey'
  BY <1>2, <1>3, <1>4 DEF NeverPlainAndEncrypted, OneMasterKey, Decrypts
<1>14. FileLoads' /\ PromisedKeysRecorded'
  BY <1>8, <1>9 DEF IInv, FileLoads, PromisedKeysRecorded
<1>15. MemoryMatchesFile'
  BY <1>3, <1>4, <1>8, <1>9 DEF MemoryMatchesFile, Recorded, Crypted
<1>16. LoadingComesFirst'
  BY <1>1, <1>2 DEF LoadingComesFirst
<1> QED
  BY <1>10, <1>11, <1>12, <1>13, <1>14, <1>15, <1>16 DEF IInv
-----------------------------------------------------------------------------
(* A thread that leaves a call holding cs_wallet leaves none behind.       *)
LEMMA LeavesWallet ==
  ASSUME IInv, NEW p \in Threads, HasWallet(p), pc' = [pc EXCEPT ![p] = Idle]
  PROVE  /\ loading = {} /\ pc' \in [Threads -> Positions]
         /\ \A q \in Threads : ~HasWallet(q)'
         /\ ~HalfEncrypted' /\ ~(\E q \in Threads : pc'[q] = Committing)
         /\ WalletExclusive' /\ \A q \in Threads : WalletStepSound(q)'
<1>1. pc[p] # Idle
  BY PositionFacts DEF HasWallet
<1>2. \A q \in Threads : ~HasWallet(q)' /\ pc'[q] \in Positions
  BY PositionFacts
  DEF IInv, TypeOK, WalletExclusive, HasWallet, Positions
<1>3. ~HalfEncrypted' /\ ~(\E q \in Threads : pc'[q] = Committing)
  BY <1>2, PositionFacts DEF HasWallet, HalfEncrypted
<1>4. WalletExclusive' /\ \A q \in Threads : WalletStepSound(q)'
  BY <1>2, PositionFacts DEF HasWallet, WalletExclusive, WalletStepSound
<1> QED
  BY <1>1, <1>2, <1>3, <1>4, LoadedInCall DEF IInv, TypeOK

(* Before a plain key is written, no EncryptKeys is under way, so the      *)
(* store is a plain one, with every record's key.                          *)
LEMMA WritingFacts ==
  ASSUME IInv, NEW p \in Threads, pc[p].at = "write"
  PROVE  /\ HasWallet(p) /\ pc[p].key \in mapKeys /\ pc[p].key \in KeyIds
         /\ ~HalfEncrypted /\ ~(\E q \in Threads : pc[q] = Committing)
         /\ ~fUseCrypto /\ vMasterKey = NoKey /\ Crypted = {} /\ loading = {}
         /\ \A k \in Recorded : file[k].secret = Plain /\ k \in mapKeys
<1>1. /\ HasWallet(p) /\ pc[p].key \in mapKeys /\ pc[p] # Idle
      /\ pc[p] \in Positions
  BY PositionFacts DEF HasWallet, IInv, WalletStepSound, TypeOK
<1>2. ~HalfEncrypted /\ ~(\E q \in Threads : pc[q] = Committing)
  BY <1>1, PositionFacts DEF IInv, WalletExclusive, HasWallet, HalfEncrypted
<1>3. ~fUseCrypto /\ vMasterKey = NoKey /\ Crypted = {}
  BY <1>1, <1>2 DEF IInv, NeverPlainAndEncrypted
<1>4. loading = {}
  BY <1>1, LoadedInCall
<1>5. \A k \in Recorded : file[k].secret = Plain /\ k \in mapKeys
  BY <1>2, <1>3, <1>4 DEF IInv, MemoryMatchesFile, Recorded, Crypted
<1> QED
  BY <1>1, <1>2, <1>3, <1>4, <1>5, PositionFacts

LEMMA WriteKeyStep ==
  ASSUME IInv, NEW p \in Threads, WriteKey(p)
  PROVE  IInv'
<1> DEFINE k == pc[p].key
           t == mapKeyMetadata[k]
<1>1. /\ HasWallet(p) /\ k \in mapKeys /\ k \in KeyIds /\ ~fUseCrypto
      /\ vMasterKey = NoKey /\ Crypted = {} /\ loading = {}
      /\ \A j \in Recorded : file[j].secret = Plain /\ j \in mapKeys
  BY WritingFacts DEF WriteKey
<1>2. /\ UNCHANGED storeVars /\ UNCHANGED metaVars /\ loading' = loading
      /\ promised' = promised \cup {k} /\ pc' = [pc EXCEPT ![p] = Idle]
      /\ file' = [file EXCEPT ![k] = [secret |-> Plain, time |-> t]]
  BY <1>1 DEF WriteKey
<1>3. t \in Times /\ [secret |-> Plain, time |-> t] \in Record
  BY <1>1 DEF IInv, TypeOK, Record
<1> HIDE DEF t, k
<1>4. /\ file' \in [KeyIds -> Record]
      /\ \A j \in KeyIds : file'[j] =
           IF j = k THEN [secret |-> Plain, time |-> t] ELSE file[j]
  BY <1>1, <1>2, <1>3 DEF IInv, TypeOK
<1>5. /\ Recorded' = Recorded \cup {k} /\ Crypted' = {}
      /\ \A j \in Recorded' : file'[j].secret = Plain
  BY <1>1, <1>2, <1>4, KeyAssumption DEF Recorded, Crypted, storeVars
<1>6. /\ pc' \in [Threads -> Positions] /\ ~HalfEncrypted'
      /\ WalletExclusive' /\ \A q \in Threads : WalletStepSound(q)'
  BY <1>1, <1>2, LeavesWallet
<1>7. TypeOK'
  BY <1>1, <1>2, <1>4, <1>6 DEF IInv, TypeOK, storeVars, metaVars
<1>8. NeverPlainAndEncrypted' /\ OneMasterKey'
  BY <1>1, <1>2, <1>5
  DEF IInv, NeverPlainAndEncrypted, OneMasterKey, storeVars
<1>9. FileLoads' /\ PromisedKeysRecorded'
  BY <1>2, <1>5 DEF IInv, FileLoads, PromisedKeysRecorded
<1>10. MemoryMatchesFile'
  BY <1>1, <1>2, <1>5 DEF MemoryMatchesFile, storeVars
<1>11. FirstKeyTimeCoversMetadata'
  BY <1>2 DEF IInv, FirstKeyTimeCoversMetadata, metaVars
<1>12. FirstKeyTimeCoversFile'
  <2> SUFFICES ASSUME NEW j \in Recorded', file'[j].time # 0
               PROVE  nTimeFirstKey # 0 /\ nTimeFirstKey <= file'[j].time
    BY <1>2 DEF FirstKeyTimeCoversFile, metaVars
  <2>1. CASE j = k
    BY <1>1, <1>4, <2>1
    DEF IInv, FirstKeyTimeCoversMetadata, t
  <2>2. CASE j # k
    BY <1>1, <1>4, <1>5, <2>2 DEF IInv, FirstKeyTimeCoversFile, Recorded
  <2> QED
    BY <2>1, <2>2
<1>13. LoadingComesFirst'
  BY <1>1, <1>2 DEF LoadingComesFirst
<1> QED
  BY <1>6, <1>7, <1>8, <1>9, <1>10, <1>11, <1>12, <1>13 DEF IInv

LEMMA WriteKeyFailsStep ==
  ASSUME IInv, NEW p \in Threads, WriteKeyFails(p)
  PROVE  IInv'
<1>1. /\ HasWallet(p) /\ ~fUseCrypto /\ vMasterKey = NoKey /\ Crypted = {}
      /\ loading = {}
      /\ \A j \in Recorded : file[j].secret = Plain /\ j \in mapKeys
  BY WritingFacts DEF WriteKeyFails
<1>2. /\ UNCHANGED storeVars /\ UNCHANGED metaVars /\ UNCHANGED diskVars
      /\ pc' = [pc EXCEPT ![p] = Idle]
  BY DEF WriteKeyFails
<1>3. /\ pc' \in [Threads -> Positions] /\ ~HalfEncrypted'
      /\ WalletExclusive' /\ \A q \in Threads : WalletStepSound(q)'
  BY <1>1, <1>2, LeavesWallet
<1>4. Recorded' = Recorded /\ Crypted' = Crypted
  BY <1>2 DEF Recorded, Crypted, storeVars, diskVars
<1>5. TypeOK'
  BY <1>2, <1>3 DEF IInv, TypeOK, storeVars, metaVars, diskVars
<1>6. NeverPlainAndEncrypted' /\ OneMasterKey' /\ MemoryMatchesFile'
  BY <1>1, <1>2, <1>4
  DEF IInv, NeverPlainAndEncrypted, OneMasterKey, MemoryMatchesFile,
      storeVars, diskVars
<1>7. FileLoads' /\ PromisedKeysRecorded' /\ LoadingComesFirst'
  BY <1>1, <1>2, <1>4
  DEF IInv, FileLoads, PromisedKeysRecorded, LoadingComesFirst, diskVars
<1>8. FirstKeyTimeCoversFile' /\ FirstKeyTimeCoversMetadata'
  BY <1>2, <1>4
  DEF IInv, FirstKeyTimeCoversFile, FirstKeyTimeCoversMetadata, metaVars,
      diskVars
<1> QED
  BY <1>3, <1>5, <1>6, <1>7, <1>8 DEF IInv
-----------------------------------------------------------------------------
(* A plain store that nobody is writing to, before EncryptKeys.            *)
LEMMA BeforeEncryption ==
  ASSUME IInv, NEW p \in Threads, Starts(p), WalletIsFree,
         Crypted = {}, ~fUseCrypto
  PROVE  /\ loading = {} /\ vMasterKey = NoKey
         /\ mapCryptedKeys = [k \in KeyIds |-> NoKey]
         /\ \A k \in Recorded : file[k].secret = Plain /\ k \in mapKeys
         /\ \A q \in Threads : ~HasWallet(q)
<1>1. loading = {} /\ vMasterKey = NoKey
  BY DEF IInv, NeverPlainAndEncrypted, Starts
<1>2. mapCryptedKeys = [k \in KeyIds |-> NoKey]
  BY DEF IInv, TypeOK, Crypted
<1> QED
  BY <1>1, <1>2, QuietStore DEF WalletIsFree

LEMMA EncryptKeysStep ==
  ASSUME IInv, NEW p \in Threads, NEW mk \in MasterKeys, EncryptKeys(p, mk)
  PROVE  IInv'
<1>1. /\ loading = {} /\ vMasterKey = NoKey
      /\ mapCryptedKeys = [k \in KeyIds |-> NoKey]
      /\ \A k \in Recorded : file[k].secret = Plain /\ k \in mapKeys
      /\ \A q \in Threads : ~HasWallet(q)
  BY BeforeEncryption DEF EncryptKeys
<1>2. /\ fUseCrypto' = TRUE /\ mapKeys' = {} /\ vMasterKey' = vMasterKey
      /\ pc' = [pc EXCEPT ![p] = Committing]
      /\ UNCHANGED metaVars /\ UNCHANGED diskVars
      /\ fDecryptionThoroughlyChecked' = fDecryptionThoroughlyChecked
      /\ fOnlyMixingAllowed' = fOnlyMixingAllowed
  BY DEF EncryptKeys
<1>3. mapCryptedKeys' = [k \in KeyIds |-> IF k \in mapKeys THEN mk ELSE NoKey]
  BY <1>1 DEF EncryptKeys
<1>4. Recorded' = Recorded /\ Crypted' = mapKeys
  BY <1>2, <1>3, KeyAssumption DEF Recorded, Crypted, diskVars, IInv, TypeOK
<1>5. \A q \in Threads : IF q = p THEN pc'[q] = Committing
                         ELSE pc'[q] = pc[q] /\ ~HasWallet(q)'
  BY <1>1, <1>2 DEF IInv, TypeOK, HasWallet
<1>6. TypeOK'
  <2>1. Committing \in Positions
    BY DEF Positions
  <2> QED
    BY <1>2, <1>3, <2>1 DEF IInv, TypeOK, metaVars, diskVars
<1>7. WalletExclusive' /\ ~HalfEncrypted'
  BY <1>5, PositionFacts DEF WalletExclusive, HalfEncrypted, HasWallet
<1>8. \A q \in Threads : WalletStepSound(q)'
  BY <1>1, <1>4, <1>5, PositionFacts DEF WalletStepSound, HasWallet
<1>9. NeverPlainAndEncrypted' /\ OneMasterKey'
  BY <1>1, <1>2, <1>3, <1>4 DEF NeverPlainAndEncrypted, OneMasterKey, IInv,
       TypeOK
<1>10. MemoryMatchesFile'
  BY <1>1, <1>2, <1>4, <1>5 DEF MemoryMatchesFile, diskVars
<1>11. FileLoads' /\ PromisedKeysRecorded' /\ LoadingComesFirst'
  BY <1>1, <1>2, <1>4
  DEF IInv, FileLoads, PromisedKeysRecorded, LoadingComesFirst, diskVars
<1>12. FirstKeyTimeCoversFile' /\ FirstKeyTimeCoversMetadata'
  BY <1>2, <1>4
  DEF IInv, FirstKeyTimeCoversFile, FirstKeyTimeCoversMetadata, metaVars,
      diskVars
<1> QED
  BY <1>6, <1>7, <1>8, <1>9, <1>10, <1>11, <1>12 DEF IInv

LEMMA EncryptKeysFailsStep ==
  ASSUME IInv, NEW p \in Threads, NEW mk \in MasterKeys,
         NEW done \in SUBSET mapKeys, EncryptKeysFails(p, mk, done)
  PROVE  IInv'
<1>1. /\ loading = {} /\ vMasterKey = NoKey
      /\ mapCryptedKeys = [k \in KeyIds |-> NoKey]
      /\ \A k \in Recorded : file[k].secret = Plain /\ k \in mapKeys
      /\ \A q \in Threads : ~HasWallet(q)
  BY BeforeEncryption DEF EncryptKeysFails
<1>2. /\ fUseCrypto' = TRUE /\ mapKeys' = mapKeys /\ vMasterKey' = vMasterKey
      /\ pc' = [pc EXCEPT ![p] = Failed]
      /\ UNCHANGED metaVars /\ UNCHANGED diskVars
      /\ fDecryptionThoroughlyChecked' = fDecryptionThoroughlyChecked
      /\ fOnlyMixingAllowed' = fOnlyMixingAllowed
  BY DEF EncryptKeysFails
<1>3. mapCryptedKeys' = [k \in KeyIds |-> IF k \in done THEN mk ELSE NoKey]
  BY <1>1 DEF EncryptKeysFails
<1>4. Recorded' = Recorded /\ Crypted' = done
  BY <1>2, <1>3, KeyAssumption DEF Recorded, Crypted, diskVars, IInv, TypeOK
<1>5. \A q \in Threads : IF q = p THEN pc'[q] = Failed
                         ELSE pc'[q] = pc[q] /\ ~HasWallet(q)'
  BY <1>1, <1>2 DEF IInv, TypeOK, HasWallet
<1>6. TypeOK'
  <2>1. Failed \in Positions
    BY DEF Positions
  <2> QED
    BY <1>2, <1>3, <2>1 DEF IInv, TypeOK, metaVars, diskVars
<1>7. WalletExclusive' /\ HalfEncrypted'
  BY <1>5 DEF WalletExclusive, HalfEncrypted
<1>8. \A q \in Threads : WalletStepSound(q)'
  BY <1>5, PositionFacts DEF WalletStepSound, HasWallet
<1>9. NeverPlainAndEncrypted' /\ OneMasterKey'
  BY <1>1, <1>2, <1>3, <1>4, <1>7
  DEF NeverPlainAndEncrypted, OneMasterKey, IInv, TypeOK
<1>10. MemoryMatchesFile'
  BY <1>1, <1>2, <1>4, <1>7 DEF MemoryMatchesFile, diskVars
<1>11. FileLoads' /\ PromisedKeysRecorded' /\ LoadingComesFirst'
  BY <1>1, <1>2, <1>4
  DEF IInv, FileLoads, PromisedKeysRecorded, LoadingComesFirst, diskVars
<1>12. FirstKeyTimeCoversFile' /\ FirstKeyTimeCoversMetadata'
  BY <1>2, <1>4
  DEF IInv, FirstKeyTimeCoversFile, FirstKeyTimeCoversMetadata, metaVars,
      diskVars
<1> QED
  BY <1>6, <1>7, <1>8, <1>9, <1>10, <1>11, <1>12 DEF IInv

(* The commit replaces the record of every key at once, because each has   *)
(* its encrypted key in memory by then.                                    *)
LEMMA CommitStep ==
  ASSUME IInv, NEW p \in Threads, CommitEncryption(p)
  PROVE  IInv'
<1>1. HasWallet(p) /\ Recorded \subseteq Crypted
  BY PositionFacts
  DEF CommitEncryption, HasWallet, IInv, WalletStepSound
<1>2. /\ UNCHANGED storeVars /\ UNCHANGED metaVars /\ loading' = loading
      /\ promised' = promised /\ pc' = [pc EXCEPT ![p] = Idle]
  BY DEF CommitEncryption
<1>3. /\ loading = {} /\ pc' \in [Threads -> Positions] /\ ~HalfEncrypted'
      /\ WalletExclusive' /\ \A q \in Threads : WalletStepSound(q)'
  BY <1>1, <1>2, LeavesWallet
<1>4. \A k \in KeyIds : file'[k] =
        IF k \in Crypted
        THEN [secret |-> mapCryptedKeys[k], time |-> mapKeyMetadata[k]]
        ELSE file[k]
  BY DEF CommitEncryption
<1>5. \A k \in Crypted : file'[k].secret = mapCryptedKeys[k]
                         /\ file'[k].time = mapKeyMetadata[k]
  <2> TAKE k \in Crypted
  <2>1. k \in KeyIds
    BY DEF Crypted
  <2>2. file'[k] = [secret |-> mapCryptedKeys[k], time |-> mapKeyMetadata[k]]
    BY <1>4, <2>1
  <2> QED
    BY <2>2
<1>6. Crypted' = Crypted /\ Recorded' = Crypted
  <2>1. Crypted' = Crypted
    BY <1>2 DEF Crypted, storeVars
  <2>2. \A k \in KeyIds : file'[k].secret # NoKey <=> k \in Crypted
    <3> TAKE k \in KeyIds
    <3>1. CASE k \in Crypted
      BY <1>5, <3>1 DEF Crypted
    <3>2. CASE k \notin Crypted
      BY <1>1, <1>4, <3>2 DEF Recorded
    <3> QED
      BY <3>1, <3>2
  <2>3. Crypted \subseteq KeyIds
    BY DEF Crypted
  <2> QED
    BY <2>1, <2>2, <2>3 DEF Recorded
<1>7. file' \in [KeyIds -> Record]
  <2>1. \A k \in Crypted :
          [secret |-> mapCryptedKeys[k], time |-> mapKeyMetadata[k]] \in Record
    <3> TAKE k \in Crypted
    <3>1. k \in KeyIds
      BY DEF Crypted
    <3>2. mapCryptedKeys[k] \in MasterKeys \cup {NoKey, Plain}
      BY <3>1 DEF IInv, TypeOK
    <3>3. mapKeyMetadata[k] \in Times
      BY <3>1 DEF IInv, TypeOK
    <3> QED
      BY <3>2, <3>3 DEF Record
  <2>2. \A k \in KeyIds : file[k] \in Record
    BY DEF IInv, TypeOK
  <2> QED
    BY <2>1, <2>2 DEF CommitEncryption
<1>8. TypeOK'
  BY <1>2, <1>3, <1>7 DEF IInv, TypeOK, storeVars, metaVars
<1>9. ~HalfEncrypted
  BY <1>1, PositionFacts
  DEF CommitEncryption, IInv, WalletExclusive, HalfEncrypted, HasWallet
<1>10. NeverPlainAndEncrypted' /\ OneMasterKey'
  BY <1>2, <1>6, <1>9
  DEF IInv, NeverPlainAndEncrypted, OneMasterKey, Decrypts, storeVars
<1>11. FileLoads' /\ PromisedKeysRecorded' /\ MemoryMatchesFile'
  BY <1>1, <1>2, <1>5, <1>6
  DEF IInv, FileLoads, PromisedKeysRecorded, MemoryMatchesFile, OneMasterKey,
      storeVars
<1>12. FirstKeyTimeCoversMetadata' /\ FirstKeyTimeCoversFile'
  BY <1>2, <1>5, <1>6
  DEF IInv, FirstKeyTimeCoversMetadata, FirstKeyTimeCoversFile, Crypted,
      metaVars
<1>13. LoadingComesFirst'
  BY <1>2, <1>3 DEF LoadingComesFirst
<1> QED
  BY <1>3, <1>8, <1>10, <1>11, <1>12, <1>13 DEF IInv
-----------------------------------------------------------------------------
LEMMA StutteringStep == ASSUME IInv, UNCHANGED vars PROVE IInv'
<1>1. /\ UNCHANGED storeVars /\ UNCHANGED metaVars /\ UNCHANGED diskVars
      /\ pc' = pc
  BY DEF vars
<1>2. Recorded' = Recorded /\ Crypted' = Crypted
  BY <1>1 DEF Recorded, Crypted, storeVars, diskVars
<1> QED
  BY <1>1, <1>2
  DEF IInv, TypeOK, WalletExclusive, HasWallet, NeverPlainAndEncrypted,
      OneMasterKey, Decrypts, FileLoads, PromisedKeysRecorded,
      MemoryMatchesFile, HalfEncrypted, FirstKeyTimeCoversFile,
      FirstKeyTimeCoversMetadata, LoadingComesFirst, WalletStepSound,
      storeVars, metaVars, diskVars

LEMMA ThreadStep == ASSUME IInv, NEW p \in Threads, Step(p) PROVE IInv'
<1>1. ASSUME NEW b \in BOOLEAN, Lock(p, b) PROVE IInv'
  BY <1>1, LockStep
<1>2. ASSUME NEW mk \in MasterKeys, NEW b \in BOOLEAN, Unlock(p, mk, b)
      PROVE  IInv'
  BY <1>2, UnlockStep
<1>3. ASSUME NEW mk \in MasterKeys, UnlockRefused(p, mk) PROVE IInv'
  BY <1>3, UnlockRefusedStep
<1>4. ASSUME NEW mk \in MasterKeys, EncryptKeys(p, mk) PROVE IInv'
  BY <1>4, EncryptKeysStep
<1>5. ASSUME NEW mk \in MasterKeys, NEW done \in SUBSET mapKeys,
             EncryptKeysFails(p, mk, done)
      PROVE  IInv'
  BY <1>5, EncryptKeysFailsStep
<1>6. ASSUME NEW k \in KeyIds, NEW t \in Times, GenerateKey(p, k, t)
      PROVE  IInv'
  BY <1>6, GenerateKeyStep
<1>7. ASSUME NEW k \in KeyIds, NEW t \in Times, GenerateKeyRefused(p, k, t)
      PROVE  IInv'
  BY <1>7, GenerateKeyRefusedStep
<1>8. ASSUME NEW k \in KeyIds, NEW t \in Times, NEW b \in BOOLEAN,
             GenerateCryptedKey(p, k, t, b)
      PROVE  IInv'
  BY <1>8, GenerateCryptedKeyStep
<1> QED
  BY <1>1, <1>2, <1>3, <1>4, <1>5, <1>6, <1>7, <1>8, ForgetStep, FlagStep,
     WriteKeyStep, WriteKeyFailsStep, CommitStep
  DEF Step

LEMMA IInvHolds == Spec => []IInv
<1>1. Init => IInv
  BY InitIInv
<1>2. IInv /\ [Next]_vars => IInv'
  BY ThreadStep, LoadStep, RestartStep, StutteringStep DEF Next
<1> QED
  BY <1>1, <1>2, PTL DEF Spec

(* The store's and the wallet's state is well typed.                       *)
THEOREM TypeCorrect == Spec => []TypeOK
<1>1. IInv => TypeOK
  BY DEF IInv
<1> QED
  BY <1>1, IInvHolds, PTL

(* However calls interleave and wherever the process stops, the store is   *)
(* plain or encrypted, never both, but after an EncryptKeys that failed;   *)
(* and all encrypted keys are under one master key, so that the assertion  *)
(* in Unlock is never reached, and one tried on one key opens all.         *)
THEOREM KeysStayOfOneKind == Spec => []KeysOfOneKind
<1>1. IInv => KeysOfOneKind
  BY DEF IInv, KeysOfOneKind
<1> QED
  BY <1>1, IInvHolds, PTL

(* No key that GenerateNewKey has returned is ever missing from the file.  *)
THEOREM ReturnedKeysSurvive == Spec => []PromisedKeysRecorded
<1>1. IInv => PromisedKeysRecorded
  BY DEF IInv
<1> QED
  BY <1>1, IInvHolds, PTL

(* Memory and file agree on every loaded key.                              *)
THEOREM MemoryAgreesWithFile == Spec => []MemoryMatchesFile
<1>1. IInv => MemoryMatchesFile
  BY DEF IInv
<1> QED
  BY <1>1, IInvHolds, PTL

(* So each returned key is where GetKey looks for it.                      *)
THEOREM ReturnedKeysAreFound == Spec => []PromisedKeysFound
<1>1. IInv => PromisedKeysFound
  <2> SUFFICES ASSUME IInv, loading = {}, ~HalfEncrypted, NEW k \in promised
               PROVE  k \in (IF fUseCrypto THEN Crypted ELSE mapKeys)
    BY DEF PromisedKeysFound
  <2>1. k \in Recorded /\ k \in KeyIds /\ file[k].secret # NoKey
    BY DEF IInv, PromisedKeysRecorded, Recorded
  <2>2. CASE file[k].secret = mapCryptedKeys[k]
    BY <2>1, <2>2 DEF IInv, NeverPlainAndEncrypted, Crypted
  <2>3. CASE file[k].secret # mapCryptedKeys[k]
    BY <2>1, <2>3
    DEF IInv, MemoryMatchesFile, NeverPlainAndEncrypted, Recorded
  <2> QED
    BY <2>2, <2>3
<1> QED
  BY <1>1, IInvHolds, PTL

(* The time a rescan starts from is no later than any loaded key's.        *)
THEOREM FirstKeyTimeIsFirst == Spec => []FirstKeyTimeCoversFile
<1>1. IInv => FirstKeyTimeCoversFile
  BY DEF IInv
<1> QED
  BY <1>1, IInvHolds, PTL

-----------------------------------------------------------------------------
(* The Berkeley DB environment.  A count may be too high after the         *)
(* configuration of a mock database failed, and then keeps the environment *)
(* from being closed; so a closed one counts nothing, and the next one     *)
(* starts with counts that are true.                                       *)
HandlesAccounted ==
  /\ mapDb \subseteq DOMAIN mapFileUseCount
  /\ ~fDbEnvInit => DOMAIN mapFileUseCount = {}
  /\ fDbEnvInit /\ ~fMockDb => dbenv = "open"
  /\ \A f \in Files : UsersOf(f) # {} => f \in mapDb

CountsAccounted ==
  \A f \in Files :
    /\ Cardinality(UsersOf(f)) <= Count(f)
    /\ ~fMockDb => Cardinality(UsersOf(f)) = Count(f)

Owns(u, t) ==
  InTxn(u) /\ cdb[u].activeTxn = t /\ cdb[u].file = txns[t].file

(* An open transaction has an owner, no two objects have the same one, and *)
(* none has one that has ended.                                            *)
TxnsAccounted ==
  /\ \A t \in DOMAIN txns : \E u \in Users : Owns(u, t)
  /\ \A u, v \in Users : InTxn(u) /\ InTxn(v) /\ u # v =>
       cdb[u].activeTxn # cdb[v].activeTxn
  /\ \A u \in Users : InTxn(u) => cdb[u].activeTxn \in DOMAIN txns

DbInv == DbTypeOK /\ HandlesAccounted /\ CountsAccounted /\ TxnsAccounted

(* The invariant says what the run checks.                                 *)
LEMMA UsersFinite ==
  ASSUME NEW S \in SUBSET Users
  PROVE  IsFiniteSet(S) /\ Cardinality(S) \in Nat
BY UsersAssumption, FS_Subset, FS_CardinalityType

LEMMA DbInvImplies == DbInv => UsesAccountedFor
<1> SUFFICES ASSUME DbInv PROVE UsesAccountedFor
  OBVIOUS
<1> USE DEF DbInv
<1>1. UseCountIsUsers
  BY DEF CountsAccounted, UseCountIsUsers
<1>2. HandleOpenWhileUsed
  BY DEF HandlesAccounted, HandleOpenWhileUsed
<1>3. TxnsAreOwned
  <2>1. ASSUME NEW t \in DOMAIN txns
        PROVE  Cardinality({u \in Users : InTxn(u) /\ cdb[u].activeTxn = t
                              /\ cdb[u].file = txns[t].file}) = 1
    <3>1. PICK u \in Users : Owns(u, t)
      BY DEF TxnsAccounted
    <3>2. {v \in Users : InTxn(v) /\ cdb[v].activeTxn = t
                           /\ cdb[v].file = txns[t].file} = {u}
      BY <3>1 DEF TxnsAccounted, Owns
    <3> QED
      BY <3>2, FS_Singleton
  <2> QED
    BY <2>1 DEF TxnsAreOwned, TxnsAccounted
<1> QED
  BY <1>1, <1>2, <1>3 DEF UsesAccountedFor

-----------------------------------------------------------------------------
(* What a step does to counts and users.                                   *)
LEMMA SetCountFacts ==
  ASSUME DbTypeOK, NEW f \in Files, NEW n \in Nat, SetCount(f, n)
  PROVE  /\ DOMAIN mapFileUseCount' = DOMAIN mapFileUseCount \cup {f}
         /\ DOMAIN mapFileUseCount' \subseteq Files
         /\ \A g \in DOMAIN mapFileUseCount' : mapFileUseCount'[g] \in Nat
         /\ Count(f)' = n
         /\ \A g \in Files \ {f} : Count(g)' = Count(g)
BY DEF DbTypeOK, SetCount, Count, Entry

LEMMA CountType ==
  ASSUME DbTypeOK, NEW f \in Files
  PROVE  Count(f) \in Nat
BY DEF DbTypeOK, Count, Entry

LEMMA UserComes ==
  ASSUME DbTypeOK, NEW u \in Users, NEW f \in Files, NEW ro \in BOOLEAN,
         cdb[u] = NULL, Holding(u, f, ro)
  PROVE  /\ cdb' \in [Users -> Objects \cup {NULL}]
         /\ cdb'[u] # NULL /\ cdb'[u].file = f /\ cdb'[u].activeTxn = NULL
         /\ \A v \in Users \ {u} : cdb'[v] = cdb[v]
         /\ u \in UsersOf(f)'
         /\ Cardinality(UsersOf(f)') = Cardinality(UsersOf(f)) + 1
         /\ \A g \in Files \ {f} : UsersOf(g)' = UsersOf(g)
<1> DEFINE o == [file |-> f, fReadOnly |-> ro, activeTxn |-> NULL]
<1>1. o \in Objects /\ o # NULL
  BY NullAssumption DEF Objects
<1>2. /\ cdb' \in [Users -> Objects \cup {NULL}]
      /\ cdb'[u] = o
      /\ \A v \in Users \ {u} : cdb'[v] = cdb[v]
  BY <1>1 DEF DbTypeOK, Holding
<1>3. UsersOf(f)' = UsersOf(f) \cup {u} /\ u \notin UsersOf(f)
  BY <1>1, <1>2 DEF UsersOf
<1>4. Cardinality(UsersOf(f)') = Cardinality(UsersOf(f)) + 1
  <2>1. IsFiniteSet(UsersOf(f))
    BY UsersFinite DEF UsersOf
  <2> QED
    BY <1>3, <2>1, FS_AddElement
<1>5. \A g \in Files \ {f} : UsersOf(g)' = UsersOf(g)
  BY <1>1, <1>2 DEF UsersOf
<1> QED
  BY <1>1, <1>2, <1>3, <1>4, <1>5

(* A constructor finds an environment that is open, and the counts of the  *)
(* last one true or gone.                                                  *)
LEMMA EnvReadyFacts ==
  ASSUME DbInv, EnvReady
  PROVE  /\ fDbEnvInit' /\ fMockDb' \in BOOLEAN
         /\ fDbEnvInit' \in BOOLEAN
         /\ dbenv' \in {"fresh", "open", "failed", "closed"}
         /\ ~fMockDb' => dbenv' = "open"
         /\ ~fMockDb' => \A f \in Files : Cardinality(UsersOf(f)) = Count(f)
<1>1. CASE fDbEnvInit
  BY <1>1 DEF EnvReady, env, DbInv, HandlesAccounted, CountsAccounted, DbTypeOK
<1>2. CASE ~fDbEnvInit
  <2>1. ASSUME NEW f \in Files PROVE Cardinality(UsersOf(f)) = Count(f)
    <3>1. Count(f) = 0 /\ Cardinality(UsersOf(f)) <= Count(f)
      BY <1>2 DEF DbInv, HandlesAccounted, CountsAccounted, Count, Entry
    <3>2. Cardinality(UsersOf(f)) \in Nat
      BY UsersFinite DEF UsersOf
    <3> QED
      BY <3>1, <3>2
  <2> QED
    BY <1>2, <2>1 DEF EnvReady, DbInv, DbTypeOK
<1> QED
  BY <1>1, <1>2

(* Transactions are none of the concern of a step that keeps activeTxn.    *)
LEMMA SameTxns ==
  ASSUME TxnsAccounted, UNCHANGED txns,
         \A u \in Users :
           IF InTxn(u) THEN cdb'[u] = cdb[u]
           ELSE cdb'[u] = NULL \/ cdb'[u].activeTxn = NULL
  PROVE  TxnsAccounted'
BY DEF TxnsAccounted, Owns, InTxn

-----------------------------------------------------------------------------
LEMMA NoDomain == DOMAIN << >> = {}
OBVIOUS

LEMMA DbInitInv == DbInit => DbInv
<1> SUFFICES ASSUME DbInit PROVE DbInv
  OBVIOUS
<1> USE DEF DbInit
<1>1. DbTypeOK
  BY NoDomain DEF DbTypeOK
<1>2. \A f \in Files : UsersOf(f) = {}
  BY DEF UsersOf
<1>3. \A f \in Files : Cardinality(UsersOf(f)) = Count(f)
  BY <1>2, FS_EmptySet, NoDomain DEF Count, Entry
<1>4. CountsAccounted
  BY <1>3, CountType, <1>1 DEF CountsAccounted
<1>5. TxnsAccounted
  BY NoDomain DEF TxnsAccounted, InTxn
<1> QED
  BY <1>1, <1>2, <1>4, <1>5, NoDomain DEF DbInv, HandlesAccounted

(* A crash leaves what a start does, but for the files.                    *)
LEMMA CrashKeeps == DbInv /\ Crash => DbInv'
<1> SUFFICES ASSUME DbInv, Crash PROVE DbInv'
  OBVIOUS
<1> USE DEF Crash
<1>1. DbTypeOK'
  BY NoDomain DEF DbTypeOK, DbInv
<1>2. \A f \in Files : UsersOf(f)' = {}
  BY DEF UsersOf
<1>3. \A f \in Files : Cardinality(UsersOf(f)') = Count(f)'
  BY <1>2, FS_EmptySet, NoDomain DEF Count, Entry
<1>4. CountsAccounted'
  BY <1>2, <1>3, FS_EmptySet DEF CountsAccounted
<1>5. TxnsAccounted'
  BY NoDomain DEF TxnsAccounted, InTxn
<1> QED
  BY <1>1, <1>2, <1>4, <1>5, NoDomain DEF DbInv, HandlesAccounted

(* The steps of the environment and of constructors that throw before a    *)
(* use is counted.                                                         *)
LEMMA EnvironmentKeeps ==
  ASSUME DbInv,
         \/ Reset \/ MakeMock \/ EnvShutdown
         \/ \E u \in Users : EnvNotReady(u)
  PROVE  DbInv'
<1>1. UNCHANGED <<mapFileUseCount, mapDb, cdb, txns, disk>>
  BY DEF Reset, MakeMock, EnvShutdown, EnvNotReady
<1>2. DbTypeOK'
  BY <1>1 DEF DbInv, DbTypeOK, Reset, MakeMock, EnvShutdown, EnvNotReady,
              AfterOpen
<1>3. \A f \in Files : UsersOf(f)' = UsersOf(f) /\ Count(f)' = Count(f)
  BY <1>1 DEF UsersOf, Count, Entry
<1>4. /\ ~fDbEnvInit' => DOMAIN mapFileUseCount' = {}
      /\ fDbEnvInit' /\ ~fMockDb' => dbenv' = "open"
      /\ ~fMockDb' => ~fMockDb \/ DOMAIN mapFileUseCount' = {}
  BY <1>1 DEF DbInv, HandlesAccounted, Reset, MakeMock, EnvShutdown,
              EnvNotReady, AfterOpen
<1>5. HandlesAccounted'
  BY <1>1, <1>3, <1>4 DEF DbInv, HandlesAccounted
<1>6. CountsAccounted'
  <2>1. SUFFICES ASSUME NEW f \in Files, DOMAIN mapFileUseCount = {}
                 PROVE  Cardinality(UsersOf(f)) = Count(f)
    BY <1>1, <1>3, <1>4 DEF DbInv, CountsAccounted
  <2>2. Count(f) = 0 /\ Cardinality(UsersOf(f)) <= Count(f)
    BY <2>1 DEF DbInv, CountsAccounted, Count, Entry
  <2>3. Cardinality(UsersOf(f)) \in Nat
    BY UsersFinite DEF UsersOf
  <2> QED
    BY <2>2, <2>3
<1>7. TxnsAccounted'
  BY <1>1, SameTxns DEF DbInv, InTxn
<1> QED
  BY <1>2, <1>5, <1>6, <1>7 DEF DbInv

(* An object comes, whether it shares the handle or opens it.              *)
LEMMA ConstructKeeps ==
  ASSUME DbInv, NEW u \in Users, NEW f \in Files, NEW ro \in BOOLEAN,
         NEW create \in BOOLEAN,
         Share(u, f, ro) \/ OpenFile(u, f, ro, create)
  PROVE  DbInv'
<1>1. /\ cdb[u] = NULL /\ EnvReady /\ Holding(u, f, ro)
      /\ SetCount(f, Count(f) + 1) /\ UNCHANGED txns
      /\ mapDb' = mapDb \cup {f}
  BY DEF Share, OpenFile
<1>2. DbTypeOK /\ Count(f) \in Nat /\ Count(f) + 1 \in Nat
  BY CountType DEF DbInv
<1>3. DbTypeOK'
  <2>1. disk' \in [Files -> SUBSET Keys]
    BY KeysAssumption DEF DbInv, DbTypeOK, Share, OpenFile
  <2>2. cdb' \in [Users -> Objects \cup {NULL}]
    BY <1>1, <1>2, UserComes
  <2>3. /\ DOMAIN mapFileUseCount' \subseteq Files
        /\ \A g \in DOMAIN mapFileUseCount' : mapFileUseCount'[g] \in Nat
    BY <1>1, <1>2, SetCountFacts
  <2>4. /\ fDbEnvInit' \in BOOLEAN /\ fMockDb' \in BOOLEAN
        /\ dbenv' \in {"fresh", "open", "failed", "closed"}
    BY <1>1, EnvReadyFacts
  <2> QED
    BY <1>1, <1>2, <2>1, <2>2, <2>3, <2>4 DEF DbTypeOK
<1>4. HandlesAccounted'
  <2>1. \A g \in Files : UsersOf(g)' # {} => g \in mapDb'
    BY <1>1, <1>2, UserComes DEF DbInv, HandlesAccounted
  <2> QED
    BY <1>1, <1>2, <2>1, EnvReadyFacts, SetCountFacts
       DEF DbInv, HandlesAccounted
<1>5. CountsAccounted'
  <2>1. \A g \in Files :
          /\ Cardinality(UsersOf(g)) \in Nat /\ Count(g) \in Nat
          /\ Cardinality(UsersOf(g)) <= Count(g)
          /\ ~fMockDb' => Cardinality(UsersOf(g)) = Count(g)
    BY <1>1, <1>2, UsersFinite, CountType, EnvReadyFacts
       DEF UsersOf, DbInv, CountsAccounted
  <2>2. /\ Cardinality(UsersOf(f)') = Cardinality(UsersOf(f)) + 1
        /\ Count(f)' = Count(f) + 1
    BY <1>1, <1>2, UserComes, SetCountFacts
  <2>3. \A g \in Files \ {f} : UsersOf(g)' = UsersOf(g) /\ Count(g)' = Count(g)
    BY <1>1, <1>2, UserComes, SetCountFacts
  <2> QED
    BY <2>1, <2>2, <2>3 DEF CountsAccounted
<1>6. TxnsAccounted'
  BY <1>1, <1>2, UserComes, SameTxns DEF DbInv, InTxn
<1> QED
  BY <1>3, <1>4, <1>5, <1>6 DEF DbInv

(* A constructor throws: the use is taken back, but that of a mock         *)
(* database.                                                               *)
LEMMA ConstructFailsKeeps ==
  ASSUME DbInv, NEW u \in Users, NEW f \in Files,
         OpenFileFails(u, f) \/ ConfigureMockFails(u, f)
  PROVE  DbInv'
<1>1. DbTypeOK /\ Count(f) \in Nat /\ Count(f) + 1 \in Nat
  BY CountType DEF DbInv
<1>2. PICK n \in {Count(f), Count(f) + 1} :
        /\ SetCount(f, n) /\ (~fMockDb' => n = Count(f))
        /\ EnvReady /\ UNCHANGED <<mapDb, cdb, txns, disk>>
  BY DEF OpenFileFails, ConfigureMockFails
<1>3. n \in Nat /\ n >= Count(f)
  BY <1>1
<1>4. DbTypeOK'
  BY <1>1, <1>2, <1>3, EnvReadyFacts, SetCountFacts DEF DbTypeOK
<1>5. \A g \in Files : UsersOf(g)' = UsersOf(g)
  BY <1>2 DEF UsersOf
<1>6. HandlesAccounted'
  BY <1>1, <1>2, <1>3, <1>5, EnvReadyFacts, SetCountFacts
     DEF DbInv, HandlesAccounted
<1>7. CountsAccounted'
  <2>1. \A g \in Files :
          /\ Cardinality(UsersOf(g)) \in Nat /\ Count(g) \in Nat
          /\ Cardinality(UsersOf(g)) <= Count(g)
          /\ ~fMockDb' => Cardinality(UsersOf(g)) = Count(g)
    BY <1>1, <1>2, UsersFinite, CountType, EnvReadyFacts
       DEF UsersOf, DbInv, CountsAccounted
  <2>2. Count(f)' = n /\ \A g \in Files \ {f} : Count(g)' = Count(g)
    BY <1>1, <1>2, <1>3, SetCountFacts
  <2> QED
    BY <1>2, <1>3, <1>5, <2>1, <2>2 DEF CountsAccounted
<1>8. TxnsAccounted'
  BY <1>2, SameTxns DEF DbInv, InTxn
<1> QED
  BY <1>4, <1>6, <1>7, <1>8 DEF DbInv

(* Records, which touch no object and no count.                            *)
LEMMA PutKeeps ==
  ASSUME DbInv, NEW u \in Users, NEW k \in Keys, NEW written \in BOOLEAN,
         cdb[u] # NULL, Put(u, k, written)
  PROVE  DbInv'
<1> DEFINE t == cdb[u].activeTxn
           f == cdb[u].file
<1>1. DbTypeOK /\ cdb[u] \in Objects
  BY DEF DbInv, DbTypeOK
<1>2. f \in Files /\ t \in Txns \cup {NULL}
  BY <1>1 DEF Objects
<1>3. UNCHANGED <<env, mapFileUseCount, mapDb, cdb>>
  BY DEF Put
<1>4. t # NULL => t \in DOMAIN txns
  BY DEF DbInv, TxnsAccounted, InTxn
<1>5. /\ DOMAIN txns' = DOMAIN txns
      /\ \A x \in DOMAIN txns :
           /\ txns'[x].file = txns[x].file
           /\ txns'[x] \in [file : Files, written : SUBSET Keys,
                            erased : SUBSET Keys]
  BY <1>1, <1>4 DEF Put, DbTypeOK
<1>6. disk' \in [Files -> SUBSET Keys]
  BY <1>1, <1>2 DEF Put, DbTypeOK
<1>7. DbTypeOK'
  BY <1>1, <1>3, <1>5, <1>6 DEF DbTypeOK, env
<1>8. HandlesAccounted' /\ CountsAccounted'
  BY <1>3 DEF DbInv, HandlesAccounted, CountsAccounted, UsersOf, Count, Entry,
              env
<1>9. TxnsAccounted'
  BY <1>3, <1>5 DEF DbInv, TxnsAccounted, Owns, InTxn
<1> QED
  BY <1>7, <1>8, <1>9 DEF DbInv

(* A step of an object that changes its activeTxn only.                    *)
LEMMA SameUsers ==
  ASSUME DbInv, NEW u \in Users, cdb[u] # NULL, NEW x \in Txns \cup {NULL},
         cdb' = [cdb EXCEPT ![u].activeTxn = x],
         UNCHANGED <<env, mapFileUseCount, mapDb>>
  PROVE  /\ cdb' \in [Users -> Objects \cup {NULL}]
         /\ cdb'[u] # NULL /\ cdb'[u].file = cdb[u].file
         /\ cdb'[u].activeTxn = x
         /\ \A v \in Users \ {u} : cdb'[v] = cdb[v]
         /\ HandlesAccounted' /\ CountsAccounted'
<1>1. cdb \in [Users -> Objects \cup {NULL}] /\ cdb[u] \in Objects
  BY DEF DbInv, DbTypeOK
<1>2. /\ cdb'[u] = [cdb[u] EXCEPT !.activeTxn = x]
      /\ \A v \in Users \ {u} : cdb'[v] = cdb[v]
      /\ DOMAIN cdb' = Users
  BY <1>1
<1>3. /\ [cdb[u] EXCEPT !.activeTxn = x] \in Objects
      /\ [cdb[u] EXCEPT !.activeTxn = x].file = cdb[u].file
      /\ [cdb[u] EXCEPT !.activeTxn = x].activeTxn = x
  BY <1>1 DEF Objects
<1>4. /\ cdb' \in [Users -> Objects \cup {NULL}]
      /\ cdb'[u] # NULL /\ cdb'[u].file = cdb[u].file
      /\ cdb'[u].activeTxn = x
  <2>1. cdb' \in [Users -> Objects \cup {NULL}]
    BY <1>1, <1>2, <1>3
  <2> QED
    BY <1>2, <1>3, <2>1, NullAssumption
<1>5. \A g \in Files : UsersOf(g)' = UsersOf(g)
  BY <1>2, <1>4 DEF UsersOf
<1>6. HandlesAccounted' /\ CountsAccounted'
  BY <1>5 DEF DbInv, HandlesAccounted, CountsAccounted, Count, Entry, env
<1> QED
  BY <1>2, <1>4, <1>6

LEMMA TxnBeginKeeps ==
  ASSUME DbInv, NEW u \in Users, NEW t \in Txns, TxnBegin(u, t)
  PROVE  DbInv'
<1> USE DEF TxnBegin
<1>1. /\ cdb' \in [Users -> Objects \cup {NULL}]
      /\ cdb'[u] # NULL /\ cdb'[u].file = cdb[u].file
      /\ cdb'[u].activeTxn = t
      /\ \A v \in Users \ {u} : cdb'[v] = cdb[v]
      /\ HandlesAccounted' /\ CountsAccounted'
  BY SameUsers
<1>2. cdb[u].file \in Files /\ t # NULL
  BY NullAssumption DEF DbInv, DbTypeOK, Objects
<1>3. /\ DOMAIN txns' = DOMAIN txns \cup {t}
      /\ txns'[t] = [file |-> cdb[u].file, written |-> {}, erased |-> {}]
      /\ \A x \in DOMAIN txns : txns'[x] = txns[x]
  OBVIOUS
<1>4. DbTypeOK'
  BY <1>1, <1>2, <1>3 DEF DbInv, DbTypeOK, env
<1>5. TxnsAccounted'
  <2>1. \A v \in Users \ {u} : InTxn(v)' <=> InTxn(v)
    BY <1>1 DEF InTxn
  <2>2. InTxn(u)' /\ ~InTxn(u) /\ Owns(u, t)'
    BY <1>1, <1>2, <1>3 DEF InTxn, Owns
  <2>3. \A x \in DOMAIN txns : \E v \in Users : Owns(v, x)'
    <3>1. ASSUME NEW x \in DOMAIN txns, NEW v \in Users, Owns(v, x)
          PROVE  Owns(v, x)'
      <4>1. v # u
        BY <2>2, <3>1 DEF Owns
      <4> QED
        BY <1>1, <1>3, <3>1, <4>1 DEF Owns, InTxn
    <3> QED
      BY <3>1 DEF DbInv, TxnsAccounted
  <2>4. \A x \in DOMAIN txns' : \E v \in Users : Owns(v, x)'
    BY <1>3, <2>2, <2>3
  <2>5. \A v \in Users \ {u} : InTxn(v)' =>
          cdb'[v].activeTxn \in DOMAIN txns /\ cdb'[v].activeTxn # t
    BY <1>1, <2>1 DEF DbInv, TxnsAccounted
  <2> QED
    BY <1>1, <1>3, <2>1, <2>4, <2>5 DEF DbInv, TxnsAccounted
<1> QED
  BY <1>1, <1>4, <1>5 DEF DbInv

(* A transaction ends with its object's, and no other does.                *)
LEMMA TxnEnds ==
  ASSUME DbTypeOK, TxnsAccounted, NEW u \in Users, cdb[u] # NULL,
         txns' = Restrict(txns, DOMAIN txns \ {cdb[u].activeTxn}),
         cdb'[u] = NULL \/ cdb'[u].activeTxn = NULL,
         \A v \in Users \ {u} : cdb'[v] = cdb[v]
  PROVE  /\ TxnsAccounted'
         /\ DOMAIN txns' \subseteq Txns
         /\ \A t \in DOMAIN txns' : txns'[t] \in
              [file : Files, written : SUBSET Keys, erased : SUBSET Keys]
<1>1. /\ DOMAIN txns' = DOMAIN txns \ {cdb[u].activeTxn}
      /\ \A x \in DOMAIN txns' : txns'[x] = txns[x]
  BY DEF Restrict
<1>2. ~InTxn(u)' /\ \A v \in Users \ {u} : InTxn(v)' <=> InTxn(v)
  BY DEF InTxn
<1>3. \A x \in DOMAIN txns' : \E v \in Users : Owns(v, x)'
  <2>1. ASSUME NEW x \in DOMAIN txns', NEW v \in Users, Owns(v, x)
        PROVE  Owns(v, x)'
    <3>1. v # u
      BY <1>1, <2>1 DEF Owns
    <3> QED
      BY <1>1, <2>1, <3>1 DEF Owns, InTxn
  <2> QED
    BY <1>1, <2>1 DEF TxnsAccounted
<1>4. \A v \in Users \ {u} : InTxn(v) => cdb[v].activeTxn \in DOMAIN txns'
  <2>1. SUFFICES ASSUME NEW v \in Users \ {u}, InTxn(v)
                 PROVE  cdb[v].activeTxn # cdb[u].activeTxn
    BY <1>1 DEF TxnsAccounted
  <2>2. CASE cdb[u].activeTxn = NULL
    BY <2>1, <2>2 DEF InTxn
  <2>3. CASE InTxn(u)
    BY <2>1, <2>3 DEF TxnsAccounted
  <2> QED
    BY <2>2, <2>3 DEF InTxn
<1>5. TxnsAccounted'
  BY <1>2, <1>3, <1>4 DEF TxnsAccounted
<1> QED
  BY <1>1, <1>5 DEF DbTypeOK

LEMMA TxnEndKeeps ==
  ASSUME DbInv, NEW u \in Users, TxnCommit(u) \/ TxnAbort(u)
  PROVE  DbInv'
<1>1. InTxn(u) /\ EndTxn(u)
  BY DEF TxnCommit, TxnAbort
<1>2. /\ cdb' \in [Users -> Objects \cup {NULL}]
      /\ cdb'[u].activeTxn = NULL
      /\ \A v \in Users \ {u} : cdb'[v] = cdb[v]
      /\ HandlesAccounted' /\ CountsAccounted'
  BY <1>1, SameUsers DEF EndTxn, InTxn
<1>3. /\ TxnsAccounted'
      /\ DOMAIN txns' \subseteq Txns
      /\ \A t \in DOMAIN txns' : txns'[t] \in
           [file : Files, written : SUBSET Keys, erased : SUBSET Keys]
  BY <1>1, <1>2, TxnEnds DEF EndTxn, InTxn, DbInv
<1>4. disk' \in [Files -> SUBSET Keys]
  <2>1. cdb[u].activeTxn \in DOMAIN txns
    BY <1>1 DEF DbInv, TxnsAccounted
  <2> QED
    BY <2>1 DEF DbInv, DbTypeOK, TxnCommit, TxnAbort
<1>5. DbTypeOK'
  BY <1>1, <1>2, <1>3, <1>4 DEF DbInv, DbTypeOK, EndTxn, env
<1> QED
  BY <1>2, <1>3, <1>5 DEF DbInv

LEMMA CloseKeeps ==
  ASSUME DbInv, NEW u \in Users, Close(u)
  PROVE  DbInv'
<1> USE DEF Close
<1>0. PICK f \in Files : f = cdb[u].file
  BY DEF DbInv, DbTypeOK, Objects
<1>1. /\ DbTypeOK /\ cdb \in [Users -> Objects \cup {NULL}]
      /\ cdb[u] \in Objects
  BY DEF DbInv, DbTypeOK
<1>2. /\ cdb' \in [Users -> Objects \cup {NULL}]
      /\ cdb'[u] = NULL /\ \A v \in Users \ {u} : cdb'[v] = cdb[v]
  BY <1>1
<1>3. /\ u \in UsersOf(f) /\ UsersOf(f)' = UsersOf(f) \ {u}
      /\ \A g \in Files \ {f} : UsersOf(g)' = UsersOf(g)
  BY <1>0, <1>1, <1>2 DEF UsersOf
<1>4. /\ Cardinality(UsersOf(f)') = Cardinality(UsersOf(f)) - 1
      /\ Cardinality(UsersOf(f)) \in Nat \ {0}
  <2>1. IsFiniteSet(UsersOf(f)) /\ Cardinality(UsersOf(f)) \in Nat
    BY UsersFinite DEF UsersOf
  <2> QED
    BY <1>3, <2>1, FS_RemoveElement, FS_EmptySet
<1>5. /\ Count(f) \in Nat /\ Count(f) - 1 \in Nat
      /\ Cardinality(UsersOf(f)) <= Count(f)
  BY <1>1, <1>4, CountType DEF DbInv, CountsAccounted
<1>6. /\ DOMAIN mapFileUseCount' = DOMAIN mapFileUseCount \cup {f}
      /\ DOMAIN mapFileUseCount' \subseteq Files
      /\ \A g \in DOMAIN mapFileUseCount' : mapFileUseCount'[g] \in Nat
      /\ Count(f)' = Count(f) - 1
      /\ \A g \in Files \ {f} : Count(g)' = Count(g)
  BY <1>0, <1>1, <1>5, SetCountFacts
<1>7. /\ TxnsAccounted'
      /\ DOMAIN txns' \subseteq Txns
      /\ \A t \in DOMAIN txns' : txns'[t] \in
           [file : Files, written : SUBSET Keys, erased : SUBSET Keys]
  BY <1>1, <1>2, TxnEnds DEF DbInv
<1>8. DbTypeOK'
  BY <1>1, <1>2, <1>6, <1>7 DEF DbTypeOK, env
<1>9. HandlesAccounted'
  <2>1. f \in mapDb /\ f \in DOMAIN mapFileUseCount
    BY <1>1, <1>3 DEF DbInv, HandlesAccounted
  <2>2. \A g \in Files : UsersOf(g)' # {} => g \in mapDb
    BY <1>3, <2>1 DEF DbInv, HandlesAccounted
  <2> QED
    BY <1>6, <2>1, <2>2 DEF DbInv, HandlesAccounted, env
<1>10. CountsAccounted'
  <2>1. /\ Cardinality(UsersOf(f)') <= Count(f)'
        /\ ~fMockDb => Cardinality(UsersOf(f)') = Count(f)'
    BY <1>1, <1>4, <1>5, <1>6 DEF DbInv, CountsAccounted
  <2>2. \A g \in Files \ {f} :
          /\ Cardinality(UsersOf(g)') <= Count(g)'
          /\ ~fMockDb => Cardinality(UsersOf(g)') = Count(g)'
    BY <1>3, <1>6 DEF DbInv, CountsAccounted
  <2> QED
    BY <1>1, <2>1, <2>2 DEF CountsAccounted, env
<1> QED
  BY <1>7, <1>8, <1>9, <1>10 DEF DbInv

LEMMA FlushFileKeeps ==
  ASSUME DbInv, NEW f \in Files, FlushFile(f)
  PROVE  DbInv'
<1> USE DEF FlushFile
<1>1. UNCHANGED <<cdb, txns, disk, fDbEnvInit, fMockDb, dbenv>>
  BY DEF env
<1>2. /\ DOMAIN mapFileUseCount' = DOMAIN mapFileUseCount \ {f}
      /\ \A g \in DOMAIN mapFileUseCount' :
           mapFileUseCount'[g] = mapFileUseCount[g]
  BY DEF Restrict
<1>3. /\ Count(f) = 0 /\ Count(f)' = 0
      /\ \A g \in Files \ {f} : Count(g)' = Count(g)
      /\ \A g \in Files : UsersOf(g)' = UsersOf(g)
  BY <1>1, <1>2 DEF Count, Entry, UsersOf
<1>4. DbTypeOK'
  BY <1>1, <1>2 DEF DbInv, DbTypeOK
<1>5. UsersOf(f) = {}
  <2>1. Cardinality(UsersOf(f)) = 0
    <3>1. Cardinality(UsersOf(f)) \in Nat /\ Cardinality(UsersOf(f)) <= 0
      BY <1>3, UsersFinite DEF UsersOf, DbInv, CountsAccounted
    <3> QED
      BY <3>1
  <2> QED
    BY <2>1, UsersFinite, FS_EmptySet DEF UsersOf
<1>6. HandlesAccounted'
  BY <1>1, <1>2, <1>3, <1>5 DEF DbInv, HandlesAccounted
<1>7. CountsAccounted'
  BY <1>1, <1>3 DEF DbInv, CountsAccounted
<1>8. TxnsAccounted'
  BY <1>1, SameTxns DEF DbInv, InTxn
<1> QED
  BY <1>4, <1>6, <1>7, <1>8 DEF DbInv

LEMMA DbNextKeeps == DbInv /\ [DbNext]_dbVars => DbInv'
<1> SUFFICES ASSUME DbInv, [DbNext]_dbVars PROVE DbInv'
  OBVIOUS
<1>1. CASE UNCHANGED dbVars
  BY <1>1 DEF dbVars, env, DbInv, DbTypeOK, HandlesAccounted, CountsAccounted,
              TxnsAccounted, Owns, InTxn, UsersOf, Count, Entry
<1>2. CASE Crash
  BY <1>2, CrashKeeps
<1>3. CASE Reset \/ MakeMock \/ EnvShutdown \/ \E u \in Users : EnvNotReady(u)
  BY <1>3, EnvironmentKeeps
<1>4. ASSUME NEW u \in Users, NEW f \in Files, NEW ro \in BOOLEAN,
             NEW create \in BOOLEAN,
             Share(u, f, ro) \/ OpenFile(u, f, ro, create)
      PROVE  DbInv'
  BY <1>4, ConstructKeeps
<1>5. ASSUME NEW u \in Users, NEW f \in Files,
             OpenFileFails(u, f) \/ ConfigureMockFails(u, f)
      PROVE  DbInv'
  BY <1>5, ConstructFailsKeeps
<1>6. ASSUME NEW u \in Users, NEW k \in Keys,
             (\E over \in BOOLEAN : Write(u, k, over)) \/ Erase(u, k)
      PROVE  DbInv'
  BY <1>6, PutKeeps DEF Write, Erase
<1>7. ASSUME NEW u \in Users, NEW t \in Txns, TxnBegin(u, t)
      PROVE  DbInv'
  BY <1>7, TxnBeginKeeps
<1>8. ASSUME NEW u \in Users, TxnCommit(u) \/ TxnAbort(u)
      PROVE  DbInv'
  BY <1>8, TxnEndKeeps
<1>9. ASSUME NEW u \in Users, Close(u)
      PROVE  DbInv'
  BY <1>9, CloseKeeps
<1>10. ASSUME NEW f \in Files, FlushFile(f)
       PROVE  DbInv'
  BY <1>10, FlushFileKeeps
<1> QED
  BY <1>1, <1>2, <1>3, <1>4, <1>5, <1>6, <1>7, <1>8, <1>9, <1>10 DEF DbNext

(* Whatever constructors fail and whatever is closed, shut down or crashes *)
(* in between, the counts of the environment are those of its users, the   *)
(* handles in use are open, and each open transaction has one owner.       *)
THEOREM UsesAlwaysAccountedFor == DbSpec => []UsesAccountedFor
<1>1. DbInv /\ [DbNext]_dbVars => DbInv'
  BY DbNextKeeps
<1> QED
  BY DbInitInv, DbInvImplies, <1>1, PTL DEF DbSpec

-----------------------------------------------------------------------------
(* A step that changes a file.  The user of a transaction that is open     *)
(* keeps the file's handle open, so a file that is opened has none.        *)
LEMMA RecordChangesOne ==
  ASSUME DbInv, NEW u \in Users, NEW k \in Keys, NEW written \in BOOLEAN,
         cdb[u] # NULL, Put(u, k, written), NEW f \in Files, disk'[f] # disk[f]
  PROVE  /\ disk'[f] \ {k} = disk[f] \ {k}
         /\ \A t \in DOMAIN txns : txns[t].file = f =>
              k \notin txns[t].written \cup txns[t].erased
<1>1. cdb[u] \in Objects /\ disk \in [Files -> SUBSET Keys]
  BY DEF DbInv, DbTypeOK
<1>2. /\ cdb[u].activeTxn = NULL /\ ~Locked(u, k)
      /\ disk' = [disk EXCEPT ![cdb[u].file] = IF written THEN @ \cup {k}
                                                          ELSE @ \ {k}]
  BY DEF Put
<1>3. cdb[u].file = f /\ disk'[f] \ {k} = disk[f] \ {k}
  BY <1>1, <1>2 DEF Objects
<1>4. \A t \in DOMAIN txns : t # NULL
  BY NullAssumption DEF DbInv, DbTypeOK
<1> QED
  BY <1>2, <1>3, <1>4 DEF Locked

LEMMA OpeningChangesOne ==
  ASSUME DbInv, NEW u \in Users, NEW f \in Files, NEW ro \in BOOLEAN,
         NEW create \in BOOLEAN, OpenFile(u, f, ro, create),
         NEW g \in Files, disk'[g] # disk[g]
  PROVE  /\ disk'[g] \ {"version"} = disk[g] \ {"version"}
         /\ \A t \in DOMAIN txns : txns[t].file # g
<1>1. disk \in [Files -> SUBSET Keys]
  BY DEF DbInv, DbTypeOK
<1>2. f = g /\ disk'[g] \ {"version"} = disk[g] \ {"version"}
  BY <1>1 DEF OpenFile
<1>3. ASSUME NEW t \in DOMAIN txns, txns[t].file = g PROVE FALSE
  <2>1. PICK v \in Users : Owns(v, t)
    BY DEF DbInv, TxnsAccounted
  <2>2. v \in UsersOf(g)
    BY <1>3, <2>1 DEF Owns, InTxn, UsersOf
  <2> QED
    BY <1>2, <2>2 DEF OpenFile, DbInv, HandlesAccounted
<1> QED
  BY <1>2, <1>3

LEMMA CommitChangesWhole ==
  ASSUME DbInv, NEW u \in Users, TxnCommit(u), NEW f \in Files,
         disk'[f] # disk[f]
  PROVE  \E t \in DOMAIN txns \ DOMAIN txns' :
            /\ txns[t].file = f
            /\ disk'[f] = (disk[f] \cup txns[t].written) \ txns[t].erased
<1> DEFINE t == cdb[u].activeTxn
<1>1. /\ t \in DOMAIN txns /\ DOMAIN txns' = DOMAIN txns \ {t}
      /\ disk \in [Files -> SUBSET Keys]
  BY DEF TxnCommit, EndTxn, Restrict, DbInv, DbTypeOK, TxnsAccounted
<1>2. disk' = [disk EXCEPT ![txns[t].file] = (@ \cup txns[t].written)
                                               \ txns[t].erased]
  BY DEF TxnCommit
<1> QED
  BY <1>1, <1>2

FileChangesWhole(f) ==
  \/ \E k \in Keys :
       /\ disk'[f] \ {k} = disk[f] \ {k}
       /\ \A t \in DOMAIN txns : txns[t].file = f =>
            k \notin txns[t].written \cup txns[t].erased
  \/ \E t \in DOMAIN txns \ DOMAIN txns' :
       /\ txns[t].file = f
       /\ disk'[f] = (disk[f] \cup txns[t].written) \ txns[t].erased

LEMMA StepChangesWhole ==
  ASSUME DbInv, DbNext, NEW f \in Files, disk'[f] # disk[f]
  PROVE  FileChangesWhole(f)
<1>1. \/ \E u \in Users, g \in Files, ro, create \in BOOLEAN :
           OpenFile(u, g, ro, create)
      \/ \E u \in Users, k \in Keys, written \in BOOLEAN :
           cdb[u] # NULL /\ Put(u, k, written)
      \/ \E u \in Users : TxnCommit(u)
  BY DEF DbNext, Reset, MakeMock, EnvShutdown, EnvNotReady, Crash, Share,
         OpenFileFails, ConfigureMockFails, Write, Erase, TxnBegin, TxnAbort,
         Close, FlushFile
<1>2. ASSUME NEW u \in Users, NEW g \in Files, NEW ro \in BOOLEAN,
             NEW create \in BOOLEAN, OpenFile(u, g, ro, create)
      PROVE  FileChangesWhole(f)
  BY <1>2, OpeningChangesOne, KeysAssumption DEF FileChangesWhole
<1>3. ASSUME NEW u \in Users, NEW k \in Keys, NEW written \in BOOLEAN,
             cdb[u] # NULL, Put(u, k, written)
      PROVE  FileChangesWhole(f)
  BY <1>3, RecordChangesOne DEF FileChangesWhole
<1>4. ASSUME NEW u \in Users, TxnCommit(u)
      PROVE  FileChangesWhole(f)
  BY <1>4, CommitChangesWhole DEF FileChangesWhole
<1> QED
  BY <1>1, <1>2, <1>3, <1>4

(* A file changes by one record that no transaction has touched, or by the *)
(* whole of a transaction that ends with it.                               *)
THEOREM FilesAlwaysChangeWhole == DbSpec => FilesChangeWhole
<1>1. DbInv /\ [DbNext]_dbVars => DbInv'
  BY DbNextKeeps
<1>2. DbInv /\ [DbNext]_dbVars =>
        [\A f \in Files : disk'[f] # disk[f] => FileChangesWhole(f)]_dbVars
  BY StepChangesWhole
<1> QED
  BY DbInitInv, <1>1, <1>2, PTL
     DEF DbSpec, FilesChangeWhole, FileChangesWhole
-----------------------------------------------------------------------------
(* Salvage.  Each of its two loops over the lines of a dump is a recursive *)
(* function.  A function that solves the equation of the recursion is      *)
(* given outright, and two solutions could differ last at some line, after *)
(* which they agree; so the function is the one that was given.            *)

(* Where the header ends at or after a line, and where the loop that skips *)
(* it stops.                                                               *)
Heads(d, i) == {j \in i .. Len(d) : d[j] = "HEADER=END"}
LeastLine(S) == CHOOSE x \in S : \A y \in S : x <= y
SkipFrom(d, i) ==
  IF i > Len(d) THEN i + 1
  ELSE IF Heads(d, i) = {} THEN Len(d) + 2 ELSE LeastLine(Heads(d, i)) + 1

(* A set of lines has a first and a last one.                              *)
LEMMA LinesHaveEnds ==
  ASSUME NEW n \in Nat, NEW S, S # {}, \A x \in S : x \in Nat /\ x <= n
  PROVE  /\ \E x \in S : \A y \in S : x <= y
         /\ \E x \in S : \A y \in S : x >= y
<1>1. IsFiniteSet(0 .. n) /\ S \in SUBSET (0 .. n)
  BY FS_Interval
<1>2. IsFiniteSet(S)
  BY <1>1, FS_Subset
<1>3. \A x \in S : x \in Int
  OBVIOUS
<1> QED
  BY <1>2, <1>3, EndsExist

LEMMA LeastIn ==
  ASSUME NEW n \in Nat, NEW S, S # {}, \A x \in S : x \in Nat /\ x <= n
  PROVE  LeastLine(S) \in S /\ \A y \in S : LeastLine(S) <= y
<1>1. \E x \in S : \A y \in S : x <= y
  BY LinesHaveEnds
<1> QED
  BY <1>1, Zenon DEF LeastLine

LEMMA LeastIs ==
  ASSUME NEW S, \A y \in S : y \in Nat, NEW x \in S, \A y \in S : x <= y
  PROVE  LeastLine(S) = x
<1>1. LeastLine(S) \in S /\ \A y \in S : LeastLine(S) <= y
  <2>1. \E z \in S : \A y \in S : z <= y
    OBVIOUS
  <2> QED
    BY <2>1, Zenon DEF LeastLine
<1> DEFINE l == LeastLine(S)
<1>2. l \in Nat /\ x \in Nat /\ l <= x /\ x <= l
  BY <1>1
<1> HIDE DEF l
<1>3. l = x
  BY <1>2
<1> QED
  BY <1>3 DEF l

LEMMA SkipStep ==
  ASSUME NEW d \in Seq(Lines), NEW i \in Nat \ {0}
  PROVE  SkipFrom(d, i) = IF i > Len(d) \/ d[i] = "HEADER=END" THEN i + 1
                          ELSE SkipFrom(d, i + 1)
<1>1. Len(d) \in Nat /\ i \in Int
  OBVIOUS
<1>2. CASE i > Len(d)
  BY <1>2 DEF SkipFrom
<1>3. CASE i <= Len(d) /\ d[i] = "HEADER=END"
  <2>1. /\ i \in Heads(d, i)
        /\ \A y \in Heads(d, i) : y \in Nat /\ i <= y
    BY <1>1, <1>3 DEF Heads
  <2>2. LeastLine(Heads(d, i)) = i /\ Heads(d, i) # {}
    BY <1>1, <2>1, LeastIs
  <2> QED
    BY <1>1, <1>3, <2>2 DEF SkipFrom
<1>4. CASE i <= Len(d) /\ d[i] # "HEADER=END"
  <2>1. Heads(d, i) = Heads(d, i + 1)
    BY <1>1, <1>4 DEF Heads
  <2>2. i + 1 > Len(d) => Heads(d, i + 1) = {} /\ i = Len(d)
    BY <1>1, <1>4 DEF Heads
  <2> QED
    BY <1>1, <1>4, <2>1, <2>2 DEF SkipFrom
<1> QED
  BY <1>1, <1>2, <1>3, <1>4

LEMMA FirstLineIs ==
  ASSUME NEW d \in Seq(Lines) PROVE FirstLine(d) = SkipFrom(d, 1)
<1> DEFINE IsSkip(g) == g = [i \in Nat \ {0} |->
             IF i > Len(d) \/ d[i] = "HEADER=END" THEN i + 1 ELSE g[i + 1]]
           skip == CHOOSE g : IsSkip(g)
           B == {i \in 1 .. Len(d) : skip[i] # SkipFrom(d, i)}
<1>1. FirstLine(d) = skip[1]
  BY Zenon DEF FirstLine
<1>2. IsSkip([i \in Nat \ {0} |-> SkipFrom(d, i)])
  BY SkipStep, Z3
<1>3. IsSkip(skip)
  <2> HIDE DEF IsSkip
  <2> QED
    BY <1>2, Zenon
<1> HIDE DEF skip
<1>4. \A i \in Nat \ {0} : skip[i] =
        IF i > Len(d) \/ d[i] = "HEADER=END" THEN i + 1 ELSE skip[i + 1]
  BY <1>3, Zenon
<1>5. Len(d) \in Nat
  OBVIOUS
<1>6. ASSUME B # {} PROVE FALSE
  <2>1. \A i \in B : i \in Nat /\ i <= Len(d)
    BY <1>5
  <2>2. PICK i \in B : \A j \in B : i >= j
    <3> HIDE DEF B
    <3> QED
      BY <1>5, <1>6, <2>1, LinesHaveEnds
  <2>3. i \in Nat \ {0} /\ i + 1 \in Nat \ {0} /\ i <= Len(d) /\ i + 1 \notin B
    BY <1>5, <2>2
  <2>4. skip[i + 1] = SkipFrom(d, i + 1)
    <3>1. CASE i + 1 <= Len(d)
      BY <1>5, <2>3, <3>1
    <3>2. CASE i + 1 > Len(d)
      BY <1>4, <2>3, <3>2, SkipStep
    <3> QED
      BY <1>5, <2>3, <3>1, <3>2
  <2>5. skip[i] = SkipFrom(d, i)
    BY <1>4, <2>3, <2>4, SkipStep
  <2> QED
    BY <2>2, <2>5
<1>7. skip[1] = SkipFrom(d, 1)
  <2>1. CASE Len(d) = 0
    <3>1. 1 \in Nat \ {0} /\ 1 > Len(d)
      BY <2>1
    <3>2. skip[1] = 1 + 1
      BY <1>4, <3>1
    <3>3. SkipFrom(d, 1) = 1 + 1
      BY <3>1, SkipStep
    <3> QED
      BY <3>2, <3>3
  <2>2. CASE Len(d) # 0
    BY <1>5, <1>6, <2>2
  <2> QED
    BY <2>1, <2>2
<1> QED
  BY <1>1, <1>7
-----------------------------------------------------------------------------
(* The pairs that are read from a line on: up to an end where a key would  *)
(* be, or through the empty line after the last.  The first pair may take  *)
(* its value from the turn before.                                         *)
Ends(d, i) == {j \in i .. Len(d) : (j - i) % 2 = 0 /\ d[j] = "DATA=END"}

Pairs(d, i) ==
  IF i > Len(d) + 1 THEN 0
  ELSE IF Ends(d, i) = {} THEN (Len(d) + 1 - i) \div 2 + 1
  ELSE (LeastLine(Ends(d, i)) - i) \div 2

PairAt(d, i, value, k) ==
  <<LineAt(d, i + 2 * k - 2, EmptyLine),
    LineAt(d, i + 2 * k - 1, IF k = 1 THEN value ELSE d[i + 2 * k - 3])>>

PairsFrom(d, i, value) == [k \in 1 .. Pairs(d, i) |-> PairAt(d, i, value, k)]

LEMMA EndsFacts ==
  ASSUME NEW d \in Seq(Lines), NEW i \in Nat \ {0}
  PROVE  /\ Pairs(d, i) \in Nat
         /\ i + 2 * Pairs(d, i) <= Len(d) + 3 \/ Pairs(d, i) = 0
         /\ Ends(d, i) # {} =>
              /\ LeastLine(Ends(d, i)) \in Ends(d, i)
              /\ LeastLine(Ends(d, i)) \in i .. Len(d)
              /\ \A j \in Ends(d, i) : LeastLine(Ends(d, i)) <= j
<1>1. Len(d) \in Nat /\ \A j \in Ends(d, i) : j \in Nat /\ i <= j /\ j <= Len(d)
  BY DEF Ends
<1>2. ASSUME Ends(d, i) # {}
      PROVE  /\ LeastLine(Ends(d, i)) \in Ends(d, i)
             /\ \A j \in Ends(d, i) : LeastLine(Ends(d, i)) <= j
  BY <1>1, <1>2, LeastIn
<1> DEFINE l == LeastLine(Ends(d, i))
<1>3. Ends(d, i) # {} => l \in Nat /\ i <= l /\ l <= Len(d)
  BY <1>1, <1>2
<1> HIDE DEF l
<1>4. CASE i > Len(d) + 1
  BY <1>1, <1>2, <1>3, <1>4 DEF Pairs, l
<1>5. CASE i <= Len(d) + 1 /\ Ends(d, i) = {}
  BY <1>1, <1>5 DEF Pairs
<1>6. CASE i <= Len(d) + 1 /\ Ends(d, i) # {}
  <2>1. Pairs(d, i) = (l - i) \div 2
    BY <1>1, <1>6 DEF Pairs, l
  <2>2. (l - i) \div 2 \in Nat /\ 2 * ((l - i) \div 2) <= l - i
    BY <1>3, <1>6
  <2> QED
    BY <1>1, <1>2, <1>3, <1>6, <2>1, <2>2 DEF l
<1> QED
  BY <1>1, <1>4, <1>5, <1>6

(* The count at an end, and where a pair is read.                          *)
LEMMA NoPairs ==
  ASSUME NEW d \in Seq(Lines), NEW i \in Nat \ {0},
         i > Len(d) + 1 \/ LineAt(d, i, EmptyLine) = "DATA=END"
  PROVE  Pairs(d, i) = 0
<1>1. Len(d) \in Nat
  OBVIOUS
<1>2. CASE i > Len(d) + 1
  BY <1>2 DEF Pairs
<1>3. CASE i <= Len(d)
  <2>1. d[i] = "DATA=END"
    BY <1>1, <1>3 DEF LineAt
  <2>2. i \in Ends(d, i) /\ \A j \in Ends(d, i) : j \in Nat /\ i <= j
    BY <1>1, <1>3, <2>1 DEF Ends
  <2>3. LeastLine(Ends(d, i)) = i /\ Ends(d, i) # {}
    BY <2>2, LeastIs
  <2> QED
    BY <1>1, <1>3, <2>3 DEF Pairs
<1>4. CASE i = Len(d) + 1
  <2>1. LineAt(d, i, EmptyLine) = EmptyLine
    BY <1>1, <1>4 DEF LineAt
  <2>2. EmptyLine # "DATA=END"
    BY Zenon DEF EmptyLine
  <2> QED
    BY <1>4, <2>1, <2>2
<1> QED
  BY <1>1, <1>2, <1>3, <1>4

LEMMA OnePairMore ==
  ASSUME NEW d \in Seq(Lines), NEW i \in Nat \ {0},
         i <= Len(d) + 1, LineAt(d, i, EmptyLine) # "DATA=END"
  PROVE  Pairs(d, i) = Pairs(d, i + 2) + 1
<1>1. Len(d) \in Nat /\ i + 2 \in Nat \ {0}
  OBVIOUS
<1>2. Ends(d, i) = Ends(d, i + 2)
  <2>1. i <= Len(d) => d[i] # "DATA=END"
    BY <1>1 DEF LineAt
  <2>2. ASSUME NEW j \in i .. Len(d), (j - i) % 2 = 0, d[j] = "DATA=END"
        PROVE  j \in (i + 2) .. Len(d) /\ (j - (i + 2)) % 2 = 0
    <3>1. j # i /\ j # i + 1
      BY <1>1, <2>1, <2>2
    <3> QED
      BY <1>1, <2>2, <3>1
  <2>3. ASSUME NEW j \in (i + 2) .. Len(d), (j - (i + 2)) % 2 = 0
        PROVE  j \in i .. Len(d) /\ (j - i) % 2 = 0
    BY <1>1, <2>3
  <2> QED
    BY <2>2, <2>3 DEF Ends
<1>3. i <= Len(d) + 1
  OBVIOUS
<1> DEFINE l == LeastLine(Ends(d, i))
           m == Len(d)
<1>4. Ends(d, i) # {} => l \in Nat /\ i + 2 <= l /\ l <= m
  BY <1>1, <1>2, EndsFacts
<1>5. Ends(d, i) = {} =>
        /\ Pairs(d, i) = (m + 1 - i) \div 2 + 1
        /\ Pairs(d, i + 2) = IF i + 2 > m + 1 THEN 0
                             ELSE (m + 1 - (i + 2)) \div 2 + 1
  BY <1>1, <1>2, <1>3 DEF Pairs
<1>6. Ends(d, i) # {} =>
        /\ Pairs(d, i) = (l - i) \div 2
        /\ Pairs(d, i + 2) = (l - (i + 2)) \div 2
  BY <1>1, <1>2, <1>3, <1>4 DEF Pairs
<1> DEFINE a == Pairs(d, i)
           b == Pairs(d, i + 2)
<1>7. m \in Nat
  BY <1>1
<1> HIDE DEF l, m, a, b
<1>8. CASE Ends(d, i) = {}
  <2>1. /\ a = (m + 1 - i) \div 2 + 1
        /\ b = IF i + 2 > m + 1 THEN 0 ELSE (m + 1 - (i + 2)) \div 2 + 1
    BY <1>5, <1>8 DEF a, b
  <2>2. a = b + 1
    BY <1>3, <1>7, <2>1 DEF m
  <2> QED
    BY <2>2 DEF a, b
<1>9. CASE Ends(d, i) # {}
  <2>1. a = (l - i) \div 2 /\ b = (l - (i + 2)) \div 2
    BY <1>6, <1>9 DEF a, b
  <2>2. i \in Nat /\ l \in Nat /\ i + 2 <= l
    BY <1>4, <1>9
  <2>3. (l - i) \div 2 = (l - (i + 2)) \div 2 + 1
    BY <2>2
  <2>4. a = b + 1
    BY <2>1, <2>3
  <2> QED
    BY <2>4 DEF a, b
<1> QED
  BY <1>8, <1>9

LEMMA LinesAreStrings ==
  ASSUME NEW d \in Seq(Lines), NEW i \in Nat \ {0}, NEW v \in Lines
  PROVE  LineAt(d, i, v) \in Lines
BY DumpsAssumption DEF LineAt

LEMMA OnePairFirst ==
  ASSUME NEW d \in Seq(Lines), NEW i \in Nat \ {0}, NEW v \in Lines,
         i <= Len(d) + 1, LineAt(d, i, EmptyLine) # "DATA=END"
  PROVE  PairsFrom(d, i, v) =
           <<<<LineAt(d, i, EmptyLine), LineAt(d, i + 1, v)>>>> \o
             PairsFrom(d, i + 2, LineAt(d, i + 1, v))
<1> DEFINE w == LineAt(d, i + 1, v)
           n == Pairs(d, i + 2)
           first == <<LineAt(d, i, EmptyLine), w>>
           rest == PairsFrom(d, i + 2, w)
           all == PairsFrom(d, i, v)
<1>1. /\ Len(d) \in Nat /\ n \in Nat /\ i + 2 \in Nat \ {0}
      /\ i + 2 + 2 * n <= Len(d) + 3 \/ n = 0
  BY EndsFacts
<1>2. Pairs(d, i) = n + 1
  BY OnePairMore
<1>3. PairAt(d, i, v, 1) = first
  BY <1>1 DEF PairAt
<1>4. ASSUME NEW k \in 1 .. n
      PROVE  PairAt(d, i, v, k + 1) = PairAt(d, i + 2, w, k)
  <2>1. /\ i + 2 * (k + 1) - 2 = (i + 2) + 2 * k - 2
        /\ i + 2 * (k + 1) - 1 = (i + 2) + 2 * k - 1
        /\ i + 2 * (k + 1) - 3 = (i + 2) + 2 * k - 3
        /\ k + 1 # 1
    BY <1>1
  <2>2. CASE k # 1
    BY <2>1, <2>2 DEF PairAt
  <2>3. CASE k = 1
    <3>1. i + 1 <= Len(d) + 1 /\ n >= 1
      BY <1>1, <2>3
    <3>2. i + 1 <= Len(d) /\ i + 1 \in Nat
      BY <1>1, <3>1
    <3>3. w = d[i + 1] /\ i + 2 * (k + 1) - 3 = i + 1
      BY <1>1, <2>3, <3>2 DEF LineAt
    <3> QED
      BY <2>1, <2>3, <3>3 DEF PairAt
  <2> QED
    BY <2>2, <2>3
<1>5. all = [k \in 1 .. n + 1 |-> PairAt(d, i, v, k)]
  BY <1>2 DEF PairsFrom
<1>6. rest = [k \in 1 .. n |-> PairAt(d, i + 2, w, k)]
  BY DEF PairsFrom
<1> HIDE DEF w, n, first, rest, all
<1>7. n \in Nat
  BY <1>1
<1>8. all = <<first>> \o rest
  <2> DEFINE sum == <<first>> \o rest
  <2>1. Len(rest) = n /\ rest \in Seq({rest[k] : k \in 1 .. n})
    BY <1>6, <1>7
  <2>2. sum = [k \in 1 .. n + 1 |-> IF k = 1 THEN first ELSE rest[k - 1]]
    BY <1>7, <2>1
  <2>3. ASSUME NEW k \in 1 .. n + 1
        PROVE  PairAt(d, i, v, k) = IF k = 1 THEN first ELSE rest[k - 1]
    <3>1. CASE k = 1
      BY <1>3, <3>1
    <3>2. CASE k # 1
      <4>1. k - 1 \in 1 .. n /\ (k - 1) + 1 = k
        BY <1>7, <3>2
      <4> QED
        BY <1>4, <1>6, <3>2, <4>1
    <3> QED
      BY <3>1, <3>2
  <2> HIDE DEF sum
  <2>4. all = sum
    BY <1>5, <2>2, <2>3
  <2> QED
    BY <2>4 DEF sum
<1> QED
  BY <1>8, Zenon DEF all, first, rest, w

LEMMA PairsStep ==
  ASSUME NEW d \in Seq(Lines), NEW i \in Nat \ {0}, NEW v \in Lines
  PROVE  PairsFrom(d, i, v) =
           IF i > Len(d) + 1 \/ LineAt(d, i, EmptyLine) = "DATA=END" THEN << >>
           ELSE <<<<LineAt(d, i, EmptyLine), LineAt(d, i + 1, v)>>>> \o
                  PairsFrom(d, i + 2, LineAt(d, i + 1, v))
<1>1. CASE i > Len(d) + 1 \/ LineAt(d, i, EmptyLine) = "DATA=END"
  <2>1. Pairs(d, i) = 0
    BY <1>1, NoPairs
  <2>2. PairsFrom(d, i, v) = << >>
    BY <2>1 DEF PairsFrom
  <2> QED
    BY <1>1, <2>2, Zenon
<1>2. CASE ~(i > Len(d) + 1 \/ LineAt(d, i, EmptyLine) = "DATA=END")
  <2>1. i <= Len(d) + 1
    BY <1>2
  <2>2. PairsFrom(d, i, v) =
          <<<<LineAt(d, i, EmptyLine), LineAt(d, i + 1, v)>>>> \o
            PairsFrom(d, i + 2, LineAt(d, i + 1, v))
    BY <1>2, <2>1, OnePairFirst
  <2> QED
    BY <1>2, <2>2, Zenon
<1> QED
  BY <1>1, <1>2

(* The chosen function is that one: two solutions could differ last at a   *)
(* line, after which they agree.                                           *)
LEMMA PairsAre ==
  ASSUME NEW d \in Seq(Lines), NEW start \in Nat \ {0},
         FirstLine(d) = start
  PROVE  PairsOf(d) = PairsFrom(d, start, EmptyLine)
<1> DEFINE Turns == (Nat \ {0}) \X Lines
           StepOf(g, i, v) ==
             IF i > Len(d) + 1 THEN << >>
             ELSE LET keyHex   == LineAt(d, i, EmptyLine)
                      valueHex == LineAt(d, i + 1, v)
                  IN  IF keyHex = "DATA=END" THEN << >>
                      ELSE <<<<keyHex, valueHex>>>> \o g[<<i + 2, valueHex>>]
           IsPairs(g) == g = [p \in Turns |-> StepOf(g, p[1], p[2])]
           pairs == CHOOSE g : IsPairs(g)
           answer == [p \in Turns |-> PairsFrom(d, p[1], p[2])]
<1>1. PairsOf(d) = pairs[<<start, EmptyLine>>]
  BY Zenon DEF PairsOf
<1>2. \A i \in Nat \ {0}, v \in Lines :
        i + 2 \in Nat \ {0} /\ LineAt(d, i + 1, v) \in Lines
  BY LinesAreStrings
<1>3. ASSUME NEW i \in Nat \ {0}, NEW v \in Lines
      PROVE  PairsFrom(d, i, v) = StepOf(answer, i, v)
  <2>1. answer[<<i + 2, LineAt(d, i + 1, v)>>] =
          PairsFrom(d, i + 2, LineAt(d, i + 1, v))
    BY <1>2
  <2> HIDE DEF answer
  <2> QED
    BY <2>1, PairsStep, Zenon
<1>4. IsPairs(answer)
  <2>1. ASSUME NEW p \in Turns
        PROVE  PairsFrom(d, p[1], p[2]) = StepOf(answer, p[1], p[2])
    <3>1. p[1] \in Nat \ {0} /\ p[2] \in Lines
      OBVIOUS
    <3> HIDE DEF answer, StepOf
    <3> QED
      BY <1>3, <3>1
  <2> HIDE DEF StepOf
  <2> QED
    BY <2>1, Zenon
<1>5. IsPairs(pairs)
  <2> HIDE DEF IsPairs
  <2> QED
    BY <1>4, Zenon
<1> HIDE DEF pairs
<1>6. ASSUME NEW i \in Nat \ {0}, NEW v \in Lines
      PROVE  pairs[<<i, v>>] = StepOf(pairs, i, v)
  <2> DEFINE p == <<i, v>>
  <2>1. p \in Turns /\ p[1] = i /\ p[2] = v
    OBVIOUS
  <2> HIDE DEF StepOf, p
  <2>2. pairs[p] = StepOf(pairs, p[1], p[2])
    BY <1>5, <2>1, Zenon
  <2> QED
    BY <2>1, <2>2 DEF p
<1> DEFINE Same(i) == \A v \in Lines : pairs[<<i, v>>] = PairsFrom(d, i, v)
           B == {i \in 1 .. Len(d) + 1 : ~Same(i)}
<1>7. Len(d) \in Nat /\ Len(d) + 1 \in Nat
  OBVIOUS
<1>8. ASSUME NEW i \in Nat \ {0}, i > Len(d) + 1 PROVE Same(i)
  <2>1. ASSUME NEW v \in Lines PROVE pairs[<<i, v>>] = PairsFrom(d, i, v)
    <3>1. pairs[<<i, v>>] = << >>
      BY <1>6, <1>8, Zenon
    <3>2. PairsFrom(d, i, v) = << >>
      BY <1>8, PairsStep, Zenon
    <3> QED
      BY <3>1, <3>2
  <2> QED
    BY <2>1
<1>9. ASSUME NEW i \in Nat \ {0}, Same(i + 2) PROVE Same(i)
  <2>1. ASSUME NEW v \in Lines PROVE pairs[<<i, v>>] = PairsFrom(d, i, v)
    <3>1. LineAt(d, i + 1, v) \in Lines
      BY <1>2
    <3>2. pairs[<<i + 2, LineAt(d, i + 1, v)>>] =
            PairsFrom(d, i + 2, LineAt(d, i + 1, v))
      BY <1>9, <3>1
    <3>3. CASE i > Len(d) + 1
      BY <1>8, <3>3 DEF Same
    <3>4. CASE ~(i > Len(d) + 1) /\ LineAt(d, i, EmptyLine) = "DATA=END"
      <4>1. pairs[<<i, v>>] = << >>
        BY <1>6, <3>4, Zenon
      <4>2. PairsFrom(d, i, v) = << >>
        BY <3>4, PairsStep, Zenon
      <4> QED
        BY <4>1, <4>2
    <3>5. CASE ~(i > Len(d) + 1 \/ LineAt(d, i, EmptyLine) = "DATA=END")
      <4> DEFINE head == <<<<LineAt(d, i, EmptyLine), LineAt(d, i + 1, v)>>>>
                 w == <<i + 2, LineAt(d, i + 1, v)>>
      <4>1. pairs[<<i, v>>] = head \o pairs[w]
        BY <1>6, <3>5, Zenon
      <4>2. PairsFrom(d, i, v) =
              head \o PairsFrom(d, i + 2, LineAt(d, i + 1, v))
        BY <3>5, PairsStep, Zenon
      <4> QED
        BY <3>2, <4>1, <4>2, Zenon
    <3> QED
      BY <3>3, <3>4, <3>5, Zenon
  <2> QED
    BY <2>1
<1> HIDE DEF Same
<1>10. B = {}
  <2> SUFFICES ASSUME B # {} PROVE FALSE
    OBVIOUS
  <2>1. \A i \in B : i \in Nat /\ i <= Len(d) + 1
    BY <1>7
  <2>2. PICK i \in B : \A j \in B : i >= j
    <3> HIDE DEF B
    <3> QED
      BY <1>7, <2>1, LinesHaveEnds
  <2>3. /\ i \in Nat \ {0} /\ i + 2 \in Nat \ {0} /\ i + 2 \notin B
        /\ ~Same(i)
    BY <1>7, <2>2
  <2>4. Same(i + 2)
    BY <1>7, <1>8, <2>3
  <2> QED
    BY <1>9, <2>3, <2>4
<1>11. Same(start)
  BY <1>7, <1>8, <1>10
<1> QED
  BY <1>1, <1>11, DumpsAssumption DEF Same

LEMMA Halves ==
  ASSUME NEW n \in Nat, NEW h, h = n \div 2
  PROVE  h \in Nat /\ 2 * h <= n /\ n <= 2 * h + 1
OBVIOUS

LEMMA DumpReads ==
  ASSUME NEW d \in Seq(Lines)
  PROVE
    LET at(line) == {i \in 1 .. Len(d) : d[i] = line}
        least(S) == CHOOSE i \in S : \A j \in S : i <= j
        first == least(at("HEADER=END"))
        ends  == {i \in at("DATA=END") : i > first /\ (i - first) % 2 = 1}
        last  == IF ends = {} THEN Len(d) + 1 ELSE least(ends)
        whole == (last - first - 1) \div 2
        got   == PairsOf(d)
    IN  IF at("HEADER=END") = {} THEN got = << >>
        ELSE /\ Len(got) \in whole .. whole + (IF ends = {} THEN 1 ELSE 0)
             /\ \A i \in 1 .. whole :
                  got[i] = <<d[first + 2 * i - 1], d[first + 2 * i]>>
             /\ \A i \in whole + 1 .. Len(got) :
                  EmptyLine \in {got[i][1], got[i][2]}
<1> DEFINE at(line) == {i \in 1 .. Len(d) : d[i] = line}
           first == LeastLine(at("HEADER=END"))
           ends  == {i \in at("DATA=END") : i > first /\ (i - first) % 2 = 1}
           last  == IF ends = {} THEN Len(d) + 1 ELSE LeastLine(ends)
           whole == (last - first - 1) \div 2
           got   == PairsOf(d)
           m     == Len(d)
<1>1. m \in Nat
  OBVIOUS
<1>2. FirstLine(d) = SkipFrom(d, 1)
  BY FirstLineIs
<1>3. Heads(d, 1) = at("HEADER=END")
  BY DEF Heads
<1>4. ASSUME at("HEADER=END") = {} PROVE got = << >>
  <2>1. FirstLine(d) = m + 2
    BY <1>1, <1>2, <1>3, <1>4 DEF SkipFrom
  <2>2. got = PairsFrom(d, m + 2, EmptyLine)
    BY <1>1, <2>1, PairsAre
  <2>3. m + 2 \in Nat \ {0} /\ m + 2 > Len(d) + 1
    BY <1>1
  <2> HIDE DEF m, got
  <2>4. PairsFrom(d, m + 2, EmptyLine) = << >>
    BY <2>3, PairsStep, DumpsAssumption
  <2> QED
    BY <2>2, <2>4
<1>5. ASSUME at("HEADER=END") # {}
      PROVE  /\ Len(got) \in whole .. whole + (IF ends = {} THEN 1 ELSE 0)
             /\ \A i \in 1 .. whole :
                  got[i] = <<d[first + 2 * i - 1], d[first + 2 * i]>>
             /\ \A i \in whole + 1 .. Len(got) :
                  EmptyLine \in {got[i][1], got[i][2]}
  <2> HIDE DEF at, first, ends, last, whole, got
  <2>1. first \in Nat /\ 1 <= first /\ first <= m
    <3>1. \A x \in at("HEADER=END") : x \in Nat /\ 1 <= x /\ x <= m
      BY <1>1 DEF at
    <3> HIDE DEF m
    <3> QED
      BY <1>1, <1>5, <3>1, LeastIn DEF first
  <2> DEFINE start == first + 1
  <2>2. FirstLine(d) = start
    <3>1. ~(1 > Len(d)) /\ Heads(d, 1) # {}
      BY <1>1, <1>3, <1>5, <2>1
    <3>2. SkipFrom(d, 1) = LeastLine(Heads(d, 1)) + 1
      BY <3>1 DEF SkipFrom
    <3> QED
      BY <1>2, <1>3, <3>2 DEF first
  <2>3. start \in Nat \ {0} /\ start <= m + 1
    BY <1>1, <2>1
  <2>4. got = PairsFrom(d, start, EmptyLine)
    <3> HIDE DEF start
    <3> QED
      BY <2>2, <2>3, PairsAre DEF got
  <2>5. Ends(d, start) = ends
    BY <1>1, <2>1 DEF Ends, ends, at
  <2> DEFINE least == LeastLine(ends)
             n == Pairs(d, start)
  <2>6. ends # {} => least \in Nat /\ start <= least /\ least <= m
    <3>1. Ends(d, start) # {} => LeastLine(Ends(d, start)) \in start .. Len(d)
      BY <2>3, EndsFacts
    <3> HIDE DEF start
    <3> QED
      BY <2>3, <2>5, <3>1
  <2>7. n = IF ends = {} THEN (m + 1 - start) \div 2 + 1
            ELSE (least - start) \div 2
    <3>1. ~(start > Len(d) + 1)
      BY <1>1, <2>3
    <3> HIDE DEF start
    <3> QED
      BY <2>5, <3>1 DEF Pairs
  <2>8. last = IF ends = {} THEN m + 1 ELSE least
    BY DEF last
  <2>9. whole = (last - first - 1) \div 2
    BY DEF whole
  <2> HIDE DEF least, n, m
  <2>10. last \in Nat /\ start <= last /\ last <= m + 1
    <3> HIDE DEF start
    <3>1. CASE ends = {}
      BY <1>1, <2>3, <2>8, <3>1
    <3>2. CASE ends # {}
      <4>1. last = least /\ least \in Nat /\ start <= least /\ least <= m
        BY <2>6, <2>8, <3>2
      <4> QED
        BY <1>1, <4>1
    <3> QED
      BY <3>1, <3>2
  <2>11. last - first - 1 = last - start /\ last - start \in Nat
    BY <2>1, <2>10
  <2>12. /\ whole \in Nat /\ 2 * whole <= last - start
         /\ last - start <= 2 * whole + 1
    BY <2>9, <2>11, Halves
  <2>13. n = whole + (IF ends = {} THEN 1 ELSE 0) /\ n \in Nat
    <3> HIDE DEF start
    <3>1. CASE ends = {}
      <4>0. n = (m + 1 - start) \div 2 + 1 /\ last = m + 1
        BY <2>7, <2>8, <3>1
      <4>1. n = (last - start) \div 2 + 1
        BY <1>1, <2>3, <2>10, <4>0
      <4> QED
        BY <2>9, <2>11, <2>12, <3>1, <4>1
    <3>2. CASE ends # {}
      <4>1. n = (last - start) \div 2
        BY <2>7, <2>8, <3>2
      <4> QED
        BY <2>9, <2>11, <2>12, <3>2, <4>1
    <3> QED
      BY <3>1, <3>2
  <2>17. /\ Len(got) = n
         /\ \A i \in 1 .. n : got[i] = PairAt(d, start, EmptyLine, i)
    BY <2>4, <2>13 DEF PairsFrom, n
  <2>14. ASSUME NEW i \in 1 .. whole
         PROVE  got[i] = <<d[first + 2 * i - 1], d[first + 2 * i]>>
    <3>1. i \in 1 .. n
      BY <2>12, <2>13
    <3>2. /\ start + 2 * i - 2 = first + 2 * i - 1
          /\ start + 2 * i - 1 = first + 2 * i
          /\ first + 2 * i <= m
      BY <1>1, <2>1, <2>10, <2>12
    <3>3. \A b : LineAt(d, first + 2 * i, b) = d[first + 2 * i]
      BY <2>1, <3>2 DEF LineAt, m
    <3>4. LineAt(d, first + 2 * i - 1, EmptyLine) = d[first + 2 * i - 1]
      BY <2>1, <3>2 DEF LineAt, m
    <3>5. got[i] = PairAt(d, start, EmptyLine, i)
      BY <2>17, <3>1
    <3> HIDE DEF start
    <3> QED
      BY <3>2, <3>3, <3>4, <3>5 DEF PairAt
  <2>15. ASSUME NEW i \in whole + 1 .. Len(got)
         PROVE  EmptyLine \in {got[i][1], got[i][2]}
    <3>1. ends = {} /\ i = whole + 1 /\ i \in 1 .. n
      BY <2>12, <2>13, <2>17
    <3>2. last = m + 1 /\ 2 * whole <= last - start
          /\ last - start <= 2 * whole + 1
      BY <2>8, <2>12, <3>1
    <3> HIDE DEF start
    <3>3. start + 2 * i - 2 = m + 1 \/ start + 2 * i - 1 = m + 1
      BY <1>1, <2>3, <2>12, <3>1, <3>2
    <3>4. \A b : LineAt(d, m + 1, b) = EmptyLine
      BY <1>1 DEF LineAt, m
    <3>5. got[i] = PairAt(d, start, EmptyLine, i)
      BY <2>17, <3>1
    <3>6. PairAt(d, start, EmptyLine, i)[1] =
            LineAt(d, start + 2 * i - 2, EmptyLine)
      BY DEF PairAt
    <3>7. \E b : PairAt(d, start, EmptyLine, i)[2] =
                 LineAt(d, start + 2 * i - 1, b)
      BY DEF PairAt
    <3> QED
      BY <3>3, <3>4, <3>5, <3>6, <3>7
  <2>16. Len(got) \in whole .. whole + (IF ends = {} THEN 1 ELSE 0)
    BY <2>12, <2>13, <2>17
  <2> QED
    BY <2>14, <2>15, <2>16
<1> QED
  BY <1>4, <1>5, Zenon DEF LeastLine

(* Whatever a salvage prints, its pairs are read, and nothing else.        *)
THEOREM SalvageAlwaysReads ==
  DbInit /\ [][DbNext]_dbVars => []SalvageReadsThePairs
<1>1. SalvageReadsThePairs
  <2>1. Dumps \subseteq Seq(Lines)
    BY DumpsAssumption
  <2> QED
    BY <2>1, DumpReads, Zenon DEF SalvageReadsThePairs
<1> QED
  BY <1>1, PTL
===============================================================================
