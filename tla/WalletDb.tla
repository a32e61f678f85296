------------------------------- MODULE WalletDb -------------------------------
(***************************************************************************)
(* The Berkeley DB environment bitdb and the CDB objects that share its    *)
(* handles, Wallet/db.cpp and Wallet/db.h.  Closing and flushing are only  *)
(* declared there; they, and the library itself, are modelled by what the  *)
(* code relies on.                                                         *)
(***************************************************************************)
EXTENDS Integers, Sequences, FiniteSets, Functions

CONSTANTS
  Files, Users,  \* database files, and the scopes that hold a CDB object
  Keys,          \* keys of records, "version" among them
  Txns,          \* transactions of the library, as many as may be open
  Lines,         \* of text
  Dumps,         \* what a salvage of a file may print, as lines
  MaxUse,        \* bound: on a use count, for the counts that leak
  NULL

(* What a CDB object has beside the handle it shares.                      *)
Objects ==
  [file : Files, fReadOnly : BOOLEAN, activeTxn : Txns \cup {NULL}]

ASSUME KeysAssumption == "version" \in Keys /\ MaxUse \in Nat
EmptyLine == ""
ASSUME DumpsAssumption == EmptyLine \in Lines /\ Dumps \subseteq Seq(Lines)
ASSUME UsersAssumption == IsFiniteSet(Users)
ASSUME NullAssumption == NULL \notin Txns /\ NULL \notin Objects

VARIABLES
  fDbEnvInit, fMockDb,
  dbenv,            \* the environment's handle: fresh, open, failed, closed
  mapFileUseCount,  \* a partial function
  mapDb,            \* the files whose shared handle is open
  cdb,              \* a user's CDB object: file, mode and activeTxn; or NULL
  txns,             \* an open transaction -> its file and what it wrote
  disk              \* the committed keys of each file

env  == <<fDbEnvInit, fMockDb, dbenv>>
dbVars == <<env, mapFileUseCount, mapDb, cdb, txns, disk>>

Entry(f) == f \in DOMAIN mapFileUseCount
Count(f) == IF Entry(f) THEN mapFileUseCount[f] ELSE 0
SetCount(f, n) ==
  mapFileUseCount' = [g \in DOMAIN mapFileUseCount \cup {f} |->
                        IF g = f THEN n ELSE mapFileUseCount[g]]

UsersOf(f) == {u \in Users : cdb[u] # NULL /\ cdb[u].file = f}

-----------------------------------------------------------------------------
(* The environment.  Opening one answers 0 or an error, which the library  *)
(* may number above or below 0; only a fresh handle can be opened.         *)
OpenResults == IF dbenv = "fresh" THEN {0, 1, -1} ELSE {1, -1}

AfterOpen(ret) == dbenv' = IF ret = 0 THEN "open" ELSE "failed"

Reset ==
  /\ mapDb = {} /\ ~fDbEnvInit
  /\ fDbEnvInit' = FALSE /\ fMockDb' = FALSE /\ dbenv' = "fresh"
  /\ UNCHANGED <<mapFileUseCount, mapDb, cdb, txns, disk>>

MakeMock ==
  /\ ~fDbEnvInit
  /\ \E ret \in OpenResults :
       /\ AfterOpen(ret)
       /\ IF ret > 0 THEN UNCHANGED <<fDbEnvInit, fMockDb>>
          ELSE fDbEnvInit' = TRUE /\ fMockDb' = TRUE
  /\ UNCHANGED <<mapFileUseCount, mapDb, cdb, txns, disk>>

(* Close, called when every file has been flushed.                         *)
EnvShutdown ==
  /\ DOMAIN mapFileUseCount = {}
  /\ fDbEnvInit
  /\ fDbEnvInit' = FALSE /\ dbenv' = "closed"
  /\ UNCHANGED <<fMockDb, mapFileUseCount, mapDb, cdb, txns, disk>>

-----------------------------------------------------------------------------
(* The constructor of CDB, in one hold of cs_db: first the environment...  *)
EnvReady ==
  \/ fDbEnvInit /\ UNCHANGED env
  \/ /\ ~fDbEnvInit /\ 0 \in OpenResults
     /\ fDbEnvInit' = TRUE /\ fMockDb' = FALSE /\ dbenv' = "open"

EnvNotReady(u) ==
  /\ cdb[u] = NULL /\ ~fDbEnvInit
  /\ dbenv' = "failed"
  /\ UNCHANGED <<fDbEnvInit, fMockDb, mapFileUseCount, mapDb, cdb, txns, disk>>

Holding(u, f, fReadOnly) ==
  cdb' = [cdb EXCEPT ![u] = [file |-> f, fReadOnly |-> fReadOnly,
                             activeTxn |-> NULL]]

(* Mutant: only the object that opens the handle is counted.               *)
ShareUncounted(u, f, fReadOnly) ==
  /\ cdb[u] = NULL /\ EnvReady
  /\ f \in mapDb
  /\ Holding(u, f, fReadOnly)
  /\ UNCHANGED <<mapFileUseCount, mapDb, txns, disk>>

(* ...then a use is counted, and the handle shared or opened.              *)
Share(u, f, fReadOnly) ==
  /\ cdb[u] = NULL /\ EnvReady
  /\ f \in mapDb
  /\ SetCount(f, Count(f) + 1)
  /\ Holding(u, f, fReadOnly)
  /\ UNCHANGED <<mapDb, txns, disk>>

(* A file opened to be created gets a version, the mode notwithstanding;   *)
(* nobody asks whether that write succeeded.                               *)
OpenFile(u, f, fReadOnly, fCreate) ==
  /\ cdb[u] = NULL /\ EnvReady
  /\ f \notin mapDb
  /\ SetCount(f, Count(f) + 1)
  /\ mapDb' = mapDb \cup {f}
  /\ Holding(u, f, fReadOnly)
  /\ disk' \in {disk, IF fCreate
                      THEN [disk EXCEPT ![f] = @ \cup {"version"}] ELSE disk}
  /\ UNCHANGED txns

(* Mutant: the use of an object that is not constructed stays counted.     *)
OpenFileFailsCounted(u, f) ==
  /\ cdb[u] = NULL /\ EnvReady
  /\ f \notin mapDb /\ Count(f) < MaxUse
  /\ SetCount(f, Count(f) + 1)
  /\ UNCHANGED <<mapDb, cdb, txns, disk>>

(* Mutant: the use is taken back twice.                                    *)
OpenFileFailsTwice(u, f) ==
  /\ cdb[u] = NULL /\ EnvReady
  /\ f \notin mapDb
  /\ SetCount(f, Count(f) - 1)
  /\ UNCHANGED <<mapDb, cdb, txns, disk>>

OpenFileFails(u, f) ==
  /\ cdb[u] = NULL /\ EnvReady
  /\ f \notin mapDb
  /\ SetCount(f, Count(f))
  /\ UNCHANGED <<mapDb, cdb, txns, disk>>

(* set_flags fails for a mock database: the use stays counted.             *)
ConfigureMockFails(u, f) ==
  /\ cdb[u] = NULL /\ EnvReady /\ fMockDb'
  /\ f \notin mapDb /\ Count(f) < MaxUse
  /\ SetCount(f, Count(f) + 1)
  /\ UNCHANGED <<mapDb, cdb, txns, disk>>

-----------------------------------------------------------------------------
(* Records.  A key that another transaction has written is locked.         *)
Locked(u, k) ==
  \E t \in DOMAIN txns \ {cdb[u].activeTxn} :
    txns[t].file = cdb[u].file /\ k \in txns[t].written \cup txns[t].erased

Exists(u, k) ==
  LET t == cdb[u].activeTxn
  IN  IF t # NULL /\ k \in txns[t].written \cup txns[t].erased
      THEN k \in txns[t].written ELSE k \in disk[cdb[u].file]

Put(u, k, written) ==
  LET t == cdb[u].activeTxn
      f == cdb[u].file
  IN  /\ ~Locked(u, k)
      /\ IF t = NULL
         THEN /\ disk' = [disk EXCEPT ![f] = IF written THEN @ \cup {k}
                                                        ELSE @ \ {k}]
              /\ UNCHANGED txns
         ELSE /\ txns' = [txns EXCEPT
                   ![t].written = IF written THEN @ \cup {k} ELSE @ \ {k},
                   ![t].erased  = IF written THEN @ \ {k} ELSE @ \cup {k}]
              /\ UNCHANGED disk
      /\ UNCHANGED <<env, mapFileUseCount, mapDb, cdb>>

(* Mutant: a record is put under no transaction.                           *)
WriteAtOnce(u, k, fOverwrite) ==
  /\ cdb[u] # NULL /\ ~cdb[u].fReadOnly
  /\ disk' = [disk EXCEPT ![cdb[u].file] = @ \cup {k}]
  /\ UNCHANGED <<env, mapFileUseCount, mapDb, cdb, txns>>

Write(u, k, fOverwrite) ==
  /\ cdb[u] # NULL /\ ~cdb[u].fReadOnly
  /\ fOverwrite \/ ~Exists(u, k)
  /\ Put(u, k, TRUE)

Erase(u, k) ==
  /\ cdb[u] # NULL /\ ~cdb[u].fReadOnly
  /\ Put(u, k, FALSE)

(* Mutant: a transaction may be begun within one.                          *)
TxnBeginAgain(u, t) ==
  /\ cdb[u] # NULL
  /\ t \notin DOMAIN txns
  /\ txns' = [x \in DOMAIN txns \cup {t} |-> IF x = t
                THEN [file |-> cdb[u].file, written |-> {}, erased |-> {}]
                ELSE txns[x]]
  /\ cdb' = [cdb EXCEPT ![u].activeTxn = t]
  /\ UNCHANGED <<env, mapFileUseCount, mapDb, disk>>

TxnBegin(u, t) ==
  /\ cdb[u] # NULL /\ cdb[u].activeTxn = NULL
  /\ t \notin DOMAIN txns
  /\ txns' = [x \in DOMAIN txns \cup {t} |-> IF x = t
                THEN [file |-> cdb[u].file, written |-> {}, erased |-> {}]
                ELSE txns[x]]
  /\ cdb' = [cdb EXCEPT ![u].activeTxn = t]
  /\ UNCHANGED <<env, mapFileUseCount, mapDb, disk>>

InTxn(u) == cdb[u] # NULL /\ cdb[u].activeTxn # NULL

(* Whatever commit and abort return, the library has ended the             *)
(* transaction, and activeTxn is cleared.                                  *)
EndTxn(u) ==
  /\ txns' = Restrict(txns, DOMAIN txns \ {cdb[u].activeTxn})
  /\ cdb' = [cdb EXCEPT ![u].activeTxn = NULL]
  /\ UNCHANGED <<env, mapFileUseCount, mapDb>>

TxnCommit(u) ==
  LET t == txns[cdb[u].activeTxn]
  IN  /\ InTxn(u)
      /\ EndTxn(u)
      /\ disk' = [disk EXCEPT ![t.file] = (@ \cup t.written) \ t.erased]

(* Also a commit that fails.                                               *)
TxnAbort(u) == InTxn(u) /\ EndTxn(u) /\ UNCHANGED disk

Close(u) ==
  /\ cdb[u] # NULL
  /\ SetCount(cdb[u].file, Count(cdb[u].file) - 1)
  /\ cdb' = [cdb EXCEPT ![u] = NULL]
  /\ txns' = Restrict(txns, DOMAIN txns \ {cdb[u].activeTxn})
  /\ UNCHANGED <<env, mapDb, disk>>

(* CDBEnv::Flush closes the files nobody uses, and forgets them.           *)
FlushFile(f) ==
  /\ fDbEnvInit
  /\ Entry(f) /\ Count(f) = 0
  /\ mapDb' = mapDb \ {f}
  /\ mapFileUseCount' = Restrict(mapFileUseCount,
                                 DOMAIN mapFileUseCount \ {f})
  /\ UNCHANGED <<env, cdb, txns, disk>>

-----------------------------------------------------------------------------
(* Salvage reads the dump line by line.  At its end a key reads as "", and *)
(* the value keeps what it was.                                            *)
LineAt(d, i, before) == IF i <= Len(d) THEN d[i]
                        ELSE IF i = Len(d) + 1 THEN EmptyLine ELSE before

FirstLine(d) ==
  LET skip[i \in Nat \ {0}] ==
        IF i > Len(d) \/ d[i] = "HEADER=END" THEN i + 1 ELSE skip[i + 1]
  IN  skip[1]

(* Mutant: keys and values are read by turns, whatever the header.         *)
PairsOfWhole(d) ==
  LET pairs[i \in Nat \ {0}] ==
        IF i > Len(d) \/ d[i] = "DATA=END" THEN << >>
        ELSE <<<<d[i], LineAt(d, i + 1, EmptyLine)>>>> \o pairs[i + 2]
  IN  pairs[1]

PairsOf(d) ==
  LET pairs[p \in (Nat \ {0}) \X Lines] ==
        IF p[1] > Len(d) + 1 THEN << >>
        ELSE LET keyHex   == LineAt(d, p[1], EmptyLine)
                 valueHex == LineAt(d, p[1] + 1, p[2])
             IN  IF keyHex = "DATA=END" THEN << >>
                 ELSE <<<<keyHex, valueHex>>>> \o pairs[<<p[1] + 2, valueHex>>]
  IN  pairs[<<FirstLine(d), EmptyLine>>]

-----------------------------------------------------------------------------
(* The process ends; recovery leaves what was committed.                   *)
Crash ==
  /\ fDbEnvInit' = FALSE /\ fMockDb' = FALSE /\ dbenv' = "fresh"
  /\ mapFileUseCount' = << >> /\ mapDb' = {} /\ txns' = << >>
  /\ cdb' = [u \in Users |-> NULL]
  /\ UNCHANGED disk

DbInit ==
  /\ fDbEnvInit = FALSE /\ fMockDb = FALSE /\ dbenv = "fresh"
  /\ mapFileUseCount = << >> /\ mapDb = {} /\ txns = << >>
  /\ cdb = [u \in Users |-> NULL]
  /\ disk = [f \in Files |-> {}]

DbNext ==
  \/ Reset \/ MakeMock \/ EnvShutdown \/ Crash
  \/ \E u \in Users :
       \/ EnvNotReady(u)
       \/ \E f \in Files :
            \/ \E ro, create \in BOOLEAN :
                 Share(u, f, ro) \/ OpenFile(u, f, ro, create)
            \/ OpenFileFails(u, f) \/ ConfigureMockFails(u, f)
       \/ \E k \in Keys : \/ \E over \in BOOLEAN : Write(u, k, over)
                          \/ Erase(u, k)
       \/ \E t \in Txns : TxnBegin(u, t)
       \/ TxnCommit(u) \/ TxnAbort(u) \/ Close(u)
  \/ \E f \in Files : FlushFile(f)

DbSpec == DbInit /\ [][DbNext]_dbVars

-----------------------------------------------------------------------------
(* The variables have their types.                                         *)
DbTypeOK ==
  /\ fDbEnvInit \in BOOLEAN /\ fMockDb \in BOOLEAN
  /\ dbenv \in {"fresh", "open", "failed", "closed"}
  /\ DOMAIN mapFileUseCount \subseteq Files
  /\ \A f \in DOMAIN mapFileUseCount : mapFileUseCount[f] \in Nat
  /\ mapDb \subseteq Files
  /\ cdb \in [Users -> Objects \cup {NULL}]
  /\ DOMAIN txns \subseteq Txns
  /\ \A t \in DOMAIN txns : txns[t] \in
       [file : Files, written : SUBSET Keys, erased : SUBSET Keys]
  /\ disk \in [Files -> SUBSET Keys]

(* mapFileUseCount is the number of CDB objects on a file, whatever        *)
(* constructors failed before: a count too low lets Flush close a handle   *)
(* that is in use, one too high keeps the environment from being closed.   *)
(* A mock database is left out, whose configuration may leak a use.        *)
UseCountIsUsers ==
  ~fMockDb => \A f \in Files : Count(f) = Cardinality(UsersOf(f))

(* The handle that a CDB object shares is open, in an environment that is. *)
HandleOpenWhileUsed ==
  \A f \in Files : UsersOf(f) # {} =>
    f \in mapDb /\ fDbEnvInit /\ (~fMockDb => dbenv = "open")

(* Each open transaction is the activeTxn of one object, on its file; the  *)
(* locks of any other would never be released.                             *)
TxnsAreOwned ==
  /\ \A t \in DOMAIN txns : Cardinality({u \in Users :
       InTxn(u) /\ cdb[u].activeTxn = t /\ cdb[u].file = txns[t].file}) = 1
  /\ \A u \in Users : InTxn(u) => cdb[u].activeTxn \in DOMAIN txns

(* Whatever fails between opening and closing, what the environment counts *)
(* and keeps is what its users hold: uses, open handles and transactions.  *)
UsesAccountedFor ==
  DbTypeOK /\ UseCountIsUsers /\ HandleOpenWhileUsed /\ TxnsAreOwned

(* A file changes by one record outside transactions, which none of them   *)
(* has touched, or by the whole of a transaction, which ends with it; a    *)
(* crash, an abort and a close change nothing.                             *)
FilesChangeWhole ==
  [][\A f \in Files : disk'[f] # disk[f] =>
       \/ \E k \in Keys :
            /\ disk'[f] \ {k} = disk[f] \ {k}
            /\ \A t \in DOMAIN txns : txns[t].file = f =>
                 k \notin txns[t].written \cup txns[t].erased
       \/ \E t \in DOMAIN txns \ DOMAIN txns' :
            /\ txns[t].file = f
            /\ disk'[f] =
                 (disk[f] \cup txns[t].written) \ txns[t].erased]_dbVars

(* Salvage, which asserts that the file is not in use, reads every pair of *)
(* lines between the header and the end, and nothing else but, of a dump   *)
(* that breaks off, one pair with an empty half.                           *)
SalvageReadsThePairs ==
  (\A f \in Files : ~Entry(f)) =>
  \A d \in Dumps :
    LET at(line) == {i \in 1 .. Len(d) : d[i] = line}
        least(S) == CHOOSE i \in S : \A j \in S : i <= j
        first == least(at("HEADER=END"))
        ends  == {i \in at("DATA=END") : i > first /\ (i - first) % 2 = 1}
        last  == IF ends = {} THEN Len(d) + 1 ELSE least(ends)
        whole == (last - first - 1) \div 2
        got   == PairsOf(d)
    IN  IF at("HEADER=END") = {} THEN got = << >>
        ELSE /\ Len(got) \in whole .. whole + (IF ends = {} THEN 1 ELSE 0)
             /\ \A i \in 1 .. whole :
                  got[i] = <<d[first + 2 * i - 1], d[first + 2 * i]>>
             /\ \A i \in whole + 1 .. Len(got) :
                  EmptyLine \in {got[i][1], got[i][2]}

(* "assert(mapFileUseCount.count(strFile) == 0)" (db.cpp:149), and "This   *)
(* must be called BEFORE strFile is opened." (db.h:50): the assertion of   *)
(* Verify holds of a file that has not been opened.                        *)
VerifyMayBeCalled == \A f \in Files \ mapDb : ~Entry(f)

(* "CDBEnv::MakeMock: Error %d opening database environment." is thrown    *)
(* (db.cpp:140) when it does not open: what counts as initialised is open. *)
InitialisedMeansOpen == fDbEnvInit => dbenv = "open"
=============================================================================
