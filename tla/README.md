# A verification development of ChainX

This directory holds TLA+ specifications of the parts of the ChainX repository
that carry its own logic, the TLC configurations that check them on small
instances, and TLAPS proofs of the properties that matter most for every size.
Paths such as `Contracts/chainx.sol` are relative to `src/`.

## 1. The system

The repository is a collection rather than one program: smart contracts
(Solidity), the wallet and the signature cache of a C++ node, the governance
and masternode part of that node with its RPC commands, the wire format of a Go
node, and a Python masternode tool. Most of the C++ files are excerpts: the
classes they implement are declared, and partly defined, in files the tree does
not have. What is missing is modelled from its uses, or left out.

| Component | State | Operations | Interacts with | Hard part |
|---|---|---|---|---|
| Multi-signature wallet, `Contracts/Base/MultiSigWallet.sol` | owners (list and mapping), requirement, transactions, confirmations | submit, confirm, revoke, execute; add, remove, replace owner, change requirement by calling itself | calls any contract, which may call back | re-entrance, calls that fail, confirmations of former owners |
| Exchange, `Contracts/chainx.sol` | amounts filled and cancelled per order | fill, cancel, fillOrKill, batches, fillUpTo | proxy, tokens | rounding, partial fills, all-or-nothing batches |
| Proxy, `Contracts/Base/Proxy.sol`, `Ownable.sol` | owner, authorized addresses (mapping and array) | add and remove authority, transferFrom | exchange, tokens | two records of one set |
| Standard token, `Contracts/Base/StandardToken.sol` | balances, allowances | transfer, transferFrom, approve | proxy | wrapping, zero, self-transfers |
| ChainX token, `Contracts/ChainX Token/`, `StandardTokenWithOverflowProtection.sol` | balances, supply, ether held | deposit, withdraw and the ledger's | any contract it pays | sending ether before returning |
| Token registry, `Contracts/Base/TokenRegistry.sol` | address array, metadata, name and symbol indexes | add, remove, rename | - | indexes that must follow the data |
| Simple crowdsale, `Contracts/Base/SimpleCrowdsale.sol` | stored order, two flags | init, set allowance, buy | ChainX token, exchange | a chain of calls in which two contracts check one signature |
| Crowdsale, `Contracts/ICO/` | invested amounts, tokens sold, caps | invest, preallocate, unlock | token by allowance | the cap is read from one account's allowance, tokens move from another's |
| Key store, `Wallet/crypter.cpp` | plain keys, encrypted keys, master key, flags | lock, unlock, add, get, encrypt all | wallet | one-way change to encrypted, half-done encryption, tests outside the lock |
| Wallet keys, `Wallet/wallet-tx.cpp` | key metadata, time of the first key, the file | generate, add, load | key store, database | memory before disk |
| Database, `Wallet/db.cpp`, `db.h` | environment, handles and their use counts, transaction | open, verify, salvage, read, write, transactions | wallet | use counts, nested transactions |
| Signature cache, `chainx-ui.id/consensus/sigcache.cpp` | bounded set | get, set, erase | verifying threads | eviction, concurrent misses |
| Block chain RPC, `Maternodes/ChainX-MN/rpcclient.cpp` | the node's tree of blocks, active chain, memory pool | queries; invalidate, reconsider | validation, pruning | commands that let go of the lock half way |
| Script headers and library, `chainx-ui.id/script.h`, `consensus/chainxconcensus.cpp` | a script | push, read, find and delete; verify an input | interpreter | borders of lengths and numbers |
| Governance, `Maternodes/ChainX-MN/governance.h`, `rpcgovernance.cpp` | rate buffers, objects, seen hashes, votes, orphan votes | time stamps, votes, prepare, submit, list, diff | masternodes, peers | several calls of the manager in one command, rates |
| Masternode activation, `Maternodes/activemasternode.cpp`, `rpcmasternode.cpp` | activation state | manage state, ping, start | governance, wallet | a state machine driven by a timer and by a command, without a lock |
| Transaction tool, `Maternodes/SRC/chain-tx.cpp` | registers, transaction | load, set, add, delete, sign | - | order of commands, indexes |
| Tool connection, `Maternodes/ChainX.intf.py` | tunnel, configuration list, connection | open, fail over, close, call | node | thread start-up, retries |
| Wire format, `Blockchain/blockchain.go` | - | read and write numbers and strings | - | limits |

`PROJECT.json` lists the components with the ones that are left aside (vendored
JSON parser, build files, declarations, console dialogues), and under "hazards"
the places where this code can go wrong in ways a test would hardly reach.

What makes each of them correct:

* wallet: a transaction's call takes effect once if it is executed and never
  otherwise; nothing runs without `required` confirmations of present owners;
  owner records agree and the requirement can be met; ether is accounted for.
* exchange: an order is never filled and cancelled beyond its amount; the maker
  gets its limit price over any number of fills; tokens are conserved and leave
  an account only within its allowance; multi-order calls do what they say.
* proxy and registry: the several records of one fact agree.
* tokens and crowdsales: every ChainX token can be turned back into ether; what
  a crowdsale sold is what it was allowed; a sale that is open can sell.
* key store and wallet: a store is plain or encrypted, not both; every key
  handed out can be had again, after a lock, an encryption or a restart.
* database: no handle in use is closed; a failed transaction leaves nothing.
* signature cache: never a false positive, never beyond its size.
* scripts and wire format: what is written reads back, in its only form.
* governance: the buffer is the last five time stamps; its rate follows; an
  object that is marked as seen is there, or the manager has refused or removed
  it; one vote of each masternode and signal counts; no query passes over an
  object that was there in time.
* masternode: it comes up only as configured, pings in time, and is announced
  anew only when it has to be.
* block chain RPC: the best chain is active, the answers are of one chain.
* transaction tool: versions, lock times and indexes stay in their ranges;
  signatures last as long as what they cover.
* tool connection: a call ends, tries each configuration at most once, and gives
  up for want of a connection only when it has tried all.

## 2. Modules

| Module | Models | How |
|---|---|---|
| `MultiSigWallet` | the wallet contract | storage as the record `store`, calls in progress as `stack` |
| `MCMultiSigWallet`, `MCWalletSale` | - | accounts and requests for TLC; the wallet and the crowdsale, one of them at work in a behaviour |
| `SumTheorems` | - | lemmas on sums over finite sets, used by the next and others |
| `MultiSigWalletProofs` | - | theorems of the wallet and of the crowdsale |
| `AddressArray` | the removal loop of proxy and registry | one operator on a sequence |
| `Proxy` | proxy and ownership | variables of the contract, one action per method |
| `StandardToken` | the ERC20 ledger | operators on a ledger value |
| `Exchange` | the exchange in its world: EXTENDS `Proxy` and `StandardToken` | `book` (records and ledgers), `tx` (a multi-order call in progress), `now` |
| `MCExchange` | - | orders and batches for TLC |
| `SimpleCrowdsale` | the ChainX token and the simple crowdsale: EXTENDS `Exchange` | the sale's storage and the token's supply beside the exchange's world |
| `TokenRegistry` | the token registry | its four records as variables, one action per method |
| `ContractsProofs` | - | theorems of proxy, exchange, sale and registry |
| `Crowdsale` | crowdsale, allocation, its token, the vault | the contracts' variables, one action per method |
| `MCContracts` | - | batches, sale and registry for TLC, one of them at work in a behaviour |
| `KeyStore` | key store and wallet keys, with the file | the classes' fields as variables, one step per block under `cs_KeyStore`, `pc` for calls in progress |
| `RateWindow` | what the rate check promises | abstract: the sequence of the last `Size` time stamps and their rate |
| `RateBuffer` | `CRateCheckBuffer` | the fields as variables, `AddTimestamp` as the action, the getters as operators |
| `RateBufferProofs` | - | its theorems |
| `Governance` | the governance commands on the manager | `rpc` says where each thread is in its command; the manager's maps are variables; looks its rate up in `RateWindow` |
| `ActiveMasternode` | the node's own masternode | the class's fields; `at` says where each caller of ManageState is |
| `Node` | the two together | EXTENDS `Governance`, instantiates `ActiveMasternode` on the same list of masternodes |
| `MCNode` | - | `Node` and `RateBuffer` for TLC |
| `NodeProofs` | - | theorems of both |
| `ChainRpc`, `MCChainRpc` | the block chain commands | block index, tip and pool as variables, queries as operators |
| `WalletDb` | database environment and objects | counts, handles, transactions and files as variables |
| `MCWalletStore` | - | key store and database for TLC, one of them at work in a behaviour |
| `WalletProofs` | - | theorems of key store and database |
| `Verifier` | what callers of VerifySignature are promised | abstract: a call is answered, truly |
| `SignatureCache` | the cache and its checker | `setValid`, and where each thread is in VerifySignature |
| `Script` | `CScript`, `CScriptNum` | the script is the variable; pushes, reading and deleting are operators on sequences |
| `ConsensusLib` | the library's call | one action, its check as an operator |
| `Wire` | the Go node's encoding | a stream of bytes between a writer and a reader |
| `MCConsensus` | - | the last four for TLC, one of them at work in a behaviour |
| `ConsensusProofs` | - | theorems of block chain RPC, cache and library, the refinement of `Verifier` among them |
| `TxTool` | `chainx-tx` | one action per command; a run's output may be the next one's input |
| `RpcFailover` | the masternode tool's connection | the mutual recursion of open and switch as `pc` and a stack of reasons |
| `MCTools`, `ToolsProofs` | - | the last two for TLC; theorems |

### MultiSigWallet

The fields of `store` are the contract's storage variables; mappings to bool
are sets, `balance` is the ether the contract holds. Each public method is an
action of the same name. A method that throws has no effect, so its action is
not enabled; a method that reports failure by returning (executeTransaction of
a transaction that is not confirmed) is a step without effect.

`executeTransaction` calls foreign code with all the gas. The action pushes a
frame on `stack` with the storage a failure returns to; while the frame is
there, only contract accounts may call (`MayCall`), and they may call any
method; `CallReturns` and `CallFails` pop it. When the destination is the
wallet, the frame is answered by the method that the transaction's data name:
owner management, which nobody else may call; `executeTransaction` of any
transaction; and, when the wallet is one of its own owners,
submit, confirm and revoke. `Run` keeps the order of the source: the executed
flag is raised before the call, so the frame's snapshot has it, and lowered
when the call fails.

`received` and `performed` are history: ether paid in, and how often the call
of a transaction is in effect. They are part of the snapshot, so a call that
is undone does not count.

Left out: events, the callers of the constant getters, and the block gas limit
as a number (running out of gas is `CallFails`).

### Proxy, StandardToken, Exchange

`authorized` and `authorities` are the proxy's two records; `SwapOut` (in
`AddressArray`) is the removal loop with its swap. The token ledger is a value
with the operators
`CanTransfer`, `Transfer` and so on; `CanTransferFrom` is the condition the code
tests, including that the receiver's balance must grow, on words that wrap at
`Modulus`.

`fill` is split as its code is: `Refused` are the early returns that log an
error and give 0, in particular with `shouldCheckTransfer`; `Fillable` says that
every assertion holds, with the transfers made one after the other on the
ledgers the previous left; if neither holds the call throws. `AfterFill` is the
effect. A call on one order is one step. `batchFill`, `batchFillOrKill`,
`batchCancel` and `fillUpTo` are transactions: a step begins them, one `...Turn`
per turn of their loop follows, `Commit` or `Abort` ends them, and nothing else
happens meanwhile. `Abort` (a throw, or no gas) returns to the book the call
began with. That the loop is a sequence of steps lets properties speak of what a
call has done so far, and lets the proofs go through without induction over the
batch. The proxy's methods, `approve`, `transfer` and transfers by another
contract the proxy's owner authorized are the exchange's surroundings.

Abstractions: an order is its own key (the hash covers all its fields, and is
taken to be free of collisions); a signature is the membership of the order in
`Signed`; token contracts are those of the repository and do not call back;
`SafeMath`, which the tree lacks, throws on overflow. `given` is history: the
tokenM the maker of an order has paid. `fill` answers an amount of tokenT, on
which `fillOrKill` and `fillUpTo` rely, where its comment says tokenM.

### SimpleCrowdsale

The sale stores one order with its maker's signature, and its fallback function
has the exchange fill that order with the ether it is sent. There is one
signature and there are two messages: `init` wants "CHX Signed Message" before
the hash (`SaleWords`, SimpleCrowdsale.sol:197), `fill` of the exchange wants
"chainxSigned Message" (`ExchangeWords`, chainx.sol:442). So a signature is a
pair of an order and the words of its message; the sale keeps the one it was
given, and the exchange refuses it. `Affordable` is everything else that the
fallback function asks for, through deposit, `FilledEntirely` and the transfer
of what was bought; `Buyable` adds the signature, and no state satisfies it
(`NoPurchase`). A call of the fallback function therefore always throws and is
no step.

What is left does change state: `Initialize` and `SetTokenAllowance` approve
tokens of the sale to the proxy, `Deposit` and `Withdraw` turn ether into
ChainX tokens and back, and beside them others fill and cancel the same orders
on the exchange, with those tokens, approve, and change the proxy's
authorities. The ChainX token's ledger is one of the exchange's, `supply` its
total supply and the ether it holds. It throws where the standard token answers
false, which is the same to its callers here, and it lets a transfer of 0
through, which moves nothing.

Abstractions: the source does not compile as it stands (`init` reads two
entries beyond its array, the constructor assigns to a type); it is taken as
its comments and its other lines mean it. The ether sent by `withdraw` comes
with too little gas to call back.

### TokenRegistry

Its variables and specification are named for the registry (`registryOwner`,
`RegistrySpec`), because the exchange's proxy has an owner of its own where the
two are in one model. The metadata of a token is a record in which url,
decimals and the two hashes are one value, `data`. The names are strings that
may be given to several tokens and taken again; nothing refuses that, nor the
empty address, which can be added any number of times because an entry for it
counts as missing. `RemoveToken` reads the names through the storage reference,
before the entry is deleted, as the source does.

### Crowdsale

`Crowdsale.sol` breaks off after `buyWithCustomerId`. What it does not have is
any of its possible results: the state (`Welcome`), the policy (`Invest`), the
price (`TokenAmounts`: `InvestInternal` refuses 0 tokens, and takes no ether if
the price says so). Any account may receive tokens, the vault, the beneficiary
and the owner too. The cap is the allowance of the crowdsale's owner while the
tokens come from the beneficiary: `GetTokensLeft` and `AssignTokens` speak of
two accounts, and the cap falls with the sales only where they are one. The
products of `Preallocate` wrap at `Modulus`, as they do in the run. `granted`,
`prepaid` (wei of preallocations) and `freebies` (times that an account without
money in the books was given tokens for no ether, and was counted) are history.
`TimeVault.sol` assigns `CHX_token`, which it does not declare, for `_token`.

### KeyStore

The variables have the names of the fields they model. A cipher text is the
master key it was made with; it decrypts under that key only, which is what the
test in `DecryptKey` of the public key ensures. What a call does while it holds
`cs_KeyStore` is one step. What it does after that is another, in which
`pc` says where the thread is: `Lock` has three (`Lock`, `ForgetMasterKey`,
`SetOnlyMixingAllowed`), `Unlock` two, and a plain key is in memory
(`GenerateKey`) before it is written (`WriteKey`). `AddCryptedKey` of the wallet
is called while the store's lock is held, so an encrypted key and its record are
one step, which may fail to write. Threads at a step of a call that needs
`cs_wallet` exclude each other (`HasWallet`), as `AssertLockHeld` demands.

`promised` is history: the keys of the file at the first start and those
`GenerateNewKey` has returned. `Restart` may come at any time; it keeps the
file, and `LoadRecord` brings the records back one by one in any order, the
metadata with `LoadKeyMetadata`, before anything else runs.

External, since the tree has only their callers: the records themselves and
that a key has one, which a write replaces; that a failing write changes
nothing; `IsCrypted` and `IsLocked` of `crypter.h`; and the caller of
`EncryptKeys`, which gives it a transaction in `pwalletdbEncryption`, holds
`cs_wallet`, commits on success and goes no further on failure. Left out:
wallets without a file, watch-only scripts (a fresh key has none), and the
cipher.

The model shows two things that no text of the repository speaks of. `Lock` and
`Unlock` write `fOnlyMixingAllowed` outside the lock, so an unlock for mixing
only that overlaps a `Lock(false)` may leave the store unlocked for everything.
And `Lock` or `Unlock` of a store without keys makes it encrypted with no master
key, after which it refuses every key until the next start.

### RateWindow, RateBuffer

The ring has equal ends both when it is empty and when it is full, and
`fBufferEmpty` says which. `GetCount` finds the number of elements by arithmetic
on the ends, `GetMinTimestamp` and `GetMaxTimestamp` by walking until the end
comes (`Turns`, the turns of their do-while loop, which are never 0). `Contents`
is the refinement mapping: the elements from the start on, as many as `GetCount`
says.

`GetRate` is the pair of numbers that the code divides, so that floating point
is left out; a span of 0 stands for the 1.0e10 the code answers then. Time
stamps are assumed not to be negative: `GetMaxTimestamp` starts at 0 and would
miss negative ones. The serialisation of the buffer is left out. The ring runs
in `node`, at the size it has in the source, in behaviours of its own;
`Governance` looks its rates up in the window that the ring implements.

### Governance, ActiveMasternode, Node

Each call of the governance manager takes its lock for itself, so a command is
as many steps as it makes calls: `submit` checks the rate, counts, marks the
object as seen, relays it and adds it (`Submit` to `SubmitAdd`), a vote is one
step per entry of the configuration (`VoteOne`), and `list` and `diff` read the
time of the last query in a step before the one that uses it (`StartQuery`,
`Query`). In between come peers (`ReceiveObject`), the manager's maintenance,
which removes objects (`CheckAndRemove`), tries votes again or lets them expire
(`CheckMasternodeOrphanVotes`) and sets the flag that `list valid` goes by
(`SetCachedValid`), changes of the list of masternodes, and restarts. `Restart`
writes the manager's maps and reads them back through `SerializationOp`, which
clears them when another version has written the file.

`governance.cpp` is not in the tree. Taken from its uses: the manager takes an
object, with some of the votes that waited for it, or refuses it, and `submit`
does not look at which (rpcgovernance.cpp:218); a vote on a known object is
recorded or refused, one on an unknown object fails and waits under its own
hash. `getvotes` lists every vote recorded, old ones included (`votes`); what
the counts of `get` and `getcurrentvotes` speak of is the last one of each
masternode, object and signal (`current`, `Slot`). A trigger's rate must be
below the limit, and `GetAllNewerThan` answers the objects whose time is not
older. A vote's time stamp and signature are left out, and so is how the
manager chooses among waiting votes of one slot: any of them may count
(`Counting`).

`told`, `filtered`, `late`, `dropped` and `relayed` are history. `told` are the
objects that queries have shown, `filtered` those that a query has found and its
filters have left out while the time of the last query moved on all the same;
`late` are objects that come when a query has passed the time they carry;
`dropped` are those the manager refused or removed, and those that a stop of the
node met between the mark and the entry. The loop of `vote-alias` has lost its
head in the source (line 443); what is left of its body is the loop of
`vote-many` for one alias, and so it is modelled.

`ManageState` takes no lock and is called by the node's thread and by
`masternode start`. Every look at the state and every change of it is a step of
its own, so that another thread's call or command may come between any two:
`ManageState`, `WaitForSync`, `LookAtState`, `CaughtUp`, `LookAtType`,
`Initial`, `IsRemote`, `IsLocal`, `ManageStateRemote`, `LocalAsRemote`,
`IsStarted`, `ManageStateLocal`, `PingCheck` and `PingSend`; the command is
`StartCommand` and `Restarted`, which look at the state and set it back. The
two starts are not in the tree; by the code after them they leave the state
started, with the pinger on, or say why not. `rebroadcast` is history: a
masternode was announced anew although its remote start had succeeded.

### ChainRpc

The block index is the set of headers known, with the sets of blocks that have
each status flag; the tree itself is constant, and `AcceptHeader`,
`AcceptBody`, `AcceptTx` and `Prune` let it become known and be pruned. The
queries run under `cs_main`, so they are operators of one state and the
properties relate them to it and to each other. `invalidateblock` and
`reconsiderblock` let go of the lock before they call ActivateBestChain:
`InvalidateBlock` and `ReconsiderBlock` are the first half, `FinishCommand` the
second (lines 1005-1013 of the one command, 1044-1050 of the other);
ActivateBestChain itself is one step. A block that arrives is activated by the
thread that took it, in the same way.

External: what validation does (every body is valid, transactions of a block
that leaves the chain return to the pool as far as they fit, a block whose body
has been pruned cannot be disconnected and the node stops, `Running`). Left out:
difficulty, the listing of the pool, statistics, verifychain and version bits.

### WalletDb

The constructor of `CDB` holds `cs_db` and is one step: `Share` a handle or
`OpenFile`, with `OpenFileFails` and `ConfigureMockFails` for its two throws,
which do not take back the same things. Records are keys only. Inside a
transaction they go to `txns` until it ends, and lock the key for others; the
library's results are arbitrary, and it ends a transaction whatever commit or
abort return. `Close` and `Flush` are declared only. `PairsOf` is the loop of
`Salvage` over the lines of a dump, including what getline leaves in its
variable at the end.

### SignatureCache, Verifier

`VerifySignature` is a step per lock: `Get` under the shared one, `Erase` or
`Set` under the exclusive one, `Verify` under none. The hash is taken to be free
of collisions and stands for the concatenation it is made of, which has no
lengths: an entry is a sequence, and `CacheAssumption` says what makes it
unambiguous, that hashes have one length and a key's first byte announces its
own. Sizes are counted in entries, not bytes, without the table's own share.
`nMaxCacheSize` is computed in unsigned arithmetic of `SizeT` values, so a
negative option is a limit near the largest one.

### Script, ConsensusLib, Wire

A byte has `Radix` values and the push opcodes begin at `OP_PUSHDATA1`, small
in the run: with 16 values of a byte, pushes of 2, 3, 15, 16, 255 and 256 bytes
are on both sides of the borders of all four forms, and short scripts have the
smallest and the largest numbers. `PushInt` pushes a number in its shortest
form; `PushScriptNum` pushes a `CScriptNum` as the bytes it serialises to,
which is minimal as data but never an opcode, also for the small numbers.
`FindAndDelete` is the loop of the source, which deletes by bytes and steps by
instructions; `scrypt/script.h` is a copy of the header, and the model is of
both.

In `ConsensusLib` a transaction is the sizes of the fields the stream is asked
for, and a source or destination that is NULL is the stream's first throw. In
`Wire` an integer's byte carries one bit; `encoding/binary` is external. Line
81 of `blockchain.go` is garbled, and `ReadVarint63` is modelled as its 31-bit
sibling with its own limit. A write may fail after any of its bytes
(`PutPart`), and a stream may end anywhere (`Cut`): in the state `cut`, what is
read is what was written or an error.

### TxTool, RpcFailover

An output's script is the set of keys that spend it together, one key or a
multisignature of all; a signature is the key that made it and the digest it
signs. `Digest` says what the hash types cover, and so which later command
spoils which signature: `locktime` and `nversion` spoil every one, `in` those
without anyonecanpay, an output that is added those of ALL, one that is deleted
those of ALL and those of SINGLE whose own output it is or moves; an input that
is deleted spoils those without anyonecanpay and moves those of SINGLE from
their output. Signing never spoils the good signature of a key, unless
`prevtxs` gives a wrong script for the input. The versions and lock times a
user asks for lie on both sides of their ranges. A command that throws ends the
run before it prints. `Start` takes an empty transaction or the output of the
run before, whose other registers know other keys; transactions of other origin
are not handed to the tool.

In the masternode tool open and switch_to_next_config call each other. `opens`
is the stack of calls that wait for a switch and why: open returned False, the
connection was refused, or the remote call lost it. `OpenInternal` goes up to
the proxy, `Connect` from there; either may end the whole call, because the
user cancels or an exception comes that open does not know (`cut`). The class
has no lock, so the list may change under a call (`ApplyNewCfg`); what such a
call does is modelled, down to the recursion that finds its starting point no
more and that Python ends (`TooDeep`), and the properties speak of the calls
that were not `overtaken`. The decorator `control_rpc_call` is partly lost with
the class's head and is modelled from what the methods under it do. An attempt
has any outcome; that the tunnel's thread announces itself before its server
exists (line 94) is one of the reasons for a refusal.

## 3. Runs

The bounds are `MaxOwnerCount`, `MaxTx`, `MaxDeposit` of the wallet; `MaxTime`,
`Values`, `Batches`, `Approvals`, `Gifts` of the exchange; `MaxSupply` and
`Savers` of the ChainX token, `MaxAddresses` of the registry, `MaxTime` of the
crowdsale; `MaxTime` and the number of keys of the key store; `VotedOn`,
`Loads`, `Ballots` and `MaxTime` of the node; the tree of `ChainRpc`; `MaxUse`
and the dumps of `WalletDb`; `MaxInputs`, `MaxOutputs`, `MaxCommands`,
`Versions`, `Locktimes` of `TxTool`; `MaxDepth` of `RpcFailover`, which stands
for Python's limit on recursion; `MaxLen` and `MaxSent` of `Script` and `Wire`.

| Run | Question | Instance |
|---|---|---|
| `wallet` | owner records, ether, views, frozen confirmations, exactly-once and quorum under every method; do the crowdsale's books add up | 2 users, 1 contract, 3 owners, 2 transactions of 12 kinds, those that call back into the wallet's own methods among them; a wallet that owns itself is the last of its first owners; 1 investor who owns the crowdsale, the beneficiary apart, the vault and the team as receivers too, words of 3 values so that the products of a preallocation wrap |
| `wallet_null_owner` | a check of the code that the code breaks | as small as the counterexample |
| `exchange` | remainder, price, supply, allowance; the proxy's two records | 3 parties, all of which call; one order above and one below the rounding limit, with fees in the token one of them trades; words of 4 bits; 2 authorities |
| `exchange_tested_transfers` | a claim of a comment that the code breaks | one order |
| `contracts` | what multi-order calls have done after every turn; is the ChainX token backed by ether; do the registry's records agree | batches of two and three, one order twice, an order that is refused, an unsigned one; a rounded and an exact order stored by the sale and traded by three others, one of whom turns ether into tokens and back; 3 addresses of tokens with 0 among them, 2 texts |
| `open_sale` | a claim of a comment that the code breaks | the same sale |
| `wallet_store` | can a returned key be lost, the store be plain and encrypted, or be under two master keys; are counts, handles, locks and files consistent after failures and crashes | 2 threads, 3 keys, 2 master keys, 2 times, restarts and failures at any point; 2 files, 2 users, 2 transactions, 2 keys; all dumps of up to four lines, and those of five that have one kind of record only |
| `node` | are objects marked, counted and added together, votes and reports true, queries without gaps; does only a node that may become a masternode, pinging in time; is the ring the last five time stamps, and its rate theirs | 2 threads; a proposal and a trigger, 2 masternodes, a configuration with a good and a bad entry, 2 signals, 2 outcomes, 2 times; 5 mixes of commands, the masternode and the ring among them; the ring of size 5 with 3 time stamps in any order, every position of both ends |
| `node_rebroadcast` | a claim of a comment that the code breaks | the same node |
| `chain_rpc` | do the queries agree with the chain and with each other, and does the best chain become active | 6 blocks on 2 branches, the longer one with less work, 4 transactions with a double spend, 2 threads, pruning |
| `consensus` | does the cache show, do scripts and wire format read back | 2 threads, 4 signatures of which two are ambiguous but for their key; limits -1, 0 and 1; bytes of 4 bits for scripts, with pushes of up to 256 of them; bytes of 2 bits for the wire format, one of which is the integer's |
| `tools` | do signatures survive other parties' commands; does a call end, with each configuration tried | 2 inputs, one of one key and one of two, 2 outputs, 2 parties, versions and lock times inside and outside their ranges, 9 commands; lists of 0 to 3 configurations, which may change under a call; recursion to depth 4 |

Three owners are enough to meet both ends of the removal loop and a position in
the middle, and two calls nested in each other are the smallest re-entrance;
for deeper ones the wallet's properties are proved. Two orders are enough for
their records and ledgers to interfere, three batch entries for an order to
come twice with another between. Two threads are enough for the key store, the
cache and the commands, since a third could only repeat what one of them does
to the other; with three keys one can be stored, one half written and one new.
Two branches are enough for a reorganisation in either direction, and a block
between fork and tip for a tip that is invalid by its ancestor. Three
configurations are the smallest list with one that is neither the first nor the
last to be tried. The constants the source fixes (`MAX_OWNER_COUNT`, 2^256,
1000, 256) are parameters, small in the runs and arbitrary in the proofs.

Where a module has many things to say of one idea, its run checks them as one
property whose conjuncts are defined, and stated, one by one: the answers of
the block chain commands (`AnswersDescribeTheChain`), what a database
environment keeps (`UsesAccountedFor`), the governance records
(`RecordsAgree`), the masternode's states (`ActivationIsOrderly`), the tools
(`SignaturesLast`, `TransactionIsSound`, `FailoverIsThorough`,
`OneRoundPerCall`) and the two formats (`ScriptsReadBack`,
`ReadingUndoesWriting`); so do the key store (`KeysOfOneKind`) and the
contracts (`RegistryAgrees`, `CrowdsaleAddsUp`). The invariants that only the
proofs need, and the types they show for every size (section 4), are not among
the runs'.

`MCConsensus`, `MCTools`, `MCContracts`, `MCWalletSale`, `MCWalletStore` and
the loads of `MCNode` put parts that share no step in one run: a variable that
never changes says which part is at work, so the state spaces add up instead of
multiplying. In `MCContracts` the orders for sale are left alone where the
batches are at work, and around the sale only the approvals that its orders
need are given. The run `exchange` has calls on one order only (`SingleSpec`).

The wallet's runs set `CHECK_DEADLOCK FALSE`: once all `MaxTx` transactions are
executed nothing is left to do in the model, which is its bound and not the
contract's. The same holds for `consensus` once `MaxSent` values or `MaxLen`
bytes are reached, and `chain_rpc` stops where the node does (`Running`).

Fairness is assumed where the code's own threads carry something on. A thread
of the node that has begun a command finishes it (weak fairness of
`FinishCommand` of each thread in `ChainRpc`, of `Step` in `SignatureCache`,
where calls return in the code without waiting for another), and an attempt of
the masternode tool comes to an end because connections time out after 5
seconds and users answer (weak fairness of `Proceed`). That somebody starts a
command is not assumed, nor is anything of the contracts, in which nothing
happens unless someone calls.

### What the runs found

* `replaceOwner` makes address 0 an owner, which the constructor and `addOwner`
  refuse (`wallet_null_owner`).
* A fill that `isTransferable` has found good can throw, since the token
  refuses a fee that rounds to 0 (`exchange_tested_transfers`).
* A masternode start command that sets the state back between the remote start
  and the look at the state makes `ManageState` announce the masternode anew,
  which the remote start is there to avoid (`node_rebroadcast`,
  activemasternode.cpp:39-41).
* A simple crowdsale that was opened cannot sell: it takes an order signed in
  one form and has it filled by an exchange that asks for another (`open_sale`,
  SimpleCrowdsale.sol:73 and :197, chainx.sol:442).

The modules also state claims of comments that the code does not keep, as
definitions no run checks; naming one as an INVARIANT of the run's configuration
shows the counterexample.

* `NoDuplicateTransaction`: submitTransaction adds a transaction that exists.
* `RegisteredAreFound`: the registry does not find a token by its name once
  another has been given the same name.
* `PageHonoursFilter`: getTransactionIds pads a page with transaction 0.
* `RoundingWithinPermille`: isRoundingError says nothing of orders of 1000
  units or more (with the source's limit as `RoundingLimit`).
* `DiffPassesNothingOver`: `gobject list` sets the time that `diff` starts
  from, so what a list has shown is missing from the "differences since last
  diff".
* `SecondCheckPasses`: the second rate check of submit need not pass when two
  threads submit.
* `VerifyMayBeCalled`: after a constructor that failed, the assertion of Verify
  fails for a file nobody uses.
* `InitialisedMeansOpen`: MakeMock takes a negative error for success.
* `ActiveTipReported`: getchaintips with a count leaves out the active tip when
  others are higher.
* `SoldOutWhenPoolIsEmpty`: the crowdsale is not sold out when the pool it
  sells from is empty, if the cap is read from another account.
* `RelayedIsKnown`: submit relays an object before the manager has taken it,
  and does not look whether it has.
* `NextConfigIsUsed`: when the user cancels, or an exception comes that open
  does not know, the configurations that are left are not tried.
* `PruneHeightAvailable`: when the tip itself has no body, pruneheight names
  it.

Without a claim to compare them with: an object whose `submit` was cut by the
node's stop, or which the manager refused, stays marked as seen and is ignored
when a peer sends it (`dropped`); and the masternode tool goes on to the next
configuration when the user cancels a nested open.

## 4. Proofs

All proofs are checked by TLAPS, for every value of the constants, with no
assumption but the named ASSUMEs of the modules. TLC evaluates each of them for
its instance. They say that

* addresses of different kinds differ, and that there are finitely many of
  them, as an address has 20 bytes (`AddressAssumption`, `FiniteAssumption`,
  `AccountAssumption`); that the exchange's set of orders is finite;
* the tree of blocks is finite, as a hash has 32 bytes, and work grows along it
  (`TreeAssumption`); a chain has a transaction once and makes what it spends,
  so that the arrival of a body which `main.cpp` would refuse is left out
  (`BodyAssumption`);
* bounds and limits are natural numbers, and inputs of the types the ABI or the
  declarations give them (`ValueAssumption`, `RequestAssumption`,
  `TimestampAssumption`, `BufferAssumption`, `ToolAssumption`);
* values that stand for "none" are none of the others (`KeyAssumption`,
  `NullAssumption`, `NoErrorAssumption`);
* threads, users of the database and outcomes are finitely many
  (`GovernanceAssumption`, `UsersAssumption`); a dump is a sequence of lines
  (`DumpsAssumption`), and a masternode tool's list of configurations names
  none twice (`ListsAssumption`);
* the sale is an account, which makes no deposits of its own accord
  (`SaleAssumption`); the crowdsale has finitely many investors
  (`IcoAssumption`);
* of the cache, what makes its concatenation unambiguous (`CacheAssumption`).

**Sums.** Ether, supplies and what a batch asks for are sums over finite sets,
which the library defines by recursion on the set. The prover has no induction
over data; `SumTheorems` reasons instead about a smallest subset for which a
claim fails (`SmallestSubset`, from the well-foundedness of inclusion among
finite sets). It shows that the recursive function exists and is unique, that
the order in which it takes elements out does not matter, and how a sum changes
when the function changes at one point or the set by one element. The same
argument gives a finite set of numbers its least and its greatest member.

**MultiSigWallet.** `TypeCorrect` first: the balance is a natural number because
`Run` tests it. The safety theorems rest on `StackSound`. None of the properties
is inductive by itself, because `CallFails` brings an old storage back: what is
true now must be true of every snapshot, and the snapshot of a frame must differ
from a good storage in one way only, that the frame's transaction is marked and
not performed. `Sound(s, open)` says what a storage satisfies when the calls of
`open` are marked and not yet made; `CallsSound` asks it of the current storage
with nothing open and of each snapshot with its own frame open, and that each
level extends those below. From it follow `OwnersAlwaysWellFormed`,
`ExecutedExactlyOnce`, and with the step lemma `ExecutionNeedsQuorum` and
`ConfirmationsStayFrozen`.

`BalanceAlwaysConserved` needs the same of the money: `LevelsSquare` says that
balance and outflows of what is executed and not open make up what was received,
in the present storage and in every snapshot. `ViewsAlwaysAgree` compares the
getters' loops with counts; `isConfirmed` stops as soon as it has counted
enough, so the proof takes the shortest prefix of the owners that has as many
confirmations as required.

**Proxy.** `AuthoritiesStayAuthorized` from the lemma `SwapOutList`: removing by
swap takes out the target and nothing else, from a list without repetition.

**Exchange.** The invariant `Inv` asks the same of the present book and of the
book a call in progress may return to: `BookInv`, the type, `NeverOverfilled`
and `LimitPriceHonoured`. The price needs arithmetic: `ShareBelow` (the sum of
rounded-down shares is below the share of the sum) and `ShareExact` (no share
is lost when nothing is cut off). `SettledType` follows the four transfers of a
fill and shows that no balance leaves its word.

A transfer that goes through moves its value exactly, whoever sender and
receiver are (`TransferMoves`): the test that the receiver's balance grows
rules wrapping out. `Draws` says of two ledgers that the supply is the same and
that no account lost more than its allowance did; it is transitive, so it holds
over the four payments of a fill, also where accounts coincide.
`SupplyAlwaysConserved` (with `SupplyInv`, which asks it of the book to return
to as well) and `SpendingStaysWithinAllowance` follow.
`CallsAlwaysKeepTheirWord` is inductive over the turns of a call with `Inv`: a
turn adds to one order's count what it adds to the sum, also when the batch
names the order twice.

**SimpleCrowdsale.** `SaleInv` adds two things to the exchange's invariant. The
supply is what all accounts hold (`Backed`): deposits and withdrawals change
both by the same amount, and that trading changes neither is the exchange's own
argument (`TransferMoves`), which gives `TokensAlwaysBacked`. And the stored
signature is of the sale's words (`SignedForTheSale`), since `Initialize` alone
writes it; the exchange's words are others, so `SaleNeverSells`: no purchase
goes through, however the exchange, the approvals and the ledgers stand.

**Crowdsale.** `CrowdsaleAlwaysAddsUp`. Each total of the books changes at one
account by what the call adds to the other record of it; that `Preallocate`
multiplies without a check does not part them, since the wrapped product enters
all of them alike. The count of investors is the cardinality of the set of
those with money in the books, which grows by the account or not at all, and
the `freebies`; money that was preallocated, `prepaid`, is what can part the
two. Receivers may be any accounts, the vault included, so the vault is bounded
from below. `IcoInv` adds the types of the history to the property, which is
inductive with them.

**TokenRegistry.** `RegistryAgrees` is inductive as it stands: `SwapOutLists`
says that removal takes out a token listed once and keeps every other where it
is listed once, `AppendLists` the same of adding; the two indexes follow
because a text leads to the token that took it last (`SetAgrees`).

**KeyStore.** `IInv` adds three things to the properties: while records are
loaded nothing runs and the encrypted keys are those loaded so far
(`LoadingComesFirst`); a key about to be written is among the plain keys, and
when an encryption is about to be committed every record's key is encrypted
(`WalletStepSound`); metadata is covered by `nTimeFirstKey` like the file. The
argument for the race in `AddKeyPubKey` is in `WritingFacts`: the key in
`mapKeys` keeps `SetCrypted` from succeeding, and `cs_wallet` keeps
`EncryptKeys` out, so the second look at `IsCrypted` sees what the first saw.
`LockingStep` treats the five steps of `Lock` and `Unlock` together, since they
touch no key and no record.

**WalletDb.** `UseCountIsUsers` is not inductive: when the configuration of a
mock database fails, the constructor leaves its count behind. `DbInv` says that
counts may be too high there and are never too low (`CountsAccounted`), and
that an environment which is not initialised counts nothing
(`HandlesAccounted`), so that the next one begins with true counts.
`TxnsAccounted` gives every open transaction one owner;
`FilesAlwaysChangeWhole` then needs its locks only: a write outside
transactions meets no record that one has touched.

Salvage's two loops over the lines are recursive functions. `SkipFrom` and
`PairsFrom` say outright where the first stops and what the second has read from
a line on; both solve the equation of their recursion (`SkipStep`, `PairsStep`),
and no other function does, since two solutions could differ last at some line,
after which they agree. `SalvageAlwaysReads` compares the answer with the places
of header and end (`DumpReads`).

**RateBuffer.** The invariant adds to the type that an empty ring has equal
ends. `CountStep` shows that a step moves the start or adds one to the count,
and `ContentsStep` that each old element is then found one place earlier, or at
the same one, and the new one last; so every step of the ring is the step `Add`
of the window, for any size. For `RateAlwaysOfWindow` the places that the
do-while loops visit are shown to be those of `Contents`, so minimum and
maximum, which exist because the window is finite, are the same.

**Governance, Node.** `RecordsAlwaysAgree` is of many threads between the calls
of their commands. `SubmitInv` says what a thread has done by the place it is
at: its trigger is in the window once it is past the count, its object is
marked as seen once it is about to send it; the window forgets only when it is
full (`CountedStays`). `VoteInv` says that votes are on known objects and that
in each slot of masternode, object and signal that has votes exactly one
counts: a new one takes the place of the one before, and of those that waited
for an object the manager picks one of each slot. The sum of the counts is then
the number of masternodes (`VotesAreCounted`). `QueryInv` orders the times: a
query's start lies before the last query's end, so an object that comes between
the read of the clock and the lock is newer than both, or among the `late`;
what a query finds it shows or has `filtered` (`NothingEverPassedOver`).

**ActiveMasternode.** `ActivationInv` counts: the pings of a period and the
threads that are about to send one are together no more than the threads. The
rest is by the place a thread is at: one that has come past the first test has
found the node to be a masternode (`Checking`), one that is about to start it
has found a type, which only the checks of the configuration give (`Starting`).
That holds whatever another thread does to the state in between.

**ChainRpc.** The chain of a block is defined by recursion on the tree. The
proof takes instead the least set that has the block and the parents of its
members, shows that it solves the equation of the recursion and, by looking at
a block of least work where another solution would differ, that it is the only
one (`ChainIsLeast`). A chain is then linear (`ChainIsLinear`) and its heights
are one to one with its blocks (`HeightsOfChain`). `ChainInv` says that the
active chain has come and is in the index, that a failed block's known
descendants are failed too, and that the pool fits the chain. A command ends by
moving to a best candidate, and moving makes no candidate; whatever adds one in
between leaves a thread with its command to finish, so `IdleAlwaysMeansBest`.

For `AnswersAlwaysDescribe` each walk of a query along the chain is given its
solution in closed form: the headers are those at the heights from the block's
on (`HeadersHold`), the soft fork counts a set of heights (`MajorityHolds`),
the prune height stops at the last body that is missing (`PruneHeightHolds`).
The fork of a tip is the highest block of two chains' intersection, so that
branch and common part add up to the height (`TipsHold`), and a coin is in the
answer when one transaction made it and none of chain and pool spends it
(`TxOutHolds`).

**SignatureCache.** `EntriesDiffer` shows that the concatenation has one
reading, by `AppendCancel` for the hash and again for the key; so a hit is a
signature that was stored. `IInv` adds what a thread knows between two locks
(`ThreadSound`): what it is about to store or erase is valid, and what it has
answered is true. With that `AnswersAreTrue` maps every step to the verifier's
question, its answer, or nothing; the liveness half of `VerdictsAreTrue` is
TLC's. `SizeStaysWithinLimit` rests on the exclusive lock covering eviction and
insertion.

**ConsensusLib.** `WholeBuffersOnly` needs the buffers' fields to be numbers, no
more. It is about one call, which keeps no state, and no run checks it.

**RpcFailover.** The recursion of open and switch is about a place in a circle.
`FailoverInv` is `RoundInv` for calls whose list does not change (`overtaken`
says that one did). `RoundInv` says that a call in progress began at some place
of the list, that what it has tried lies behind it, going round from there
(`Behind`), and that all of that has been tried but perhaps the first, which
may have been connected already; and that a connection in use is the one
configured. A full round then covers the list (`RoundIsFull`), which is
`FailoverAlwaysThorough`, and no place is met again before it is full, which is
`EachTriedOnce`, the safety half of `OneRoundPerCall`.

**TxTool.** `ToolInv` asks of the transaction at work and of the one printed
that they are `Sound`: version and lock time in range, and no signature of
`Nothing`; a signature can be of it only for SINGLE without an output of its
own, which `MaySign` keeps away. For `SignaturesAlwaysLast` each command is
followed into `Digest`: a signature is good as long as its digest is what it
was, and a hash type says which parts of the transaction its digest has. Only
the commands that add make a transaction longer (`LongerByAdding`); one that
deletes moves what stands behind; signing changes no digest at all
(`SigningKeepsDigests`), and of a script of several keys it keeps the good
signature of each key that does not sign anew.

Only model-checked:

* liveness and fairness, out of the prover's reach: `BestChainWins`, `CallsEnd`
  (in `OneRoundPerCall`), the fairness of `VerdictsAreTrue`;
* what a recursive reading of a sequence computes: `ScriptsReadBack`,
  `ReadingUndoesWriting`.

## 5. Not modelled

* The mintable and dummy tokens and the deployment contracts: test and
  deployment helpers of a few assignments each. What `Crowdsale.sol` lost with
  its end: state machine, pricing, refunds, finalisation; burning and upgrading
  of the centrally issued token, which are in files the tree does not have.
* The interpreter, the key and script templates, validation, the governance
  manager's own file, SSH tunnels: not in the tree, or external.
* The mixing pool: `darksend.h` declares it, and of its code the tree has only
  the commands `privatesend` and `getpoolinfo`, which call it.
* `rpcwallet.cpp`, `alert.h` and most of `wallet.h` are tables and declarations
  whose functions are defined elsewhere; the Go error types, the account
  manager's console dialogue and the vendored JSON parser have no state of
  their own.
* In `rpcgovernance.cpp` getcurrentvotes (the source breaks off), in
  `rpcmasternode.cpp` the reports and the start of remote masternodes, in
  `rpcclient.cpp` what is named under ChainRpc.

## 6. Plan

Every component with logic of its own has a module, and every safety property
that the runs check is proved but the two readings named in section 4
(`ScriptsReadBack`, `ReadingUndoesWriting`). What is left:

1. For `Script` and `Wire`, solutions of the recursions given outright, as
   `PairsFrom` is for the dump of `WalletDb`: with them the two readings come
   within reach.
2. Should the tree regain `governance.cpp` or the rest of `Crowdsale.sol`, their
   effects replace what is now taken from their uses.
