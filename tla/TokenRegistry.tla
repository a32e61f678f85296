---------------------------- MODULE TokenRegistry ----------------------------
(***************************************************************************)
(* The token registry, Contracts/Base/TokenRegistry.sol.  A token is       *)
(* recorded in four places: the metadata by address, the array of          *)
(* addresses, and an index each by name and by symbol.  Nothing keeps two  *)
(* tokens from having one name, and nothing keeps the address 0 out: an    *)
(* entry for it counts as missing, so it can be added again and again.     *)
(***************************************************************************)
EXTENDS AddressArray

CONSTANTS
  Registrars,   \* who may own the registry
  Addresses,    \* of tokens, Zero among them
  Zero,         \* address 0
  Texts,        \* names and symbols
  Empty,        \* the empty string
  Data,         \* url, decimals and hashes
  NoData,
  MaxAddresses  \* bound: the length of the array

VARIABLES
  registryOwner,  \* owner
  tokens,
  tokenBySymbol,
  tokenByName,
  tokenAddresses

registryVars ==
  <<registryOwner, tokens, tokenBySymbol, tokenByName, tokenAddresses>>

TokenMetadata ==
  [token : Addresses \cup {Zero}, name : Texts \cup {Empty},
   symbol : Texts \cup {Empty}, data : Data \cup {NoData}]

NoToken == [token |-> Zero, name |-> Empty, symbol |-> Empty, data |-> NoData]

(* tokenExists; for the address 0 it is never true.                        *)
Exists(token) == tokens[token].token # Zero

RegistryInit ==
  /\ registryOwner \in Registrars
  /\ tokens = [a \in Addresses |-> NoToken]
  /\ tokenBySymbol = [s \in Texts \cup {Empty} |-> Zero]
  /\ tokenByName = [n \in Texts \cup {Empty} |-> Zero]
  /\ tokenAddresses = << >>

(* transferOwnership; to the address 0 it does nothing.                    *)
TransferRegistry(sender, newOwner) ==
  /\ sender = registryOwner
  /\ registryOwner' = newOwner
  /\ UNCHANGED <<tokens, tokenBySymbol, tokenByName, tokenAddresses>>

AddToken(sender, token, name, symbol, data) ==
  /\ sender = registryOwner
  /\ ~Exists(token)
  /\ Len(tokenAddresses) < MaxAddresses
  /\ tokens' = [tokens EXCEPT ![token] = [token |-> token, name |-> name,
                                          symbol |-> symbol, data |-> data]]
  /\ tokenAddresses' = Append(tokenAddresses, token)
  /\ tokenBySymbol' = [tokenBySymbol EXCEPT ![symbol] = token]
  /\ tokenByName' = [tokenByName EXCEPT ![name] = token]
  /\ UNCHANGED registryOwner

(* Mutant: the metadata goes first, and the names to forget with it.       *)
RemoveTokenFirst(sender, token) ==
  /\ sender = registryOwner
  /\ Exists(token)
  /\ tokenAddresses' = SwapOut(tokenAddresses, token)
  /\ tokenBySymbol' = [tokenBySymbol EXCEPT ![Empty] = Zero]
  /\ tokenByName' = [tokenByName EXCEPT ![Empty] = Zero]
  /\ tokens' = [tokens EXCEPT ![token] = NoToken]
  /\ UNCHANGED registryOwner

(* The names are those the storage reference still shows.                  *)
RemoveToken(sender, token) ==
  /\ sender = registryOwner
  /\ Exists(token)
  /\ tokenAddresses' = SwapOut(tokenAddresses, token)
  /\ tokenBySymbol' = [tokenBySymbol EXCEPT ![tokens[token].symbol] = Zero]
  /\ tokenByName' = [tokenByName EXCEPT ![tokens[token].name] = Zero]
  /\ tokens' = [tokens EXCEPT ![token] = NoToken]
  /\ UNCHANGED registryOwner

(* Mutant: the old name still leads to the token.                          *)
SetTokenNameTwice(sender, token, name) ==
  /\ sender = registryOwner
  /\ Exists(token)
  /\ tokenByName' = [tokenByName EXCEPT ![name] = token]
  /\ tokens' = [tokens EXCEPT ![token].name = name]
  /\ UNCHANGED <<registryOwner, tokenBySymbol, tokenAddresses>>

SetTokenName(sender, token, name) ==
  /\ sender = registryOwner
  /\ Exists(token)
  /\ tokenByName' = [tokenByName EXCEPT ![tokens[token].name] = Zero,
                                        ![name] = token]
  /\ tokens' = [tokens EXCEPT ![token].name = name]
  /\ UNCHANGED <<registryOwner, tokenBySymbol, tokenAddresses>>

SetTokenSymbol(sender, token, symbol) ==
  /\ sender = registryOwner
  /\ Exists(token)
  /\ tokenBySymbol' = [tokenBySymbol EXCEPT ![tokens[token].symbol] = Zero,
                                            ![symbol] = token]
  /\ tokens' = [tokens EXCEPT ![token].symbol = symbol]
  /\ UNCHANGED <<registryOwner, tokenByName, tokenAddresses>>

(* setTokenUrl, setTokenIpfsHash and setTokenSwarmHash.                    *)
SetTokenData(sender, token, data) ==
  /\ sender = registryOwner
  /\ Exists(token)
  /\ tokens' = [tokens EXCEPT ![token].data = data]
  /\ UNCHANGED <<registryOwner, tokenBySymbol, tokenByName, tokenAddresses>>

RegistryNext ==
  \E sender \in Registrars :
    \/ \E newOwner \in Registrars : TransferRegistry(sender, newOwner)
    \/ \E token \in Addresses :
         \/ \E name, symbol \in Texts, data \in Data :
              AddToken(sender, token, name, symbol, data)
         \/ RemoveToken(sender, token)
         \/ \E text \in Texts : \/ SetTokenName(sender, token, text)
                                \/ SetTokenSymbol(sender, token, text)
         \/ \E data \in Data : SetTokenData(sender, token, data)

RegistrySpec == RegistryInit /\ [][RegistryNext]_registryVars

(* The calls that read.  getTokenByName and getTokenBySymbol of a text     *)
(* nobody has look up the metadata of the address 0.                       *)
GetTokenMetaData(token) == tokens[token]
GetTokenByName(name) == GetTokenMetaData(tokenByName[name])
GetTokenBySymbol(symbol) == GetTokenMetaData(tokenBySymbol[symbol])
-----------------------------------------------------------------------------
RegistryTypeOK ==
  /\ registryOwner \in Registrars
  /\ tokens \in [Addresses -> TokenMetadata]
  /\ tokenBySymbol \in [Texts \cup {Empty} -> Addresses \cup {Zero}]
  /\ tokenByName \in [Texts \cup {Empty} -> Addresses \cup {Zero}]
  /\ tokenAddresses \in Seq(Addresses)

(* The index of the one entry of the list that holds the token.            *)
ListedOnceAt(list, token, i) ==
  /\ i \in 1..Len(list)
  /\ list[i] = token
  /\ \A j \in 1..Len(list) : list[j] = token => j = i

ListedOnce(list, token) ==
  \E i \in 1..Len(list) : ListedOnceAt(list, token, i)

(* Metadata is under the token's own address.                              *)
MetadataInPlace ==
  \A token \in Addresses : Exists(token) => tokens[token].token = token

(* getTokenAddresses lists each token that is registered once, and no      *)
(* other, but for the address 0, through any additions and removals.       *)
ListedAreRegistered ==
  \A token \in Addresses \ {Zero} :
    IF Exists(token)
    THEN ListedOnce(tokenAddresses, token)
    ELSE \A i \in 1..Len(tokenAddresses) : tokenAddresses[i] # token

(* What a name or a symbol leads to is registered and has it, also when    *)
(* another token had it before, gave it up or was removed.                 *)
NamesLeadHome ==
  /\ \A name \in Texts \cup {Empty} :
       tokenByName[name] # Zero =>
         /\ GetTokenByName(name).token = tokenByName[name]
         /\ GetTokenByName(name).name = name
  /\ \A symbol \in Texts \cup {Empty} :
       tokenBySymbol[symbol] # Zero =>
         /\ GetTokenBySymbol(symbol).token = tokenBySymbol[symbol]
         /\ GetTokenBySymbol(symbol).symbol = symbol

(* The four records of the registry agree.                                 *)
RegistryAgrees ==
  RegistryTypeOK /\ MetadataInPlace /\ ListedAreRegistered /\ NamesLeadHome

(* Lines 249 and 268: by name and by symbol the registry "Provides a       *)
(* registered token's metadata".  The code does not keep it when two       *)
(* tokens take the same name.                                              *)
RegisteredAreFound ==
  \A token \in Addresses :
    Exists(token) => GetTokenByName(tokens[token].name) = tokens[token]
=============================================================================
