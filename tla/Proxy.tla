-------------------------------- MODULE Proxy --------------------------------
(***************************************************************************)
(* The token proxy, Contracts/Base/Proxy.sol, with the ownership it        *)
(* inherits from Contracts/Base/Ownable.sol.  Token holders approve the    *)
(* proxy once; the addresses the proxy's owner has authorized may then     *)
(* move their tokens through it.  Who is authorized is recorded twice, in  *)
(* a mapping and in an array that is read as the list of authorities.      *)
(***************************************************************************)
EXTENDS AddressArray, Functions

CONSTANTS
  Callers,  \* accounts that call the proxy
  Target,   \* addresses that may be authorized
  Null      \* address 0

ASSUME NullAssumption == Null \notin Callers

VARIABLES
  owner,
  authorized,  \* the mapping to bool, as the set it is true of
  authorities  \* the array

proxyVars == <<owner, authorized, authorities>>

ProxyInit ==
  /\ owner \in Callers
  /\ authorized = {}
  /\ authorities = << >>

(* The null address is passed over without an error.                       *)
TransferOwnership(sender, newOwner) ==
  /\ sender = owner
  /\ owner' = IF newOwner # Null THEN newOwner ELSE owner
  /\ UNCHANGED <<authorized, authorities>>

AddAuthorizedAddress(sender, target) ==
  /\ sender = owner
  /\ target \notin authorized
  /\ authorized' = authorized \cup {target}
  /\ authorities' = Append(authorities, target)
  /\ UNCHANGED owner

(* Mutant: the last element is dropped and the target's entry stays.       *)
RemoveLastAuthority(sender, target) ==
  /\ sender = owner
  /\ target \in authorized
  /\ authorized' = authorized \ {target}
  /\ authorities' = SubSeq(authorities, 1, Len(authorities) - 1)
  /\ UNCHANGED owner

RemoveAuthorizedAddress(sender, target) ==
  /\ sender = owner
  /\ target \in authorized
  /\ authorized' = authorized \ {target}
  /\ authorities' = SwapOut(authorities, target)
  /\ UNCHANGED owner

ProxyNext ==
  \E sender \in Callers :
    \/ \E newOwner \in Callers \cup {Null} : TransferOwnership(sender, newOwner)
    \/ \E target \in Target : \/ AddAuthorizedAddress(sender, target)
                              \/ RemoveAuthorizedAddress(sender, target)

ProxySpec == ProxyInit /\ [][ProxyNext]_proxyVars

-----------------------------------------------------------------------------
(* The variables have their types.                                         *)
ProxyTypeOK ==
  /\ owner \in Callers
  /\ authorized \subseteq Target
  /\ authorities \in Seq(Target)

(* addAuthorizedAddress and removeAuthorizedAddress keep the mapping and   *)
(* the array one record: getAuthorizedAddresses returns every address the  *)
(* modifier onlyAuthorized lets through, once, and no other.               *)
AuthoritiesAreTheAuthorized ==
  /\ IsInjective(authorities)
  /\ Range(authorities) = authorized
=============================================================================
