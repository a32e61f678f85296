---------------------------- MODULE AddressArray ----------------------------
(***************************************************************************)
(* How the contracts of Contracts/Base take an address out of an array:    *)
(* Proxy.sol and TokenRegistry.sol have the same loop.                     *)
(***************************************************************************)
EXTENDS Naturals, Sequences

(* The first entry that holds the target takes the last element, and the   *)
(* array is cut by one; an array without the target stays as it is.        *)
SwapOut(list, target) ==
  LET n == Len(list)
      hit(i) == list[i] = target /\ \A j \in 1 .. i - 1 : list[j] # target
  IN  IF \E i \in 1..n : list[i] = target
      THEN [i \in 1 .. n - 1 |-> IF hit(i) THEN list[n] ELSE list[i]]
      ELSE list
=============================================================================
