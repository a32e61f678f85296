------------------------------ MODULE Verifier ------------------------------
(***************************************************************************)
(* What callers of VerifySignature are promised: each call is answered,    *)
(* and the answer says whether the signature is valid.                     *)
(***************************************************************************)
CONSTANTS
  Threads,
  Sigs,      \* a signature hash, a public key and a signature, each
  ValidSigs  \* those of them that verify

VARIABLE call \* what each thread asks or was told last

NoCall == [state |-> "idle"]
Asking(s) == [state |-> "asking", of |-> s]
Told(s, answer) == [state |-> "told", of |-> s, answer |-> answer]

Init == call = [t \in Threads |-> NoCall]

Ask(t) == \E s \in Sigs :
  /\ call[t].state # "asking"
  /\ call' = [call EXCEPT ![t] = Asking(s)]

Answer(t) == \E s \in Sigs :
  /\ call[t] = Asking(s)
  /\ call' = [call EXCEPT ![t] = Told(s, s \in ValidSigs)]

Next == \E t \in Threads : Ask(t) \/ Answer(t)

Safety == Init /\ [][Next]_call

Spec == Safety /\ \A t \in Threads : WF_call(Answer(t))
=============================================================================
