----------------------------- MODULE RateWindow -----------------------------
(***************************************************************************)
(* What the rate check of a governance object promises: it looks at the    *)
(* last Size time stamps, however many came before them.                   *)
(***************************************************************************)
EXTENDS Integers, Sequences, FiniteSetsExt

CONSTANTS
  Size,       \* how many time stamps are looked at
  Timestamps  \* the time stamps that may come

VARIABLE window  \* the last of them, the oldest first

Init == window = << >>

(* A time stamp comes; if there are Size already the oldest is forgotten.  *)
Add(t) ==
  window' = Append(IF Len(window) < Size THEN window ELSE Tail(window), t)

Next == \E t \in Timestamps : Add(t)

Spec == Init /\ [][Next]_window

Seen == {window[i] : i \in 1 .. Len(window)}

(* The rate: 0 for less than two time stamps, without bound when they are  *)
(* all the same, and otherwise their number over the time they span.       *)
Rate ==
  IF Len(window) < 2 THEN [count |-> 0, span |-> 1]
  ELSE [count |-> Len(window), span |-> Max(Seen) - Min(Seen)]
=============================================================================
