----------------------------- MODULE RateBuffer -----------------------------
(***************************************************************************)
(* CRateCheckBuffer of Maternodes/ChainX-MN/governance.h: a ring of time   *)
(* stamps from which the rate of a masternode's triggers and watchdogs is  *)
(* computed.  Equal ends mean an empty ring or a full one, and a flag says *)
(* which.  A rate is the pair of numbers that the code divides; a span of  *)
(* 0 is its 1.0e10.  Time stamps are not negative.                         *)
(***************************************************************************)
EXTENDS Integers, FiniteSetsExt

CONSTANTS
  RingSize,   \* RATE_BUFFER_SIZE
  Timestamps, \* the times objects may carry
  MaxInt64    \* the greatest int64_t

ASSUME RingSizeAssumption == RingSize \in Nat \ {0}
ASSUME TimestampAssumption ==
  MaxInt64 \in Nat /\ Timestamps \subseteq 0 .. MaxInt64

VARIABLES
  vecTimestamps,
  nDataStart,
  nDataEnd,
  fBufferEmpty

ring == <<vecTimestamps, nDataStart, nDataEnd, fBufferEmpty>>

Indexes == 0 .. RingSize - 1

(* The index after i, around the ring.                                     *)
After(i) == (i + 1) % RingSize

RingInit ==
  /\ vecTimestamps = [i \in Indexes |-> 0]
  /\ nDataStart = 0
  /\ nDataEnd = 0
  /\ fBufferEmpty = TRUE

(* Mutant: a full ring keeps its first element.                            *)
AddTimestampKeeping(nTimestamp) ==
  /\ nDataStart' = nDataStart
  /\ vecTimestamps' = [vecTimestamps EXCEPT ![nDataEnd] = nTimestamp]
  /\ nDataEnd' = After(nDataEnd)
  /\ fBufferEmpty' = FALSE

(* A time stamp is stored at the end; a full ring first gives up the one   *)
(* at its start.                                                           *)
AddTimestamp(nTimestamp) ==
  /\ nDataStart' = IF nDataEnd = nDataStart /\ ~fBufferEmpty
                   THEN After(nDataStart) ELSE nDataStart
  /\ vecTimestamps' = [vecTimestamps EXCEPT ![nDataEnd] = nTimestamp]
  /\ nDataEnd' = After(nDataEnd)
  /\ fBufferEmpty' = FALSE

RingNext == \E nTimestamp \in Timestamps : AddTimestamp(nTimestamp)

RingSpec == RingInit /\ [][RingNext]_ring
-----------------------------------------------------------------------------
(* Mutant: loops that test before the first turn.                          *)
TurnsOfWhile ==
  Min({n \in 0..RingSize : (nDataStart + n) % RingSize = nDataEnd})

(* The number of turns of the loops of GetMinTimestamp and GetMaxTimestamp *)
(* that go from the start until they meet the end, and what they read.     *)
Turns == Min({n \in 1..RingSize : (nDataStart + n) % RingSize = nDataEnd})
Read == {vecTimestamps[(nDataStart + n) % RingSize] : n \in 0 .. Turns - 1}

GetMinTimestamp ==
  IF fBufferEmpty THEN MaxInt64 ELSE Min(Read \cup {MaxInt64})

GetMaxTimestamp == IF fBufferEmpty THEN 0 ELSE Max(Read \cup {0})

GetCount ==
  IF fBufferEmpty THEN 0
  ELSE IF nDataEnd > nDataStart THEN nDataEnd - nDataStart
  ELSE RingSize - nDataStart + nDataEnd

GetRate ==
  IF GetCount < 2 THEN [count |-> 0, span |-> 1]
  ELSE [count |-> GetCount, span |-> GetMaxTimestamp - GetMinTimestamp]
-----------------------------------------------------------------------------
(* The indexes stay in the ring.                                           *)
RingTypeOK ==
  /\ vecTimestamps \in [Indexes -> 0 .. MaxInt64]
  /\ nDataStart \in Indexes
  /\ nDataEnd \in Indexes
  /\ fBufferEmpty \in BOOLEAN

(* The time stamps in the ring, the oldest first.                          *)
Contents ==
  [i \in 1..GetCount |-> vecTimestamps[(nDataStart + (i - 1)) % RingSize]]

RingWindow == INSTANCE RateWindow WITH window <- Contents, Size <- RingSize

(* The ring is the window of the last Size time stamps, through any number *)
(* of times that AddTimestamp comes around.                                *)
RefinesWindow == RingWindow!Spec

(* GetRate is the rate of that window: count, minimum and maximum, which   *)
(* find the elements of the ring in two ways, agree on what is in it.      *)
RateOfWindow == GetRate = RingWindow!Rate
=============================================================================
