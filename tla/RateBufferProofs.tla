-------------------------- MODULE RateBufferProofs --------------------------
(***************************************************************************)
(* The ring of any size implements the window of that size.                *)
(***************************************************************************)
EXTENDS RateBuffer, SequenceTheorems, SumTheorems

(* The inductive invariant: only equal ends can be those of an empty ring. *)
IInv == RingTypeOK /\ (fBufferEmpty => nDataStart = nDataEnd)

(* An index that has gone around once at most.                             *)
LEMMA Around ==
  ASSUME NEW a \in Nat, a < 2 * RingSize
  PROVE  a % RingSize = IF a < RingSize THEN a ELSE a - RingSize
BY RingSizeAssumption

LEMMA AfterAround ==
  ASSUME NEW i \in Indexes
  PROVE  /\ After(i) = (IF i + 1 = RingSize THEN 0 ELSE i + 1)
         /\ After(i) \in Indexes
BY Around, RingSizeAssumption DEF After, Indexes

(* The i-th element of the ring is found where the count says.             *)
At(start, i) == IF start + i <= RingSize THEN start + i - 1
                                     ELSE start + i - 1 - RingSize

(* The n elements of vec from start on.                                    *)
Ring(vec, start, n) == [i \in 1..n |-> vec[(start + (i - 1)) % RingSize]]

LEMMA FunctionAsSequence ==
  ASSUME NEW S, NEW n \in Nat, NEW f \in [1..n -> S]
  PROVE  f \in Seq(S) /\ Len(f) = n
<1>1. f \in Seq(S)
  OBVIOUS
<1>2. Len(f) \in Nat /\ DOMAIN f = 1..Len(f) /\ DOMAIN f = 1..n
  BY <1>1, LenProperties
<1> QED
  BY <1>2

LEMMA RingAsSequence ==
  ASSUME NEW start \in Indexes, NEW n \in 0..RingSize,
         NEW vec \in [Indexes -> 0..MaxInt64]
  PROVE  /\ Ring(vec, start, n) \in Seq(0..MaxInt64)
         /\ Len(Ring(vec, start, n)) = n
         /\ \A i \in 1..n : /\ At(start, i) \in Indexes
                            /\ Ring(vec, start, n)[i] = vec[At(start, i)]
<1>1. ASSUME NEW i \in 1..n
      PROVE  /\ (start + (i - 1)) % RingSize = At(start, i)
             /\ At(start, i) \in Indexes
  <2> DEFINE a == start + (i - 1)
  <2>1. /\ a \in Nat /\ a < 2 * RingSize
        /\ At(start, i) = IF a < RingSize THEN a ELSE a - RingSize
        /\ At(start, i) \in Indexes
    BY RingSizeAssumption DEF Indexes, At
  <2> HIDE DEF a
  <2>2. a % RingSize = IF a < RingSize THEN a ELSE a - RingSize
    BY <2>1, Around
  <2> QED
    BY <2>1, <2>2 DEF a
<1>2. n \in Nat /\ \A i \in 1..n : vec[At(start, i)] \in 0..MaxInt64
  BY <1>1, RingSizeAssumption
<1>3. Ring(vec, start, n) \in [1..n -> 0..MaxInt64]
  BY <1>1, <1>2 DEF Ring
<1>4. /\ Ring(vec, start, n) \in Seq(0..MaxInt64)
      /\ Len(Ring(vec, start, n)) = n
  <2> HIDE DEF Ring
  <2> QED
    BY <1>2, <1>3, FunctionAsSequence
<1>5. \A i \in 1..n : Ring(vec, start, n)[i] = vec[At(start, i)]
  BY <1>1 DEF Ring
<1> QED
  BY <1>1, <1>4, <1>5

(* The number of elements, by which the sequence of them is as long.       *)
LEMMA CountRange ==
  ASSUME IInv
  PROVE  /\ GetCount \in 0..RingSize
         /\ ~fBufferEmpty => GetCount >= 1
         /\ fBufferEmpty => GetCount = 0
BY RingSizeAssumption DEF IInv, RingTypeOK, Indexes, GetCount

LEMMA IInvInit == ASSUME RingInit PROVE IInv
BY RingSizeAssumption, TimestampAssumption
DEF RingInit, IInv, RingTypeOK, Indexes

LEMMA IInvStep ==
  ASSUME IInv, NEW t \in Timestamps, AddTimestamp(t)
  PROVE  IInv'
<1>1. nDataStart' \in Indexes /\ nDataEnd' \in Indexes /\ ~fBufferEmpty'
  BY AfterAround DEF AddTimestamp, IInv, RingTypeOK
<1>2. vecTimestamps' \in [Indexes -> 0..MaxInt64]
  BY TimestampAssumption DEF AddTimestamp, IInv, RingTypeOK
<1> QED
  BY <1>1, <1>2 DEF IInv, RingTypeOK, AddTimestamp

(* The ring after AddTimestamp: a full one has moved on by one element, and *)
(* in any the new one is the last.                                         *)
LEMMA CountStep ==
  ASSUME IInv, NEW t \in Timestamps, AddTimestamp(t)
  PROVE  IF GetCount < RingSize
         THEN nDataStart' = nDataStart /\ GetCount' = GetCount + 1
         ELSE nDataStart' = After(nDataStart) /\ GetCount' = RingSize
<1>1. /\ nDataEnd' = (IF nDataEnd + 1 = RingSize THEN 0 ELSE nDataEnd + 1)
      /\ After(nDataStart)
           = (IF nDataStart + 1 = RingSize THEN 0 ELSE nDataStart + 1)
  BY AfterAround DEF AddTimestamp, IInv, RingTypeOK
<1>2. nDataStart \in 0 .. RingSize - 1 /\ nDataEnd \in 0 .. RingSize - 1
  BY DEF IInv, RingTypeOK, Indexes
<1>3. GetCount < RingSize <=> (nDataEnd # nDataStart \/ fBufferEmpty)
  BY <1>2, RingSizeAssumption DEF GetCount
<1>4. fBufferEmpty => nDataStart = nDataEnd
  BY DEF IInv
<1>5. CASE nDataEnd = nDataStart /\ ~fBufferEmpty
  <2>1. nDataStart' = After(nDataStart) /\ nDataEnd' = nDataStart'
    BY <1>1, <1>5 DEF AddTimestamp
  <2> QED
    BY <1>1, <1>2, <1>3, <1>5, <2>1, RingSizeAssumption
    DEF AddTimestamp, GetCount
<1>6. CASE ~(nDataEnd = nDataStart /\ ~fBufferEmpty)
  <2>1. nDataStart' = nDataStart
    BY <1>6 DEF AddTimestamp
  <2>2. fBufferEmpty' = FALSE
    BY DEF AddTimestamp
  <2> QED
    BY <1>1, <1>2, <1>3, <1>4, <1>6, <2>1, <2>2, RingSizeAssumption DEF GetCount
<1> QED
  BY <1>5, <1>6

(* Every element keeps its place from the end, and the end gets the new    *)
(* one.                                                                    *)
LEMMA ContentsStep ==
  ASSUME IInv, NEW t \in Timestamps, AddTimestamp(t)
  PROVE  Contents' =
           Append(IF Len(Contents) < RingSize THEN Contents
                  ELSE Tail(Contents), t)
<1> DEFINE old == IF Len(Contents) < RingSize THEN Contents ELSE Tail(Contents)
           shift == IF GetCount < RingSize THEN 0 ELSE 1
<1>1. /\ GetCount \in 0..RingSize /\ GetCount \in Nat
      /\ ~fBufferEmpty => GetCount >= 1
      /\ fBufferEmpty => GetCount = 0
  BY CountRange, RingSizeAssumption
<1>2. /\ nDataStart \in Indexes /\ nDataEnd \in Indexes
      /\ vecTimestamps \in [Indexes -> 0..MaxInt64]
      /\ nDataStart' \in Indexes
      /\ vecTimestamps' \in [Indexes -> 0..MaxInt64]
      /\ vecTimestamps' = [vecTimestamps EXCEPT ![nDataEnd] = t]
      /\ t \in 0..MaxInt64
  BY IInvStep, TimestampAssumption DEF IInv, RingTypeOK, AddTimestamp
<1>3. RingSize \in Nat /\ RingSize >= 1
  BY RingSizeAssumption
<1>4. \/ /\ GetCount < RingSize /\ shift = 0
         /\ nDataStart' = nDataStart /\ GetCount' = GetCount + 1
      \/ /\ GetCount = RingSize /\ shift = 1
         /\ nDataStart' = After(nDataStart) /\ GetCount' = RingSize
  <2>1. GetCount < RingSize \/ GetCount = RingSize
    BY <1>1, <1>3
  <2> QED
    BY <2>1, CountStep
<1>5. /\ GetCount' = GetCount + 1 - shift
      /\ shift \in {0, 1} /\ GetCount' \in 1..RingSize
      /\ GetCount - shift \in Nat
  <2> HIDE DEF shift
  <2> QED
    BY <1>1, <1>3, <1>4
<1>6. /\ Contents \in Seq(0..MaxInt64) /\ Len(Contents) = GetCount
      /\ \A i \in 1..GetCount : Contents[i] = vecTimestamps[At(nDataStart, i)]
  <2>1. Contents = Ring(vecTimestamps, nDataStart, GetCount)
    BY DEF Contents, Ring
  <2>2. /\ Ring(vecTimestamps, nDataStart, GetCount) \in Seq(0..MaxInt64)
        /\ Len(Ring(vecTimestamps, nDataStart, GetCount)) = GetCount
        /\ \A i \in 1..GetCount :
             Ring(vecTimestamps, nDataStart, GetCount)[i]
               = vecTimestamps[At(nDataStart, i)]
    BY <1>1, <1>2, RingAsSequence
  <2> QED
    BY <2>1, <2>2
<1>7. /\ Contents' \in Seq(0..MaxInt64) /\ Len(Contents') = GetCount'
      /\ \A i \in 1..GetCount' :
           Contents'[i] = vecTimestamps'[At(nDataStart', i)]
  <2> DEFINE vec == vecTimestamps'
             start == nDataStart'
             n == GetCount'
  <2>1. Contents' = Ring(vec, start, n)
    BY DEF Contents, Ring
  <2>2. /\ vec \in [Indexes -> 0..MaxInt64] /\ start \in Indexes
        /\ n \in 0..RingSize
    BY <1>2, <1>3, <1>5
  <2> HIDE DEF vec, start, n
  <2>3. /\ Ring(vec, start, n) \in Seq(0..MaxInt64)
        /\ Len(Ring(vec, start, n)) = n
        /\ \A i \in 1..n : Ring(vec, start, n)[i] = vec[At(start, i)]
    BY <2>2, RingAsSequence
  <2> QED
    BY <2>1, <2>3 DEF vec, start, n
<1>8. /\ old \in Seq(0..MaxInt64) /\ Len(old) = GetCount - shift
      /\ \A i \in 1 .. GetCount - shift : old[i] = Contents[i + shift]
  <2> HIDE DEF shift
  <2>1. CASE shift = 0
    <3>1. old = Contents
      BY <1>1, <1>3, <1>4, <1>6, <2>1
    <3> HIDE DEF old
    <3> QED
      BY <1>1, <1>6, <2>1, <3>1
  <2>2. CASE shift = 1
    <3>1. old = Tail(Contents) /\ GetCount = RingSize
      BY <1>1, <1>3, <1>4, <1>6, <2>2
    <3>2. Contents # << >>
      BY <1>3, <1>6, <3>1
    <3>3. /\ Tail(Contents) \in Seq(0..MaxInt64)
          /\ Len(Tail(Contents)) = Len(Contents) - 1
          /\ \A i \in 1 .. Len(Tail(Contents)) :
               Tail(Contents)[i] = Contents[i + 1]
      BY <1>6, <3>2, HeadTailProperties
    <3> HIDE DEF old
    <3> QED
      BY <1>6, <2>2, <3>1, <3>3
  <2> QED
    BY <1>5, <2>1, <2>2
<1> HIDE DEF shift, old
<1>9. After(nDataStart) =
        IF nDataStart + 1 = RingSize THEN 0 ELSE nDataStart + 1
  BY <1>2, AfterAround
<1>10. nDataEnd = At(nDataStart', GetCount')
  <2>1. nDataStart \in 0 .. RingSize - 1 /\ nDataEnd \in 0 .. RingSize - 1
    BY <1>2 DEF Indexes
  <2>2. CASE GetCount < RingSize
    <3>1. nDataStart' = nDataStart /\ GetCount' = GetCount + 1
      BY <1>4, <1>1, <1>3, <2>2
    <3> QED
      BY <1>3, <2>1, <2>2, <3>1 DEF IInv, GetCount, At
  <2>3. CASE GetCount = RingSize
    <3>1. nDataStart' = After(nDataStart) /\ GetCount' = RingSize
      BY <1>4, <1>1, <1>3, <2>3
    <3>2. nDataStart = nDataEnd
      BY <1>3, <2>1, <2>3 DEF GetCount
    <3> QED
      BY <1>9, <1>3, <2>1, <3>1, <3>2 DEF At
  <2> QED
    BY <1>4, <2>2, <2>3
<1>11. \A i \in 1 .. GetCount - shift :
         /\ At(nDataStart', i) = At(nDataStart, i + shift)
         /\ At(nDataStart', i) # nDataEnd
         /\ At(nDataStart', i) \in Indexes
  <2> TAKE i \in 1 .. GetCount - shift
  <2>1. nDataStart \in 0 .. RingSize - 1
    BY <1>2 DEF Indexes
  <2>2. CASE GetCount < RingSize
    BY <1>1, <1>10, <1>3, <1>4, <2>1, <2>2 DEF At, Indexes
  <2>3. CASE GetCount = RingSize
    BY <1>9, <1>10, <1>3, <1>4, <2>1, <2>3 DEF At, Indexes
  <2> QED
    BY <1>4, <2>2, <2>3
<1>12. /\ Append(old, t) \in Seq(0..MaxInt64)
       /\ Len(Append(old, t)) = GetCount'
       /\ \A i \in 1 .. GetCount - shift : Append(old, t)[i] = old[i]
       /\ Append(old, t)[GetCount'] = t
  <2>1. GetCount' = GetCount - shift + 1
    BY <1>1, <1>5
  <2>2. /\ Append(old, t) \in Seq(0..MaxInt64)
        /\ Len(Append(old, t)) = Len(old) + 1
        /\ \A i \in 1..Len(old) : Append(old, t)[i] = old[i]
        /\ Append(old, t)[Len(old) + 1] = t
    BY <1>2, <1>8, AppendProperties
  <2> QED
    BY <1>8, <2>1, <2>2
<1>13. ASSUME NEW i \in 1..GetCount'
       PROVE  Contents'[i] = Append(old, t)[i]
  <2>1. CASE i = GetCount'
    BY <1>2, <1>7, <1>10, <1>12, <2>1
  <2>2. CASE i # GetCount'
    <3>1. i \in 1 .. GetCount - shift /\ i + shift \in 1..GetCount
      BY <1>1, <1>5, <2>2
    <3>2. vecTimestamps'[At(nDataStart', i)]
            = vecTimestamps[At(nDataStart, i + shift)]
      BY <1>2, <1>11, <3>1
    <3>3. old[i] = vecTimestamps[At(nDataStart, i + shift)]
      BY <1>6, <1>8, <3>1
    <3> QED
      BY <1>7, <1>12, <3>1, <3>2, <3>3
  <2> QED
    BY <2>1, <2>2
<1>14. Contents' = Append(old, t)
  <2> DEFINE new == Contents'
             appended == Append(old, t)
  <2>1. /\ new \in Seq(0..MaxInt64) /\ appended \in Seq(0..MaxInt64)
        /\ Len(new) = Len(appended)
        /\ \A i \in 1..Len(new) : new[i] = appended[i]
    BY <1>7, <1>12, <1>13
  <2> HIDE DEF new, appended
  <2>2. new = appended
    BY <2>1, SeqEqual
  <2> QED
    BY <2>2 DEF new, appended
<1> QED
  BY <1>14 DEF old

(* The indexes of the ring stay in range.                                  *)
THEOREM TypeCorrect == RingSpec => []RingTypeOK
<1>1. RingInit => IInv
  BY IInvInit
<1>2. IInv /\ [RingNext]_ring => IInv'
  BY IInvStep DEF RingNext, ring, IInv, RingTypeOK
<1>3. IInv => RingTypeOK
  BY DEF IInv
<1> QED
  BY <1>1, <1>2, <1>3, PTL DEF RingSpec

(* A ring of any size holds the last time stamps, as many as it has room   *)
(* for, in the order in which they came.                                   *)
THEOREM RingImplementsWindow == RingSpec => RefinesWindow
<1>1. RingInit => IInv
  BY IInvInit
<1>2. IInv /\ [RingNext]_ring => IInv'
  BY IInvStep DEF RingNext, ring, IInv, RingTypeOK
<1>3. RingInit => RingWindow!Init
  BY RingSizeAssumption DEF RingInit, RingWindow!Init, Contents, GetCount
<1>4. IInv /\ [RingNext]_ring => [RingWindow!Next]_Contents
  <2>1. ASSUME IInv, NEW t \in Timestamps, AddTimestamp(t)
        PROVE  RingWindow!Next
    BY <2>1, ContentsStep DEF RingWindow!Next, RingWindow!Add
  <2>2. ASSUME UNCHANGED ring PROVE UNCHANGED Contents
    BY <2>2 DEF ring, Contents, GetCount
  <2> QED
    BY <2>1, <2>2 DEF RingNext
<1> QED
  BY <1>1, <1>2, <1>3, <1>4, PTL
  DEF RingSpec, RefinesWindow, RingWindow!Spec

-----------------------------------------------------------------------------
(* The rate.                                                               *)

(* From the start, the end is met once in a turn of the ring, after as     *)
(* many steps as GetCount says.                                            *)
LEMMA TurnsAreCount ==
  ASSUME IInv, ~fBufferEmpty
  PROVE  Turns = GetCount
<1> DEFINE T == {n \in 1..RingSize : (nDataStart + n) % RingSize = nDataEnd}
<1>1. GetCount \in 1..RingSize
  BY CountRange, RingSizeAssumption
<1>2. ASSUME NEW n \in 1..RingSize
      PROVE  (nDataStart + n) % RingSize = nDataEnd <=> n = GetCount
  <2> DEFINE a == nDataStart + n
  <2>1. a \in Nat /\ a < 2 * RingSize
    BY RingSizeAssumption DEF IInv, RingTypeOK, Indexes
  <2> HIDE DEF a
  <2>2. a % RingSize = IF a < RingSize THEN a ELSE a - RingSize
    BY <2>1, Around
  <2> QED
    BY <2>2, RingSizeAssumption DEF a, IInv, RingTypeOK, Indexes, GetCount
<1>3. T = {GetCount}
  BY <1>1, <1>2
<1>4. \A x : x \in T /\ (\A y \in T : x <= y) <=> x = GetCount
  <2> HIDE DEF T
  <2> QED
    BY <1>1, <1>3
<1> QED
  BY <1>4 DEF Turns, Min

LEMMA ReadIsSeen ==
  ASSUME IInv, ~fBufferEmpty
  PROVE  /\ Read = RingWindow!Seen /\ Len(Contents) = GetCount
         /\ Read # {} /\ Read \subseteq 0 .. MaxInt64 /\ IsFiniteSet(Read)
<1>1. /\ GetCount \in 1..RingSize /\ GetCount \in 0..RingSize
      /\ GetCount \in Nat /\ GetCount >= 1
  BY CountRange, RingSizeAssumption
<1>2. nDataStart \in Indexes /\ vecTimestamps \in [Indexes -> 0..MaxInt64]
  BY DEF IInv, RingTypeOK
<1>3. Contents = Ring(vecTimestamps, nDataStart, GetCount)
  BY DEF Contents, Ring
<1>4. Contents \in Seq(0..MaxInt64) /\ Len(Contents) = GetCount
  BY <1>1, <1>2, <1>3, RingAsSequence
<1>5. Turns = GetCount
  BY TurnsAreCount
<1>6. Read = {Contents[i] : i \in 1..GetCount}
  <2>1. ASSUME NEW n \in 0 .. GetCount - 1
        PROVE  /\ n + 1 \in 1..GetCount
               /\ Contents[n + 1] = vecTimestamps[(nDataStart + n) % RingSize]
    BY <1>1 DEF Contents
  <2>2. ASSUME NEW i \in 1..GetCount
        PROVE  /\ i - 1 \in 0 .. GetCount - 1
               /\ Contents[i] = vecTimestamps[(nDataStart + (i - 1)) % RingSize]
    BY <1>1 DEF Contents
  <2> HIDE DEF Contents
  <2> QED
    BY <1>5, <2>1, <2>2 DEF Read
<1>7. Read = RingWindow!Seen
  BY <1>4, <1>6 DEF RingWindow!Seen
<1>8. Read # {} /\ Read \subseteq 0 .. MaxInt64
  <2>1. \A i \in 1..Len(Contents) : Contents[i] \in 0..MaxInt64
    BY <1>4, ElementOfSeq
  <2>2. 1 \in 1..GetCount /\ Len(Contents) = GetCount
    BY <1>1, <1>4
  <2> QED
    BY <1>6, <2>1, <2>2
<1>9. IsFiniteSet(Read)
  <2> DEFINE f == [i \in 1..GetCount |-> Contents[i]]
  <2>1. f \in Surjection(1..GetCount, Read)
    BY <1>6 DEF Surjection
  <2>2. IsFiniteSet(1..GetCount)
    BY <1>1, FS_Interval, 1 \in Int
  <2> QED
    BY <2>1, <2>2, FS_Surjection
<1> QED
  BY <1>4, <1>7, <1>8, <1>9

(* An end of the range of time stamps is no more than the ends of what     *)
(* there is.                                                               *)
LEMMA EndsOfMore ==
  ASSUME NEW S, S # {}, IsFiniteSet(S), S \subseteq 0 .. MaxInt64
  PROVE  Max(S \cup {0}) = Max(S) /\ Min(S \cup {MaxInt64}) = Min(S)
<1>1. S \subseteq Int /\ MaxInt64 \in Nat
  BY TimestampAssumption
<1>2. PICK g \in S : \A y \in S : g >= y
  BY <1>1, EndsExist
<1>3. PICK l \in S : \A y \in S : l <= y
  BY <1>1, EndsExist
<1>4. g \in 0..MaxInt64 /\ l \in 0..MaxInt64
  OBVIOUS
<1>5. Max(S) = g /\ Min(S) = l
  <2>1. \A x \in S : (\A y \in S : x >= y) <=> x = g
    BY <1>1, <1>2
  <2>2. \A x \in S : (\A y \in S : x <= y) <=> x = l
    BY <1>1, <1>3
  <2> QED
    BY <2>1, <2>2 DEF Max, Min
<1>6. Max(S \cup {0}) = g
  <2> DEFINE T == S \cup {0}
  <2>1. g \in T /\ T \subseteq Int /\ \A y \in T : g >= y
    BY <1>1, <1>2, <1>4
  <2> HIDE DEF T
  <2>2. \A x \in T : (\A y \in T : x >= y) <=> x = g
    BY <2>1
  <2> QED
    BY <2>1, <2>2 DEF Max, T
<1>7. Min(S \cup {MaxInt64}) = l
  <2> DEFINE T == S \cup {MaxInt64}
  <2>1. l \in T /\ T \subseteq Int /\ \A y \in T : l <= y
    BY <1>1, <1>3, <1>4
  <2> HIDE DEF T
  <2>2. \A x \in T : (\A y \in T : x <= y) <=> x = l
    BY <2>1
  <2> QED
    BY <2>1, <2>2 DEF Min, T
<1> QED
  BY <1>5, <1>6, <1>7

(* GetRate: the count, which the ends of the ring tell, and the minimum    *)
(* and maximum, which loops over the ring find, are of the same elements,  *)
(* the last ones that came, for a ring of any size.                        *)
THEOREM RateAlwaysOfWindow == RingSpec => []RateOfWindow
<1>1. RingInit => IInv
  BY IInvInit
<1>2. IInv /\ [RingNext]_ring => IInv'
  BY IInvStep DEF RingNext, ring, IInv, RingTypeOK
<1>3. IInv => RateOfWindow
  <2> SUFFICES ASSUME IInv PROVE GetRate = RingWindow!Rate
    BY DEF RateOfWindow
  <2>1. CASE fBufferEmpty
    <3>1. GetCount = 0 /\ Contents = << >>
      BY <2>1, CountRange DEF Contents
    <3> QED
      BY <3>1 DEF GetRate, RingWindow!Rate
  <2>2. CASE ~fBufferEmpty
    <3>1. /\ Read = RingWindow!Seen /\ Len(Contents) = GetCount
          /\ GetMaxTimestamp = Max(RingWindow!Seen)
          /\ GetMinTimestamp = Min(RingWindow!Seen)
      BY <2>2, ReadIsSeen, EndsOfMore DEF GetMaxTimestamp, GetMinTimestamp
    <3>2. /\ RingWindow!Max(RingWindow!Seen) = Max(RingWindow!Seen)
          /\ RingWindow!Min(RingWindow!Seen) = Min(RingWindow!Seen)
      BY DEF Max, Min, RingWindow!Max, RingWindow!Min
    <3> QED
      BY <3>1, <3>2 DEF GetRate, RingWindow!Rate
  <2> QED
    BY <2>1, <2>2
<1> QED
  BY <1>1, <1>2, <1>3, PTL DEF RingSpec
=============================================================================
