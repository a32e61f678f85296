----------------------------- MODULE SumTheorems -----------------------------
(***************************************************************************)
(* The sum of a function over a finite set, SumFunctionOnSet, for proofs   *)
(* that something is conserved.  The sum is a recursive function that      *)
(* takes its elements out in an order of its own; the lemmas say that the  *)
(* order does not matter.  Induction over the set is an argument about a   *)
(* smallest subset for which the claim fails, which also shows that a      *)
(* finite set of integers has a least and a greatest member.               *)
(***************************************************************************)
EXTENDS Functions, FiniteSetTheorems, TLAPS

(* The element that the fold of the library takes out first; one step of   *)
(* the fold; the function on all subsets that it is the value of.          *)
Pick(s) == CHOOSE x \in s : TRUE

SumStep(f, g, s) ==
  IF s = {} THEN 0 ELSE f[Pick(s)] + g[s \ {Pick(s)}]

IsSum(f, g, S) == g = [s \in SUBSET S |-> SumStep(f, g, s)]

(* The definition in the library is the choice of such a function.         *)
LEMMA SumUnfold ==
  ASSUME NEW f, NEW S
  PROVE  SumFunctionOnSet(f, S) = (CHOOSE g : IsSum(f, g, S))[S]
BY DEF SumFunctionOnSet, FoldFunctionOnSet, MapThenFoldSet, IsSum, SumStep, Pick

(* Among subsets of a finite set there is one that contains no other.      *)
LEMMA SmallestSubset ==
  ASSUME NEW S, IsFiniteSet(S), NEW B \in SUBSET SUBSET S, B # {}
  PROVE  \E T \in B : \A U \in B : U \subseteq T => U = T
<1> DEFINE R == StrictSubsetOrdering(S)
<1>1. IsWellFoundedOn(R, SUBSET S)
  BY FS_StrictSubsetOrderingWellFounded, FS_FiniteSubsetsOfFinite
<1>2. PICK T \in B : \A U \in B : ~ (<<U, T>> \in R)
  BY <1>1, WFMin
<1>3. ASSUME NEW U \in B, U \subseteq T, U # T PROVE FALSE
  BY <1>2, <1>3 DEF StrictSubsetOrdering
<1> QED
  BY <1>3

(* Two solutions of the equation agree on the sets both are defined on.    *)
LEMMA SumUnique ==
  ASSUME NEW f, NEW S, IsFiniteSet(S), NEW g, IsSum(f, g, S),
         NEW T, NEW h, IsSum(f, h, T), NEW U, U \subseteq S, U \subseteq T
  PROVE  g[U] = h[U]
<1> DEFINE B == {V \in SUBSET U : g[V] # h[V]}
<1>0. IsFiniteSet(U)
  BY FS_Subset
<1>1. ASSUME B # {} PROVE FALSE
  <2>1. PICK V \in B : \A W \in B : W \subseteq V => W = V
    <3>1. B \in SUBSET SUBSET U
      OBVIOUS
    <3> HIDE DEF B
    <3> QED
      BY <1>0, <1>1, <3>1, SmallestSubset
  <2>2. V \in SUBSET S /\ V \in SUBSET T /\ g[V] # h[V]
    OBVIOUS
  <2>3. g[V] = SumStep(f, g, V) /\ h[V] = SumStep(f, h, V)
    BY <2>2 DEF IsSum
  <2>4. V # {}
    BY <2>2, <2>3 DEF SumStep
  <2>5. Pick(V) \in V
    BY <2>4 DEF Pick
  <2>6. g[V \ {Pick(V)}] = h[V \ {Pick(V)}]
    BY <2>1, <2>5
  <2> QED
    BY <2>2, <2>3, <2>6 DEF SumStep
<1> QED
  BY <1>1

(* The equation has a solution: one on the strict subsets of a set, put    *)
(* together, gives one on the set.                                         *)
LEMMA SumExists ==
  ASSUME NEW f, NEW S, IsFiniteSet(S)
  PROVE  \E g : IsSum(f, g, S)
<1> DEFINE B == {T \in SUBSET S : ~ \E g : IsSum(f, g, T)}
<1>1. ASSUME B # {} PROVE FALSE
  <2>1. PICK T \in B : \A U \in B : U \subseteq T => U = T
    <3>1. B \in SUBSET SUBSET S
      OBVIOUS
    <3> HIDE DEF B
    <3> QED
      BY <1>1, <3>1, SmallestSubset
  <2> DEFINE G(U) == CHOOSE g : IsSum(f, g, U)
             V(U) == IF U = {} THEN 0 ELSE f[Pick(U)]
                                           + G(U \ {Pick(U)})[U \ {Pick(U)}]
             h == [U \in SUBSET T |-> V(U)]
  <2>2. ASSUME NEW U \in SUBSET T, U # T PROVE IsSum(f, G(U), U)
    <3>1. \E g : IsSum(f, g, U)
      BY <2>1, <2>2
    <3> QED
      BY <3>1
  <2>3. ASSUME NEW U \in SUBSET T, U # {}
        PROVE  h[U \ {Pick(U)}] = G(U \ {Pick(U)})[U \ {Pick(U)}]
    <3>1. Pick(U) \in U
      BY <2>3 DEF Pick
    <3> DEFINE W == U \ {Pick(U)}
    <3>2. W \in SUBSET T /\ W # T /\ IsSum(f, G(W), W)
      BY <2>2, <3>1
    <3>3. h[W] = V(W)
      BY <3>2
    <3>4. G(W)[W] = SumStep(f, G(W), W)
      BY <3>2 DEF IsSum
    <3> HIDE DEF h, V
    <3>5. CASE W = {}
      <4>1. V(W) = 0
        BY <3>5 DEF V
      <4> QED
        BY <3>3, <3>4, <3>5, <4>1 DEF SumStep
    <3>6. CASE W # {}
      <4> DEFINE X == W \ {Pick(W)}
      <4>1. Pick(W) \in W
        BY <3>6 DEF Pick
      <4>2. X \in SUBSET T /\ X # T /\ IsSum(f, G(X), X) /\ IsFiniteSet(W)
        BY <2>2, <3>2, FS_Subset
      <4> HIDE DEF W, G
      <4>3. G(W)[X] = G(X)[X]
        BY <3>2, <4>2, SumUnique
      <4>4. V(W) = f[Pick(W)] + G(X)[X]
        BY <3>6 DEF V
      <4> QED
        BY <3>3, <3>4, <3>6, <4>3, <4>4 DEF SumStep, W
    <3> QED
      BY <3>5, <3>6
  <2>4. ASSUME NEW U \in SUBSET T PROVE h[U] = SumStep(f, h, U)
    <3>1. h[U] = V(U)
      OBVIOUS
    <3>2. V(U) = SumStep(f, h, U)
      <4> HIDE DEF h, G
      <4>1. CASE U = {}
        BY <4>1 DEF SumStep
      <4>2. CASE U # {}
        BY <2>3, <4>2 DEF SumStep
      <4> QED
        BY <4>1, <4>2
    <3> QED
      BY <3>1, <3>2
  <2>5. IsSum(f, h, T)
    BY <2>4 DEF IsSum
  <2> QED
    BY <2>1, <2>5
<1> QED
  BY <1>1

(* The sum as its definition says: the first element and the rest.         *)
LEMMA SumEquation ==
  ASSUME NEW f, NEW S, IsFiniteSet(S)
  PROVE  /\ SumFunctionOnSet(f, {}) = 0
         /\ S # {} => /\ Pick(S) \in S
                      /\ SumFunctionOnSet(f, S)
                           = f[Pick(S)] + SumFunctionOnSet(f, S \ {Pick(S)})
<1> DEFINE G(U) == CHOOSE g : IsSum(f, g, U)
<1>1. ASSUME NEW U \in SUBSET S PROVE IsSum(f, G(U), U) /\ IsFiniteSet(U)
  BY SumExists, FS_Subset
<1>2. ASSUME NEW U PROVE SumFunctionOnSet(f, U) = G(U)[U]
  BY SumUnfold
<1> HIDE DEF G
<1>3. SumFunctionOnSet(f, {}) = 0
  BY <1>1, <1>2 DEF IsSum, SumStep
<1>4. ASSUME S # {}
      PROVE  /\ Pick(S) \in S
             /\ SumFunctionOnSet(f, S)
                  = f[Pick(S)] + SumFunctionOnSet(f, S \ {Pick(S)})
  <2> DEFINE U == S \ {Pick(S)}
  <2>1. Pick(S) \in S
    BY <1>4 DEF Pick
  <2>2. G(S)[S] = f[Pick(S)] + G(S)[U]
    BY <1>1, <1>4 DEF IsSum, SumStep
  <2>3. G(S)[U] = G(U)[U]
    BY <1>1, SumUnique
  <2> QED
    BY <1>2, <2>1, <2>2, <2>3
<1> QED
  BY <1>3, <1>4

(* The sum of integers is one.                                             *)
LEMMA SumIsInt ==
  ASSUME NEW f, NEW S, IsFiniteSet(S), \A x \in S : f[x] \in Int
  PROVE  SumFunctionOnSet(f, S) \in Int
<1>0. SumFunctionOnSet(f, {}) = 0
  BY SumEquation
<1> DEFINE B == {T \in SUBSET S : SumFunctionOnSet(f, T) \notin Int}
<1>1. ASSUME B # {} PROVE FALSE
  <2>1. B \in SUBSET SUBSET S
    OBVIOUS
  <2>2. PICK T \in B : \A U \in B : U \subseteq T => U = T
    <3> HIDE DEF B
    <3> QED
      BY <1>1, <2>1, SmallestSubset
  <2>3. IsFiniteSet(T)
    BY FS_Subset
  <2>4. T # {}
    BY <1>0
  <2>5. /\ Pick(T) \in T
        /\ SumFunctionOnSet(f, T)
             = f[Pick(T)] + SumFunctionOnSet(f, T \ {Pick(T)})
    BY <2>3, <2>4, SumEquation
  <2>6. SumFunctionOnSet(f, T \ {Pick(T)}) \in Int
    BY <2>2, <2>5
  <2> QED
    BY <2>2, <2>5, <2>6
<1> QED
  BY <1>1

(* Any element may be taken out first.                                     *)
LEMMA SumSplit ==
  ASSUME NEW f, NEW S, IsFiniteSet(S), \A x \in S : f[x] \in Int
  PROVE  \A x \in S :
           SumFunctionOnSet(f, S) = f[x] + SumFunctionOnSet(f, S \ {x})
<1> DEFINE Splits(T) ==
             \A x \in T :
               SumFunctionOnSet(f, T) = f[x] + SumFunctionOnSet(f, T \ {x})
           B == {T \in SUBSET S : ~Splits(T)}
<1>0. \A T \in SUBSET S : IsFiniteSet(T) /\ SumFunctionOnSet(f, T) \in Int
  BY FS_Subset, SumIsInt
<1>1. ASSUME B # {} PROVE FALSE
  <2>1. B \in SUBSET SUBSET S
    OBVIOUS
  <2>2. PICK T \in B : \A U \in B : U \subseteq T => U = T
    <3> HIDE DEF B
    <3> QED
      BY <1>1, <2>1, SmallestSubset
  <2>3. PICK x \in T :
          SumFunctionOnSet(f, T) # f[x] + SumFunctionOnSet(f, T \ {x})
    OBVIOUS
  <2> DEFINE y == Pick(T)
             U == T \ {y}
             V == T \ {x}
  <2>4. y \in T /\ SumFunctionOnSet(f, T) = f[y] + SumFunctionOnSet(f, U)
    BY <1>0, <2>3, SumEquation
  <2>5. /\ U \in SUBSET S /\ V \in SUBSET S
        /\ U \subseteq T /\ U # T /\ V \subseteq T /\ V # T
        /\ x # y => x \in U /\ y \in V
        /\ U \ {x} = V \ {y} /\ U \ {x} \in SUBSET S
    BY <2>3, <2>4
  <2>6. x # y
    BY <2>3, <2>4
  <2>7. Splits(U) /\ Splits(V)
    BY <2>2, <2>5
  <2>8. /\ SumFunctionOnSet(f, U) = f[x] + SumFunctionOnSet(f, U \ {x})
        /\ SumFunctionOnSet(f, V) = f[y] + SumFunctionOnSet(f, V \ {y})
    BY <2>5, <2>6, <2>7
  <2>9. f[x] \in Int /\ f[y] \in Int /\ SumFunctionOnSet(f, V \ {y}) \in Int
    BY <1>0, <2>3, <2>4, <2>5
  <2> HIDE DEF U, V, y
  <2>10. f[y] + (f[x] + SumFunctionOnSet(f, V \ {y}))
           = f[x] + (f[y] + SumFunctionOnSet(f, V \ {y}))
    BY <2>9
  <2> QED
    BY <2>3, <2>4, <2>5, <2>8, <2>10 DEF V
<1> QED
  BY <1>1

(* One element more.                                                       *)
LEMMA SumAdd ==
  ASSUME NEW f, NEW S, IsFiniteSet(S), NEW x, x \notin S,
         \A y \in S \cup {x} : f[y] \in Int
  PROVE  SumFunctionOnSet(f, S \cup {x}) = f[x] + SumFunctionOnSet(f, S)
<1>1. IsFiniteSet(S \cup {x}) /\ (S \cup {x}) \ {x} = S
  BY FS_AddElement
<1> DEFINE T == S \cup {x}
<1>2. x \in T /\ \A y \in T : f[y] \in Int
  OBVIOUS
<1> HIDE DEF T
<1>3. SumFunctionOnSet(f, T) = f[x] + SumFunctionOnSet(f, T \ {x})
  BY <1>1, <1>2, SumSplit DEF T
<1> QED
  BY <1>1, <1>3 DEF T

(* Functions that agree on the set have the same sum.                      *)
LEMMA SumCongruent ==
  ASSUME NEW f, NEW g, NEW S, IsFiniteSet(S), \A x \in S : f[x] = g[x]
  PROVE  SumFunctionOnSet(f, S) = SumFunctionOnSet(g, S)
<1> DEFINE B ==
             {T \in SUBSET S : SumFunctionOnSet(f, T) # SumFunctionOnSet(g, T)}
<1>1. ASSUME B # {} PROVE FALSE
  <2>1. B \in SUBSET SUBSET S
    OBVIOUS
  <2>2. PICK T \in B : \A U \in B : U \subseteq T => U = T
    <3> HIDE DEF B
    <3> QED
      BY <1>1, <2>1, SmallestSubset
  <2>3. IsFiniteSet(T)
    BY FS_Subset
  <2>4. T # {}
    BY <2>3, SumEquation
  <2>5. /\ Pick(T) \in T
        /\ SumFunctionOnSet(f, T)
             = f[Pick(T)] + SumFunctionOnSet(f, T \ {Pick(T)})
        /\ SumFunctionOnSet(g, T)
             = g[Pick(T)] + SumFunctionOnSet(g, T \ {Pick(T)})
    BY <2>3, <2>4, SumEquation
  <2>6. SumFunctionOnSet(f, T \ {Pick(T)}) = SumFunctionOnSet(g, T \ {Pick(T)})
    BY <2>2, <2>5
  <2> QED
    BY <2>2, <2>5, <2>6
<1> QED
  BY <1>1

(* A change of one value changes the sum by as much.                       *)
LEMMA SumUpdate ==
  ASSUME NEW S, IsFiniteSet(S), NEW f, \A y \in S : f[y] \in Int,
         NEW x \in S, NEW g, g[x] \in Int,
         \A y \in S \ {x} : g[y] = f[y]
  PROVE  SumFunctionOnSet(g, S) = SumFunctionOnSet(f, S) + g[x] - f[x]
<1>1. IsFiniteSet(S \ {x}) /\ SumFunctionOnSet(f, S \ {x}) \in Int
  BY FS_RemoveElement, SumIsInt
<1>2. SumFunctionOnSet(f, S) = f[x] + SumFunctionOnSet(f, S \ {x})
  BY SumSplit
<1>3. SumFunctionOnSet(g, S) = g[x] + SumFunctionOnSet(g, S \ {x})
  BY SumSplit
<1>4. SumFunctionOnSet(g, S \ {x}) = SumFunctionOnSet(f, S \ {x})
  BY <1>1, SumCongruent
<1> QED
  BY <1>1, <1>2, <1>3, <1>4

(* The sum of natural numbers is one.                                      *)
LEMMA SumIsNat ==
  ASSUME NEW f, NEW S, IsFiniteSet(S), \A x \in S : f[x] \in Nat
  PROVE  SumFunctionOnSet(f, S) \in Nat
<1>0. SumFunctionOnSet(f, {}) = 0
  BY SumEquation
<1> DEFINE B == {T \in SUBSET S : SumFunctionOnSet(f, T) \notin Nat}
<1>1. ASSUME B # {} PROVE FALSE
  <2>1. B \in SUBSET SUBSET S
    OBVIOUS
  <2>2. PICK T \in B : \A U \in B : U \subseteq T => U = T
    <3> HIDE DEF B
    <3> QED
      BY <1>1, <2>1, SmallestSubset
  <2>3. IsFiniteSet(T)
    BY FS_Subset
  <2>4. T # {}
    BY <1>0
  <2>5. /\ Pick(T) \in T
        /\ SumFunctionOnSet(f, T)
             = f[Pick(T)] + SumFunctionOnSet(f, T \ {Pick(T)})
    BY <2>3, <2>4, SumEquation
  <2>6. SumFunctionOnSet(f, T \ {Pick(T)}) \in Nat
    BY <2>2, <2>5
  <2> QED
    BY <2>2, <2>5, <2>6
<1> QED
  BY <1>1

(* The sum of nothing but zeros.                                           *)
LEMMA SumZero ==
  ASSUME NEW f, NEW S, IsFiniteSet(S), \A x \in S : f[x] = 0
  PROVE  SumFunctionOnSet(f, S) = 0
<1> DEFINE B == {T \in SUBSET S : SumFunctionOnSet(f, T) # 0}
<1>1. ASSUME B # {} PROVE FALSE
  <2>1. B \in SUBSET SUBSET S
    OBVIOUS
  <2>2. PICK T \in B : \A U \in B : U \subseteq T => U = T
    <3> HIDE DEF B
    <3> QED
      BY <1>1, <2>1, SmallestSubset
  <2>3. IsFiniteSet(T)
    BY FS_Subset
  <2>4. T # {}
    BY <2>2, <2>3, SumEquation
  <2>5. /\ Pick(T) \in T
        /\ SumFunctionOnSet(f, T)
             = f[Pick(T)] + SumFunctionOnSet(f, T \ {Pick(T)})
    BY <2>3, <2>4, SumEquation
  <2>6. SumFunctionOnSet(f, T \ {Pick(T)}) = 0
    BY <2>2, <2>5
  <2> QED
    BY <2>2, <2>5, <2>6
<1> QED
  BY <1>1

(* A finite set is as large as the parts together into which a function    *)
(* divides it.                                                             *)
LEMMA SumOfFibres ==
  ASSUME NEW A, IsFiniteSet(A), NEW C, IsFiniteSet(C), NEW f \in [A -> C]
  PROVE  SumFunctionOnSet([c \in C |-> Cardinality({a \in A : f[a] = c})], C)
           = Cardinality(A)
<1> DEFINE Sizes(T) == [c \in C |-> Cardinality({a \in T : f[a] = c})]
           B == {T \in SUBSET A :
                   SumFunctionOnSet(Sizes(T), C) # Cardinality(T)}
<1>0. ASSUME NEW T \in SUBSET A
      PROVE  \A c \in C : /\ Sizes(T)[c] = Cardinality({a \in T : f[a] = c})
                         /\ Sizes(T)[c] \in Nat
  <2>1. IsFiniteSet(T)
    BY FS_Subset
  <2>2. ASSUME NEW c \in C PROVE Cardinality({a \in T : f[a] = c}) \in Nat
    BY <2>1, FS_Subset, FS_CardinalityType
  <2> QED
    BY <2>2
<1> HIDE DEF Sizes
<1>1. ASSUME B # {} PROVE FALSE
  <2>1. B \in SUBSET SUBSET A
    OBVIOUS
  <2>2. PICK T \in B : \A U \in B : U \subseteq T => U = T
    <3> HIDE DEF B
    <3> QED
      BY <1>1, <2>1, SmallestSubset
  <2>3. IsFiniteSet(T)
    BY FS_Subset
  <2>4. T # {}
    <3>1. ASSUME T = {} PROVE FALSE
      <4>1. \A c \in C : {a \in {} : f[a] = c} = {}
        OBVIOUS
      <4>2. \A c \in C : Sizes(T)[c] = 0
        BY <1>0, <3>1, <4>1, FS_EmptySet
      <4>3. SumFunctionOnSet(Sizes(T), C) = 0
        BY <4>2, SumZero
      <4> QED
        BY <2>2, <3>1, <4>3, FS_EmptySet
    <3> QED
      BY <3>1
  <2>5. PICK a \in T : TRUE
    BY <2>4
  <2> DEFINE U == T \ {a}
             x == f[a]
  <2>6. /\ U \in SUBSET A /\ U \subseteq T /\ U # T /\ x \in C
        /\ IsFiniteSet(U) /\ Cardinality(U) = Cardinality(T) - 1
    BY <2>3, FS_RemoveElement
  <2>7. SumFunctionOnSet(Sizes(U), C) = Cardinality(U)
    BY <2>2, <2>6
  <2>p. PICK g, h : g = Sizes(T) /\ h = Sizes(U)
    OBVIOUS
  <2>t. \A c \in C : g[c] = Cardinality({b \in T : f[b] = c}) /\ g[c] \in Nat
    BY <1>0, <2>p
  <2>u. \A c \in C : h[c] = Cardinality({b \in U : f[b] = c}) /\ h[c] \in Nat
    BY <1>0, <2>6, <2>p
  <2>c. Cardinality(T) \in Nat
    BY <2>3, FS_CardinalityType
  <2>8. ASSUME NEW c \in C \ {x} PROVE g[c] = h[c]
    <3>1. {b \in T : f[b] = c} = {b \in U : f[b] = c}
      OBVIOUS
    <3> QED
      BY <2>t, <2>u, <3>1
  <2>9. g[x] = h[x] + 1
    <3> DEFINE F == {b \in T : f[b] = x}
    <3>1. {b \in U : f[b] = x} = F \ {a} /\ a \in F
      OBVIOUS
    <3>2. IsFiniteSet(F)
      BY <2>3, FS_Subset
    <3>3. Cardinality(F) \in Nat /\ Cardinality(F \ {a}) = Cardinality(F) - 1
      BY <3>1, <3>2, FS_RemoveElement, FS_CardinalityType
    <3>4. g[x] = Cardinality(F) /\ h[x] = Cardinality(F \ {a})
      BY <2>t, <2>u, <2>6, <3>1
    <3> QED
      BY <3>3, <3>4
  <2>s. /\ SumFunctionOnSet(g, C) # Cardinality(T)
        /\ SumFunctionOnSet(h, C) = Cardinality(U)
    BY <2>2, <2>7, <2>p
  <2> HIDE DEF U, x
  <2>10. /\ \A y \in C : h[y] \in Int
         /\ \A y \in C \ {x} : g[y] = h[y]
         /\ x \in C /\ g[x] \in Int
    <3>1. \A y \in C : g[y] \in Nat /\ h[y] \in Nat
      BY <2>t, <2>u, Zenon
    <3> QED
      BY <2>6, <2>8, <3>1
  <2>11. SumFunctionOnSet(g, C) = SumFunctionOnSet(h, C) + g[x] - h[x]
    BY <2>10, SumUpdate
  <2> QED
    BY <2>c, <2>s, <2>6, <2>9, <2>10, <2>11
<1> QED
  <2>1. SumFunctionOnSet(Sizes(A), C) = Cardinality(A)
    BY <1>1
  <2> QED
    BY <2>1 DEF Sizes

(* A finite set of integers has a least and a greatest member.             *)
LEMMA EndsExist ==
  ASSUME NEW S, IsFiniteSet(S), S # {}, \A x \in S : x \in Int
  PROVE  /\ \E x \in S : \A y \in S : x <= y
         /\ \E x \in S : \A y \in S : x >= y
<1> DEFINE Bounded(T) == /\ \E x \in T : \A y \in T : x <= y
                         /\ \E x \in T : \A y \in T : x >= y
           B == {T \in SUBSET S : T # {} /\ ~Bounded(T)}
<1>1. ASSUME B # {} PROVE FALSE
  <2>1. B \in SUBSET SUBSET S
    OBVIOUS
  <2>2. PICK T \in B : \A U \in B : U \subseteq T => U = T
    <3> HIDE DEF B
    <3> QED
      BY <1>1, <2>1, SmallestSubset
  <2>3. PICK a \in T : TRUE
    OBVIOUS
  <2>4. T \subseteq Int /\ ~Bounded(T)
    OBVIOUS
  <2>5. T \ {a} # {}
    BY <2>4
  <2>6. Bounded(T \ {a})
    <3>1. T \ {a} \in SUBSET S /\ T \ {a} \subseteq T /\ T \ {a} # T
      OBVIOUS
    <3> HIDE DEF Bounded
    <3> QED
      BY <2>2, <2>5, <3>1
  <2>7. PICK l \in T \ {a}, g \in T \ {a} :
          \A y \in T \ {a} : l <= y /\ g >= y
    BY <2>6
  <2>8. \E x \in T : \A y \in T : x <= y
    <3>1. CASE l <= a
      BY <2>4, <2>7, <3>1
    <3>2. CASE a <= l
      BY <2>4, <2>7, <3>2
    <3> QED
      BY <2>4, <3>1, <3>2
  <2>9. \E x \in T : \A y \in T : x >= y
    <3>1. CASE g >= a
      BY <2>4, <2>7, <3>1
    <3>2. CASE a >= g
      BY <2>4, <2>7, <3>2
    <3> QED
      BY <2>4, <3>1, <3>2
  <2> QED
    BY <2>4, <2>8, <2>9
<1> QED
  BY <1>1
=============================================================================
