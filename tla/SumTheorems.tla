---------------------------- MODULE SumTheorems ----------------------------
(***************************************************************************)
(* What the sums of the models are: SumFunctionOnSet(f, S), the sum of f[x] *)
(* over the members x of a finite set, is defined by a recursive function   *)
(* that takes the members in an order nobody knows.  These lemmas show that *)
(* the recursion defines a function and that the order does not matter.     *)
(* Induction over finite sets and over the natural numbers is used in the    *)
(* form of a smallest counterexample (WFMin), which needs no operator        *)
(* parameter.                                                               *)
(***************************************************************************)
EXTENDS Functions, Integers, FiniteSets, FiniteSetTheorems, WellFoundedInduction, TLAPS

Pick(S) == CHOOSE x \in S : TRUE

\* g is the recursive function that sums f over the subsets of S.
Sums(g, f, S) ==
  g = [s \in SUBSET S |-> IF s = {} THEN 0 ELSE f[Pick(s)] + g[s \ {Pick(s)}]]

\* A property some subset of a finite set has, a smallest subset has.
LEMMA SmallestSubset ==
  ASSUME NEW S, IsFiniteSet(S), NEW B, B \subseteq SUBSET S, B # {}
  PROVE  \E s \in B : \A t \in B : t \subseteq s => t = s
<1>1. IsWellFoundedOn(StrictSubsetOrdering(S), SUBSET S)
  BY FS_StrictSubsetOrderingWellFounded, FS_FiniteSubsetsOfFinite
<1>2. PICK s \in B : \A t \in B : <<t, s>> \notin StrictSubsetOrdering(S)
  BY <1>1, WFMin
<1>3. QED BY <1>2 DEF StrictSubsetOrdering

\* A non-empty set of natural numbers has a least member.
LEMMA LeastNatural ==
  ASSUME NEW B, B \subseteq Nat, B # {}
  PROVE  \E m \in B : \A k \in B : m <= k
<1>1. IsWellFoundedOn(OpToRel(<, Nat), Nat)
  BY NatLessThanWellFounded
<1>2. PICK m \in B : \A k \in B : <<k, m>> \notin OpToRel(<, Nat)
  BY <1>1, WFMin, Zenon
<1>3. ASSUME NEW k \in B, k < m PROVE FALSE
  <2>1. <<k, m>> \in Nat \X Nat /\ <<k, m>>[1] < <<k, m>>[2]
    BY <1>3
  <2>2. <<k, m>> \in OpToRel(<, Nat)
    BY <2>1 DEF OpToRel
  <2>3. QED
    BY <1>2, <2>2, Zenon
<1>4. QED
  BY <1>3

\* So has a bounded one a greatest.
LEMMA GreatestNatural ==
  ASSUME NEW S, S \subseteq Nat, S # {}, NEW bound \in Nat, \A k \in S : k <= bound
  PROVE  \E m \in S : \A k \in S : k <= m
<1> DEFINE B == {n \in Nat : \A k \in S : k <= n}
<1>1. bound \in B
  OBVIOUS
<1>2. PICK n \in B : \A m \in B : n <= m
  <2>1. B # {} /\ B \subseteq Nat
    BY <1>1
  <2> HIDE DEF B
  <2> QED BY <2>1, LeastNatural
<1>3. ASSUME n \notin S PROVE FALSE
  <2>1. \A k \in S : k < n
    BY <1>2, <1>3
  <2>2. PICK k \in S : TRUE
    OBVIOUS
  <2>3. n - 1 \in Nat /\ \A j \in S : j <= n - 1
    BY <1>2, <2>1, <2>2
  <2>4. n - 1 \in B
    BY <2>3
  <2> QED BY <1>2, <2>4
<1> QED BY <1>2, <1>3

LEMMA SumIsChosen ==
  ASSUME NEW f, NEW S
  PROVE  SumFunctionOnSet(f, S) = (CHOOSE g : Sums(g, f, S))[S]
  BY DEF SumFunctionOnSet, FoldFunctionOnSet, MapThenFoldSet, Sums, Pick

LEMMA SumsUnique ==
  ASSUME NEW f, NEW S, NEW T, IsFiniteSet(S), NEW g, NEW h,
         Sums(g, f, S), Sums(h, f, T), NEW u \in SUBSET S, u \in SUBSET T
  PROVE  g[u] = h[u]
<1> DEFINE B == {s \in SUBSET S : s \in SUBSET T /\ g[s] # h[s]}
<1>1. SUFFICES ASSUME B # {} PROVE FALSE
  OBVIOUS
<1>2. B \subseteq SUBSET S
  OBVIOUS
<1>3. PICK s \in B : \A t \in B : t \subseteq s => t = s
  <2> HIDE DEF B
  <2>1. QED BY <1>1, <1>2, SmallestSubset
<1>4. s # {}
  BY <1>3 DEF Sums
<1>5. Pick(s) \in s
  BY <1>4 DEF Pick
<1>6. s \ {Pick(s)} \notin B
  BY <1>3, <1>5
<1>7. g[s \ {Pick(s)}] = h[s \ {Pick(s)}]
  BY <1>6
<1>8. /\ g[s] = f[Pick(s)] + g[s \ {Pick(s)}]
      /\ h[s] = f[Pick(s)] + h[s \ {Pick(s)}]
  BY <1>4 DEF Sums
<1>9. QED BY <1>3, <1>7, <1>8

\* Where it exists, the recursive function over S says what the sum over each
\* subset is.
LEMMA SumsAgree ==
  ASSUME NEW f, NEW S, IsFiniteSet(S), NEW g, Sums(g, f, S),
         NEW T \in SUBSET S, \E h : Sums(h, f, T)
  PROVE  g[T] = SumFunctionOnSet(f, T)
<1> DEFINE h == CHOOSE h : Sums(h, f, T)
<1>1. Sums(h, f, T)
  OBVIOUS
<1>2. SumFunctionOnSet(f, T) = h[T]
  BY SumIsChosen
<1>3. T \in SUBSET T
  OBVIOUS
<1> HIDE DEF h
<1>4. QED BY <1>1, <1>2, <1>3, SumsUnique

\* One member is taken off a sum whose parts exist.
LEMMA SumsStep ==
  ASSUME NEW f, NEW T, IsFiniteSet(T), T # {},
         \E h : Sums(h, f, T), \E h : Sums(h, f, T \ {Pick(T)})
  PROVE  SumFunctionOnSet(f, T) = f[Pick(T)] + SumFunctionOnSet(f, T \ {Pick(T)})
<1>1. PICK g : Sums(g, f, T)
  OBVIOUS
<1>2. T \in SUBSET T /\ T \ {Pick(T)} \in SUBSET T
  OBVIOUS
<1>3. /\ g[T] = SumFunctionOnSet(f, T)
      /\ g[T \ {Pick(T)}] = SumFunctionOnSet(f, T \ {Pick(T)})
  BY <1>1, <1>2, SumsAgree
<1>4. g[T] = f[Pick(T)] + g[T \ {Pick(T)}]
  BY <1>1, <1>2 DEF Sums
<1>5. QED BY <1>3, <1>4

LEMMA SumsExist ==
  ASSUME NEW f, NEW S, IsFiniteSet(S)
  PROVE  \E g : Sums(g, f, S)
<1> DEFINE B == {s \in SUBSET S : ~ \E g : Sums(g, f, s)}
<1>1. SUFFICES ASSUME B # {} PROVE FALSE
  OBVIOUS
<1>2. B \subseteq SUBSET S
  OBVIOUS
<1>3. PICK s \in B : \A t \in B : t \subseteq s => t = s
  <2> HIDE DEF B
  <2>1. QED BY <1>1, <1>2, SmallestSubset
<1>4. \A t \in SUBSET s : t # s => \E g : Sums(g, f, t)
  BY <1>3
<1>5. \A t \in SUBSET s : IsFiniteSet(t)
  BY <1>3, FS_Subset
<1> DEFINE sum == [t \in SUBSET s |->
                     IF t = {} THEN 0
                     ELSE f[Pick(t)] + SumFunctionOnSet(f, t \ {Pick(t)})]
<1>6. ASSUME NEW t \in SUBSET s, t # {}
      PROVE  sum[t \ {Pick(t)}] = SumFunctionOnSet(f, t \ {Pick(t)})
  <2> DEFINE u == t \ {Pick(t)}
  <2>1. Pick(t) \in t
    BY <1>6 DEF Pick
  <2>2. u \in SUBSET s /\ u # s
    BY <2>1
  <2>3. CASE u = {}
    <3>1. PICK g : Sums(g, f, u)
      BY <1>4, <2>2
    <3>2. g[u] = 0
      BY <2>3, <3>1 DEF Sums
    <3>3. IsFiniteSet(u) /\ u \in SUBSET u
      BY <1>5, <2>2
    <3>4. SumFunctionOnSet(f, u) = 0
      <4> HIDE DEF u
      <4>1. QED BY <3>1, <3>2, <3>3, SumsAgree
    <3>5. QED BY <2>3, <3>4
  <2>4. CASE u # {}
    <3>1. Pick(u) \in u
      BY <2>4 DEF Pick
    <3>2. u \ {Pick(u)} \in SUBSET s /\ u \ {Pick(u)} # s
      BY <2>2, <3>1
    <3>3. IsFiniteSet(u) /\ (\E h : Sums(h, f, u)) /\ (\E h : Sums(h, f, u \ {Pick(u)}))
      <4> HIDE DEF u
      <4>1. QED BY <1>4, <1>5, <2>2, <3>2
    <3>4. SumFunctionOnSet(f, u) = f[Pick(u)] + SumFunctionOnSet(f, u \ {Pick(u)})
      <4> HIDE DEF u
      <4>1. QED BY <2>4, <3>3, SumsStep
    <3>5. QED BY <2>2, <2>4, <3>4
  <2>5. QED BY <2>3, <2>4
<1>7. Sums(sum, f, s)
  BY <1>6 DEF Sums
<1>8. QED BY <1>3, <1>7

-----------------------------------------------------------------------------
(* What a sum is *)

LEMMA SumOfNone ==
  ASSUME NEW f
  PROVE  SumFunctionOnSet(f, {}) = 0
<1>1. PICK g : Sums(g, f, {})
  BY SumsExist, FS_EmptySet
<1>2. g[{}] = 0
  BY <1>1 DEF Sums
<1>3. QED BY <1>1, <1>2, SumsAgree, FS_EmptySet

LEMMA SumPicks ==
  ASSUME NEW f, NEW S, IsFiniteSet(S), S # {}
  PROVE  /\ Pick(S) \in S
         /\ SumFunctionOnSet(f, S) = f[Pick(S)] + SumFunctionOnSet(f, S \ {Pick(S)})
<1>1. Pick(S) \in S
  BY DEF Pick
<1>2. IsFiniteSet(S \ {Pick(S)})
  BY FS_RemoveElement
<1>3. (\E h : Sums(h, f, S)) /\ (\E h : Sums(h, f, S \ {Pick(S)}))
  BY <1>2, SumsExist
<1>4. QED BY <1>1, <1>3, SumsStep

LEMMA SumInt ==
  ASSUME NEW f, NEW S, IsFiniteSet(S), \A x \in S : f[x] \in Int
  PROVE  SumFunctionOnSet(f, S) \in Int
<1> DEFINE B == {s \in SUBSET S : SumFunctionOnSet(f, s) \notin Int}
<1>1. SUFFICES ASSUME B # {} PROVE FALSE
  OBVIOUS
<1>2. B \subseteq SUBSET S
  OBVIOUS
<1>3. PICK s \in B : \A t \in B : t \subseteq s => t = s
  <2> HIDE DEF B
  <2>1. QED BY <1>1, <1>2, SmallestSubset
<1>4. s # {}
  <2>1. SumFunctionOnSet(f, {}) \in Int
    BY SumOfNone
  <2>2. SumFunctionOnSet(f, s) \notin Int
    BY <1>3
  <2>3. QED BY <2>1, <2>2, Zenon
<1>5. IsFiniteSet(s)
  BY <1>3, FS_Subset
<1>6. Pick(s) \in s /\ SumFunctionOnSet(f, s) = f[Pick(s)] + SumFunctionOnSet(f, s \ {Pick(s)})
  BY <1>4, <1>5, SumPicks
<1>7. SumFunctionOnSet(f, s \ {Pick(s)}) \in Int
  BY <1>3, <1>6
<1>8. QED BY <1>3, <1>6, <1>7

-----------------------------------------------------------------------------
(* In whatever order *)

LEMMA SumRemove ==
  ASSUME NEW f, NEW S, IsFiniteSet(S), \A y \in S : f[y] \in Int, NEW x \in S
  PROVE  SumFunctionOnSet(f, S) = f[x] + SumFunctionOnSet(f, S \ {x})
<1> DEFINE B == {s \in SUBSET S : \E y \in s :
                   SumFunctionOnSet(f, s) # f[y] + SumFunctionOnSet(f, s \ {y})}
<1>1. SUFFICES ASSUME B # {} PROVE FALSE
  OBVIOUS
<1>2. B \subseteq SUBSET S
  OBVIOUS
<1>3. PICK s \in B : \A t \in B : t \subseteq s => t = s
  <2> HIDE DEF B
  <2>1. QED BY <1>1, <1>2, SmallestSubset
<1>4. PICK y \in s : SumFunctionOnSet(f, s) # f[y] + SumFunctionOnSet(f, s \ {y})
  BY <1>3
<1> DEFINE c == Pick(s)
<1>5. IsFiniteSet(s) /\ s # {}
  BY <1>3, <1>4, FS_Subset
<1>6. c \in s /\ SumFunctionOnSet(f, s) = f[c] + SumFunctionOnSet(f, s \ {c})
  BY <1>5, SumPicks
<1> HIDE DEF c
<1>7. y # c
  BY <1>4, <1>6
<1>8. SumFunctionOnSet(f, s \ {c}) = f[y] + SumFunctionOnSet(f, (s \ {c}) \ {y})
  BY <1>3, <1>4, <1>6, <1>7
<1>9. SumFunctionOnSet(f, s \ {y}) = f[c] + SumFunctionOnSet(f, (s \ {y}) \ {c})
  BY <1>3, <1>4, <1>6, <1>7
<1>10. SumFunctionOnSet(f, (s \ {c}) \ {y}) = SumFunctionOnSet(f, (s \ {y}) \ {c})
  <2>1. (s \ {c}) \ {y} = (s \ {y}) \ {c}
    OBVIOUS
  <2>2. QED BY <2>1, Zenon
<1>11. SumFunctionOnSet(f, (s \ {y}) \ {c}) \in Int
  <2> DEFINE u == (s \ {y}) \ {c}
  <2>1. IsFiniteSet(u) /\ \A z \in u : f[z] \in Int
    BY <1>3, <1>5, FS_RemoveElement
  <2> HIDE DEF u
  <2>2. SumFunctionOnSet(f, u) \in Int
    BY <2>1, SumInt
  <2>3. QED BY <2>2 DEF u
<1>12. f[c] \in Int /\ f[y] \in Int
  BY <1>3, <1>4, <1>6
<1>13. QED BY <1>4, <1>6, <1>8, <1>9, <1>10, <1>11, <1>12

LEMMA SumAdd ==
  ASSUME NEW f, NEW S, IsFiniteSet(S), NEW x, x \notin S,
         f[x] \in Int, \A y \in S : f[y] \in Int
  PROVE  SumFunctionOnSet(f, S \cup {x}) = SumFunctionOnSet(f, S) + f[x]
<1>1. IsFiniteSet(S \cup {x}) /\ \A y \in S \cup {x} : f[y] \in Int
  BY FS_AddElement
<1>2. SumFunctionOnSet(f, (S \cup {x}) \ {x}) = SumFunctionOnSet(f, S)
  <2>1. (S \cup {x}) \ {x} = S
    OBVIOUS
  <2>2. QED BY <2>1, Zenon
<1>3. SumFunctionOnSet(f, S \cup {x}) = f[x] + SumFunctionOnSet(f, (S \cup {x}) \ {x})
  BY <1>1, SumRemove
<1>4. SumFunctionOnSet(f, S) \in Int
  BY SumInt
<1>5. QED BY <1>2, <1>3, <1>4

-----------------------------------------------------------------------------
(* Two sums over one set *)

\* A function that is nowhere larger has a sum that is not larger.
LEMMA SumMonotone ==
  ASSUME NEW f, NEW g, NEW S, IsFiniteSet(S),
         \A x \in S : f[x] \in Int /\ g[x] \in Int /\ f[x] <= g[x]
  PROVE  SumFunctionOnSet(f, S) <= SumFunctionOnSet(g, S)
<1> DEFINE B == {s \in SUBSET S : ~(SumFunctionOnSet(f, s) <= SumFunctionOnSet(g, s))}
<1>1. SUFFICES ASSUME B # {} PROVE FALSE
  OBVIOUS
<1>2. B \subseteq SUBSET S
  OBVIOUS
<1>3. PICK s \in B : \A t \in B : t \subseteq s => t = s
  <2> HIDE DEF B
  <2>1. QED BY <1>1, <1>2, SmallestSubset
<1>4. IsFiniteSet(s)
  BY <1>3, FS_Subset
<1>5. s # {}
  <2>1. SumFunctionOnSet(f, {}) <= SumFunctionOnSet(g, {})
    BY SumOfNone
  <2>2. ~(SumFunctionOnSet(f, s) <= SumFunctionOnSet(g, s))
    BY <1>3
  <2>3. QED BY <2>1, <2>2, Zenon
<1>6. PICK x \in s : TRUE
  BY <1>5
<1>7. /\ SumFunctionOnSet(f, s) = f[x] + SumFunctionOnSet(f, s \ {x})
      /\ SumFunctionOnSet(g, s) = g[x] + SumFunctionOnSet(g, s \ {x})
  BY <1>3, <1>4, SumRemove
<1>8. SumFunctionOnSet(f, s \ {x}) <= SumFunctionOnSet(g, s \ {x})
  BY <1>3
<1>9. IsFiniteSet(s \ {x}) /\ \A y \in s \ {x} : f[y] \in Int /\ g[y] \in Int
  BY <1>3, <1>4, FS_RemoveElement
<1>10. SumFunctionOnSet(f, s \ {x}) \in Int /\ SumFunctionOnSet(g, s \ {x}) \in Int
  BY <1>9, SumInt
<1>11. f[x] \in Int /\ g[x] \in Int /\ f[x] <= g[x]
  BY <1>3
<1>12. QED BY <1>3, <1>7, <1>8, <1>10, <1>11

\* Functions that agree have one sum.
LEMMA SumSame ==
  ASSUME NEW f, NEW g, NEW S, IsFiniteSet(S),
         \A x \in S : f[x] \in Int /\ f[x] = g[x]
  PROVE  SumFunctionOnSet(f, S) = SumFunctionOnSet(g, S)
<1>1. \A x \in S : g[x] \in Int /\ f[x] <= g[x] /\ g[x] <= f[x]
  OBVIOUS
<1>2. /\ SumFunctionOnSet(f, S) <= SumFunctionOnSet(g, S)
      /\ SumFunctionOnSet(g, S) <= SumFunctionOnSet(f, S)
  BY <1>1, SumMonotone
<1>3. SumFunctionOnSet(f, S) \in Int /\ SumFunctionOnSet(g, S) \in Int
  BY <1>1, SumInt
<1>4. QED BY <1>2, <1>3

\* The sum of sums.
LEMMA SumPlus ==
  ASSUME NEW f, NEW g, NEW h, NEW S, IsFiniteSet(S),
         \A x \in S : f[x] \in Int /\ g[x] \in Int /\ h[x] = f[x] + g[x]
  PROVE  SumFunctionOnSet(h, S) = SumFunctionOnSet(f, S) + SumFunctionOnSet(g, S)
<1> DEFINE B == {s \in SUBSET S :
                   SumFunctionOnSet(h, s) # SumFunctionOnSet(f, s) + SumFunctionOnSet(g, s)}
<1>1. SUFFICES ASSUME B # {} PROVE FALSE
  OBVIOUS
<1>2. B \subseteq SUBSET S
  OBVIOUS
<1>3. PICK s \in B : \A t \in B : t \subseteq s => t = s
  <2> HIDE DEF B
  <2>1. QED BY <1>1, <1>2, SmallestSubset
<1>4. IsFiniteSet(s) /\ \A x \in s : h[x] \in Int
  BY <1>3, FS_Subset
<1>5. s # {}
  <2>1. SumFunctionOnSet(h, {}) = SumFunctionOnSet(f, {}) + SumFunctionOnSet(g, {})
    BY SumOfNone
  <2>2. SumFunctionOnSet(h, s) # SumFunctionOnSet(f, s) + SumFunctionOnSet(g, s)
    BY <1>3
  <2>3. QED BY <2>1, <2>2, Zenon
<1>6. PICK x \in s : TRUE
  BY <1>5
<1>7. /\ SumFunctionOnSet(f, s) = f[x] + SumFunctionOnSet(f, s \ {x})
      /\ SumFunctionOnSet(g, s) = g[x] + SumFunctionOnSet(g, s \ {x})
      /\ SumFunctionOnSet(h, s) = h[x] + SumFunctionOnSet(h, s \ {x})
  BY <1>3, <1>4, SumRemove
<1>8. SumFunctionOnSet(h, s \ {x})
        = SumFunctionOnSet(f, s \ {x}) + SumFunctionOnSet(g, s \ {x})
  BY <1>3
<1>9. IsFiniteSet(s \ {x}) /\ \A y \in s \ {x} : f[y] \in Int /\ g[y] \in Int
  BY <1>3, <1>4, FS_RemoveElement
<1>10. SumFunctionOnSet(f, s \ {x}) \in Int /\ SumFunctionOnSet(g, s \ {x}) \in Int
  BY <1>9, SumInt
<1>11. f[x] \in Int /\ g[x] \in Int /\ h[x] = f[x] + g[x]
  BY <1>3
<1>12. QED BY <1>3, <1>7, <1>8, <1>10, <1>11

-----------------------------------------------------------------------------
(* Amounts that are not negative *)

LEMMA SumNat ==
  ASSUME NEW f, NEW S, IsFiniteSet(S), \A x \in S : f[x] \in Nat
  PROVE  SumFunctionOnSet(f, S) \in Nat
<1> DEFINE zero == [x \in S |-> 0]
<1>1. SumFunctionOnSet(f, S) \in Int
  BY SumInt
<1>2. \A x \in S : zero[x] \in Int /\ zero[x] = zero[x] + zero[x] /\ zero[x] <= f[x]
  OBVIOUS
<1> HIDE DEF zero
<1>3. SumFunctionOnSet(zero, S) \in Int
  BY <1>2, SumInt
<1>4. SumFunctionOnSet(zero, S) = SumFunctionOnSet(zero, S) + SumFunctionOnSet(zero, S)
  BY <1>2, SumPlus
<1>5. SumFunctionOnSet(zero, S) <= SumFunctionOnSet(f, S)
  BY <1>2, SumMonotone
<1>6. QED BY <1>1, <1>3, <1>4, <1>5

\* Fewer members have a sum that is not larger.
LEMMA SumOfSubset ==
  ASSUME NEW f, NEW S, IsFiniteSet(S), \A x \in S : f[x] \in Nat, NEW T \in SUBSET S
  PROVE  SumFunctionOnSet(f, T) <= SumFunctionOnSet(f, S)
<1> DEFINE B == {s \in SUBSET S : T \subseteq s /\
                   ~(SumFunctionOnSet(f, T) <= SumFunctionOnSet(f, s))}
<1>1. SUFFICES ASSUME B # {} PROVE FALSE
  OBVIOUS
<1>2. B \subseteq SUBSET S
  OBVIOUS
<1>3. PICK s \in B : \A t \in B : t \subseteq s => t = s
  <2> HIDE DEF B
  <2>1. QED BY <1>1, <1>2, SmallestSubset
<1>4. IsFiniteSet(s) /\ IsFiniteSet(T)
  BY <1>3, FS_Subset
<1>5. SumFunctionOnSet(f, T) \in Nat
  BY <1>4, SumNat
<1>6. PICK x \in s : x \notin T
  <2>1. ~(SumFunctionOnSet(f, T) <= SumFunctionOnSet(f, s)) /\ T \subseteq s
    BY <1>3
  <2>2. SumFunctionOnSet(f, T) <= SumFunctionOnSet(f, T)
    BY <1>5
  <2>3. s # T
    BY <2>1, <2>2, Zenon
  <2>4. QED BY <2>1, <2>3
<1>7. SumFunctionOnSet(f, s) = f[x] + SumFunctionOnSet(f, s \ {x})
  BY <1>3, <1>4, SumRemove
<1>8. SumFunctionOnSet(f, T) <= SumFunctionOnSet(f, s \ {x})
  BY <1>3, <1>6
<1>9. SumFunctionOnSet(f, s \ {x}) \in Nat
  BY <1>3, <1>4, FS_RemoveElement, SumNat
<1>10. f[x] \in Nat
  BY <1>3
<1>11. QED BY <1>3, <1>5, <1>7, <1>8, <1>9, <1>10

\* Members whose value is 0 do not count.
LEMMA SumOfNonZero ==
  ASSUME NEW f, NEW S, IsFiniteSet(S), \A x \in S : f[x] \in Int,
         NEW T \in SUBSET S, \A x \in S \ T : f[x] = 0
  PROVE  SumFunctionOnSet(f, S) = SumFunctionOnSet(f, T)
<1> DEFINE B == {s \in SUBSET S : T \subseteq s /\
                   SumFunctionOnSet(f, s) # SumFunctionOnSet(f, T)}
<1>1. SUFFICES ASSUME B # {} PROVE FALSE
  OBVIOUS
<1>2. B \subseteq SUBSET S
  OBVIOUS
<1>3. PICK s \in B : \A t \in B : t \subseteq s => t = s
  <2> HIDE DEF B
  <2>1. QED BY <1>1, <1>2, SmallestSubset
<1>4. IsFiniteSet(s)
  BY <1>3, FS_Subset
<1>5. PICK x \in s : x \notin T
  <2>1. SumFunctionOnSet(f, s) # SumFunctionOnSet(f, T) /\ T \subseteq s
    BY <1>3
  <2>2. s # T
    BY <2>1, Zenon
  <2>3. QED BY <2>1, <2>2
<1>6. SumFunctionOnSet(f, s) = f[x] + SumFunctionOnSet(f, s \ {x})
  BY <1>3, <1>4, SumRemove
<1>7. SumFunctionOnSet(f, s \ {x}) = SumFunctionOnSet(f, T)
  BY <1>3, <1>5
<1>8. SumFunctionOnSet(f, s \ {x}) \in Int
  BY <1>3, <1>4, FS_RemoveElement, SumInt
<1>9. f[x] = 0
  BY <1>3, <1>5
<1>10. QED BY <1>3, <1>6, <1>7, <1>8, <1>9

\* A member is not larger than the sum.
LEMMA SumCovers ==
  ASSUME NEW f, NEW S, IsFiniteSet(S), \A y \in S : f[y] \in Nat, NEW x \in S
  PROVE  f[x] <= SumFunctionOnSet(f, S)
<1>1. SumFunctionOnSet(f, S) = f[x] + SumFunctionOnSet(f, S \ {x})
  BY SumRemove
<1>2. SumFunctionOnSet(f, S \ {x}) \in Nat
  BY FS_RemoveElement, SumNat
<1>3. QED BY <1>1, <1>2

\* One member changes.
LEMMA SumChange ==
  ASSUME NEW f, NEW g, NEW S, IsFiniteSet(S), NEW x \in S,
         \A y \in S : f[y] \in Int /\ g[y] \in Int,
         \A y \in S : y # x => g[y] = f[y]
  PROVE  SumFunctionOnSet(g, S) = SumFunctionOnSet(f, S) - f[x] + g[x]
<1>1. /\ SumFunctionOnSet(f, S) = f[x] + SumFunctionOnSet(f, S \ {x})
      /\ SumFunctionOnSet(g, S) = g[x] + SumFunctionOnSet(g, S \ {x})
  BY SumRemove
<1>2. IsFiniteSet(S \ {x})
  BY FS_RemoveElement
<1>3. SumFunctionOnSet(g, S \ {x}) = SumFunctionOnSet(f, S \ {x})
  BY <1>2, SumSame
<1>4. SumFunctionOnSet(f, S \ {x}) \in Int
  BY <1>2, SumInt
<1>5. QED BY <1>1, <1>3, <1>4

\* The members fall into classes: the sums of the classes add up to the sum.
LEMMA SumByClass ==
  ASSUME NEW f, NEW S, IsFiniteSet(S), \A x \in S : f[x] \in Int,
         NEW T, IsFiniteSet(T), NEW P, \A x \in S : \E t \in T : x \in P[t],
         \A t \in T : P[t] \subseteq S,
         \A t \in T, u \in T, x \in S : x \in P[t] /\ x \in P[u] => t = u,
         NEW h, \A t \in T : h[t] = SumFunctionOnSet(f, P[t])
  PROVE  SumFunctionOnSet(h, T) = SumFunctionOnSet(f, S)
<1> DEFINE Part(s, t) == P[t] \cap s
           Parts(s) == [t \in T |-> SumFunctionOnSet(f, Part(s, t))]
           B == {s \in SUBSET S : SumFunctionOnSet(Parts(s), T) # SumFunctionOnSet(f, s)}
<1>1. ASSUME NEW s \in SUBSET S
      PROVE  /\ IsFiniteSet(s)
             /\ \A t \in T : /\ IsFiniteSet(Part(s, t))
                             /\ SumFunctionOnSet(f, Part(s, t)) \in Int
                             /\ Parts(s)[t] = SumFunctionOnSet(f, Part(s, t))
  <2>1. IsFiniteSet(s)
    BY FS_Subset
  <2>2. ASSUME NEW t \in T
        PROVE  IsFiniteSet(Part(s, t)) /\ SumFunctionOnSet(f, Part(s, t)) \in Int
    <3>1. Part(s, t) \in SUBSET s /\ \A x \in Part(s, t) : f[x] \in Int
      OBVIOUS
    <3>2. IsFiniteSet(Part(s, t))
      BY <2>1, <3>1, FS_Subset
    <3> HIDE DEF Part
    <3>3. QED BY <3>1, <3>2, SumInt
  <2>3. QED BY <2>1, <2>2
<1>2. B = {}
  <2>1. SUFFICES ASSUME B # {} PROVE FALSE
    OBVIOUS
  <2>2. B \subseteq SUBSET S
    OBVIOUS
  <2>3. PICK s \in B : \A t \in B : t \subseteq s => t = s
    <3> HIDE DEF B
    <3>1. QED BY <2>1, <2>2, SmallestSubset
  <2>4. s \in SUBSET S /\ SumFunctionOnSet(Parts(s), T) # SumFunctionOnSet(f, s)
    BY <2>3
  <2>5. ASSUME s = {} PROVE FALSE
    <3>1. \A t \in T : Part(s, t) = {}
      BY <2>5
    <3>2. \A t \in T : Parts(s)[t] = 0
      BY <1>1, <2>4, <3>1, SumOfNone, Zenon
    <3> HIDE DEF Part, Parts
    <3>3. SumFunctionOnSet(Parts(s), T) = SumFunctionOnSet(Parts(s), {})
      BY <3>2, SumOfNonZero
    <3>4. SumFunctionOnSet(Parts(s), {}) = 0 /\ SumFunctionOnSet(f, {}) = 0
      BY SumOfNone
    <3>5. QED BY <2>4, <2>5, <3>3, <3>4, Zenon
  <2>6. PICK x \in s : TRUE
    BY <2>5
  <2> DEFINE r == s \ {x}
  <2>7. r \in SUBSET S /\ SumFunctionOnSet(Parts(r), T) = SumFunctionOnSet(f, r)
    BY <2>3, <2>4, <2>6
  <2>8. SumFunctionOnSet(f, s) = f[x] + SumFunctionOnSet(f, r)
    <3>1. IsFiniteSet(s) /\ \A y \in s : f[y] \in Int
      BY <1>1, <2>4
    <3> QED BY <2>6, <3>1, SumRemove
  <2>9. f[x] \in Int
    BY <2>4, <2>6
  <2>10. PICK u \in T : x \in P[u]
    BY <2>4, <2>6
  <2>11. Parts(s)[u] = f[x] + Parts(r)[u]
    <3>1. x \in Part(s, u) /\ Part(r, u) = Part(s, u) \ {x}
          /\ \A y \in Part(s, u) : f[y] \in Int
      BY <2>4, <2>6, <2>10
    <3>2. IsFiniteSet(Part(s, u))
      BY <1>1, <2>4, <2>9
    <3>3. SumFunctionOnSet(f, Part(s, u))
            = f[x] + SumFunctionOnSet(f, Part(s, u) \ {x})
      <4> HIDE DEF Part
      <4>1. QED BY <3>1, <3>2, SumRemove
    <3>4. Parts(s)[u] = SumFunctionOnSet(f, Part(s, u))
          /\ Parts(r)[u] = SumFunctionOnSet(f, Part(r, u))
      BY <2>10
    <3> HIDE DEF Part, Parts, r
    <3>5. QED BY <3>1, <3>3, <3>4, Zenon
  <2>12. ASSUME NEW t \in T, t # u PROVE Parts(s)[t] = Parts(r)[t]
    <3>1. Part(s, t) = Part(r, t)
      BY <2>4, <2>6, <2>12, <2>10
    <3>2. QED BY <3>1, Zenon
  <2>13. \A t \in T : Parts(s)[t] \in Int /\ Parts(r)[t] \in Int
    BY <1>1, <2>4, <2>7
  <2>14. SumFunctionOnSet(Parts(s), T)
           = SumFunctionOnSet(Parts(r), T) - Parts(r)[u] + Parts(s)[u]
    <3> HIDE DEF Parts, r
    <3>1. QED BY <2>9, <2>12, <2>13, SumChange
  <2>15. SumFunctionOnSet(f, r) \in Int
    <3>1. IsFiniteSet(r) /\ \A y \in r : f[y] \in Int
      BY <1>1, <2>7
    <3> HIDE DEF r
    <3>2. QED BY <3>1, SumInt
  <2> HIDE DEF Parts, r, B
  <2>16. QED BY <2>4, <2>7, <2>8, <2>9, <2>11, <2>13, <2>14, <2>15
<1>3. SumFunctionOnSet(Parts(S), T) = SumFunctionOnSet(f, S)
  BY <1>2
<1>4. \A t \in T : Parts(S)[t] \in Int /\ Parts(S)[t] = h[t]
  <2>1. \A t \in T : Part(S, t) = P[t]
    OBVIOUS
  <2> QED BY <1>1, <2>1, Zenon
<1>5. SumFunctionOnSet(Parts(S), T) = SumFunctionOnSet(h, T)
  <2> HIDE DEF Parts
  <2>1. QED BY <1>4, SumSame
<1>6. QED BY <1>3, <1>5, Zenon

\* The sum of a function is a sum over a set its values are taken from.
LEMMA SumOfField ==
    ASSUME NEW S, IsFiniteSet(S), NEW T \in SUBSET S, NEW f, NEW g,
           f = [i \in T |-> g[i]], \A i \in S : g[i] \in Int
    PROVE  /\ SumFunction(f) = SumFunctionOnSet(g, T)
           /\ SumFunction(f) \in Int
<1>1. DOMAIN f = T /\ \A i \in T : f[i] \in Int /\ f[i] = g[i]
  OBVIOUS
<1>2. IsFiniteSet(T)
  BY FS_Subset
<1>3. SumFunctionOnSet(f, T) = SumFunctionOnSet(g, T) /\ SumFunctionOnSet(f, T) \in Int
  BY <1>1, <1>2, SumSame, SumInt
<1>4. SumFunction(f) = SumFunctionOnSet(f, T)
  BY <1>1, Zenon DEF SumFunction
<1>5. QED BY <1>3, <1>4

\* A sum of zeros.
LEMMA SumOfZeros ==
    ASSUME NEW T, IsFiniteSet(T), NEW f, \A t \in T : f[t] = 0
    PROVE  SumFunctionOnSet(f, T) = 0
<1>1. {} \in SUBSET T /\ \A t \in T : f[t] \in Int /\ f[t] = 0
  OBVIOUS
<1>2. SumFunctionOnSet(f, T) = SumFunctionOnSet(f, {})
  BY <1>1, SumOfNonZero
<1>3. QED BY <1>2, SumOfNone, Zenon

\* A sum of one.
LEMMA SumOfOne ==
    ASSUME NEW f, NEW x, f[x] \in Int
    PROVE  SumFunctionOnSet(f, {x}) = f[x]
<1>1. SumFunctionOnSet(f, {}) = 0 /\ IsFiniteSet({})
  BY SumOfNone, FS_EmptySet
<1>2. SumFunctionOnSet(f, {} \cup {x}) = SumFunctionOnSet(f, {}) + f[x]
  BY <1>1, SumAdd
<1>3. {} \cup {x} = {x}
  OBVIOUS
<1>4. SumFunctionOnSet(f, {x}) = 0 + f[x]
  BY <1>1, <1>2, <1>3, Zenon
<1>5. QED BY <1>4

\* A sum over what others are mapped to, each to one of its own, is a sum over them.
LEMMA SumByImage ==
    ASSUME NEW D, IsFiniteSet(D), NEW row, NEW R, R = {row[p] : p \in D},
           \A p \in D, q \in D : row[p] = row[q] => p = q,
           NEW f, \A t \in R : f[t] \in Int
    PROVE  /\ SumFunctionOnSet(f, R) = SumFunctionOnSet([p \in D |-> f[row[p]]], D)
           /\ IsFiniteSet(R)
<1> DEFINE k == [p \in D |-> f[row[p]]]
           P == [t \in R |-> {p \in D : row[p] = t}]
           m == [p \in D |-> row[p]]
<1>1. m \in Surjection(D, R)
  BY DEF Surjection
<1>2. IsFiniteSet(R)
  <2> HIDE DEF m
  <2>1. QED BY <1>1, FS_Surjection
<1>3. \A p \in D : k[p] \in Int
  OBVIOUS
<1>4. ASSUME NEW t \in R PROVE f[t] = SumFunctionOnSet(k, P[t])
  <2>1. PICK p \in D : row[p] = t
    OBVIOUS
  <2>2. P[t] = {p} /\ k[p] = f[t]
    BY <2>1
  <2>3. SumFunctionOnSet(k, {p}) = k[p]
    <3> HIDE DEF k
    <3>1. QED BY <1>3, SumOfOne
  <2>4. QED BY <2>2, <2>3, Zenon
<1>5. \A x \in D : \E t \in R : x \in P[t]
  OBVIOUS
<1>6. \A t \in R : P[t] \subseteq D
  OBVIOUS
<1>7. \A t \in R, u \in R, x \in D : x \in P[t] /\ x \in P[u] => t = u
  OBVIOUS
<1>8. SumFunctionOnSet(f, R) = SumFunctionOnSet(k, D)
  <2> HIDE DEF k, P, m
  <2>1. \A t \in R : f[t] = SumFunctionOnSet(k, P[t])
    BY <1>4
  <2>2. QED BY <1>2, <1>3, <1>5, <1>6, <1>7, <2>1, SumByClass, SMTT(60)
<1>9. QED BY <1>2, <1>8 DEF k

\* The entries of a table may be added by rows or by columns.
LEMMA SumExchange ==
    ASSUME NEW S, IsFiniteSet(S), NEW T, IsFiniteSet(T), NEW F,
           \A s \in S : \A t \in T : F[s][t] \in Int
    PROVE  SumFunctionOnSet([s \in S |-> SumFunctionOnSet(F[s], T)], S)
             = SumFunctionOnSet([t \in T |-> SumFunctionOnSet([s \in S |-> F[s][t]], S)], T)
<1> DEFINE rows == [s \in S |-> SumFunctionOnSet(F[s], T)]
           col(t) == [s \in S |-> F[s][t]]
           cols(U) == [t \in T |-> SumFunctionOnSet(col(t), U)]
           B == {U \in SUBSET S : SumFunctionOnSet(rows, U) # SumFunctionOnSet(cols(U), T)}
<1>1. \A s \in S : rows[s] \in Int
  BY SumInt
<1>2. ASSUME NEW U \in SUBSET S
      PROVE  /\ IsFiniteSet(U)
             /\ \A t \in T : cols(U)[t] = SumFunctionOnSet(col(t), U) /\ cols(U)[t] \in Int
  <2>1. IsFiniteSet(U)
    BY FS_Subset
  <2>2. ASSUME NEW t \in T PROVE SumFunctionOnSet(col(t), U) \in Int
    <3>1. \A s \in U : col(t)[s] \in Int
      OBVIOUS
    <3> HIDE DEF col
    <3>2. QED BY <2>1, <3>1, SumInt
  <2>3. QED BY <2>1, <2>2
<1>3. B = {}
  <2>1. SUFFICES ASSUME B # {} PROVE FALSE
    OBVIOUS
  <2>2. B \subseteq SUBSET S
    OBVIOUS
  <2>3. PICK U \in B : \A V \in B : V \subseteq U => V = U
    <3> HIDE DEF B
    <3>1. QED BY <2>1, <2>2, SmallestSubset
  <2>4. U \in SUBSET S /\ SumFunctionOnSet(rows, U) # SumFunctionOnSet(cols(U), T)
    BY <2>3
  <2>5. ASSUME U = {} PROVE FALSE
    <3>1. \A t \in T : cols(U)[t] = 0
      BY <1>2, <2>4, <2>5, SumOfNone, Zenon
    <3>2. SumFunctionOnSet(cols(U), T) = 0
      <4> HIDE DEF cols
      <4>1. QED BY <3>1, SumOfZeros
    <3>3. SumFunctionOnSet(rows, U) = 0
      BY <2>5, SumOfNone, Zenon
    <3>4. QED BY <2>4, <3>2, <3>3, Zenon
  <2>6. PICK x \in U : TRUE
    BY <2>5
  <2> DEFINE V == U \ {x}
  <2>7. V \in SUBSET S /\ SumFunctionOnSet(rows, V) = SumFunctionOnSet(cols(V), T)
    <3>1. V \in SUBSET S /\ V \subseteq U /\ V # U
      BY <2>4, <2>6
    <3>2. V \notin B
      BY <2>3, <3>1, Zenon
    <3> HIDE DEF rows, cols, V
    <3>3. QED BY <3>1, <3>2
  <2>8. SumFunctionOnSet(rows, U) = rows[x] + SumFunctionOnSet(rows, V)
    <3>1. IsFiniteSet(U) /\ \A y \in U : rows[y] \in Int
      BY <1>1, <1>2, <2>4
    <3> HIDE DEF rows
    <3>2. QED BY <2>6, <3>1, SumRemove
  <2>9. ASSUME NEW t \in T PROVE F[x][t] \in Int /\ cols(U)[t] = F[x][t] + cols(V)[t]
    <3>1. IsFiniteSet(U) /\ (\A y \in U : col(t)[y] \in Int) /\ col(t)[x] = F[x][t]
      BY <1>2, <2>4, <2>6
    <3>2. SumFunctionOnSet(col(t), U) = col(t)[x] + SumFunctionOnSet(col(t), V)
      <4> HIDE DEF col
      <4>1. QED BY <2>6, <3>1, SumRemove
    <3>3. /\ cols(U)[t] = SumFunctionOnSet(col(t), U)
          /\ cols(V)[t] = SumFunctionOnSet(col(t), V)
      BY <1>2, <2>4, <2>7
    <3>4. F[x][t] \in Int
      BY <2>4, <2>6
    <3> HIDE DEF cols, col, V
    <3>5. QED BY <3>1, <3>2, <3>3, <3>4, Zenon
  <2>10. \A t \in T : cols(V)[t] \in Int
    BY <1>2, <2>7
  <2>11. SumFunctionOnSet(cols(U), T)
           = SumFunctionOnSet(F[x], T) + SumFunctionOnSet(cols(V), T)
    <3> HIDE DEF cols, V
    <3>1. QED BY <2>9, <2>10, SumPlus
  <2>12. rows[x] = SumFunctionOnSet(F[x], T)
    BY <2>4, <2>6
  <2>13. QED BY <2>4, <2>7, <2>8, <2>11, <2>12, Zenon
<1>4. SumFunctionOnSet(rows, S) = SumFunctionOnSet(cols(S), T)
  BY <1>3
<1>5. QED BY <1>4

\* Two parts of a set.
LEMMA SumOfUnion ==
    ASSUME NEW f, NEW S, IsFiniteSet(S), NEW T, IsFiniteSet(T), S \cap T = {},
           \A x \in S \cup T : f[x] \in Int
    PROVE  SumFunctionOnSet(f, S \cup T) = SumFunctionOnSet(f, S) + SumFunctionOnSet(f, T)
<1> DEFINE B == {u \in SUBSET T :
                   SumFunctionOnSet(f, S \cup u) # SumFunctionOnSet(f, S) + SumFunctionOnSet(f, u)}
<1>1. SUFFICES ASSUME B # {} PROVE FALSE
  OBVIOUS
<1>2. B \subseteq SUBSET T
  OBVIOUS
<1>3. PICK u \in B : \A v \in B : v \subseteq u => v = u
  <2> HIDE DEF B
  <2>1. QED BY <1>1, <1>2, SmallestSubset
<1>4. /\ u \in SUBSET T
      /\ SumFunctionOnSet(f, S \cup u) # SumFunctionOnSet(f, S) + SumFunctionOnSet(f, u)
  BY <1>3
<1>5. SumFunctionOnSet(f, S) \in Int
  BY SumInt
<1>6. u # {}
  <2>1. ASSUME u = {} PROVE FALSE
    <3>1. S \cup u = S
      BY <2>1
    <3>2. SumFunctionOnSet(f, S \cup u) = SumFunctionOnSet(f, S) /\ SumFunctionOnSet(f, u) = 0
      BY <2>1, <3>1, SumOfNone, Zenon
    <3>3. QED BY <1>4, <1>5, <3>2
  <2>2. QED BY <2>1
<1>7. PICK x \in u : TRUE
  BY <1>6
<1> DEFINE v == u \ {x}
<1>8. v \in SUBSET T /\ SumFunctionOnSet(f, S \cup v) = SumFunctionOnSet(f, S) + SumFunctionOnSet(f, v)
  BY <1>3, <1>7
<1>9. SumFunctionOnSet(f, u) = f[x] + SumFunctionOnSet(f, v)
  <2>1. IsFiniteSet(u) /\ \A y \in u : f[y] \in Int
    BY <1>4, FS_Subset
  <2>2. QED BY <1>7, <2>1, SumRemove
<1>10. SumFunctionOnSet(f, S \cup u) = f[x] + SumFunctionOnSet(f, S \cup v)
  <2>1. IsFiniteSet(u)
    BY <1>4, FS_Subset
  <2>2. IsFiniteSet(S \cup u) /\ (\A y \in S \cup u : f[y] \in Int) /\ x \in S \cup u
    BY <1>4, <1>7, <2>1, FS_Union
  <2>3. (S \cup u) \ {x} = S \cup v
    BY <1>4, <1>7
  <2>4. SumFunctionOnSet(f, S \cup u) = f[x] + SumFunctionOnSet(f, (S \cup u) \ {x})
    BY <2>2, SumRemove
  <2>5. QED BY <2>3, <2>4, Zenon
<1>11. SumFunctionOnSet(f, v) \in Int /\ f[x] \in Int
  <2>1. IsFiniteSet(v) /\ \A y \in v : f[y] \in Int
    BY <1>8, FS_Subset
  <2> HIDE DEF v
  <2>2. QED BY <1>4, <1>7, <2>1, SumInt
<1> HIDE DEF v, B
<1>12. QED BY <1>4, <1>5, <1>8, <1>9, <1>10, <1>11

\* The sum of differences.
LEMMA SumOfDifferences ==
    ASSUME NEW f, NEW g, NEW h, NEW S, IsFiniteSet(S),
           \A x \in S : f[x] \in Int /\ g[x] \in Int /\ h[x] = f[x] - g[x]
    PROVE  SumFunctionOnSet(h, S) = SumFunctionOnSet(f, S) - SumFunctionOnSet(g, S)
<1>1. \A x \in S : h[x] \in Int /\ g[x] \in Int /\ f[x] = h[x] + g[x]
  OBVIOUS
<1>2. SumFunctionOnSet(f, S) = SumFunctionOnSet(h, S) + SumFunctionOnSet(g, S)
  BY <1>1, SumPlus
<1>3. SumFunctionOnSet(h, S) \in Int /\ SumFunctionOnSet(g, S) \in Int
  BY <1>1, SumInt
<1>4. QED BY <1>2, <1>3
=============================================================================
