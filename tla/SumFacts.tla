------------------------------- MODULE SumFacts -------------------------------
(***************************************************************************)
(* What the folds of the community modules compute, for every finite set.  *)
(* The induction principles of the library take a formula as a parameter;  *)
(* here induction is about sets, of which one that is not empty has a      *)
(* least member.                                                           *)
(***************************************************************************)
EXTENDS Integers, FiniteSets, FiniteSetsExt, FiniteSetTheorems, WellFoundedInduction, TLAPS

(* A set of naturals with 0 and with the successor of each of its members  *)
(* holds them all.                                                         *)
LEMMA NatSetInduction ==
    ASSUME NEW S \in SUBSET Nat, 0 \in S, \A n \in S : n + 1 \in S
    PROVE  S = Nat
<1> DEFINE T == Nat \ S
<1>1. SUFFICES ASSUME T # {} PROVE FALSE
  OBVIOUS
<1>2. PICK x \in T : \A y \in T : <<y, x>> \notin OpToRel(<, Nat)
  BY <1>1, WFMin, NatLessThanWellFounded
<1>3. \A y \in T : ~(y < x)
  BY <1>2 DEF OpToRel
<1>4. x # 0 /\ x \in Nat
  OBVIOUS
<1>5. x - 1 \in Nat /\ x - 1 < x
  BY <1>4
<1>6. x - 1 \in S
  BY <1>3, <1>5
<1>7. (x - 1) + 1 = x
  BY <1>4
<1> QED
  BY <1>6, <1>7

(* Of the naturals of a set that is not empty, one is the least.           *)
LEMMA LeastNat ==
    ASSUME NEW S \in SUBSET Nat, S # {}
    PROVE  \E m \in S : \A n \in S : m <= n
<1>1. PICK x \in S : \A y \in S : <<y, x>> \notin OpToRel(<, Nat)
  BY WFMin, NatLessThanWellFounded
<1>2. \A y \in S : ~(y < x)
  BY <1>1 DEF OpToRel
<1> QED
  BY <1>2

(* A set of finite sets that holds a set whenever it holds every set with  *)
(* one element less holds them all.                                        *)
LEMMA SubsetInduction ==
    ASSUME NEW S, IsFiniteSet(S), NEW G \in SUBSET (SUBSET S), {} \in G,
           \A T \in SUBSET S : (\A x \in T : T \ {x} \in G) => T \in G
    PROVE  G = SUBSET S
<1> DEFINE Sized(n) == {T \in SUBSET S : Cardinality(T) = n}
           N == {n \in Nat : Sized(n) \subseteq G}
<1>1. \A T \in SUBSET S : IsFiniteSet(T) /\ Cardinality(T) \in Nat
  BY FS_Subset, FS_CardinalityType
<1>2. 0 \in N
  BY <1>1, FS_EmptySet
<1>3. ASSUME NEW n \in N PROVE n + 1 \in N
  <2>1. SUFFICES ASSUME NEW T \in SUBSET S, Cardinality(T) = n + 1 PROVE T \in G
    OBVIOUS
  <2>2. ASSUME NEW x \in T PROVE T \ {x} \in G
    <3>1. Cardinality(T \ {x}) = n
      BY <1>1, <2>1, FS_RemoveElement
    <3> QED
      BY <3>1
  <2> QED
    BY <2>2
<1>4. N = Nat
  BY <1>2, <1>3, NatSetInduction
<1> QED
  BY <1>1, <1>4

-------------------------------------------------------------------------------
(* The partial sums that SumFunctionOnSet builds.                          *)
Element(T) == CHOOSE x \in T : TRUE
IsSums(g, f, S) ==
    g = [T \in SUBSET S |-> IF T = {} THEN 0 ELSE f[Element(T)] + g[T \ {Element(T)}]]

LEMMA ElementFacts == ASSUME NEW T, T # {} PROVE Element(T) \in T
  BY DEF Element

LEMMA SumsExist ==
    ASSUME NEW S, IsFiniteSet(S), NEW f
    PROVE  \E g : IsSums(g, f, S)
<1> DEFINE Upto(n) == {T \in SUBSET S : Cardinality(T) <= n}
           Sums(g, n) == g = [T \in Upto(n) |->
                                IF T = {} THEN 0 ELSE f[Element(T)] + g[T \ {Element(T)}]]
           N == {n \in Nat : \E g : Sums(g, n)}
<1>1. \A T \in SUBSET S : IsFiniteSet(T) /\ Cardinality(T) \in Nat
  BY FS_Subset, FS_CardinalityType
<1>2. 0 \in N
  <2> DEFINE g == [T \in Upto(0) |-> 0]
  <2>1. \A T \in Upto(0) : T = {}
    BY <1>1, FS_EmptySet
  <2>2. g = [T \in Upto(0) |-> IF T = {} THEN 0 ELSE f[Element(T)] + g[T \ {Element(T)}]]
    BY <2>1
  <2> QED
    BY <2>2
<1>3. ASSUME NEW n \in N PROVE n + 1 \in N
  <2>1. PICK g : g = [T \in Upto(n) |-> IF T = {} THEN 0
                                        ELSE f[Element(T)] + g[T \ {Element(T)}]]
    OBVIOUS
  <2> DEFINE h == [T \in Upto(n + 1) |-> IF T = {} THEN 0
                                         ELSE f[Element(T)] + g[T \ {Element(T)}]]
  <2>2. ASSUME NEW T \in Upto(n + 1), T # {}
        PROVE  T \ {Element(T)} \in Upto(n)
    <3>1. Element(T) \in T
      BY <2>2, ElementFacts
    <3>2. Cardinality(T \ {Element(T)}) = Cardinality(T) - 1
      BY <1>1, <3>1, FS_RemoveElement
    <3> QED
      BY <1>1, <3>2
  <2>3. ASSUME NEW T \in Upto(n) PROVE h[T] = g[T] /\ T \in Upto(n + 1)
    <3>1. T \in Upto(n + 1)
      BY <1>1
    <3>2. h[T] = IF T = {} THEN 0 ELSE f[Element(T)] + g[T \ {Element(T)}]
      BY <3>1
    <3>3. g[T] = IF T = {} THEN 0 ELSE f[Element(T)] + g[T \ {Element(T)}]
      <4> HIDE DEF Upto
      <4> QED
        BY <2>1
    <3> QED
      BY <3>1, <3>2, <3>3
  <2>4. h = [T \in Upto(n + 1) |-> IF T = {} THEN 0
                                   ELSE f[Element(T)] + h[T \ {Element(T)}]]
    BY <2>2, <2>3
  <2>5. Sums(h, n + 1)
    BY <2>4
  <2> HIDE DEF Upto, h, Sums
  <2> QED
    BY <2>5
<1>4. Cardinality(S) \in N
  BY <1>1, <1>2, <1>3, NatSetInduction
<1>5. Upto(Cardinality(S)) = SUBSET S
  BY FS_Subset, <1>1
<1> QED
  BY <1>4, <1>5 DEF IsSums

(* The sums over the subsets of two sets agree on what is common to both.  *)
LEMMA SumsAgree ==
    ASSUME NEW S, IsFiniteSet(S), NEW R \in SUBSET S, NEW f, NEW g, NEW h,
           IsSums(g, f, S), IsSums(h, f, R)
    PROVE  h[R] = g[R]
<1> DEFINE G == {T \in SUBSET R : h[T] = g[T]}
<1>1. IsFiniteSet(R)
  BY FS_Subset
<1>2. \A T \in SUBSET R :
         /\ h[T] = IF T = {} THEN 0 ELSE f[Element(T)] + h[T \ {Element(T)}]
         /\ g[T] = IF T = {} THEN 0 ELSE f[Element(T)] + g[T \ {Element(T)}]
  BY DEF IsSums
<1>3. ASSUME NEW T \in SUBSET R, \A x \in T : T \ {x} \in G PROVE T \in G
  BY <1>2, <1>3, ElementFacts
<1>4. G = SUBSET R
  <2>1. {} \in G /\ G \in SUBSET (SUBSET R)
    BY <1>2
  <2> HIDE DEF G
  <2> QED
    BY <1>1, <1>3, <2>1, SubsetInduction
<1> QED
  BY <1>4

LEMMA SumIsSums ==
    ASSUME NEW S, IsFiniteSet(S), NEW f
    PROVE  \E g : IsSums(g, f, S) /\ SumFunctionOnSet(f, S) = g[S]
<1> DEFINE Chosen == CHOOSE g : IsSums(g, f, S)
<1>1. SumFunctionOnSet(f, S) = Chosen[S]
  BY DEF SumFunctionOnSet, FoldFunctionOnSet, MapThenFoldSet, IsSums, Element
<1>2. IsSums(Chosen, f, S)
  BY SumsExist
<1> QED
  BY <1>1, <1>2

-------------------------------------------------------------------------------
(* The sum over a set is a value and the sum over the rest of the set.     *)
LEMMA SumEmpty == ASSUME NEW f PROVE SumFunctionOnSet(f, {}) = 0
<1>1. PICK g : IsSums(g, f, {}) /\ SumFunctionOnSet(f, {}) = g[{}]
  BY SumIsSums, FS_EmptySet
<1> QED
  BY <1>1 DEF IsSums

LEMMA SumFirst ==
    ASSUME NEW S, IsFiniteSet(S), S # {}, NEW f
    PROVE  SumFunctionOnSet(f, S) = f[Element(S)] + SumFunctionOnSet(f, S \ {Element(S)})
<1> DEFINE R == S \ {Element(S)}
<1>1. IsFiniteSet(R) /\ R \in SUBSET S
  BY FS_Subset
<1>2. PICK g : IsSums(g, f, S) /\ SumFunctionOnSet(f, S) = g[S]
  BY SumIsSums
<1>3. PICK h : IsSums(h, f, R) /\ SumFunctionOnSet(f, R) = h[R]
  BY <1>1, SumIsSums
<1>4. h[R] = g[R]
  BY <1>1, <1>2, <1>3, SumsAgree
<1>5. g[S] = f[Element(S)] + g[R]
  BY <1>2 DEF IsSums
<1> QED
  BY <1>2, <1>3, <1>4, <1>5

LEMMA SumInt ==
    ASSUME NEW S, IsFiniteSet(S), NEW f, \A x \in S : f[x] \in Int
    PROVE  SumFunctionOnSet(f, S) \in Int
<1> DEFINE G == {T \in SUBSET S : SumFunctionOnSet(f, T) \in Int}
<1>1. \A T \in SUBSET S : IsFiniteSet(T)
  BY FS_Subset
<1>2. {} \in G
  BY SumEmpty
<1>3. ASSUME NEW T \in SUBSET S, \A x \in T : T \ {x} \in G PROVE T \in G
  <2>1. CASE T = {}
    BY <1>2, <2>1
  <2>2. CASE T # {}
    <3>1. Element(T) \in T /\ f[Element(T)] \in Int
      BY <2>2, ElementFacts
    <3>2. SumFunctionOnSet(f, T \ {Element(T)}) \in Int
      BY <1>3, <3>1
    <3>3. SumFunctionOnSet(f, T)
            = f[Element(T)] + SumFunctionOnSet(f, T \ {Element(T)})
      BY <1>1, <2>2, SumFirst
    <3> QED
      BY <3>1, <3>2, <3>3
  <2> QED
    BY <2>1, <2>2
<1>4. G \in SUBSET (SUBSET S)
  OBVIOUS
<1>5. G = SUBSET S
  <2> HIDE DEF G
  <2> QED
    BY <1>2, <1>3, <1>4, SubsetInduction
<1> QED
  BY <1>5

(* ... whichever value is taken out.                                       *)
LEMMA SumRemove ==
    ASSUME NEW S, IsFiniteSet(S), NEW f, \A x \in S : f[x] \in Int, NEW y \in S
    PROVE  SumFunctionOnSet(f, S) = f[y] + SumFunctionOnSet(f, S \ {y})
<1> DEFINE Sum(T) == SumFunctionOnSet(f, T)
           G == {T \in SUBSET S : \A x \in T : Sum(T) = f[x] + Sum(T \ {x})}
<1>1. \A T \in SUBSET S : IsFiniteSet(T) /\ Sum(T) \in Int
  BY FS_Subset, SumInt
<1>2. {} \in G
  OBVIOUS
<1>3. ASSUME NEW T \in SUBSET S, \A x \in T : T \ {x} \in G PROVE T \in G
  <2> DEFINE e == Element(T)
  <2>1. SUFFICES ASSUME NEW x \in T PROVE Sum(T) = f[x] + Sum(T \ {x})
    OBVIOUS
  <2>2. e \in T /\ Sum(T) = f[e] + Sum(T \ {e})
    BY <1>1, ElementFacts, SumFirst
  <2> HIDE DEF e
  <2>3. CASE x = e
    BY <2>2, <2>3
  <2>4. CASE x # e
    <3>1. Sum(T \ {e}) = f[x] + Sum((T \ {e}) \ {x})
      BY <1>3, <2>2, <2>4
    <3>2. Sum(T \ {x}) = f[e] + Sum((T \ {x}) \ {e})
      BY <1>3, <2>2, <2>4
    <3>3. (T \ {x}) \ {e} = (T \ {e}) \ {x}
      OBVIOUS
    <3>4. Sum((T \ {e}) \ {x}) \in Int /\ f[e] \in Int /\ f[x] \in Int
      BY <1>1, <2>2
    <3>5. Sum((T \ {x}) \ {e}) = Sum((T \ {e}) \ {x})
      BY <3>3
    <3> DEFINE rest == Sum((T \ {e}) \ {x})
               left == Sum(T \ {x})
    <3>6. Sum(T) = f[e] + (f[x] + rest) /\ left = f[e] + rest
      BY <2>2, <3>1, <3>2, <3>5
    <3>7. rest \in Int /\ f[e] \in Int /\ f[x] \in Int
      BY <3>4
    <3>8. f[e] + (f[x] + rest) = f[x] + left
      <4> HIDE DEF rest, left, Sum
      <4> QED
        BY <3>6, <3>7
    <3> QED
      BY <3>6, <3>8
  <2> QED
    BY <2>3, <2>4
<1>4. G \in SUBSET (SUBSET S)
  OBVIOUS
<1>5. G = SUBSET S
  <2> HIDE DEF G
  <2> QED
    BY <1>2, <1>3, <1>4, SubsetInduction
<1> QED
  BY <1>5

LEMMA SumNat ==
    ASSUME NEW S, IsFiniteSet(S), NEW f, \A x \in S : f[x] \in Nat
    PROVE  SumFunctionOnSet(f, S) \in Nat
<1> DEFINE G == {T \in SUBSET S : SumFunctionOnSet(f, T) \in Nat}
<1>1. \A T \in SUBSET S : IsFiniteSet(T)
  BY FS_Subset
<1>2. {} \in G
  BY SumEmpty
<1>3. ASSUME NEW T \in SUBSET S, \A x \in T : T \ {x} \in G PROVE T \in G
  <2>1. CASE T = {}
    BY <1>2, <2>1
  <2>2. CASE T # {}
    <3>1. Element(T) \in T /\ f[Element(T)] \in Nat
      BY <2>2, ElementFacts
    <3>2. SumFunctionOnSet(f, T \ {Element(T)}) \in Nat
      BY <1>3, <3>1
    <3>3. SumFunctionOnSet(f, T)
            = f[Element(T)] + SumFunctionOnSet(f, T \ {Element(T)})
      BY <1>1, <2>2, SumFirst
    <3> QED
      BY <3>1, <3>2, <3>3
  <2> QED
    BY <2>1, <2>2
<1>4. G \in SUBSET (SUBSET S)
  OBVIOUS
<1>5. G = SUBSET S
  <2> HIDE DEF G
  <2> QED
    BY <1>2, <1>3, <1>4, SubsetInduction
<1> QED
  BY <1>5

LEMMA SumOfOne ==
    ASSUME NEW f, NEW x, f[x] \in Int
    PROVE  SumFunctionOnSet(f, {x}) = f[x]
<1>1. IsFiniteSet({x}) /\ {x} \ {x} = {}
  BY FS_Singleton
<1>2. SumFunctionOnSet(f, {x}) = f[x] + SumFunctionOnSet(f, {x} \ {x})
  BY <1>1, SumRemove
<1> QED
  BY <1>1, <1>2, SumEmpty

(* Values outside the set do not matter. *)
LEMMA SumSame ==
    ASSUME NEW S, IsFiniteSet(S), NEW f, NEW g,
           \A x \in S : f[x] \in Int /\ g[x] = f[x]
    PROVE  SumFunctionOnSet(f, S) = SumFunctionOnSet(g, S)
<1> DEFINE G == {T \in SUBSET S : SumFunctionOnSet(f, T) = SumFunctionOnSet(g, T)}
<1>1. \A T \in SUBSET S : IsFiniteSet(T)
  BY FS_Subset
<1>2. {} \in G
  BY SumEmpty
<1>3. ASSUME NEW T \in SUBSET S, \A x \in T : T \ {x} \in G PROVE T \in G
  <2>1. CASE T = {}
    BY <1>2, <2>1
  <2>2. CASE T # {}
    <3>1. PICK x \in T : TRUE
      BY <2>2
    <3>2. /\ SumFunctionOnSet(f, T) = f[x] + SumFunctionOnSet(f, T \ {x})
          /\ SumFunctionOnSet(g, T) = g[x] + SumFunctionOnSet(g, T \ {x})
      BY <1>1, SumRemove
    <3>3. SumFunctionOnSet(f, T \ {x}) = SumFunctionOnSet(g, T \ {x}) /\ g[x] = f[x]
      BY <1>3
    <3> QED
      BY <3>2, <3>3
  <2> QED
    BY <2>1, <2>2
<1>4. G \in SUBSET (SUBSET S)
  OBVIOUS
<1>5. G = SUBSET S
  <2> HIDE DEF G
  <2> QED
    BY <1>2, <1>3, <1>4, SubsetInduction
<1> QED
  BY <1>5

(* What is added outside a part of the set is zero.                        *)
LEMMA SumPart ==
    ASSUME NEW S, IsFiniteSet(S), NEW f, \A x \in S : f[x] \in Int,
           NEW R \in SUBSET S, \A x \in S \ R : f[x] = 0
    PROVE  SumFunctionOnSet(f, S) = SumFunctionOnSet(f, R)
<1> DEFINE Sum(T) == SumFunctionOnSet(f, T)
           G == {T \in SUBSET S : Sum(T) = Sum(T \cap R)}
<1>1. \A T \in SUBSET S : IsFiniteSet(T) /\ Sum(T) \in Int
  BY FS_Subset, SumInt
<1>2. {} \in G
  BY SumEmpty
<1>3. ASSUME NEW T \in SUBSET S, \A x \in T : T \ {x} \in G PROVE T \in G
  <2>1. CASE T \subseteq R
    <3>1. T \cap R = T
      BY <2>1
    <3> QED
      BY <3>1
  <2>2. CASE ~(T \subseteq R)
    <3>1. PICK x \in T : x \notin R
      BY <2>2
    <3>2. Sum(T) = f[x] + Sum(T \ {x}) /\ f[x] = 0
      BY <1>1, <3>1, SumRemove
    <3>3. (T \ {x}) \cap R = T \cap R
      BY <3>1
    <3>4. Sum(T \ {x}) = Sum(T \cap R)
      BY <1>3, <3>3
    <3>5. Sum(T \ {x}) \in Int
      BY <1>1
    <3>6. Sum(T) = Sum(T \cap R)
      BY <3>2, <3>4, <3>5
    <3> QED
      BY <3>6
  <2> QED
    BY <2>1, <2>2
<1>4. G \in SUBSET (SUBSET S)
  OBVIOUS
<1>5. G = SUBSET S
  <2> HIDE DEF G
  <2> QED
    BY <1>2, <1>3, <1>4, SubsetInduction
<1>6. S \cap R = R
  OBVIOUS
<1> QED
  BY <1>5, <1>6

LEMMA SumZero ==
    ASSUME NEW S, IsFiniteSet(S), NEW f, \A x \in S : f[x] = 0
    PROVE  SumFunctionOnSet(f, S) = 0
<1>1. SumFunctionOnSet(f, S) = SumFunctionOnSet(f, {})
  BY SumPart
<1> QED
  BY <1>1, SumEmpty

(* One value changes.                                                      *)
LEMMA SumUpdate ==
    ASSUME NEW S, IsFiniteSet(S), NEW f, NEW g, NEW y \in S,
           \A x \in S : f[x] \in Int, g[y] \in Int, \A x \in S \ {y} : g[x] = f[x]
    PROVE  SumFunctionOnSet(g, S) = SumFunctionOnSet(f, S) - f[y] + g[y]
<1> DEFINE Rest(h) == SumFunctionOnSet(h, S \ {y})
<1>1. IsFiniteSet(S \ {y}) /\ \A x \in S : g[x] \in Int
  BY FS_Subset
<1>2. /\ SumFunctionOnSet(f, S) = f[y] + Rest(f)
      /\ SumFunctionOnSet(g, S) = g[y] + Rest(g)
  BY <1>1, SumRemove
<1>3. Rest(f) = Rest(g)
  BY <1>1, SumSame
<1>4. Rest(f) \in Int
  BY <1>1, SumInt
<1> QED
  BY <1>2, <1>3, <1>4

LEMMA SumPlus ==
    ASSUME NEW S, IsFiniteSet(S), NEW f, NEW g, NEW h,
           \A x \in S : f[x] \in Int /\ g[x] \in Int /\ h[x] = f[x] + g[x]
    PROVE  SumFunctionOnSet(h, S) = SumFunctionOnSet(f, S) + SumFunctionOnSet(g, S)
<1> DEFINE Sum(k, T) == SumFunctionOnSet(k, T)
           G == {T \in SUBSET S : Sum(h, T) = Sum(f, T) + Sum(g, T)}
<1>1. \A T \in SUBSET S : IsFiniteSet(T) /\ Sum(f, T) \in Int /\ Sum(g, T) \in Int
  BY FS_Subset, SumInt
<1>2. {} \in G
  BY SumEmpty
<1>3. ASSUME NEW T \in SUBSET S, \A x \in T : T \ {x} \in G PROVE T \in G
  <2>1. CASE T = {}
    BY <1>2, <2>1
  <2>2. CASE T # {}
    <3>1. PICK x \in T : TRUE
      BY <2>2
    <3>2. \A z \in T : h[z] \in Int
      OBVIOUS
    <3>3. /\ Sum(f, T) = f[x] + Sum(f, T \ {x})
          /\ Sum(g, T) = g[x] + Sum(g, T \ {x})
          /\ Sum(h, T) = h[x] + Sum(h, T \ {x})
      BY <1>1, <3>2, SumRemove
    <3>4. Sum(h, T \ {x}) = Sum(f, T \ {x}) + Sum(g, T \ {x}) /\ h[x] = f[x] + g[x]
      BY <1>3
    <3>5. /\ Sum(f, T \ {x}) \in Int /\ Sum(g, T \ {x}) \in Int
          /\ f[x] \in Int /\ g[x] \in Int
      BY <1>1
    <3> HIDE DEF Sum
    <3>6. Sum(h, T) = Sum(f, T) + Sum(g, T)
      BY <3>3, <3>4, <3>5
    <3> QED
      BY <3>6
  <2> QED
    BY <2>1, <2>2
<1>4. G \in SUBSET (SUBSET S)
  OBVIOUS
<1>5. G = SUBSET S
  <2> HIDE DEF G
  <2> QED
    BY <1>2, <1>3, <1>4, SubsetInduction
<1> QED
  BY <1>5

LEMMA SumConstant ==
    ASSUME NEW S, IsFiniteSet(S), NEW f, NEW c \in Int, \A x \in S : f[x] = c
    PROVE  SumFunctionOnSet(f, S) = c * Cardinality(S)
<1> DEFINE Sum(T) == SumFunctionOnSet(f, T)
           G == {T \in SUBSET S : Sum(T) = c * Cardinality(T)}
<1>1. \A T \in SUBSET S : IsFiniteSet(T) /\ Cardinality(T) \in Nat
  BY FS_Subset, FS_CardinalityType
<1>2. {} \in G
  BY SumEmpty, FS_EmptySet
<1>3. ASSUME NEW T \in SUBSET S, \A x \in T : T \ {x} \in G PROVE T \in G
  <2>1. CASE T = {}
    BY <1>2, <2>1
  <2>2. CASE T # {}
    <3>1. PICK x \in T : TRUE
      BY <2>2
    <3>2. Sum(T) = f[x] + Sum(T \ {x})
      BY <1>1, SumRemove
    <3>3. Sum(T \ {x}) = c * Cardinality(T \ {x}) /\ f[x] = c
      BY <1>3
    <3>4. Cardinality(T \ {x}) = Cardinality(T) - 1
      BY <1>1, FS_RemoveElement
    <3> DEFINE n == Cardinality(T)
    <3>5. n \in Nat /\ Sum(T) = c + c * (n - 1)
      BY <1>1, <3>2, <3>3, <3>4
    <3> HIDE DEF n, Sum
    <3>6. Sum(T) = c * n
      BY <3>5
    <3> QED
      BY <3>6 DEF n
  <2> QED
    BY <2>1, <2>2
<1>4. G \in SUBSET (SUBSET S)
  OBVIOUS
<1>5. G = SUBSET S
  <2> HIDE DEF G
  <2> QED
    BY <1>2, <1>3, <1>4, SubsetInduction
<1> QED
  BY <1>5

(* The values of a function on a finite set are no more than its elements. *)
LEMMA ImageOfFinite ==
    ASSUME NEW S, IsFiniteSet(S), NEW f
    PROVE  LET T == {f[x] : x \in S}
           IN  IsFiniteSet(T) /\ Cardinality(T) <= Cardinality(S)
<1> DEFINE T == {f[x] : x \in S}
           g == [x \in S |-> f[x]]
<1>1. g \in Surjection(S, T)
  BY DEF Surjection
<1>2. IsFiniteSet(T) /\ Cardinality(T) <= Cardinality(S)
  <2> HIDE DEF T, g
  <2> QED
    BY <1>1, FS_Surjection
<1> QED
  BY <1>2

(* A sum over the members of one set, named by another.                    *)
LEMMA SumRenamed ==
    ASSUME NEW S, IsFiniteSet(S), NEW f, NEW g, NEW b,
           \A x \in S : g[b[x]] \in Int /\ f[x] = g[b[x]],
           \A x, y \in S : b[x] = b[y] => x = y
    PROVE  SumFunctionOnSet(f, S) = SumFunctionOnSet(g, {b[x] : x \in S})
<1> DEFINE Names(T) == {b[x] : x \in T}
           G == {T \in SUBSET S : SumFunctionOnSet(f, T) = SumFunctionOnSet(g, Names(T))}
<1>1. \A T \in SUBSET S : IsFiniteSet(T) /\ IsFiniteSet(Names(T))
  BY FS_Subset, ImageOfFinite
<1>2. {} \in G
  <2>1. Names({}) = {}
    OBVIOUS
  <2> QED
    BY <2>1, SumEmpty
<1>3. ASSUME NEW T \in SUBSET S, \A x \in T : T \ {x} \in G PROVE T \in G
  <2>1. CASE T = {}
    BY <1>2, <2>1
  <2>2. CASE T # {}
    <3>1. PICK x \in T : TRUE
      BY <2>2
    <3>2. Names(T \ {x}) = Names(T) \ {b[x]} /\ b[x] \in Names(T)
      OBVIOUS
    <3>3. SumFunctionOnSet(f, T) = f[x] + SumFunctionOnSet(f, T \ {x})
      BY <1>1, SumRemove
    <3>4. /\ \A n \in Names(T) : g[n] \in Int
          /\ IsFiniteSet(Names(T))
      BY <1>1
    <3>5. SumFunctionOnSet(g, Names(T)) = g[b[x]] + SumFunctionOnSet(g, Names(T) \ {b[x]})
      <4> HIDE DEF Names
      <4> QED
        BY <3>2, <3>4, SumRemove
    <3>6. SumFunctionOnSet(f, T \ {x}) = SumFunctionOnSet(g, Names(T \ {x}))
      BY <1>3
    <3>7. SumFunctionOnSet(f, T) = SumFunctionOnSet(g, Names(T))
      BY <3>2, <3>3, <3>5, <3>6
    <3> QED
      BY <3>7
  <2> QED
    BY <2>1, <2>2
<1>4. G \in SUBSET (SUBSET S)
  OBVIOUS
<1>5. G = SUBSET S
  <2> HIDE DEF G
  <2> QED
    BY <1>2, <1>3, <1>4, SubsetInduction
<1> QED
  BY <1>5

(* The sum of a table, by its rows and by its columns.                     *)
Transposed(f, g, S, T) == \A x \in S, y \in T : f[x][y] \in Int /\ g[y][x] = f[x][y]
RowSums(rows, f, S, T) == \A x \in S : rows[x] = SumFunctionOnSet(f[x], T)

LEMMA SumSwap ==
    ASSUME NEW S, IsFiniteSet(S), NEW T, IsFiniteSet(T),
           NEW f, NEW g, Transposed(f, g, S, T),
           NEW rows, RowSums(rows, f, S, T), NEW cols, RowSums(cols, g, T, S)
    PROVE  SumFunctionOnSet(rows, S) = SumFunctionOnSet(cols, T)
<1> DEFINE row == [x \in S |-> SumFunctionOnSet(f[x], T)]
           col(R) == [y \in T |-> SumFunctionOnSet(g[y], R)]
           G == {R \in SUBSET S : SumFunctionOnSet(row, R) = SumFunctionOnSet(col(R), T)}
<1> USE DEF Transposed, RowSums
<1>1. \A R \in SUBSET S : IsFiniteSet(R)
  BY FS_Subset
<1>2. \A x \in S : row[x] \in Int
  BY SumInt
<1>3. ASSUME NEW R \in SUBSET S PROVE \A y \in T : col(R)[y] \in Int
  BY <1>1, SumInt
<1>4. {} \in G
  <2>1. \A y \in T : col({})[y] = 0
    BY SumEmpty
  <2>2. SumFunctionOnSet(col({}), T) = 0
    <3> HIDE DEF col
    <3> QED
      BY <2>1, SumZero
  <2> QED
    BY <2>2, SumEmpty
<1>5. ASSUME NEW R \in SUBSET S, \A x \in R : R \ {x} \in G PROVE R \in G
  <2>1. CASE R = {}
    BY <1>4, <2>1
  <2>2. CASE R # {}
    <3>1. PICK x \in R : TRUE
      BY <2>2
    <3> DEFINE old == col(R \ {x})
               new == col(R)
    <3>2. SumFunctionOnSet(row, R) = row[x] + SumFunctionOnSet(row, R \ {x})
      <4> HIDE DEF row
      <4> QED
        BY <1>1, <1>2, SumRemove
    <3>3. ASSUME NEW y \in T
          PROVE  f[x][y] \in Int /\ old[y] \in Int /\ new[y] = f[x][y] + old[y]
      <4>1. \A z \in R : g[y][z] \in Int
        OBVIOUS
      <4>2. SumFunctionOnSet(g[y], R) = g[y][x] + SumFunctionOnSet(g[y], R \ {x})
        BY <1>1, <4>1, SumRemove
      <4>3. old[y] \in Int
        BY <1>3
      <4> QED
        BY <4>2, <4>3
    <3>4. SumFunctionOnSet(new, T) = SumFunctionOnSet(f[x], T) + SumFunctionOnSet(old, T)
      <4> HIDE DEF old, new
      <4> QED
        BY <3>3, SumPlus
    <3>5. SumFunctionOnSet(row, R \ {x}) = SumFunctionOnSet(old, T)
      BY <1>5
    <3> QED
      BY <3>2, <3>4, <3>5
  <2> QED
    BY <2>1, <2>2
<1>6. G \in SUBSET (SUBSET S)
  OBVIOUS
<1>7. G = SUBSET S
  <2> HIDE DEF G
  <2> QED
    BY <1>1, <1>4, <1>5, <1>6, SubsetInduction
<1>8. SumFunctionOnSet(row, S) = SumFunctionOnSet(col(S), T)
  BY <1>7
<1>9. SumFunctionOnSet(row, S) = SumFunctionOnSet(rows, S)
  <2>1. \A x \in S : row[x] \in Int /\ rows[x] = row[x]
    BY <1>2
  <2> HIDE DEF row
  <2> QED
    BY <2>1, SumSame
<1>10. SumFunctionOnSet(col(S), T) = SumFunctionOnSet(cols, T)
  <2>1. \A y \in T : col(S)[y] \in Int /\ cols[y] = col(S)[y]
    BY <1>3
  <2> HIDE DEF col
  <2> QED
    BY <2>1, SumSame
<1> QED
  BY <1>8, <1>9, <1>10

(* A sum is the sum of its parts, which a key tells apart.                 *)
KeyedSums(g, f, key, S, U) ==
    \A u \in U : g[u] = SumFunctionOnSet(f, {x \in S : key[x] = u})

LEMMA SumByKey ==
    ASSUME NEW S, IsFiniteSet(S), NEW U, IsFiniteSet(U),
           NEW f, \A x \in S : f[x] \in Int, NEW key, \A x \in S : key[x] \in U,
           NEW g, KeyedSums(g, f, key, S, U)
    PROVE  SumFunctionOnSet(g, U) = SumFunctionOnSet(f, S)
<1> DEFINE cell == [x \in S |-> [u \in U |-> IF key[x] = u THEN f[x] ELSE 0]]
           turned == [u \in U |-> [x \in S |-> IF key[x] = u THEN f[x] ELSE 0]]
<1>1. /\ \A x \in S, u \in U : /\ cell[x][u] = (IF key[x] = u THEN f[x] ELSE 0)
                               /\ turned[u][x] = (IF key[x] = u THEN f[x] ELSE 0)
  OBVIOUS
<1> HIDE DEF cell, turned
<1>2. Transposed(cell, turned, S, U)
  BY <1>1 DEF Transposed
<1>3. RowSums(f, cell, S, U)
  <2> SUFFICES ASSUME NEW x \in S PROVE f[x] = SumFunctionOnSet(cell[x], U)
    BY DEF RowSums
  <2>1. SumFunctionOnSet(cell[x], U) = SumFunctionOnSet(cell[x], {key[x]})
    <3>1. /\ \A u \in U : cell[x][u] \in Int
          /\ {key[x]} \in SUBSET U /\ \A u \in U \ {key[x]} : cell[x][u] = 0
      BY <1>1
    <3> QED
      BY <3>1, SumPart
  <2>2. cell[x][key[x]] = f[x] /\ f[x] \in Int
    BY <1>1
  <2> QED
    BY <2>1, <2>2, SumOfOne
<1>4. RowSums(g, turned, U, S)
  <2> SUFFICES ASSUME NEW u \in U PROVE g[u] = SumFunctionOnSet(turned[u], S)
    BY DEF RowSums
  <2> DEFINE R == {x \in S : key[x] = u}
  <2>1. /\ \A x \in S : turned[u][x] \in Int
        /\ R \in SUBSET S /\ \A x \in S \ R : turned[u][x] = 0
        /\ \A x \in R : f[x] \in Int /\ turned[u][x] = f[x]
    BY <1>1
  <2>2. g[u] = SumFunctionOnSet(f, R)
    BY DEF KeyedSums
  <2> HIDE DEF R
  <2>3. IsFiniteSet(R)
    BY <2>1, FS_Subset
  <2>4. SumFunctionOnSet(turned[u], S) = SumFunctionOnSet(turned[u], R)
    BY <2>1, SumPart
  <2>5. SumFunctionOnSet(f, R) = SumFunctionOnSet(turned[u], R)
    BY <2>1, <2>3, SumSame
  <2> QED
    BY <2>2, <2>4, <2>5
<1> QED
  BY <1>2, <1>3, <1>4, SumSwap
===============================================================================
