----------------------------- MODULE PokerProofs -----------------------------
(***************************************************************************)
(* The poker table, whatever its users, strengths, stacks and bounds: the  *)
(* types, the seats of those who leave, and then, as far as the findings   *)
(* allow, that the turn is served, commits find their seats, streets close *)
(* on equal bets, only a full raise reopens them, and no chip is lost but  *)
(* what the end of a hand leaves to nobody.                                *)
(*                                                                         *)
(* A critical section of the table is a chain of operators on its state.   *)
(* So the lemmas are of two kinds: what each operator does to a typed      *)
(* state (AdvanceAfterAction, ApplyAutoCheckFolds, Publish, ...), and what *)
(* each action keeps of TypeInv and TableInv, which follows from the first *)
(* kind for the operators that the action applies.                         *)
(***************************************************************************)
EXTENDS Poker, SumFacts

LEMMA MaxOfTwo ==
    ASSUME NEW a \in Int, NEW b \in Int
    PROVE  Max({a, b}) = IF a >= b THEN a ELSE b
<1> DEFINE m == IF a >= b THEN a ELSE b
<1>1. m \in {a, b} /\ \A y \in {a, b} : m >= y
  OBVIOUS
<1>2. \A x \in {a, b} : (\A y \in {a, b} : x >= y) => x = m
  OBVIOUS
<1> QED
  BY <1>1, <1>2 DEF Max

LEMMA MinOfTwo ==
    ASSUME NEW a \in Int, NEW b \in Int
    PROVE  Min({a, b}) = IF a <= b THEN a ELSE b
<1> DEFINE m == IF a <= b THEN a ELSE b
<1>1. m \in {a, b} /\ \A y \in {a, b} : m <= y
  OBVIOUS
<1>2. \A x \in {a, b} : (\A y \in {a, b} : x <= y) => x = m
  OBVIOUS
<1> QED
  BY <1>1, <1>2 DEF Min

LEMMA MinIsLeast ==
    ASSUME NEW S \in SUBSET Nat, S # {}
    PROVE  Min(S) \in S /\ \A y \in S : Min(S) <= y
<1>1. PICK m \in S : \A n \in S : m <= n
  BY LeastNat
<1> QED
  BY <1>1 DEF Min

LEMMA MaxIsGreatest ==
    ASSUME NEW n \in Nat, NEW S \in SUBSET (0 .. n), S # {}
    PROVE  Max(S) \in S /\ \A y \in S : Max(S) >= y
<1> DEFINE below == {n - x : x \in S}
<1>1. below \in SUBSET Nat /\ below # {}
  <2>1. \A x \in S : n - x \in Nat
    OBVIOUS
  <2> QED
    BY <2>1
<1>2. PICK m \in below : \A k \in below : m <= k
  BY <1>1, LeastNat
<1>3. PICK x \in S : m = n - x
  OBVIOUS
<1>4. \A y \in S : x >= y
  BY <1>2, <1>3
<1> QED
  BY <1>3, <1>4 DEF Max

LEMMA ModRange ==
    ASSUME NEW a \in Int, NEW m \in Nat \ {0}
    PROVE  a % m \in 0 .. m - 1
OBVIOUS

LEMMA ModSmall ==
    ASSUME NEW m \in Nat \ {0}, NEW a \in 0 .. m - 1
    PROVE  a % m = a
OBVIOUS

LEMMA ModNegative ==
    ASSUME NEW m \in Nat \ {0}, NEW a \in Int, -m <= a, a < 0
    PROVE  a % m = a + m
OBVIOUS

-------------------------------------------------------------------------------
(* What the steps of a recursive function keep, holds of its results.      *)
LEMMA IterationsStay ==
    ASSUME NEW N \in Nat, NEW V, NEW f, f[0] \in V,
           \A k \in 1 .. N : f[k - 1] \in V => f[k] \in V
    PROVE  \A k \in 0 .. N : f[k] \in V
<1> DEFINE S == {n \in Nat : n <= N => f[n] \in V}
<1>1. 0 \in S
  OBVIOUS
<1>2. ASSUME NEW n \in S PROVE n + 1 \in S
  <2>1. SUFFICES ASSUME n + 1 <= N PROVE f[n + 1] \in V
    OBVIOUS
  <2>2. n + 1 \in 1 .. N /\ (n + 1) - 1 = n /\ f[n] \in V
    BY <2>1
  <2> QED
    BY <2>2
<1>3. S = Nat
  <2> HIDE DEF S
  <2>1. S \in SUBSET Nat
    BY DEF S
  <2> QED
    BY <1>1, <1>2, <2>1, NatSetInduction
<1> QED
  BY <1>3

Steps(step, N, V) == step \in [(1 .. N) \X V -> V]
Iteration(g, N, V, base, step) ==
    /\ g \in [0 .. N -> V] /\ g[0] = base
    /\ \A k \in 1 .. N : g[k] = step[<<k, g[k - 1]>>]

LEMMA Iterates ==
    ASSUME NEW N \in Nat, NEW V, NEW base \in V, NEW step, Steps(step, N, V)
    PROVE  \E g : Iteration(g, N, V, base, step)
<1> DEFINE Upto(n, g) == Iteration(g, n, V, base, step)
           S == {n \in Nat : n <= N => \E g : Upto(n, g)}
<1>1. 0 \in S
  <2> DEFINE g == [k \in 0 .. 0 |-> base]
  <2>1. Upto(0, g)
    BY DEF Iteration
  <2> QED
    BY <2>1
<1>2. ASSUME NEW n \in S PROVE n + 1 \in S
  <2>1. SUFFICES ASSUME n + 1 <= N PROVE \E h : Upto(n + 1, h)
    OBVIOUS
  <2>2. PICK g : Upto(n, g)
    BY <2>1
  <2> DEFINE h == [k \in 0 .. n + 1 |-> IF k = n + 1 THEN step[<<k, g[n]>>] ELSE g[k]]
  <2>3. step[<<n + 1, g[n]>>] \in V
    BY <2>1, <2>2 DEF Steps, Iteration
  <2>4. h \in [0 .. n + 1 -> V] /\ h[0] = base
    BY <2>2, <2>3 DEF Iteration
  <2>5. \A k \in 1 .. n + 1 : h[k] = step[<<k, h[k - 1]>>]
    BY <2>2 DEF Iteration
  <2>6. Upto(n + 1, h)
    BY <2>4, <2>5 DEF Iteration
  <2> HIDE DEF h, Upto
  <2> QED
    BY <2>6
<1>3. S = Nat
  <2> HIDE DEF S
  <2>1. S \in SUBSET Nat
    BY DEF S
  <2> QED
    BY <1>1, <1>2, <2>1, NatSetInduction
<1> HIDE DEF Upto
<1>4. \E g : Upto(N, g)
  BY <1>3
<1> QED
  BY <1>4 DEF Upto

-------------------------------------------------------------------------------
(* The settlements of a hand, one after the other.                         *)
Owing(s) == {i \in Occupied(s) : s.seat[i].committed > 0}
Pay(s, credit, i) == [user |-> s.seat[i].user, credit |-> credit[i]]
Paid(s, credit, q, i) == IF i \in Owing(s) THEN Append(q, Pay(s, credit, i)) ELSE q

LEMMA PayType ==
    ASSUME NEW s \in SharedState, NEW credit \in [Seats -> Nat], NEW i \in Owing(s)
    PROVE  Pay(s, credit, i) \in Settlement
BY DEF Owing, Pay, Occupied, Seats, SharedState, SeatType, Settlement

LEMMA SettlementsBuilt ==
    ASSUME NEW s \in SharedState, NEW credit \in [Seats -> Nat]
    PROVE  \E g \in [0 .. MAX_SEATS -> Seq(Settlement)] :
              /\ g[0] = <<>> /\ g[MAX_SEATS] = Settlements(s, credit)
              /\ \A k \in 1 .. MAX_SEATS : g[k] = Paid(s, credit, g[k - 1], k)
<1> DEFINE V == Seq(Settlement)
           Next1(q, i) == Paid(s, credit, q, i)
           step == [p \in (1 .. MAX_SEATS) \X V |-> Next1(p[2], p[1])]
           Rec(g) == g = [k \in 0 .. MAX_SEATS |-> IF k = 0 THEN <<>> ELSE Next1(g[k - 1], k)]
           chosen == CHOOSE g : Rec(g)
<1>1. MAX_SEATS \in Nat
  BY PotsAssumption
<1>2. ASSUME NEW k \in 1 .. MAX_SEATS, NEW v \in V PROVE Next1(v, k) \in V
  <2>1. k \in Owing(s) => Pay(s, credit, k) \in Settlement
    BY PayType
  <2> QED
    BY <2>1 DEF Paid
<1>3. <<>> \in V
  OBVIOUS
<1>4. Settlements(s, credit) = chosen[MAX_SEATS]
  BY DEF Settlements, Paid, Pay, Owing
<1> HIDE DEF V, Next1
<1>5. Steps(step, MAX_SEATS, V)
  BY <1>2 DEF Steps
<1>6. PICK g : Iteration(g, MAX_SEATS, V, <<>>, step)
  <2> HIDE DEF step
  <2> QED
    BY <1>1, <1>3, <1>5, Iterates
<1>7. Rec(g)
  <2>1. g \in [0 .. MAX_SEATS -> V] /\ g[0] = <<>>
    BY <1>6 DEF Iteration
  <2>2. ASSUME NEW k \in 1 .. MAX_SEATS PROVE g[k] = Next1(g[k - 1], k)
    <3>1. g[k] = step[<<k, g[k - 1]>>] /\ g[k - 1] \in V
      <4> HIDE DEF step
      <4> QED
        BY <1>1, <1>6, <2>1 DEF Iteration
    <3> QED
      BY <3>1
  <2> QED
    BY <1>1, <2>1, <2>2
<1>8. Rec(chosen)
  <2> HIDE DEF Rec
  <2> QED
    BY <1>7
<1> HIDE DEF chosen
<1>9. chosen[0] = <<>> /\ \A k \in 1 .. MAX_SEATS : chosen[k] = Next1(chosen[k - 1], k)
  BY <1>1, <1>8
<1>10. \A k \in 0 .. MAX_SEATS : chosen[k] \in V
  <2>1. chosen[0] \in V /\ \A k \in 1 .. MAX_SEATS : chosen[k - 1] \in V => chosen[k] \in V
    BY <1>2, <1>3, <1>9
  <2> QED
    BY <1>1, <2>1, IterationsStay
<1>11. chosen \in [0 .. MAX_SEATS -> V]
  <2>1. chosen = [k \in 0 .. MAX_SEATS |-> chosen[k]]
    BY <1>8
  <2> QED
    BY <1>10, <2>1
<1> QED
  BY <1>4, <1>9, <1>11 DEF V, Next1

LEMMA SettlementsType ==
    ASSUME NEW s \in SharedState, NEW credit \in [Seats -> Nat]
    PROVE  Settlements(s, credit) \in Seq(Settlement)
<1>1. MAX_SEATS \in Nat
  BY PotsAssumption
<1> QED
  BY <1>1, SettlementsBuilt

(* q pays each seat of S once, in the order in which at names them.        *)
Lists(q, at, s, credit, S) ==
    /\ at \in [DOMAIN q -> S] /\ {at[n] : n \in DOMAIN q} = S
    /\ \A m, n \in DOMAIN q : at[m] = at[n] => m = n
    /\ \A n \in DOMAIN q : q[n] = Pay(s, credit, at[n])

LEMMA ListOneMore ==
    ASSUME NEW s, NEW credit, NEW q \in Seq(Settlement), NEW at, NEW S,
           Lists(q, at, s, credit, S), NEW i, i \notin S, Pay(s, credit, i) \in Settlement
    PROVE  \E new : Lists(Append(q, Pay(s, credit, i)), new, s, credit, S \cup {i})
<1> DEFINE r == Append(q, Pay(s, credit, i))
           N == Len(q)
           new == [n \in 1 .. N + 1 |-> IF n = N + 1 THEN i ELSE at[n]]
<1>1. /\ N \in Nat /\ DOMAIN q = 1 .. N /\ DOMAIN r = 1 .. N + 1
      /\ r[N + 1] = Pay(s, credit, i) /\ \A n \in 1 .. N : r[n] = q[n]
  BY DEF Settlement
<1> HIDE DEF r, N
<1>2. /\ at \in [1 .. N -> S] /\ {at[n] : n \in 1 .. N} = S
      /\ \A m, n \in 1 .. N : at[m] = at[n] => m = n
      /\ \A n \in 1 .. N : q[n] = Pay(s, credit, at[n])
  BY <1>1 DEF Lists
<1>3. \A n \in 1 .. N + 1 : n # N + 1 => n \in 1 .. N
  BY <1>1
<1>4. new \in [1 .. N + 1 -> S \cup {i}]
  BY <1>2, <1>3
<1>5. \A n \in 1 .. N : new[n] = at[n] /\ n \in 1 .. N + 1
  BY <1>1
<1>6. new[N + 1] = i /\ N + 1 \in 1 .. N + 1
  BY <1>1
<1> HIDE DEF new
<1>7. {new[n] : n \in 1 .. N + 1} = S \cup {i}
  <2>1. \A x \in S : \E n \in 1 .. N : at[n] = x
    BY <1>2
  <2> QED
    BY <1>3, <1>4, <1>5, <1>6, <2>1
<1>8. \A m, n \in 1 .. N + 1 : new[m] = new[n] => m = n
  BY <1>2, <1>3, <1>5, <1>6
<1>9. \A n \in 1 .. N + 1 : r[n] = Pay(s, credit, new[n])
  BY <1>1, <1>2, <1>3, <1>5, <1>6
<1>10. Lists(r, new, s, credit, S \cup {i})
  BY <1>1, <1>4, <1>7, <1>8, <1>9 DEF Lists
<1> QED
  BY <1>10 DEF r

LEMMA SettlementsListed ==
    ASSUME NEW s \in SharedState, NEW credit \in [Seats -> Nat]
    PROVE  \E at : Lists(Settlements(s, credit), at, s, credit, Owing(s))
<1> DEFINE Upto(k) == Owing(s) \cap (1 .. k)
<1>1. PICK g \in [0 .. MAX_SEATS -> Seq(Settlement)] :
              /\ g[0] = <<>> /\ g[MAX_SEATS] = Settlements(s, credit)
              /\ \A k \in 1 .. MAX_SEATS : g[k] = Paid(s, credit, g[k - 1], k)
  BY SettlementsBuilt
<1> DEFINE Listed(n) == \E at : Lists(g[n], at, s, credit, Upto(n))
           S == {n \in Nat : n <= MAX_SEATS => Listed(n)}
<1>2. MAX_SEATS \in Nat
  BY PotsAssumption
<1>3. Listed(0)
  <2>1. Upto(0) = {} /\ DOMAIN <<>> = {}
    OBVIOUS
  <2>2. Lists(<<>>, <<>>, s, credit, {})
    BY DEF Lists
  <2> QED
    BY <1>1, <2>1, <2>2
<1>4. ASSUME NEW n \in S PROVE n + 1 \in S
  <2> DEFINE i == n + 1
  <2>1. SUFFICES ASSUME i <= MAX_SEATS PROVE Listed(i)
    <3> HIDE DEF Listed
    <3> QED
      OBVIOUS
  <2>2. i \in 1 .. MAX_SEATS /\ i - 1 = n /\ n \in 0 .. MAX_SEATS
    BY <1>2, <2>1
  <2>3. g[i] = Paid(s, credit, g[n], i) /\ g[n] \in Seq(Settlement)
    BY <1>1, <2>2
  <2>4. PICK at : Lists(g[n], at, s, credit, Upto(n))
    <3>1. Listed(n)
      <4> HIDE DEF Listed
      <4> QED
        BY <2>2
    <3> QED
      BY <3>1
  <2>5. i \notin Upto(n) /\ Upto(i) = IF i \in Owing(s) THEN Upto(n) \cup {i} ELSE Upto(n)
    BY <2>2
  <2> HIDE DEF Upto, i
  <2>6. CASE i \in Owing(s)
    <3>1. \E new : Lists(Append(g[n], Pay(s, credit, i)), new, s, credit, Upto(n) \cup {i})
      BY <2>3, <2>4, <2>5, <2>6, ListOneMore, PayType
    <3> QED
      BY <2>3, <2>5, <2>6, <3>1 DEF Paid
  <2>7. CASE i \notin Owing(s)
    BY <2>3, <2>4, <2>5, <2>7 DEF Paid
  <2> QED
    BY <2>6, <2>7
<1>5. S = Nat
  <2>1. S \in SUBSET Nat /\ 0 \in S
    BY <1>3
  <2> HIDE DEF S
  <2> QED
    BY <1>4, <2>1, NatSetInduction
<1>6. Upto(MAX_SEATS) = Owing(s)
  BY DEF Owing, Occupied, Seats
<1>7. Listed(MAX_SEATS)
  <2> HIDE DEF Listed
  <2> QED
    BY <1>2, <1>5
<1> HIDE DEF Upto
<1> QED
  BY <1>1, <1>6, <1>7

(* What they pay together.                                                 *)
LEMMA CreditsOfSettlements ==
    ASSUME NEW s \in SharedState, NEW credit \in [Seats -> Nat]
    PROVE  Credits(Settlements(s, credit)) = SumFunctionOnSet(credit, Owing(s))
<1> DEFINE q == Settlements(s, credit)
           f == [n \in DOMAIN q |-> q[n].credit]
<1>1. PICK at : Lists(q, at, s, credit, Owing(s))
  BY SettlementsListed
<1>2. q \in Seq(Settlement)
  BY SettlementsType
<1> HIDE DEF q
<1>3. IsFiniteSet(DOMAIN q)
  BY <1>2, FS_Interval
<1>4. Owing(s) \subseteq Seats
  BY DEF Owing, Occupied
<1>5. \A n \in DOMAIN q : credit[at[n]] \in Int /\ f[n] = credit[at[n]]
  BY <1>1, <1>4 DEF Lists, Pay
<1>6. SumFunctionOnSet(f, DOMAIN q) = SumFunctionOnSet(credit, {at[n] : n \in DOMAIN q})
  <2>1. \A m, n \in DOMAIN q : at[m] = at[n] => m = n
    BY <1>1 DEF Lists
  <2> HIDE DEF f
  <2> QED
    BY <1>3, <1>5, <2>1, SumRenamed
<1> QED
  BY <1>1, <1>6 DEF Credits, Lists, q

(* Automatic turns stay within every set of tables that one of them does.  *)
LEMMA TurnsStay ==
    ASSUME NEW G, NEW s \in G, \A t \in G : AutoCheckFoldOnce(t) \in G
    PROVE  ApplyAutoCheckFolds(s) \subseteq G
<1> DEFINE N == 4 * MAX_SEATS
           V == SUBSET G
           first == {s}
           play(T) == {AutoCheckFoldOnce(t) : t \in T}
           step == [p \in (1 .. N) \X V |-> play(p[2])]
           Rec(g) == g = [k \in 0 .. N |-> IF k = 0 THEN first ELSE play(g[k - 1])]
           chosen == CHOOSE g : Rec(g)
<1>1. N \in Nat
  BY PotsAssumption
<1>2. ApplyAutoCheckFolds(s) = chosen[N]
  BY DEF ApplyAutoCheckFolds
<1>3. first \in V /\ \A T \in V : play(T) \in V
  OBVIOUS
<1> HIDE DEF N, V, play, first
<1>4. Steps(step, N, V)
  BY <1>3 DEF Steps
<1>5. PICK g : Iteration(g, N, V, first, step)
  <2> HIDE DEF step
  <2> QED
    BY <1>1, <1>3, <1>4, Iterates
<1>6. Rec(g)
  <2>1. g \in [0 .. N -> V] /\ g[0] = first
    BY <1>5 DEF Iteration
  <2>2. ASSUME NEW k \in 1 .. N PROVE g[k] = play(g[k - 1])
    <3>1. g[k] = step[<<k, g[k - 1]>>] /\ g[k - 1] \in V
      <4> HIDE DEF step
      <4> QED
        BY <1>1, <1>5, <2>1 DEF Iteration
    <3> QED
      BY <3>1
  <2> QED
    BY <1>1, <2>1, <2>2
<1>7. Rec(chosen)
  <2> HIDE DEF Rec
  <2> QED
    BY <1>6
<1> HIDE DEF chosen
<1>8. chosen[0] \in V /\ \A k \in 1 .. N : chosen[k - 1] \in V => chosen[k] \in V
  <2>1. chosen[0] = first /\ \A k \in 1 .. N : chosen[k] = play(chosen[k - 1])
    BY <1>1, <1>7
  <2>2. \A k \in 1 .. N : chosen[k - 1] \in V => play(chosen[k - 1]) \in V
    BY <1>3, Zenon
  <2> QED
    BY <1>3, <2>1, <2>2, Zenon
<1>9. \A k \in 0 .. N : chosen[k] \in V
  BY <1>1, <1>8, IterationsStay
<1> QED
  BY <1>1, <1>2, <1>9 DEF V

-------------------------------------------------------------------------------
(* Pots and shares are numbers of chips.                                   *)
LEMMA SeatsAreFinite == IsFiniteSet(Seats) /\ MAX_SEATS \in Nat \ {0}
<1>1. MAX_SEATS \in Nat \ {0}
  BY PotsAssumption
<1> QED
  BY <1>1, FS_Interval DEF Seats

LEMMA PotType ==
    ASSUME NEW c \in [Seats -> Nat]
    PROVE  Pot(c) \in Nat
BY SeatsAreFinite, SumNat DEF Pot

LEMMA LevelsFinite ==
    ASSUME NEW c \in [Seats -> Nat]
    PROVE  IsFiniteSet(Levels(c)) /\ Levels(c) \subseteq Nat
<1>1. IsFiniteSet({c[i] : i \in Seats})
  BY SeatsAreFinite, ImageOfFinite
<1>2. IsFiniteSet(Levels(c))
  BY <1>1, FS_Subset DEF Levels
<1> QED
  BY <1>2 DEF Levels

LEMMA SidePotType ==
    ASSUME NEW c \in [Seats -> Nat], NEW level \in Levels(c)
    PROVE  SidePot(c, level) \in Nat
<1> DEFINE S == {l \in Levels(c) : l < level} \cup {0}
<1>1. level \in Nat /\ Levels(c) \subseteq Nat
  BY LevelsFinite
<1>2. S \in SUBSET (0 .. level) /\ S # {}
  BY <1>1
<1>3. Max(S) \in S
  <2> HIDE DEF S
  <2> QED
    BY <1>1, <1>2, MaxIsGreatest
<1>4. Below(c, level) \in 0 .. level
  BY <1>2, <1>3 DEF Below
<1>5. Cardinality(Contributors(c, level)) \in Nat
  BY SeatsAreFinite, FS_Subset, FS_CardinalityType DEF Contributors
<1> QED
  BY <1>1, <1>4, <1>5 DEF SidePot

LEMMA ShareType ==
    ASSUME NEW amount \in Nat, NEW W \in SUBSET Seats, NEW i \in W
    PROVE  Share(amount, W, i) \in Nat
<1>1. IsFiniteSet(W)
  BY SeatsAreFinite, FS_Subset
<1>2. Cardinality(W) \in Nat \ {0}
  BY <1>1, FS_CardinalityType, FS_EmptySet
<1>3. amount \div Cardinality(W) \in Nat
  BY <1>2
<1> QED
  BY <1>3 DEF Share

LEMMA CreditsType ==
    ASSUME NEW c \in [Seats -> Nat], NEW contenders \in SUBSET Seats, NEW strength
    PROVE  CreditsFromAwards(c, contenders, strength) \in [Seats -> Nat]
<1> DEFINE winners(level) == Winners(c, contenders, strength, level)
           won(i) == {level \in Levels(c) : i \in winners(level)}
           shares(i) == [level \in won(i) |-> Share(SidePot(c, level), winners(level), i)]
<1>1. \A level : winners(level) \in SUBSET Seats
  BY DEF Winners, Contributors
<1>2. ASSUME NEW i \in Seats PROVE SumFunctionOnSet(shares(i), won(i)) \in Nat
  <2>1. IsFiniteSet(won(i))
    BY LevelsFinite, FS_Subset
  <2>2. ASSUME NEW level \in won(i) PROVE shares(i)[level] \in Nat
    <3>1. SidePot(c, level) \in Nat /\ i \in winners(level)
      BY SidePotType
    <3>2. Share(SidePot(c, level), winners(level), i) \in Nat
      <4> HIDE DEF winners
      <4> QED
        BY <1>1, <3>1, ShareType
    <3> QED
      BY <3>2
  <2> HIDE DEF won, shares
  <2> QED
    BY <2>1, <2>2, SumNat
<1> QED
  BY <1>2 DEF CreditsFromAwards

-------------------------------------------------------------------------------
(* Seats around the table.                                                 *)
LEMMA SeatSets ==
    ASSUME NEW s \in SharedState
    PROVE  /\ Occupied(s) \subseteq Seats /\ Playable(s) \subseteq Occupied(s)
           /\ Active(s) \subseteq Occupied(s) /\ Actionable(s) \subseteq Active(s)
           /\ IsFiniteSet(Active(s)) /\ Cardinality(Active(s)) \in Nat
           /\ IsFiniteSet(Actionable(s)) /\ Cardinality(Actionable(s)) \in Nat
           /\ IsFiniteSet(Playable(s)) /\ Cardinality(Playable(s)) \in Nat
           /\ Committed(s) \in [Seats -> Nat]
<1>1. /\ Occupied(s) \subseteq Seats /\ Playable(s) \subseteq Occupied(s)
      /\ Active(s) \subseteq Occupied(s) /\ Actionable(s) \subseteq Active(s)
  BY DEF Occupied, Playable, Active, Actionable
<1>2. /\ IsFiniteSet(Active(s)) /\ IsFiniteSet(Actionable(s)) /\ IsFiniteSet(Playable(s))
  BY <1>1, SeatsAreFinite, FS_Subset
<1>3. Committed(s) \in [Seats -> Nat]
  BY DEF Committed, SharedState, SeatType
<1> QED
  BY <1>1, <1>2, <1>3, FS_CardinalityType

LEMMA AfterIsThere ==
    ASSUME NEW S \in SUBSET Seats, S # {}, NEW start \in Seats \cup {NoSeat}
    PROVE  /\ After(start, S) \in S
           /\ \A j \in S : (After(start, S) - start - 1) % MAX_SEATS <= (j - start - 1) % MAX_SEATS
<1> DEFINE distance(i) == (i - start - 1) % MAX_SEATS
           D == {distance(i) : i \in S}
<1>1. S \subseteq Int /\ start \in Int /\ MAX_SEATS \in Nat \ {0}
  BY SeatsAreFinite DEF Seats, NoSeat
<1>2. \A i \in S : distance(i) \in Nat
  BY <1>1, ModRange
<1>3. D \in SUBSET Nat /\ D # {}
  <2> HIDE DEF distance
  <2> QED
    BY <1>2
<1>4. PICK d \in D : \A e \in D : d <= e
  <2> HIDE DEF D
  <2> QED
    BY <1>3, LeastNat
<1>5. \E i \in S : \A j \in S : distance(i) <= distance(j)
  <2> HIDE DEF distance
  <2> QED
    BY <1>4
<1> QED
  BY <1>5 DEF After

(* Of two seats, the one after the first is the other.                     *)
LEMMA AfterMoves ==
    ASSUME NEW S \in SUBSET Seats, NEW start \in S, Cardinality(S) >= 2
    PROVE  After(start, S) # start
<1>1. PICK j \in S : j # start
  <2>1. SUFFICES ASSUME S = {start} PROVE FALSE
    OBVIOUS
  <2>2. Cardinality({start}) = 1
    BY FS_Singleton
  <2>3. Cardinality(S) = 1
    BY <2>1, <2>2, Zenon
  <2> QED
    BY <2>3
<1>2. MAX_SEATS \in Nat \ {0} /\ start \in 1 .. MAX_SEATS /\ j \in 1 .. MAX_SEATS
  BY SeatsAreFinite DEF Seats
<1>3. (start - start - 1) % MAX_SEATS = MAX_SEATS - 1
  BY <1>2, ModNegative
<1>4. (j - start - 1) % MAX_SEATS < MAX_SEATS - 1
  <2>1. CASE j > start
    <3>1. j - start - 1 \in 0 .. MAX_SEATS - 1 /\ j - start - 1 < MAX_SEATS - 1
      BY <1>2, <2>1
    <3> QED
      BY <1>2, <3>1, ModSmall
  <2>2. CASE j < start
    <3>1. (j - start - 1) % MAX_SEATS = (j - start - 1) + MAX_SEATS
      BY <1>2, <2>2, ModNegative
    <3> QED
      BY <1>2, <2>2, <3>1
  <2> QED
    BY <1>1, <1>2, <2>1, <2>2
<1>5. (After(start, S) - start - 1) % MAX_SEATS <= (j - start - 1) % MAX_SEATS
  BY AfterIsThere
<1>6. SUFFICES ASSUME After(start, S) = start PROVE FALSE
  OBVIOUS
<1>7. MAX_SEATS - 1 <= (j - start - 1) % MAX_SEATS
  BY <1>3, <1>5, <1>6
<1> DEFINE d == (j - start - 1) % MAX_SEATS
<1>8. d \in Int
  BY <1>2, ModRange
<1> HIDE DEF d
<1> QED
  BY <1>2, <1>4, <1>7, <1>8 DEF d

-------------------------------------------------------------------------------
(* The ways a turn can end.                                                *)
LEMMA ClearCountdownType ==
    ASSUME NEW s \in SharedState
    PROVE  ClearCountdown(s) \in SharedState
BY DEF ClearCountdown, SharedState, NoSeat

LEMMA SettleType ==
    ASSUME NEW s \in SharedState, NEW credit \in [Seats -> Nat]
    PROVE  Settle(s, credit) \in SharedState
<1>1. Settlements(s, credit) \in Seq(Settlement)
  BY SettlementsType
<1> QED
  <2> DEFINE r == ClearCountdown(s)
             due == Settlements(s, credit)
  <2>1. r \in SharedState /\ due \in Seq(Settlement)
    BY <1>1, ClearCountdownType
  <2>2. Settle(s, credit) = [r EXCEPT !.phase = "Showdown", !.active_seat = NoSeat,
                                      !.due = due, !.settlement_pending = due # <<>>]
    BY DEF Settle
  <2> HIDE DEF r, due
  <2> QED
    BY <2>1, <2>2 DEF SharedState, Phases, NoSeat

LEMMA FinishByFoldType ==
    ASSUME NEW s \in SharedState, NEW w \in Seats
    PROVE  FinishByFold(s, w) \in SharedState
<1>1. Pot(Committed(s)) \in Nat
  BY SeatSets, PotType
<1> QED
  BY <1>1, SettleType DEF FinishByFold

LEMMA FinishShowdownType ==
    ASSUME NEW s \in SharedState
    PROVE  FinishShowdown(s) \in SharedState
<1>1. Active(s) \in SUBSET Seats /\ Committed(s) \in [Seats -> Nat]
  BY SeatSets
<1> QED
  BY <1>1, CreditsType, SettleType DEF FinishShowdown

LEMMA AbandonHandType ==
    ASSUME NEW s \in SharedState
    PROVE  AbandonHand(s) \in SharedState
BY ClearCountdownType DEF AbandonHand, SharedState, Phases, NoSeat

LEMMA FreshStreetType ==
    ASSUME NEW s \in SharedState
    PROVE  FreshStreet(s) \in SharedState
<1> DEFINE seats == [i \in Seats |-> [s.seat[i] EXCEPT !.acted = FALSE, !.street_bet = 0]]
<1>1. seats \in [Seats -> SeatType]
  <2>1. \A i \in Seats : s.seat[i] \in SeatType
    BY DEF SharedState
  <2>2. ASSUME NEW x \in SeatType
        PROVE  [x EXCEPT !.acted = FALSE, !.street_bet = 0] \in SeatType
    BY DEF SeatType
  <2> QED
    BY <2>1, <2>2
<1>2. FreshStreet(s) = [s EXCEPT !.seat = seats, !.current_bet = 0, !.min_raise = BIG_BLIND]
  BY DEF FreshStreet
<1>3. BIG_BLIND \in Nat
  BY PokerAssumption
<1> HIDE DEF seats
<1>4. [s EXCEPT !.seat = seats, !.current_bet = 0, !.min_raise = BIG_BLIND] \in SharedState
  BY <1>1, <1>3 DEF SharedState
<1> QED
  BY <1>2, <1>4

LEMMA AdvanceOutcomes ==
    ASSUME NEW s \in SharedState, NEW i
    PROVE  LET t == AdvanceAfterAction(s, i) IN
           \/ Active(s) = {} /\ t = AbandonHand(s)
           \/ \E w \in Active(s) : Active(s) = {w} /\ t = FinishByFold(s, w)
           \/ /\ Cardinality(Active(s)) > 1
              /\ \/ StreetComplete(s) /\ t = FinishShowdown(s)
                 \/ /\ StreetComplete(s) /\ s.phase = "River"
                    /\ t = FinishShowdown(FreshStreet(s))
                 \/ /\ StreetComplete(s) /\ s.phase \in DOMAIN NextStreet
                    /\ Actionable(s) # {}
                    /\ t = [FreshStreet(s) EXCEPT
                              !.phase = NextStreet[s.phase],
                              !.active_seat = After(s.dealer_button, Actionable(s))]
                 \/ ~HandRuns(s) /\ t = FreshStreet(s)
                 \/ /\ Actionable(s) # {}
                    /\ t = [s EXCEPT !.active_seat = After(i, Actionable(s))]
<1> DEFINE n == Cardinality(Active(s))
<1>1. n \in Nat /\ IsFiniteSet(Active(s))
  BY SeatSets
<1>2. CASE Active(s) = {}
  <2>1. n = 0
    BY <1>2, FS_EmptySet
  <2> QED
    BY <1>2, <2>1 DEF AdvanceAfterAction
<1>3. CASE Active(s) # {} /\ n = 1
  <2>1. PICK w : Active(s) = {w}
    BY <1>1, <1>3, FS_Singleton
  <2>2. (CHOOSE x \in Active(s) : TRUE) = w
    BY <2>1
  <2>3. AdvanceAfterAction(s, i) = FinishByFold(s, CHOOSE x \in Active(s) : TRUE)
    BY <1>3 DEF AdvanceAfterAction
  <2> QED
    BY <2>1, <2>2, <2>3
<1>4. CASE Active(s) # {} /\ n > 1 /\ StreetComplete(s) /\ ShouldRunOut(s)
  BY <1>4 DEF AdvanceAfterAction
<1>5. CASE Active(s) # {} /\ n > 1 /\ StreetComplete(s) /\ ~ShouldRunOut(s)
  <2>1. AdvanceAfterAction(s, i) = AdvanceStreet(s)
    BY <1>5 DEF AdvanceAfterAction
  <2>2. Actionable(s) # {}
    BY <1>5, FS_EmptySet DEF ShouldRunOut
  <2>3. DOMAIN NextStreet = {"PreFlop", "Flop", "Turn"}
    BY DEF NextStreet
  <2>4. CASE s.phase \in DOMAIN NextStreet
    BY <1>5, <2>1, <2>2, <2>4 DEF AdvanceStreet
  <2>5. CASE s.phase = "River"
    BY <1>5, <2>1, <2>3, <2>5 DEF AdvanceStreet
  <2>6. CASE s.phase \notin DOMAIN NextStreet /\ s.phase # "River"
    <3>1. ~HandRuns(s)
      BY <2>3, <2>6 DEF HandRuns, ActionPhases
    <3>2. AdvanceStreet(s) = FreshStreet(s)
      BY <2>6 DEF AdvanceStreet
    <3> QED
      BY <1>5, <2>1, <3>1, <3>2
  <2> QED
    BY <2>4, <2>5, <2>6
<1>6. CASE Active(s) # {} /\ n > 1 /\ ~StreetComplete(s)
  <2>1. AdvanceAfterAction(s, i) = [s EXCEPT !.active_seat = After(i, Actionable(s))]
    BY <1>6 DEF AdvanceAfterAction
  <2>2. Actionable(s) # {}
    BY <1>6 DEF StreetComplete, Actionable
  <2> QED
    BY <1>6, <2>1, <2>2
<1>7. n = 0 => Active(s) = {}
  BY <1>1, FS_EmptySet
<1> QED
  BY <1>1, <1>2, <1>3, <1>4, <1>5, <1>6, <1>7

LEMMA AdvanceType ==
    ASSUME NEW s \in SharedState, NEW i \in Seats
    PROVE  AdvanceAfterAction(s, i) \in SharedState
<1> DEFINE t == AdvanceAfterAction(s, i)
<1>1. /\ Active(s) \subseteq Seats /\ Actionable(s) \in SUBSET Seats
      /\ s.dealer_button \in Seats \cup {NoSeat}
  BY SeatSets DEF SharedState
<1>2. AbandonHand(s) \in SharedState /\ FinishShowdown(s) \in SharedState
  BY AbandonHandType, FinishShowdownType
<1>3. FreshStreet(s) \in SharedState /\ FinishShowdown(FreshStreet(s)) \in SharedState
  BY FreshStreetType, FinishShowdownType
<1>4. ASSUME s.phase \in DOMAIN NextStreet, Actionable(s) # {}
      PROVE  [FreshStreet(s) EXCEPT !.phase = NextStreet[s.phase],
                  !.active_seat = After(s.dealer_button, Actionable(s))] \in SharedState
  <2>1. After(s.dealer_button, Actionable(s)) \in Seats
    BY <1>1, <1>4, AfterIsThere
  <2>2. NextStreet[s.phase] \in Phases
    BY <1>4 DEF NextStreet, Phases, ActionPhases
  <2> QED
    BY <1>3, <2>1, <2>2 DEF SharedState
<1>5. ASSUME Actionable(s) # {}
      PROVE  [s EXCEPT !.active_seat = After(i, Actionable(s))] \in SharedState
  <2>1. After(i, Actionable(s)) \in Seats
    BY <1>1, <1>5, AfterIsThere
  <2> QED
    BY <2>1 DEF SharedState
<1>6. \A w \in Active(s) : FinishByFold(s, w) \in SharedState
  BY <1>1, FinishByFoldType
<1>7. \/ Active(s) = {} /\ t = AbandonHand(s)
      \/ \E w \in Active(s) : Active(s) = {w} /\ t = FinishByFold(s, w)
      \/ t = FinishShowdown(s)
      \/ t = FinishShowdown(FreshStreet(s))
      \/ /\ s.phase \in DOMAIN NextStreet /\ Actionable(s) # {}
         /\ t = [FreshStreet(s) EXCEPT !.phase = NextStreet[s.phase],
                    !.active_seat = After(s.dealer_button, Actionable(s))]
      \/ t = FreshStreet(s)
      \/ Actionable(s) # {} /\ t = [s EXCEPT !.active_seat = After(i, Actionable(s))]
  BY AdvanceOutcomes
<1> HIDE DEF t
<1> QED
  BY <1>2, <1>3, <1>4, <1>5, <1>6, <1>7 DEF t

(* A change of one seat.                                                   *)
SeatBecomes(s, i, x) == [s EXCEPT !.seat[i] = x]

LEMMA SeatBecomesFacts ==
    ASSUME NEW s \in SharedState, NEW i \in Seats, NEW x \in SeatType
    PROVE  LET t == SeatBecomes(s, i, x) IN
           /\ t \in SharedState
           /\ t.seat = [s.seat EXCEPT ![i] = x]
           /\ t.seat[i] = x /\ \A j \in Seats \ {i} : t.seat[j] = s.seat[j]
           /\ t.phase = s.phase /\ t.active_seat = s.active_seat
           /\ t.current_bet = s.current_bet /\ t.min_raise = s.min_raise
           /\ t.pending_blinds = s.pending_blinds
           /\ t.deadline = s.deadline /\ t.countdown_seat = s.countdown_seat
           /\ t.timer_task = s.timer_task
           /\ t.settlement_pending = s.settlement_pending /\ t.due = s.due
<1> DEFINE seats == [s.seat EXCEPT ![i] = x]
<1>1. s.seat \in [Seats -> SeatType]
  BY DEF SharedState
<1>2. seats \in [Seats -> SeatType] /\ seats[i] = x /\ \A j \in Seats \ {i} : seats[j] = s.seat[j]
  BY <1>1
<1>3. SeatBecomes(s, i, x) = [s EXCEPT !.seat = seats]
  BY DEF SeatBecomes
<1> HIDE DEF seats
<1>4. [s EXCEPT !.seat = seats] \in SharedState
  BY <1>2 DEF SharedState
<1> DEFINE t == [s EXCEPT !.seat = seats]
<1>5. /\ t.seat = seats /\ t.phase = s.phase /\ t.active_seat = s.active_seat
      /\ t.current_bet = s.current_bet /\ t.min_raise = s.min_raise
      /\ t.pending_blinds = s.pending_blinds
      /\ t.deadline = s.deadline /\ t.countdown_seat = s.countdown_seat
      /\ t.timer_task = s.timer_task
      /\ t.settlement_pending = s.settlement_pending /\ t.due = s.due
  BY DEF SharedState
<1> HIDE DEF t
<1> QED
  BY <1>2, <1>3, <1>4, <1>5 DEF t, seats

LEMMA SeatBecomesType ==
    ASSUME NEW s \in SharedState, NEW i \in Seats, NEW x \in SeatType
    PROVE  SeatBecomes(s, i, x) \in SharedState
BY SeatBecomesFacts, Zenon

LEMMA SeatIsTyped ==
    ASSUME NEW s \in SharedState, NEW i \in Seats
    PROVE  s.seat[i] \in SeatType
BY DEF SharedState

LEMMA FoldSeatType ==
    ASSUME NEW s \in SharedState, NEW i \in Seats
    PROVE  FoldSeat(s, i) \in SharedState
<1> DEFINE x == [s.seat[i] EXCEPT !.folded = TRUE, !.acted = TRUE]
<1>1. x \in SeatType
  <2>1. s.seat[i] \in SeatType
    BY SeatIsTyped
  <2> QED
    BY <2>1 DEF SeatType
<1>2. FoldSeat(s, i) = SeatBecomes(s, i, x)
  BY DEF FoldSeat, SeatBecomes
<1> HIDE DEF x
<1> QED
  BY <1>1, <1>2, SeatBecomesType

LEMMA CheckOrFoldType ==
    ASSUME NEW s \in SharedState, NEW i \in Seats
    PROVE  CheckOrFold(s, i) \in SharedState
<1> DEFINE x == [s.seat[i] EXCEPT !.acted = TRUE]
<1>1. [s EXCEPT !.seat[i].acted = TRUE] \in SharedState
  <2>1. x \in SeatType
    <3>1. s.seat[i] \in SeatType
      BY SeatIsTyped
    <3> QED
      BY <3>1 DEF SeatType
  <2>2. [s EXCEPT !.seat[i].acted = TRUE] = SeatBecomes(s, i, x)
    BY DEF SeatBecomes
  <2> HIDE DEF x
  <2> QED
    BY <2>1, <2>2, SeatBecomesType
<1> QED
  BY <1>1, FoldSeatType, AdvanceType DEF CheckOrFold

LEMMA AutoCheckFoldType ==
    ASSUME NEW s \in SharedState
    PROVE  AutoCheckFoldOnce(s) \in SharedState
<1>1. Actionable(s) \subseteq Seats
  BY SeatSets
<1> QED
  BY <1>1, CheckOrFoldType, ClearCountdownType DEF AutoCheckFoldOnce

LEMMA StartCountdownType ==
    ASSUME NEW s \in SharedState
    PROVE  StartActionCountdownIfNeeded(s) \in SharedState
<1>1. [s EXCEPT !.deadline = "running", !.countdown_seat = s.active_seat,
                !.timer_task = TRUE] \in SharedState
  BY DEF SharedState
<1> QED
  BY <1>1, ClearCountdownType DEF StartActionCountdownIfNeeded

(* What a section publishes is the table it has worked out, perhaps some   *)
(* automatic turns later, with the countdown started.                      *)
LEMMA PublishOutcome ==
    ASSUME NEW G, NEW s \in G, \A t \in G : AutoCheckFoldOnce(t) \in G, Publish(s)
    PROVE  \E t \in G :
               /\ state' = [StartActionCountdownIfNeeded(t) EXCEPT !.due = <<>>]
               /\ settling' = IF StartActionCountdownIfNeeded(t).due = <<>> THEN settling
                              ELSE settling \cup
                                   {SettlementTask(StartActionCountdownIfNeeded(t).due)}
<1>1. ApplyAutoCheckFolds(s) \subseteq G
  BY TurnsStay
<1> QED
  BY <1>1 DEF Publish

LEMMA PublishType ==
    ASSUME NEW s \in SharedState, Publish(s), settling \subseteq TaskType
    PROVE  state' \in SharedState /\ state'.due = <<>> /\ settling' \subseteq TaskType
<1>1. PICK t \in SharedState :
               /\ state' = [StartActionCountdownIfNeeded(t) EXCEPT !.due = <<>>]
               /\ settling' = IF StartActionCountdownIfNeeded(t).due = <<>> THEN settling
                              ELSE settling \cup
                                   {SettlementTask(StartActionCountdownIfNeeded(t).due)}
  BY AutoCheckFoldType, PublishOutcome
<1> DEFINE x == StartActionCountdownIfNeeded(t)
<1>2. x \in SharedState
  BY StartCountdownType
<1> HIDE DEF x
<1> DEFINE y == [x EXCEPT !.due = <<>>]
<1>3. y \in SharedState /\ y.due = <<>>
  <2>1. <<>> \in Seq(Settlement)
    OBVIOUS
  <2>2. y \in SharedState
    BY <1>2, <2>1 DEF SharedState
  <2>3. y.due = <<>>
    BY <1>2 DEF SharedState
  <2> QED
    BY <2>2, <2>3
<1>4. x.due \in Seq(Settlement)
  BY <1>2 DEF SharedState
<1>5. SettlementTask(x.due) \in TaskType
  BY <1>4 DEF SettlementTask, TaskType
<1> QED
  BY <1>1, <1>3, <1>5 DEF x


-------------------------------------------------------------------------------
(* What the sections do before they publish.                               *)
LEMMA FiniteGreatest ==
    ASSUME NEW S \in SUBSET Nat, IsFiniteSet(S), S # {}
    PROVE  Max(S) \in S /\ \A y \in S : Max(S) >= y
<1> DEFINE HasGreatest(T) == T # {} => \E m \in T : \A n \in T : m >= n
           G == {T \in SUBSET S : HasGreatest(T)}
<1>1. {} \in G
  OBVIOUS
<1>2. ASSUME NEW T \in SUBSET S, \A x \in T : T \ {x} \in G PROVE T \in G
  <2>1. SUFFICES ASSUME NEW x \in T PROVE \E m \in T : \A n \in T : m >= n
    OBVIOUS
  <2>2. CASE T \ {x} = {}
    <3>1. \A n \in T : x >= n
      BY <2>2
    <3> QED
      BY <3>1
  <2>3. CASE T \ {x} # {}
    <3>1. PICK m \in T \ {x} : \A n \in T \ {x} : m >= n
      BY <1>2, <2>3
    <3>2. CASE m >= x
      BY <3>1, <3>2
    <3>3. CASE ~(m >= x)
      <4>1. \A n \in T : x >= n
        BY <3>1, <3>3
      <4> QED
        BY <4>1
    <3> QED
      BY <3>2, <3>3
  <2> QED
    BY <2>2, <2>3
<1>3. S \in G
  <2>1. G \in SUBSET (SUBSET S)
    OBVIOUS
  <2> HIDE DEF G
  <2>2. G = SUBSET S
    BY <1>1, <1>2, <2>1, SubsetInduction
  <2> QED
    BY <2>2
<1>4. PICK m \in S : \A n \in S : m >= n
  BY <1>3
<1> QED
  BY <1>4 DEF Max

LEMMA EmptySeatType == EmptySeat \in SeatType
BY PokerAssumption DEF EmptySeat, SeatType, NoCommit

SeatsBecome(s, seats) == [s EXCEPT !.seat = seats]

LEMMA SeatsBecomeType ==
    ASSUME NEW s \in SharedState, NEW seats \in [Seats -> SeatType]
    PROVE  SeatsBecome(s, seats) \in SharedState
BY DEF SeatsBecome, SharedState

LEMMA RecordActivityType ==
    ASSUME NEW s \in SharedState, NEW u
    PROVE  RecordActivity(s, u) \in SharedState
<1> DEFINE new(i) == IF s.seat[i].user = u THEN [s.seat[i] EXCEPT !.armed = TRUE] ELSE s.seat[i]
           seats == [i \in Seats |-> new(i)]
<1>1. ASSUME NEW i \in Seats PROVE new(i) \in SeatType
  <2>1. s.seat[i] \in SeatType
    BY SeatIsTyped
  <2> QED
    BY <2>1 DEF SeatType
<1>2. seats \in [Seats -> SeatType]
  <2> HIDE DEF new
  <2> QED
    BY <1>1
<1>3. RecordActivity(s, u) = SeatsBecome(s, seats)
  BY DEF RecordActivity, SeatsBecome
<1> HIDE DEF seats
<1> QED
  BY <1>2, <1>3, SeatsBecomeType

LEMMA RemoveSeatsType ==
    ASSUME NEW s \in SharedState, NEW gone
    PROVE  RemoveSeats(s, gone) \in SharedState
<1> DEFINE seats == [i \in Seats |-> IF i \in gone THEN EmptySeat ELSE s.seat[i]]
           t == SeatsBecome(s, seats)
<1>1. seats \in [Seats -> SeatType]
  BY SeatIsTyped, EmptySeatType
<1>2. RemoveSeats(s, gone) =
        IF gone # {} /\ Occupied(t) = {} THEN [t EXCEPT !.dealer_button = NoSeat] ELSE t
  BY DEF RemoveSeats, SeatsBecome
<1> HIDE DEF seats
<1>3. t \in SharedState
  BY <1>1, SeatsBecomeType
<1> HIDE DEF t
<1>4. [t EXCEPT !.dealer_button = NoSeat] \in SharedState
  BY <1>3 DEF SharedState
<1> QED
  BY <1>2, <1>3, <1>4

LEMMA FoldAndLeaveType ==
    ASSUME NEW s \in SharedState, NEW i \in Seats
    PROVE  FoldAndLeave(s, i) \in SharedState
<1> DEFINE x == [FoldSeat(s, i).seat[i] EXCEPT !.leave_after_hand = TRUE]
           t == SeatBecomes(FoldSeat(s, i), i, x)
<1>1. t \in SharedState
  <2>1. FoldSeat(s, i) \in SharedState
    BY FoldSeatType
  <2>2. x \in SeatType
    <3>1. FoldSeat(s, i).seat[i] \in SeatType
      BY <2>1, SeatIsTyped
    <3> QED
      BY <3>1 DEF SeatType
  <2> HIDE DEF x
  <2> QED
    BY <2>1, <2>2, SeatBecomesType
<1>2. t = [FoldSeat(s, i) EXCEPT !.seat[i].leave_after_hand = TRUE]
  BY DEF SeatBecomes
<1> HIDE DEF t
<1>3. AdvanceAfterAction(t, i) \in SharedState
  BY <1>1, AdvanceType
<1>4. ASSUME Cardinality(Active(t)) = 1
      PROVE  FinishByFold(t, CHOOSE w \in Active(t) : TRUE) \in SharedState
  <2>1. Active(t) # {} /\ Active(t) \subseteq Seats
    BY <1>1, <1>4, SeatSets, FS_EmptySet
  <2>2. (CHOOSE w \in Active(t) : TRUE) \in Seats
    BY <2>1
  <2> QED
    BY <1>1, <2>2, FinishByFoldType
<1> QED
  BY <1>1, <1>2, <1>3, <1>4 DEF FoldAndLeave

LEMMA CommitStateType ==
    ASSUME NEW s \in SharedState, NEW i \in Seats, NEW id \in Nat, NEW blind \in BOOLEAN,
           NEW amount \in Nat, NEW target \in Nat, NEW raise \in Nat
    PROVE  Commit(s, i, id, blind, amount, target, raise) \in SharedState
<1> DEFINE p == [id |-> id, blind |-> blind, amount |-> amount, target |-> target, raise |-> raise]
           x == [s.seat[i] EXCEPT !.pending = p]
<1>1. x \in SeatType
  BY SeatIsTyped DEF SeatType
<1>2. Commit(s, i, id, blind, amount, target, raise) = SeatBecomes(s, i, x)
  BY DEF Commit, SeatBecomes
<1> HIDE DEF x
<1> QED
  BY <1>1, <1>2, SeatBecomesType

LEMMA DealtType ==
    ASSUME NEW s \in SharedState, NEW dealer \in Seats, NEW strength,
           \A i \in Playable(s) : strength[i] \in Nat
    PROVE  Dealt(s, dealer, strength) \in SharedState
<1> DEFINE new(i) == [s.seat[i] EXCEPT
                        !.cards = IF i \in Playable(s) THEN strength[i] ELSE 0,
                        !.folded = FALSE, !.all_in = FALSE, !.acted = FALSE,
                        !.leave_after_hand = FALSE, !.committed = 0, !.street_bet = 0,
                        !.pending = NoCommit]
           seats == [i \in Seats |-> new(i)]
<1>1. ASSUME NEW i \in Seats PROVE new(i) \in SeatType
  <2> DEFINE c == IF i \in Playable(s) THEN strength[i] ELSE 0
  <2>1. c \in Nat
    OBVIOUS
  <2> HIDE DEF c
  <2> DEFINE x == [s.seat[i] EXCEPT !.cards = c, !.folded = FALSE, !.all_in = FALSE,
                                    !.acted = FALSE]
  <2>2. x \in SeatType
    <3>1. s.seat[i] \in SeatType
      BY SeatIsTyped
    <3> QED
      BY <2>1, <3>1 DEF SeatType
  <2> HIDE DEF x
  <2>3. [x EXCEPT !.leave_after_hand = FALSE, !.committed = 0, !.street_bet = 0,
                  !.pending = NoCommit] \in SeatType
    BY <2>2 DEF SeatType, NoCommit
  <2> QED
    BY <2>3 DEF c, x
<1>2. seats \in [Seats -> SeatType]
  <2> HIDE DEF new
  <2> QED
    BY <1>1
<1>3. Dealt(s, dealer, strength) =
        [ClearCountdown(s) EXCEPT !.seat = seats,
            !.phase = "PostingBlinds", !.dealer_button = dealer, !.active_seat = NoSeat,
            !.current_bet = 0, !.min_raise = BIG_BLIND]
  BY DEF Dealt
<1> HIDE DEF seats
<1>4. ClearCountdown(s) \in SharedState /\ BIG_BLIND \in Nat
  BY ClearCountdownType, PokerAssumption
<1>5. [ClearCountdown(s) EXCEPT !.seat = seats,
            !.phase = "PostingBlinds", !.dealer_button = dealer, !.active_seat = NoSeat,
            !.current_bet = 0, !.min_raise = BIG_BLIND] \in SharedState
  BY <1>2, <1>4 DEF SharedState, Phases, NoSeat
<1> QED
  BY <1>3, <1>5

LEMMA InPotType ==
    ASSUME NEW s \in SharedState, NEW i \in Seats
    PROVE  InPot(s, i) \in SharedState
<1> DEFINE p == s.seat[i].pending
           x == [s.seat[i] EXCEPT
                !.pending = NoCommit, !.stack = @ - p.amount,
                !.committed = @ + p.amount, !.street_bet = @ + p.amount,
                !.all_in = @ \/ s.seat[i].stack = p.amount, !.acted = ~p.blind]
           new(j) == IF j = i THEN x
                     ELSE IF FullRaise(s, p) /\ HandRuns(s) /\ j \in Active(s)
                     THEN [s.seat[j] EXCEPT !.acted = FALSE]
                     ELSE s.seat[j]
           seats == [j \in Seats |-> new(j)]
           bet == Max({s.current_bet, p.target})
           least == IF FullRaise(s, p) THEN Max({p.raise, p.target - s.current_bet})
                    ELSE s.min_raise
<1>1. /\ p.amount \in Nat /\ p.blind \in BOOLEAN /\ p.target \in Nat /\ p.raise \in Nat
      /\ s.current_bet \in Nat /\ s.min_raise \in Nat
  BY SeatIsTyped DEF SeatType, SharedState
<1>2. x \in SeatType
  <2>1. s.seat[i] \in SeatType
    BY SeatIsTyped
  <2> HIDE DEF p
  <2> DEFINE a == s.seat[i].all_in \/ s.seat[i].stack = p.amount
             st == s.seat[i].stack - p.amount
             co == s.seat[i].committed + p.amount
             sb == s.seat[i].street_bet + p.amount
             ac == ~p.blind
  <2>2. /\ a \in BOOLEAN /\ ac \in BOOLEAN
        /\ st \in Int /\ co \in Nat /\ sb \in Nat
    BY <1>1, <2>1 DEF SeatType
  <2>3. x = [s.seat[i] EXCEPT !.pending = NoCommit, !.stack = st, !.committed = co,
                              !.street_bet = sb, !.all_in = a, !.acted = ac]
    BY <2>1 DEF SeatType, p
  <2> HIDE DEF a, st, co, sb, ac
  <2>4. [s.seat[i] EXCEPT !.pending = NoCommit, !.stack = st, !.committed = co,
                          !.street_bet = sb, !.all_in = a, !.acted = ac] \in SeatType
    BY <2>1, <2>2 DEF SeatType, NoCommit
  <2> QED
    BY <2>3, <2>4
<1> HIDE DEF x
<1>3. ASSUME NEW j \in Seats PROVE new(j) \in SeatType
  <2>1. s.seat[j] \in SeatType
    BY SeatIsTyped
  <2>2. [s.seat[j] EXCEPT !.acted = FALSE] \in SeatType
    BY <2>1 DEF SeatType
  <2> QED
    BY <1>2, <2>1, <2>2
<1>4. seats \in [Seats -> SeatType]
  <2> HIDE DEF new
  <2> QED
    BY <1>3
<1>5. bet \in Nat
  BY <1>1, MaxOfTwo
<1>6. least \in Nat
  <2>1. FullRaise(s, p) => p.target > s.current_bet
    BY DEF FullRaise
  <2> HIDE DEF p
  <2>2. p.target - s.current_bet \in Int
    BY <1>1
  <2>3. Max({p.raise, p.target - s.current_bet}) =
            IF p.raise >= p.target - s.current_bet THEN p.raise ELSE p.target - s.current_bet
    BY <1>1, <2>2, MaxOfTwo
  <2> QED
    BY <1>1, <2>1, <2>3
<1>7. InPot(s, i) = [s EXCEPT !.seat = seats, !.current_bet = bet, !.min_raise = least]
  BY DEF InPot, x, SharedState
<1> HIDE DEF seats, bet, least
<1>8. [s EXCEPT !.seat = seats, !.current_bet = bet, !.min_raise = least] \in SharedState
  BY <1>4, <1>5, <1>6 DEF SharedState
<1> QED
  BY <1>7, <1>8

LEMMA FinishBlindPostingType ==
    ASSUME NEW s \in SharedState
    PROVE  FinishBlindPosting(s) \in SharedState
<1> DEFINE bets == {s.seat[i].street_bet : i \in Seats}
           t == [s EXCEPT !.current_bet = Max(bets), !.min_raise = BIG_BLIND]
<1>1. Max(bets) \in Nat
  <2>1. bets \in SUBSET Nat
    BY SeatIsTyped DEF SeatType
  <2>2. IsFiniteSet(bets)
    <3> DEFINE f == [i \in Seats |-> s.seat[i].street_bet]
    <3> DEFINE images == {f[i] : i \in Seats}
    <3>1. bets = images
      OBVIOUS
    <3> HIDE DEF f
    <3>2. IsFiniteSet(images)
      BY SeatsAreFinite, ImageOfFinite
    <3> HIDE DEF images, bets
    <3> QED
      BY <3>1, <3>2
  <2>3. bets # {}
    <3>1. 1 \in Seats
      BY SeatsAreFinite DEF Seats
    <3> QED
      BY <3>1
  <2> HIDE DEF bets
  <2> QED
    BY <2>1, <2>2, <2>3, FiniteGreatest
<1> HIDE DEF bets
<1>2. t \in SharedState
  BY <1>1, PokerAssumption DEF SharedState
<1>3. FinishBlindPosting(s) =
        CASE Cardinality(Active(t)) = 1 -> FinishByFold(t, CHOOSE w \in Active(t) : TRUE)
          [] Active(t) = {} -> AbandonHand(t)
          [] Cardinality(Active(t)) > 1 /\ Actionable(t) = {} ->
                FinishShowdown([t EXCEPT !.phase = "PreFlop", !.active_seat = NoSeat])
          [] OTHER -> [t EXCEPT !.phase = "PreFlop",
                                !.active_seat = After(t.big_blind_seat, Actionable(t))]
  BY DEF FinishBlindPosting, bets
<1> HIDE DEF t
<1>4. ASSUME Cardinality(Active(t)) = 1
      PROVE  FinishByFold(t, CHOOSE w \in Active(t) : TRUE) \in SharedState
  <2>1. Active(t) # {} /\ Active(t) \subseteq Seats
    BY <1>2, <1>4, SeatSets, FS_EmptySet
  <2>2. (CHOOSE w \in Active(t) : TRUE) \in Seats
    BY <2>1
  <2> QED
    BY <1>2, <2>2, FinishByFoldType
<1>5. AbandonHand(t) \in SharedState
  BY <1>2, AbandonHandType
<1>6. FinishShowdown([t EXCEPT !.phase = "PreFlop", !.active_seat = NoSeat]) \in SharedState
  <2>1. [t EXCEPT !.phase = "PreFlop", !.active_seat = NoSeat] \in SharedState
    BY <1>2 DEF SharedState, Phases, ActionPhases, NoSeat
  <2> QED
    BY <2>1, FinishShowdownType
<1>7. [t EXCEPT !.phase = "PreFlop", !.active_seat = After(t.big_blind_seat, Actionable(t))]
        \in SharedState
  <2>1. Actionable(t) \in SUBSET Seats /\ t.big_blind_seat \in Seats \cup {NoSeat}
    BY <1>2, SeatSets DEF SharedState
  <2>2. After(t.big_blind_seat, Actionable(t)) \in Seats \cup {NoSeat}
    <3>1. CASE Actionable(t) = {}
      BY <3>1 DEF After
    <3>2. CASE Actionable(t) # {}
      BY <2>1, <3>2, AfterIsThere
    <3> QED
      BY <3>1, <3>2
  <2> QED
    BY <1>2, <2>2 DEF SharedState, Phases, ActionPhases
<1>8. CASE Cardinality(Active(t)) = 1
  <2>1. Active(t) # {}
    BY <1>8, FS_EmptySet
  <2> QED
    BY <1>3, <1>4, <1>8, <2>1
<1>9. CASE Cardinality(Active(t)) # 1
  BY <1>3, <1>5, <1>6, <1>7, <1>9
<1> QED
  BY <1>8, <1>9

LEMMA BlindAnsweredType ==
    ASSUME NEW s \in SharedState
    PROVE  BlindAnswered(s) \in SharedState
<1> DEFINE n == Max({s.pending_blinds - 1, 0})
           t == [s EXCEPT !.pending_blinds = n]
<1>1. n \in 0 .. 2
  <2>1. s.pending_blinds \in 0 .. 2
    BY DEF SharedState
  <2> QED
    BY <2>1, MaxOfTwo
<1>2. BlindAnswered(s) = IF t.pending_blinds = 0 THEN FinishBlindPosting(t) ELSE t
  BY DEF BlindAnswered, SharedState
<1> HIDE DEF n
<1>3. t \in SharedState
  BY <1>1 DEF SharedState
<1> HIDE DEF t
<1> QED
  BY <1>2, <1>3, FinishBlindPostingType

LEMMA RecordManualActionType ==
    ASSUME NEW s \in SharedState, NEW i \in Seats
    PROVE  RecordManualAction(s, i) \in SharedState
<1> DEFINE c == ClearCountdown(s)
           x == [c.seat[i] EXCEPT !.missed_actions = 0]
<1>1. c \in SharedState
  BY ClearCountdownType
<1>2. RecordManualAction(s, i) = RecordActivity(SeatBecomes(c, i, x), s.seat[i].user)
  BY DEF RecordManualAction, SeatBecomes
<1> HIDE DEF c
<1>3. x \in SeatType
  BY <1>1, SeatIsTyped, PokerAssumption DEF SeatType
<1> HIDE DEF x
<1>4. SeatBecomes(c, i, x) \in SharedState
  BY <1>1, <1>3, SeatBecomesType
<1> QED
  BY <1>2, <1>4, RecordActivityType


-------------------------------------------------------------------------------
(* A new commit has an id that no other has.                               *)
LEMMA FreshIdFacts ==
    ASSUME NEW taken, IsFiniteSet(taken)
    PROVE  FreshId(taken) \in Nat \ {0} /\ \A c \in taken : c.id # FreshId(taken)
<1> DEFINE n == Cardinality(taken)
           f == [c \in taken |-> c.id]
           ids == {f[c] : c \in taken}
           room == 1 .. n + 1
<1>1. n \in Nat
  BY FS_CardinalityType
<1>2. IsFiniteSet(ids) /\ Cardinality(ids) <= n
  <2> HIDE DEF f
  <2> QED
    BY ImageOfFinite
<1>3. IsFiniteSet(room) /\ Cardinality(room) = n + 1
  <2> HIDE DEF n
  <2> QED
    BY <1>1, FS_Interval
<1>4. PICK k \in room : k \notin ids
  <2>1. SUFFICES ASSUME room \subseteq ids PROVE FALSE
    OBVIOUS
  <2> HIDE DEF n, ids, room
  <2>2. Cardinality(room) <= Cardinality(ids) /\ Cardinality(ids) \in Nat
    BY <1>2, <2>1, FS_Subset, FS_CardinalityType
  <2> QED
    BY <1>1, <1>2, <1>3, <2>2
<1>5. \A c \in taken : c.id # k
  BY <1>4
<1>6. FreshId(taken) \in room /\ \A c \in taken : c.id # FreshId(taken)
  BY <1>5 DEF FreshId
<1> HIDE DEF n
<1> QED
  BY <1>1, <1>6

BlindCommit(id, amount) ==
    [id |-> id, blind |-> TRUE, amount |-> amount, target |-> amount, raise |-> amount]
NewTask(id, user, seat, amount) ==
    [id |-> id, user |-> user, seat |-> seat, amount |-> amount, pc |-> "debiting"]

LEMMA NewTaskType ==
    ASSUME NEW id \in Nat \ {0}, NEW user \in Users, NEW seat \in Seats,
           NEW amount \in Nat \ {0}
    PROVE  NewTask(id, user, seat, amount) \in CommitType
BY DEF NewTask, CommitType

(* The table that the deal leaves.                                         *)
DealtSeat(x, y) ==
    /\ y.user = x.user /\ y.committed = 0 /\ y.street_bet = 0
    /\ ~y.folded /\ ~y.all_in /\ ~y.acted

HandDealt(s, t, a, b, x, y) ==
    /\ t \in SharedState
    /\ t.phase = "PostingBlinds" /\ t.active_seat = NoSeat /\ t.current_bet = 0
    /\ t.pending_blinds = 2 /\ t.deadline = "none" /\ ~t.timer_task
    /\ t.due = s.due /\ t.settlement_pending = s.settlement_pending
    /\ \A i \in Seats : DealtSeat(s.seat[i], t.seat[i])
    /\ t.seat[a].pending = x /\ t.seat[b].pending = y
    /\ t.seat[a].cards > 0 /\ t.seat[b].cards > 0
    /\ \A i \in Seats \ {a, b} : t.seat[i].pending = NoCommit

LEMMA DealtFields ==
    ASSUME NEW s \in SharedState, NEW dealer \in Seats, NEW strength,
           \A i \in Playable(s) : strength[i] \in Nat
    PROVE  LET t == Dealt(s, dealer, strength) IN
           /\ t.phase = "PostingBlinds" /\ t.active_seat = NoSeat /\ t.current_bet = 0
           /\ t.deadline = "none" /\ ~t.timer_task
           /\ t.due = s.due /\ t.settlement_pending = s.settlement_pending
           /\ \A i \in Seats : DealtSeat(s.seat[i], t.seat[i]) /\ t.seat[i].pending = NoCommit
           /\ \A i \in Playable(s) : t.seat[i].cards = strength[i]
<1> DEFINE new(i) == [s.seat[i] EXCEPT
                        !.cards = IF i \in Playable(s) THEN strength[i] ELSE 0,
                        !.folded = FALSE, !.all_in = FALSE, !.acted = FALSE,
                        !.leave_after_hand = FALSE, !.committed = 0, !.street_bet = 0,
                        !.pending = NoCommit]
           seats == [i \in Seats |-> new(i)]
           t == Dealt(s, dealer, strength)
<1>1. t = [ClearCountdown(s) EXCEPT !.seat = seats,
            !.phase = "PostingBlinds", !.dealer_button = dealer, !.active_seat = NoSeat,
            !.current_bet = 0, !.min_raise = BIG_BLIND]
  BY DEF Dealt
<1>2. ASSUME NEW i \in Seats
      PROVE  /\ DealtSeat(s.seat[i], seats[i]) /\ seats[i].pending = NoCommit
             /\ seats[i].cards = IF i \in Playable(s) THEN strength[i] ELSE 0
  <2>1. s.seat[i] \in SeatType
    BY SeatIsTyped
  <2> DEFINE z == s.seat[i]
             c == IF i \in Playable(s) THEN strength[i] ELSE 0
             y == [z EXCEPT !.cards = c,
                        !.folded = FALSE, !.all_in = FALSE, !.acted = FALSE,
                        !.leave_after_hand = FALSE, !.committed = 0, !.street_bet = 0,
                        !.pending = NoCommit]
  <2>2. seats[i] = y
    OBVIOUS
  <2> HIDE DEF z, c
  <2>3. DealtSeat(z, y) /\ y.pending = NoCommit /\ y.cards = c
    BY <2>1 DEF DealtSeat, SeatType, z
  <2> HIDE DEF y
  <2> QED
    BY <2>2, <2>3 DEF z, c
<1> HIDE DEF seats, t
<1>3. /\ t.phase = "PostingBlinds" /\ t.active_seat = NoSeat /\ t.current_bet = 0
      /\ t.deadline = "none" /\ ~t.timer_task
      /\ t.due = s.due /\ t.settlement_pending = s.settlement_pending
      /\ t.seat = seats
  BY <1>1 DEF SharedState, ClearCountdown
<1>4. Playable(s) \subseteq Seats
  BY SeatSets
<1> QED
  BY <1>2, <1>3, <1>4 DEF t

(* What a change of a seat or of the table leaves alone.                   *)
SameHand(x, y) ==
    /\ y.user = x.user /\ y.cards = x.cards /\ y.folded = x.folded
    /\ y.all_in = x.all_in /\ y.acted = x.acted /\ y.pending = x.pending
    /\ y.committed = x.committed /\ y.street_bet = x.street_bet

SameTurn(s, t) ==
    /\ t.phase = s.phase /\ t.active_seat = s.active_seat
    /\ t.current_bet = s.current_bet /\ t.min_raise = s.min_raise
    /\ t.deadline = s.deadline /\ t.countdown_seat = s.countdown_seat
    /\ t.timer_task = s.timer_task
    /\ t.due = s.due /\ t.settlement_pending = s.settlement_pending
    /\ t.pending_blinds = s.pending_blinds

LEMMA SeatsBecomeFields ==
    ASSUME NEW s \in SharedState, NEW seats
    PROVE  SeatsBecome(s, seats).seat = seats /\ SameTurn(s, SeatsBecome(s, seats))
BY DEF SeatsBecome, SameTurn, SharedState

(* A commit changes what its seat waits for and nothing else.              *)
Pending(id, blind, amount, target, raise) ==
    [id |-> id, blind |-> blind, amount |-> amount, target |-> target, raise |-> raise]

SameButPending(x, y) ==
    /\ y.user = x.user /\ y.cards = x.cards /\ y.folded = x.folded
    /\ y.all_in = x.all_in /\ y.acted = x.acted
    /\ y.leave_after_hand = x.leave_after_hand
    /\ y.committed = x.committed /\ y.street_bet = x.street_bet

CommitMade(s, t, i, p) ==
    /\ t \in SharedState /\ SameTurn(s, t)
    /\ \A j \in Seats \ {i} : t.seat[j] = s.seat[j]
    /\ SameButPending(s.seat[i], t.seat[i]) /\ t.seat[i].pending = p

LEMMA CommitFields ==
    ASSUME NEW s \in SharedState, NEW i \in Seats, NEW id \in Nat, NEW blind \in BOOLEAN,
           NEW amount \in Nat, NEW target \in Nat, NEW raise \in Nat
    PROVE  CommitMade(s, Commit(s, i, id, blind, amount, target, raise), i,
                      Pending(id, blind, amount, target, raise))
<1> DEFINE p == Pending(id, blind, amount, target, raise)
           x == [s.seat[i] EXCEPT !.pending = p]
           seats == [s.seat EXCEPT ![i] = x]
           t == Commit(s, i, id, blind, amount, target, raise)
<1>1. t = SeatsBecome(s, seats)
  BY DEF Commit, SeatsBecome, Pending
<1>2. x \in SeatType /\ SameButPending(s.seat[i], x) /\ x.pending = p
  <2>1. p \in [id : Nat, blind : BOOLEAN, amount : Nat, target : Nat, raise : Nat]
    BY DEF Pending
  <2> HIDE DEF p
  <2> QED
    BY <2>1, SeatIsTyped DEF SeatType, SameButPending
<1> HIDE DEF x, p
<1>3. seats \in [Seats -> SeatType] /\ seats[i] = x /\ \A j \in Seats \ {i} : seats[j] = s.seat[j]
  BY <1>2 DEF SharedState
<1> HIDE DEF seats, t
<1>4. t \in SharedState /\ SameTurn(s, t) /\ t.seat = seats
  BY <1>1, <1>3, SeatsBecomeType, SeatsBecomeFields
<1> QED
  BY <1>2, <1>3, <1>4 DEF CommitMade, t, p

LEMMA RecordActivityFields ==
    ASSUME NEW s \in SharedState, NEW u
    PROVE  /\ SameTurn(s, RecordActivity(s, u))
           /\ \A i \in Seats : SameHand(s.seat[i], RecordActivity(s, u).seat[i])
<1> DEFINE new(i) == IF s.seat[i].user = u THEN [s.seat[i] EXCEPT !.armed = TRUE] ELSE s.seat[i]
           seats == [i \in Seats |-> new(i)]
<1>1. ASSUME NEW i \in Seats PROVE SameHand(s.seat[i], new(i))
  <2>1. s.seat[i] \in SeatType
    BY SeatIsTyped
  <2> QED
    BY <2>1 DEF SameHand, SeatType
<1> HIDE DEF new
<1>2. \A i \in Seats : SameHand(s.seat[i], seats[i])
  BY <1>1
<1>3. RecordActivity(s, u) = SeatsBecome(s, seats)
  BY DEF RecordActivity, SeatsBecome, new
<1> HIDE DEF seats
<1> QED
  BY <1>2, <1>3, SeatsBecomeFields

LEMMA BlindSeatsFacts ==
    ASSUME NEW s \in SharedState, NEW dealer \in Playable(s), Cardinality(Playable(s)) >= 2
    PROVE  LET b == BlindSeats(s, dealer) IN
           b[1] \in Playable(s) /\ b[2] \in Playable(s) /\ b[1] # b[2]
<1>1. Playable(s) \in SUBSET Seats /\ Playable(s) # {}
  BY SeatSets
<1>2. PICK small : small = BlindSeats(s, dealer)[1]
  OBVIOUS
<1>3. BlindSeats(s, dealer)[2] = After(small, Playable(s))
  BY <1>2 DEF BlindSeats
<1>4. small \in Playable(s)
  <2>1. After(dealer, Playable(s)) \in Playable(s)
    BY <1>1, AfterIsThere
  <2> QED
    BY <1>2, <2>1 DEF BlindSeats
<1>5. After(small, Playable(s)) \in Playable(s)
  BY <1>1, <1>4, AfterIsThere
<1>6. After(small, Playable(s)) # small
  BY <1>1, <1>4, AfterMoves
<1> QED
  BY <1>2, <1>3, <1>4, <1>5, <1>6

LEMMA DealHandFacts ==
    ASSUME NEW s \in SharedState, NEW u, DealHand(s, u), Cardinality(Playable(s)) >= 2,
           bounds \in Instance, IsFiniteSet(commits)
    PROVE  \E a, b \in Seats, small, big, id1, id2 \in Nat \ {0} :
              /\ a # b /\ id1 # id2 /\ \A c \in commits : c.id # id1 /\ c.id # id2
              /\ s.seat[a].user \in Users /\ s.seat[b].user \in Users
              /\ HandDealt(s, state', a, b, BlindCommit(id1, small), BlindCommit(id2, big))
              /\ commits' = commits \cup {NewTask(id1, s.seat[a].user, a, small),
                                          NewTask(id2, s.seat[b].user, b, big)}
<1> DEFINE dealer == IF s.dealer_button # NoSeat THEN After(s.dealer_button, Playable(s))
                     ELSE Min(IF SeatsOf(s, u) \cap Playable(s) # {}
                              THEN SeatsOf(s, u) \cap Playable(s) ELSE Playable(s))
           a == BlindSeats(s, dealer)[1]
           b == BlindSeats(s, dealer)[2]
           small == Min({SMALL_BLIND, s.seat[a].stack})
           big == Min({BIG_BLIND, s.seat[b].stack})
           id1 == FreshId(commits)
           id2 == FreshId(commits \cup {[id |-> id1]})
           D(strength) == Dealt(s, dealer, strength)
           T1(strength) == Commit(D(strength), a, id1, TRUE, small, small, small)
           T2(strength) == Commit(T1(strength), b, id2, TRUE, big, big, big)
           T3(strength) == [T2(strength) EXCEPT !.pending_blinds = 2, !.big_blind_seat = b]
<1>1. PICK strength \in [Playable(s) -> bounds.strengths] :
         /\ state' = RecordActivity(T3(strength), u)
         /\ commits' = commits \cup {CommitTask(T2(strength), a), CommitTask(T2(strength), b)}
  BY DEF DealHand
<1>2. dealer \in Playable(s) /\ Playable(s) \in SUBSET Seats
  <2>1. Playable(s) \in SUBSET Seats /\ Playable(s) # {}
    BY SeatSets, FS_EmptySet
  <2>2. ASSUME s.dealer_button # NoSeat PROVE After(s.dealer_button, Playable(s)) \in Playable(s)
    <3>1. s.dealer_button \in Seats \cup {NoSeat}
      BY DEF SharedState
    <3> QED
      BY <2>1, <3>1, AfterIsThere
  <2>3. \A S \in SUBSET Playable(s) : S # {} => Min(S) \in Playable(s)
    <3>1. Playable(s) \subseteq Nat
      BY <2>1 DEF Seats
    <3> QED
      BY <3>1, MinIsLeast
  <2> QED
    BY <2>1, <2>2, <2>3
<1> HIDE DEF dealer
<1>3. a \in Playable(s) /\ b \in Playable(s) /\ a # b
  BY <1>2, BlindSeatsFacts
<1> HIDE DEF a, b
<1>4. /\ s.seat[a].user \in Users /\ s.seat[b].user \in Users
      /\ s.seat[a].stack \in Nat \ {0} /\ s.seat[b].stack \in Nat \ {0}
  <2>1. s.seat[a] \in SeatType /\ s.seat[b] \in SeatType
    BY <1>2, <1>3, SeatIsTyped
  <2> QED
    BY <1>3, <2>1 DEF SeatType, Playable, Occupied
<1>5. small \in Nat \ {0} /\ big \in Nat \ {0}
  <2>1. SMALL_BLIND \in Nat \ {0} /\ BIG_BLIND \in Nat \ {0}
    BY PokerAssumption
  <2> QED
    BY <1>4, <2>1, MinOfTwo
<1> HIDE DEF small, big
<1>6. /\ id1 \in Nat \ {0} /\ id2 \in Nat \ {0} /\ id1 # id2
      /\ \A c \in commits : c.id # id1 /\ c.id # id2
  <2>1. id1 \in Nat \ {0} /\ \A c \in commits : c.id # id1
    BY FreshIdFacts
  <2> DEFINE more == commits \cup {[id |-> id1]}
  <2>2. IsFiniteSet(more)
    BY FS_AddElement
  <2> HIDE DEF more
  <2>3. id2 \in Nat \ {0} /\ \A c \in more : c.id # id2
    BY <2>2, FreshIdFacts DEF more
  <2>4. [id |-> id1].id # id2 /\ \A c \in commits : c.id # id2
    BY <2>3 DEF more
  <2> QED
    BY <2>1, <2>3, <2>4
<1> HIDE DEF id1, id2
<1> DEFINE d == D(strength)
<1>7. /\ d \in SharedState
      /\ d.phase = "PostingBlinds" /\ d.active_seat = NoSeat /\ d.current_bet = 0
      /\ d.deadline = "none" /\ ~d.timer_task
      /\ d.due = s.due /\ d.settlement_pending = s.settlement_pending
      /\ \A i \in Seats : DealtSeat(s.seat[i], d.seat[i]) /\ d.seat[i].pending = NoCommit
      /\ d.seat[a].cards > 0 /\ d.seat[b].cards > 0
  <2>1. \A i \in Playable(s) : strength[i] \in Nat /\ strength[i] > 0
    BY <1>1 DEF Instance
  <2>2. dealer \in Seats
    BY <1>2
  <2> QED
    BY <1>3, <2>1, <2>2, DealtType, DealtFields
<1> HIDE DEF D
<1> DEFINE t1 == T1(strength)
<1>8. CommitMade(d, t1, a, BlindCommit(id1, small))
  <2>1. a \in Seats /\ id1 \in Nat /\ small \in Nat
    BY <1>2, <1>3, <1>5, <1>6
  <2>2. Pending(id1, TRUE, small, small, small) = BlindCommit(id1, small)
    BY DEF Pending, BlindCommit
  <2>3. CommitMade(d, Commit(d, a, id1, TRUE, small, small, small), a,
                   Pending(id1, TRUE, small, small, small))
    <3> HIDE DEF d
    <3> QED
      BY <1>7, <2>1, CommitFields
  <2> QED
    BY <2>2, <2>3
<1> HIDE DEF T1
<1> DEFINE t2 == T2(strength)
<1>9. CommitMade(t1, t2, b, BlindCommit(id2, big))
  <2>1. b \in Seats /\ id2 \in Nat /\ big \in Nat
    BY <1>2, <1>3, <1>5, <1>6
  <2>2. Pending(id2, TRUE, big, big, big) = BlindCommit(id2, big)
    BY DEF Pending, BlindCommit
  <2>3. t1 \in SharedState
    BY <1>8 DEF CommitMade
  <2>4. CommitMade(t1, Commit(t1, b, id2, TRUE, big, big, big), b,
                   Pending(id2, TRUE, big, big, big))
    <3> HIDE DEF t1
    <3> QED
      BY <2>1, <2>3, CommitFields
  <2> QED
    BY <2>2, <2>4
<1> HIDE DEF T2
<1> DEFINE t3 == T3(strength)
<1>10. /\ t3 \in SharedState
       /\ t3.phase = t2.phase /\ t3.active_seat = t2.active_seat
       /\ t3.current_bet = t2.current_bet /\ t3.pending_blinds = 2
       /\ t3.deadline = t2.deadline /\ t3.timer_task = t2.timer_task
       /\ t3.due = t2.due /\ t3.settlement_pending = t2.settlement_pending
       /\ t3.seat = t2.seat
  <2>1. t2 \in SharedState /\ b \in Seats
    BY <1>2, <1>3, <1>9 DEF CommitMade
  <2> HIDE DEF t2
  <2>2. [t2 EXCEPT !.pending_blinds = 2, !.big_blind_seat = b] \in SharedState
    <3> DEFINE n == 2
    <3>1. n \in 0 .. 2
      OBVIOUS
    <3> HIDE DEF n
    <3>2. [t2 EXCEPT !.pending_blinds = n, !.big_blind_seat = b] \in SharedState
      BY <2>1, <3>1 DEF SharedState
    <3> QED
      BY <3>2 DEF n
  <2> DEFINE x == [t2 EXCEPT !.pending_blinds = 2, !.big_blind_seat = b]
  <2>3. /\ x.phase = t2.phase /\ x.active_seat = t2.active_seat
        /\ x.current_bet = t2.current_bet /\ x.pending_blinds = 2
        /\ x.deadline = t2.deadline /\ x.timer_task = t2.timer_task
        /\ x.due = t2.due /\ x.settlement_pending = t2.settlement_pending
        /\ x.seat = t2.seat
    BY <2>1 DEF SharedState
  <2> QED
    BY <2>2, <2>3 DEF t2
<1> HIDE DEF T3
<1>11. ASSUME NEW i \in Seats
       PROVE  /\ DealtSeat(s.seat[i], t3.seat[i])
              /\ t3.seat[i].pending = IF i = a THEN BlindCommit(id1, small)
                                      ELSE IF i = b THEN BlindCommit(id2, big) ELSE NoCommit
  <2> HIDE DEF d, t1, t2, t3
  <2>1. DealtSeat(s.seat[i], d.seat[i]) /\ d.seat[i].pending = NoCommit
    BY <1>7
  <2>2. CASE i = a
    BY <1>3, <1>8, <1>9, <1>10, <2>1, <2>2 DEF CommitMade, SameButPending, DealtSeat
  <2>3. CASE i = b
    BY <1>3, <1>8, <1>9, <1>10, <2>1, <2>3 DEF CommitMade, SameButPending, DealtSeat
  <2>4. CASE i # a /\ i # b
    BY <1>7, <1>8, <1>9, <1>10, <2>4 DEF CommitMade
  <2> QED
    BY <2>2, <2>3, <2>4
<1>12. t3.seat[a].cards > 0 /\ t3.seat[b].cards > 0
  <2> HIDE DEF d, t1, t2, t3
  <2> QED
    BY <1>2, <1>3, <1>7, <1>8, <1>9, <1>10 DEF CommitMade, SameButPending
<1>13. HandDealt(s, state', a, b, BlindCommit(id1, small), BlindCommit(id2, big))
  <2>1. state' = RecordActivity(t3, u)
    BY <1>1 DEF T3
  <2> HIDE DEF t3
  <2>2. RecordActivity(t3, u) \in SharedState /\ SameTurn(t3, RecordActivity(t3, u))
        /\ \A i \in Seats : SameHand(t3.seat[i], RecordActivity(t3, u).seat[i])
    BY <1>10, RecordActivityType, RecordActivityFields
  <2>3. state'.phase = "PostingBlinds" /\ state'.active_seat = NoSeat
        /\ state'.current_bet = 0 /\ state'.pending_blinds = 2
        /\ state'.deadline = "none" /\ ~state'.timer_task
        /\ state'.due = s.due /\ state'.settlement_pending = s.settlement_pending
    BY <1>7, <1>8, <1>9, <1>10, <2>1, <2>2 DEF SameTurn, CommitMade
  <2>4. \A i \in Seats :
           /\ DealtSeat(s.seat[i], state'.seat[i])
           /\ state'.seat[i].pending = IF i = a THEN BlindCommit(id1, small)
                                       ELSE IF i = b THEN BlindCommit(id2, big) ELSE NoCommit
    BY <1>11, <2>1, <2>2 DEF SameHand, DealtSeat
  <2>5. a \in Seats /\ b \in Seats
    BY <1>2, <1>3
  <2>6. state'.seat[a].cards > 0 /\ state'.seat[b].cards > 0
    BY <1>12, <2>1, <2>2, <2>5 DEF SameHand
  <2> HIDE DEF t2, t1, d
  <2> QED
    BY <1>3, <2>1, <2>2, <2>3, <2>4, <2>5, <2>6 DEF HandDealt
<1>14. commits' = commits \cup {NewTask(id1, s.seat[a].user, a, small),
                                NewTask(id2, s.seat[b].user, b, big)}
  <2>1. t2.seat[a].pending = BlindCommit(id1, small) /\ t2.seat[a].user = s.seat[a].user
        /\ t2.seat[b].pending = BlindCommit(id2, big) /\ t2.seat[b].user = s.seat[b].user
    BY <1>2, <1>3, <1>10, <1>11 DEF DealtSeat
  <2>2. CommitTask(t2, a) = NewTask(id1, s.seat[a].user, a, small)
        /\ CommitTask(t2, b) = NewTask(id2, s.seat[b].user, b, big)
    BY <2>1 DEF CommitTask, NewTask, BlindCommit
  <2> QED
    BY <1>1, <2>2 DEF T2
<1> QED
  BY <1>2, <1>3, <1>4, <1>5, <1>6, <1>13, <1>14

-------------------------------------------------------------------------------
(* What a turn that is played, and every automatic turn after it, changes. *)
Rank == [PreFlop |-> 1, Flop |-> 2, Turn |-> 3, River |-> 4]

MovedSeat(x, y) ==
    /\ y.user = x.user /\ y.cards = x.cards /\ (x.folded => y.folded)
    /\ y.all_in = x.all_in /\ y.pending = x.pending /\ y.committed = x.committed

(* The phase never goes back, and while it stays no bet changes and nobody *)
(* has to act again.                                                       *)
PhaseMoves(s, t) ==
    /\ t.phase # "PostingBlinds"
    /\ HandRuns(t) => HandRuns(s) /\ Rank[s.phase] <= Rank[t.phase]
    /\ HandRuns(s) /\ t.phase = s.phase =>
          /\ t.current_bet = s.current_bet /\ t.min_raise = s.min_raise
          /\ \A j \in Seats : s.seat[j].acted => t.seat[j].acted


(* Only the end of a hand makes a settlement due.                          *)
DueMoves(s, t) ==
    \/ t.due = s.due /\ t.settlement_pending = s.settlement_pending
    \/ ~RoundActive(t) /\ t.settlement_pending = (t.due # <<>>)

TimerGood(s) == s.deadline # "none" => s.timer_task
TurnGood(s) ==
    HandRuns(s) => Cardinality(Active(s)) > 1 /\ s.active_seat \in Actionable(s)

Moves(s, t) ==
    /\ t \in SharedState /\ t.pending_blinds = s.pending_blinds
    /\ \A j \in Seats : MovedSeat(s.seat[j], t.seat[j])
    /\ PhaseMoves(s, t) /\ DueMoves(s, t)
    /\ TimerGood(s) => TimerGood(t)

LEMMA RankFacts ==
    /\ \A p \in ActionPhases : Rank[p] \in 1 .. 4
    /\ \A p, q \in ActionPhases : Rank[p] = Rank[q] => p = q
    /\ \A p \in DOMAIN NextStreet : p \in ActionPhases /\ NextStreet[p] \in ActionPhases
                                    /\ Rank[NextStreet[p]] = Rank[p] + 1
BY DEF ActionPhases, Rank, NextStreet

LEMMA MovesStay ==
    ASSUME NEW s \in SharedState, s.phase # "PostingBlinds"
    PROVE  Moves(s, s)
<1>1. HandRuns(s) => Rank[s.phase] <= Rank[s.phase]
  BY RankFacts DEF HandRuns
<1> QED
  BY <1>1 DEF Moves, MovedSeat, PhaseMoves, DueMoves

LEMMA MovesOn ==
    ASSUME NEW s \in SharedState, NEW t, NEW v, Moves(s, t), Moves(t, v)
    PROVE  Moves(s, v)
<1>1. \A j \in Seats : MovedSeat(s.seat[j], v.seat[j])
  BY DEF Moves, MovedSeat
<1>2. PhaseMoves(s, v)
  <2>1. PhaseMoves(s, t) /\ PhaseMoves(t, v)
    BY DEF Moves
  <2>2. HandRuns(v) => /\ HandRuns(t) /\ HandRuns(s)
                       /\ Rank[s.phase] <= Rank[t.phase] /\ Rank[t.phase] <= Rank[v.phase]
    BY <2>1 DEF PhaseMoves
  <2>3. HandRuns(v) => Rank[s.phase] <= Rank[v.phase]
    BY <2>2, RankFacts DEF HandRuns
  <2>4. HandRuns(s) /\ v.phase = s.phase => HandRuns(t) /\ t.phase = s.phase
    BY <2>2, RankFacts DEF HandRuns
  <2> QED
    BY <2>1, <2>2, <2>3, <2>4 DEF PhaseMoves
<1>3. DueMoves(s, v)
  <2>1. DueMoves(s, t) /\ DueMoves(t, v) /\ (RoundActive(v) => RoundActive(t))
    BY DEF Moves, PhaseMoves, RoundActive
  <2> QED
    BY <2>1 DEF DueMoves
<1> QED
  BY <1>1, <1>2, <1>3 DEF Moves

LEMMA ClearCountdownFields ==
    ASSUME NEW s \in SharedState
    PROVE  LET t == ClearCountdown(s) IN
           /\ t.phase = s.phase /\ t.seat = s.seat /\ t.active_seat = s.active_seat
           /\ t.dealer_button = s.dealer_button
           /\ t.current_bet = s.current_bet /\ t.min_raise = s.min_raise
           /\ t.pending_blinds = s.pending_blinds
           /\ t.due = s.due /\ t.settlement_pending = s.settlement_pending
           /\ t.deadline = "none" /\ t.countdown_seat = NoSeat /\ ~t.timer_task
BY DEF ClearCountdown, SharedState

LEMMA SettleFields ==
    ASSUME NEW s \in SharedState, NEW credit
    PROVE  LET t == Settle(s, credit) IN
           /\ t.phase = "Showdown" /\ t.seat = s.seat /\ t.active_seat = NoSeat
           /\ t.current_bet = s.current_bet /\ t.min_raise = s.min_raise
           /\ t.pending_blinds = s.pending_blinds
           /\ t.due = Settlements(s, credit) /\ t.settlement_pending = (t.due # <<>>)
           /\ t.deadline = "none" /\ t.countdown_seat = NoSeat /\ ~t.timer_task
<1> DEFINE c == ClearCountdown(s)
           pay == Settlements(s, credit)
           pays == pay # <<>>
           t == [c EXCEPT !.phase = "Showdown", !.active_seat = NoSeat,
                          !.due = pay, !.settlement_pending = pays]
<1>1. c \in SharedState
  BY ClearCountdownType
<1>2. Settle(s, credit) = t
  BY DEF Settle
<1>3. /\ c.seat = s.seat /\ c.current_bet = s.current_bet /\ c.min_raise = s.min_raise
      /\ c.pending_blinds = s.pending_blinds
      /\ c.deadline = "none" /\ c.countdown_seat = NoSeat /\ ~c.timer_task
  BY ClearCountdownFields
<1> HIDE DEF c, pay, pays
<1>4. /\ t.phase = "Showdown" /\ t.active_seat = NoSeat /\ t.due = pay
      /\ t.settlement_pending = pays
      /\ t.seat = c.seat /\ t.current_bet = c.current_bet /\ t.min_raise = c.min_raise
      /\ t.pending_blinds = c.pending_blinds
      /\ t.deadline = c.deadline /\ t.countdown_seat = c.countdown_seat
      /\ t.timer_task = c.timer_task
  BY <1>1 DEF SharedState
<1> HIDE DEF t
<1> QED
  BY <1>2, <1>3, <1>4 DEF pay, pays

LEMMA AbandonFields ==
    ASSUME NEW s \in SharedState
    PROVE  LET t == AbandonHand(s) IN
           /\ t.phase = "Waiting" /\ t.seat = s.seat /\ t.active_seat = NoSeat
           /\ t.current_bet = s.current_bet /\ t.min_raise = s.min_raise
           /\ t.pending_blinds = s.pending_blinds
           /\ t.due = s.due /\ t.settlement_pending = s.settlement_pending
           /\ t.deadline = "none" /\ t.countdown_seat = NoSeat /\ ~t.timer_task
BY ClearCountdownType, ClearCountdownFields DEF AbandonHand, SharedState

(* A street that opens asks everybody to act again.                        *)
FreshSeat(x, y) ==
    /\ y.user = x.user /\ y.cards = x.cards /\ y.folded = x.folded
    /\ y.all_in = x.all_in /\ y.pending = x.pending
    /\ y.leave_after_hand = x.leave_after_hand /\ y.committed = x.committed
    /\ ~y.acted /\ y.street_bet = 0

LEMMA FreshStreetFields ==
    ASSUME NEW s \in SharedState
    PROVE  LET t == FreshStreet(s) IN
           /\ t.phase = s.phase /\ t.active_seat = s.active_seat
           /\ t.current_bet = 0
           /\ t.pending_blinds = s.pending_blinds
           /\ t.due = s.due /\ t.settlement_pending = s.settlement_pending
           /\ t.deadline = s.deadline /\ t.countdown_seat = s.countdown_seat
           /\ t.timer_task = s.timer_task
           /\ \A j \in Seats : FreshSeat(s.seat[j], t.seat[j])
<1> DEFINE new(j) == [s.seat[j] EXCEPT !.acted = FALSE, !.street_bet = 0]
           seats == [j \in Seats |-> new(j)]
           t == [s EXCEPT !.seat = seats, !.current_bet = 0, !.min_raise = BIG_BLIND]
<1>1. ASSUME NEW j \in Seats PROVE FreshSeat(s.seat[j], new(j))
  <2>1. s.seat[j] \in SeatType
    BY SeatIsTyped
  <2> QED
    BY <2>1 DEF FreshSeat, SeatType
<1> HIDE DEF new
<1>2. \A j \in Seats : FreshSeat(s.seat[j], seats[j])
  BY <1>1
<1>3. FreshStreet(s) = t
  BY DEF FreshStreet, new
<1> HIDE DEF seats
<1>4. /\ t.phase = s.phase /\ t.active_seat = s.active_seat
      /\ t.current_bet = 0 /\ t.seat = seats
      /\ t.pending_blinds = s.pending_blinds
      /\ t.due = s.due /\ t.settlement_pending = s.settlement_pending
      /\ t.deadline = s.deadline /\ t.countdown_seat = s.countdown_seat
      /\ t.timer_task = s.timer_task
  BY DEF SharedState
<1> HIDE DEF t
<1> QED
  BY <1>2, <1>3, <1>4

(* Tables whose seats have the same cards have the same players.           *)
LEMMA SamePlayers ==
    ASSUME NEW s, NEW t,
           \A j \in Seats : /\ t.seat[j].user = s.seat[j].user
                            /\ t.seat[j].cards = s.seat[j].cards
                            /\ t.seat[j].folded = s.seat[j].folded
                            /\ t.seat[j].all_in = s.seat[j].all_in
    PROVE  Active(t) = Active(s) /\ Actionable(t) = Actionable(s)
<1>1. Active(t) = Active(s)
  BY DEF Active, Occupied
<1> QED
  BY <1>1 DEF Actionable, Active, Occupied

LEMMA SettleMoves ==
    ASSUME NEW s \in SharedState, NEW c, NEW v \in SharedState, v = Settle(s, c)
    PROVE  Moves(s, v) /\ TurnGood(v)
<1>1. /\ v.phase = "Showdown" /\ v.seat = s.seat
      /\ v.pending_blinds = s.pending_blinds
      /\ v.settlement_pending = (v.due # <<>>) /\ v.deadline = "none"
  BY SettleFields
<1> QED
  BY <1>1 DEF Moves, TurnGood, TimerGood, MovedSeat, PhaseMoves, DueMoves, RoundActive, HandRuns,
              ActionPhases

(* The five ways in which the turn moves on.                               *)
LEMMA AdvanceMoves ==
    ASSUME NEW s \in SharedState, NEW i \in Seats, s.phase # "PostingBlinds",
           NEW t, t = AdvanceAfterAction(s, i)
    PROVE  Moves(s, t) /\ TurnGood(t)
<1> DEFINE next == [FreshStreet(s) EXCEPT
                              !.phase = NextStreet[s.phase],
                              !.active_seat = After(s.dealer_button, Actionable(s))]
           pass == [s EXCEPT !.active_seat = After(i, Actionable(s))]
<1>1. t \in SharedState
  BY AdvanceType
<1>2. \/ Active(s) = {} /\ t = AbandonHand(s)
      \/ \E w \in Active(s) : Active(s) = {w} /\ t = FinishByFold(s, w)
      \/ t = FinishShowdown(s)
      \/ t = FinishShowdown(FreshStreet(s))
      \/ Cardinality(Active(s)) > 1 /\ s.phase \in DOMAIN NextStreet /\ Actionable(s) # {} /\ t = next
      \/ ~HandRuns(s) /\ t = FreshStreet(s)
      \/ Cardinality(Active(s)) > 1 /\ Actionable(s) # {} /\ t = pass
  BY AdvanceOutcomes
<1>3. ASSUME NEW c, NEW v \in SharedState, v = Settle(s, c) PROVE Moves(s, v) /\ TurnGood(v)
  BY <1>3, SettleMoves
<1>4. FreshStreet(s) \in SharedState
      /\ /\ FreshStreet(s).phase = s.phase
         /\ FreshStreet(s).pending_blinds = s.pending_blinds
         /\ FreshStreet(s).due = s.due
         /\ FreshStreet(s).settlement_pending = s.settlement_pending
         /\ FreshStreet(s).deadline = s.deadline /\ FreshStreet(s).timer_task = s.timer_task
         /\ \A j \in Seats : FreshSeat(s.seat[j], FreshStreet(s).seat[j])
  BY FreshStreetType, FreshStreetFields
<1>5. CASE t = AbandonHand(s)
  <2>1. /\ t.phase = "Waiting" /\ t.seat = s.seat
        /\ t.pending_blinds = s.pending_blinds
        /\ t.due = s.due /\ t.settlement_pending = s.settlement_pending /\ t.deadline = "none"
    BY <1>5, AbandonFields
  <2> QED
    BY <1>1, <2>1 DEF Moves, TurnGood, TimerGood, MovedSeat, PhaseMoves, DueMoves, RoundActive, HandRuns, ActionPhases
<1>6. CASE (\E w \in Active(s) : Active(s) = {w} /\ t = FinishByFold(s, w)) \/ t = FinishShowdown(s)
  BY <1>1, <1>3, <1>6 DEF FinishByFold, FinishShowdown
<1>7. CASE t = FinishShowdown(FreshStreet(s))
  <2> DEFINE f == FreshStreet(s)
  <2>1. PICK c : t = Settle(f, c)
    BY <1>7 DEF FinishShowdown
  <2> HIDE DEF f
  <2>2. /\ t.phase = "Showdown" /\ t.seat = f.seat
        /\ t.pending_blinds = f.pending_blinds
        /\ t.settlement_pending = (t.due # <<>>) /\ t.deadline = "none"
    BY <1>4, <2>1, SettleFields DEF f
  <2>3. \A j \in Seats : MovedSeat(s.seat[j], t.seat[j])
    BY <1>4, <2>2 DEF f, MovedSeat, FreshSeat
  <2> QED
    BY <1>1, <1>4, <2>2, <2>3
       DEF f, Moves, TurnGood, TimerGood, PhaseMoves, DueMoves, RoundActive, HandRuns, ActionPhases
<1>8. CASE /\ Cardinality(Active(s)) > 1 /\ s.phase \in DOMAIN NextStreet
           /\ Actionable(s) # {} /\ t = next
  <2> DEFINE f == FreshStreet(s)
             p == NextStreet[s.phase]
             a == After(s.dealer_button, Actionable(s))
  <2>1. a \in Actionable(s)
    BY <1>8, SeatSets, AfterIsThere DEF SharedState
  <2>2. p \in ActionPhases /\ s.phase \in ActionPhases /\ Rank[p] = Rank[s.phase] + 1
    BY <1>8, RankFacts
  <2>3. t = [f EXCEPT !.phase = p, !.active_seat = a]
    BY <1>8
  <2> HIDE DEF f, p, a
  <2>4. f \in SharedState
    BY <1>4 DEF f
  <2>5. /\ t.phase = p /\ t.active_seat = a /\ t.seat = f.seat
        /\ t.pending_blinds = f.pending_blinds
        /\ t.due = f.due /\ t.settlement_pending = f.settlement_pending
        /\ t.deadline = f.deadline /\ t.timer_task = f.timer_task
    BY <2>3, <2>4 DEF SharedState
  <2>6. \A j \in Seats : FreshSeat(s.seat[j], t.seat[j])
    BY <1>4, <2>5 DEF f
  <2>7. Active(t) = Active(s) /\ Actionable(t) = Actionable(s)
    BY <2>6, SamePlayers DEF FreshSeat
  <2>8. TurnGood(t)
    BY <1>8, <2>1, <2>5, <2>7 DEF TurnGood
  <2>9. PhaseMoves(s, t)
    <3>1. Rank[s.phase] \in Int /\ Rank[p] \in Int
      BY <2>2, RankFacts
    <3> QED
      BY <2>2, <2>5, <3>1 DEF PhaseMoves, HandRuns, ActionPhases
  <2> QED
    BY <1>1, <1>4, <2>5, <2>6, <2>8, <2>9 DEF f, Moves, TimerGood, MovedSeat, FreshSeat, DueMoves
<1>9. CASE ~HandRuns(s) /\ t = FreshStreet(s)
  <2> QED
    BY <1>1, <1>4, <1>9 DEF Moves, TurnGood, TimerGood, MovedSeat, FreshSeat, PhaseMoves, DueMoves, HandRuns
<1>10. CASE Cardinality(Active(s)) > 1 /\ Actionable(s) # {} /\ t = pass
  <2> DEFINE a == After(i, Actionable(s))
  <2>1. a \in Actionable(s)
    BY <1>10, SeatSets, AfterIsThere
  <2> HIDE DEF a
  <2>2. /\ t.phase = s.phase /\ t.active_seat = a /\ t.seat = s.seat
        /\ t.pending_blinds = s.pending_blinds
        /\ t.current_bet = s.current_bet /\ t.min_raise = s.min_raise
        /\ t.due = s.due /\ t.settlement_pending = s.settlement_pending
        /\ t.deadline = s.deadline /\ t.timer_task = s.timer_task
    BY <1>10 DEF SharedState, a
  <2>3. Active(t) = Active(s) /\ Actionable(t) = Actionable(s)
    BY <2>2 DEF Active, Actionable, Occupied
  <2>4. TurnGood(t)
    BY <1>10, <2>1, <2>2, <2>3 DEF TurnGood
  <2>5. PhaseMoves(s, t)
    <3>1. HandRuns(s) => Rank[s.phase] <= Rank[s.phase]
      BY RankFacts DEF HandRuns
    <3> QED
      BY <2>2, <3>1 DEF PhaseMoves, HandRuns
  <2> QED
    BY <1>1, <2>2, <2>4, <2>5 DEF Moves, TimerGood, MovedSeat, DueMoves
<1> QED
  BY <1>2, <1>5, <1>6, <1>7, <1>8, <1>9, <1>10

-------------------------------------------------------------------------------
(* The inductive invariant.                                                *)
(***************************************************************************)
(* While a hand runs, the deadline is that of the seat whose turn it is,   *)
(* and there is none while the bank holds the commit of that seat.         *)
TurnTimed(s) ==
    HandRuns(s) =>
        (s.seat[s.active_seat].pending = NoCommit <=> s.deadline # "none")
        /\ (s.deadline # "none" => s.countdown_seat = s.active_seat)

(* A seat that waits for a commit waits for one that is on its way.        *)
Awaited(s, tasks) ==
    \A i \in Seats : s.seat[i].pending # NoCommit =>
        \E c \in tasks : c.seat = i /\ c.id = s.seat[i].pending.id

IdsDiffer(tasks) == \A c, d \in tasks : c.id = d.id => c = d

(* Once somebody may leave a hand, only one is dealt: see TurnIsServed.    *)
OneHandToLeave ==
    /\ bounds.leavers = {} \/ bounds.hands <= 1
    /\ bounds.leavers # {} /\ bounds.hands > 0 =>
          settling = {} /\ commits = {} /\ state.phase = "Waiting"
    /\ RoundActive(state) => settling = {}
    /\ bounds.leavers = {} /\ settling # {} => state.settlement_pending
    /\ bounds.leavers = {} => \A x, y \in settling : x = y

(* If nobody leaves, a commit comes back to the turn or the blind it is of. *)
RaiseOf(s, p) == IF p.target > s.current_bet THEN p.target - s.current_bet ELSE 0
Lands(s, c) ==
    /\ s.seat[c.seat].pending.id = c.id /\ s.seat[c.seat].pending.amount = c.amount
    /\ s.seat[c.seat].user = c.user
    /\ RoundActive(s)
    /\ HandRuns(s) =>
          LET x == s.seat[c.seat]
          IN  /\ c.seat = s.active_seat /\ ~x.pending.blind
              /\ x.pending.target = x.street_bet + c.amount
              /\ x.pending.raise <= RaiseOf(s, x.pending)

BlindsCounted(s, tasks) == s.phase = "PostingBlinds" => s.pending_blinds = Cardinality(tasks)

(* Bets of earlier streets and of the street that is played.               *)
Closed(s, i) == s.seat[i].committed - IF HandRuns(s) THEN s.seat[i].street_bet ELSE 0
EvenBets(s) ==
    \A i \in Actionable(s), j \in Active(s) :
        Closed(s, j) <= Closed(s, i) /\ (j \in Actionable(s) => Closed(s, j) = Closed(s, i))
BetsGood(s) ==
    /\ HandRuns(s) => \A j \in Active(s) : s.seat[j].street_bet <= s.current_bet
    /\ HandRuns(s) \/ s.phase = "Showdown" => EvenBets(s)
    /\ s.phase = "PostingBlinds" => \A j \in Seats : s.seat[j].committed = s.seat[j].street_bet

TableInv ==
    /\ TypeOK /\ IsFiniteSet(commits) /\ \A task \in settling : IsFiniteSet(task.done)
    /\ TurnGood(state) /\ TimerGood(state) /\ TurnTimed(state)
    /\ Awaited(state, commits) /\ IdsDiffer(commits)
    /\ OneHandToLeave
    /\ bounds.leavers = {} =>
          /\ \A c \in commits : Lands(state, c)
          /\ BlindsCounted(state, commits) /\ BetsGood(state)

LEMMA BetTypes ==
    ASSUME NEW s \in SharedState
    PROVE  /\ s.current_bet \in Nat /\ s.min_raise \in Nat
           /\ \A j \in Seats : s.seat[j].committed \in Nat /\ s.seat[j].street_bet \in Nat
BY SeatIsTyped DEF SharedState, SeatType

(* Fewer players, and the same bets.                                       *)
LEMMA FewerBets ==
    ASSUME NEW s \in SharedState, NEW t, BetsGood(s), t.phase = s.phase,
           t.current_bet = s.current_bet,
           Active(t) \subseteq Active(s), Actionable(t) \subseteq Actionable(s),
           \A j \in Active(t) : /\ t.seat[j].committed = s.seat[j].committed
                                /\ t.seat[j].street_bet = s.seat[j].street_bet,
           s.phase = "PostingBlinds" =>
               \A j \in Seats : t.seat[j].committed = t.seat[j].street_bet
    PROVE  BetsGood(t)
<1>1. Active(s) \subseteq Seats /\ Actionable(s) \subseteq Seats
  BY SeatSets
<1>2. \A j \in Active(t) : Closed(t, j) = Closed(s, j)
  BY <1>1 DEF Closed, HandRuns
<1>3. Actionable(t) \subseteq Active(t)
  BY DEF Actionable
<1> QED
  BY <1>1, <1>2, <1>3 DEF BetsGood, EvenBets, HandRuns

LEMMA SameBets ==
    ASSUME NEW s \in SharedState, NEW t, BetsGood(s), t.phase = s.phase,
           t.current_bet = s.current_bet,
           Active(t) \subseteq Active(s), Actionable(t) \subseteq Actionable(s),
           \A j \in Seats : /\ t.seat[j].committed = s.seat[j].committed
                            /\ t.seat[j].street_bet = s.seat[j].street_bet
    PROVE  BetsGood(t)
<1>1. Active(s) \subseteq Seats
  BY SeatSets
<1>2. s.phase = "PostingBlinds" => \A j \in Seats : t.seat[j].committed = t.seat[j].street_bet
  BY DEF BetsGood
<1> QED
  BY <1>1, <1>2, FewerBets

(* The bets of a street that is complete.                                  *)
LEMMA CompleteBets ==
    ASSUME NEW s \in SharedState, BetsGood(s), HandRuns(s), StreetComplete(s)
    PROVE  \A i \in Actionable(s), j \in Active(s) :
              /\ s.seat[j].committed <= s.seat[i].committed
              /\ j \in Actionable(s) => s.seat[j].committed = s.seat[i].committed
<1> SUFFICES ASSUME NEW i \in Actionable(s), NEW j \in Active(s)
             PROVE  /\ s.seat[j].committed <= s.seat[i].committed
                    /\ j \in Actionable(s) => s.seat[j].committed = s.seat[i].committed
  OBVIOUS
<1>1. i \in Active(s) /\ ~s.seat[i].all_in /\ i \in Seats /\ j \in Seats
  BY SeatSets DEF Actionable
<1>2. /\ Closed(s, j) <= Closed(s, i) /\ (j \in Actionable(s) => Closed(s, j) = Closed(s, i))
      /\ s.seat[i].street_bet <= s.current_bet /\ s.seat[j].street_bet <= s.current_bet
  BY <1>1 DEF BetsGood, EvenBets
<1>3. s.seat[i].street_bet >= s.current_bet
      /\ (j \in Actionable(s) => s.seat[j].street_bet >= s.current_bet)
  BY <1>1 DEF StreetComplete, Actionable
<1>4. /\ Closed(s, j) = s.seat[j].committed - s.seat[j].street_bet
      /\ Closed(s, i) = s.seat[i].committed - s.seat[i].street_bet
  BY DEF Closed
<1> DEFINE ci == s.seat[i].committed
           cj == s.seat[j].committed
           bi == s.seat[i].street_bet
           bj == s.seat[j].street_bet
           b == s.current_bet
<1>5. ci \in Nat /\ cj \in Nat /\ bi \in Nat /\ bj \in Nat /\ b \in Nat
  BY <1>1, BetTypes
<1>6. cj - bj <= ci - bi /\ bi <= b /\ bj <= b /\ bi >= b
      /\ (j \in Actionable(s) => cj - bj = ci - bi /\ bj >= b)
  BY <1>2, <1>3, <1>4
<1> HIDE DEF ci, cj, bi, bj, b
<1>7. cj <= ci /\ (j \in Actionable(s) => cj = ci)
  BY <1>5, <1>6
<1> QED
  BY <1>7 DEF ci, cj

LEMMA AdvanceBets ==
    ASSUME NEW s \in SharedState, NEW i \in Seats, HandRuns(s), BetsGood(s),
           NEW t, t = AdvanceAfterAction(s, i)
    PROVE  BetsGood(t)
<1> DEFINE next == [FreshStreet(s) EXCEPT
                              !.phase = NextStreet[s.phase],
                              !.active_seat = After(s.dealer_button, Actionable(s))]
           pass == [s EXCEPT !.active_seat = After(i, Actionable(s))]
<1>1. \/ Active(s) = {} /\ t = AbandonHand(s)
      \/ \E w \in Active(s) : Active(s) = {w} /\ t = FinishByFold(s, w)
      \/ StreetComplete(s) /\ t = FinishShowdown(s)
      \/ StreetComplete(s) /\ t = FinishShowdown(FreshStreet(s))
      \/ StreetComplete(s) /\ s.phase \in DOMAIN NextStreet /\ t = next
      \/ t = pass
  BY AdvanceOutcomes
<1>2. /\ FreshStreet(s) \in SharedState /\ FreshStreet(s).current_bet = 0
      /\ \A j \in Seats : FreshSeat(s.seat[j], FreshStreet(s).seat[j])
  BY FreshStreetType, FreshStreetFields
<1>3. Active(s) \subseteq Seats /\ Actionable(s) \subseteq Active(s)
  BY SeatSets
<1>4. ASSUME NEW f \in SharedState, NEW c, t = Settle(f, c),
             \A j \in Seats : f.seat[j].committed = s.seat[j].committed,
             Active(f) = Active(s), Actionable(f) = Actionable(s),
             StreetComplete(s) \/ \E w \in Active(s) : Active(s) = {w}
      PROVE  BetsGood(t)
  <2>1. t.phase = "Showdown" /\ t.seat = f.seat
    BY <1>4, SettleFields
  <2>2. Active(t) = Active(s) /\ Actionable(t) = Actionable(s) /\ ~HandRuns(t)
    BY <1>4, <2>1 DEF Active, Actionable, Occupied, HandRuns, ActionPhases
  <2>3. \A j \in Active(s) : Closed(t, j) = s.seat[j].committed
    <3>1. \A j \in Active(s) : t.seat[j].committed = s.seat[j].committed
                               /\ s.seat[j].committed \in Nat
      BY <1>3, <1>4, <2>1, BetTypes
    <3> QED
      BY <2>2, <3>1 DEF Closed
  <2>4. EvenBets(t)
    <3>1. CASE StreetComplete(s)
      BY <1>3, <2>2, <2>3, <3>1, CompleteBets DEF EvenBets
    <3>2. CASE \E w \in Active(s) : Active(s) = {w}
      <4>1. \A k, j \in Active(s) : k = j
        BY <3>2
      <4>2. \A j \in Active(s) : s.seat[j].committed \in Nat
        BY <1>3, BetTypes
      <4> QED
        BY <1>3, <2>2, <2>3, <4>1, <4>2 DEF EvenBets
    <3> QED
      BY <1>4, <3>1, <3>2
  <2> QED
    BY <2>1, <2>2, <2>4 DEF BetsGood
<1>5. Active(FreshStreet(s)) = Active(s) /\ Actionable(FreshStreet(s)) = Actionable(s)
      /\ \A j \in Seats : FreshStreet(s).seat[j].committed = s.seat[j].committed
  <2> DEFINE f == FreshStreet(s)
  <2>1. \A j \in Seats : /\ f.seat[j].user = s.seat[j].user
                         /\ f.seat[j].cards = s.seat[j].cards
                         /\ f.seat[j].folded = s.seat[j].folded
                         /\ f.seat[j].all_in = s.seat[j].all_in
                         /\ f.seat[j].committed = s.seat[j].committed
    BY <1>2 DEF FreshSeat
  <2> HIDE DEF f
  <2> QED
    BY <2>1, SamePlayers DEF f
<1>6. CASE t = AbandonHand(s)
  <2>1. t.phase = "Waiting"
    BY <1>6, AbandonFields
  <2> QED
    BY <2>1 DEF BetsGood, HandRuns, ActionPhases
<1>7. CASE \E w \in Active(s) : Active(s) = {w} /\ t = FinishByFold(s, w)
  <2>1. PICK c : t = Settle(s, c)
    BY <1>7 DEF FinishByFold
  <2> QED
    BY <1>4, <1>7, <2>1
<1>8. CASE StreetComplete(s) /\ t = FinishShowdown(s)
  <2>1. PICK c : t = Settle(s, c)
    BY <1>8 DEF FinishShowdown
  <2> QED
    BY <1>4, <1>8, <2>1
<1>9. CASE StreetComplete(s) /\ t = FinishShowdown(FreshStreet(s))
  <2>1. PICK c : t = Settle(FreshStreet(s), c)
    BY <1>9 DEF FinishShowdown
  <2> QED
    BY <1>2, <1>4, <1>5, <1>9, <2>1
<1>10. CASE StreetComplete(s) /\ s.phase \in DOMAIN NextStreet /\ t = next
  <2> DEFINE f == FreshStreet(s)
             p == NextStreet[s.phase]
             a == After(s.dealer_button, Actionable(s))
  <2>1. p \in ActionPhases
    BY <1>10, RankFacts
  <2>2. t = [f EXCEPT !.phase = p, !.active_seat = a]
    BY <1>10
  <2>3. f \in SharedState /\ f.current_bet = 0
    BY <1>2
  <2> HIDE DEF f, p, a
  <2>4. t.phase = p /\ t.seat = f.seat /\ t.current_bet = 0
    BY <2>2, <2>3 DEF SharedState
  <2>5. Active(t) = Active(s) /\ Actionable(t) = Actionable(s)
    BY <1>5, <2>4 DEF f, Active, Actionable, Occupied
  <2>6. \A j \in Active(s) : t.seat[j].street_bet = 0 /\ t.seat[j].committed = s.seat[j].committed
                             /\ s.seat[j].committed \in Nat
    BY <1>2, <1>3, <2>4, BetTypes DEF f, FreshSeat
  <2>7. \A j \in Active(s) : Closed(t, j) = s.seat[j].committed
    BY <2>6 DEF Closed
  <2>8. EvenBets(t)
    BY <1>3, <1>10, <2>5, <2>7, CompleteBets DEF EvenBets
  <2>9. \A j \in Active(t) : t.seat[j].street_bet <= t.current_bet
    BY <2>4, <2>5, <2>6
  <2> QED
    BY <2>1, <2>4, <2>8, <2>9 DEF BetsGood, ActionPhases
<1>11. CASE t = pass
  <2> DEFINE a == After(i, Actionable(s))
  <2> HIDE DEF a
  <2>1. t.phase = s.phase /\ t.seat = s.seat /\ t.current_bet = s.current_bet
    BY <1>11 DEF SharedState, a
  <2>2. Active(t) = Active(s) /\ Actionable(t) = Actionable(s)
    BY <2>1 DEF Active, Actionable, Occupied
  <2> QED
    BY <2>1, <2>2, SameBets
<1> QED
  BY <1>1, <1>6, <1>7, <1>8, <1>9, <1>10, <1>11

-------------------------------------------------------------------------------
(* A turn that is played.                                                  *)
(* The seat that acts, and the table as it is just before the turn moves.  *)
ActedSeat(x, y) ==
    /\ y.user = x.user /\ y.cards = x.cards /\ (x.folded => y.folded) /\ y.acted
    /\ y.all_in = x.all_in /\ y.pending = x.pending
    /\ y.committed = x.committed /\ y.street_bet = x.street_bet

SeatActed(s, t, i) ==
    /\ t \in SharedState /\ SameTurn(s, t)
    /\ ActedSeat(s.seat[i], t.seat[i]) /\ \A j \in Seats \ {i} : t.seat[j] = s.seat[j]

LEMMA ActedMoves ==
    ASSUME NEW s \in SharedState, NEW i \in Seats, s.phase # "PostingBlinds",
           NEW t, SeatActed(s, t, i)
    PROVE  Moves(s, t) /\ (BetsGood(s) => BetsGood(t))
<1>1. \A j \in Seats : MovedSeat(s.seat[j], t.seat[j])
                       /\ t.seat[j].street_bet = s.seat[j].street_bet
                       /\ t.seat[j].committed = s.seat[j].committed
                       /\ (s.seat[j].acted => t.seat[j].acted)
  BY DEF SeatActed, ActedSeat, MovedSeat
<1>2. Active(t) \subseteq Active(s) /\ Actionable(t) \subseteq Actionable(s)
  BY <1>1 DEF Active, Actionable, Occupied, MovedSeat
<1>3. HandRuns(s) => Rank[s.phase] <= Rank[s.phase]
  BY RankFacts DEF HandRuns
<1>4. t.phase = s.phase /\ t.current_bet = s.current_bet /\ t.min_raise = s.min_raise
      /\ t.due = s.due /\ t.settlement_pending = s.settlement_pending
      /\ t.deadline = s.deadline /\ t.timer_task = s.timer_task
      /\ t.pending_blinds = s.pending_blinds /\ t \in SharedState
  BY DEF SeatActed, SameTurn
<1>5. Moves(s, t)
  <2>1. PhaseMoves(s, t)
    BY <1>1, <1>3, <1>4 DEF PhaseMoves, HandRuns
  <2>2. DueMoves(s, t) /\ (TimerGood(s) => TimerGood(t))
    BY <1>4 DEF DueMoves, TimerGood
  <2> QED
    BY <1>1, <1>4, <2>1, <2>2 DEF Moves
<1>6. BetsGood(s) => BetsGood(t)
  BY <1>1, <1>2, <1>4, SameBets
<1> QED
  BY <1>5, <1>6

(* The turn after seat i has acted.                                        *)
Played(s, t) ==
    /\ Moves(s, t) /\ TurnGood(t) /\ (HandRuns(s) /\ BetsGood(s) => BetsGood(t))

LEMMA ActedPlayed ==
    ASSUME NEW s \in SharedState, NEW i \in Seats, s.phase # "PostingBlinds",
           NEW v, SeatActed(s, v, i), NEW t, t = AdvanceAfterAction(v, i)
    PROVE  Played(s, t)
<1>1. Moves(s, v) /\ (BetsGood(s) => BetsGood(v))
  BY ActedMoves
<1>2. v \in SharedState /\ v.phase = s.phase
  BY DEF SeatActed, SameTurn
<1>3. Moves(v, t) /\ TurnGood(t)
  BY <1>2, AdvanceMoves
<1>4. Moves(s, t)
  BY <1>1, <1>3, MovesOn
<1>5. HandRuns(s) /\ BetsGood(s) => BetsGood(t)
  BY <1>1, <1>2, AdvanceBets DEF HandRuns
<1> QED
  BY <1>3, <1>4, <1>5 DEF Played

SeatChanged(s, t, i, x) ==
    /\ t \in SharedState /\ SameTurn(s, t) /\ t.seat[i] = x
    /\ \A j \in Seats \ {i} : t.seat[j] = s.seat[j]

LEMMA SeatBecomesChanged ==
    ASSUME NEW s \in SharedState, NEW i \in Seats, NEW x \in SeatType
    PROVE  SeatChanged(s, SeatBecomes(s, i, x), i, x)
<1> DEFINE seats == [s.seat EXCEPT ![i] = x]
<1>1. seats \in [Seats -> SeatType] /\ seats[i] = x /\ \A j \in Seats \ {i} : seats[j] = s.seat[j]
  BY DEF SharedState
<1>2. SeatBecomes(s, i, x) = SeatsBecome(s, seats)
  BY DEF SeatBecomes, SeatsBecome
<1> HIDE DEF seats
<1>3. /\ SeatsBecome(s, seats) \in SharedState /\ SeatsBecome(s, seats).seat = seats
      /\ SameTurn(s, SeatsBecome(s, seats))
  BY <1>1, SeatsBecomeType, SeatsBecomeFields
<1>4. SeatChanged(s, SeatsBecome(s, seats), i, x)
  BY <1>1, <1>3 DEF SeatChanged
<1> QED
  BY <1>2, <1>4

LEMMA FoldSeatActed ==
    ASSUME NEW s \in SharedState, NEW i \in Seats
    PROVE  SeatActed(s, FoldSeat(s, i), i)
<1> DEFINE x == [s.seat[i] EXCEPT !.folded = TRUE, !.acted = TRUE]
           t == SeatBecomes(s, i, x)
<1>1. x \in SeatType /\ ActedSeat(s.seat[i], x)
  <2>1. s.seat[i] \in SeatType
    BY SeatIsTyped
  <2>2. x \in SeatType
    BY <2>1 DEF SeatType
  <2> QED
    BY <2>1, <2>2 DEF SeatType, ActedSeat
<1>2. FoldSeat(s, i) = t
  BY DEF FoldSeat, SeatBecomes
<1> HIDE DEF x
<1>3. SeatChanged(s, t, i, x)
  BY <1>1, SeatBecomesChanged
<1> HIDE DEF t
<1>4. SeatActed(s, t, i)
  BY <1>1, <1>3 DEF SeatActed, SeatChanged
<1> QED
  BY <1>2, <1>4

LEMMA CheckActed ==
    ASSUME NEW s \in SharedState, NEW i \in Seats
    PROVE  SeatActed(s, [s EXCEPT !.seat[i].acted = TRUE], i)
<1> DEFINE x == [s.seat[i] EXCEPT !.acted = TRUE]
           t == SeatBecomes(s, i, x)
<1>1. x \in SeatType /\ ActedSeat(s.seat[i], x)
  <2>1. s.seat[i] \in SeatType
    BY SeatIsTyped
  <2>2. x \in SeatType
    BY <2>1 DEF SeatType
  <2> QED
    BY <2>1, <2>2 DEF SeatType, ActedSeat
<1>2. [s EXCEPT !.seat[i].acted = TRUE] = t
  BY DEF SeatBecomes
<1> HIDE DEF x
<1>3. SeatChanged(s, t, i, x)
  BY <1>1, SeatBecomesChanged
<1> HIDE DEF t
<1>4. SeatActed(s, t, i)
  BY <1>1, <1>3 DEF SeatActed, SeatChanged
<1> QED
  BY <1>2, <1>4

LEMMA CheckOrFoldPlayed ==
    ASSUME NEW s \in SharedState, NEW i \in Seats, s.phase # "PostingBlinds"
    PROVE  Played(s, CheckOrFold(s, i))
<1> DEFINE checked == [s EXCEPT !.seat[i].acted = TRUE]
           v == IF ToCall(s, i) = 0 THEN checked ELSE FoldSeat(s, i)
<1>1. SeatActed(s, v, i)
  <2>1. SeatActed(s, checked, i) /\ SeatActed(s, FoldSeat(s, i), i)
    BY CheckActed, FoldSeatActed
  <2> HIDE DEF checked
  <2> QED
    BY <2>1
<1>2. CheckOrFold(s, i) = AdvanceAfterAction(v, i)
  BY DEF CheckOrFold
<1> HIDE DEF v
<1> QED
  BY <1>1, <1>2, ActedPlayed

LEMMA ClearedMoves ==
    ASSUME NEW s \in SharedState, s.phase # "PostingBlinds"
    PROVE  /\ Moves(s, ClearCountdown(s)) /\ (BetsGood(s) => BetsGood(ClearCountdown(s)))
           /\ (TurnGood(s) => TurnGood(ClearCountdown(s)))
<1> DEFINE t == ClearCountdown(s)
<1>1. t \in SharedState /\ t.phase = s.phase /\ t.seat = s.seat
      /\ t.active_seat = s.active_seat
      /\ t.current_bet = s.current_bet /\ t.min_raise = s.min_raise
      /\ t.pending_blinds = s.pending_blinds
      /\ t.due = s.due /\ t.settlement_pending = s.settlement_pending
      /\ t.deadline = "none"
  BY ClearCountdownType, ClearCountdownFields
<1> HIDE DEF t
<1>2. HandRuns(s) => Rank[s.phase] <= Rank[s.phase]
  BY RankFacts DEF HandRuns
<1>3. Moves(s, t)
  <2>1. PhaseMoves(s, t)
    BY <1>1, <1>2 DEF PhaseMoves, HandRuns
  <2> QED
    BY <1>1, <2>1 DEF Moves, DueMoves, TimerGood, MovedSeat
<1>4. Active(t) = Active(s) /\ Actionable(t) = Actionable(s)
  BY <1>1 DEF Active, Actionable, Occupied
<1>5. BetsGood(s) => BetsGood(t)
  BY <1>1, <1>4, SameBets
<1>6. TurnGood(s) => TurnGood(t)
  BY <1>1, <1>4 DEF TurnGood, HandRuns
<1> QED
  BY <1>3, <1>5, <1>6 DEF t

(* Of the table and the table on which one automatic turn has been played. *)
AutoPlayed(s, t) ==
    \/ t = s
    \/ HandRuns(s) /\ s.seat[s.active_seat].pending = NoCommit /\ Played(s, t)

LEMMA PlayedOn ==
    ASSUME NEW s \in SharedState, NEW t, NEW v, Played(s, t), Played(t, v), HandRuns(t)
    PROVE  Played(s, v)
<1>1. Moves(s, v)
  BY MovesOn DEF Played
<1> QED
  BY <1>1 DEF Played

LEMMA AutoOnce ==
    ASSUME NEW s \in SharedState
    PROVE  AutoPlayed(s, AutoCheckFoldOnce(s))
<1> DEFINE i == s.active_seat
           c == ClearCountdown(s)
           plays == /\ ~s.settlement_pending /\ HandRuns(s) /\ i \in Actionable(s)
                    /\ s.seat[i].auto_check_fold /\ s.seat[i].pending = NoCommit
<1>1. CASE ~plays
  <2>1. AutoCheckFoldOnce(s) = s
    BY <1>1 DEF AutoCheckFoldOnce
  <2> QED
    BY <2>1 DEF AutoPlayed
<1>2. CASE plays
  <2>1. AutoCheckFoldOnce(s) = CheckOrFold(c, i)
    BY <1>2 DEF AutoCheckFoldOnce
  <2>2. i \in Seats /\ s.phase # "PostingBlinds"
    BY <1>2, SeatSets DEF HandRuns, ActionPhases
  <2>3. c \in SharedState /\ Moves(s, c) /\ (BetsGood(s) => BetsGood(c)) /\ c.phase = s.phase
    BY <2>2, ClearCountdownType, ClearedMoves, ClearCountdownFields
  <2>4. Played(c, CheckOrFold(c, i))
    BY <2>2, <2>3, CheckOrFoldPlayed
  <2>5. Moves(s, CheckOrFold(c, i))
    BY <2>3, <2>4, MovesOn DEF Played
  <2>6. Played(s, CheckOrFold(c, i))
    BY <2>3, <2>4, <2>5 DEF Played, HandRuns
  <2> QED
    BY <1>2, <2>1, <2>6 DEF AutoPlayed
<1> QED
  BY <1>1, <1>2

LEMMA AutoOn ==
    ASSUME NEW s \in SharedState, NEW t \in SharedState, AutoPlayed(s, t),
           NEW v, v = AutoCheckFoldOnce(t)
    PROVE  AutoPlayed(s, v)
<1>1. AutoPlayed(t, v)
  BY AutoOnce
<1>2. CASE t = s \/ v = t
  BY <1>1, <1>2 DEF AutoPlayed
<1>3. CASE t # s /\ v # t
  <2>1. Played(s, t) /\ Played(t, v) /\ HandRuns(t)
    BY <1>1, <1>3 DEF AutoPlayed
  <2>2. Played(s, v)
    BY <2>1, PlayedOn
  <2> QED
    BY <1>3, <2>2 DEF AutoPlayed
<1> QED
  BY <1>2, <1>3

(* The table that is published, of the table t on which the section ends.  *)
PublishedTable(t, p) ==
    /\ p \in SharedState /\ p.due = <<>>
    /\ p.phase = t.phase /\ p.seat = t.seat /\ p.active_seat = t.active_seat
    /\ p.current_bet = t.current_bet /\ p.min_raise = t.min_raise
    /\ p.pending_blinds = t.pending_blinds
    /\ p.settlement_pending = t.settlement_pending
    /\ TimerGood(t) => TimerGood(p)
    /\ p.deadline # "none" <=>
          /\ HandRuns(t) /\ t.active_seat \in Actionable(t)
          /\ t.seat[t.active_seat].pending = NoCommit
    /\ p.deadline # "none" => p.countdown_seat = p.active_seat

LEMMA CountdownFields ==
    ASSUME NEW t \in SharedState
    PROVE  LET x == StartActionCountdownIfNeeded(t) IN
           /\ x.due = t.due /\ PublishedTable(t, [x EXCEPT !.due = <<>>])
<1> DEFINE i == t.active_seat
           x == StartActionCountdownIfNeeded(t)
           y == [x EXCEPT !.due = <<>>]
           needed == HandRuns(t) /\ i \in Actionable(t) /\ t.seat[i].pending = NoCommit
           started == [t EXCEPT !.deadline = "running", !.countdown_seat = i,
                                !.timer_task = TRUE]
<1>1. x \in SharedState
  BY StartCountdownType
<1>2. /\ x.phase = t.phase /\ x.seat = t.seat /\ x.active_seat = t.active_seat
      /\ x.current_bet = t.current_bet /\ x.min_raise = t.min_raise
      /\ x.pending_blinds = t.pending_blinds
      /\ x.settlement_pending = t.settlement_pending /\ x.due = t.due
      /\ TimerGood(t) => TimerGood(x)
      /\ x.deadline # "none" <=> needed
      /\ x.deadline # "none" => x.countdown_seat = i
  <2>1. CASE ~needed
    <3>1. x = ClearCountdown(t)
      BY <2>1 DEF StartActionCountdownIfNeeded
    <3> HIDE DEF x, needed
    <3>2. /\ x.phase = t.phase /\ x.seat = t.seat /\ x.active_seat = t.active_seat
          /\ x.current_bet = t.current_bet /\ x.min_raise = t.min_raise
          /\ x.pending_blinds = t.pending_blinds
          /\ x.due = t.due /\ x.settlement_pending = t.settlement_pending
          /\ x.deadline = "none"
      BY <3>1, ClearCountdownFields
    <3> QED
      BY <2>1, <3>2 DEF TimerGood
  <2>2. CASE needed /\ t.deadline # "none" /\ t.countdown_seat = i
    <3>1. x = t
      BY <2>2 DEF StartActionCountdownIfNeeded
    <3> HIDE DEF x, needed
    <3> QED
      BY <2>2, <3>1
  <2>3. CASE needed /\ ~(t.deadline # "none" /\ t.countdown_seat = i)
    <3>1. x = started
      BY <2>3 DEF StartActionCountdownIfNeeded
    <3> HIDE DEF x, needed
    <3>2. /\ x.phase = t.phase /\ x.seat = t.seat /\ x.active_seat = t.active_seat
          /\ x.current_bet = t.current_bet /\ x.min_raise = t.min_raise
          /\ x.pending_blinds = t.pending_blinds
          /\ x.due = t.due /\ x.settlement_pending = t.settlement_pending
          /\ x.deadline = "running" /\ x.countdown_seat = i /\ x.timer_task
      BY <3>1 DEF SharedState
    <3> QED
      BY <2>3, <3>2 DEF TimerGood
  <2> HIDE DEF needed, x
  <2> QED
    BY <2>1, <2>2, <2>3
<1> HIDE DEF x
<1>3. <<>> \in Seq(Settlement)
  OBVIOUS
<1>4. y \in SharedState
  BY <1>1, <1>3 DEF SharedState
<1>5. /\ y.due = <<>>
      /\ y.phase = x.phase /\ y.seat = x.seat /\ y.active_seat = x.active_seat
      /\ y.current_bet = x.current_bet /\ y.min_raise = x.min_raise
      /\ y.pending_blinds = x.pending_blinds
      /\ y.settlement_pending = x.settlement_pending
      /\ y.deadline = x.deadline /\ y.timer_task = x.timer_task
      /\ y.countdown_seat = x.countdown_seat
  BY <1>1 DEF SharedState
<1> HIDE DEF y
<1>6. PublishedTable(t, y)
  BY <1>2, <1>4, <1>5 DEF PublishedTable, TimerGood
<1> QED
  BY <1>2, <1>6 DEF x, y

LEMMA PublishFacts ==
    ASSUME NEW s \in SharedState, Publish(s)
    PROVE  \E t \in SharedState :
              /\ AutoPlayed(s, t) /\ PublishedTable(t, state')
              /\ settling' = IF t.due = <<>> THEN settling
                             ELSE settling \cup {SettlementTask(t.due)}
<1> DEFINE G == {t \in SharedState : AutoPlayed(s, t)}
<1>1. s \in G
  BY DEF AutoPlayed
<1>2. \A t \in G : AutoCheckFoldOnce(t) \in G
  BY AutoOn, AutoCheckFoldType
<1> HIDE DEF G
<1>3. PICK t \in G :
               /\ state' = [StartActionCountdownIfNeeded(t) EXCEPT !.due = <<>>]
               /\ settling' = IF StartActionCountdownIfNeeded(t).due = <<>> THEN settling
                              ELSE settling \cup
                                   {SettlementTask(StartActionCountdownIfNeeded(t).due)}
  BY <1>1, <1>2, PublishOutcome
<1>4. t \in SharedState /\ AutoPlayed(s, t)
  BY DEF G
<1>5. StartActionCountdownIfNeeded(t).due = t.due /\ PublishedTable(t, state')
  BY <1>3, <1>4, CountdownFields
<1> QED
  BY <1>3, <1>4, <1>5

-------------------------------------------------------------------------------
(* What a publishing section keeps.  Of the table s that it has worked out *)
(* and the commits that it leaves, it is enough to know the following.     *)
(* On a street that goes on, only a full raise lets a seat act again.      *)
Reopened(s, t) ==
    HandRuns(s) /\ HandRuns(t) =>
        /\ Rank[s.phase] <= Rank[t.phase]
        /\ t.phase = s.phase =>
              \A i \in Seats :
                  s.seat[i].acted /\ ~t.seat[i].acted /\ t.seat[i].user = s.seat[i].user
                  => t.current_bet - s.current_bet >= s.min_raise

CommitsGood(tasks) == tasks \subseteq CommitType /\ IsFiniteSet(tasks) /\ IdsDiffer(tasks)

CommitsServed(s, tasks) ==
    /\ \A c \in tasks : Lands(s, c)
    /\ BlindsCounted(s, tasks)

DueUnchanged(s) == s.due = <<>> /\ s.settlement_pending = state.settlement_pending

SectionGood(s, tasks) ==
    /\ s \in SharedState /\ TurnGood(s) /\ TimerGood(s)
    /\ DueMoves(state, s) /\ (RoundActive(s) => RoundActive(state))
    /\ Awaited(s, tasks) /\ CommitsGood(tasks)
    /\ bounds.leavers = {} =>
          /\ CommitsServed(s, tasks) /\ BetsGood(s) /\ Reopened(state, s)
          /\ RoundActive(state) \/ DueUnchanged(s)
    /\ bounds.leavers # {} /\ bounds.hands > 0 =>
          s.phase = "Waiting" /\ DueUnchanged(s) /\ tasks = {}

(* Automatic turns keep that.                                              *)
LEMMA AutoSectionGood ==
    ASSUME NEW s, NEW tasks, SectionGood(s, tasks), NEW t, AutoPlayed(s, t)
    PROVE  SectionGood(t, tasks)
<1>1. CASE t = s
  BY <1>1
<1>2. CASE HandRuns(s) /\ s.seat[s.active_seat].pending = NoCommit /\ Played(s, t)
  <2>1. s \in SharedState /\ RoundActive(s) /\ RoundActive(state)
    BY <1>2 DEF SectionGood, RoundActive
  <2>2. Moves(s, t) /\ t \in SharedState /\ TurnGood(t)
    BY <1>2 DEF Played, Moves
  <2>3. TimerGood(t)
    BY <2>2 DEF Moves, SectionGood
  <2>4. (RoundActive(t) => RoundActive(s)) /\ (HandRuns(t) => HandRuns(s)) /\ ~(t.phase = "PostingBlinds")
    BY <1>2, <2>2 DEF Moves, PhaseMoves, RoundActive
  <2>5. DueMoves(state, t)
    BY <2>2, <2>4 DEF SectionGood, DueMoves, Moves
  <2>6. \A i \in Seats : t.seat[i].pending = s.seat[i].pending
                         /\ t.seat[i].user = s.seat[i].user
    BY <2>2 DEF Moves, MovedSeat
  <2>7. Awaited(t, tasks) /\ CommitsGood(tasks)
    BY <2>6 DEF SectionGood, Awaited
  <2>8. ASSUME bounds.leavers = {}
        PROVE  CommitsServed(t, tasks) /\ BetsGood(t) /\ Reopened(state, t)
    <3>1. tasks = {}
      <4>1. SUFFICES ASSUME NEW c \in tasks PROVE FALSE
        OBVIOUS
      <4>2. Lands(s, c) /\ c.id # 0
        BY <2>8 DEF SectionGood, CommitsServed, CommitsGood, CommitType
      <4> QED
        BY <1>2, <4>2 DEF Lands, NoCommit
    <3>2. CommitsServed(t, tasks)
      BY <2>4, <3>1 DEF CommitsServed, BlindsCounted
    <3>3. BetsGood(t)
      BY <1>2, <2>8 DEF SectionGood, Played
    <3>4. Reopened(state, t)
      <4>1. SUFFICES ASSUME HandRuns(state), HandRuns(t) PROVE Reopened(state, t)
        BY DEF Reopened
      <4>2. /\ HandRuns(s) /\ Rank[state.phase] <= Rank[s.phase] /\ Rank[s.phase] <= Rank[t.phase]
            /\ Rank[state.phase] \in Int /\ Rank[s.phase] \in Int /\ Rank[t.phase] \in Int
        BY <1>2, <2>2, <2>8, <4>1, RankFacts DEF SectionGood, Reopened, Moves, PhaseMoves, HandRuns
      <4>3. t.phase = state.phase => s.phase = state.phase /\ s.phase = t.phase
        BY <4>1, <4>2, RankFacts DEF HandRuns
      <4>4. t.phase = s.phase => /\ t.current_bet = s.current_bet
                                 /\ \A j \in Seats : s.seat[j].acted => t.seat[j].acted
        BY <2>2, <4>2 DEF Moves, PhaseMoves
      <4>5. Reopened(state, s)
        BY <2>8 DEF SectionGood
      <4> QED
        BY <2>6, <4>1, <4>2, <4>3, <4>4, <4>5 DEF Reopened
    <3> QED
      BY <3>2, <3>3, <3>4
  <2>9. ~(bounds.leavers # {} /\ bounds.hands > 0)
    BY <1>2 DEF SectionGood, HandRuns, ActionPhases
  <2> QED
    BY <2>1, <2>2, <2>3, <2>4, <2>5, <2>7, <2>8, <2>9 DEF SectionGood
<1> QED
  BY <1>1, <1>2 DEF AutoPlayed

(* The table that is published of a good one.                              *)
TableGood(s, tasks) ==
    /\ TurnGood(s) /\ TimerGood(s) /\ TurnTimed(s) /\ Awaited(s, tasks)
    /\ bounds.leavers = {} => CommitsServed(s, tasks) /\ BetsGood(s)

LEMMA PublishedGood ==
    ASSUME NEW t, NEW tasks, SectionGood(t, tasks), NEW p, PublishedTable(t, p)
    PROVE  TableGood(p, tasks) /\ (bounds.leavers = {} => Reopened(state, p))
<1>1. /\ p.phase = t.phase /\ p.seat = t.seat /\ p.active_seat = t.active_seat
      /\ p.current_bet = t.current_bet /\ p.min_raise = t.min_raise
      /\ p.pending_blinds = t.pending_blinds
  BY DEF PublishedTable
<1>2. Active(p) = Active(t) /\ Actionable(p) = Actionable(t)
      /\ (HandRuns(p) <=> HandRuns(t)) /\ (RoundActive(p) <=> RoundActive(t))
  BY <1>1 DEF Active, Actionable, Occupied, HandRuns, RoundActive
<1>3. TurnGood(p) /\ TimerGood(p) /\ Awaited(p, tasks)
  BY <1>1, <1>2 DEF SectionGood, TurnGood, PublishedTable, Awaited
<1>4. TurnTimed(p)
  BY <1>1, <1>2, <1>3 DEF TurnGood, TurnTimed, PublishedTable
<1>5. ASSUME bounds.leavers = {}
      PROVE  CommitsServed(p, tasks) /\ BetsGood(p) /\ Reopened(state, p)
  <2>1. CommitsServed(t, tasks) /\ BetsGood(t) /\ Reopened(state, t) /\ t \in SharedState
    BY <1>5 DEF SectionGood
  <2>2. \A c \in tasks : Lands(p, c)
    BY <1>1, <1>2, <2>1 DEF CommitsServed, Lands, RaiseOf
  <2>3. BlindsCounted(p, tasks)
    BY <1>1, <2>1 DEF CommitsServed, BlindsCounted
  <2>4. BetsGood(p)
    BY <1>1, <1>2, <2>1, SameBets
  <2>5. Reopened(state, p)
    BY <1>1, <1>2, <2>1 DEF Reopened
  <2> QED
    BY <2>2, <2>3, <2>4, <2>5 DEF CommitsServed
<1> QED
  BY <1>3, <1>4, <1>5 DEF TableGood

LEMMA PublishOneHand ==
    ASSUME OneHandToLeave, settling \subseteq TaskType,
           \A task \in settling : IsFiniteSet(task.done),
           NEW t, SectionGood(t, commits'), PublishedTable(t, state'),
           settling' = IF t.due = <<>> THEN settling
                       ELSE settling \cup {SettlementTask(t.due)},
           bounds' = bounds, state.due = <<>>
    PROVE  /\ OneHandToLeave' /\ settling' \subseteq TaskType
           /\ \A task \in settling' : IsFiniteSet(task.done)
<1> DEFINE task == SettlementTask(t.due)
<1>1. task \in TaskType /\ IsFiniteSet(task.done)
  <2>1. t.due \in Seq(Settlement)
    BY DEF SectionGood, SharedState
  <2> QED
    BY <2>1, FS_EmptySet DEF SettlementTask, TaskType
<1>2. /\ state'.phase = t.phase /\ state'.settlement_pending = t.settlement_pending
      /\ (RoundActive(state') <=> RoundActive(t)) /\ (RoundActive(t) => RoundActive(state))
  BY DEF PublishedTable, SectionGood, RoundActive, HandRuns
<1>3. DueMoves(state, t)
  BY DEF SectionGood
<1> HIDE DEF task
<1>4. settling' \subseteq TaskType /\ \A x \in settling' : IsFiniteSet(x.done)
  BY <1>1 DEF task
<1>5. CASE t.due = <<>> /\ t.settlement_pending = state.settlement_pending
  BY <1>2, <1>4, <1>5 DEF OneHandToLeave, SectionGood
<1>6. CASE ~(t.due = <<>> /\ t.settlement_pending = state.settlement_pending)
  <2>1. ~RoundActive(t) /\ t.settlement_pending = (t.due # <<>>)
    BY <1>3, <1>6 DEF DueMoves
  <2>2. ~(bounds.leavers # {} /\ bounds.hands > 0)
    BY <1>6 DEF SectionGood, DueUnchanged
  <2>3. bounds.leavers = {} => settling = {}
    BY <1>6 DEF SectionGood, DueUnchanged, OneHandToLeave
  <2> QED
    BY <1>2, <1>4, <2>1, <2>2, <2>3 DEF OneHandToLeave, task
<1> QED
  BY <1>5, <1>6

LEMMA PublishInv ==
    ASSUME TableInv, NEW s, SectionGood(s, commits'), Publish(s),
           UNCHANGED <<syncs, bank, bounds>>, minted' \in Int
    PROVE  TableInv' /\ (bounds.leavers = {} => Reopened(state, state'))
<1>1. PICK t \in SharedState :
              /\ AutoPlayed(s, t) /\ PublishedTable(t, state')
              /\ settling' = IF t.due = <<>> THEN settling
                             ELSE settling \cup {SettlementTask(t.due)}
  <2>1. s \in SharedState
    BY DEF SectionGood
  <2> QED
    BY <2>1, PublishFacts
<1>2. SectionGood(t, commits')
  BY <1>1, AutoSectionGood
<1>3. TableGood(state', commits') /\ (bounds.leavers = {} => Reopened(state, state'))
  BY <1>1, <1>2, PublishedGood
<1>4. /\ OneHandToLeave' /\ settling' \subseteq TaskType
      /\ \A task \in settling' : IsFiniteSet(task.done)
  BY <1>1, <1>2, PublishOneHand DEF TableInv, TypeOK
<1>5. TypeOK'
  <2>1. state' \in SharedState /\ state'.due = <<>>
    BY <1>1 DEF PublishedTable
  <2>2. commits' \subseteq CommitType
    BY DEF SectionGood, CommitsGood
  <2> QED
    BY <1>4, <2>1, <2>2 DEF TypeOK, TableInv
<1>6. IsFiniteSet(commits') /\ IdsDiffer(commits')
  BY DEF SectionGood, CommitsGood
<1> QED
  BY <1>3, <1>4, <1>5, <1>6 DEF TableInv, TableGood, CommitsServed

-------------------------------------------------------------------------------
(* The sections that publish.                                              *)
(* A change that no rule of the hand looks at.                             *)
Quiet(s, t) ==
    t \in SharedState /\ SameTurn(s, t) /\ \A i \in Seats : SameHand(s.seat[i], t.seat[i])

LEMMA QuietFacts ==
    ASSUME NEW s \in SharedState, NEW t, Quiet(s, t), NEW tasks, tasks \subseteq CommitType
    PROVE  /\ TableGood(s, tasks) => TableGood(t, tasks)
           /\ Reopened(s, t)
<1>1. /\ t.phase = s.phase /\ t.active_seat = s.active_seat
      /\ t.current_bet = s.current_bet /\ t.min_raise = s.min_raise
      /\ t.deadline = s.deadline /\ t.countdown_seat = s.countdown_seat
      /\ t.timer_task = s.timer_task /\ t.pending_blinds = s.pending_blinds
  BY DEF Quiet, SameTurn
<1>2. \A i \in Seats : SameHand(s.seat[i], t.seat[i])
  BY DEF Quiet
<1>3. Active(t) = Active(s) /\ Actionable(t) = Actionable(s)
  BY <1>2, SamePlayers DEF SameHand
<1>4. (HandRuns(t) <=> HandRuns(s)) /\ (RoundActive(t) <=> RoundActive(s))
  BY <1>1 DEF HandRuns, RoundActive
<1>5. Reopened(s, t)
  <2>1. HandRuns(s) => Rank[s.phase] <= Rank[s.phase]
    BY RankFacts DEF HandRuns
  <2> QED
    BY <1>1, <1>2, <2>1 DEF Reopened, SameHand
<1>6. ASSUME TableGood(s, tasks) PROVE TableGood(t, tasks)
  <2>1. TurnGood(t) /\ TimerGood(t)
    BY <1>1, <1>3, <1>4, <1>6 DEF TableGood, TurnGood, TimerGood
  <2>2. TurnTimed(t)
    <3>1. HandRuns(s) => s.active_seat \in Seats
      BY <1>6, SeatSets DEF TableGood, TurnGood
    <3> QED
      BY <1>1, <1>2, <1>4, <1>6, <3>1 DEF TableGood, TurnTimed, SameHand
  <2>3. Awaited(t, tasks)
    BY <1>2, <1>6 DEF TableGood, Awaited, SameHand
  <2>4. ASSUME bounds.leavers = {} PROVE CommitsServed(t, tasks) /\ BetsGood(t)
    <3>1. ASSUME NEW c \in tasks PROVE Lands(t, c)
      <4>1. Lands(s, c) /\ c.seat \in Seats
        BY <1>6, <2>4 DEF TableGood, CommitsServed, CommitType
      <4> QED
        BY <1>1, <1>2, <1>4, <4>1 DEF Lands, SameHand, RaiseOf
    <3>2. BlindsCounted(t, tasks)
      BY <1>1, <1>6, <2>4 DEF TableGood, CommitsServed, BlindsCounted
    <3>3. BetsGood(t)
      <4>1. BetsGood(s)
        BY <1>6, <2>4 DEF TableGood
      <4> QED
        BY <1>1, <1>2, <1>3, <4>1, SameBets DEF SameHand
    <3> QED
      BY <3>1, <3>2, <3>3 DEF CommitsServed
  <2> QED
    BY <2>1, <2>2, <2>3, <2>4 DEF TableGood
<1> QED
  BY <1>5, <1>6

LEMMA InvTable == TableInv => /\ state \in SharedState /\ state.due = <<>>
                              /\ TableGood(state, commits) /\ CommitsGood(commits)
                              /\ settling \subseteq TaskType
BY DEF TableInv, TypeOK, TableGood, CommitsGood, CommitsServed

(* A table that differs by nothing that matters is good for a section.     *)
LEMMA GoodSection ==
    ASSUME TableInv, NEW s \in SharedState, NEW tasks,
           TurnGood(s), TimerGood(s), Awaited(s, tasks), CommitsGood(tasks),
           s.phase = state.phase, DueUnchanged(s),
           bounds.leavers = {} => CommitsServed(s, tasks) /\ BetsGood(s) /\ Reopened(state, s),
           bounds.leavers # {} /\ bounds.hands > 0 => tasks = {}
    PROVE  SectionGood(s, tasks)
<1>1. DueMoves(state, s)
  BY InvTable DEF DueMoves, DueUnchanged
<1>2. RoundActive(s) => RoundActive(state)
  BY DEF RoundActive, HandRuns
<1>3. bounds.leavers # {} /\ bounds.hands > 0 => s.phase = "Waiting"
  BY DEF TableInv, OneHandToLeave
<1> QED
  BY <1>1, <1>2, <1>3 DEF SectionGood

LEMMA QuietSection ==
    ASSUME TableInv, NEW s, Quiet(state, s)
    PROVE  SectionGood(s, commits)
<1>1. state \in SharedState /\ state.due = <<>> /\ TableGood(state, commits) /\ CommitsGood(commits)
  BY InvTable
<1>2. TableGood(s, commits) /\ Reopened(state, s)
  BY <1>1, QuietFacts DEF CommitsGood
<1>3. s \in SharedState /\ s.phase = state.phase /\ DueUnchanged(s)
  BY <1>1 DEF Quiet, SameTurn, DueUnchanged
<1>4. bounds.leavers # {} /\ bounds.hands > 0 => commits = {}
  BY DEF TableInv, OneHandToLeave
<1> QED
  BY <1>1, <1>2, <1>3, <1>4, GoodSection DEF TableGood

LEMMA QuietInv ==
    ASSUME TableInv, Quiet(state, state'), UNCHANGED <<commits, settling, bounds>>,
           bank' \in [Users -> Nat], minted' \in Int,
           syncs' \subseteq [user : Users, balance : Nat]
    PROVE  TableInv' /\ (bounds.leavers = {} => Reopened(state, state'))
<1>1. state \in SharedState /\ state.due = <<>> /\ TableGood(state, commits) /\ CommitsGood(commits)
      /\ settling \subseteq TaskType
  BY InvTable
<1>2. TableGood(state', commits) /\ Reopened(state, state')
  BY <1>1, QuietFacts DEF CommitsGood
<1>3. /\ state' \in SharedState /\ state'.due = <<>> /\ state'.phase = state.phase
      /\ state'.settlement_pending = state.settlement_pending
  BY <1>1 DEF Quiet, SameTurn
<1>4. TypeOK'
  BY <1>3 DEF TypeOK, TableInv
<1>5. OneHandToLeave'
  BY <1>3 DEF OneHandToLeave, TableInv, RoundActive, HandRuns
<1> QED
  BY <1>1, <1>2, <1>4, <1>5 DEF TableInv, TableGood, CommitsServed, CommitsGood

(* Seats that are cleared: of those who play, none is.                     *)
Cleared(s, t, gone) ==
    /\ t \in SharedState /\ SameTurn(s, t)
    /\ \A i \in Seats : t.seat[i] = IF i \in gone THEN EmptySeat ELSE s.seat[i]

LEMMA RemoveSeatsCleared ==
    ASSUME NEW s \in SharedState, NEW gone
    PROVE  Cleared(s, RemoveSeats(s, gone), gone)
<1> DEFINE seats == [i \in Seats |-> IF i \in gone THEN EmptySeat ELSE s.seat[i]]
           t == SeatsBecome(s, seats)
           v == [t EXCEPT !.dealer_button = NoSeat]
<1>1. seats \in [Seats -> SeatType]
  BY SeatIsTyped, EmptySeatType
<1>2. RemoveSeats(s, gone) = IF gone # {} /\ Occupied(t) = {} THEN v ELSE t
  BY DEF RemoveSeats, SeatsBecome
<1>3. \A i \in Seats : seats[i] = IF i \in gone THEN EmptySeat ELSE s.seat[i]
  OBVIOUS
<1> HIDE DEF seats
<1>4. t \in SharedState /\ SameTurn(s, t) /\ t.seat = seats
  BY <1>1, SeatsBecomeType, SeatsBecomeFields
<1> HIDE DEF t
<1>5. SameTurn(t, v) /\ v.seat = t.seat
  BY <1>4 DEF SameTurn, SharedState
<1>6. SameTurn(s, v)
  BY <1>4, <1>5 DEF SameTurn
<1> HIDE DEF v
<1>7. RemoveSeats(s, gone) \in SharedState
  BY RemoveSeatsType
<1> QED
  BY <1>2, <1>3, <1>4, <1>5, <1>6, <1>7 DEF Cleared

LEMMA ClearedGood ==
    ASSUME NEW s \in SharedState, NEW gone, NEW t, Cleared(s, t, gone),
           NEW tasks, tasks \subseteq CommitType,
           bounds.leavers = {} =>
               \A i \in gone : i \in Seats => s.seat[i].pending = NoCommit,
           HandRuns(s) => gone \cap Active(s) = {}, s.phase # "PostingBlinds",
           TableGood(s, tasks)
    PROVE  TableGood(t, tasks)
<1>1. /\ t.phase = s.phase /\ t.active_seat = s.active_seat
      /\ t.current_bet = s.current_bet /\ t.min_raise = s.min_raise
      /\ t.deadline = s.deadline /\ t.countdown_seat = s.countdown_seat
      /\ t.timer_task = s.timer_task /\ t.pending_blinds = s.pending_blinds
      /\ \A i \in Seats : t.seat[i] = IF i \in gone THEN EmptySeat ELSE s.seat[i]
  BY DEF Cleared, SameTurn
<1>2. Active(t) = Active(s) \ gone /\ Actionable(t) = Actionable(s) \ gone
  <2>1. Active(t) = Active(s) \ gone
    BY <1>1 DEF Active, Occupied, EmptySeat
  <2> QED
    BY <1>1, <2>1, SeatSets DEF Actionable
<1>3. (HandRuns(t) <=> HandRuns(s)) /\ (RoundActive(t) <=> RoundActive(s))
  BY <1>1 DEF HandRuns, RoundActive
<1>4. HandRuns(s) => Active(t) = Active(s) /\ Actionable(t) = Actionable(s)
  BY <1>2 DEF Actionable
<1>5. TurnGood(t) /\ TimerGood(t)
  BY <1>1, <1>3, <1>4 DEF TableGood, TurnGood, TimerGood
<1>6. TurnTimed(t)
  <2>1. HandRuns(s) => s.active_seat \in Seats /\ s.active_seat \notin gone
    BY SeatSets DEF TableGood, TurnGood, Actionable
  <2> QED
    BY <1>1, <1>3, <2>1 DEF TableGood, TurnTimed
<1>7. Awaited(t, tasks)
  BY <1>1 DEF TableGood, Awaited, EmptySeat
<1>8. ASSUME bounds.leavers = {} PROVE CommitsServed(t, tasks) /\ BetsGood(t)
  <2>1. CommitsServed(s, tasks) /\ BetsGood(s)
    BY <1>8 DEF TableGood
  <2>2. ASSUME NEW c \in tasks PROVE Lands(t, c)
    <3>1. Lands(s, c) /\ c.seat \in Seats /\ c.id # 0
      BY <2>1 DEF CommitsServed, CommitType
    <3>2. c.seat \notin gone
      BY <1>8, <3>1 DEF Lands, NoCommit
    <3> QED
      BY <1>1, <1>3, <3>1, <3>2 DEF Lands, RaiseOf
  <2>3. BlindsCounted(t, tasks)
    BY <1>1, <2>1 DEF CommitsServed, BlindsCounted
  <2>4. BetsGood(t)
    <3>1. Active(t) \subseteq Active(s) /\ Actionable(t) \subseteq Actionable(s)
      BY <1>2
    <3>2. \A j \in Active(t) : t.seat[j] = s.seat[j]
      BY <1>1, <1>2, SeatSets
    <3> QED
      BY <1>1, <2>1, <3>1, <3>2, FewerBets
  <2> QED
    BY <2>2, <2>3, <2>4 DEF CommitsServed
<1> QED
  BY <1>5, <1>6, <1>7, <1>8 DEF TableGood

LEMMA LeaveTableSection ==
    ASSUME TableInv, NEW u \in Users, NEW i \in Seats,
           state.seat[i].user = u, MayLeave(i), ~(HandRuns(state) /\ state.seat[i].cards > 0)
    PROVE  SectionGood(RemoveSeats(state, {i}), commits)
<1> DEFINE gone == {i}
           s == RemoveSeats(state, gone)
<1>1. state \in SharedState /\ state.due = <<>> /\ TableGood(state, commits) /\ CommitsGood(commits)
  BY InvTable
<1>2. Cleared(state, s, gone)
  BY <1>1, RemoveSeatsCleared
<1>3. TableGood(s, commits)
  <2>1. \A j \in gone : state.seat[j].pending = NoCommit
    BY DEF MayLeave
  <2>2. HandRuns(state) => gone \cap Active(state) = {}
    BY DEF Active
  <2>3. state.phase # "PostingBlinds"
    BY DEF MayLeave
  <2> HIDE DEF s, gone
  <2> QED
    BY <1>1, <1>2, <2>1, <2>2, <2>3, ClearedGood DEF CommitsGood
<1> HIDE DEF s
<1>4. s \in SharedState /\ s.phase = state.phase /\ DueUnchanged(s)
  BY <1>1, <1>2 DEF Cleared, SameTurn, DueUnchanged
<1>5. Reopened(state, s)
  <2>1. HandRuns(state) => Rank[state.phase] <= Rank[state.phase]
    BY RankFacts DEF HandRuns
  <2>2. s.seat[i].user # state.seat[i].user /\ \A j \in Seats \ {i} : s.seat[j] = state.seat[j]
    BY <1>2, PokerAssumption DEF Cleared, EmptySeat
  <2> QED
    BY <1>4, <2>1, <2>2 DEF Reopened
<1>6. bounds.leavers # {} /\ bounds.hands > 0 => commits = {}
  BY DEF TableInv, OneHandToLeave
<1>7. SectionGood(s, commits)
  BY <1>1, <1>3, <1>4, <1>5, <1>6, GoodSection DEF TableGood
<1> QED
  BY <1>7 DEF s

-------------------------------------------------------------------------------
(* A turn that is played or that its deadline ends.                        *)
(* A table whose countdown is stopped, and otherwise nothing that matters. *)
Rested(s, t) ==
    /\ t \in SharedState /\ t.phase = s.phase /\ t.active_seat = s.active_seat
    /\ t.current_bet = s.current_bet /\ t.min_raise = s.min_raise
    /\ t.due = s.due /\ t.settlement_pending = s.settlement_pending
    /\ t.pending_blinds = s.pending_blinds /\ t.deadline = "none"
    /\ \A i \in Seats : SameHand(s.seat[i], t.seat[i])

LEMMA RecordedRested ==
    ASSUME NEW s \in SharedState, NEW i \in Seats, NEW t, t = RecordManualAction(s, i)
    PROVE  Rested(s, t)
<1> DEFINE c == ClearCountdown(s)
           x == [c.seat[i] EXCEPT !.missed_actions = 0]
           v == SeatBecomes(c, i, x)
<1>1. /\ c \in SharedState /\ c.seat = s.seat /\ c.phase = s.phase
      /\ c.active_seat = s.active_seat /\ c.deadline = "none"
      /\ c.current_bet = s.current_bet /\ c.min_raise = s.min_raise
      /\ c.due = s.due /\ c.settlement_pending = s.settlement_pending
      /\ c.pending_blinds = s.pending_blinds
  BY ClearCountdownType, ClearCountdownFields
<1>2. t = RecordActivity(v, s.seat[i].user)
  BY DEF RecordManualAction, SeatBecomes
<1> HIDE DEF c
<1>3. x \in SeatType /\ SameHand(c.seat[i], x)
  BY <1>1, SeatIsTyped, PokerAssumption DEF SeatType, SameHand
<1> HIDE DEF x
<1>4. SeatChanged(c, v, i, x)
  BY <1>1, <1>3, SeatBecomesChanged
<1> HIDE DEF v
<1>5. v \in SharedState /\ SameTurn(c, v) /\ \A j \in Seats : SameHand(c.seat[j], v.seat[j])
  BY <1>3, <1>4 DEF SeatChanged, SameHand
<1> DEFINE r == RecordActivity(v, s.seat[i].user)
<1>6. r \in SharedState /\ SameTurn(v, r) /\ \A j \in Seats : SameHand(v.seat[j], r.seat[j])
  BY <1>5, RecordActivityType, RecordActivityFields
<1>7. t = r
  BY <1>2
<1> HIDE DEF r
<1>8. \A j \in Seats : SameHand(s.seat[j], t.seat[j])
  BY <1>1, <1>5, <1>6, <1>7 DEF SameHand
<1> QED
  BY <1>1, <1>5, <1>6, <1>7, <1>8 DEF Rested, SameTurn

LEMMA RestedFacts ==
    ASSUME NEW s \in SharedState, s.phase # "PostingBlinds", NEW t, Rested(s, t)
    PROVE  /\ Moves(s, t) /\ (BetsGood(s) => BetsGood(t))
           /\ Active(t) = Active(s) /\ Actionable(t) = Actionable(s)
<1>1. Active(t) = Active(s) /\ Actionable(t) = Actionable(s)
  BY SamePlayers DEF Rested, SameHand
<1>2. HandRuns(s) => Rank[s.phase] <= Rank[s.phase]
  BY RankFacts DEF HandRuns
<1>3. Moves(s, t)
  <2>1. PhaseMoves(s, t)
    BY <1>2 DEF PhaseMoves, Rested, SameHand, HandRuns
  <2> QED
    BY <2>1 DEF Moves, Rested, SameHand, MovedSeat, DueMoves, TimerGood
<1>4. BetsGood(s) => BetsGood(t)
  BY <1>1, SameBets DEF Rested, SameHand
<1> QED
  BY <1>1, <1>3, <1>4

(* If nobody leaves, a seat whose turn it is and that has not committed    *)
(* chips is all the table waits for.                                       *)
LEMMA TurnAlone ==
    ASSUME TableInv, HandRuns(state), bounds.leavers = {},
           state.seat[state.active_seat].pending = NoCommit
    PROVE  commits = {}
<1>1. SUFFICES ASSUME NEW c \in commits PROVE FALSE
  OBVIOUS
<1>2. Lands(state, c) /\ c.id # 0
  BY DEF TableInv, TypeOK, CommitType
<1> QED
  BY <1>2 DEF Lands, NoCommit

LEMMA PlayedSection ==
    ASSUME TableInv, HandRuns(state), NEW s, Moves(state, s), TurnGood(s),
           bounds.leavers = {} => commits = {} /\ BetsGood(s)
    PROVE  SectionGood(s, commits)
<1>1. state \in SharedState /\ state.due = <<>> /\ TableGood(state, commits) /\ CommitsGood(commits)
  BY InvTable
<1>2. s \in SharedState /\ TimerGood(s) /\ DueMoves(state, s) /\ PhaseMoves(state, s)
  BY <1>1 DEF Moves, TableGood
<1>3. RoundActive(state) /\ state.phase # "Waiting"
  BY DEF RoundActive, HandRuns, ActionPhases
<1>4. \A i \in Seats : s.seat[i].pending = state.seat[i].pending
                       /\ s.seat[i].user = state.seat[i].user
  BY DEF Moves, MovedSeat
<1>5. Awaited(s, commits)
  BY <1>1, <1>4 DEF TableGood, Awaited
<1>6. ASSUME bounds.leavers = {}
      PROVE  CommitsServed(s, commits) /\ BetsGood(s) /\ Reopened(state, s)
  <2>1. CommitsServed(s, commits)
    BY <1>2, <1>6 DEF CommitsServed, BlindsCounted, PhaseMoves
  <2>2. Reopened(state, s)
    BY <1>2 DEF Reopened, PhaseMoves
  <2> QED
    BY <1>6, <2>1, <2>2
<1>7. ~(bounds.leavers # {} /\ bounds.hands > 0)
  BY <1>3 DEF TableInv, OneHandToLeave
<1> QED
  BY <1>1, <1>2, <1>3, <1>5, <1>6, <1>7 DEF SectionGood

LEMMA PlayedTurn ==
    ASSUME TableInv, HandRuns(state), state.seat[state.active_seat].pending = NoCommit,
           NEW r, Rested(state, r), NEW s, Played(r, s)
    PROVE  SectionGood(s, commits)
<1>1. state \in SharedState /\ state.phase # "PostingBlinds"
  BY InvTable DEF HandRuns, ActionPhases
<1>2. Moves(state, r) /\ (BetsGood(state) => BetsGood(r))
  BY <1>1, RestedFacts
<1>3. Moves(state, s)
  BY <1>1, <1>2, MovesOn DEF Played, Rested
<1>4. HandRuns(r)
  BY DEF Rested, HandRuns
<1>5. TurnGood(s) /\ (BetsGood(state) => BetsGood(s))
  BY <1>2, <1>4 DEF Played
<1>6. bounds.leavers = {} => commits = {} /\ BetsGood(s)
  BY <1>5, TurnAlone DEF TableInv
<1> QED
  BY <1>3, <1>5, <1>6, PlayedSection

LEMMA CheckSection ==
    ASSUME TableInv, NEW u \in Users, NEW i \in Seats, MayAct(u, i)
    PROVE  SectionGood(AdvanceAfterAction(
               [RecordManualAction(state, i) EXCEPT !.seat[i].acted = TRUE], i), commits)
<1> DEFINE r == RecordManualAction(state, i)
           v == [r EXCEPT !.seat[i].acted = TRUE]
           s == AdvanceAfterAction(v, i)
<1>1. state \in SharedState /\ HandRuns(state) /\ state.active_seat = i
      /\ state.seat[i].pending = NoCommit
  BY InvTable DEF MayAct
<1>2. Rested(state, r)
  BY <1>1, RecordedRested
<1> HIDE DEF r
<1>3. r \in SharedState /\ r.phase # "PostingBlinds"
  BY <1>1, <1>2 DEF Rested, HandRuns, ActionPhases
<1>4. SeatActed(r, v, i)
  BY <1>3, CheckActed
<1> HIDE DEF v
<1>5. Played(r, s)
  BY <1>3, <1>4, ActedPlayed
<1> HIDE DEF s
<1>6. SectionGood(s, commits)
  BY <1>1, <1>2, <1>5, PlayedTurn
<1> QED
  BY <1>6 DEF s, v, r

LEMMA FoldSection ==
    ASSUME TableInv, NEW u \in Users, NEW i \in Seats, MayAct(u, i)
    PROVE  SectionGood(AdvanceAfterAction(FoldSeat(RecordManualAction(state, i), i), i), commits)
<1> DEFINE r == RecordManualAction(state, i)
           v == FoldSeat(r, i)
           s == AdvanceAfterAction(v, i)
<1>1. state \in SharedState /\ HandRuns(state) /\ state.active_seat = i
      /\ state.seat[i].pending = NoCommit
  BY InvTable DEF MayAct
<1>2. Rested(state, r)
  BY <1>1, RecordedRested
<1> HIDE DEF r
<1>3. r \in SharedState /\ r.phase # "PostingBlinds"
  BY <1>1, <1>2 DEF Rested, HandRuns, ActionPhases
<1>4. SeatActed(r, v, i)
  BY <1>3, FoldSeatActed
<1> HIDE DEF v
<1>5. Played(r, s)
  BY <1>3, <1>4, ActedPlayed
<1> HIDE DEF s
<1>6. SectionGood(s, commits)
  BY <1>1, <1>2, <1>5, PlayedTurn
<1> QED
  BY <1>6 DEF s, v, r

(* A deadline that has passed is that of the seat whose turn it is, and no *)
(* commit of that seat is with the bank.                                   *)
LEMMA TimeoutSection ==
    ASSUME TableInv, HandRuns(state), state.deadline = "due",
           NEW i, i = state.active_seat, i = state.countdown_seat,
           NEW missed \in 0 .. MAX_MISSED_ACTIONS, NEW leaves \in BOOLEAN
    PROVE  SectionGood(CheckOrFold(
               [ClearCountdown(state) EXCEPT
                   !.seat[i] = [@ EXCEPT !.missed_actions = missed,
                                         !.leave_after_hand = leaves]], i), commits)
<1> DEFINE c == ClearCountdown(state)
           x == [c.seat[i] EXCEPT !.missed_actions = missed, !.leave_after_hand = leaves]
           r == SeatBecomes(c, i, x)
           s == CheckOrFold(r, i)
<1>1. state \in SharedState /\ i \in Seats /\ state.seat[i].pending = NoCommit
  BY InvTable, SeatSets DEF TableGood, TurnGood, TurnTimed
<1>2. /\ c \in SharedState /\ c.seat = state.seat /\ c.phase = state.phase
      /\ c.active_seat = state.active_seat /\ c.deadline = "none"
      /\ c.current_bet = state.current_bet /\ c.min_raise = state.min_raise
      /\ c.due = state.due /\ c.settlement_pending = state.settlement_pending
      /\ c.pending_blinds = state.pending_blinds
  BY <1>1, ClearCountdownType, ClearCountdownFields
<1> HIDE DEF c
<1>3. x \in SeatType /\ SameHand(c.seat[i], x)
  <2>1. c.seat[i] \in SeatType
    BY <1>1, <1>2, SeatIsTyped
  <2> QED
    BY <2>1 DEF SeatType, SameHand
<1>4. r = [c EXCEPT !.seat[i] = [@ EXCEPT !.missed_actions = missed,
                                          !.leave_after_hand = leaves]]
  BY DEF SeatBecomes
<1> HIDE DEF x
<1>5. SeatChanged(c, r, i, x)
  BY <1>1, <1>2, <1>3, SeatBecomesChanged
<1> HIDE DEF r
<1>6. r \in SharedState /\ SameTurn(c, r) /\ \A j \in Seats : SameHand(c.seat[j], r.seat[j])
  BY <1>3, <1>5 DEF SeatChanged, SameHand
<1>7. Rested(state, r)
  BY <1>2, <1>6 DEF Rested, SameTurn
<1>8. Played(r, s)
  <2>1. r.phase # "PostingBlinds"
    BY <1>7 DEF Rested, HandRuns, ActionPhases
  <2> QED
    BY <1>1, <1>6, <2>1, CheckOrFoldPlayed
<1> HIDE DEF s
<1>9. SectionGood(s, commits)
  BY <1>1, <1>7, <1>8, PlayedTurn
<1> QED
  BY <1>4, <1>9 DEF s, c

LEMMA FoldAndLeaveMoves ==
    ASSUME NEW s \in SharedState, NEW i \in Seats, HandRuns(s),
           NEW t, t = FoldAndLeave(s, i)
    PROVE  Moves(s, t) /\ (TurnGood(s) => TurnGood(t))
<1> DEFINE f == FoldSeat(s, i)
           x == [f.seat[i] EXCEPT !.leave_after_hand = TRUE]
           v == SeatBecomes(f, i, x)
<1>1. t \in SharedState /\ s.phase # "PostingBlinds"
  BY FoldAndLeaveType DEF HandRuns, ActionPhases
<1>2. SeatActed(s, f, i)
  BY FoldSeatActed
<1>3. \/ s.active_seat = i /\ t = AdvanceAfterAction(v, i)
      \/ /\ s.active_seat # i /\ Cardinality(Active(v)) = 1
         /\ t = FinishByFold(v, CHOOSE w \in Active(v) : TRUE)
      \/ s.active_seat # i /\ Cardinality(Active(v)) # 1 /\ t = v
  BY DEF FoldAndLeave, SeatBecomes
<1> HIDE DEF f
<1>4. f \in SharedState
  BY <1>2 DEF SeatActed
<1>5. x \in SeatType /\ ActedSeat(s.seat[i], x)
  <2>1. ActedSeat(s.seat[i], f.seat[i])
    BY <1>2 DEF SeatActed
  <2>2. f.seat[i] \in SeatType
    BY <1>4, SeatIsTyped
  <2> QED
    BY <2>1, <2>2 DEF SeatType, ActedSeat
<1> HIDE DEF x
<1>6. SeatChanged(f, v, i, x)
  BY <1>4, <1>5, SeatBecomesChanged
<1> HIDE DEF v
<1>7. SeatActed(s, v, i)
  BY <1>2, <1>5, <1>6 DEF SeatChanged, SeatActed, SameTurn
<1>8. Moves(s, v) /\ v \in SharedState
  BY <1>1, <1>7, ActedMoves DEF Moves
<1>9. CASE s.active_seat = i /\ t = AdvanceAfterAction(v, i)
  BY <1>1, <1>7, <1>9, ActedPlayed DEF Played
<1>10. CASE t = FinishByFold(v, CHOOSE w \in Active(v) : TRUE)
  <2>1. PICK c : t = Settle(v, c)
    BY <1>10 DEF FinishByFold
  <2>2. Moves(v, t) /\ TurnGood(t)
    BY <1>1, <1>8, <2>1, SettleMoves
  <2> QED
    BY <1>8, <2>2, MovesOn
<1>11. CASE s.active_seat # i /\ Cardinality(Active(v)) # 1 /\ t = v
  <2> SUFFICES ASSUME TurnGood(s) PROVE TurnGood(t)
    BY <1>8, <1>11
  <2>1. v.active_seat = s.active_seat /\ s.active_seat \in Actionable(s) /\ s.active_seat \in Seats
    BY <1>7, SeatSets DEF TurnGood, SeatActed, SameTurn
  <2>2. v.seat[s.active_seat] = s.seat[s.active_seat]
    BY <1>7, <1>11, <2>1 DEF SeatActed
  <2>3. s.active_seat \in Actionable(v) /\ s.active_seat \in Active(v)
    BY <2>1, <2>2 DEF Actionable, Active, Occupied
  <2>4. IsFiniteSet(Active(v)) /\ Cardinality(Active(v)) \in Nat
    BY <1>8, SeatSets
  <2>5. Cardinality(Active(v)) # 0
    BY <2>3, <2>4, FS_EmptySet
  <2> QED
    BY <1>8, <1>11, <2>1, <2>3, <2>4, <2>5 DEF TurnGood
<1> QED
  BY <1>3, <1>9, <1>10, <1>11

(* Somebody leaves the hand: the table waits for nobody who is gone.       *)
LEMMA FoldAndLeaveSection ==
    ASSUME TableInv, HandRuns(state), bounds.leavers # {}, NEW i \in Seats,
           NEW v, Quiet(state, v), NEW s, s = FoldAndLeave(v, i)
    PROVE  SectionGood(s, commits)
<1>1. state \in SharedState /\ TableGood(state, commits) /\ CommitsGood(commits)
  BY InvTable
<1>2. v \in SharedState /\ HandRuns(v) /\ Moves(state, v) /\ TurnGood(v)
  <2>1. TableGood(v, commits) /\ v \in SharedState /\ SameTurn(state, v)
    BY <1>1, QuietFacts DEF CommitsGood, Quiet
  <2>2. HandRuns(state) => Rank[state.phase] <= Rank[state.phase]
    BY RankFacts DEF HandRuns
  <2>3. PhaseMoves(state, v)
    BY <2>1, <2>2 DEF PhaseMoves, HandRuns, ActionPhases, Quiet, SameTurn, SameHand
  <2>4. Moves(state, v)
    BY <2>1, <2>3 DEF Moves, Quiet, SameTurn, SameHand, MovedSeat, DueMoves, TimerGood
  <2> QED
    BY <2>1, <2>4 DEF TableGood, SameTurn, HandRuns
<1>3. Moves(v, s) /\ TurnGood(s)
  BY <1>2, FoldAndLeaveMoves
<1>4. Moves(state, s)
  BY <1>1, <1>2, <1>3, MovesOn
<1> QED
  BY <1>3, <1>4, PlayedSection

(* A kick that clears a seat between two hands.                            *)
LEMMA KickSection ==
    ASSUME TableInv, NEW i \in Seats, state.phase \in {"Waiting", "Showdown"},
           bounds.leavers # {}
    PROVE  SectionGood(RemoveSeats(state, {i}), commits)
<1> DEFINE gone == {i}
           s == RemoveSeats(state, gone)
<1>1. state \in SharedState /\ state.due = <<>> /\ TableGood(state, commits) /\ CommitsGood(commits)
  BY InvTable
<1>2. Cleared(state, s, gone)
  BY <1>1, RemoveSeatsCleared
<1> HIDE DEF s
<1>3. s \in SharedState /\ s.phase = state.phase /\ DueUnchanged(s) /\ ~HandRuns(s)
      /\ s.deadline = state.deadline /\ s.timer_task = state.timer_task
  BY <1>1, <1>2 DEF Cleared, SameTurn, DueUnchanged, HandRuns, ActionPhases
<1>4. TurnGood(s) /\ TimerGood(s)
  BY <1>1, <1>3 DEF TurnGood, TimerGood, TableGood
<1>5. Awaited(s, commits)
  BY <1>1, <1>2 DEF Cleared, Awaited, TableGood, EmptySeat
<1>6. bounds.leavers # {} /\ bounds.hands > 0 => commits = {}
  BY DEF TableInv, OneHandToLeave
<1>7. SectionGood(s, commits)
  BY <1>1, <1>3, <1>4, <1>5, <1>6, GoodSection
<1> QED
  BY <1>7 DEF s

(* Input that moves nothing.                                               *)
LEMMA RecordedQuiet ==
    ASSUME NEW s \in SharedState, NEW u
    PROVE  Quiet(s, RecordActivity(s, u))
BY RecordActivityType, RecordActivityFields DEF Quiet

LEMMA QuietOn ==
    ASSUME NEW s, NEW t, NEW v, Quiet(s, t), Quiet(t, v)
    PROVE  Quiet(s, v)
BY DEF Quiet, SameTurn, SameHand

LEMMA ToggledQuiet ==
    ASSUME NEW s \in SharedState, NEW i \in Seats
    PROVE  Quiet(s, [s EXCEPT !.seat[i].auto_check_fold = ~@])
<1> DEFINE x == [s.seat[i] EXCEPT !.auto_check_fold = ~@]
           t == SeatBecomes(s, i, x)
<1>1. x \in SeatType /\ SameHand(s.seat[i], x)
  <2>1. s.seat[i] \in SeatType
    BY SeatIsTyped
  <2>2. x \in SeatType
    BY <2>1 DEF SeatType
  <2> QED
    BY <2>1, <2>2 DEF SeatType, SameHand
<1>2. [s EXCEPT !.seat[i].auto_check_fold = ~@] = t
  BY DEF SeatBecomes
<1> HIDE DEF x
<1>3. SeatChanged(s, t, i, x)
  BY <1>1, SeatBecomesChanged
<1> HIDE DEF t
<1>4. Quiet(s, t)
  BY <1>1, <1>3 DEF SeatChanged, Quiet, SameHand
<1> QED
  BY <1>2, <1>4

LEMMA WakesQuiet ==
    ASSUME NEW s \in SharedState, NEW i \in Seats
    PROVE  Quiet(s, Wakes(s, i))
<1> DEFINE x == [s.seat[i] EXCEPT !.armed = FALSE]
           t == SeatBecomes(s, i, x)
<1>1. x \in SeatType /\ SameHand(s.seat[i], x)
  <2>1. s.seat[i] \in SeatType
    BY SeatIsTyped
  <2>2. x \in SeatType
    BY <2>1 DEF SeatType
  <2> QED
    BY <2>1, <2>2 DEF SeatType, SameHand
<1>2. Wakes(s, i) = t
  BY DEF SeatBecomes, Wakes
<1> HIDE DEF x
<1>3. SeatChanged(s, t, i, x)
  BY <1>1, SeatBecomesChanged
<1> HIDE DEF t
<1>4. Quiet(s, t)
  BY <1>1, <1>3 DEF SeatChanged, Quiet, SameHand
<1> QED
  BY <1>2, <1>4

-------------------------------------------------------------------------------
(* A commit is asked for, and answered.                                    *)
LEMMA AskedSection ==
    ASSUME TableInv, HandRuns(state), NEW i \in Seats, i = state.active_seat,
           state.seat[i].pending = NoCommit,
           NEW r, Rested(state, r), NEW p, p # NoCommit, ~p.blind,
           p.amount \in Nat \ {0}, p.target = state.seat[i].street_bet + p.amount,
           p.raise <= RaiseOf(state, p), p.id \in Nat \ {0}, \A d \in commits : d.id # p.id,
           NEW t, CommitMade(r, t, i, p),
           NEW c, c = NewTask(p.id, t.seat[i].user, i, p.amount)
    PROVE  SectionGood(t, commits \cup {c})
<1> DEFINE tasks == commits \cup {c}
<1>1. state \in SharedState /\ state.due = <<>> /\ TableGood(state, commits) /\ CommitsGood(commits)
  BY InvTable
<1>2. state.phase # "PostingBlinds" /\ state.phase # "Waiting"
  BY DEF HandRuns, ActionPhases
<1>6. t \in SharedState /\ t.phase = state.phase /\ t.active_seat = state.active_seat
      /\ t.current_bet = state.current_bet /\ t.min_raise = state.min_raise
      /\ t.due = state.due /\ t.settlement_pending = state.settlement_pending
      /\ t.pending_blinds = state.pending_blinds /\ t.deadline = "none"
  BY DEF CommitMade, SameTurn, Rested
<1>7. /\ t.seat[i].pending = p
      /\ \A j \in Seats :
            /\ SameButPending(r.seat[j], t.seat[j]) /\ SameHand(state.seat[j], r.seat[j])
            /\ j # i => t.seat[j].pending = state.seat[j].pending
  <2>1. t.seat[i].pending = p /\ SameButPending(r.seat[i], t.seat[i])
        /\ \A j \in Seats \ {i} : t.seat[j] = r.seat[j]
    BY DEF CommitMade
  <2>2. \A j \in Seats : SameHand(state.seat[j], r.seat[j])
    BY DEF Rested
  <2>3. \A j \in Seats : SameButPending(r.seat[j], t.seat[j])
    BY <2>1 DEF SameButPending
  <2>4. \A j \in Seats \ {i} : t.seat[j].pending = state.seat[j].pending
    BY <2>1, <2>2 DEF SameHand
  <2> QED
    BY <2>1, <2>2, <2>3, <2>4
<1>8. \A j \in Seats :
            /\ t.seat[j].user = state.seat[j].user /\ t.seat[j].cards = state.seat[j].cards
            /\ t.seat[j].folded = state.seat[j].folded
            /\ t.seat[j].all_in = state.seat[j].all_in
            /\ t.seat[j].acted = state.seat[j].acted
            /\ t.seat[j].committed = state.seat[j].committed
            /\ t.seat[j].street_bet = state.seat[j].street_bet
  BY <1>7 DEF SameHand, SameButPending
<1>9. Active(t) = Active(state) /\ Actionable(t) = Actionable(state)
  BY <1>8, SamePlayers
<1>10. c \in CommitType
  <2>2. i \in Occupied(state)
    BY <1>1, SeatSets DEF TableGood, TurnGood
  <2>3. t.seat[i].user \in Users
    BY <1>1, <1>8, <2>2, SeatIsTyped DEF Occupied, SeatType
  <2> QED
    BY <2>3, NewTaskType
<1>11. c.id = p.id /\ c.seat = i /\ c.amount = p.amount /\ c.user = t.seat[i].user
  BY DEF NewTask
<1>12. CommitsGood(tasks)
  <2>1. IsFiniteSet(tasks)
    BY <1>1, FS_AddElement DEF CommitsGood
  <2>2. tasks \subseteq CommitType
    BY <1>1, <1>10 DEF CommitsGood
  <2>3. IdsDiffer(tasks)
    BY <1>1, <1>11 DEF CommitsGood, IdsDiffer
  <2> QED
    BY <2>1, <2>2, <2>3 DEF CommitsGood
<1>13. TurnGood(t) /\ TimerGood(t)
  BY <1>1, <1>6, <1>9 DEF TableGood, TurnGood, TimerGood, HandRuns
<1>14. Awaited(t, tasks)
  <2>1. SUFFICES ASSUME NEW j \in Seats, t.seat[j].pending # NoCommit
                 PROVE  \E d \in tasks : d.seat = j /\ d.id = t.seat[j].pending.id
    BY DEF Awaited
  <2>2. CASE j = i
    BY <1>7, <1>11, <2>2
  <2>3. CASE j # i
    BY <1>1, <1>7, <2>1, <2>3 DEF TableGood, Awaited
  <2> QED
    BY <2>2, <2>3
<1>15. ASSUME bounds.leavers = {}
       PROVE  CommitsServed(t, tasks) /\ BetsGood(t) /\ Reopened(state, t)
  <2>1. tasks = {c}
    BY <1>15, TurnAlone
  <2>2. Lands(t, c)
    <3>1. p.target = t.seat[i].street_bet + c.amount
      BY <1>8, <1>11
    <3>2. p.raise <= RaiseOf(t, p)
      BY <1>6 DEF RaiseOf
    <3>3. RoundActive(t)
      BY <1>6 DEF RoundActive, HandRuns
    <3> QED
      BY <1>6, <1>7, <1>11, <3>1, <3>2, <3>3 DEF Lands
  <2>3. CommitsServed(t, tasks)
    BY <1>2, <1>6, <2>1, <2>2 DEF CommitsServed, BlindsCounted
  <2>4. BetsGood(t)
    BY <1>1, <1>6, <1>8, <1>9, <1>15, SameBets DEF TableGood
  <2>5. Reopened(state, t)
    <3>1. Rank[state.phase] <= Rank[state.phase]
      BY RankFacts DEF HandRuns
    <3> QED
      BY <1>6, <1>8, <3>1 DEF Reopened
  <2> QED
    BY <2>3, <2>4, <2>5
<1>16. ~(bounds.leavers # {} /\ bounds.hands > 0)
  BY <1>2 DEF TableInv, OneHandToLeave
<1> HIDE DEF tasks
<1>17. SectionGood(t, tasks)
  BY <1>1, <1>6, <1>12, <1>13, <1>14, <1>15, <1>16, GoodSection DEF DueUnchanged
<1> QED
  BY <1>17 DEF tasks

-------------------------------------------------------------------------------
(* The commits that are left when one is answered.                         *)
LEMMA OthersServed ==
    ASSUME TableInv, NEW c \in commits, Matches(state, c)
    PROVE  /\ CommitsGood(commits \ {c})
           /\ Cardinality(commits) = Cardinality(commits \ {c}) + 1
           /\ Cardinality(commits \ {c}) \in Nat
           /\ (Cardinality(commits \ {c}) = 0 => commits \ {c} = {})
           /\ bounds.leavers = {} => \A d \in commits \ {c} : Lands(state, d) /\ d.seat # c.seat
           /\ bounds.leavers = {} /\ HandRuns(state) => commits \ {c} = {}
           /\ ~(bounds.leavers # {} /\ bounds.hands > 0)
<1> DEFINE others == commits \ {c}
<1>1. IsFiniteSet(commits) /\ IdsDiffer(commits) /\ commits \subseteq CommitType
  BY DEF TableInv, TypeOK
<1>2. IsFiniteSet(others) /\ Cardinality(others) = Cardinality(commits) - 1
  BY <1>1, FS_RemoveElement
<1>3. Cardinality(others) \in Nat /\ Cardinality(commits) \in Nat
      /\ (Cardinality(others) = 0 => others = {})
  BY <1>1, <1>2, FS_CardinalityType, FS_EmptySet
<1>4. CommitsGood(others)
  BY <1>1, <1>2 DEF CommitsGood, IdsDiffer
<1>5. ASSUME bounds.leavers = {}, NEW d \in others
      PROVE  Lands(state, d) /\ d.seat # c.seat
  <2>1. Lands(state, d)
    BY <1>5 DEF TableInv
  <2> QED
    BY <1>1, <2>1 DEF Lands, Matches, IdsDiffer
<1>6. ASSUME bounds.leavers = {}, HandRuns(state) PROVE others = {}
  <2>1. Lands(state, c)
    BY <1>6 DEF TableInv
  <2> QED
    BY <1>5, <1>6, <2>1 DEF Lands
<1>7. ~(bounds.leavers # {} /\ bounds.hands > 0)
  BY DEF TableInv, OneHandToLeave
<1> HIDE DEF others
<1>8. Cardinality(commits) = Cardinality(others) + 1
  BY <1>2, <1>3
<1> QED
  BY <1>3, <1>4, <1>5, <1>6, <1>7, <1>8 DEF others

(* Only the seat of the answered commit no longer waits.                   *)
LEMMA OthersAwaited ==
    ASSUME TableInv, NEW c \in commits, NEW t,
           \A j \in Seats : t.seat[j].pending = IF j = c.seat THEN NoCommit
                                                ELSE state.seat[j].pending
    PROVE  Awaited(t, commits \ {c})
BY DEF TableInv, Awaited

(* The chips of a commit are in the pot.                                   *)
PotSeat(x, y, p) ==
    /\ y.user = x.user /\ y.cards = x.cards /\ y.folded = x.folded
    /\ (x.all_in => y.all_in) /\ y.pending = NoCommit
    /\ y.committed = x.committed + p.amount /\ y.street_bet = x.street_bet + p.amount
    /\ y.acted = ~p.blind

OtherSeat(x, y) ==
    /\ y.user = x.user /\ y.cards = x.cards /\ y.folded = x.folded
    /\ y.all_in = x.all_in /\ y.pending = x.pending
    /\ y.committed = x.committed /\ y.street_bet = x.street_bet

SameSpot(s, t) ==
    /\ t.phase = s.phase /\ t.active_seat = s.active_seat
    /\ t.deadline = s.deadline /\ t.timer_task = s.timer_task
    /\ t.due = s.due /\ t.settlement_pending = s.settlement_pending

BetPlaced(s, t, i, p) ==
    /\ t \in SharedState /\ SameSpot(s, t) /\ t.pending_blinds = s.pending_blinds
    /\ t.current_bet = IF s.current_bet >= p.target THEN s.current_bet ELSE p.target
    /\ PotSeat(s.seat[i], t.seat[i], p)
    /\ \A j \in Seats \ {i} :
          /\ OtherSeat(s.seat[j], t.seat[j])
          /\ s.seat[j].acted /\ ~t.seat[j].acted => FullRaise(s, p)

LEMMA InPotFields ==
    ASSUME NEW s \in SharedState, NEW i \in Seats
    PROVE  BetPlaced(s, InPot(s, i), i, s.seat[i].pending)
<1> DEFINE p == s.seat[i].pending
           x == [s.seat[i] EXCEPT
                !.pending = NoCommit, !.stack = @ - p.amount,
                !.committed = @ + p.amount, !.street_bet = @ + p.amount,
                !.all_in = @ \/ s.seat[i].stack = p.amount, !.acted = ~p.blind]
           new(j) == IF j = i THEN x
                     ELSE IF FullRaise(s, p) /\ HandRuns(s) /\ j \in Active(s)
                     THEN [s.seat[j] EXCEPT !.acted = FALSE]
                     ELSE s.seat[j]
           seats == [j \in Seats |-> new(j)]
           bet == Max({s.current_bet, p.target})
           least == IF FullRaise(s, p) THEN Max({p.raise, p.target - s.current_bet})
                    ELSE s.min_raise
           t == [s EXCEPT !.seat = seats, !.current_bet = bet, !.min_raise = least]
<1>1. s.current_bet \in Nat /\ p.target \in Nat
  BY SeatIsTyped DEF SeatType, SharedState
<1>2. PotSeat(s.seat[i], x, p)
  <2>1. s.seat[i] \in SeatType
    BY SeatIsTyped
  <2> DEFINE a == s.seat[i].all_in \/ s.seat[i].stack = p.amount
             st == s.seat[i].stack - p.amount
             co == s.seat[i].committed + p.amount
             sb == s.seat[i].street_bet + p.amount
             ac == ~p.blind
  <2>2. x = [s.seat[i] EXCEPT !.pending = NoCommit, !.stack = st, !.committed = co,
                              !.street_bet = sb, !.all_in = a, !.acted = ac]
    BY <2>1 DEF SeatType
  <2>3. (s.seat[i].all_in => a) /\ (ac <=> ~p.blind)
    OBVIOUS
  <2> HIDE DEF a, st, co, sb, ac, x
  <2>4. /\ x.user = s.seat[i].user /\ x.cards = s.seat[i].cards
        /\ x.folded = s.seat[i].folded /\ x.pending = NoCommit
        /\ x.committed = co /\ x.street_bet = sb /\ x.all_in = a /\ x.acted = ac
    BY <2>1, <2>2 DEF SeatType
  <2>5. (s.seat[i].all_in => x.all_in) /\ x.acted = ~p.blind
    BY <2>3, <2>4 DEF ac
  <2> QED
    BY <2>4, <2>5 DEF PotSeat, co, sb
<1> HIDE DEF x
<1>3. ASSUME NEW j \in Seats \ {i}
      PROVE  OtherSeat(s.seat[j], new(j)) /\ (s.seat[j].acted /\ ~new(j).acted => FullRaise(s, p))
  <2>1. s.seat[j] \in SeatType
    BY SeatIsTyped
  <2> QED
    BY <2>1 DEF OtherSeat, SeatType
<1>4. new(i) = x
  OBVIOUS
<1> HIDE DEF new
<1>5. /\ seats[i] = x
      /\ \A j \in Seats \ {i} : OtherSeat(s.seat[j], seats[j])
                                /\ (s.seat[j].acted /\ ~seats[j].acted => FullRaise(s, p))
  BY <1>3, <1>4
<1>6. bet = IF s.current_bet >= p.target THEN s.current_bet ELSE p.target
  BY <1>1, MaxOfTwo
<1>7. InPot(s, i) = t
  BY DEF InPot, x, new, SharedState
<1> HIDE DEF seats, bet, least, p
<1>8. t.seat = seats /\ t.current_bet = bet /\ SameSpot(s, t)
      /\ t.pending_blinds = s.pending_blinds
  BY DEF SharedState, SameSpot
<1>9. t \in SharedState
  BY <1>7, InPotType
<1> HIDE DEF t
<1>10. BetPlaced(s, t, i, p)
  BY <1>2, <1>5, <1>6, <1>8, <1>9 DEF BetPlaced
<1> QED
  BY <1>7, <1>10 DEF p

LEMMA PlacedPlayers ==
    ASSUME NEW s \in SharedState, NEW i \in Seats, NEW p, NEW t, BetPlaced(s, t, i, p)
    PROVE  Active(t) = Active(s) /\ Actionable(t) \subseteq Actionable(s)
<1>1. \A j \in Seats : /\ t.seat[j].user = s.seat[j].user
                       /\ t.seat[j].cards = s.seat[j].cards
                       /\ t.seat[j].folded = s.seat[j].folded
                       /\ s.seat[j].all_in => t.seat[j].all_in
  BY DEF BetPlaced, PotSeat, OtherSeat
<1>2. Active(t) = Active(s)
  BY <1>1 DEF Active, Occupied
<1> QED
  BY <1>1, <1>2, SeatSets DEF Actionable

(* A bet of the street lifts the bet to match at most to its target.       *)
LEMMA PlacedBets ==
    ASSUME NEW s \in SharedState, HandRuns(s), BetsGood(s), NEW i \in Seats,
           NEW p, p = s.seat[i].pending, p.target = s.seat[i].street_bet + p.amount,
           NEW t, BetPlaced(s, t, i, p)
    PROVE  BetsGood(t)
<1>1. Active(t) = Active(s) /\ Actionable(t) \subseteq Actionable(s)
      /\ Active(s) \subseteq Seats /\ Actionable(s) \subseteq Seats
  BY PlacedPlayers, SeatSets
<1>2. t.phase = s.phase /\ HandRuns(t) /\ t.phase # "PostingBlinds"
  BY DEF BetPlaced, SameSpot, HandRuns, ActionPhases
<1>3. /\ p.amount \in Nat /\ p.target \in Nat /\ s.current_bet \in Nat
      /\ \A j \in Seats : s.seat[j].committed \in Nat /\ s.seat[j].street_bet \in Nat
  BY SeatIsTyped DEF SeatType, SharedState
<1>4. ASSUME NEW j \in Seats PROVE Closed(t, j) = Closed(s, j)
  <2>1. CASE j = i
    <3>1. t.seat[j].committed = s.seat[j].committed + p.amount
          /\ t.seat[j].street_bet = s.seat[j].street_bet + p.amount
      BY <2>1 DEF BetPlaced, PotSeat
    <3> QED
      BY <1>2, <1>3, <3>1 DEF Closed
  <2>2. CASE j # i
    BY <1>2, <2>2 DEF BetPlaced, OtherSeat, Closed
  <2> QED
    BY <2>1, <2>2
<1>5. ASSUME NEW j \in Active(t) PROVE t.seat[j].street_bet <= t.current_bet
  <2>1. j \in Seats /\ s.seat[j].street_bet <= s.current_bet
    BY <1>1 DEF BetsGood
  <2>2. t.current_bet >= s.current_bet /\ t.current_bet >= p.target /\ t.current_bet \in Nat
    BY <1>3 DEF BetPlaced
  <2>3. CASE j = i
    BY <2>2, <2>3 DEF BetPlaced, PotSeat
  <2>4. CASE j # i
    <3>1. t.seat[j].street_bet = s.seat[j].street_bet
      BY <2>1, <2>4 DEF BetPlaced, OtherSeat
    <3> QED
      BY <1>3, <2>1, <2>2, <3>1
  <2> QED
    BY <2>3, <2>4
<1>6. EvenBets(t)
  BY <1>1, <1>4 DEF EvenBets, BetsGood
<1> QED
  BY <1>2, <1>5, <1>6 DEF BetsGood

(* A bet of a street: it lands in the turn it was made in, and only a full *)
(* raise lets the others act again.                                        *)
LEMMA BetSection ==
    ASSUME TableInv, NEW c \in commits, Matches(state, c), state.phase # "PostingBlinds",
           NEW t, t = InPot(state, c.seat), NEW s, s = AdvanceAfterAction(t, c.seat)
    PROVE  SectionGood(s, commits \ {c})
<1> DEFINE i == c.seat
           p == state.seat[i].pending
           others == commits \ {c}
<1>1. state \in SharedState /\ state.due = <<>> /\ TableGood(state, commits) /\ i \in Seats
  BY InvTable DEF CommitsGood, CommitType
<1>2. BetPlaced(state, t, i, p)
  BY <1>1, InPotFields
<1>3. t \in SharedState /\ SameSpot(state, t) /\ t.phase # "PostingBlinds"
  BY <1>2 DEF BetPlaced, SameSpot
<1>4. Moves(t, s) /\ TurnGood(s)
  BY <1>1, <1>3, AdvanceMoves
<1>5. s \in SharedState /\ DueMoves(state, s) /\ TimerGood(s)
      /\ (RoundActive(s) => RoundActive(state) /\ HandRuns(state)) /\ s.phase # "PostingBlinds"
  <2>1. DueMoves(t, s) /\ (TimerGood(t) => TimerGood(s)) /\ PhaseMoves(t, s) /\ s \in SharedState
    BY <1>4 DEF Moves
  <2> QED
    BY <1>1, <1>3, <2>1
       DEF DueMoves, TimerGood, PhaseMoves, RoundActive, HandRuns, SameSpot, TableGood
<1>6. Awaited(s, others)
  <2>1. \A j \in Seats : t.seat[j].pending = IF j = i THEN NoCommit ELSE state.seat[j].pending
    BY <1>2 DEF BetPlaced, PotSeat, OtherSeat
  <2>2. \A j \in Seats : s.seat[j].pending = IF j = i THEN NoCommit ELSE state.seat[j].pending
    BY <1>4, <2>1 DEF Moves, MovedSeat
  <2> QED
    BY <2>2, OthersAwaited
<1>7. CommitsGood(others) /\ ~(bounds.leavers # {} /\ bounds.hands > 0)
  BY OthersServed
<1>8. ASSUME bounds.leavers = {}
      PROVE  CommitsServed(s, others) /\ BetsGood(s) /\ Reopened(state, s) /\ RoundActive(state)
  <2>1. Lands(state, c) /\ BetsGood(state)
    BY <1>8 DEF TableInv
  <2>2. HandRuns(state) /\ RoundActive(state)
    BY <2>1 DEF Lands, RoundActive
  <2>3. CommitsServed(s, others)
    <3>1. others = {}
      BY <1>8, <2>2, OthersServed
    <3> QED
      BY <1>5, <3>1 DEF CommitsServed, BlindsCounted
  <2>4. /\ ~p.blind /\ p.target = state.seat[i].street_bet + p.amount
        /\ p.raise <= RaiseOf(state, p)
    BY <2>1, <2>2 DEF Lands
  <2>5. BetsGood(t) /\ HandRuns(t)
    BY <1>1, <1>2, <1>3, <2>1, <2>2, <2>4, PlacedBets DEF SameSpot, HandRuns
  <2>6. BetsGood(s)
    BY <1>1, <1>3, <2>5, AdvanceBets
  <2>7. Reopened(state, s)
    <3>1. SUFFICES ASSUME HandRuns(s) PROVE Reopened(state, s)
      BY DEF Reopened
    <3>2. /\ Rank[state.phase] <= Rank[s.phase]
          /\ s.phase = state.phase =>
                /\ s.current_bet = t.current_bet
                /\ \A j \in Seats : t.seat[j].acted => s.seat[j].acted
      BY <1>3, <1>4, <2>5, <3>1 DEF Moves, PhaseMoves, SameSpot
    <3>3. ASSUME s.phase = state.phase,
                 NEW j \in Seats, state.seat[j].acted, ~s.seat[j].acted
          PROVE  s.current_bet - state.current_bet >= state.min_raise
      <4>1. ~t.seat[j].acted
        BY <3>2, <3>3
      <4>2. j # i
        BY <1>2, <2>4, <4>1 DEF BetPlaced, PotSeat
      <4>3. FullRaise(state, p)
        BY <1>2, <3>3, <4>1, <4>2 DEF BetPlaced
      <4>4. /\ state.current_bet \in Nat /\ state.min_raise \in Nat
            /\ p.target \in Nat /\ p.raise \in Nat
        BY <1>1, SeatIsTyped DEF SeatType, SharedState
      <4>5. p.target > state.current_bet /\ p.raise <= p.target - state.current_bet
        BY <2>4, <4>3 DEF FullRaise, RaiseOf
      <4>6. Max({p.raise, p.target - state.current_bet}) = p.target - state.current_bet
        <5> HIDE DEF p
        <5>1. p.target - state.current_bet \in Int
          BY <4>4
        <5> QED
          BY <4>4, <4>5, <5>1, MaxOfTwo
      <4>7. p.target - state.current_bet >= state.min_raise
        BY <4>3, <4>6 DEF FullRaise
      <4>8. t.current_bet = p.target
        BY <1>2, <4>4, <4>5 DEF BetPlaced
      <4> QED
        BY <3>2, <3>3, <4>7, <4>8
    <3> QED
      BY <3>2, <3>3 DEF Reopened
  <2> QED
    BY <2>2, <2>3, <2>6, <2>7
<1> QED
  BY <1>4, <1>5, <1>6, <1>7, <1>8 DEF SectionGood

(* Blinds are posted.  The hand begins when both are answered.             *)
LEMMA BlindsFinished ==
    ASSUME NEW s \in SharedState, s.phase = "PostingBlinds", s.pending_blinds = 0,
           NEW t, t = FinishBlindPosting(s)
    PROVE  /\ t \in SharedState /\ t.phase # "PostingBlinds" /\ TurnGood(t)
           /\ TimerGood(s) => TimerGood(t)
           /\ \A j \in Seats : t.seat[j] = s.seat[j]
           /\ DueMoves(s, t)
           /\ BetsGood(s) => BetsGood(t)
<1> DEFINE bets == {s.seat[i].street_bet : i \in Seats}
           v == [s EXCEPT !.current_bet = Max(bets), !.min_raise = BIG_BLIND]
           shown == [v EXCEPT !.phase = "PreFlop", !.active_seat = NoSeat]
           begun == [v EXCEPT !.phase = "PreFlop",
                              !.active_seat = After(v.big_blind_seat, Actionable(v))]
<1>1. Max(bets) \in Nat /\ \A i \in Seats : s.seat[i].street_bet <= Max(bets)
  <2>1. bets \in SUBSET Nat
    BY SeatIsTyped DEF SeatType
  <2>2. IsFiniteSet(bets)
    <3> DEFINE f == [i \in Seats |-> s.seat[i].street_bet]
    <3> DEFINE images == {f[i] : i \in Seats}
    <3>1. bets = images
      OBVIOUS
    <3> HIDE DEF f
    <3>2. IsFiniteSet(images)
      BY SeatsAreFinite, ImageOfFinite
    <3> HIDE DEF images, bets
    <3> QED
      BY <3>1, <3>2
  <2>3. bets # {}
    <3>1. 1 \in Seats
      BY SeatsAreFinite DEF Seats
    <3> QED
      BY <3>1
  <2>4. \A i \in Seats : s.seat[i].street_bet \in bets
    OBVIOUS
  <2> HIDE DEF bets
  <2>5. Max(bets) \in bets /\ \A y \in bets : Max(bets) >= y
    BY <2>1, <2>2, <2>3, FiniteGreatest
  <2>6. Max(bets) \in Nat
    BY <2>1, <2>5
  <2>7. ASSUME NEW i \in Seats PROVE s.seat[i].street_bet <= Max(bets)
    <3>1. s.seat[i].street_bet \in Nat /\ Max(bets) >= s.seat[i].street_bet
      BY <2>1, <2>4, <2>5
    <3> QED
      BY <2>6, <3>1
  <2> QED
    BY <2>6, <2>7
<1>2. \/ Cardinality(Active(v)) = 1 /\ t = FinishByFold(v, CHOOSE w \in Active(v) : TRUE)
      \/ Active(v) = {} /\ t = AbandonHand(v)
      \/ Actionable(v) = {} /\ t = FinishShowdown(shown)
      \/ Actionable(v) # {} /\ Cardinality(Active(v)) > 1 /\ t = begun
  <2>1. v \in SharedState
    BY <1>1, PokerAssumption DEF SharedState
  <2>2. t = CASE Cardinality(Active(v)) = 1 -> FinishByFold(v, CHOOSE w \in Active(v) : TRUE)
          [] Active(v) = {} -> AbandonHand(v)
          [] Cardinality(Active(v)) > 1 /\ Actionable(v) = {} -> FinishShowdown(shown)
          [] OTHER -> begun
    BY DEF FinishBlindPosting
  <2> HIDE DEF v, shown, begun
  <2>3. Active(v) = {} => Cardinality(Active(v)) = 0
    BY FS_EmptySet
  <2>4. Cardinality(Active(v)) \in Nat /\ (Cardinality(Active(v)) = 0 => Active(v) = {})
    BY <2>1, SeatSets, FS_EmptySet
  <2> QED
    BY <2>2, <2>3, <2>4
<1>3. /\ v \in SharedState /\ v.seat = s.seat /\ v.phase = "PostingBlinds"
      /\ v.current_bet = Max(bets) /\ v.due = s.due
      /\ v.settlement_pending = s.settlement_pending
      /\ v.deadline = s.deadline /\ v.timer_task = s.timer_task
  BY <1>1, PokerAssumption DEF SharedState
<1> HIDE DEF bets, v
<1>4. t \in SharedState
  BY FinishBlindPostingType
<1>5. ASSUME NEW f \in SharedState, f.seat = s.seat, NEW c, t = Settle(f, c),
             Cardinality(Active(v)) = 1 \/ Actionable(v) = {}
      PROVE  /\ t.phase # "PostingBlinds" /\ TurnGood(t) /\ TimerGood(t)
             /\ \A j \in Seats : t.seat[j] = s.seat[j]
             /\ DueMoves(s, t) /\ BetsGood(t)
  <2>1. /\ t.phase = "Showdown" /\ t.seat = f.seat
        /\ t.settlement_pending = (t.due # <<>>) /\ t.deadline = "none"
    BY <1>5, SettleFields
  <2>2. Active(t) = Active(v) /\ Actionable(t) = Actionable(v)
    BY <1>3, <1>5, <2>1 DEF Active, Actionable, Occupied
  <2>3. EvenBets(t)
    <3>1. \A i, j \in Active(t) : i = j \/ Actionable(t) = {}
      <4>1. CASE Cardinality(Active(v)) = 1
        <5>1. PICK w : Active(v) = {w}
          BY <1>3, <4>1, SeatSets, FS_Singleton
        <5> QED
          BY <2>2, <5>1
      <4> QED
        BY <1>5, <2>2, <4>1
    <3>2. \A i \in Actionable(t) : Closed(t, i) \in Int /\ i \in Active(t)
      <4>1. Actionable(t) \subseteq Active(t) /\ Active(t) \subseteq Seats
        BY <1>4, SeatSets
      <4> QED
        BY <1>4, <4>1, BetTypes DEF Closed
    <3> QED
      BY <3>1, <3>2 DEF EvenBets
  <2>4. ~HandRuns(t) /\ t.phase # "PostingBlinds" /\ ~RoundActive(t)
    BY <2>1 DEF HandRuns, ActionPhases, RoundActive
  <2> QED
    BY <1>5, <2>1, <2>3, <2>4 DEF TurnGood, TimerGood, DueMoves, BetsGood
<1>6. CASE Cardinality(Active(v)) = 1 /\ t = FinishByFold(v, CHOOSE w \in Active(v) : TRUE)
  BY <1>3, <1>4, <1>5, <1>6 DEF FinishByFold
<1>7. CASE Active(v) = {} /\ t = AbandonHand(v)
  <2>1. /\ t.phase = "Waiting" /\ t.seat = v.seat /\ t.due = v.due
        /\ t.settlement_pending = v.settlement_pending /\ t.deadline = "none"
    BY <1>3, <1>7, AbandonFields
  <2>2. ~HandRuns(t) /\ t.phase # "PostingBlinds" /\ t.phase # "Showdown"
    BY <2>1 DEF HandRuns, ActionPhases
  <2> QED
    BY <1>3, <1>4, <2>1, <2>2 DEF TurnGood, TimerGood, DueMoves, BetsGood
<1>8. CASE Actionable(v) = {} /\ t = FinishShowdown(shown)
  <2>1. shown \in SharedState /\ shown.seat = v.seat
    <3>1. "PreFlop" \in Phases
      BY DEF Phases, ActionPhases
    <3> QED
      BY <1>3, <3>1 DEF SharedState, NoSeat
  <2> HIDE DEF shown
  <2> QED
    BY <1>3, <1>4, <1>5, <1>8, <2>1 DEF FinishShowdown
<1>9. CASE Actionable(v) # {} /\ Cardinality(Active(v)) > 1 /\ t = begun
  <2> DEFINE a == After(v.big_blind_seat, Actionable(v))
  <2>1. a \in Actionable(v)
    BY <1>3, <1>9, SeatSets, AfterIsThere DEF SharedState
  <2> HIDE DEF a
  <2>2. /\ t.phase = "PreFlop" /\ t.active_seat = a /\ t.seat = v.seat
        /\ t.current_bet = v.current_bet
        /\ t.due = v.due /\ t.settlement_pending = v.settlement_pending
        /\ t.deadline = v.deadline /\ t.timer_task = v.timer_task
    BY <1>3, <1>9 DEF SharedState, a
  <2>3. Active(t) = Active(v) /\ Actionable(t) = Actionable(v)
    BY <2>2 DEF Active, Actionable, Occupied
  <2>4. TurnGood(t) /\ HandRuns(t) /\ t.phase # "PostingBlinds" /\ t.phase # "Showdown"
    BY <1>9, <2>1, <2>2, <2>3 DEF TurnGood, HandRuns, ActionPhases
  <2>5. ASSUME BetsGood(s) PROVE BetsGood(t)
    <3>1. \A j \in Seats : /\ t.seat[j].committed = t.seat[j].street_bet
                           /\ t.seat[j].street_bet <= t.current_bet
                           /\ t.seat[j].street_bet \in Nat
      BY <1>1, <1>3, <2>2, <2>5, BetTypes DEF BetsGood
    <3>2. \A j \in Seats : Closed(t, j) = 0
      BY <2>4, <3>1 DEF Closed
    <3>3. Active(t) \subseteq Seats /\ Actionable(t) \subseteq Seats
      BY <1>4, SeatSets
    <3> QED
      BY <2>4, <3>1, <3>2, <3>3 DEF BetsGood, EvenBets
  <2> QED
    BY <1>3, <1>4, <2>2, <2>4, <2>5 DEF TimerGood, DueMoves
<1> QED
  BY <1>2, <1>4, <1>6, <1>7, <1>8, <1>9

LEMMA BlindSection ==
    ASSUME TableInv, NEW c \in commits, Matches(state, c), state.phase = "PostingBlinds",
           NEW v \in SharedState, SameSpot(state, v), v.pending_blinds = state.pending_blinds,
           \A j \in Seats : /\ v.seat[j].user = state.seat[j].user
                            /\ v.seat[j].pending = IF j = c.seat THEN NoCommit
                                                   ELSE state.seat[j].pending,
           bounds.leavers = {} =>
               \A j \in Seats : v.seat[j].committed = v.seat[j].street_bet,
           NEW s, s = BlindAnswered(v)
    PROVE  SectionGood(s, commits \ {c})
<1> DEFINE others == commits \ {c}
           n == Max({v.pending_blinds - 1, 0})
           w == [v EXCEPT !.pending_blinds = n]
<1>1. state \in SharedState /\ state.due = <<>> /\ TableGood(state, commits)
      /\ commits \subseteq CommitType
  BY InvTable DEF CommitsGood
<1>2. n = (IF v.pending_blinds >= 1 THEN v.pending_blinds - 1 ELSE 0) /\ n \in 0 .. 2
  <2>1. v.pending_blinds \in 0 .. 2
    BY DEF SharedState
  <2> QED
    BY <2>1, MaxOfTwo
<1>3. s = IF n = 0 THEN FinishBlindPosting(w) ELSE w
  BY DEF BlindAnswered, SharedState
<1> HIDE DEF n
<1>4. w \in SharedState /\ w.pending_blinds = n /\ w.seat = v.seat /\ SameSpot(state, w)
  BY <1>2 DEF SharedState, SameSpot
<1> HIDE DEF w
<1>5. CommitsGood(others) /\ ~(bounds.leavers # {} /\ bounds.hands > 0)
  BY OthersServed
<1>6. \A j \in Seats : /\ w.seat[j].user = state.seat[j].user
                       /\ w.seat[j].pending = IF j = c.seat THEN NoCommit
                                              ELSE state.seat[j].pending
  BY <1>4
<1>7. RoundActive(state) /\ ~HandRuns(state)
  BY DEF RoundActive, HandRuns, ActionPhases
<1>8. ASSUME bounds.leavers = {}
      PROVE  /\ n = Cardinality(others) /\ (n = 0 => others = {})
             /\ \A d \in others : Lands(state, d) /\ d.seat # c.seat
             /\ BetsGood(w)
  <2>1. state.pending_blinds = Cardinality(commits)
    BY <1>8 DEF TableInv, BlindsCounted
  <2>2. n = Cardinality(others) /\ (n = 0 => others = {})
    <3>1. /\ Cardinality(commits) = Cardinality(others) + 1 /\ Cardinality(others) \in Nat
          /\ (Cardinality(others) = 0 => others = {})
      BY OthersServed
    <3> HIDE DEF others
    <3> QED
      BY <1>2, <2>1, <3>1
  <2>3. BetsGood(w)
    BY <1>4, <1>7, <1>8 DEF BetsGood, SameSpot, HandRuns
  <2> QED
    BY <1>8, <2>2, <2>3, OthersServed
<1>9. CASE n # 0
  <2>1. s = w
    BY <1>3, <1>9
  <2>2. TurnGood(s) /\ TimerGood(s) /\ DueMoves(state, s) /\ s.phase = "PostingBlinds"
    BY <1>1, <1>4, <1>7, <2>1 DEF TurnGood, TimerGood, TableGood, SameSpot, HandRuns, DueMoves
  <2>3. Awaited(s, others)
    BY <1>6, <2>1, OthersAwaited
  <2>4. ASSUME bounds.leavers = {}
        PROVE  CommitsServed(s, others) /\ BetsGood(s) /\ Reopened(state, s)
    <3>1. ASSUME NEW d \in others PROVE Lands(s, d)
      <4>1. Lands(state, d) /\ d.seat # c.seat /\ d.seat \in Seats
        BY <1>1, <1>8, <2>4 DEF CommitType
      <4>2. s.seat[d.seat].pending = state.seat[d.seat].pending
            /\ s.seat[d.seat].user = state.seat[d.seat].user
        BY <1>6, <2>1, <4>1
      <4>3. RoundActive(s) /\ ~HandRuns(s)
        BY <2>2 DEF RoundActive, HandRuns, ActionPhases
      <4> QED
        BY <4>1, <4>2, <4>3 DEF Lands
    <3>2. BlindsCounted(s, others)
      BY <1>4, <1>8, <2>1, <2>4 DEF BlindsCounted
    <3> QED
      BY <1>7, <1>8, <2>1, <2>4, <3>1, <3>2 DEF CommitsServed, Reopened
  <2> QED
    BY <1>4, <1>5, <1>7, <2>1, <2>2, <2>3, <2>4 DEF SectionGood
<1>10. CASE n = 0
  <2>1. w.phase = "PostingBlinds" /\ w.pending_blinds = 0 /\ s = FinishBlindPosting(w)
    BY <1>3, <1>4, <1>10 DEF SameSpot
  <2>2. /\ s \in SharedState /\ s.phase # "PostingBlinds" /\ TurnGood(s)
        /\ TimerGood(w) => TimerGood(s)
        /\ \A j \in Seats : s.seat[j] = w.seat[j]
        /\ DueMoves(w, s)
        /\ BetsGood(w) => BetsGood(s)
    BY <1>4, <2>1, BlindsFinished
  <2>3. TimerGood(s) /\ DueMoves(state, s)
    BY <1>1, <1>4, <2>2 DEF TableGood, TimerGood, DueMoves, SameSpot
  <2>4. Awaited(s, others)
    BY <1>6, <2>2, OthersAwaited
  <2>5. ASSUME bounds.leavers = {}
        PROVE  CommitsServed(s, others) /\ BetsGood(s) /\ Reopened(state, s)
    BY <1>7, <1>8, <1>10, <2>2, <2>5 DEF CommitsServed, BlindsCounted, Reopened
  <2> QED
    BY <1>5, <1>7, <2>2, <2>3, <2>4, <2>5 DEF SectionGood
<1> QED
  BY <1>9, <1>10

LEMMA SuccessSection ==
    ASSUME TableInv, NEW c \in commits, Matches(state, c)
    PROVE  SectionGood(IF state.phase = "PostingBlinds" THEN BlindAnswered(InPot(state, c.seat))
                       ELSE AdvanceAfterAction(InPot(state, c.seat), c.seat), commits \ {c})
<1> DEFINE i == c.seat
           p == state.seat[i].pending
           t == InPot(state, i)
<1>1. state \in SharedState /\ i \in Seats
  BY InvTable DEF CommitsGood, CommitType
<1>2. BetPlaced(state, t, i, p)
  BY <1>1, InPotFields
<1> HIDE DEF t
<1>3. CASE state.phase = "PostingBlinds"
  <2>1. /\ t \in SharedState /\ SameSpot(state, t) /\ t.pending_blinds = state.pending_blinds
        /\ \A j \in Seats :
              /\ t.seat[j].user = state.seat[j].user
              /\ t.seat[j].pending = IF j = i THEN NoCommit ELSE state.seat[j].pending
    BY <1>2 DEF BetPlaced, PotSeat, OtherSeat
  <2>2. ASSUME bounds.leavers = {}, NEW j \in Seats
        PROVE  t.seat[j].committed = t.seat[j].street_bet
    <3>1. state.seat[j].committed = state.seat[j].street_bet
      BY <1>3, <2>2 DEF TableInv, BetsGood
    <3> QED
      BY <1>2, <3>1 DEF BetPlaced, PotSeat, OtherSeat
  <2> DEFINE s == BlindAnswered(t)
  <2>3. s = BlindAnswered(t)
    OBVIOUS
  <2> HIDE DEF s
  <2>4. SectionGood(s, commits \ {c})
    BY <1>3, <2>1, <2>2, <2>3, BlindSection
  <2> QED
    BY <1>3, <2>3, <2>4 DEF t
<1>4. CASE state.phase # "PostingBlinds"
  <2> DEFINE s == AdvanceAfterAction(t, i)
  <2>1. s = AdvanceAfterAction(t, i) /\ t = InPot(state, c.seat)
    BY DEF t
  <2> HIDE DEF s
  <2>2. SectionGood(s, commits \ {c})
    BY <1>4, <2>1, BetSection
  <2> QED
    BY <1>4, <2>1, <2>2
<1> QED
  BY <1>3, <1>4

(* A commit that is refused: the seat has its turn back, or it is folded   *)
(* if that was a blind.                                                    *)
Unanswered(x, y) ==
    /\ y.user = x.user /\ y.cards = x.cards
    /\ y.all_in = x.all_in /\ y.acted = x.acted
    /\ y.committed = x.committed /\ y.street_bet = x.street_bet

LEMMA PendingCleared ==
    ASSUME NEW s \in SharedState, NEW i \in Seats
    PROVE  LET t == [s EXCEPT !.seat[i].pending = NoCommit] IN
           /\ t \in SharedState /\ SameTurn(s, t)
           /\ t.seat[i].pending = NoCommit /\ Unanswered(s.seat[i], t.seat[i])
           /\ t.seat[i].folded = s.seat[i].folded
           /\ \A j \in Seats \ {i} : t.seat[j] = s.seat[j]
<1> DEFINE x == [s.seat[i] EXCEPT !.pending = NoCommit]
           t == SeatBecomes(s, i, x)
<1>1. x \in SeatType /\ Unanswered(s.seat[i], x) /\ x.pending = NoCommit
      /\ x.folded = s.seat[i].folded
  <2>1. s.seat[i] \in SeatType
    BY SeatIsTyped
  <2>2. x \in SeatType
    BY <2>1 DEF SeatType, NoCommit
  <2> QED
    BY <2>1, <2>2 DEF SeatType, Unanswered, NoCommit
<1>2. [s EXCEPT !.seat[i].pending = NoCommit] = t
  BY DEF SeatBecomes
<1> HIDE DEF x
<1>3. SeatChanged(s, t, i, x)
  BY <1>1, SeatBecomesChanged
<1> HIDE DEF t
<1>4. /\ t \in SharedState /\ SameTurn(s, t)
      /\ t.seat[i].pending = NoCommit /\ Unanswered(s.seat[i], t.seat[i])
      /\ t.seat[i].folded = s.seat[i].folded
      /\ \A j \in Seats \ {i} : t.seat[j] = s.seat[j]
  BY <1>1, <1>3 DEF SeatChanged
<1> QED
  BY <1>2, <1>4

LEMMA SeatFolded ==
    ASSUME NEW s \in SharedState, NEW i \in Seats
    PROVE  LET t == [s EXCEPT !.seat[i].folded = TRUE] IN
           /\ t \in SharedState /\ SameTurn(s, t)
           /\ t.seat[i].pending = s.seat[i].pending /\ Unanswered(s.seat[i], t.seat[i])
           /\ \A j \in Seats \ {i} : t.seat[j] = s.seat[j]
<1> DEFINE x == [s.seat[i] EXCEPT !.folded = TRUE]
           t == SeatBecomes(s, i, x)
<1>1. x \in SeatType /\ Unanswered(s.seat[i], x) /\ x.pending = s.seat[i].pending
  <2>1. s.seat[i] \in SeatType
    BY SeatIsTyped
  <2>2. x \in SeatType
    BY <2>1 DEF SeatType
  <2> QED
    BY <2>1, <2>2 DEF SeatType, Unanswered
<1>2. [s EXCEPT !.seat[i].folded = TRUE] = t
  BY DEF SeatBecomes
<1> HIDE DEF x
<1>3. SeatChanged(s, t, i, x)
  BY <1>1, SeatBecomesChanged
<1> HIDE DEF t
<1>4. /\ t \in SharedState /\ SameTurn(s, t)
      /\ t.seat[i].pending = s.seat[i].pending /\ Unanswered(s.seat[i], t.seat[i])
      /\ \A j \in Seats \ {i} : t.seat[j] = s.seat[j]
  BY <1>1, <1>3 DEF SeatChanged
<1> QED
  BY <1>2, <1>4

LEMMA RefusedSection ==
    ASSUME TableInv, NEW c \in commits, Matches(state, c),
           NEW t \in SharedState, SameTurn(state, t),
           t.seat[c.seat].pending = NoCommit, Unanswered(state.seat[c.seat], t.seat[c.seat]),
           t.seat[c.seat].folded = state.seat[c.seat].folded,
           \A j \in Seats \ {c.seat} : t.seat[j] = state.seat[j]
    PROVE  SectionGood(IF state.phase = "PostingBlinds"
                       THEN BlindAnswered([t EXCEPT !.seat[c.seat].folded = TRUE])
                       ELSE t, commits \ {c})
<1> DEFINE i == c.seat
           others == commits \ {c}
<1>1. state \in SharedState /\ state.due = <<>> /\ TableGood(state, commits) /\ i \in Seats
  BY InvTable DEF CommitsGood, CommitType
<1>2. SameTurn(state, t)
  OBVIOUS
<1>3. /\ \A j \in Seats : /\ Unanswered(state.seat[j], t.seat[j])
                          /\ t.seat[j].folded = state.seat[j].folded
                          /\ t.seat[j].pending = IF j = i THEN NoCommit
                                                 ELSE state.seat[j].pending
  BY DEF Unanswered
<1>4. CASE state.phase = "PostingBlinds"
  <2> DEFINE v == [t EXCEPT !.seat[i].folded = TRUE]
             s == BlindAnswered(v)
  <2>1. /\ v \in SharedState /\ SameTurn(t, v)
        /\ v.seat[i].pending = t.seat[i].pending /\ Unanswered(t.seat[i], v.seat[i])
        /\ \A j \in Seats \ {i} : v.seat[j] = t.seat[j]
    BY <1>1, <1>2, SeatFolded
  <2> HIDE DEF v
  <2>2. SameSpot(state, v) /\ v.pending_blinds = state.pending_blinds
    BY <1>2, <2>1 DEF SameTurn, SameSpot
  <2>3. \A j \in Seats : /\ Unanswered(state.seat[j], v.seat[j])
                         /\ v.seat[j].user = state.seat[j].user
                         /\ v.seat[j].pending = IF j = i THEN NoCommit
                                                ELSE state.seat[j].pending
    BY <1>3, <2>1 DEF Unanswered
  <2>4. bounds.leavers = {} =>
            \A j \in Seats : v.seat[j].committed = v.seat[j].street_bet
    BY <1>4, <2>3 DEF TableInv, BetsGood, Unanswered
  <2>5. s = BlindAnswered(v)
    OBVIOUS
  <2> HIDE DEF s
  <2>6. SectionGood(s, others)
    BY <1>4, <2>1, <2>2, <2>3, <2>4, <2>5, BlindSection
  <2> QED
    BY <1>4, <2>5, <2>6 DEF v
<1>5. CASE state.phase # "PostingBlinds"
  <2>1. Active(t) = Active(state) /\ Actionable(t) = Actionable(state)
    BY <1>3, SamePlayers DEF Unanswered
  <2>2. t.phase = state.phase /\ (HandRuns(t) <=> HandRuns(state)) /\ DueUnchanged(t)
    BY <1>1, <1>2 DEF SameTurn, HandRuns, DueUnchanged
  <2>3. TurnGood(t) /\ TimerGood(t)
    BY <1>1, <1>2, <2>1, <2>2 DEF TableGood, TurnGood, TimerGood, SameTurn
  <2>4. Awaited(t, others)
    BY <1>3, OthersAwaited
  <2>5. ASSUME bounds.leavers = {}
        PROVE  CommitsServed(t, others) /\ BetsGood(t) /\ Reopened(state, t)
    <3>1. HandRuns(state)
      <4>1. Lands(state, c)
        BY <2>5 DEF TableInv
      <4> QED
        BY <1>5, <4>1 DEF Lands, RoundActive
    <3>2. others = {}
      BY <2>5, <3>1, OthersServed
    <3>3. CommitsServed(t, others)
      BY <1>5, <2>2, <3>2 DEF CommitsServed, BlindsCounted
    <3>4. BetsGood(t)
      <4>1. BetsGood(state)
        BY <2>5 DEF TableInv
      <4>2. t.phase = state.phase /\ t.current_bet = state.current_bet
        BY <1>2 DEF SameTurn
      <4>3. \A j \in Seats : /\ t.seat[j].committed = state.seat[j].committed
                             /\ t.seat[j].street_bet = state.seat[j].street_bet
        BY <1>3 DEF Unanswered
      <4> QED
        BY <1>1, <2>1, <4>1, <4>2, <4>3, SameBets
    <3>5. Reopened(state, t)
      <4>1. Rank[state.phase] <= Rank[state.phase]
        BY <3>1, RankFacts DEF HandRuns
      <4> QED
        BY <1>3, <2>2, <4>1 DEF Reopened, Unanswered
    <3> QED
      BY <3>3, <3>4, <3>5
  <2>6. CommitsGood(others) /\ ~(bounds.leavers # {} /\ bounds.hands > 0)
    BY OthersServed
  <2>7. SectionGood(t, others)
    <3> HIDE DEF others
    <3> QED
      BY <1>2, <2>2, <2>3, <2>4, <2>5, <2>6, GoodSection
  <2> QED
    BY <1>5, <2>7
<1> QED
  BY <1>4, <1>5

LEMMA FailureSection ==
    ASSUME TableInv, NEW c \in commits, Matches(state, c)
    PROVE  LET t == [state EXCEPT !.seat[c.seat].pending = NoCommit]
           IN  SectionGood(IF state.phase = "PostingBlinds"
                           THEN BlindAnswered([t EXCEPT !.seat[c.seat].folded = TRUE])
                           ELSE t, commits \ {c})
<1> DEFINE t == [state EXCEPT !.seat[c.seat].pending = NoCommit]
<1>1. state \in SharedState /\ c.seat \in Seats
  BY InvTable DEF CommitsGood, CommitType
<1>2. /\ t \in SharedState /\ SameTurn(state, t)
      /\ t.seat[c.seat].pending = NoCommit /\ Unanswered(state.seat[c.seat], t.seat[c.seat])
      /\ t.seat[c.seat].folded = state.seat[c.seat].folded
      /\ \A j \in Seats \ {c.seat} : t.seat[j] = state.seat[j]
  BY <1>1, PendingCleared
<1> HIDE DEF t
<1>3. SectionGood(IF state.phase = "PostingBlinds"
                  THEN BlindAnswered([t EXCEPT !.seat[c.seat].folded = TRUE])
                  ELSE t, commits \ {c})
  BY <1>2, RefusedSection
<1> QED
  BY <1>3 DEF t

(* Only where somebody may leave does an answer come too late.             *)
LEMMA TooLateSection ==
    ASSUME TableInv, NEW c \in commits, ~Matches(state, c)
    PROVE  SectionGood(state, commits \ {c})
<1> DEFINE others == commits \ {c}
<1>1. state \in SharedState /\ state.due = <<>> /\ TableGood(state, commits) /\ CommitsGood(commits)
  BY InvTable
<1>2. bounds.leavers # {}
  <2>1. SUFFICES ASSUME bounds.leavers = {} PROVE FALSE
    OBVIOUS
  <2>2. Lands(state, c)
    BY <2>1 DEF TableInv
  <2> QED
    BY <2>2 DEF Lands, Matches
<1>3. Awaited(state, others)
  BY <1>1 DEF TableGood, Awaited, Matches
<1>4. CommitsGood(others)
  <2>1. IsFiniteSet(others)
    BY <1>1, FS_Subset DEF CommitsGood
  <2> QED
    BY <1>1, <2>1 DEF CommitsGood, IdsDiffer
<1>5. ~(bounds.leavers # {} /\ bounds.hands > 0)
  BY DEF TableInv, OneHandToLeave
<1> HIDE DEF others
<1>6. SectionGood(state, others)
  BY <1>1, <1>2, <1>3, <1>4, <1>5, GoodSection DEF TableGood, DueUnchanged
<1> QED
  BY <1>6 DEF others

-------------------------------------------------------------------------------
(* The types of the variables, and when a hand is dealt: these hold of     *)
(* every instance.                                                         *)
TypeInv ==
    /\ TypeOK /\ IsFiniteSet(commits) /\ \A task \in settling : IsFiniteSet(task.done)
    /\ state.deadline # "none" => state.countdown_seat \in Seats

(* Only start_hand asks for blinds.                                        *)
NoDeal == state'.phase = "PostingBlinds" => state.phase = "PostingBlinds"

LEMMA InvTypes == TypeInv =>
    /\ state \in SharedState /\ state.due = <<>>
    /\ commits \subseteq CommitType /\ IsFiniteSet(commits)
    /\ settling \subseteq TaskType /\ syncs \subseteq [user : Users, balance : Nat]
    /\ bank \in [Users -> Nat] /\ minted \in Int /\ bounds \in Instance
BY DEF TypeInv, TypeOK

LEMMA PublishTypes ==
    ASSUME TypeInv, NEW s \in SharedState, Publish(s),
           state.phase = "PostingBlinds" \/ s.phase # "PostingBlinds",
           commits' \subseteq CommitType, IsFiniteSet(commits'),
           UNCHANGED <<syncs, bank, bounds>>, minted' \in Int
    PROVE  TypeInv' /\ NoDeal
<1>1. settling \subseteq TaskType /\ \A task \in settling : IsFiniteSet(task.done)
  BY DEF TypeInv, TypeOK
<1>2. state' \in SharedState /\ state'.due = <<>> /\ settling' \subseteq TaskType
  BY <1>1, PublishType
<1>3. PICK t \in SharedState :
              /\ AutoPlayed(s, t) /\ PublishedTable(t, state')
              /\ settling' = IF t.due = <<>> THEN settling
                             ELSE settling \cup {SettlementTask(t.due)}
  BY PublishFacts
<1>4. \A task \in settling' : IsFiniteSet(task.done)
  <2>1. IsFiniteSet(SettlementTask(t.due).done)
    BY FS_EmptySet DEF SettlementTask
  <2> QED
    BY <1>1, <1>3, <2>1
<1>5. state'.deadline # "none" => state'.countdown_seat \in Seats
  <2>1. Actionable(t) \subseteq Seats
    BY SeatSets
  <2> QED
    BY <1>3, <2>1 DEF PublishedTable
<1>6. NoDeal
  <2>1. t.phase = "PostingBlinds" => s.phase = "PostingBlinds"
    BY <1>3 DEF AutoPlayed, Played, Moves, PhaseMoves
  <2> QED
    BY <1>3, <2>1 DEF PublishedTable, NoDeal
<1> QED
  BY <1>2, <1>4, <1>5, <1>6 DEF TypeInv, TypeOK

LEMMA QuietTypes ==
    ASSUME TypeInv, NEW s, Quiet(state, s), Publish(s),
           UNCHANGED <<commits, syncs, bank, bounds, minted>>
    PROVE  TypeInv' /\ NoDeal
BY InvTypes, PublishTypes DEF Quiet, SameTurn

LEMMA ClearedTypes ==
    ASSUME TypeInv, NEW i \in Seats, Publish(RemoveSeats(state, {i})),
           UNCHANGED <<commits, syncs, bank, bounds, minted>>
    PROVE  TypeInv' /\ NoDeal
<1> DEFINE gone == {i}
           s == RemoveSeats(state, gone)
<1>1. Cleared(state, s, gone)
  BY InvTypes, RemoveSeatsCleared
<1>2. Publish(s)
  OBVIOUS
<1> HIDE DEF s, gone
<1> QED
  BY <1>1, <1>2, InvTypes, PublishTypes DEF Cleared, SameTurn

(* A turn that is played.                                                  *)
LEMMA TurnTypes ==
    ASSUME TypeInv, NEW s, NEW r, Moves(r, s), Publish(s),
           UNCHANGED <<commits, syncs, bank, bounds, minted>>
    PROVE  TypeInv' /\ NoDeal
BY InvTypes, PublishTypes DEF Moves, PhaseMoves

LEMMA CheckTypes ==
    ASSUME TypeInv, NEW u \in Users, NEW i \in Seats, Check(u, i)
    PROVE  TypeInv' /\ NoDeal
<1> DEFINE r == RecordManualAction(state, i)
           v == [r EXCEPT !.seat[i].acted = TRUE]
           s == AdvanceAfterAction(v, i)
<1>1. HandRuns(state) /\ Publish(s) /\ UNCHANGED <<commits, syncs, bank, bounds, minted>>
  BY DEF Check, MayAct
<1>2. Rested(state, r)
  BY InvTypes, RecordedRested
<1> HIDE DEF r
<1>3. r \in SharedState /\ r.phase # "PostingBlinds"
  BY <1>1, <1>2 DEF Rested, HandRuns, ActionPhases
<1>4. SeatActed(r, v, i)
  BY <1>3, CheckActed
<1> HIDE DEF v
<1>5. Moves(r, s)
  BY <1>3, <1>4, ActedPlayed DEF Played
<1> HIDE DEF s
<1> QED
  BY <1>1, <1>5, TurnTypes

LEMMA FoldTypes ==
    ASSUME TypeInv, NEW u \in Users, NEW i \in Seats, Fold(u, i)
    PROVE  TypeInv' /\ NoDeal
<1> DEFINE r == RecordManualAction(state, i)
           v == FoldSeat(r, i)
           s == AdvanceAfterAction(v, i)
<1>1. HandRuns(state) /\ Publish(s) /\ UNCHANGED <<commits, syncs, bank, bounds, minted>>
  BY DEF Fold, MayAct
<1>2. Rested(state, r)
  BY InvTypes, RecordedRested
<1> HIDE DEF r
<1>3. r \in SharedState /\ r.phase # "PostingBlinds"
  BY <1>1, <1>2 DEF Rested, HandRuns, ActionPhases
<1>4. SeatActed(r, v, i)
  BY <1>3, FoldSeatActed
<1> HIDE DEF v
<1>5. Moves(r, s)
  BY <1>3, <1>4, ActedPlayed DEF Played
<1> HIDE DEF s
<1> QED
  BY <1>1, <1>5, TurnTypes

LEMMA LeaveTypes ==
    ASSUME TypeInv, HandRuns(state), NEW i \in Seats, NEW v, Quiet(state, v),
           Publish(FoldAndLeave(v, i)), UNCHANGED <<commits, syncs, bank, bounds, minted>>
    PROVE  TypeInv' /\ NoDeal
<1> DEFINE s == FoldAndLeave(v, i)
<1>1. v \in SharedState /\ HandRuns(v) /\ Publish(s)
  BY DEF Quiet, SameTurn, HandRuns
<1>2. Moves(v, s)
  BY <1>1, FoldAndLeaveMoves
<1> HIDE DEF s
<1> QED
  BY <1>1, <1>2, TurnTypes

(* The seat after a turn that was missed.                                  *)
Missed(i, missed, leaves) ==
    [ClearCountdown(state) EXCEPT
        !.seat[i] = [@ EXCEPT !.missed_actions = missed, !.leave_after_hand = leaves]]

LEMMA MissedRested ==
    ASSUME state \in SharedState, NEW i \in Seats,
           NEW missed \in 0 .. MAX_MISSED_ACTIONS, NEW leaves \in BOOLEAN
    PROVE  Rested(state, Missed(i, missed, leaves))
<1> DEFINE c == ClearCountdown(state)
           x == [c.seat[i] EXCEPT !.missed_actions = missed, !.leave_after_hand = leaves]
           r == SeatBecomes(c, i, x)
<1>1. /\ c \in SharedState /\ c.seat = state.seat /\ c.phase = state.phase
      /\ c.active_seat = state.active_seat /\ c.deadline = "none"
      /\ c.current_bet = state.current_bet /\ c.min_raise = state.min_raise
      /\ c.due = state.due /\ c.settlement_pending = state.settlement_pending
      /\ c.pending_blinds = state.pending_blinds
  BY ClearCountdownType, ClearCountdownFields
<1> HIDE DEF c
<1>2. x \in SeatType /\ SameHand(c.seat[i], x)
  <2>1. c.seat[i] \in SeatType
    BY <1>1, SeatIsTyped
  <2> QED
    BY <2>1 DEF SeatType, SameHand
<1>3. r = Missed(i, missed, leaves)
  BY DEF SeatBecomes, Missed, c
<1> HIDE DEF x
<1>4. SeatChanged(c, r, i, x)
  BY <1>1, <1>2, SeatBecomesChanged
<1> HIDE DEF r
<1>5. r \in SharedState /\ SameTurn(c, r) /\ \A j \in Seats : SameHand(c.seat[j], r.seat[j])
  BY <1>2, <1>4 DEF SeatChanged, SameHand
<1>6. Rested(state, r)
  BY <1>1, <1>5 DEF Rested, SameTurn
<1> QED
  BY <1>3, <1>6

LEMMA TimeoutFacts ==
    ASSUME TypeInv, TimeoutActiveAction
    PROVE  /\ HandRuns(state) /\ state.deadline = "due"
           /\ state.active_seat \in Seats /\ state.active_seat = state.countdown_seat
           /\ UNCHANGED <<commits, syncs, bank, bounds, minted>>
           /\ \E missed \in 0 .. MAX_MISSED_ACTIONS, leaves \in BOOLEAN :
                 Publish(CheckOrFold(Missed(state.active_seat, missed, leaves),
                                     state.active_seat))
<1> DEFINE i == state.active_seat
           missed == Min({state.seat[i].missed_actions + 1, MAX_MISSED_ACTIONS})
           leaves == state.seat[i].leave_after_hand \/ missed >= MAX_MISSED_ACTIONS
           r == Missed(i, missed, leaves)
<1>1. /\ HandRuns(state) /\ state.deadline = "due" /\ i = state.countdown_seat
      /\ Publish(CheckOrFold(r, i)) /\ UNCHANGED <<commits, syncs, bank, bounds, minted>>
  BY DEF TimeoutActiveAction, Missed
<1>2. i \in Seats /\ state \in SharedState
  BY <1>1, InvTypes DEF TypeInv
<1>3. state.seat[i] \in SeatType
  BY <1>2, SeatIsTyped
<1>4. missed \in 0 .. MAX_MISSED_ACTIONS
  <2>1. state.seat[i].missed_actions \in 0 .. MAX_MISSED_ACTIONS
    BY <1>3 DEF SeatType
  <2>2. MAX_MISSED_ACTIONS \in Nat
    BY PokerAssumption
  <2> QED
    BY <2>1, <2>2, MinOfTwo
<1> HIDE DEF missed
<1>5. leaves \in BOOLEAN
  BY <1>3 DEF SeatType
<1> HIDE DEF leaves
<1> QED
  BY <1>1, <1>2, <1>4, <1>5

LEMMA TimeoutTypes ==
    ASSUME TypeInv, TimeoutActiveAction
    PROVE  TypeInv' /\ NoDeal
<1> DEFINE i == state.active_seat
<1>1. HandRuns(state) /\ i \in Seats /\ UNCHANGED <<commits, syncs, bank, bounds, minted>>
  BY TimeoutFacts
<1>2. PICK missed \in 0 .. MAX_MISSED_ACTIONS, leaves \in BOOLEAN :
          Publish(CheckOrFold(Missed(i, missed, leaves), i))
  BY TimeoutFacts
<1> DEFINE r == Missed(i, missed, leaves)
           s == CheckOrFold(r, i)
<1>3. Rested(state, r)
  BY <1>1, InvTypes, MissedRested
<1> HIDE DEF r
<1>4. r \in SharedState /\ r.phase # "PostingBlinds"
  BY <1>1, <1>3 DEF Rested, HandRuns, ActionPhases
<1>5. Moves(r, s)
  BY <1>1, <1>4, CheckOrFoldPlayed DEF Played
<1>6. Publish(s)
  BY <1>2 DEF r
<1> HIDE DEF s
<1> QED
  BY <1>1, <1>5, <1>6, TurnTypes

(* Commits.                                                                *)
(* The table that has taken a commit down, and the task that debits it.    *)
CommitMakes(t, i, target, raise) ==
    \E r, p :
        /\ Rested(state, r) /\ CommitMade(r, t, i, p)
        /\ p.id \in Nat \ {0} /\ \A d \in commits : d.id # p.id
        /\ p.amount \in Nat \ {0} /\ p.target = target /\ p.raise = raise
        /\ target = state.seat[i].street_bet + p.amount
        /\ ~p.blind /\ p # NoCommit
        /\ CommitTask(t, i) = NewTask(p.id, t.seat[i].user, i, p.amount)

LEMMA CommitToMakes ==
    ASSUME TypeInv, NEW i \in Seats, NEW target \in Int, target > state.seat[i].street_bet,
           NEW raise \in Nat,
           NEW t, t = Commit(RecordManualAction(state, i), i, FreshId(commits), FALSE,
                             target - state.seat[i].street_bet, target, raise)
    PROVE  CommitMakes(t, i, target, raise)
<1> DEFINE r == RecordManualAction(state, i)
           id == FreshId(commits)
           amount == target - state.seat[i].street_bet
           p == Pending(id, FALSE, amount, target, raise)
           c == CommitTask(t, i)
<1>1. state \in SharedState /\ IsFiniteSet(commits)
  BY InvTypes
<1>2. Rested(state, r)
  BY <1>1, RecordedRested
<1>3. /\ id \in Nat \ {0} /\ \A d \in commits : d.id # id
      /\ amount \in Nat \ {0} /\ target \in Nat /\ target = state.seat[i].street_bet + amount
  <2>1. state.seat[i].street_bet \in Nat
    BY <1>1, BetTypes
  <2> QED
    BY <1>1, <2>1, FreshIdFacts
<1> HIDE DEF r, id, amount
<1>4. CommitMade(r, t, i, p)
  <2>1. r \in SharedState
    BY <1>2 DEF Rested
  <2>2. id \in Nat /\ amount \in Nat
    BY <1>3
  <2>3. t = Commit(r, i, id, FALSE, amount, target, raise)
    BY DEF r, id, amount
  <2>4. CommitMade(r, Commit(r, i, id, FALSE, amount, target, raise), i, p)
    BY <1>3, <2>1, <2>2, CommitFields, Zenon
  <2> QED
    BY <2>3, <2>4, Zenon
<1>5. p.id = id /\ p.amount = amount /\ p.target = target /\ p.raise = raise /\ ~p.blind
      /\ p # NoCommit
  BY <1>3 DEF Pending, NoCommit
<1> HIDE DEF p
<1>6. c = NewTask(p.id, t.seat[i].user, i, p.amount)
  BY <1>4 DEF CommitTask, NewTask, CommitMade
<1> HIDE DEF c
<1>7. /\ Rested(state, r) /\ CommitMade(r, t, i, p)
      /\ p.id \in Nat \ {0} /\ \A d \in commits : d.id # p.id
      /\ p.amount \in Nat \ {0} /\ p.target = target /\ p.raise = raise
      /\ target = state.seat[i].street_bet + p.amount
      /\ ~p.blind /\ p # NoCommit
      /\ c = NewTask(p.id, t.seat[i].user, i, p.amount)
  BY <1>2, <1>3, <1>4, <1>5, <1>6
<1> QED
  BY <1>7 DEF c, CommitMakes

(* What Call, BetOrRaise and AllIn commit: at most a raise to the target.  *)
Asks(i, target, raise) ==
    /\ HandRuns(state) /\ i = state.active_seat /\ state.seat[i].pending = NoCommit
    /\ state.seat[i].user \in Users
    /\ target \in Int /\ raise \in Nat
    /\ raise <= IF target > state.current_bet THEN target - state.current_bet ELSE 0
    /\ CommitTo(i, target, raise)

LEMMA CommitAsked ==
    ASSUME TypeInv, NEW u \in Users, NEW i \in Seats,
           Call(u, i) \/ AllIn(u, i) \/ \E size \in RaiseSizes : BetOrRaise(u, i, size)
    PROVE  \E target, raise : Asks(i, target, raise)
<1> DEFINE x == state.seat[i]
           bet == state.current_bet
           all == AllOfStack(i)
<1>1. MayAct(u, i)
  BY DEF Call, AllIn, BetOrRaise
<1>2. /\ HandRuns(state) /\ i = state.active_seat /\ x.pending = NoCommit /\ x.user \in Users
  BY <1>1 DEF MayAct
<1>3. /\ bet \in Nat /\ state.min_raise \in Nat /\ all \in Int
  BY InvTypes, SeatIsTyped DEF SharedState, SeatType, AllOfStack
<1> HIDE DEF all, bet
<1>4. CASE Call(u, i)
  <2> DEFINE target == Min({bet, all})
  <2>1. target \in Int /\ target <= bet
    BY <1>3, MinOfTwo
  <2>2. CommitTo(i, target, 0)
    BY <1>4 DEF Call, bet, all
  <2> HIDE DEF target
  <2>3. Asks(i, target, 0)
    BY <1>2, <1>3, <2>1, <2>2 DEF Asks, bet
  <2> QED
    BY <2>3
<1>5. ASSUME NEW target \in Int, CommitTo(i, target, Max({target - bet, 0}))
      PROVE  \E raise : Asks(i, target, raise)
  <2> DEFINE raise == Max({target - bet, 0})
  <2>1. target - bet \in Int
    BY <1>3, <1>5
  <2>2. raise = IF target - bet >= 0 THEN target - bet ELSE 0
    BY <2>1, MaxOfTwo
  <2>3. CommitTo(i, target, raise)
    BY <1>5
  <2> HIDE DEF raise
  <2>4. raise \in Nat /\ raise <= IF target > bet THEN target - bet ELSE 0
    BY <1>3, <1>5, <2>1, <2>2
  <2>5. Asks(i, target, raise)
    BY <1>2, <1>5, <2>3, <2>4 DEF Asks, bet
  <2> QED
    BY <2>5
<1>6. CASE AllIn(u, i)
  BY <1>3, <1>5, <1>6 DEF AllIn, all, bet
<1>7. ASSUME NEW size \in RaiseSizes, BetOrRaise(u, i, size)
      PROVE  \E target, raise : Asks(i, target, raise)
  <2> DEFINE by == Max({size, state.min_raise, BIG_BLIND})
             target == Min({bet + by, all})
  <2>1. by \in Nat
    <3> DEFINE S == {size, state.min_raise, BIG_BLIND}
    <3>1. S \in SUBSET Nat /\ S # {}
      BY <1>3, <1>7, PokerAssumption
    <3>2. IsFiniteSet(S)
      <4> DEFINE one == {size}
                 two == one \cup {state.min_raise}
      <4>1. IsFiniteSet(one)
        BY FS_Singleton
      <4> HIDE DEF one
      <4>2. IsFiniteSet(two)
        BY <4>1, FS_AddElement
      <4> HIDE DEF two
      <4>3. IsFiniteSet(two \cup {BIG_BLIND})
        BY <4>2, FS_AddElement
      <4>4. S = two \cup {BIG_BLIND}
        BY DEF one, two
      <4> QED
        BY <4>3, <4>4
    <3>3. by = Max(S)
      OBVIOUS
    <3> HIDE DEF S
    <3>4. Max(S) \in S
      BY <3>1, <3>2, FiniteGreatest
    <3> QED
      BY <3>1, <3>3, <3>4
  <2>2. CommitTo(i, target, Max({target - bet, 0}))
    BY <1>7 DEF BetOrRaise, bet, all
  <2> HIDE DEF by
  <2>3. target \in Int
    <3>1. bet + by \in Int
      BY <1>3, <2>1
    <3> QED
      BY <1>3, <3>1, MinOfTwo
  <2> HIDE DEF target
  <2> QED
    BY <1>5, <2>2, <2>3
<1> QED
  BY <1>4, <1>5, <1>6, <1>7, <1>3

LEMMA CommitToTypes ==
    ASSUME TypeInv, NEW i \in Seats, NEW target, NEW raise, Asks(i, target, raise)
    PROVE  TypeInv' /\ NoDeal
<1> DEFINE t == Commit(RecordManualAction(state, i), i, FreshId(commits), FALSE,
                       target - state.seat[i].street_bet, target, raise)
           c == CommitTask(t, i)
<1>1. /\ target \in Int /\ raise \in Nat /\ target > state.seat[i].street_bet
      /\ Publish(t) /\ commits' = commits \cup {c}
      /\ UNCHANGED <<syncs, bank, bounds, minted>>
      /\ HandRuns(state) /\ state.seat[i].user \in Users
  BY DEF Asks, CommitTo
<1>2. ASSUME NEW x, x = t
      PROVE  \E r, p :
                /\ Rested(state, r) /\ CommitMade(r, x, i, p)
                /\ p.id \in Nat \ {0} /\ p.amount \in Nat \ {0}
                /\ CommitTask(x, i) = NewTask(p.id, x.seat[i].user, i, p.amount)
  <2>1. x = Commit(RecordManualAction(state, i), i, FreshId(commits), FALSE,
                   target - state.seat[i].street_bet, target, raise)
    BY <1>2, Zenon
  <2>2. target \in Int /\ raise \in Nat /\ target > state.seat[i].street_bet
    BY <1>1
  <2>3. CommitMakes(x, i, target, raise)
    BY <2>1, <2>2, CommitToMakes, Zenon
  <2> QED
    BY <2>3 DEF CommitMakes
<1> HIDE DEF t
<1>3. PICK r, p :
              /\ Rested(state, r) /\ CommitMade(r, t, i, p)
              /\ p.id \in Nat \ {0} /\ p.amount \in Nat \ {0}
              /\ c = NewTask(p.id, t.seat[i].user, i, p.amount)
  BY <1>2
<1> HIDE DEF c
<1>4. t \in SharedState /\ t.phase = state.phase /\ t.seat[i].user \in Users
  BY <1>1, <1>3 DEF CommitMade, Rested, SameTurn, SameButPending, SameHand
<1>5. c \in CommitType
  BY <1>3, <1>4, NewTaskType
<1>6. commits' \subseteq CommitType /\ IsFiniteSet(commits')
  BY <1>1, <1>5, InvTypes, FS_AddElement
<1> QED
  BY <1>1, <1>4, <1>6, InvTypes, PublishTypes

LEMMA AnswerTypes ==
    ASSUME TypeInv, NEW c \in commits,
           ApplyCommitSuccess(c) \/ ApplyCommitFailure(c) \/ CommitTooLate(c)
    PROVE  TypeInv' /\ NoDeal
<1> DEFINE others == commits \ {c}
<1>1. others \subseteq CommitType /\ IsFiniteSet(others)
  BY InvTypes, FS_Subset
<1>2. state \in SharedState /\ c \in CommitType /\ c.seat \in Seats /\ minted \in Int
  BY InvTypes DEF CommitType
<1>3. CASE ApplyCommitSuccess(c)
  <2> DEFINE t == InPot(state, c.seat)
             s == IF state.phase = "PostingBlinds" THEN BlindAnswered(t)
                  ELSE AdvanceAfterAction(t, c.seat)
  <2>1. Publish(s) /\ commits' = others /\ UNCHANGED <<syncs, bank, bounds, minted>>
    BY <1>3 DEF ApplyCommitSuccess
  <2>2. t \in SharedState /\ t.phase = state.phase
    BY <1>2, InPotFields DEF BetPlaced, SameSpot
  <2> HIDE DEF t
  <2>3. s \in SharedState
    BY <1>2, <2>2, BlindAnsweredType, AdvanceType
  <2>4. state.phase = "PostingBlinds" \/ s.phase # "PostingBlinds"
    <3> SUFFICES ASSUME state.phase # "PostingBlinds" PROVE s.phase # "PostingBlinds"
      OBVIOUS
    <3> DEFINE v == AdvanceAfterAction(t, c.seat)
    <3>1. Moves(t, v)
      BY <1>2, <2>2, AdvanceMoves
    <3> HIDE DEF v
    <3>2. v.phase # "PostingBlinds"
      BY <3>1 DEF Moves, PhaseMoves
    <3> QED
      BY <3>2 DEF v
  <2> HIDE DEF s, others
  <2> QED
    BY <1>1, <1>2, <2>1, <2>3, <2>4, PublishTypes
<1>4. CASE ApplyCommitFailure(c)
  <2> DEFINE t == [state EXCEPT !.seat[c.seat].pending = NoCommit]
             v == [t EXCEPT !.seat[c.seat].folded = TRUE]
             s == IF state.phase = "PostingBlinds" THEN BlindAnswered(v) ELSE t
  <2>1. Publish(s) /\ commits' = others /\ UNCHANGED <<syncs, bank, bounds, minted>>
    BY <1>4 DEF ApplyCommitFailure
  <2>2. t \in SharedState /\ t.phase = state.phase
    BY <1>2, PendingCleared DEF SameTurn
  <2> HIDE DEF t
  <2>3. v \in SharedState
    BY <1>2, <2>2, SeatFolded
  <2> HIDE DEF v
  <2>4. s \in SharedState
    BY <2>2, <2>3, BlindAnsweredType
  <2>5. state.phase = "PostingBlinds" \/ s.phase # "PostingBlinds"
    BY <2>2
  <2> HIDE DEF s, others
  <2> QED
    BY <1>1, <1>2, <2>1, <2>4, <2>5, PublishTypes
<1>5. CASE CommitTooLate(c)
  <2>1. Publish(state) /\ commits' = others /\ UNCHANGED <<syncs, bank, bounds>>
        /\ minted' = IF c.pc = "taken" THEN minted - c.amount ELSE minted
    BY <1>5 DEF CommitTooLate
  <2>2. minted' \in Int
    BY <1>2, <2>1 DEF CommitType
  <2> HIDE DEF others
  <2> QED
    BY <1>1, <1>2, <2>1, <2>2, PublishTypes
<1> QED
  BY <1>3, <1>4, <1>5

(* Steps that end in no Publish.                                           *)
LEMMA StateTypes ==
    ASSUME TypeInv, state' \in SharedState, state'.due = <<>>,
           state'.deadline # "none" => state'.countdown_seat \in Seats,
           commits' \subseteq CommitType, IsFiniteSet(commits'),
           settling' \subseteq TaskType, \A task \in settling' : IsFiniteSet(task.done),
           syncs' \subseteq [user : Users, balance : Nat],
           bank' \in [Users -> Nat], minted' \in Int, bounds' \in Instance
    PROVE  TypeInv'
BY DEF TypeInv, TypeOK

LEMMA TurnStateTypes ==
    ASSUME TypeInv, state' \in SharedState, SameTurn(state, state'),
           UNCHANGED <<commits, settling, bank, bounds, minted>>,
           syncs' \subseteq [user : Users, balance : Nat]
    PROVE  TypeInv' /\ NoDeal
<1>1. /\ state'.due = <<>>
      /\ state'.deadline # "none" => state'.countdown_seat \in Seats
      /\ NoDeal
  BY DEF SameTurn, TypeInv, TypeOK, NoDeal
<1>2. \A task \in settling : IsFiniteSet(task.done)
  BY DEF TypeInv
<1> QED
  BY <1>1, <1>2, InvTypes, StateTypes

LEMMA SameStateTypes ==
    ASSUME TypeInv, UNCHANGED <<state, settling>>, IsFiniteSet(commits'),
           commits' \subseteq CommitType, syncs' \subseteq [user : Users, balance : Nat],
           bank' \in [Users -> Nat], minted' \in Int, bounds' \in Instance
    PROVE  TypeInv' /\ NoDeal
BY DEF TypeInv, TypeOK, NoDeal

LEMMA SpendType ==
    ASSUME bounds \in Instance, NEW what \in {"hands", "failures", "spends", "syncs"},
           bounds[what] > 0, Spend(what)
    PROVE  bounds' \in Instance
BY DEF Instance, Spend

LEMMA TouchTypes ==
    ASSUME TypeInv, NEW u \in Users, TouchActivity(u)
    PROVE  TypeInv' /\ NoDeal
<1> DEFINE s == RecordActivity(state, u)
<1>1. Publish(s) /\ UNCHANGED <<commits, syncs, bank, bounds, minted>>
  BY DEF TouchActivity
<1>2. Quiet(state, s)
  BY InvTypes, RecordedQuiet
<1> HIDE DEF s
<1> QED
  BY <1>1, <1>2, QuietTypes

ToggledTable(u, i) == RecordActivity([state EXCEPT !.seat[i].auto_check_fold = ~@], u)
LEMMA ToggledTableQuiet ==
    ASSUME state \in SharedState, NEW u, NEW i \in Seats
    PROVE  Quiet(state, ToggledTable(u, i))
<1> DEFINE t == [state EXCEPT !.seat[i].auto_check_fold = ~@]
<1>1. Quiet(state, t)
  BY ToggledQuiet
<1> HIDE DEF t
<1>2. Quiet(t, RecordActivity(t, u))
  BY <1>1, RecordedQuiet DEF Quiet
<1>3. Quiet(state, RecordActivity(t, u))
  BY <1>1, <1>2, QuietOn
<1> QED
  BY <1>3 DEF ToggledTable, t

LEMMA ToggleTypes ==
    ASSUME TypeInv, NEW u \in Users, NEW i \in Seats, ToggleAutoCheckFold(u, i)
    PROVE  TypeInv' /\ NoDeal
<1>1. Publish(ToggledTable(u, i)) /\ UNCHANGED <<commits, syncs, bank, bounds, minted>>
  BY DEF ToggleAutoCheckFold, ToggledTable
<1> QED
  BY <1>1, InvTypes, ToggledTableQuiet, QuietTypes

LEMMA LeaveHandTypes ==
    ASSUME TypeInv, NEW u \in Users, NEW i \in Seats,
           LeaveDuringHand(u, i) \/ KickFolds(u, i)
    PROVE  TypeInv' /\ NoDeal
<1>1. CASE LeaveDuringHand(u, i)
  <2>1. Quiet(state, state)
    BY InvTypes DEF Quiet, SameTurn, SameHand
  <2> QED
    BY <1>1, <2>1, LeaveTypes DEF LeaveDuringHand
<1>2. CASE KickFolds(u, i)
  <2>1. Quiet(state, Wakes(state, i))
    BY InvTypes, WakesQuiet
  <2> QED
    BY <1>2, <2>1, LeaveTypes DEF KickFolds
<1> QED
  BY <1>1, <1>2

LEMMA KickSkippedTypes ==
    ASSUME TypeInv, NEW u \in Users, NEW i \in Seats, KickSkipped(u, i)
    PROVE  TypeInv' /\ NoDeal
<1>1. Quiet(state, state')
  BY InvTypes, WakesQuiet DEF KickSkipped
<1> QED
  BY <1>1, InvTypes, TurnStateTypes DEF KickSkipped, OnlyState, Quiet

(* sync_balance cuts stacks and nothing else.                              *)
LEMMA SyncQuiet ==
    ASSUME state \in SharedState, NEW x, x.balance \in Nat, SyncBalance(x)
    PROVE  Quiet(state, state')
<1> DEFINE stack(i) == Min({state.seat[i].stack, x.balance})
           new(i) == IF state.seat[i].user = x.user
                     THEN [state.seat[i] EXCEPT !.stack = stack(i)] ELSE state.seat[i]
           seats == [i \in Seats |-> new(i)]
<1>1. ASSUME NEW i \in Seats
      PROVE  new(i) \in SeatType /\ SameHand(state.seat[i], new(i))
  <2>1. state.seat[i] \in SeatType
    BY SeatIsTyped
  <2>2. stack(i) \in Int
    <3>1. state.seat[i].stack \in Int
      BY <2>1 DEF SeatType
    <3> QED
      BY <3>1, MinOfTwo
  <2> HIDE DEF stack
  <2>3. new(i) \in SeatType
    BY <2>1, <2>2 DEF SeatType
  <2> QED
    BY <2>1, <2>3 DEF SameHand, SeatType
<1>2. seats \in [Seats -> SeatType] /\ \A i \in Seats : seats[i] = new(i)
  <2> HIDE DEF new
  <2> QED
    BY <1>1
<1>3. state' = SeatsBecome(state, seats)
  BY DEF SyncBalance, SeatsBecome
<1> HIDE DEF seats, new
<1>4. state' \in SharedState /\ SameTurn(state, state') /\ state'.seat = seats
  BY <1>2, <1>3, SeatsBecomeType, SeatsBecomeFields
<1> QED
  BY <1>1, <1>2, <1>4 DEF Quiet

LEMMA BalanceTypes ==
    ASSUME TypeInv, BalanceStep
    PROVE  TypeInv' /\ NoDeal
<1> USE InvTypes
<1>1. ASSUME NEW u \in Users, SpendElsewhere(u) PROVE TypeInv' /\ NoDeal
  <2>1. bank' \in [Users -> Nat]
    BY <1>1 DEF SpendElsewhere, CanDeduct, Deduct
  <2>2. bounds' \in Instance
    BY <1>1, SpendType DEF SpendElsewhere
  <2>3. minted' \in Int /\ UNCHANGED <<state, commits, settling, syncs>>
    BY <1>1 DEF SpendElsewhere
  <2> QED
    BY <2>1, <2>2, <2>3, SameStateTypes
<1>2. ASSUME NEW u \in Users, SyncExternalChipBalance(u) PROVE TypeInv' /\ NoDeal
  <2>1. syncs' \subseteq [user : Users, balance : Nat]
    BY <1>2 DEF SyncExternalChipBalance
  <2>2. bounds' \in Instance
    BY <1>2, SpendType DEF SyncExternalChipBalance
  <2>3. UNCHANGED <<state, commits, settling, bank, minted>>
    BY <1>2 DEF SyncExternalChipBalance
  <2> QED
    BY <2>1, <2>2, <2>3, SameStateTypes
<1>3. ASSUME NEW x \in syncs, SyncBalance(x) PROVE TypeInv' /\ NoDeal
  <2>1. Quiet(state, state')
    BY <1>3, SyncQuiet
  <2>2. syncs' \subseteq [user : Users, balance : Nat]
    BY <1>3 DEF SyncBalance
  <2> QED
    BY <1>3, <2>1, <2>2, TurnStateTypes DEF SyncBalance, Quiet
<1> QED
  BY <1>1, <1>2, <1>3 DEF BalanceStep

LEMMA DeadlineTypes ==
    ASSUME TypeInv, DeadlinePasses
    PROVE  TypeInv' /\ NoDeal
<1>1. /\ state' \in SharedState /\ state'.due = <<>> /\ state'.phase = state.phase
      /\ state'.countdown_seat = state.countdown_seat
  BY InvTypes DEF DeadlinePasses, SharedState
<1>2. state.countdown_seat \in Seats
  BY DEF TypeInv, DeadlinePasses
<1>3. \A task \in settling : IsFiniteSet(task.done)
  BY DEF TypeInv
<1>4. UNCHANGED <<commits, settling, syncs, bank, bounds, minted>>
  BY DEF DeadlinePasses, OnlyState
<1> QED
  BY <1>1, <1>2, <1>3, <1>4, InvTypes, StateTypes DEF NoDeal

(* The seat that sit takes.                                                *)
Seated(u) == [EmptySeat EXCEPT !.user = u, !.stack = STARTING_STACK, !.armed = TRUE]
LEMMA SitFacts ==
    ASSUME state \in SharedState, NEW u \in Users, Sit(u)
    PROVE  /\ \E i \in Seats : state.seat[i].user = NoUser
                               /\ SeatChanged(state, state', i, Seated(u))
           /\ OnlyState
<1> DEFINE free == Seats \ Occupied(state)
           i == Min(free)
<1>1. free # {} /\ state' = SeatBecomes(state, i, Seated(u)) /\ OnlyState
  BY DEF Sit, SeatBecomes, Seated
<1>2. i \in free
  BY <1>1, MinIsLeast DEF Seats
<1> HIDE DEF i, free
<1>3. i \in Seats /\ state.seat[i].user = NoUser
  BY <1>2 DEF free, Occupied
<1>4. Seated(u) \in SeatType
  <2> DEFINE one == [EmptySeat EXCEPT !.user = u]
             two == [one EXCEPT !.stack = STARTING_STACK]
  <2>1. one \in SeatType
    BY EmptySeatType DEF SeatType
  <2> HIDE DEF one
  <2>2. two \in SeatType
    BY <2>1, PokerAssumption DEF SeatType
  <2> HIDE DEF two
  <2>3. [two EXCEPT !.armed = TRUE] \in SeatType
    BY <2>2 DEF SeatType
  <2> QED
    BY <2>3 DEF Seated, one, two
<1>5. SeatChanged(state, state', i, Seated(u))
  BY <1>1, <1>3, <1>4, SeatBecomesChanged
<1> QED
  BY <1>1, <1>3, <1>5

LEMMA SitTypes ==
    ASSUME TypeInv, NEW u \in Users, Sit(u)
    PROVE  TypeInv' /\ NoDeal
<1>1. state' \in SharedState /\ SameTurn(state, state') /\ OnlyState
  BY InvTypes, SitFacts DEF SeatChanged
<1> QED
  BY <1>1, InvTypes, TurnStateTypes DEF OnlyState

(* The bank answers: the commit is the same but for that.                  *)
LEMMA AnsweredFacts ==
    ASSUME NEW c \in commits, commits \subseteq CommitType, IsFiniteSet(commits),
           NEW pc \in {"taken", "refused"}, Answered(c, pc)
    PROVE  /\ commits' \subseteq CommitType /\ IsFiniteSet(commits')
           /\ \E d \in CommitType :
                 /\ commits' = (commits \ {c}) \cup {d}
                 /\ d.id = c.id /\ d.seat = c.seat /\ d.user = c.user /\ d.amount = c.amount
<1> DEFINE d == [c EXCEPT !.pc = pc]
           others == commits \ {c}
<1>1. /\ d \in CommitType
      /\ d.id = c.id /\ d.seat = c.seat /\ d.user = c.user /\ d.amount = c.amount
  BY DEF CommitType
<1>2. commits' = others \cup {d}
  BY DEF Answered
<1>3. IsFiniteSet(others) /\ others \subseteq CommitType
  BY FS_Subset
<1> HIDE DEF d
<1>4. IsFiniteSet(commits') /\ commits' \subseteq CommitType
  BY <1>1, <1>2, <1>3, FS_AddElement
<1> QED
  BY <1>1, <1>2, <1>4

DebitAnswered(c) == \E pc \in {"taken", "refused"} : Answered(c, pc)
LEMMA DebitFacts ==
    ASSUME TypeInv, NEW c \in commits, DebitBet(c)
    PROVE  /\ DebitAnswered(c) /\ UNCHANGED <<state, settling, syncs>>
           /\ bank' \in [Users -> Nat] /\ minted' \in Int
           /\ bounds' \in Instance
           /\ bounds'.leavers = bounds.leavers /\ bounds'.hands = bounds.hands
<1>1. /\ bank \in [Users -> Nat] /\ minted \in Int /\ bounds \in Instance
      /\ c.user \in Users /\ c.amount \in Nat
  BY InvTypes DEF CommitType
<1>2. CanDeduct(bank, c.user, c.amount) => Deduct(bank, c.user, c.amount) \in [Users -> Nat]
  BY <1>1 DEF CanDeduct, Deduct
<1>3. ASSUME bounds.failures > 0, Spend("failures")
      PROVE  /\ bounds' \in Instance
             /\ bounds'.leavers = bounds.leavers /\ bounds'.hands = bounds.hands
  BY <1>1, <1>3 DEF Spend, Instance
<1>4. UNCHANGED bounds => /\ bounds' \in Instance
                          /\ bounds'.leavers = bounds.leavers /\ bounds'.hands = bounds.hands
  BY <1>1
<1>5. DebitAnswered(c) /\ UNCHANGED <<state, settling, syncs>>
  BY DEF DebitBet, DebitAnswered
<1>6. CASE /\ CanDeduct(bank, c.user, c.amount)
           /\ bank' = Deduct(bank, c.user, c.amount) /\ UNCHANGED <<bounds, minted>>
  BY <1>1, <1>2, <1>4, <1>5, <1>6
<1>7. CASE UNCHANGED <<bank, bounds, minted>>
  BY <1>1, <1>4, <1>5, <1>7
<1>8. CASE /\ bounds.failures > 0 /\ Spend("failures")
           /\ \/ UNCHANGED <<bank, minted>>
              \/ /\ CanDeduct(bank, c.user, c.amount)
                 /\ bank' = Deduct(bank, c.user, c.amount)
                 /\ minted' = minted - c.amount
  BY <1>1, <1>2, <1>3, <1>5, <1>8
<1> QED
  BY <1>6, <1>7, <1>8 DEF DebitBet

LEMMA DebitTypes ==
    ASSUME TypeInv, NEW c \in commits, DebitBet(c)
    PROVE  TypeInv' /\ NoDeal
<1>1. commits' \subseteq CommitType /\ IsFiniteSet(commits')
  BY InvTypes, DebitFacts, AnsweredFacts DEF DebitAnswered
<1> QED
  BY <1>1, InvTypes, DebitFacts, SameStateTypes

(* What the settlement tasks write.                                        *)
LEMMA PersistFacts ==
    ASSUME TypeInv, NEW task \in settling, PersistSettlement(task)
    PROVE  /\ UNCHANGED <<state, commits, syncs>>
           /\ bank' \in [Users -> Nat] /\ minted' \in Int /\ bounds' \in Instance
           /\ bounds'.leavers = bounds.leavers /\ bounds'.hands = bounds.hands
           /\ \E new \in TaskType : IsFiniteSet(new.done) /\ Becomes(task, new)
<1> DEFINE x == Head(task.todo)
           rest == [task EXCEPT !.todo = Tail(@)]
           paid == IF x.credit = 0 THEN RestoreFloor(bank, x.user)
                   ELSE AddBonus(bank, x.user, x.credit)
           grant == IF x.credit = 0 THEN FloorGrant(bank, x.user) ELSE 0
           done == [rest EXCEPT !.done = @ \cup {x}]
           failed == [rest EXCEPT !.failed = TRUE]
<1>1. /\ task \in TaskType /\ IsFiniteSet(task.done) /\ bank \in [Users -> Nat]
      /\ minted \in Int /\ bounds \in Instance
  BY InvTypes DEF TypeInv
<1>2. task.todo # <<>> /\ UNCHANGED <<state, commits, syncs>>
  BY DEF PersistSettlement
<1>3. x \in Settlement /\ rest \in TaskType /\ rest.done = task.done
  <2>1. task.todo \in Seq(Settlement)
    BY <1>1 DEF TaskType
  <2>2. x \in Settlement /\ Tail(task.todo) \in Seq(Settlement)
    BY <1>2, <2>1
  <2> HIDE DEF x
  <2>3. [task EXCEPT !.todo = Tail(task.todo)] \in TaskType
    BY <1>1, <2>2 DEF TaskType
  <2>4. rest.done = task.done
    BY <1>1 DEF TaskType
  <2> QED
    BY <2>2, <2>3, <2>4
<1>4. \/ bank' = paid /\ minted' = minted + grant /\ Becomes(task, done) /\ UNCHANGED bounds
      \/ /\ bounds.failures > 0 /\ Spend("failures") /\ UNCHANGED bank
         /\ minted' = minted - x.credit /\ Becomes(task, failed)
  BY DEF PersistSettlement
<1> HIDE DEF x, rest
<1>5. x.credit \in Nat /\ x.user \in Users
  BY <1>3 DEF Settlement
<1>6. FloorGrant(bank, x.user) \in Nat
  BY <1>1, <1>5, ChipsAssumption DEF FloorGrant
<1>7. paid \in [Users -> Nat] /\ grant \in Nat
  BY <1>1, <1>5, <1>6 DEF RestoreFloor, AddBonus
<1>8. done \in TaskType /\ done.done = task.done \cup {x}
  BY <1>3 DEF TaskType
<1>9. failed \in TaskType /\ failed.done = task.done
  BY <1>3 DEF TaskType
<1>10. IsFiniteSet(task.done \cup {x})
  BY <1>1, FS_AddElement
<1> HIDE DEF done, failed, paid, grant
<1>11. CASE bank' = paid /\ minted' = minted + grant /\ Becomes(task, done) /\ UNCHANGED bounds
  <2>1. IsFiniteSet(done.done)
    BY <1>8, <1>10
  <2>2. minted' \in Int
    BY <1>1, <1>7, <1>11
  <2> QED
    BY <1>1, <1>2, <1>7, <1>8, <1>11, <2>1, <2>2
<1>12. CASE /\ bounds.failures > 0 /\ Spend("failures") /\ UNCHANGED bank
            /\ minted' = minted - x.credit /\ Becomes(task, failed)
  <2>1. /\ bounds' \in Instance
        /\ bounds'.leavers = bounds.leavers /\ bounds'.hands = bounds.hands
    BY <1>1, <1>12 DEF Spend, Instance
  <2> QED
    BY <1>1, <1>2, <1>5, <1>9, <1>12, <2>1
<1> QED
  BY <1>4, <1>11, <1>12

LEMMA PersistTypes ==
    ASSUME TypeInv, NEW task \in settling, PersistSettlement(task)
    PROVE  TypeInv' /\ NoDeal
<1>1. PICK new \in TaskType : IsFiniteSet(new.done) /\ Becomes(task, new)
  BY PersistFacts
<1>2. settling' \subseteq TaskType /\ \A y \in settling' : IsFiniteSet(y.done)
  BY <1>1, InvTypes DEF Becomes, TypeInv
<1> QED
  BY <1>2, PersistFacts, InvTypes, StateTypes DEF NoDeal, TypeInv

(* What a task that wrote every account reports: winnings lift the stacks. *)
LEMMA WonType ==
    ASSUME NEW task \in TaskType, IsFiniteSet(task.done), NEW u
    PROVE  Won(task, u) \in Nat
<1> DEFINE won == {x \in task.done : x.user = u}
           f == [x \in won |-> x.credit]
<1>1. IsFiniteSet(won)
  BY FS_Subset
<1>2. \A x \in won : f[x] \in Nat
  BY DEF TaskType, Settlement
<1>3. Won(task, u) = SumFunctionOnSet(f, won)
  BY DEF Won
<1> HIDE DEF won, f
<1> QED
  BY <1>1, <1>2, <1>3, SumNat

(* The table on which a settlement is no longer pending.                   *)
SettledTable(t) == [t EXCEPT !.settlement_pending = FALSE]
SettledFields(t, v) ==
    /\ v \in SharedState /\ v.seat = t.seat /\ ~v.settlement_pending
    /\ v.phase = t.phase /\ v.active_seat = t.active_seat
    /\ v.current_bet = t.current_bet /\ v.min_raise = t.min_raise
    /\ v.deadline = t.deadline /\ v.countdown_seat = t.countdown_seat
    /\ v.timer_task = t.timer_task /\ v.due = t.due /\ v.pending_blinds = t.pending_blinds
LEMMA SettledTableFields ==
    ASSUME NEW t \in SharedState
    PROVE  SettledFields(t, SettledTable(t))
BY DEF SettledTable, SettledFields, SharedState

(* The stacks change, those who were to leave are gone, and nothing else.  *)
LEMMA CompleteFacts ==
    ASSUME TypeInv, NEW task \in settling, CompleteSettlements(task)
    PROVE  \E t, gone, v : /\ Quiet(state, t) /\ Cleared(t, v, gone)
                           /\ SettledFields(v, state')
<1> DEFINE new(i) == IF i \in Occupied(state)
                     THEN [state.seat[i] EXCEPT !.stack = @ + Won(task, state.seat[i].user)]
                     ELSE state.seat[i]
           seats == [i \in Seats |-> new(i)]
           t == SeatsBecome(state, seats)
           gone == LeavingSeats(t)
           v == RemoveSeats(t, gone)
<1>1. state \in SharedState /\ task \in TaskType /\ IsFiniteSet(task.done)
  BY InvTypes DEF TypeInv
<1>2. ASSUME NEW i \in Seats PROVE new(i) \in SeatType /\ SameHand(state.seat[i], new(i))
  <2>1. state.seat[i] \in SeatType
    BY <1>1, SeatIsTyped
  <2>2. state.seat[i].stack + Won(task, state.seat[i].user) \in Int
    <3>1. state.seat[i].stack \in Int
      BY <2>1 DEF SeatType
    <3>2. Won(task, state.seat[i].user) \in Nat
      BY <1>1, WonType
    <3> QED
      BY <3>1, <3>2
  <2>3. new(i) \in SeatType
    BY <2>1, <2>2 DEF SeatType
  <2> QED
    BY <2>1, <2>3 DEF SameHand, SeatType
<1>3. state' = SettledTable(v)
  BY DEF CompleteSettlements, SeatsBecome, SettledTable
<1>4. seats \in [Seats -> SeatType] /\ \A i \in Seats : seats[i] = new(i)
  <2> HIDE DEF new
  <2> QED
    BY <1>2
<1> HIDE DEF seats, new
<1>5. t \in SharedState /\ SameTurn(state, t) /\ t.seat = seats
  BY <1>1, <1>4, SeatsBecomeType, SeatsBecomeFields
<1> HIDE DEF t
<1>6. Quiet(state, t)
  BY <1>2, <1>4, <1>5 DEF Quiet
<1> HIDE DEF gone
<1>7. Cleared(t, v, gone)
  BY <1>5, RemoveSeatsCleared
<1> HIDE DEF v
<1>8. SettledFields(v, state')
  BY <1>3, <1>7, SettledTableFields DEF Cleared
<1> QED
  BY <1>6, <1>7, <1>8

LEMMA ReportTypes ==
    ASSUME TypeInv, NEW task \in settling, CompleteSettlements(task) \/ SettlementFailed(task)
    PROVE  TypeInv' /\ NoDeal
<1>1. \E v \in SharedState : SameTurn(state, v) /\ SettledFields(v, state')
  <2>1. CASE CompleteSettlements(task)
    <3>1. PICK t, gone, v : /\ Quiet(state, t) /\ Cleared(t, v, gone)
                            /\ SettledFields(v, state')
      BY <2>1, CompleteFacts
    <3>2. v \in SharedState /\ SameTurn(state, v)
      BY <3>1 DEF Quiet, Cleared, SameTurn
    <3> QED
      BY <3>1, <3>2
  <2>2. CASE SettlementFailed(task)
    <3>1. state \in SharedState /\ SameTurn(state, state)
      BY InvTypes DEF SameTurn
    <3>2. SettledFields(state, state')
      BY <2>2, <3>1, SettledTableFields DEF SettlementFailed, SettledTable
    <3> QED
      BY <3>1, <3>2
  <2> QED
    BY <2>1, <2>2
<1>2. settling' \subseteq settling /\ UNCHANGED <<commits, syncs, bank, bounds, minted>>
  BY DEF CompleteSettlements, SettlementFailed
<1>3. /\ state' \in SharedState /\ state'.due = state.due /\ state'.phase = state.phase
      /\ state'.deadline = state.deadline /\ state'.countdown_seat = state.countdown_seat
  BY <1>1 DEF SameTurn, SettledFields
<1> QED
  BY <1>2, <1>3, InvTypes, StateTypes DEF TypeInv, NoDeal

(* start_hand.                                                             *)
LeaversCleared ==
    \A i \in Seats : state.seat[i].leave_after_hand => state'.seat[i].user = NoUser

Start(s, u) ==
    \/ /\ Cardinality(Playable(s)) >= 2 /\ bounds.hands > 0 /\ Spend("hands")
       /\ DealHand(s, u)
    \/ /\ Cardinality(Playable(s)) < 2 /\ state' = RecordActivity(s, u)
       /\ UNCHANGED <<commits, bounds>>

LEMMA StartHandFacts ==
    ASSUME state \in SharedState, NEW u \in Users, StartHand(u)
    PROVE  /\ MayStart(u) /\ UNCHANGED <<settling, syncs, bank, minted>>
           /\ \E s : Cleared(state, s, LeavingSeats(state)) /\ Start(s, u)
<1> DEFINE gone == LeavingSeats(state)
           s == RemoveSeats(state, gone)
<1>1. MayStart(u) /\ UNCHANGED <<settling, syncs, bank, minted>> /\ Start(s, u)
  BY DEF StartHand, Start
<1>2. Cleared(state, s, gone)
  BY RemoveSeatsCleared
<1> QED
  BY <1>1, <1>2

LEMMA StartTypes ==
    ASSUME TypeInv, NEW u \in Users, StartHand(u)
    PROVE  TypeInv' /\ (NoDeal \/ LeaversCleared)
<1>1. MayStart(u) /\ UNCHANGED <<settling, syncs, bank, minted>>
  BY InvTypes, StartHandFacts
<1>2. PICK s : Cleared(state, s, LeavingSeats(state)) /\ Start(s, u)
  BY InvTypes, StartHandFacts
<1>3. s \in SharedState /\ SameTurn(state, s)
  BY <1>2 DEF Cleared
<1>4. \A task \in settling' : IsFiniteSet(task.done)
  BY <1>1 DEF TypeInv
<1>5. CASE /\ Cardinality(Playable(s)) >= 2 /\ bounds.hands > 0 /\ Spend("hands")
           /\ DealHand(s, u)
  <2>1. PICK a, b \in Seats, small, big, id1, id2 \in Nat \ {0} :
              /\ s.seat[a].user \in Users /\ s.seat[b].user \in Users
              /\ HandDealt(s, state', a, b, BlindCommit(id1, small), BlindCommit(id2, big))
              /\ commits' = commits \cup {NewTask(id1, s.seat[a].user, a, small),
                                          NewTask(id2, s.seat[b].user, b, big)}
    BY <1>3, <1>5, InvTypes, DealHandFacts
  <2>2. commits' \subseteq CommitType /\ IsFiniteSet(commits')
    <3> DEFINE x == NewTask(id1, s.seat[a].user, a, small)
               y == NewTask(id2, s.seat[b].user, b, big)
               one == commits \cup {x}
    <3>1. x \in CommitType /\ y \in CommitType
      BY <2>1, NewTaskType
    <3>2. commits' = one \cup {y}
      BY <2>1
    <3> HIDE DEF x, y
    <3>3. IsFiniteSet(one) /\ one \subseteq CommitType
      BY <3>1, InvTypes, FS_AddElement
    <3> HIDE DEF one
    <3>4. IsFiniteSet(one \cup {y})
      BY <3>3, FS_AddElement
    <3> QED
      BY <3>1, <3>2, <3>3, <3>4
  <2>3. bounds' \in Instance
    BY <1>5, InvTypes, SpendType
  <2>4. state' \in SharedState /\ state'.due = <<>> /\ state'.deadline = "none"
    BY <1>3, <2>1, InvTypes DEF HandDealt, SameTurn
  <2>5. TypeInv'
    BY <1>1, <1>4, <2>2, <2>3, <2>4, InvTypes, StateTypes
  <2>6. LeaversCleared
    <3> SUFFICES ASSUME NEW i \in Seats, state.seat[i].leave_after_hand
                 PROVE  state'.seat[i].user = NoUser
      BY DEF LeaversCleared
    <3>1. s.seat[i] = EmptySeat
      BY <1>2 DEF Cleared, LeavingSeats
    <3>2. state'.seat[i].user = s.seat[i].user
      BY <2>1 DEF HandDealt, DealtSeat
    <3> QED
      BY <3>1, <3>2 DEF EmptySeat
  <2> QED
    BY <2>5, <2>6
<1>6. CASE /\ Cardinality(Playable(s)) < 2 /\ state' = RecordActivity(s, u)
           /\ UNCHANGED <<commits, bounds>>
  <2>1. Quiet(s, state')
    BY <1>3, <1>6, RecordedQuiet
  <2>2. state' \in SharedState /\ SameTurn(state, state')
    BY <1>3, <2>1 DEF Quiet, SameTurn
  <2> QED
    BY <1>1, <1>6, <2>2, InvTypes, TurnStateTypes
<1> QED
  BY <1>2, <1>5, <1>6 DEF Start

(* The tables of the instances.                                            *)
FirstSeat(f, i) ==
    IF f[i] = NoUser THEN EmptySeat
    ELSE [EmptySeat EXCEPT !.user = f[i], !.armed = TRUE, !.stack = bounds.stacks[f[i]]]

LEMMA InitFacts ==
    ASSUME Init
    PROVE  /\ state \in SharedState /\ state.due = <<>> /\ state.phase = "Waiting"
           /\ state.deadline = "none" /\ ~state.timer_task /\ ~state.settlement_pending
           /\ \A i \in Seats : state.seat[i].pending = NoCommit
           /\ commits = {} /\ settling = {} /\ syncs = {}
           /\ bank \in [Users -> Nat] /\ minted = 0
           /\ bounds \in Instances /\ bounds \in Instance
<1>1. /\ commits = {} /\ settling = {} /\ syncs = {} /\ minted = 0
      /\ bounds \in Instances /\ bounds \in Instance
  BY PokerAssumption DEF Init
<1>2. bank \in [Users -> Nat]
  BY ChipsAssumption DEF Init, Ensured
<1>3. PICK f \in [Seats -> Users \cup {NoUser}] :
          state = [phase |-> "Waiting", seat |-> [i \in Seats |-> FirstSeat(f, i)],
                   dealer_button |-> NoSeat, big_blind_seat |-> NoSeat,
                   active_seat |-> NoSeat, current_bet |-> 0, min_raise |-> BIG_BLIND,
                   pending_blinds |-> 0, deadline |-> "none", countdown_seat |-> NoSeat,
                   timer_task |-> FALSE, settlement_pending |-> FALSE, due |-> <<>>]
  BY DEF Init, InitialSeats, FirstSeat
<1>4. ASSUME NEW i \in Seats
      PROVE  FirstSeat(f, i) \in SeatType /\ FirstSeat(f, i).pending = NoCommit
  <2>1. CASE f[i] = NoUser
    BY <2>1, EmptySeatType DEF FirstSeat, EmptySeat
  <2>2. CASE f[i] # NoUser
    <3> DEFINE one == [EmptySeat EXCEPT !.user = f[i]]
               two == [one EXCEPT !.armed = TRUE]
               x == [two EXCEPT !.stack = bounds.stacks[f[i]]]
    <3>1. f[i] \in Users
      BY <2>2
    <3>2. bounds.stacks[f[i]] \in Int
      BY <1>1, <3>1 DEF Instance
    <3>3. one \in SeatType /\ one.pending = NoCommit
      BY <3>1, EmptySeatType DEF SeatType, EmptySeat
    <3> HIDE DEF one
    <3>4. two \in SeatType /\ two.pending = NoCommit
      BY <3>3 DEF SeatType
    <3> HIDE DEF two
    <3>5. x \in SeatType /\ x.pending = NoCommit
      BY <3>2, <3>4 DEF SeatType
    <3>6. FirstSeat(f, i) = x
      BY <2>2 DEF FirstSeat, one, two
    <3> QED
      BY <3>5, <3>6
  <2> QED
    BY <2>1, <2>2
<1> DEFINE seats == [i \in Seats |-> FirstSeat(f, i)]
<1>5. seats \in [Seats -> SeatType] /\ \A i \in Seats : seats[i].pending = NoCommit
  BY <1>4
<1>6. /\ state.seat = seats /\ state.due = <<>> /\ state.phase = "Waiting"
      /\ state.deadline = "none" /\ ~state.timer_task /\ ~state.settlement_pending
  BY <1>3
<1> HIDE DEF seats
<1>7. state \in SharedState
  <2>1. state = [phase |-> "Waiting", seat |-> seats,
                 dealer_button |-> NoSeat, big_blind_seat |-> NoSeat,
                 active_seat |-> NoSeat, current_bet |-> 0, min_raise |-> BIG_BLIND,
                 pending_blinds |-> 0, deadline |-> "none", countdown_seat |-> NoSeat,
                 timer_task |-> FALSE, settlement_pending |-> FALSE, due |-> <<>>]
    BY <1>3 DEF seats
  <2> QED
    BY <1>5, <2>1, PokerAssumption DEF SharedState, Phases
<1> QED
  BY <1>1, <1>2, <1>5, <1>6, <1>7

(***************************************************************************)
(* In every instance, every step keeps the types of the table, its tasks   *)
(* and the accounts; and only start_hand deals, to nobody marked to leave. *)
(***************************************************************************)
LEMMA InitTypes == Init => TypeInv
<1> SUFFICES ASSUME Init PROVE TypeInv
  OBVIOUS
<1> QED
  <2>1. IsFiniteSet(commits)
    BY InitFacts, FS_EmptySet
  <2>2. TypeOK
    BY InitFacts DEF TypeOK
  <2> QED
    BY <2>1, <2>2, InitFacts DEF TypeInv

LEMMA StepTypes ==
    ASSUME TypeInv, [Next]_vars
    PROVE  TypeInv' /\ (NoDeal \/ LeaversCleared)
<1>1. CASE UNCHANGED vars
  BY <1>1, InvTypes DEF vars, TypeInv, TypeOK, NoDeal
<1>2. CASE SeatStep
  <2>1. PICK u \in Users :
            \/ Sit(u) \/ StartHand(u) \/ TouchActivity(u)
            \/ \E i \in Seats :
                  LeaveDuringHand(u, i) \/ LeaveTable(u, i) \/ ToggleAutoCheckFold(u, i)
    BY <1>2 DEF SeatStep
  <2>2. CASE Sit(u)
    BY <2>2, SitTypes
  <2>3. CASE StartHand(u)
    BY <2>3, StartTypes
  <2>4. CASE TouchActivity(u)
    BY <2>4, TouchTypes
  <2>5. ASSUME NEW i \in Seats, LeaveDuringHand(u, i) PROVE TypeInv' /\ NoDeal
    BY <2>5, LeaveHandTypes
  <2>6. ASSUME NEW i \in Seats, LeaveTable(u, i) PROVE TypeInv' /\ NoDeal
    BY <2>6, ClearedTypes DEF LeaveTable
  <2>7. ASSUME NEW i \in Seats, ToggleAutoCheckFold(u, i) PROVE TypeInv' /\ NoDeal
    BY <2>7, ToggleTypes
  <2> QED
    BY <2>1, <2>2, <2>3, <2>4, <2>5, <2>6, <2>7
<1>3. CASE TurnStep
  <2>1. PICK u \in Users, i \in Seats :
            \/ Check(u, i) \/ Fold(u, i)
            \/ Call(u, i) \/ AllIn(u, i) \/ \E size \in RaiseSizes : BetOrRaise(u, i, size)
    BY <1>3 DEF TurnStep
  <2>2. CASE Check(u, i)
    BY <2>2, CheckTypes
  <2>3. CASE Fold(u, i)
    BY <2>3, FoldTypes
  <2>4. CASE Call(u, i) \/ AllIn(u, i) \/ \E size \in RaiseSizes : BetOrRaise(u, i, size)
    BY <2>4, CommitAsked, CommitToTypes
  <2> QED
    BY <2>1, <2>2, <2>3, <2>4
<1>4. CASE CommitStep
  BY <1>4, DebitTypes, AnswerTypes DEF CommitStep
<1>5. CASE TimerStep
  BY <1>5, DeadlineTypes, TimeoutTypes DEF TimerStep
<1>6. CASE KickStep
  <2>1. PICK u \in Users, i \in Seats :
            KickFolds(u, i) \/ KickRemoves(u, i) \/ KickSkipped(u, i)
    BY <1>6 DEF KickStep
  <2>2. CASE KickRemoves(u, i)
    BY <2>2, ClearedTypes DEF KickRemoves
  <2> QED
    BY <2>1, <2>2, LeaveHandTypes, KickSkippedTypes
<1>7. CASE SettleStep
  BY <1>7, PersistTypes, ReportTypes DEF SettleStep
<1>8. CASE BalanceStep
  BY <1>8, BalanceTypes
<1> QED
  BY <1>1, <1>2, <1>3, <1>4, <1>5, <1>6, <1>7, <1>8 DEF Next

(* The table, the tasks and the accounts of every instance keep their      *)
(* types: whatever the players, the timer, the kicks and the bank do, no   *)
(* bet, commit, credit or balance is ever negative.                        *)
THEOREM PokerTypes == Spec => []TypeOK
<1>1. Init => TypeInv
  BY InitTypes
<1>2. TypeInv /\ [Next]_vars => TypeInv'
  BY StepTypes
<1>3. TypeInv => TypeOK
  BY DEF TypeInv
<1> QED
  BY <1>1, <1>2, <1>3, PTL DEF Spec

(* In every instance, start_hand clears the seats of those marked to leave *)
(* before it deals, and nothing else begins a hand (svc.rs, start_hand).   *)
THEOREM LeaversLeave == Spec => LeaversAreNotDealt
<1>1. Init => TypeInv
  BY InitTypes
<1>2. TypeInv /\ [Next]_vars => TypeInv'
  BY StepTypes
<1>3. TypeInv /\ [Next]_vars =>
        [state'.phase = "PostingBlinds" /\ state.phase # "PostingBlinds" =>
            \A i \in Seats : state.seat[i].leave_after_hand =>
                state'.seat[i].user = NoUser]_vars
  BY StepTypes DEF NoDeal, LeaversCleared
<1> QED
  BY <1>1, <1>2, <1>3, PTL DEF Spec, LeaversAreNotDealt

-------------------------------------------------------------------------------
(* Every step keeps the invariant.                                         *)
Kept == TableInv' /\ (bounds.leavers = {} => Reopened(state, state'))

LEMMA TableInvKept ==
    ASSUME TypeInv', TableGood(state', commits'), IdsDiffer(commits'), OneHandToLeave',
           bounds'.leavers = bounds.leavers
    PROVE  TableInv'
BY DEF TableInv, TypeInv, TableGood, CommitsServed

LEMMA PublishKept ==
    ASSUME TypeInv', TableInv, NEW s, SectionGood(s, commits), Publish(s),
           UNCHANGED <<commits, syncs, bank, bounds, minted>>
    PROVE  Kept
<1>1. minted' \in Int
  BY DEF TypeInv, TypeOK
<1> QED
  BY <1>1, PublishInv DEF Kept

LEMMA QuietPublishKept ==
    ASSUME TypeInv', TableInv, NEW s, Quiet(state, s), Publish(s),
           UNCHANGED <<commits, syncs, bank, bounds, minted>>
    PROVE  Kept
BY QuietSection, PublishKept

LEMMA PlayedKept ==
    ASSUME TypeInv', TableInv, NEW u \in Users, NEW i \in Seats, Check(u, i) \/ Fold(u, i)
    PROVE  Kept
<1> DEFINE r == RecordManualAction(state, i)
           checked == AdvanceAfterAction([r EXCEPT !.seat[i].acted = TRUE], i)
           folded == AdvanceAfterAction(FoldSeat(r, i), i)
<1>1. CASE Check(u, i)
  <2>1. SectionGood(checked, commits)
    BY <1>1, CheckSection DEF Check
  <2>2. Publish(checked) /\ UNCHANGED <<commits, syncs, bank, bounds, minted>>
    BY <1>1 DEF Check
  <2> HIDE DEF checked
  <2> QED
    BY <2>1, <2>2, PublishKept
<1>2. CASE Fold(u, i)
  <2>1. SectionGood(folded, commits)
    BY <1>2, FoldSection DEF Fold
  <2>2. Publish(folded) /\ UNCHANGED <<commits, syncs, bank, bounds, minted>>
    BY <1>2 DEF Fold
  <2> HIDE DEF folded
  <2> QED
    BY <2>1, <2>2, PublishKept
<1> QED
  BY <1>1, <1>2

LEMMA TimeoutKept ==
    ASSUME TypeInv, TypeInv', TableInv, TimeoutActiveAction
    PROVE  Kept
<1>1. /\ HandRuns(state) /\ state.deadline = "due" /\ state.active_seat = state.countdown_seat
      /\ UNCHANGED <<commits, syncs, bank, bounds, minted>>
  BY TimeoutFacts
<1>2. PICK missed \in 0 .. MAX_MISSED_ACTIONS, leaves \in BOOLEAN :
          Publish(CheckOrFold(Missed(state.active_seat, missed, leaves), state.active_seat))
  BY TimeoutFacts
<1> DEFINE i == state.active_seat
           s == CheckOrFold(Missed(i, missed, leaves), i)
<1>3. SectionGood(s, commits)
  BY <1>1, TimeoutSection DEF Missed
<1>4. Publish(s)
  BY <1>2
<1> HIDE DEF s
<1> QED
  BY <1>1, <1>3, <1>4, PublishKept

LEMMA LeaveHandKept ==
    ASSUME TypeInv', TableInv, NEW u \in Users, NEW i \in Seats,
           LeaveDuringHand(u, i) \/ KickFolds(u, i)
    PROVE  Kept
<1>1. PICK v : Quiet(state, v) /\ Publish(FoldAndLeave(v, i))
  <2>1. Quiet(state, state) /\ Quiet(state, Wakes(state, i))
    BY InvTable, WakesQuiet DEF Quiet, SameTurn, SameHand
  <2> QED
    BY <2>1 DEF LeaveDuringHand, KickFolds
<1>2. HandRuns(state) /\ bounds.leavers # {} /\ UNCHANGED <<commits, syncs, bank, bounds, minted>>
  BY DEF LeaveDuringHand, KickFolds, Idle
<1>3. SectionGood(FoldAndLeave(v, i), commits)
  BY <1>1, <1>2, FoldAndLeaveSection
<1> QED
  BY <1>1, <1>2, <1>3, PublishKept

LEMMA ClearKept ==
    ASSUME TypeInv', TableInv, NEW u \in Users, NEW i \in Seats,
           LeaveTable(u, i) \/ KickRemoves(u, i)
    PROVE  Kept
<1> DEFINE s == RemoveSeats(state, {i})
<1>1. Publish(s) /\ UNCHANGED <<commits, syncs, bank, bounds, minted>>
  BY DEF LeaveTable, KickRemoves
<1>2. SectionGood(s, commits)
  <2>1. CASE LeaveTable(u, i)
    BY <2>1, LeaveTableSection DEF LeaveTable
  <2>2. CASE KickRemoves(u, i)
    BY <2>2, KickSection DEF KickRemoves, Idle
  <2> QED
    BY <2>1, <2>2
<1> HIDE DEF s
<1> QED
  BY <1>1, <1>2, PublishKept

LEMMA InputKept ==
    ASSUME TypeInv', TableInv, NEW u \in Users,
           TouchActivity(u) \/ \E i \in Seats : ToggleAutoCheckFold(u, i)
    PROVE  Kept
<1>1. CASE TouchActivity(u)
  <2>1. Quiet(state, RecordActivity(state, u))
    BY InvTable, RecordedQuiet
  <2> QED
    BY <1>1, <2>1, QuietPublishKept DEF TouchActivity
<1>2. ASSUME NEW i \in Seats, ToggleAutoCheckFold(u, i) PROVE Kept
  <2>1. Publish(ToggledTable(u, i)) /\ UNCHANGED <<commits, syncs, bank, bounds, minted>>
    BY <1>2 DEF ToggleAutoCheckFold, ToggledTable
  <2>2. Quiet(state, ToggledTable(u, i))
    BY InvTable, ToggledTableQuiet
  <2> QED
    BY <2>1, <2>2, QuietPublishKept
<1> QED
  BY <1>1, <1>2

LEMMA AskKept ==
    ASSUME TypeInv, TypeInv', TableInv, NEW u \in Users, NEW i \in Seats,
           Call(u, i) \/ AllIn(u, i) \/ \E size \in RaiseSizes : BetOrRaise(u, i, size)
    PROVE  Kept
<1>1. PICK target, raise : Asks(i, target, raise)
  BY CommitAsked
<1> DEFINE t == Commit(RecordManualAction(state, i), i, FreshId(commits), FALSE,
                       target - state.seat[i].street_bet, target, raise)
           c == CommitTask(t, i)
<1>2. /\ target \in Int /\ raise \in Nat /\ target > state.seat[i].street_bet
      /\ Publish(t) /\ commits' = commits \cup {c}
      /\ UNCHANGED <<syncs, bank, bounds, minted>>
      /\ HandRuns(state) /\ i = state.active_seat /\ state.seat[i].pending = NoCommit
      /\ raise <= IF target > state.current_bet THEN target - state.current_bet ELSE 0
  BY <1>1 DEF Asks, CommitTo
<1>3. CommitMakes(t, i, target, raise)
  <2>1. target \in Int /\ raise \in Nat /\ target > state.seat[i].street_bet
    BY <1>2
  <2> QED
    BY <2>1, CommitToMakes, Zenon
<1> HIDE DEF t
<1>4. PICK r, p :
         /\ Rested(state, r) /\ CommitMade(r, t, i, p)
         /\ p.id \in Nat \ {0} /\ \A d \in commits : d.id # p.id
         /\ p.amount \in Nat \ {0} /\ p.target = target /\ p.raise = raise
         /\ target = state.seat[i].street_bet + p.amount
         /\ ~p.blind /\ p # NoCommit
         /\ c = NewTask(p.id, t.seat[i].user, i, p.amount)
  BY <1>3 DEF CommitMakes
<1> HIDE DEF c
<1>5. p.raise <= RaiseOf(state, p)
  BY <1>2, <1>4 DEF RaiseOf
<1>6. SectionGood(t, commits \cup {c})
  BY <1>2, <1>4, <1>5, AskedSection
<1>7. SectionGood(t, commits') /\ minted' \in Int
  BY <1>2, <1>6 DEF TypeInv, TypeOK
<1> QED
  BY <1>2, <1>7, PublishInv DEF Kept

LEMMA AnswerKept ==
    ASSUME TypeInv', TableInv, NEW c \in commits,
           ApplyCommitSuccess(c) \/ ApplyCommitFailure(c) \/ CommitTooLate(c)
    PROVE  Kept
<1>1. minted' \in Int
  BY DEF TypeInv, TypeOK
<1>2. UNCHANGED <<syncs, bank, bounds>> /\ commits' = commits \ {c}
  BY DEF ApplyCommitSuccess, ApplyCommitFailure, CommitTooLate
<1>3. CASE ApplyCommitSuccess(c)
  <2> DEFINE s == IF state.phase = "PostingBlinds" THEN BlindAnswered(InPot(state, c.seat))
                  ELSE AdvanceAfterAction(InPot(state, c.seat), c.seat)
  <2>1. Publish(s)
    BY <1>3 DEF ApplyCommitSuccess
  <2>2. SectionGood(s, commits \ {c})
    BY <1>3, SuccessSection DEF ApplyCommitSuccess
  <2> HIDE DEF s
  <2>3. SectionGood(s, commits')
    BY <1>2, <2>2
  <2> QED
    BY <1>1, <1>2, <2>1, <2>3, PublishInv DEF Kept
<1>4. CASE ApplyCommitFailure(c)
  <2> DEFINE t == [state EXCEPT !.seat[c.seat].pending = NoCommit]
             s == IF state.phase = "PostingBlinds"
                  THEN BlindAnswered([t EXCEPT !.seat[c.seat].folded = TRUE])
                  ELSE t
  <2>1. Publish(s)
    BY <1>4 DEF ApplyCommitFailure
  <2>2. SectionGood(s, commits \ {c})
    BY <1>4, FailureSection DEF ApplyCommitFailure
  <2> HIDE DEF s
  <2>3. SectionGood(s, commits')
    BY <1>2, <2>2
  <2> QED
    BY <1>1, <1>2, <2>1, <2>3, PublishInv DEF Kept
<1>5. CASE CommitTooLate(c)
  <2>1. Publish(state) /\ ~Matches(state, c)
    BY <1>5 DEF CommitTooLate
  <2>2. SectionGood(state, commits')
    BY <1>2, <2>1, TooLateSection
  <2> QED
    BY <1>1, <1>2, <2>1, <2>2, PublishInv DEF Kept
<1> QED
  BY <1>3, <1>4, <1>5

(* Steps that leave the tasks alone.                                       *)
LEMMA OneHandKept ==
    ASSUME OneHandToLeave, UNCHANGED <<commits, settling>>, state'.phase = state.phase,
           state'.settlement_pending = state.settlement_pending,
           bounds'.leavers = bounds.leavers, bounds'.hands = bounds.hands
    PROVE  OneHandToLeave'
BY DEF OneHandToLeave, RoundActive, HandRuns

LEMMA SameTasksKept ==
    ASSUME TypeInv', TableInv, UNCHANGED <<commits, settling>>,
           TableGood(state', commits), Reopened(state, state'), state'.phase = state.phase,
           state'.settlement_pending = state.settlement_pending,
           bounds'.leavers = bounds.leavers, bounds'.hands = bounds.hands
    PROVE  Kept
<1>1. OneHandToLeave' /\ IdsDiffer(commits')
  BY OneHandKept DEF TableInv
<1> QED
  BY <1>1, TableInvKept DEF Kept

LEMMA QuietKept ==
    ASSUME TypeInv', TableInv, UNCHANGED <<commits, settling>>, Quiet(state, state'),
           bounds'.leavers = bounds.leavers, bounds'.hands = bounds.hands
    PROVE  Kept
<1>1. TableGood(state', commits) /\ Reopened(state, state')
  BY InvTable, QuietFacts DEF CommitsGood
<1> QED
  BY <1>1, SameTasksKept DEF Quiet, SameTurn

LEMMA KickSkippedKept ==
    ASSUME TypeInv', TableInv, NEW u \in Users, NEW i \in Seats, KickSkipped(u, i)
    PROVE  Kept
<1>1. Quiet(state, state')
  BY InvTable, WakesQuiet DEF KickSkipped
<1> QED
  BY <1>1, QuietKept DEF KickSkipped, OnlyState

LEMMA BalanceKept ==
    ASSUME TypeInv, TypeInv', TableInv, BalanceStep
    PROVE  Kept
<1>1. Quiet(state, state)
  BY InvTable DEF Quiet, SameTurn, SameHand
<1>2. ASSUME NEW u \in Users, SpendElsewhere(u) \/ SyncExternalChipBalance(u) PROVE Kept
  <2>1. UNCHANGED <<state, commits, settling>>
    BY <1>2 DEF SpendElsewhere, SyncExternalChipBalance
  <2>2. bounds'.leavers = bounds.leavers /\ bounds'.hands = bounds.hands
    BY <1>2, InvTypes DEF SpendElsewhere, SyncExternalChipBalance, Spend, Instance
  <2> QED
    BY <1>1, <2>1, <2>2, QuietKept
<1>3. ASSUME NEW x \in syncs, SyncBalance(x) PROVE Kept
  <2>1. Quiet(state, state')
    BY <1>3, InvTypes, SyncQuiet
  <2> QED
    BY <1>3, <2>1, QuietKept DEF SyncBalance
<1> QED
  BY <1>2, <1>3 DEF BalanceStep

LEMMA DeadlineKept ==
    ASSUME TypeInv', TableInv, DeadlinePasses
    PROVE  Kept
<1>1. /\ state.deadline = "running" /\ state' = [state EXCEPT !.deadline = "due"]
      /\ UNCHANGED <<commits, settling, bounds>>
  BY DEF DeadlinePasses, OnlyState
<1>2. /\ state'.phase = state.phase /\ state'.seat = state.seat
      /\ state'.active_seat = state.active_seat /\ state'.current_bet = state.current_bet
      /\ state'.min_raise = state.min_raise /\ state'.pending_blinds = state.pending_blinds
      /\ state'.deadline = "due" /\ state'.countdown_seat = state.countdown_seat
      /\ state'.timer_task = state.timer_task
      /\ state'.settlement_pending = state.settlement_pending
  BY <1>1, InvTable DEF SharedState
<1>3. Active(state') = Active(state) /\ Actionable(state') = Actionable(state)
  BY <1>2, SamePlayers
<1>4. TableGood(state, commits)
  BY InvTable
<1>5. TurnGood(state') /\ TimerGood(state') /\ TurnTimed(state')
  BY <1>1, <1>2, <1>3, <1>4 DEF TableGood, TurnGood, TimerGood, TurnTimed, HandRuns
<1>6. Awaited(state', commits)
  BY <1>2, <1>4 DEF TableGood, Awaited
<1>7. ASSUME bounds.leavers = {} PROVE CommitsServed(state', commits) /\ BetsGood(state')
  <2>1. CommitsServed(state', commits)
    BY <1>2, <1>4, <1>7
       DEF TableGood, CommitsServed, Lands, RaiseOf, BlindsCounted, RoundActive, HandRuns
  <2>2. BetsGood(state')
    BY <1>2, <1>3, <1>4, <1>7, InvTable, SameBets DEF TableGood
  <2> QED
    BY <2>1, <2>2
<1>8. Reopened(state, state')
  BY <1>2, RankFacts DEF Reopened, HandRuns
<1> QED
  BY <1>1, <1>2, <1>5, <1>6, <1>7, <1>8, SameTasksKept DEF TableGood

(* A free seat is nobody's turn, and the bank holds no commit of it.       *)
LEMMA SitKept ==
    ASSUME TypeInv', TableInv, NEW u \in Users, Sit(u)
    PROVE  Kept
<1>1. state \in SharedState /\ TableGood(state, commits) /\ CommitsGood(commits)
  BY InvTable
<1>2. PICK i \in Seats : /\ state.seat[i].user = NoUser
                         /\ SeatChanged(state, state', i, Seated(u))
  BY <1>1, SitFacts
<1>3. UNCHANGED <<commits, settling, bounds>>
  BY <1>1, SitFacts DEF OnlyState
<1>4. /\ Seated(u).user = u /\ Seated(u).cards = 0 /\ Seated(u).pending = NoCommit
      /\ Seated(u).committed = 0 /\ Seated(u).street_bet = 0
  BY DEF Seated, EmptySeat
<1>5. /\ state' \in SharedState /\ SameTurn(state, state')
      /\ state'.seat[i] = Seated(u) /\ \A j \in Seats \ {i} : state'.seat[j] = state.seat[j]
  BY <1>2 DEF SeatChanged
<1>6. i \notin Active(state) /\ i \notin Active(state')
  BY <1>2, <1>4, <1>5 DEF Active, Occupied
<1>7. Active(state') = Active(state) /\ Actionable(state') = Actionable(state)
  <2>1. \A j \in Seats \ {i} : j \in Active(state') <=> j \in Active(state)
    BY <1>5 DEF Active, Occupied
  <2>2. Active(state') = Active(state)
    <3>1. Active(state) \subseteq Seats /\ Active(state') \subseteq Seats
      BY DEF Active, Occupied
    <3> QED
      BY <1>6, <2>1, <3>1
  <2> QED
    BY <1>5, <1>6, <2>2, SeatSets, <1>1 DEF Actionable
<1>8. TurnGood(state') /\ TimerGood(state')
  BY <1>1, <1>5, <1>7 DEF SameTurn, TableGood, TurnGood, TimerGood, HandRuns
<1>9. TurnTimed(state')
  <2>1. HandRuns(state) => state.active_seat \in Seats \ {i}
    BY <1>1, <1>6, SeatSets DEF TableGood, TurnGood
  <2> QED
    BY <1>1, <1>5, <2>1 DEF SameTurn, TableGood, TurnTimed, HandRuns
<1>10. Awaited(state', commits)
  BY <1>1, <1>4, <1>5 DEF TableGood, Awaited
<1>11. ASSUME bounds.leavers = {} PROVE CommitsServed(state', commits) /\ BetsGood(state')
  <2>1. CommitsServed(state, commits) /\ BetsGood(state)
    BY <1>1, <1>11 DEF TableGood
  <2>2. ASSUME NEW c \in commits PROVE Lands(state', c)
    <3>1. Lands(state, c) /\ c.seat \in Seats /\ c.user \in Users
      BY <1>1, <2>1 DEF CommitsServed, CommitsGood, CommitType
    <3>2. c.seat # i
      BY <1>2, <3>1, PokerAssumption DEF Lands
    <3>3. state'.seat[c.seat] = state.seat[c.seat]
      BY <1>5, <3>1, <3>2
    <3> QED
      BY <1>5, <3>1, <3>3 DEF Lands, RaiseOf, RoundActive, HandRuns, SameTurn
  <2>3. BlindsCounted(state', commits)
    BY <1>5, <2>1 DEF CommitsServed, BlindsCounted, SameTurn
  <2>4. BetsGood(state')
    <3>1. \A j \in Active(state') : state'.seat[j] = state.seat[j]
      BY <1>1, <1>5, <1>6, SeatSets
    <3>2. state.phase = "PostingBlinds" =>
              \A j \in Seats : state'.seat[j].committed = state'.seat[j].street_bet
      BY <1>4, <1>5, <2>1 DEF BetsGood
    <3>3. state'.phase = state.phase /\ state'.current_bet = state.current_bet
      BY <1>5 DEF SameTurn
    <3> QED
      BY <1>1, <1>7, <2>1, <3>1, <3>2, <3>3, FewerBets
  <2> QED
    BY <2>2, <2>3, <2>4 DEF CommitsServed
<1>12. Reopened(state, state')
  <2>1. state'.phase = state.phase
    BY <1>5 DEF SameTurn
  <2>2. HandRuns(state) => Rank[state.phase] <= Rank[state.phase]
    BY RankFacts DEF HandRuns
  <2>3. state'.seat[i].user # state.seat[i].user
    BY <1>2, <1>4, <1>5, PokerAssumption
  <2> QED
    BY <1>5, <2>1, <2>2, <2>3 DEF Reopened
<1>13. TableGood(state', commits)
  BY <1>8, <1>9, <1>10, <1>11 DEF TableGood
<1>14. state'.phase = state.phase /\ state'.settlement_pending = state.settlement_pending
  BY <1>5 DEF SameTurn
<1> QED
  BY <1>3, <1>12, <1>13, <1>14, SameTasksKept

(* The answer of the bank leaves the commit where it is.                   *)
LEMMA DebitKept ==
    ASSUME TypeInv, TypeInv', TableInv, NEW c \in commits, DebitBet(c)
    PROVE  Kept
<1>1. /\ UNCHANGED <<state, settling>>
      /\ bounds'.leavers = bounds.leavers /\ bounds'.hands = bounds.hands
  BY DebitFacts
<1>2. /\ state \in SharedState /\ TableGood(state, commits) /\ CommitsGood(commits)
      /\ OneHandToLeave
  BY InvTable DEF TableInv
<1> DEFINE others == commits \ {c}
<1>3. PICK d \in CommitType :
          /\ commits' = others \cup {d}
          /\ d.id = c.id /\ d.seat = c.seat /\ d.user = c.user /\ d.amount = c.amount
  BY InvTypes, DebitFacts, AnsweredFacts DEF DebitAnswered
<1>4. \A x \in others : x.id # d.id
  BY <1>2, <1>3 DEF CommitsGood, IdsDiffer
<1>5. IdsDiffer(commits')
  BY <1>2, <1>3, <1>4 DEF CommitsGood, IdsDiffer
<1>6. Awaited(state, commits')
  BY <1>2, <1>3 DEF TableGood, Awaited
<1>7. Cardinality(commits') = Cardinality(commits)
  <2>1. IsFiniteSet(commits) /\ IsFiniteSet(others)
    BY InvTypes, FS_Subset
  <2>2. Cardinality(commits) = Cardinality(others) + 1
    <3>1. Cardinality(others) = Cardinality(commits) - 1 /\ Cardinality(commits) \in Nat
      BY <2>1, FS_RemoveElement, FS_CardinalityType
    <3> QED
      BY <3>1
  <2>3. d \notin others
    BY <1>4
  <2> HIDE DEF others
  <2>4. Cardinality(others \cup {d}) = Cardinality(others) + 1
    BY <2>1, <2>3, FS_AddElement
  <2> QED
    BY <1>3, <2>2, <2>4
<1>8. bounds.leavers = {} => CommitsServed(state, commits')
  <2> SUFFICES ASSUME bounds.leavers = {} PROVE CommitsServed(state, commits')
    OBVIOUS
  <2>1. CommitsServed(state, commits)
    BY <1>2 DEF TableGood
  <2>2. Lands(state, d)
    BY <1>3, <2>1 DEF CommitsServed, Lands
  <2> QED
    BY <1>3, <1>7, <2>1, <2>2 DEF CommitsServed, BlindsCounted
<1>9. TableGood(state', commits')
  BY <1>1, <1>2, <1>6, <1>8 DEF TableGood
<1>10. OneHandToLeave'
  BY <1>1, <1>2, <1>3 DEF OneHandToLeave, RoundActive, HandRuns
<1>11. Reopened(state, state')
  BY <1>1, RankFacts DEF Reopened, HandRuns
<1> QED
  BY <1>1, <1>5, <1>9, <1>10, <1>11, TableInvKept DEF Kept

(* A hand is dealt when no commit and no settlement is on its way.         *)
LEMMA StartReady ==
    ASSUME TypeInv, TableInv, NEW u \in Users, MayStart(u)
    PROVE  /\ ~HandRuns(state) /\ ~RoundActive(state) /\ state.phase # "PostingBlinds"
           /\ bounds.leavers = {} \/ bounds.hands > 0 => commits = {} /\ settling = {}
<1>1. state.phase \in {"Waiting", "Showdown"} /\ ~state.settlement_pending
  BY DEF MayStart
<1>2. ~HandRuns(state) /\ ~RoundActive(state) /\ state.phase # "PostingBlinds"
  BY <1>1 DEF HandRuns, RoundActive, ActionPhases
<1>3. bounds.leavers = {} => commits = {}
  BY <1>2 DEF TableInv, Lands
<1>4. bounds.leavers = {} => settling = {}
  BY <1>1 DEF TableInv, OneHandToLeave
<1>5. bounds.leavers # {} /\ bounds.hands > 0 => commits = {} /\ settling = {}
  BY DEF TableInv, OneHandToLeave
<1> QED
  BY <1>2, <1>3, <1>4, <1>5

LEMMA DealKept ==
    ASSUME TypeInv, TypeInv', TableInv, NEW u \in Users, MayStart(u),
           UNCHANGED <<settling, syncs, bank, minted>>,
           NEW s, Cleared(state, s, LeavingSeats(state)),
           Cardinality(Playable(s)) >= 2, bounds.hands > 0, Spend("hands"), DealHand(s, u)
    PROVE  Kept
<1>1. s \in SharedState
  BY DEF Cleared
<1>2. ~HandRuns(state) /\ commits = {} /\ settling = {}
  BY StartReady
<1>3. PICK a, b \in Seats, small, big, id1, id2 \in Nat \ {0} :
            /\ a # b /\ id1 # id2
            /\ HandDealt(s, state', a, b, BlindCommit(id1, small), BlindCommit(id2, big))
            /\ commits' = commits \cup {NewTask(id1, s.seat[a].user, a, small),
                                        NewTask(id2, s.seat[b].user, b, big)}
  BY <1>1, InvTypes, DealHandFacts
<1> DEFINE x == NewTask(id1, s.seat[a].user, a, small)
           y == NewTask(id2, s.seat[b].user, b, big)
<1>4. /\ state'.phase = "PostingBlinds" /\ state'.pending_blinds = 2
      /\ state'.deadline = "none"
      /\ \A i \in Seats : /\ state'.seat[i].committed = 0 /\ state'.seat[i].street_bet = 0
                          /\ state'.seat[i].user = s.seat[i].user
      /\ state'.seat[a].pending = BlindCommit(id1, small)
      /\ state'.seat[b].pending = BlindCommit(id2, big)
      /\ \A i \in Seats \ {a, b} : state'.seat[i].pending = NoCommit
  BY <1>3 DEF HandDealt, DealtSeat
<1>5. ~HandRuns(state') /\ RoundActive(state')
  BY <1>4 DEF HandRuns, RoundActive, ActionPhases
<1>6. /\ commits' = {x, y}
      /\ x.id = id1 /\ x.seat = a /\ x.amount = small /\ x.user = s.seat[a].user
      /\ y.id = id2 /\ y.seat = b /\ y.amount = big /\ y.user = s.seat[b].user
  BY <1>2, <1>3 DEF NewTask
<1> HIDE DEF x, y
<1>7. TurnGood(state') /\ TimerGood(state') /\ TurnTimed(state')
  BY <1>4, <1>5 DEF TurnGood, TimerGood, TurnTimed
<1>8. /\ state'.seat[a].pending.id = id1 /\ state'.seat[a].pending.amount = small
      /\ state'.seat[b].pending.id = id2 /\ state'.seat[b].pending.amount = big
  BY <1>4 DEF BlindCommit
<1>9. Awaited(state', commits')
  BY <1>4, <1>6, <1>8 DEF Awaited
<1>10. IdsDiffer(commits')
  BY <1>3, <1>6 DEF IdsDiffer
<1>11. CommitsServed(state', commits')
  <2>1. Lands(state', x)
    BY <1>4, <1>5, <1>6, <1>8 DEF Lands
  <2>2. Lands(state', y)
    BY <1>4, <1>5, <1>6, <1>8 DEF Lands
  <2>3. Cardinality({x, y}) = 2
    <3>1. x # y
      BY <1>3, <1>6
    <3> DEFINE one == {x}
    <3>2. IsFiniteSet(one) /\ Cardinality(one) = 1 /\ y \notin one
      BY <3>1, FS_Singleton
    <3>3. {x, y} = one \cup {y}
      OBVIOUS
    <3> HIDE DEF one
    <3>4. Cardinality(one \cup {y}) = Cardinality(one) + 1
      BY <3>2, FS_AddElement
    <3> QED
      BY <3>2, <3>3, <3>4
  <2>4. Cardinality(commits') = 2
    BY <1>6, <2>3
  <2> QED
    BY <1>4, <1>6, <2>1, <2>2, <2>4 DEF CommitsServed, BlindsCounted
<1>12. BetsGood(state')
  BY <1>4, <1>5 DEF BetsGood
<1>13. bounds'.leavers = bounds.leavers /\ bounds'.hands = bounds.hands - 1
  BY InvTypes DEF Spend, Instance
<1>14. OneHandToLeave'
  <2>1. bounds.hands \in Nat /\ (bounds.leavers = {} \/ bounds.hands <= 1)
    BY InvTypes DEF TableInv, OneHandToLeave, Instance
  <2>2. bounds'.leavers # {} => bounds'.hands = 0
    BY <1>13, <2>1
  <2>3. bounds'.leavers = {} \/ bounds'.hands <= 1
    BY <2>2
  <2> QED
    BY <1>2, <2>2, <2>3 DEF OneHandToLeave
<1>15. Reopened(state, state')
  BY <1>2 DEF Reopened
<1>16. TableGood(state', commits')
  BY <1>7, <1>9, <1>11, <1>12 DEF TableGood
<1> QED
  BY <1>10, <1>13, <1>14, <1>15, <1>16, TableInvKept DEF Kept

(* Seats are cleared between two hands.                                    *)
LEMMA BetweenHands ==
    ASSUME TableInv, ~HandRuns(state), state.phase # "PostingBlinds",
           NEW s \in SharedState, TableGood(s, commits), s.phase = state.phase,
           NEW gone, NEW t, Cleared(s, t, gone)
    PROVE  TableGood(t, commits)
<1>1. CommitsGood(commits)
  BY InvTable
<1>2. bounds.leavers = {} => \A i \in gone : i \in Seats => s.seat[i].pending = NoCommit
  <2>1. bounds.leavers = {} => commits = {}
    BY DEF TableInv, Lands, RoundActive
  <2> QED
    BY <2>1 DEF TableGood, Awaited
<1>3. HandRuns(s) => gone \cap Active(s) = {}
  BY DEF HandRuns
<1> QED
  BY <1>1, <1>2, <1>3, ClearedGood DEF CommitsGood

LEMMA StartKept ==
    ASSUME TypeInv, TypeInv', TableInv, NEW u \in Users, StartHand(u)
    PROVE  Kept
<1>1. MayStart(u) /\ UNCHANGED <<settling, syncs, bank, minted>>
  BY InvTypes, StartHandFacts
<1>2. PICK s : Cleared(state, s, LeavingSeats(state)) /\ Start(s, u)
  BY InvTypes, StartHandFacts
<1>3. CASE /\ Cardinality(Playable(s)) >= 2 /\ bounds.hands > 0 /\ Spend("hands")
           /\ DealHand(s, u)
  BY <1>1, <1>2, <1>3, DealKept
<1>4. CASE /\ Cardinality(Playable(s)) < 2 /\ state' = RecordActivity(s, u)
           /\ UNCHANGED <<commits, bounds>>
  <2>1. s \in SharedState /\ SameTurn(state, s)
    BY <1>2 DEF Cleared
  <2>2. ~HandRuns(state) /\ state.phase # "PostingBlinds"
    BY <1>1, StartReady
  <2>3. TableGood(s, commits)
    BY <1>2, <2>1, <2>2, InvTable, BetweenHands DEF SameTurn
  <2>4. Quiet(s, state')
    BY <1>4, <2>1, RecordedQuiet
  <2>5. TableGood(state', commits)
    BY <2>1, <2>3, <2>4, QuietFacts, InvTable DEF CommitsGood
  <2>6. /\ state'.phase = state.phase
        /\ state'.settlement_pending = state.settlement_pending
    BY <2>1, <2>4 DEF Quiet, SameTurn
  <2>7. Reopened(state, state')
    BY <2>2 DEF Reopened
  <2> QED
    BY <1>1, <1>4, <2>5, <2>6, <2>7, SameTasksKept
<1> QED
  BY <1>2, <1>3, <1>4 DEF Start

(* While a settlement is on its way no hand runs.                          *)
LEMMA PersistKept ==
    ASSUME TypeInv, TypeInv', TableInv, NEW task \in settling, PersistSettlement(task)
    PROVE  Kept
<1>1. /\ UNCHANGED <<state, commits>>
      /\ bounds'.leavers = bounds.leavers /\ bounds'.hands = bounds.hands
  BY PersistFacts
<1>2. PICK new : Becomes(task, new)
  BY PersistFacts
<1>3. OneHandToLeave' /\ ~HandRuns(state)
  BY <1>1, <1>2 DEF TableInv, OneHandToLeave, Becomes, RoundActive, HandRuns
<1>4. TableGood(state', commits') /\ IdsDiffer(commits')
  BY <1>1, InvTable DEF CommitsGood
<1>5. Reopened(state, state')
  BY <1>3 DEF Reopened
<1> QED
  BY <1>1, <1>3, <1>4, <1>5, TableInvKept DEF Kept

LEMMA SettledGood ==
    ASSUME NEW t \in SharedState, NEW v, SettledFields(t, v), NEW tasks, TableGood(t, tasks)
    PROVE  TableGood(v, tasks)
<1>1. /\ v.seat = t.seat /\ v.phase = t.phase /\ v.active_seat = t.active_seat
      /\ v.current_bet = t.current_bet /\ v.deadline = t.deadline
      /\ v.countdown_seat = t.countdown_seat /\ v.timer_task = t.timer_task
      /\ v.pending_blinds = t.pending_blinds
  BY DEF SettledFields
<1>2. Active(v) = Active(t) /\ Actionable(v) = Actionable(t)
  BY <1>1, SamePlayers
<1>3. TurnGood(v) /\ TimerGood(v) /\ TurnTimed(v) /\ Awaited(v, tasks)
  BY <1>1, <1>2 DEF TableGood, TurnGood, TimerGood, TurnTimed, Awaited, HandRuns
<1>4. bounds.leavers = {} => CommitsServed(v, tasks)
  BY <1>1 DEF TableGood, CommitsServed, Lands, RaiseOf, BlindsCounted, RoundActive, HandRuns
<1>5. bounds.leavers = {} => BetsGood(v)
  BY <1>1, <1>2, SameBets DEF TableGood
<1> QED
  BY <1>3, <1>4, <1>5 DEF TableGood

LEMMA ReportKept ==
    ASSUME TypeInv, TypeInv', TableInv, NEW task \in settling,
           CompleteSettlements(task) \/ SettlementFailed(task)
    PROVE  Kept
<1>1. settling' = settling \ {task} /\ UNCHANGED <<commits, bounds>>
  BY DEF CompleteSettlements, SettlementFailed
<1>2. ~HandRuns(state) /\ state.phase # "PostingBlinds"
  BY DEF TableInv, OneHandToLeave, RoundActive
<1>3. TableGood(state', commits) /\ state'.phase = state.phase
  <2>1. CASE CompleteSettlements(task)
    <3>1. PICK t, gone, v : /\ Quiet(state, t) /\ Cleared(t, v, gone)
                            /\ SettledFields(v, state')
      BY <2>1, CompleteFacts
    <3>2. TableGood(t, commits) /\ t \in SharedState /\ t.phase = state.phase
      BY <3>1, InvTable, QuietFacts DEF CommitsGood, Quiet, SameTurn
    <3>3. TableGood(v, commits)
      BY <1>2, <3>1, <3>2, BetweenHands
    <3>4. v \in SharedState /\ v.phase = state.phase /\ state'.phase = v.phase
      BY <3>1, <3>2 DEF Cleared, SameTurn, SettledFields
    <3> QED
      BY <3>1, <3>3, <3>4, SettledGood
  <2>2. CASE SettlementFailed(task)
    <3>1. SettledFields(state, state')
      BY <2>2, InvTable, SettledTableFields DEF SettlementFailed, SettledTable
    <3>2. state'.phase = state.phase
      BY <3>1 DEF SettledFields
    <3> QED
      BY <3>1, <3>2, InvTable, SettledGood
  <2> QED
    BY <2>1, <2>2
<1>4. OneHandToLeave'
  BY <1>1, <1>2, <1>3 DEF TableInv, OneHandToLeave, RoundActive, HandRuns
<1>5. Reopened(state, state')
  BY <1>2 DEF Reopened
<1>6. IdsDiffer(commits')
  BY <1>1 DEF TableInv
<1> QED
  BY <1>1, <1>3, <1>4, <1>5, <1>6, TableInvKept DEF Kept

LEMMA StepKept ==
    ASSUME TypeInv, TableInv, [Next]_vars
    PROVE  Kept
<1>1. TypeInv'
  BY StepTypes
<1>2. CASE UNCHANGED vars
  <2>1. Quiet(state, state')
    BY <1>2, InvTable DEF vars, Quiet, SameTurn, SameHand
  <2>2. UNCHANGED <<commits, settling, bounds>>
    BY <1>2 DEF vars
  <2> QED
    BY <1>1, <2>1, <2>2, QuietKept
<1>3. CASE SeatStep
  <2>1. PICK u \in Users :
            \/ Sit(u) \/ StartHand(u) \/ TouchActivity(u)
            \/ \E i \in Seats :
                  LeaveDuringHand(u, i) \/ LeaveTable(u, i) \/ ToggleAutoCheckFold(u, i)
    BY <1>3 DEF SeatStep
  <2>2. CASE Sit(u)
    BY <1>1, <2>2, SitKept
  <2>3. CASE StartHand(u)
    BY <1>1, <2>3, StartKept
  <2>4. CASE TouchActivity(u) \/ \E i \in Seats : ToggleAutoCheckFold(u, i)
    BY <1>1, <2>4, InputKept
  <2>5. CASE \E i \in Seats : LeaveDuringHand(u, i)
    BY <1>1, <2>5, LeaveHandKept
  <2>6. CASE \E i \in Seats : LeaveTable(u, i)
    BY <1>1, <2>6, ClearKept
  <2> QED
    BY <2>1, <2>2, <2>3, <2>4, <2>5, <2>6
<1>4. CASE TurnStep
  <2>1. PICK u \in Users, i \in Seats :
            \/ Check(u, i) \/ Fold(u, i)
            \/ Call(u, i) \/ AllIn(u, i) \/ \E size \in RaiseSizes : BetOrRaise(u, i, size)
    BY <1>4 DEF TurnStep
  <2>2. CASE Check(u, i) \/ Fold(u, i)
    BY <1>1, <2>2, PlayedKept
  <2>3. CASE Call(u, i) \/ AllIn(u, i) \/ \E size \in RaiseSizes : BetOrRaise(u, i, size)
    BY <1>1, <2>3, AskKept
  <2> QED
    BY <2>1, <2>2, <2>3
<1>5. CASE CommitStep
  BY <1>1, <1>5, DebitKept, AnswerKept DEF CommitStep
<1>6. CASE TimerStep
  BY <1>1, <1>6, DeadlineKept, TimeoutKept DEF TimerStep
<1>7. CASE KickStep
  BY <1>1, <1>7, LeaveHandKept, ClearKept, KickSkippedKept DEF KickStep
<1>8. CASE SettleStep
  BY <1>1, <1>8, PersistKept, ReportKept DEF SettleStep
<1>9. CASE BalanceStep
  BY <1>1, <1>9, BalanceKept
<1> QED
  BY <1>2, <1>3, <1>4, <1>5, <1>6, <1>7, <1>8, <1>9 DEF Next

-------------------------------------------------------------------------------
(* Somebody who may leave a hand that he plays, leaves the only hand that  *)
(* an instance deals: what a second hand makes of the first one's          *)
(* settlement is the finding of poker_paid_twice.                          *)
TablePaysOnce == \A x \in Instances : x.leavers = {} \/ x.hands <= 1

LEMMA InitTable ==
    ASSUME TablePaysOnce, Init
    PROVE  TableInv
<1>1. TypeInv /\ bounds \in Instances
  BY InitTypes, InitFacts
<1>2. /\ state.phase = "Waiting" /\ state.deadline = "none"
      /\ \A i \in Seats : state.seat[i].pending = NoCommit
      /\ commits = {} /\ settling = {}
  BY InitFacts
<1>3. ~HandRuns(state) /\ ~RoundActive(state)
  BY <1>2 DEF HandRuns, RoundActive, ActionPhases
<1>4. TurnGood(state) /\ TimerGood(state) /\ TurnTimed(state)
  BY <1>2, <1>3 DEF TurnGood, TimerGood, TurnTimed
<1>5. Awaited(state, commits) /\ IdsDiffer(commits)
  BY <1>2 DEF Awaited, IdsDiffer
<1>6. OneHandToLeave
  BY <1>1, <1>2, <1>3 DEF OneHandToLeave, TablePaysOnce
<1>7. BlindsCounted(state, commits) /\ BetsGood(state)
  BY <1>2, <1>3 DEF BlindsCounted, BetsGood
<1> QED
  BY <1>1, <1>2, <1>4, <1>5, <1>6, <1>7 DEF TableInv, TypeInv

LEMMA TableServes ==
    ASSUME TableInv
    PROVE  TurnIsServed
<1> SUFFICES ASSUME HandRuns(state) PROVE TurnIsServed
  BY DEF TurnIsServed
<1>1. /\ Cardinality(Active(state)) > 1 /\ state.active_seat \in Actionable(state)
      /\ TimerGood(state) /\ TurnTimed(state) /\ Awaited(state, commits)
  BY DEF TableInv, TurnGood
<1>2. state.active_seat \in Seats
  BY <1>1, InvTable, SeatSets
<1>3. CASE state.seat[state.active_seat].pending = NoCommit
  BY <1>1, <1>3 DEF TurnTimed, TimerGood, TurnIsServed
<1>4. CASE state.seat[state.active_seat].pending # NoCommit
  BY <1>1, <1>2, <1>4 DEF Awaited, Matches, TurnIsServed
<1> QED
  BY <1>3, <1>4

LEMMA TableLands ==
    ASSUME TableInv, bounds.leavers = {}
    PROVE  CommitsLand /\ StreetsCloseEven
<1>1. CommitsLand
  BY DEF TableInv, Lands, RoundActive, CommitsLand, Matches
<1>2. StreetsCloseEven
  BY DEF TableInv, BetsGood, EvenBets, Closed, ClosedBet, StreetsCloseEven
<1> QED
  BY <1>1, <1>2

(* While a hand runs, two players contend for the pot, it is the turn of   *)
(* one who can act, and a live timer or a commit with the bank will end    *)
(* that turn: whoever folds, leaves, is kicked or refused by the bank.     *)
THEOREM TurnServed ==
    ASSUME TablePaysOnce
    PROVE  Spec => []TurnIsServed
<1>1. Init => TypeInv /\ TableInv
  BY InitTypes, InitTable
<1>2. TypeInv /\ TableInv /\ [Next]_vars => (TypeInv /\ TableInv)'
  BY StepTypes, StepKept DEF Kept
<1>3. TableInv => TurnIsServed
  BY TableServes
<1> QED
  BY <1>1, <1>2, <1>3, PTL DEF Spec

(* The rest is said of tables whose players stay until the hand is over:   *)
(* a kick takes a seat from under its commit, see poker_paid_twice.        *)
StaysSeated == \A x \in Instances : x.leavers = {}

LEMMA LeaversStay == StaysSeated /\ Init => bounds.leavers = {}
  BY InitFacts DEF StaysSeated

LEMMA NobodyLeavesStep ==
    ASSUME TypeInv, bounds.leavers = {}, [Next]_vars
    PROVE  bounds'.leavers = {}
<1>1. bounds \in Instance
  BY InvTypes
<1>2. \A what \in {"hands", "failures", "spends", "syncs"} : Spend(what) => bounds'.leavers = {}
  BY <1>1 DEF Spend, Instance
<1>3. CASE UNCHANGED bounds
  BY <1>3
<1>4. CASE SeatStep
  BY <1>2, <1>3, <1>4 DEF SeatStep, Sit, OnlyState, StartHand, TouchActivity, LeaveDuringHand,
                          LeaveTable, ToggleAutoCheckFold
<1>5. CASE CommitStep
  BY <1>3, <1>5, DebitFacts DEF CommitStep, ApplyCommitSuccess, ApplyCommitFailure, CommitTooLate
<1>6. CASE SettleStep
  BY <1>3, <1>6, PersistFacts DEF SettleStep, CompleteSettlements, SettlementFailed
<1>7. CASE BalanceStep
  BY <1>2, <1>3, <1>7 DEF BalanceStep, SpendElsewhere, SyncExternalChipBalance, SyncBalance
<1>8. CASE TurnStep
  <2>1. PICK u \in Users, i \in Seats :
            \/ Check(u, i) \/ Fold(u, i) \/ Call(u, i) \/ AllIn(u, i)
            \/ \E size \in RaiseSizes : BetOrRaise(u, i, size)
    BY <1>8 DEF TurnStep
  <2>2. CASE Check(u, i) \/ Fold(u, i)
    BY <1>3, <2>2 DEF Check, Fold
  <2>3. \A target, raise : CommitTo(i, target, raise) => UNCHANGED bounds
    BY DEF CommitTo
  <2>4. CASE Call(u, i) \/ AllIn(u, i)
    BY <1>3, <2>3, <2>4 DEF Call, AllIn
  <2>5. CASE \E size \in RaiseSizes : BetOrRaise(u, i, size)
    BY <1>3, <2>3, <2>5 DEF BetOrRaise
  <2> QED
    BY <2>1, <2>2, <2>4, <2>5
<1>9. CASE TimerStep
  BY <1>3, <1>9 DEF TimerStep, DeadlinePasses, OnlyState, TimeoutActiveAction
<1>10. CASE KickStep
  BY <1>3, <1>10 DEF KickStep, KickFolds, KickRemoves, KickSkipped, OnlyState
<1>11. CASE UNCHANGED vars
  BY <1>3, <1>11 DEF vars
<1> QED
  BY <1>4, <1>5, <1>6, <1>7, <1>8, <1>9, <1>10, <1>11 DEF Next

LEMMA SeatedStep ==
    /\ StaysSeated /\ Init => TypeInv /\ TableInv /\ bounds.leavers = {}
    /\ TypeInv /\ TableInv /\ bounds.leavers = {} /\ [Next]_vars
          => (TypeInv /\ TableInv /\ bounds.leavers = {})'
<1>1. StaysSeated => TablePaysOnce
  BY DEF StaysSeated, TablePaysOnce
<1> QED
  BY <1>1, InitTypes, InitTable, LeaversStay, StepTypes, StepKept, NobodyLeavesStep DEF Kept

(* Chips that the bank took for a commit find their seat waiting, in the   *)
(* hand they were bet in.                                                  *)
THEOREM CommitsAlwaysLand ==
    ASSUME StaysSeated
    PROVE  Spec => []CommitsLand
<1> USE SeatedStep
<1>1. Init => TypeInv /\ TableInv /\ bounds.leavers = {}
  OBVIOUS
<1>2. TypeInv /\ TableInv /\ bounds.leavers = {} /\ [Next]_vars
          => (TypeInv /\ TableInv /\ bounds.leavers = {})'
  OBVIOUS
<1>3. TableInv /\ bounds.leavers = {} => CommitsLand
  BY TableLands
<1> QED
  BY <1>1, <1>2, <1>3, PTL DEF Spec

(* Streets close and showdowns start on equal bets only: players who can   *)
(* act have put in the same, those who are all in no more.                 *)
THEOREM StreetsEven ==
    ASSUME StaysSeated
    PROVE  Spec => []StreetsCloseEven
<1> USE SeatedStep
<1>1. Init => TypeInv /\ TableInv /\ bounds.leavers = {}
  OBVIOUS
<1>2. TypeInv /\ TableInv /\ bounds.leavers = {} /\ [Next]_vars
          => (TypeInv /\ TableInv /\ bounds.leavers = {})'
  OBVIOUS
<1>3. TableInv /\ bounds.leavers = {} => StreetsCloseEven
  BY TableLands
<1> QED
  BY <1>1, <1>2, <1>3, PTL DEF Spec

(* On a street, nobody who has acted acts again but after a full raise.    *)
THEOREM FullRaiseReopens ==
    ASSUME StaysSeated
    PROVE  Spec => ActionReopensOnFullRaise
<1> USE SeatedStep
<1>1. Init => TypeInv /\ TableInv /\ bounds.leavers = {}
  OBVIOUS
<1>2. TypeInv /\ TableInv /\ bounds.leavers = {} /\ [Next]_vars
          => (TypeInv /\ TableInv /\ bounds.leavers = {})'
  OBVIOUS
<1>3. TypeInv /\ TableInv /\ bounds.leavers = {} /\ [Next]_vars =>
        [\A i \in Seats :
            /\ state.seat[i].acted /\ ~state'.seat[i].acted
            /\ state'.phase = state.phase /\ HandRuns(state)
            /\ state'.seat[i].user = state.seat[i].user
            => state'.current_bet - state.current_bet >= state.min_raise]_vars
  <2> SUFFICES ASSUME TypeInv, TableInv, bounds.leavers = {}, [Next]_vars, NEW i \in Seats,
                      state.seat[i].acted, ~state'.seat[i].acted,
                      state'.phase = state.phase, HandRuns(state),
                      state'.seat[i].user = state.seat[i].user
               PROVE  state'.current_bet - state.current_bet >= state.min_raise
    OBVIOUS
  <2>1. Reopened(state, state')
    BY StepKept DEF Kept
  <2> QED
    BY <2>1 DEF Reopened, HandRuns
<1> QED
  BY <1>1, <1>2, <1>3, PTL DEF Spec, ActionReopensOnFullRaise

-------------------------------------------------------------------------------
(* Pots are divided to the chip.                                           *)
(***************************************************************************)
(* How many winners come before i, and which of them get an odd chip.      *)
Before(W, i) == Cardinality({j \in W : j < i})
OddChips(W, r) == [i \in W |-> IF Before(W, i) < r THEN 1 ELSE 0]

LEMMA OddChipsGivenOut ==
    ASSUME NEW W \in SUBSET Nat, IsFiniteSet(W), NEW r \in Nat
    PROVE  SumFunctionOnSet(OddChips(W, r), W)
             = IF r <= Cardinality(W) THEN r ELSE Cardinality(W)
<1> DEFINE Given(V) == SumFunctionOnSet(OddChips(V, r), V)
           All(V) == IF r <= Cardinality(V) THEN r ELSE Cardinality(V)
           G == {V \in SUBSET W : Given(V) = All(V)}
<1>1. \A V \in SUBSET W : IsFiniteSet(V) /\ Cardinality(V) \in Nat
  BY FS_Subset, FS_CardinalityType
<1>2. {} \in G
  <2>1. Given({}) = 0 /\ Cardinality({}) = 0
    BY SumEmpty, FS_EmptySet
  <2> QED
    BY <2>1
<1>3. ASSUME NEW V \in SUBSET W, \A x \in V : V \ {x} \in G PROVE V \in G
  <2>1. CASE V = {}
    BY <1>2, <2>1
  <2>2. CASE V # {}
    <3>1. V \in SUBSET Nat /\ IsFiniteSet(V)
      BY <1>1
    <3>2. PICK m \in V : \A y \in V : m >= y
      BY <2>2, <3>1, FiniteGreatest
    <3> DEFINE R == V \ {m}
               last == IF Cardinality(R) < r THEN 1 ELSE 0
    <3>3. Cardinality(V) = Cardinality(R) + 1 /\ IsFiniteSet(R) /\ Cardinality(R) \in Nat
      BY <1>1, FS_RemoveElement, FS_Subset
    <3>4. {j \in V : j < m} = R
      <4>1. \A j \in V : j \in Nat /\ m \in Nat /\ (j < m <=> j # m)
        BY <3>1, <3>2
      <4> QED
        BY <4>1
    <3>5. ASSUME NEW i \in R PROVE {j \in V : j < i} = {j \in R : j < i}
      BY <3>1, <3>2
    <3>6. OddChips(V, r)[m] = last
      BY <3>4 DEF OddChips, Before
    <3>7. \A i \in R : OddChips(V, r)[i] = OddChips(R, r)[i]
      BY <3>5 DEF OddChips, Before
    <3>8. \A i \in V : OddChips(V, r)[i] \in Int
      BY DEF OddChips
    <3>9. Given(V) = last + SumFunctionOnSet(OddChips(V, r), R)
      <4> DEFINE f == OddChips(V, r)
      <4>1. IsFiniteSet(V) /\ \A i \in V : f[i] \in Int
        BY <3>1, <3>8
      <4> HIDE DEF f
      <4>2. SumFunctionOnSet(f, V) = f[m] + SumFunctionOnSet(f, V \ {m})
        BY <4>1, SumRemove
      <4> QED
        BY <3>6, <4>2 DEF f
    <3>10. SumFunctionOnSet(OddChips(V, r), R) = Given(R)
      BY <3>3, <3>7, <3>8, SumSame
    <3>11. Given(R) = All(R)
      BY <1>3
    <3>12. Given(V) = All(V)
      BY <3>3, <3>9, <3>10, <3>11
    <3> QED
      BY <3>12
  <2> QED
    BY <2>1, <2>2
<1>4. G \in SUBSET (SUBSET W)
  OBVIOUS
<1>5. G = SUBSET W
  <2> HIDE DEF G
  <2> QED
    BY <1>2, <1>3, <1>4, SubsetInduction
<1> QED
  BY <1>5

LEMMA DivideAndRest ==
    ASSUME NEW a \in Nat, NEW n \in Nat \ {0}
    PROVE  /\ a \div n \in Nat /\ a % n \in Nat /\ a % n < n
           /\ (a \div n) * n + (a % n) = a
<1>1. a \div n \in Nat
  OBVIOUS
<1>2. a % n \in 0 .. n - 1
  BY ModRange
<1>3. (a \div n) * n + (a % n) = a
  OBVIOUS
<1> QED
  BY <1>1, <1>2, <1>3

(* The shares of the winners of a pot are the pot.                         *)
LEMMA SharesAddUp ==
    ASSUME NEW amount \in Nat, NEW W \in SUBSET Seats, W # {}
    PROVE  SumFunctionOnSet([i \in W |-> Share(amount, W, i)], W) = amount
<1> DEFINE n == Cardinality(W)
           even == amount \div n
           odd == amount % n
           share == [i \in W |-> Share(amount, W, i)]
<1>1. IsFiniteSet(W) /\ W \in SUBSET Nat
  <2>1. Seats \subseteq Nat
    BY DEF Seats
  <2> QED
    BY <2>1, SeatsAreFinite, FS_Subset
<1>2. n \in Nat \ {0}
  BY <1>1, FS_CardinalityType, FS_EmptySet
<1>3. even \in Nat /\ odd \in Nat /\ odd < n /\ even * n + odd = amount
  <2> HIDE DEF n
  <2> QED
    BY <1>2, DivideAndRest
<1>4. \A i \in W : /\ share[i] = [j \in W |-> even][i] + OddChips(W, odd)[i]
                   /\ OddChips(W, odd)[i] \in Int
  BY DEF Share, OddChips, Before
<1> HIDE DEF share, even, odd, n
<1>5. \A i \in W : [j \in W |-> even][i] = even /\ even \in Int
  BY <1>3
<1>6. SumFunctionOnSet(share, W)
        = SumFunctionOnSet([j \in W |-> even], W) + SumFunctionOnSet(OddChips(W, odd), W)
  BY <1>1, <1>4, <1>5, SumPlus
<1>7. SumFunctionOnSet([j \in W |-> even], W) = even * n
  BY <1>1, <1>5, SumConstant DEF n
<1>8. SumFunctionOnSet(OddChips(W, odd), W) = odd
  BY <1>1, <1>2, <1>3, OddChipsGivenOut DEF n
<1>9. SumFunctionOnSet(share, W) = amount
  BY <1>3, <1>6, <1>7, <1>8
<1> QED
  BY <1>9 DEF share

(***************************************************************************)
(* Levels up to a bet add up to the bet, so side pots add up to the pot.   *)
(***************************************************************************)
Width(c, level) == level - Below(c, level)
UpTo(c, n) == {l \in Levels(c) : l <= n}

LEMMA BelowFacts ==
    ASSUME NEW c \in [Seats -> Nat], NEW level \in Levels(c)
    PROVE  /\ level \in Nat \ {0} /\ Below(c, level) \in Nat /\ Below(c, level) < level
           /\ Below(c, level) \in Levels(c) \cup {0}
           /\ \A l \in Levels(c) : l < level => l <= Below(c, level)
<1> DEFINE S == {l \in Levels(c) : l < level} \cup {0}
<1>1. level \in Nat \ {0} /\ Levels(c) \subseteq Nat
  BY LevelsFinite DEF Levels
<1>2. S \in SUBSET (0 .. level) /\ S # {}
  BY <1>1
<1>3. Max(S) \in S /\ \A y \in S : Max(S) >= y
  <2> HIDE DEF S
  <2> QED
    BY <1>1, <1>2, MaxIsGreatest
<1> QED
  BY <1>1, <1>3 DEF Below

LEMMA WidthType ==
    ASSUME NEW c \in [Seats -> Nat], NEW level \in Levels(c)
    PROVE  Width(c, level) \in Nat
BY BelowFacts DEF Width

LEMMA LevelsAddUp ==
    ASSUME NEW c \in [Seats -> Nat], NEW n \in Levels(c) \cup {0}
    PROVE  SumFunctionOnSet([l \in Levels(c) |-> Width(c, l)], UpTo(c, n)) = n
<1> DEFINE width == [l \in Levels(c) |-> Width(c, l)]
           Sum(k) == SumFunctionOnSet(width, UpTo(c, k))
           Bad == {k \in Levels(c) \cup {0} : Sum(k) # k}
<1>1. IsFiniteSet(Levels(c)) /\ Levels(c) \subseteq Nat
  BY LevelsFinite
<1>2. \A k : IsFiniteSet(UpTo(c, k)) /\ UpTo(c, k) \subseteq Levels(c)
  BY <1>1, FS_Subset DEF UpTo
<1>3. SUFFICES ASSUME Bad # {} PROVE FALSE
  OBVIOUS
<1>4. PICK k \in Bad : \A j \in Bad : k <= j
  <2>1. Bad \in SUBSET Nat
    BY <1>1
  <2> HIDE DEF Bad
  <2> QED
    BY <1>3, <2>1, LeastNat
<1>5. \A l \in Levels(c) : width[l] \in Int
  BY WidthType
<1>6. CASE k = 0
  <2>1. UpTo(c, 0) = {}
    BY <1>1, BelowFacts DEF UpTo
  <2>2. Sum(0) = 0
    BY <2>1, SumEmpty
  <2> QED
    BY <1>4, <1>6, <2>2
<1>7. CASE k \in Levels(c)
  <2> DEFINE b == Below(c, k)
  <2>1. /\ k \in Nat \ {0} /\ b \in Nat /\ b < k /\ b \in Levels(c) \cup {0}
        /\ \A l \in Levels(c) : l < k => l <= b
    BY <1>7, BelowFacts
  <2>2. UpTo(c, k) \ {k} = UpTo(c, b) /\ k \in UpTo(c, k)
    BY <1>1, <1>7, <2>1 DEF UpTo
  <2>3. Sum(k) = width[k] + SumFunctionOnSet(width, UpTo(c, k) \ {k})
    <3> HIDE DEF width
    <3> QED
      BY <1>2, <1>5, <2>2, SumRemove
  <2>4. Sum(b) = b
    BY <1>4, <2>1
  <2>5. width[k] = k - b
    BY <1>7 DEF Width
  <2>6. Sum(k) = (k - b) + b
    BY <2>2, <2>3, <2>4, <2>5
  <2> QED
    BY <1>4, <2>1, <2>6
<1> QED
  BY <1>4, <1>6, <1>7

LEMMA SidePotsAddUp ==
    ASSUME NEW c \in [Seats -> Nat]
    PROVE  SumFunctionOnSet([l \in Levels(c) |-> SidePot(c, l)], Levels(c)) = Pot(c)
<1> DEFINE L == Levels(c)
           part(i, l) == IF l <= c[i] THEN Width(c, l) ELSE 0
           f == [i \in Seats |-> [l \in L |-> part(i, l)]]
           g == [l \in L |-> [i \in Seats |-> part(i, l)]]
           width == [l \in L |-> Width(c, l)]
<1>1. IsFiniteSet(L) /\ L \subseteq Nat /\ IsFiniteSet(Seats)
  BY LevelsFinite, SeatsAreFinite
<1>2. \A i \in Seats, l \in L : /\ f[i][l] \in Int /\ g[l][i] = f[i][l]
                                /\ f[i][l] = part(i, l) /\ Width(c, l) \in Int
  BY WidthType
<1>3. ASSUME NEW i \in Seats PROVE SumFunctionOnSet(f[i], L) = c[i]
  <2>1. UpTo(c, c[i]) \in SUBSET L /\ IsFiniteSet(UpTo(c, c[i])) /\ c[i] \in L \cup {0}
    BY <1>1, FS_Subset DEF UpTo, Levels
  <2>2. \A l \in L : f[i][l] \in Int /\ (l \notin UpTo(c, c[i]) => f[i][l] = 0)
    BY <1>2 DEF UpTo
  <2>3. \A l \in UpTo(c, c[i]) : f[i][l] \in Int /\ width[l] = f[i][l]
    BY <1>2, <2>1 DEF UpTo
  <2>4. SumFunctionOnSet(width, UpTo(c, c[i])) = c[i]
    BY <2>1, LevelsAddUp
  <2> HIDE DEF f, width, L
  <2>5. SumFunctionOnSet(f[i], L) = SumFunctionOnSet(f[i], UpTo(c, c[i]))
    BY <1>1, <2>1, <2>2, SumPart
  <2>6. SumFunctionOnSet(f[i], UpTo(c, c[i])) = SumFunctionOnSet(width, UpTo(c, c[i]))
    BY <2>1, <2>3, SumSame
  <2> QED
    BY <2>4, <2>5, <2>6
<1>4. ASSUME NEW l \in L PROVE SumFunctionOnSet(g[l], Seats) = SidePot(c, l)
  <2> DEFINE C == Contributors(c, l)
  <2>1. C \in SUBSET Seats /\ IsFiniteSet(C) /\ l \in Nat
    BY <1>1, FS_Subset DEF Contributors
  <2>2. \A i \in Seats : g[l][i] \in Int /\ (i \notin C => g[l][i] = 0)
    BY <1>2, <2>1 DEF Contributors
  <2>3. \A i \in C : g[l][i] = Width(c, l)
    BY <1>2, <2>1 DEF Contributors
  <2>4. Width(c, l) \in Int
    BY WidthType
  <2> HIDE DEF g, C, L
  <2>5. SumFunctionOnSet(g[l], Seats) = SumFunctionOnSet(g[l], C)
    BY <1>1, <2>1, <2>2, SumPart
  <2>6. SumFunctionOnSet(g[l], C) = Width(c, l) * Cardinality(C)
    BY <2>1, <2>3, <2>4, SumConstant
  <2> QED
    BY <2>5, <2>6 DEF SidePot, Width, C
<1>5. SumFunctionOnSet([i \in Seats |-> SumFunctionOnSet(f[i], L)], Seats)
        = SumFunctionOnSet([l \in L |-> SumFunctionOnSet(g[l], Seats)], L)
  <2>1. Transposed(f, g, Seats, L)
    BY <1>2 DEF Transposed
  <2> DEFINE rows == [i \in Seats |-> SumFunctionOnSet(f[i], L)]
             cols == [l \in L |-> SumFunctionOnSet(g[l], Seats)]
  <2>2. RowSums(rows, f, Seats, L) /\ RowSums(cols, g, L, Seats)
    BY DEF RowSums
  <2>3. SumFunctionOnSet(rows, Seats) = SumFunctionOnSet(cols, L)
    <3> HIDE DEF f, g, L, rows, cols
    <3> QED
      BY <1>1, <2>1, <2>2, SumSwap
  <2> QED
    BY <2>3
<1>6. [i \in Seats |-> SumFunctionOnSet(f[i], L)] = c
  <2> HIDE DEF f
  <2> QED
    BY <1>3
<1>7. [l \in L |-> SumFunctionOnSet(g[l], Seats)] = [l \in L |-> SidePot(c, l)]
  <2> HIDE DEF g
  <2> QED
    BY <1>4
<1> QED
  BY <1>5, <1>6, <1>7 DEF Pot

LEMMA SomebodyWins ==
    ASSUME NEW c \in [Seats -> Nat], NEW contenders \in SUBSET Seats,
           NEW strength \in [Seats -> Nat], NEW level
    PROVE  Winners(c, contenders, strength, level) = {}
              <=> Contributors(c, level) \cap contenders = {}
<1> DEFINE E == Contributors(c, level) \cap contenders
           S == {strength[j] : j \in E}
<1>1. SUFFICES ASSUME E # {} PROVE Winners(c, contenders, strength, level) # {}
  BY DEF Winners
<1>2. E \in SUBSET Seats /\ IsFiniteSet(E)
  BY SeatsAreFinite, FS_Subset
<1>3. S \in SUBSET Nat /\ S # {} /\ IsFiniteSet(S)
  <2>1. IsFiniteSet(S)
    <3> HIDE DEF E
    <3> QED
      BY <1>2, ImageOfFinite
  <2> QED
    BY <1>1, <1>2, <2>1
<1>4. Max(S) \in S /\ \A y \in S : Max(S) >= y
  <2> HIDE DEF S
  <2> QED
    BY <1>3, FiniteGreatest
<1>5. PICK i \in E : strength[i] = Max(S)
  BY <1>4
<1>6. \A j \in E : strength[j] <= strength[i]
  BY <1>2, <1>4, <1>5
<1> QED
  BY <1>6 DEF Winners

(***************************************************************************)
(* What the showdown credits is the pot without the side pots that nobody  *)
(* contends for, and only those who contend for it are credited.           *)
(***************************************************************************)
LEMMA CreditsAddUp ==
    ASSUME NEW c \in [Seats -> Nat], NEW contenders \in SUBSET Seats,
           NEW strength \in [Seats -> Nat]
    PROVE  /\ SumFunctionOnSet(CreditsFromAwards(c, contenders, strength), Seats)
                + Unclaimed(c, contenders) = Pot(c)
           /\ \A i \in Seats : c[i] = 0 \/ i \notin contenders =>
                                 CreditsFromAwards(c, contenders, strength)[i] = 0
           /\ Unclaimed(c, contenders) \in Nat
<1> DEFINE L == Levels(c)
           W(l) == Winners(c, contenders, strength, l)
           won(i) == {l \in L : i \in W(l)}
           share(l, i) == Share(SidePot(c, l), W(l), i)
           f == [i \in Seats |-> [l \in L |-> IF i \in W(l) THEN share(l, i) ELSE 0]]
           g == [l \in L |-> [i \in Seats |-> IF i \in W(l) THEN share(l, i) ELSE 0]]
           credits == CreditsFromAwards(c, contenders, strength)
           paid == [l \in L |-> IF W(l) = {} THEN 0 ELSE SidePot(c, l)]
           dropped == [l \in L |-> IF W(l) = {} THEN SidePot(c, l) ELSE 0]
           pots == [l \in L |-> SidePot(c, l)]
           U == {l \in L : W(l) = {}}
<1>1. /\ IsFiniteSet(L) /\ L \subseteq Nat /\ IsFiniteSet(Seats)
      /\ \A l : W(l) \in SUBSET Seats /\ IsFiniteSet(W(l))
  <2>1. \A l : W(l) \in SUBSET Seats
    BY DEF Winners, Contributors
  <2> HIDE DEF W
  <2> QED
    BY <2>1, LevelsFinite, SeatsAreFinite, FS_Subset
<1>2. \A l \in L : SidePot(c, l) \in Nat
  BY SidePotType
<1>3. \A l \in L : \A i \in W(l) : share(l, i) \in Nat
  <2> HIDE DEF W
  <2> QED
    BY <1>1, <1>2, ShareType
<1> HIDE DEF W
<1>4. Transposed(f, g, Seats, L)
  BY <1>3 DEF Transposed
<1>5. ASSUME NEW i \in Seats PROVE credits[i] = SumFunctionOnSet(f[i], L)
  <2> DEFINE shares == [l \in won(i) |-> share(l, i)]
  <2>1. credits[i] = SumFunctionOnSet(shares, won(i))
    BY DEF CreditsFromAwards, W
  <2>2. won(i) \in SUBSET L /\ IsFiniteSet(won(i))
    BY <1>1, FS_Subset
  <2>3. \A l \in L : f[i][l] \in Int /\ (l \notin won(i) => f[i][l] = 0)
    BY <1>3
  <2>4. \A l \in won(i) : f[i][l] \in Int /\ shares[l] = f[i][l]
    BY <1>3
  <2> HIDE DEF f, shares, won, L
  <2>5. SumFunctionOnSet(f[i], L) = SumFunctionOnSet(f[i], won(i))
    BY <1>1, <2>2, <2>3, SumPart
  <2>6. SumFunctionOnSet(f[i], won(i)) = SumFunctionOnSet(shares, won(i))
    BY <2>2, <2>4, SumSame
  <2> QED
    BY <2>1, <2>5, <2>6
<1>6. ASSUME NEW l \in L PROVE paid[l] = SumFunctionOnSet(g[l], Seats)
  <2> DEFINE shares == [i \in W(l) |-> share(l, i)]
  <2>1. \A i \in Seats : g[l][i] \in Int /\ (i \notin W(l) => g[l][i] = 0)
    BY <1>3
  <2>2. \A i \in W(l) : g[l][i] \in Int /\ shares[i] = g[l][i]
    BY <1>1, <1>3
  <2>3. W(l) = {} => SumFunctionOnSet(shares, W(l)) = 0
    BY SumEmpty
  <2>4. W(l) # {} => SumFunctionOnSet(shares, W(l)) = SidePot(c, l)
    BY <1>1, <1>2, SharesAddUp
  <2>5. paid[l] = IF W(l) = {} THEN 0 ELSE SidePot(c, l)
    OBVIOUS
  <2> HIDE DEF g, shares, paid, L
  <2>6. SumFunctionOnSet(g[l], Seats) = SumFunctionOnSet(g[l], W(l))
    BY <1>1, <2>1, SumPart
  <2>7. SumFunctionOnSet(g[l], W(l)) = SumFunctionOnSet(shares, W(l))
    BY <1>1, <2>2, SumSame
  <2> QED
    BY <2>3, <2>4, <2>5, <2>6, <2>7
<1>7. SumFunctionOnSet(credits, Seats) = SumFunctionOnSet(paid, L)
  <2>1. RowSums(credits, f, Seats, L) /\ RowSums(paid, g, L, Seats)
    <3> HIDE DEF f, g, credits, paid
    <3> QED
      BY <1>5, <1>6 DEF RowSums
  <2> HIDE DEF f, g, credits, paid, L
  <2> QED
    BY <1>1, <1>4, <2>1, SumSwap
<1>8. SumFunctionOnSet(pots, L) = SumFunctionOnSet(paid, L) + SumFunctionOnSet(dropped, L)
  <2>1. \A l \in L : paid[l] \in Int /\ dropped[l] \in Int /\ pots[l] = paid[l] + dropped[l]
    BY <1>2
  <2> HIDE DEF paid, dropped, pots, L
  <2> QED
    BY <1>1, <2>1, SumPlus
<1>9. SumFunctionOnSet(dropped, L) = Unclaimed(c, contenders)
  <2> DEFINE unclaimed == [l \in U |-> SidePot(c, l)]
  <2>1. U = {l \in L : Contributors(c, l) \cap contenders = {}}
    BY SomebodyWins DEF W
  <2>2. Unclaimed(c, contenders) = SumFunctionOnSet(unclaimed, U)
    BY <2>1 DEF Unclaimed
  <2>3. U \in SUBSET L /\ IsFiniteSet(U)
    BY <1>1, FS_Subset
  <2>4. \A l \in L : dropped[l] \in Int /\ (l \notin U => dropped[l] = 0)
    BY <1>2
  <2>5. \A l \in U : dropped[l] \in Int /\ unclaimed[l] = dropped[l]
    BY <1>2
  <2> HIDE DEF dropped, unclaimed, U, L
  <2>6. SumFunctionOnSet(dropped, L) = SumFunctionOnSet(dropped, U)
    BY <1>1, <2>3, <2>4, SumPart
  <2>7. SumFunctionOnSet(dropped, U) = SumFunctionOnSet(unclaimed, U)
    BY <2>3, <2>5, SumSame
  <2> QED
    BY <2>2, <2>6, <2>7
<1>10. SumFunctionOnSet(pots, L) = Pot(c)
  BY SidePotsAddUp
<1>11. SumFunctionOnSet(paid, L) \in Nat /\ SumFunctionOnSet(dropped, L) \in Nat
  <2>1. \A l \in L : paid[l] \in Nat /\ dropped[l] \in Nat
    BY <1>2
  <2> HIDE DEF paid, dropped, L
  <2> QED
    BY <1>1, <2>1, SumNat
<1>12. ASSUME NEW i \in Seats, c[i] = 0 \/ i \notin contenders PROVE credits[i] = 0
  <2>1. \A l \in L : i \notin W(l)
    BY <1>1, <1>12 DEF W, Winners, Contributors, Levels
  <2>2. \A l \in L : f[i][l] = 0
    BY <2>1
  <2>3. SumFunctionOnSet(f[i], L) = 0
    <3> HIDE DEF f, L
    <3> QED
      BY <1>1, <2>2, SumZero
  <2> QED
    BY <1>5, <2>3
<1> HIDE DEF f, g, paid, dropped, pots, credits
<1>13. /\ SumFunctionOnSet(credits, Seats) + Unclaimed(c, contenders) = Pot(c)
       /\ \A i \in Seats : c[i] = 0 \/ i \notin contenders => credits[i] = 0
       /\ Unclaimed(c, contenders) \in Nat
  BY <1>7, <1>8, <1>9, <1>10, <1>11, <1>12
<1> QED
  BY <1>13 DEF credits

-------------------------------------------------------------------------------
(***************************************************************************)
(* The chips of the table.                                                 *)
(***************************************************************************)
(* A hand that is played keeps its pot, and the end of a hand owes it to   *)
(* the winners but for what it leaves to nobody.                           *)
PotKept(s, pot) ==
    IF RoundActive(s) THEN s.due = <<>> /\ Pot(Committed(s)) = pot
    ELSE Credits(s.due) + Forgone(s) = pot

SameCommitted(s, t) == \A i \in Seats : t.seat[i].committed = s.seat[i].committed

LEMMA CommittedSame ==
    ASSUME NEW s, NEW t, SameCommitted(s, t)
    PROVE  Committed(t) = Committed(s)
BY DEF SameCommitted, Committed

LEMMA PotIsNat ==
    ASSUME NEW s \in SharedState
    PROVE  Committed(s) \in [Seats -> Nat] /\ Pot(Committed(s)) \in Nat
BY SeatSets, PotType

(* What is settled is what is credited to those with chips in the pot.     *)
LEMMA SettlePot ==
    ASSUME NEW s \in SharedState, NEW credit \in [Seats -> Nat], NEW t, t = Settle(s, credit)
    PROVE  /\ Credits(t.due) = SumFunctionOnSet(credit, Owing(s))
           /\ ~RoundActive(t) /\ Forgone(t) = Forgone(s)
<1>1. t.phase = "Showdown" /\ t.seat = s.seat /\ t.due = Settlements(s, credit)
  BY SettleFields
<1>2. Credits(t.due) = SumFunctionOnSet(credit, Owing(s))
  BY <1>1, CreditsOfSettlements
<1>3. ~RoundActive(t)
  BY <1>1 DEF RoundActive, HandRuns, ActionPhases
<1>4. Committed(t) = Committed(s) /\ Active(t) = Active(s)
  BY <1>1 DEF Committed, Active, Occupied
<1>5. Forgone(t) = Forgone(s)
  BY <1>1, <1>4 DEF Forgone
<1> QED
  BY <1>2, <1>3, <1>5

LEMMA OwingIsFinite ==
    ASSUME NEW s
    PROVE  Owing(s) \subseteq Seats /\ IsFiniteSet(Owing(s))
<1>1. Owing(s) \subseteq Seats
  BY DEF Owing, Occupied
<1> QED
  BY <1>1, SeatsAreFinite, FS_Subset

(* The last player takes the pot, if he has chips in it.                   *)
LEMMA FoldPot ==
    ASSUME NEW s \in SharedState, NEW w, Active(s) = {w}
    PROVE  PotKept(FinishByFold(s, w), Pot(Committed(s)))
<1> DEFINE pot == Pot(Committed(s))
           credit == [i \in Seats |-> IF i = w THEN pot ELSE 0]
           t == FinishByFold(s, w)
<1>1. pot \in Nat /\ w \in Seats /\ s.seat[w].user # NoUser /\ s.seat[w].committed \in Nat
  BY PotIsNat, BetTypes DEF Active, Occupied
<1>2. t = Settle(s, credit)
  BY DEF FinishByFold
<1> HIDE DEF pot, t
<1>3. credit \in [Seats -> Nat] /\ \A i \in Seats : credit[i] = IF i = w THEN pot ELSE 0
  BY <1>1
<1> HIDE DEF credit
<1>4. /\ Credits(t.due) = SumFunctionOnSet(credit, Owing(s))
      /\ ~RoundActive(t) /\ Forgone(t) = Forgone(s)
  BY <1>2, <1>3, SettlePot
<1>5. Owing(s) \subseteq Seats /\ IsFiniteSet(Owing(s))
  BY OwingIsFinite
<1>6. Cardinality(Active(s)) = 1
  BY FS_Singleton
<1>7. CASE s.seat[w].committed > 0
  <2>1. {w} \in SUBSET Owing(s)
    BY <1>1, <1>7 DEF Owing, Occupied
  <2>2. \A i \in Owing(s) : credit[i] \in Int
    BY <1>3, <1>5
  <2>3. \A i \in Owing(s) \ {w} : credit[i] = 0
    BY <1>3, <1>5
  <2>4. SumFunctionOnSet(credit, Owing(s)) = SumFunctionOnSet(credit, {w})
    BY <1>5, <2>1, <2>2, <2>3, SumPart
  <2>5. SumFunctionOnSet(credit, {w}) = pot
    BY <1>1, <1>3, SumOfOne
  <2>6. Forgone(s) = 0
    BY <1>6, <1>7 DEF Forgone
  <2> QED
    BY <1>1, <1>4, <2>4, <2>5, <2>6 DEF PotKept, pot, t
<1>8. CASE s.seat[w].committed = 0
  <2>1. \A i \in Owing(s) : credit[i] = 0
    BY <1>3, <1>5, <1>8 DEF Owing
  <2>2. SumFunctionOnSet(credit, Owing(s)) = 0
    BY <1>5, <2>1, SumZero
  <2>3. Forgone(s) = pot
    BY <1>6, <1>8 DEF Forgone, pot
  <2> QED
    BY <1>1, <1>4, <2>2, <2>3 DEF PotKept, pot, t
<1> QED
  BY <1>1, <1>7, <1>8

(* At a showdown, the winners of each side pot take it.                    *)
LEMMA ShowdownPot ==
    ASSUME NEW s \in SharedState, Cardinality(Active(s)) > 1
    PROVE  PotKept(FinishShowdown(s), Pot(Committed(s)))
<1> DEFINE c == Committed(s)
           A == Active(s)
           strength == [i \in Seats |-> s.seat[i].cards]
           credit == CreditsFromAwards(c, A, strength)
           t == FinishShowdown(s)
<1>1. t = Settle(s, credit)
  BY DEF FinishShowdown
<1>2. /\ c \in [Seats -> Nat] /\ Pot(c) \in Nat /\ A \in SUBSET Seats /\ A \subseteq Occupied(s)
      /\ \A i \in Seats : c[i] = s.seat[i].committed
  BY PotIsNat DEF Active, Occupied, Committed
<1>3. strength \in [Seats -> Nat]
  BY SeatIsTyped DEF SeatType
<1>4. credit \in [Seats -> Nat]
  <2> HIDE DEF c, A, strength
  <2> QED
    BY <1>2, <1>3, CreditsType
<1>5. /\ SumFunctionOnSet(credit, Seats) + Unclaimed(c, A) = Pot(c)
      /\ \A i \in Seats : c[i] = 0 \/ i \notin A => credit[i] = 0
      /\ Unclaimed(c, A) \in Nat
  <2> HIDE DEF c, A, strength
  <2> QED
    BY <1>2, <1>3, CreditsAddUp
<1>6. Forgone(s) = Unclaimed(c, A)
  BY DEF Forgone
<1> HIDE DEF c, credit, t
<1>7. /\ Credits(t.due) = SumFunctionOnSet(credit, Owing(s))
      /\ ~RoundActive(t) /\ Forgone(t) = Forgone(s)
  BY <1>1, <1>4, SettlePot
<1>8. SumFunctionOnSet(credit, Seats) = SumFunctionOnSet(credit, Owing(s))
  <2>1. Owing(s) \in SUBSET Seats
    BY OwingIsFinite
  <2>2. ASSUME NEW i \in Seats \ Owing(s) PROVE credit[i] = 0
    <3>1. i \notin A \/ c[i] = 0
      BY <1>2, <2>2 DEF Owing
    <3> QED
      BY <1>5, <3>1
  <2>3. \A i \in Seats : credit[i] \in Int
    BY <1>4
  <2> QED
    BY <2>1, <2>2, <2>3, SeatsAreFinite, SumPart
<1>9. Credits(t.due) + Forgone(t) = Pot(c)
  BY <1>5, <1>6, <1>7, <1>8
<1> QED
  BY <1>7, <1>9 DEF PotKept, c, t

(* Nobody is left, and nobody takes the pot.                               *)
LEMMA AbandonPot ==
    ASSUME NEW s \in SharedState, s.due = <<>>, Active(s) = {}
    PROVE  PotKept(AbandonHand(s), Pot(Committed(s)))
<1> DEFINE t == AbandonHand(s)
           c == Committed(s)
           L == Levels(c)
           none == {level \in L : Contributors(c, level) \cap {} = {}}
<1>1. t.phase = "Waiting" /\ t.seat = s.seat /\ t.due = <<>>
  BY AbandonFields
<1> HIDE DEF t
<1>2. ~RoundActive(t)
  BY <1>1 DEF RoundActive, HandRuns, ActionPhases
<1>3. Committed(t) = c /\ Active(t) = {}
  BY <1>1 DEF Committed, Active, Occupied
<1>4. Cardinality(Active(t)) = 0
  BY <1>3, FS_EmptySet
<1>5. Forgone(t) = Unclaimed(c, {})
  BY <1>3, <1>4 DEF Forgone
<1>6. c \in [Seats -> Nat] /\ Pot(c) \in Nat
  BY PotIsNat
<1>7. none = L
  OBVIOUS
<1>8. Unclaimed(c, {}) = SumFunctionOnSet([level \in none |-> SidePot(c, level)], none)
  BY DEF Unclaimed
<1>9. SumFunctionOnSet([level \in L |-> SidePot(c, level)], L) = Pot(c)
  <2> HIDE DEF c
  <2> QED
    BY <1>6, SidePotsAddUp
<1>10. Credits(t.due) = 0
  <2>1. DOMAIN t.due = {}
    BY <1>1
  <2> QED
    BY <2>1, SumEmpty DEF Credits
<1> HIDE DEF c
<1>11. Credits(t.due) + Forgone(t) = Pot(c)
  BY <1>5, <1>6, <1>7, <1>8, <1>9, <1>10
<1> QED
  BY <1>2, <1>11 DEF PotKept, c, t

(* A hand that goes on with the same bets.                                 *)
LEMMA SamePot ==
    ASSUME NEW s, NEW t, SameCommitted(s, t), RoundActive(t), t.due = <<>>
    PROVE  PotKept(t, Pot(Committed(s)))
<1>1. Committed(t) = Committed(s)
  BY CommittedSame
<1> QED
  BY <1>1 DEF PotKept

(* However the turn moves on, the pot is kept.                             *)
LEMMA AdvancePot ==
    ASSUME NEW s \in SharedState, RoundActive(s), s.due = <<>>, NEW i \in Seats
    PROVE  PotKept(AdvanceAfterAction(s, i), Pot(Committed(s)))
<1> DEFINE t == AdvanceAfterAction(s, i)
           f == FreshStreet(s)
           next == [f EXCEPT !.phase = NextStreet[s.phase],
                             !.active_seat = After(s.dealer_button, Actionable(s))]
           pass == [s EXCEPT !.active_seat = After(i, Actionable(s))]
<1>1. \/ Active(s) = {} /\ t = AbandonHand(s)
      \/ \E w \in Active(s) : Active(s) = {w} /\ t = FinishByFold(s, w)
      \/ Cardinality(Active(s)) > 1 /\ t = FinishShowdown(s)
      \/ Cardinality(Active(s)) > 1 /\ t = FinishShowdown(f)
      \/ s.phase \in DOMAIN NextStreet /\ t = next
      \/ ~HandRuns(s) /\ t = f
      \/ t = pass
  BY AdvanceOutcomes
<1> HIDE DEF t
<1>2. /\ f \in SharedState /\ f.phase = s.phase /\ f.due = s.due
      /\ \A j \in Seats : FreshSeat(s.seat[j], f.seat[j])
  BY FreshStreetType, FreshStreetFields
<1>3. SameCommitted(s, f) /\ Active(f) = Active(s)
  BY <1>2, SamePlayers DEF SameCommitted, FreshSeat
<1> HIDE DEF f
<1>4. CASE Active(s) = {} /\ t = AbandonHand(s)
  BY <1>4, AbandonPot DEF t
<1>5. CASE \E w \in Active(s) : Active(s) = {w} /\ t = FinishByFold(s, w)
  BY <1>5, FoldPot DEF t
<1>6. CASE Cardinality(Active(s)) > 1 /\ t = FinishShowdown(s)
  BY <1>6, ShowdownPot DEF t
<1>7. CASE Cardinality(Active(s)) > 1 /\ t = FinishShowdown(f)
  <2>1. PotKept(FinishShowdown(f), Pot(Committed(f)))
    BY <1>2, <1>3, <1>7, ShowdownPot
  <2>2. Committed(f) = Committed(s)
    BY <1>3, CommittedSame
  <2> QED
    BY <1>7, <2>1, <2>2 DEF t
<1>8. CASE s.phase \in DOMAIN NextStreet /\ t = next
  <2> DEFINE p == NextStreet[s.phase]
             a == After(s.dealer_button, Actionable(s))
  <2>1. p \in ActionPhases
    BY <1>8, RankFacts
  <2> HIDE DEF p, a
  <2>2. t.phase = p /\ t.due = f.due /\ t.seat = f.seat
    BY <1>2, <1>8 DEF SharedState, p, a
  <2>3. RoundActive(t) /\ t.due = <<>> /\ SameCommitted(s, t)
    BY <1>2, <1>3, <2>1, <2>2 DEF RoundActive, HandRuns, SameCommitted
  <2> QED
    BY <2>3, SamePot DEF t
<1>9. CASE ~HandRuns(s) /\ t = f
  <2>1. RoundActive(t) /\ t.due = <<>> /\ SameCommitted(s, t)
    BY <1>2, <1>3, <1>9 DEF RoundActive, HandRuns
  <2> QED
    BY <2>1, SamePot DEF t
<1>10. CASE t = pass
  <2> DEFINE a == After(i, Actionable(s))
  <2> HIDE DEF a
  <2>1. t.phase = s.phase /\ t.due = s.due /\ t.seat = s.seat
    BY <1>10 DEF SharedState, a
  <2>2. RoundActive(t) /\ t.due = <<>> /\ SameCommitted(s, t)
    BY <2>1 DEF RoundActive, HandRuns, SameCommitted
  <2> QED
    BY <2>2, SamePot DEF t
<1> QED
  BY <1>1, <1>4, <1>5, <1>6, <1>7, <1>8, <1>9, <1>10 DEF t

(* A seat that acts changes no bet.                                        *)
LEMMA ActedPot ==
    ASSUME NEW s \in SharedState, RoundActive(s), s.due = <<>>, NEW i \in Seats,
           NEW v, SeatActed(s, v, i)
    PROVE  PotKept(AdvanceAfterAction(v, i), Pot(Committed(s)))
<1>1. v \in SharedState /\ v.phase = s.phase /\ v.due = <<>> /\ SameCommitted(s, v)
  BY DEF SeatActed, ActedSeat, SameTurn, SameCommitted
<1>2. Committed(v) = Committed(s) /\ RoundActive(v)
  BY <1>1, CommittedSame DEF RoundActive, HandRuns
<1>3. PotKept(AdvanceAfterAction(v, i), Pot(Committed(v)))
  BY <1>1, <1>2, AdvancePot
<1> QED
  BY <1>2, <1>3

LEMMA CheckOrFoldPot ==
    ASSUME NEW s \in SharedState, RoundActive(s), s.due = <<>>, NEW i \in Seats
    PROVE  PotKept(CheckOrFold(s, i), Pot(Committed(s)))
<1> DEFINE checked == [s EXCEPT !.seat[i].acted = TRUE]
           v == IF ToCall(s, i) = 0 THEN checked ELSE FoldSeat(s, i)
<1>1. SeatActed(s, v, i)
  <2>1. SeatActed(s, checked, i) /\ SeatActed(s, FoldSeat(s, i), i)
    BY CheckActed, FoldSeatActed
  <2> HIDE DEF checked
  <2> QED
    BY <2>1
<1>2. CheckOrFold(s, i) = AdvanceAfterAction(v, i)
  BY DEF CheckOrFold
<1> HIDE DEF v
<1> QED
  BY <1>1, <1>2, ActedPot

(* An automatic turn keeps what the turns before it have kept.             *)
LEMMA AutoPot ==
    ASSUME NEW s \in SharedState, NEW pot, PotKept(s, pot)
    PROVE  PotKept(AutoCheckFoldOnce(s), pot)
<1> DEFINE i == s.active_seat
           c == ClearCountdown(s)
           plays == /\ ~s.settlement_pending /\ HandRuns(s) /\ i \in Actionable(s)
                    /\ s.seat[i].auto_check_fold /\ s.seat[i].pending = NoCommit
<1>1. CASE ~plays
  <2>1. AutoCheckFoldOnce(s) = s
    BY <1>1 DEF AutoCheckFoldOnce
  <2> QED
    BY <2>1
<1>2. CASE plays
  <2>1. AutoCheckFoldOnce(s) = CheckOrFold(c, i)
    BY <1>2 DEF AutoCheckFoldOnce
  <2>2. i \in Seats /\ RoundActive(s)
    BY <1>2, SeatSets DEF RoundActive
  <2>3. s.due = <<>> /\ Pot(Committed(s)) = pot
    BY <2>2 DEF PotKept
  <2>4. c \in SharedState /\ c.phase = s.phase /\ c.due = s.due /\ c.seat = s.seat
    BY ClearCountdownType, ClearCountdownFields
  <2>5. RoundActive(c) /\ Committed(c) = Committed(s)
    BY <2>2, <2>4 DEF RoundActive, HandRuns, Committed
  <2>6. PotKept(CheckOrFold(c, i), Pot(Committed(c)))
    BY <2>2, <2>3, <2>4, <2>5, CheckOrFoldPot
  <2> QED
    BY <2>1, <2>3, <2>5, <2>6
<1> QED
  BY <1>1, <1>2

LEMMA StreetBetsMax ==
    ASSUME NEW s \in SharedState
    PROVE  Max({s.seat[i].street_bet : i \in Seats}) \in Nat
<1> DEFINE f == [i \in Seats |-> s.seat[i].street_bet]
           bets == {s.seat[i].street_bet : i \in Seats}
           images == {f[i] : i \in Seats}
<1>1. bets \in SUBSET Nat
  BY SeatIsTyped DEF SeatType
<1>2. IsFiniteSet(bets)
  <2>1. bets = images
    OBVIOUS
  <2> HIDE DEF f
  <2>2. IsFiniteSet(images)
    BY SeatsAreFinite, ImageOfFinite
  <2> HIDE DEF images, bets
  <2> QED
    BY <2>1, <2>2
<1>3. bets # {}
  <2>1. 1 \in Seats
    BY SeatsAreFinite DEF Seats
  <2> QED
    BY <2>1
<1> SUFFICES Max(bets) \in Nat
  OBVIOUS
<1> HIDE DEF bets
<1> QED
  BY <1>1, <1>2, <1>3, FiniteGreatest

(* The blinds are answered, and the hand begins or ends at once.           *)
LEMMA BlindsPot ==
    ASSUME NEW s \in SharedState, s.phase = "PostingBlinds", s.due = <<>>
    PROVE  PotKept(FinishBlindPosting(s), Pot(Committed(s)))
<1> DEFINE bets == {s.seat[i].street_bet : i \in Seats}
           v == [s EXCEPT !.current_bet = Max(bets), !.min_raise = BIG_BLIND]
           shown == [v EXCEPT !.phase = "PreFlop", !.active_seat = NoSeat]
           begun == [v EXCEPT !.phase = "PreFlop",
                              !.active_seat = After(v.big_blind_seat, Actionable(v))]
           t == FinishBlindPosting(s)
<1>1. Max(bets) \in Nat
  BY StreetBetsMax
<1>2. /\ v \in SharedState /\ v.seat = s.seat /\ v.phase = s.phase /\ v.due = <<>>
  BY <1>1, PokerAssumption DEF SharedState
<1>3. t = CASE Cardinality(Active(v)) = 1 -> FinishByFold(v, CHOOSE w \in Active(v) : TRUE)
          [] Active(v) = {} -> AbandonHand(v)
          [] Cardinality(Active(v)) > 1 /\ Actionable(v) = {} -> FinishShowdown(shown)
          [] OTHER -> begun
  BY DEF FinishBlindPosting
<1>4. /\ shown.phase = "PreFlop" /\ shown.due = v.due /\ shown.seat = v.seat
      /\ begun.phase = "PreFlop" /\ begun.due = v.due /\ begun.seat = v.seat
  BY <1>2 DEF SharedState
<1>5. shown \in SharedState
  <2>1. "PreFlop" \in Phases
    BY DEF Phases, ActionPhases
  <2> QED
    BY <1>2, <2>1 DEF SharedState, NoSeat
<1> HIDE DEF bets, v, shown, begun, t
<1>6. Active(v) = {} => Cardinality(Active(v)) = 0
  BY FS_EmptySet
<1>7. \/ Cardinality(Active(v)) = 1 /\ t = FinishByFold(v, CHOOSE w \in Active(v) : TRUE)
      \/ Active(v) = {} /\ t = AbandonHand(v)
      \/ Cardinality(Active(v)) > 1 /\ t = FinishShowdown(shown)
      \/ t = begun
  BY <1>3, <1>6
<1>8. Committed(v) = Committed(s)
  BY <1>2 DEF Committed
<1>9. CASE Cardinality(Active(v)) = 1 /\ t = FinishByFold(v, CHOOSE w \in Active(v) : TRUE)
  <2>1. PICK w : Active(v) = {w}
    BY <1>2, <1>9, SeatSets, FS_Singleton
  <2>2. (CHOOSE x \in Active(v) : TRUE) = w
    BY <2>1
  <2>3. PotKept(FinishByFold(v, w), Pot(Committed(v)))
    BY <1>2, <2>1, FoldPot
  <2> QED
    BY <1>8, <1>9, <2>2, <2>3 DEF t
<1>10. CASE Active(v) = {} /\ t = AbandonHand(v)
  <2>1. PotKept(AbandonHand(v), Pot(Committed(v)))
    BY <1>2, <1>10, AbandonPot
  <2> QED
    BY <1>8, <1>10, <2>1 DEF t
<1>11. CASE Cardinality(Active(v)) > 1 /\ t = FinishShowdown(shown)
  <2>1. Active(shown) = Active(v) /\ Committed(shown) = Committed(v)
    BY <1>4 DEF Active, Occupied, Committed
  <2>2. PotKept(FinishShowdown(shown), Pot(Committed(shown)))
    BY <1>5, <1>11, <2>1, ShowdownPot
  <2> QED
    BY <1>8, <1>11, <2>1, <2>2 DEF t
<1>12. CASE t = begun
  <2>1. RoundActive(t) /\ t.due = <<>> /\ SameCommitted(s, t)
    BY <1>2, <1>4, <1>12 DEF RoundActive, HandRuns, ActionPhases, SameCommitted
  <2> QED
    BY <2>1, SamePot DEF t
<1> QED
  BY <1>7, <1>9, <1>10, <1>11, <1>12 DEF t

LEMMA BlindAnsweredPot ==
    ASSUME NEW s \in SharedState, s.phase = "PostingBlinds", s.due = <<>>
    PROVE  PotKept(BlindAnswered(s), Pot(Committed(s)))
<1> DEFINE n == Max({s.pending_blinds - 1, 0})
           w == [s EXCEPT !.pending_blinds = n]
<1>1. n \in 0 .. 2
  <2>1. s.pending_blinds \in 0 .. 2
    BY DEF SharedState
  <2>2. n = (IF s.pending_blinds - 1 >= 0 THEN s.pending_blinds - 1 ELSE 0)
    BY <2>1, MaxOfTwo
  <2> HIDE DEF n
  <2> QED
    BY <2>1, <2>2
<1>2. BlindAnswered(s) = IF n = 0 THEN FinishBlindPosting(w) ELSE w
  BY DEF BlindAnswered, SharedState
<1> HIDE DEF n
<1>3. w \in SharedState /\ w.seat = s.seat /\ w.phase = s.phase /\ w.due = s.due
  BY <1>1 DEF SharedState
<1> HIDE DEF w
<1>4. Committed(w) = Committed(s) /\ RoundActive(w)
  BY <1>3 DEF Committed, RoundActive
<1>5. PotKept(FinishBlindPosting(w), Pot(Committed(w)))
  BY <1>3, BlindsPot
<1>6. PotKept(w, Pot(Committed(w)))
  BY <1>3, <1>4 DEF PotKept
<1> QED
  BY <1>2, <1>4, <1>5, <1>6

-------------------------------------------------------------------------------
(* The chips of the accounts, on their way, of the table, and still owed.  *)
BankOf(b) == SumFunctionOnSet(b, Users)
TakenOf(tasks) == {c \in tasks : c.pc = "taken"}
WayOf(tasks) == SumFunctionOnSet([c \in TakenOf(tasks) |-> c.amount], TakenOf(tasks))
PlayOf(s) == IF RoundActive(s) THEN Pot(Committed(s)) ELSE 0
OwedBy(tasks) == SumFunctionOnSet([task \in tasks |-> Credits(task.todo)], tasks)

LEMMA ChipsAre ==
    /\ Chips = BankOf(bank) + WayOf(commits) + PlayOf(state) + OwedBy(settling)
    /\ Chips' = BankOf(bank') + WayOf(commits') + PlayOf(state') + OwedBy(settling')
<1>1. Chips = BankOf(bank) + WayOf(commits) + PlayOf(state) + OwedBy(settling)
  BY DEF Chips, BankOf, WayOf, TakenOf, PlayOf, OwedBy, OnTheirWay, Taken, InPlay, Owed
<1>2. Chips' = BankOf(bank') + WayOf(commits') + PlayOf(state') + OwedBy(settling')
  BY DEF Chips, BankOf, WayOf, TakenOf, PlayOf, OwedBy, OnTheirWay, Taken, InPlay, Owed,
         RoundActive, HandRuns, Committed
<1> QED
  BY <1>1, <1>2

LEMMA BankOfType ==
    ASSUME NEW b \in [Users -> Nat]
    PROVE  BankOf(b) \in Nat
<1>1. IsFiniteSet(Users)
  BY PokerAssumption
<1> QED
  BY <1>1, SumNat DEF BankOf

(* An account changes. *)
LEMMA BankOfChanged ==
    ASSUME NEW b \in [Users -> Nat], NEW u \in Users, NEW n \in Int,
           NEW d, d[u] = n, \A x \in Users \ {u} : d[x] = b[x]
    PROVE  BankOf(d) = BankOf(b) - b[u] + n
<1>1. IsFiniteSet(Users)
  BY PokerAssumption
<1>2. d[u] \in Int /\ \A x \in Users : b[x] \in Int
  OBVIOUS
<1>3. SumFunctionOnSet(d, Users) = SumFunctionOnSet(b, Users) - b[u] + d[u]
  BY <1>1, <1>2, SumUpdate
<1> QED
  BY <1>3 DEF BankOf

WayFinite(tasks) == tasks \subseteq CommitType /\ IsFiniteSet(tasks)
OnWay(c) == IF c.pc = "taken" THEN c.amount ELSE 0

LEMMA WayOfType ==
    ASSUME NEW tasks, WayFinite(tasks)
    PROVE  WayOf(tasks) \in Nat
<1> DEFINE T == TakenOf(tasks)
           f == [c \in T |-> c.amount]
<1>1. IsFiniteSet(T) /\ T \subseteq CommitType
  BY FS_Subset DEF TakenOf, WayFinite
<1>2. \A c \in T : f[c] \in Nat
  BY <1>1 DEF CommitType
<1> SUFFICES SumFunctionOnSet(f, T) \in Nat
  BY DEF WayOf
<1> HIDE DEF f, T
<1> QED
  BY <1>1, <1>2, SumNat

LEMMA WayRemoved ==
    ASSUME NEW tasks, WayFinite(tasks), NEW c \in tasks
    PROVE  WayOf(tasks) = OnWay(c) + WayOf(tasks \ {c}) /\ WayFinite(tasks \ {c})
<1> DEFINE T == TakenOf(tasks)
           R == TakenOf(tasks \ {c})
           f == [d \in T |-> d.amount]
           g == [d \in R |-> d.amount]
<1>1. /\ IsFiniteSet(T) /\ T \subseteq CommitType /\ IsFiniteSet(R) /\ R \subseteq T
      /\ WayFinite(tasks \ {c})
  <2>1. IsFiniteSet(T) /\ T \subseteq CommitType
    BY FS_Subset DEF TakenOf, WayFinite
  <2>2. R \subseteq T
    BY DEF TakenOf
  <2>3. WayFinite(tasks \ {c})
    BY FS_Subset DEF WayFinite
  <2> QED
    BY <2>1, <2>2, <2>3, FS_Subset
<1>2. \A d \in T : f[d] \in Int
  BY <1>1 DEF CommitType
<1>3. WayOf(tasks) = SumFunctionOnSet(f, T) /\ WayOf(tasks \ {c}) = SumFunctionOnSet(g, R)
  BY DEF WayOf
<1>4. \A d \in R : f[d] \in Int /\ g[d] = f[d]
  BY <1>1, <1>2
<1>5. SumFunctionOnSet(f, R) = SumFunctionOnSet(g, R)
  <2> HIDE DEF f, g, R, T
  <2> QED
    BY <1>1, <1>4, SumSame
<1>6. CASE c.pc = "taken"
  <2>1. c \in T /\ R = T \ {c} /\ f[c] = c.amount
    BY <1>6 DEF TakenOf
  <2>2. SumFunctionOnSet(f, T) = f[c] + SumFunctionOnSet(f, T \ {c})
    <3> HIDE DEF f, g, R, T
    <3> QED
      BY <1>1, <1>2, <2>1, SumRemove
  <2> HIDE DEF f, g, R, T
  <2> QED
    BY <1>1, <1>3, <1>5, <1>6, <2>1, <2>2 DEF OnWay
<1>7. CASE c.pc # "taken"
  <2>1. R = T
    BY <1>7 DEF TakenOf
  <2>2. WayOf(tasks \ {c}) \in Nat
    BY <1>1, WayOfType
  <2> HIDE DEF f, g, R, T
  <2> QED
    BY <1>1, <1>3, <1>5, <1>7, <2>1, <2>2 DEF OnWay
<1> QED
  BY <1>6, <1>7

LEMMA WayAdded ==
    ASSUME NEW tasks, WayFinite(tasks), NEW c \in CommitType, c \notin tasks
    PROVE  WayOf(tasks \cup {c}) = OnWay(c) + WayOf(tasks) /\ WayFinite(tasks \cup {c})
<1>1. WayFinite(tasks \cup {c})
  BY FS_AddElement DEF WayFinite
<1>2. (tasks \cup {c}) \ {c} = tasks /\ c \in tasks \cup {c}
  OBVIOUS
<1>3. WayOf(tasks \cup {c}) = OnWay(c) + WayOf((tasks \cup {c}) \ {c})
  BY <1>1, <1>2, WayRemoved
<1> QED
  BY <1>1, <1>2, <1>3

(* What a settlement has still to pay.                                     *)
LEMMA CreditsNat ==
    ASSUME NEW q \in Seq(Settlement)
    PROVE  Credits(q) \in Nat
<1> DEFINE f == [k \in DOMAIN q |-> q[k].credit]
<1>1. DOMAIN q = 1 .. Len(q) /\ Len(q) \in Nat
  OBVIOUS
<1>2. IsFiniteSet(DOMAIN q)
  BY <1>1, FS_Interval
<1>3. ASSUME NEW k \in DOMAIN q PROVE f[k] \in Nat
  <2>1. q[k] \in Settlement
    BY <1>1
  <2> QED
    BY <2>1 DEF Settlement
<1> SUFFICES SumFunctionOnSet(f, DOMAIN q) \in Nat
  BY DEF Credits
<1> HIDE DEF f
<1> QED
  BY <1>2, <1>3, SumNat

LEMMA CreditsNone == Credits(<<>>) = 0
<1>1. DOMAIN <<>> = {}
  OBVIOUS
<1> QED
  BY <1>1, SumEmpty DEF Credits

LEMMA CreditsNext ==
    ASSUME NEW q \in Seq(Settlement), q # <<>>
    PROVE  Credits(q) = Head(q).credit + Credits(Tail(q))
<1> DEFINE n == Len(q)
           r == Tail(q)
           f == [k \in 1 .. n |-> q[k].credit]
           g == [k \in 1 .. n - 1 |-> r[k].credit]
           b == [k \in 1 .. n - 1 |-> k + 1]
<1>1. /\ n \in Nat \ {0} /\ DOMAIN q = 1 .. n /\ DOMAIN r = 1 .. n - 1
      /\ \A k \in 1 .. n - 1 : r[k] = q[k + 1]
      /\ \A k \in 1 .. n : q[k] \in Settlement
      /\ Head(q) = q[1]
  OBVIOUS
<1>2. Credits(q) = SumFunctionOnSet(f, 1 .. n) /\ Credits(r) = SumFunctionOnSet(g, 1 .. n - 1)
  BY <1>1 DEF Credits
<1>3. \A k \in 1 .. n : f[k] \in Int /\ f[k] = q[k].credit
  BY <1>1 DEF Settlement
<1>4. \A k \in 1 .. n - 1 : b[k] = k + 1 /\ g[k] = f[k + 1] /\ k + 1 \in 1 .. n
  BY <1>1
<1> HIDE DEF n, r, f, g, b
<1>5. 1 .. n - 1 \subseteq Int /\ IsFiniteSet(1 .. n) /\ IsFiniteSet(1 .. n - 1)
  BY <1>1, FS_Interval
<1>6. 1 \in 1 .. n
  BY <1>1
<1>7. SumFunctionOnSet(f, 1 .. n) = f[1] + SumFunctionOnSet(f, (1 .. n) \ {1})
  BY <1>3, <1>5, <1>6, SumRemove
<1>8. (1 .. n) \ {1} = {b[k] : k \in 1 .. n - 1}
  <2>1. ASSUME NEW m \in (1 .. n) \ {1} PROVE \E k \in 1 .. n - 1 : m = b[k]
    <3>1. m - 1 \in 1 .. n - 1 /\ b[m - 1] = m
      BY <1>1, <1>4
    <3> QED
      BY <3>1
  <2>2. \A k \in 1 .. n - 1 : b[k] \in (1 .. n) \ {1}
    BY <1>4
  <2> QED
    BY <2>1, <2>2
<1>9. \A k \in 1 .. n - 1 : f[b[k]] \in Int /\ g[k] = f[b[k]]
  BY <1>3, <1>4
<1>10. \A j, k \in 1 .. n - 1 : b[j] = b[k] => j = k
  BY <1>4
<1>11. SumFunctionOnSet(g, 1 .. n - 1) = SumFunctionOnSet(f, {b[k] : k \in 1 .. n - 1})
  <2> DEFINE S == 1 .. n - 1
  <2>1. /\ IsFiniteSet(S)
        /\ \A k \in S : f[b[k]] \in Int /\ g[k] = f[b[k]]
        /\ \A j, k \in S : b[j] = b[k] => j = k
    BY <1>5, <1>9, <1>10
  <2> SUFFICES SumFunctionOnSet(g, S) = SumFunctionOnSet(f, {b[k] : k \in S})
    OBVIOUS
  <2> HIDE DEF S
  <2> QED
    BY <2>1, SumRenamed
<1> QED
  BY <1>1, <1>2, <1>3, <1>6, <1>7, <1>8, <1>11 DEF r

LEMMA OwedNone == OwedBy({}) = 0
BY SumEmpty DEF OwedBy

LEMMA OwedOne ==
    ASSUME NEW task, task.todo \in Seq(Settlement)
    PROVE  OwedBy({task}) = Credits(task.todo) /\ OwedBy({task}) \in Nat
<1> DEFINE f == [x \in {task} |-> Credits(x.todo)]
<1>1. f[task] = Credits(task.todo) /\ Credits(task.todo) \in Nat
  BY CreditsNat
<1>2. OwedBy({task}) = SumFunctionOnSet(f, {task})
  BY DEF OwedBy
<1> HIDE DEF f
<1>3. f[task] \in Int
  BY <1>1
<1>4. SumFunctionOnSet(f, {task}) = f[task]
  BY <1>3, SumOfOne
<1> QED
  BY <1>1, <1>2, <1>4

-------------------------------------------------------------------------------
(* Who has chips in the pot, or on their way to it, holds cards.           *)
StakedSeat(x) ==
    x.committed > 0 \/ x.pending # NoCommit => x.cards > 0 /\ x.user # NoUser
Staked(s) == \A i \in Seats : StakedSeat(s.seat[i])

LEMMA ForgoneType ==
    ASSUME NEW s \in SharedState
    PROVE  Forgone(s) \in Nat
<1> DEFINE c == Committed(s)
           A == Active(s)
           strength == [i \in Seats |-> s.seat[i].cards]
<1>1. c \in [Seats -> Nat] /\ Pot(c) \in Nat /\ A \in SUBSET Seats
  BY PotIsNat DEF Active, Occupied
<1>2. strength \in [Seats -> Nat]
  BY SeatIsTyped DEF SeatType
<1>3. Unclaimed(c, A) \in Nat
  <2> HIDE DEF c, A, strength
  <2> QED
    BY <1>1, <1>2, CreditsAddUp
<1> QED
  BY <1>1, <1>3 DEF Forgone

LEMMA PublishPot ==
    ASSUME NEW s \in SharedState, Publish(s), NEW pot, PotKept(s, pot)
    PROVE  \E t \in SharedState :
              /\ PotKept(t, pot) /\ PublishedTable(t, state')
              /\ settling' = IF t.due = <<>> THEN settling
                             ELSE settling \cup {SettlementTask(t.due)}
<1> DEFINE G == {t \in SharedState : PotKept(t, pot)}
<1>1. s \in G
  OBVIOUS
<1>2. \A t \in G : AutoCheckFoldOnce(t) \in G
  BY AutoPot, AutoCheckFoldType
<1> HIDE DEF G
<1>3. PICK t \in G :
               /\ state' = [StartActionCountdownIfNeeded(t) EXCEPT !.due = <<>>]
               /\ settling' = IF StartActionCountdownIfNeeded(t).due = <<>> THEN settling
                              ELSE settling \cup
                                   {SettlementTask(StartActionCountdownIfNeeded(t).due)}
  BY <1>1, <1>2, PublishOutcome
<1>4. t \in SharedState /\ PotKept(t, pot)
  BY DEF G
<1>5. StartActionCountdownIfNeeded(t).due = t.due /\ PublishedTable(t, state')
  BY <1>3, <1>4, CountdownFields
<1> QED
  BY <1>3, <1>4, <1>5

(* What is published of a hand owes what the hand does not hold.           *)
LEMMA PublishOwes ==
    ASSUME NEW s \in SharedState, Publish(s), NEW pot \in Nat, PotKept(s, pot), settling = {}
    PROVE  /\ PlayOf(state') + OwedBy(settling')
                + (IF RoundActive(state') THEN 0 ELSE Forgone(state')) = pot
           /\ Forgone(state') \in Nat
<1>1. PICK t \in SharedState :
              /\ PotKept(t, pot) /\ PublishedTable(t, state')
              /\ settling' = IF t.due = <<>> THEN settling
                             ELSE settling \cup {SettlementTask(t.due)}
  BY PublishPot
<1>2. state'.phase = t.phase /\ state'.seat = t.seat
  BY <1>1 DEF PublishedTable
<1>3. /\ RoundActive(state') <=> RoundActive(t)
      /\ Committed(state') = Committed(t) /\ Active(state') = Active(t)
  BY <1>2 DEF RoundActive, HandRuns, Committed, Active, Occupied
<1>4. Forgone(state') = Forgone(t)
  BY <1>2, <1>3 DEF Forgone
<1>5. Forgone(t) \in Nat
  BY ForgoneType
<1>6. t.due \in Seq(Settlement)
  BY DEF SharedState
<1>7. settling' = IF t.due = <<>> THEN {} ELSE {SettlementTask(t.due)}
  BY <1>1
<1>8. OwedBy(settling') = Credits(t.due) /\ Credits(t.due) \in Nat
  <2>1. CASE t.due = <<>>
    <3>1. settling' = {} /\ Credits(t.due) = 0
      BY <1>7, <2>1, CreditsNone
    <3> QED
      BY <3>1, OwedNone
  <2>2. CASE t.due # <<>>
    <3> DEFINE task == SettlementTask(t.due)
    <3>1. settling' = {task} /\ task.todo = t.due
      BY <1>7, <2>2 DEF SettlementTask
    <3> HIDE DEF task
    <3>2. OwedBy({task}) = Credits(task.todo)
      BY <1>6, <3>1, OwedOne
    <3> QED
      BY <1>6, <3>1, <3>2, CreditsNat
  <2> QED
    BY <2>1, <2>2
<1>9. CASE RoundActive(t)
  <2>1. t.due = <<>> /\ Pot(Committed(t)) = pot
    BY <1>1, <1>9 DEF PotKept
  <2>2. PlayOf(state') = pot /\ OwedBy(settling') = 0
    BY <1>3, <1>8, <1>9, <2>1, CreditsNone DEF PlayOf
  <2> QED
    BY <1>3, <1>4, <1>5, <1>9, <2>2
<1>10. CASE ~RoundActive(t)
  <2>1. Credits(t.due) + Forgone(t) = pot
    BY <1>1, <1>10 DEF PotKept
  <2>2. PlayOf(state') = 0
    BY <1>3, <1>10 DEF PlayOf
  <2> QED
    BY <1>3, <1>4, <1>5, <1>8, <1>10, <2>1, <2>2
<1> QED
  BY <1>9, <1>10

LEMMA PublishIdle ==
    ASSUME NEW s \in SharedState, s.due = <<>>, ~RoundActive(s), Publish(s)
    PROVE  ~RoundActive(state') /\ settling' = settling
<1>1. PICK t \in SharedState :
              /\ AutoPlayed(s, t) /\ PublishedTable(t, state')
              /\ settling' = IF t.due = <<>> THEN settling
                             ELSE settling \cup {SettlementTask(t.due)}
  BY PublishFacts
<1>2. t = s
  BY <1>1 DEF AutoPlayed, RoundActive
<1> QED
  BY <1>1, <1>2 DEF PublishedTable, RoundActive, HandRuns

LEMMA PublishStaked ==
    ASSUME NEW s \in SharedState, Staked(s), Publish(s)
    PROVE  Staked(state')
<1>1. PICK t \in SharedState :
              /\ AutoPlayed(s, t) /\ PublishedTable(t, state')
              /\ settling' = IF t.due = <<>> THEN settling
                             ELSE settling \cup {SettlementTask(t.due)}
  BY PublishFacts
<1>2. Staked(t)
  BY <1>1 DEF AutoPlayed, Played, Moves, MovedSeat, Staked, StakedSeat
<1> QED
  BY <1>1, <1>2 DEF PublishedTable, Staked

(***************************************************************************)
(* The chips of a step.                                                    *)
(***************************************************************************)
Accounted ==
    Chips' - minted' =
        Chips - minted - IF RoundActive(state) /\ ~RoundActive(state') THEN Forgone(state') ELSE 0

Priced ==
    /\ BankOf(bank) \in Nat /\ WayOf(commits) \in Nat /\ PlayOf(state) \in Nat
    /\ OwedBy(settling) \in Nat /\ minted \in Int

Sound == Staked(state') /\ Accounted

(* A table of which nobody leaves a hand. *)
SeatedInv == TableInv /\ bounds.leavers = {}

LEMMA InvPriced == SeatedInv => Priced
<1> SUFFICES ASSUME TableInv, bounds.leavers = {} PROVE Priced
  BY DEF SeatedInv
<1>1. /\ bank \in [Users -> Nat] /\ commits \subseteq CommitType /\ IsFiniteSet(commits)
      /\ settling \subseteq TaskType /\ state \in SharedState /\ minted \in Int
      /\ \A x, y \in settling : x = y
  BY DEF TableInv, TypeOK, OneHandToLeave
<1>2. BankOf(bank) \in Nat
  BY <1>1, BankOfType
<1>3. WayOf(commits) \in Nat
  BY <1>1, WayOfType DEF WayFinite
<1>4. PlayOf(state) \in Nat
  BY <1>1, PotIsNat DEF PlayOf
<1>5. OwedBy(settling) \in Nat
  <2>1. CASE settling = {}
    BY <2>1, OwedNone
  <2>2. CASE settling # {}
    <3>1. PICK task \in settling : settling = {task}
      BY <1>1, <2>2
    <3>2. task.todo \in Seq(Settlement)
      BY <1>1 DEF TaskType
    <3> QED
      BY <3>1, <3>2, OwedOne
  <2> QED
    BY <2>1, <2>2
<1> QED
  BY <1>1, <1>2, <1>3, <1>4, <1>5 DEF Priced

LEMMA PricedNext == SeatedInv' => Priced'
BY InvPriced, PTL

(* A step that moves no chips out of what is counted.                      *)
LEMMA KeepsAccounts ==
    ASSUME Priced, Priced', RoundActive(state) => RoundActive(state'),
           BankOf(bank') + WayOf(commits') + PlayOf(state') + OwedBy(settling') - minted'
           = BankOf(bank) + WayOf(commits) + PlayOf(state) + OwedBy(settling) - minted
    PROVE  Accounted
<1>1. /\ BankOf(bank) \in Nat /\ WayOf(commits) \in Nat /\ PlayOf(state) \in Nat
      /\ OwedBy(settling) \in Nat /\ minted \in Int
      /\ BankOf(bank') \in Nat /\ WayOf(commits') \in Nat /\ PlayOf(state') \in Nat
      /\ OwedBy(settling') \in Nat /\ minted' \in Int
  BY DEF Priced, BankOf, WayOf, PlayOf, OwedBy, TakenOf, RoundActive, HandRuns, Committed
<1>2. Chips' - minted' = Chips - minted
  BY <1>1, ChipsAre
<1>3. Chips - minted \in Int
  BY <1>1, ChipsAre
<1> QED
  BY <1>2, <1>3 DEF Accounted

(* What a publishing section makes of the table and of the commits.        *)
SectionPaid(s, tasks) ==
    /\ s \in SharedState /\ Staked(s)
    /\ RoundActive(state) =>
          /\ PotKept(s, PlayOf(state) + WayOf(commits) - WayOf(tasks))
          /\ PlayOf(state) + WayOf(commits) - WayOf(tasks) \in Nat
    /\ ~RoundActive(state) => ~RoundActive(s) /\ s.due = <<>> /\ WayOf(tasks) = WayOf(commits)

LEMMA PublishSound ==
    ASSUME Priced, Priced', RoundActive(state) => settling = {},
           NEW s, SectionPaid(s, commits'), Publish(s), UNCHANGED <<bank, minted>>
    PROVE  Sound
<1>1. s \in SharedState /\ Staked(s)
  BY DEF SectionPaid
<1>2. Staked(state')
  BY <1>1, PublishStaked
<1>3. /\ BankOf(bank) \in Nat /\ WayOf(commits) \in Nat /\ PlayOf(state) \in Nat
      /\ OwedBy(settling) \in Nat /\ minted \in Int
      /\ BankOf(bank') = BankOf(bank) /\ WayOf(commits') \in Nat /\ PlayOf(state') \in Nat
      /\ OwedBy(settling') \in Nat /\ minted' = minted
  BY DEF Priced, BankOf, WayOf, PlayOf, OwedBy, TakenOf, RoundActive, HandRuns, Committed
<1>4. CASE RoundActive(state)
  <2> DEFINE pot == PlayOf(state) + WayOf(commits) - WayOf(commits')
  <2>1. PotKept(s, pot) /\ pot \in Nat /\ settling = {}
    BY <1>4 DEF SectionPaid
  <2>2. pot = PlayOf(state) + WayOf(commits) - WayOf(commits')
    OBVIOUS
  <2> HIDE DEF pot
  <2>3. /\ PlayOf(state') + OwedBy(settling')
             + (IF RoundActive(state') THEN 0 ELSE Forgone(state')) = pot
        /\ Forgone(state') \in Nat
    BY <1>1, <2>1, PublishOwes
  <2>4. OwedBy(settling) = 0
    BY <2>1, OwedNone
  <2>5. /\ Chips = BankOf(bank) + WayOf(commits) + PlayOf(state) + 0
        /\ Chips' = BankOf(bank) + WayOf(commits') + PlayOf(state') + OwedBy(settling')
    BY <1>3, <2>4, ChipsAre
  <2>6. ASSUME RoundActive(state') PROVE Accounted
    <3>1. PlayOf(state') + OwedBy(settling') = pot
      BY <1>3, <2>1, <2>3, <2>6
    <3>2. Chips' - minted' = Chips - minted - 0
      BY <1>3, <2>1, <2>2, <2>5, <3>1
    <3> QED
      BY <2>6, <3>2 DEF Accounted
  <2>7. ASSUME ~RoundActive(state') PROVE Accounted
    <3>1. PlayOf(state') + OwedBy(settling') + Forgone(state') = pot
      BY <2>3, <2>7
    <3>2. Chips' - minted' = Chips - minted - Forgone(state')
      BY <1>3, <2>1, <2>2, <2>3, <2>5, <3>1
    <3> QED
      BY <1>4, <2>7, <3>2 DEF Accounted
  <2> QED
    BY <1>2, <2>6, <2>7 DEF Sound
<1>5. CASE ~RoundActive(state)
  <2>1. ~RoundActive(s) /\ s.due = <<>> /\ WayOf(commits') = WayOf(commits)
    BY <1>5 DEF SectionPaid
  <2>2. ~RoundActive(state') /\ settling' = settling
    BY <1>1, <2>1, PublishIdle
  <2>3. PlayOf(state') = PlayOf(state)
    BY <1>5, <2>2 DEF PlayOf
  <2>4. Accounted
    BY <1>3, <1>5, <2>1, <2>2, <2>3, KeepsAccounts
  <2> QED
    BY <1>2, <2>4 DEF Sound
<1> QED
  BY <1>4, <1>5

-------------------------------------------------------------------------------
(***************************************************************************)
(* The steps, one after the other.                                         *)
(***************************************************************************)
Ready == TypeInv /\ SeatedInv /\ Staked(state) /\ Priced /\ Priced'

LEMMA ReadyFacts == Ready =>
    /\ TypeInv /\ TableInv /\ bounds.leavers = {} /\ Staked(state) /\ Priced /\ Priced'
    /\ state \in SharedState /\ state.due = <<>> /\ minted \in Int
    /\ WayFinite(commits) /\ settling \subseteq TaskType /\ bank \in [Users -> Nat]
    /\ RoundActive(state) => settling = {}
    /\ \A c \in commits : Lands(state, c) /\ c \in CommitType
    /\ \A c, d \in commits : c.id = d.id => c = d
    /\ \A x, y \in settling : x = y
<1> SUFFICES ASSUME TypeInv, TableInv, bounds.leavers = {} PROVE
    /\ state \in SharedState /\ state.due = <<>> /\ minted \in Int
    /\ WayFinite(commits) /\ settling \subseteq TaskType /\ bank \in [Users -> Nat]
    /\ RoundActive(state) => settling = {}
    /\ \A c \in commits : Lands(state, c) /\ c \in CommitType
    /\ \A c, d \in commits : c.id = d.id => c = d
    /\ \A x, y \in settling : x = y
  BY DEF Ready, SeatedInv
<1>1. /\ state \in SharedState /\ state.due = <<>> /\ minted \in Int
      /\ commits \subseteq CommitType /\ IsFiniteSet(commits)
      /\ settling \subseteq TaskType /\ bank \in [Users -> Nat]
  BY InvTypes
<1>2. /\ RoundActive(state) => settling = {}
      /\ \A x, y \in settling : x = y
      /\ \A c \in commits : Lands(state, c)
      /\ \A c, d \in commits : c.id = d.id => c = d
  BY DEF TableInv, OneHandToLeave, IdsDiffer
<1> QED
  BY <1>1, <1>2 DEF WayFinite

(* The table whose bets stay where they are.                               *)
SameStakes(s, t) ==
    \A i \in Seats : /\ t.seat[i].user = s.seat[i].user /\ t.seat[i].cards = s.seat[i].cards
                     /\ t.seat[i].committed = s.seat[i].committed
                     /\ t.seat[i].pending \in {s.seat[i].pending, NoCommit}

LEMMA StakesStay ==
    ASSUME NEW s, NEW t, Staked(s), SameStakes(s, t)
    PROVE  Staked(t) /\ SameCommitted(s, t) /\ Committed(t) = Committed(s)
<1>1. Staked(t) /\ SameCommitted(s, t)
  BY DEF SameStakes, Staked, StakedSeat, SameCommitted
<1> QED
  BY <1>1, CommittedSame

LEMMA KeptPaid ==
    ASSUME Ready, RoundActive(state), NEW s \in SharedState, Staked(s),
           PotKept(s, Pot(Committed(state))), NEW tasks, WayOf(tasks) = WayOf(commits)
    PROVE  SectionPaid(s, tasks)
<1>1. WayOf(commits) \in Nat /\ PlayOf(state) \in Nat /\ PlayOf(state) = Pot(Committed(state))
  BY DEF Ready, Priced, PlayOf
<1>2. PlayOf(state) + WayOf(commits) - WayOf(tasks) = Pot(Committed(state))
  BY <1>1
<1> QED
  BY <1>1, <1>2 DEF SectionPaid

(* A table that only rests, or that waits for one commit less or more.     *)
LEMMA SamePaid ==
    ASSUME Ready, NEW s \in SharedState, SameStakes(state, s), s.phase = state.phase,
           s.due = <<>>, NEW tasks, WayOf(tasks) = WayOf(commits)
    PROVE  SectionPaid(s, tasks)
<1>1. Staked(s) /\ SameCommitted(state, s)
  BY StakesStay DEF Ready
<1>2. RoundActive(s) <=> RoundActive(state)
  BY DEF RoundActive, HandRuns
<1>3. CASE RoundActive(state)
  <2>1. PotKept(s, Pot(Committed(state)))
    BY <1>1, <1>2, <1>3, SamePot
  <2> QED
    BY <1>1, <1>3, <2>1, KeptPaid
<1>4. CASE ~RoundActive(state)
  BY <1>1, <1>2, <1>4 DEF SectionPaid
<1> QED
  BY <1>3, <1>4

LEMMA PaidSound ==
    ASSUME Ready, NEW s, SectionPaid(s, commits'), Publish(s), UNCHANGED <<bank, minted>>
    PROVE  Sound
BY ReadyFacts, PublishSound

LEMMA QuietSound ==
    ASSUME Ready, NEW s, Quiet(state, s), Publish(s), UNCHANGED <<commits, bank, minted>>
    PROVE  Sound
<1>1. s \in SharedState /\ s.phase = state.phase /\ s.due = <<>> /\ SameStakes(state, s)
  BY ReadyFacts DEF Quiet, SameTurn, SameHand, SameStakes
<1>2. SectionPaid(s, commits)
  BY <1>1, SamePaid
<1>3. SectionPaid(s, commits')
  BY <1>2
<1> QED
  BY <1>3, PaidSound

LEMMA PlayedStaked ==
    ASSUME NEW s, NEW t, Staked(s), Moves(s, t)
    PROVE  Staked(t)
BY DEF Moves, MovedSeat, Staked, StakedSeat

(* A turn that is played.                                                  *)
LEMMA TurnSound ==
    ASSUME Ready, HandRuns(state), NEW r, Rested(state, r),
           NEW s, Played(r, s), PotKept(s, Pot(Committed(r))), Publish(s),
           UNCHANGED <<commits, bank, minted>>
    PROVE  Sound
<1>1. SameStakes(state, r) /\ Staked(state) /\ RoundActive(state)
  BY ReadyFacts DEF Rested, SameHand, SameStakes, RoundActive
<1>2. Staked(r) /\ Committed(r) = Committed(state)
  BY <1>1, StakesStay
<1>3. s \in SharedState /\ Staked(s)
  BY <1>2, PlayedStaked DEF Played, Moves
<1>4. SectionPaid(s, commits)
  BY <1>1, <1>2, <1>3, KeptPaid
<1>5. SectionPaid(s, commits')
  BY <1>4
<1> QED
  BY <1>5, PaidSound

LEMMA RestedRuns ==
    ASSUME Ready, HandRuns(state), NEW r, Rested(state, r)
    PROVE  r \in SharedState /\ r.phase # "PostingBlinds" /\ RoundActive(r) /\ r.due = <<>>
BY ReadyFacts DEF Rested, HandRuns, RoundActive, ActionPhases

LEMMA PlayedSound ==
    ASSUME Ready, NEW u \in Users, NEW i \in Seats, Check(u, i) \/ Fold(u, i)
    PROVE  Sound
<1> DEFINE r == RecordManualAction(state, i)
           v == [r EXCEPT !.seat[i].acted = TRUE]
           w == FoldSeat(r, i)
           checked == AdvanceAfterAction(v, i)
           folded == AdvanceAfterAction(w, i)
<1>1. MayAct(u, i) /\ HandRuns(state)
  BY DEF Check, Fold, MayAct
<1>2. Rested(state, r)
  BY ReadyFacts, RecordedRested
<1>3. UNCHANGED <<commits, bank, minted>>
  BY DEF Check, Fold
<1>4. (Check(u, i) => Publish(checked)) /\ (Fold(u, i) => Publish(folded))
  BY DEF Check, Fold
<1> HIDE DEF r
<1>5. r \in SharedState /\ r.phase # "PostingBlinds" /\ RoundActive(r) /\ r.due = <<>>
  BY <1>1, <1>2, RestedRuns
<1>6. SeatActed(r, v, i) /\ SeatActed(r, w, i)
  BY <1>5, CheckActed, FoldSeatActed
<1> HIDE DEF v, w
<1>7. /\ Played(r, checked) /\ PotKept(checked, Pot(Committed(r)))
      /\ Played(r, folded) /\ PotKept(folded, Pot(Committed(r)))
  BY <1>5, <1>6, ActedPlayed, ActedPot
<1> HIDE DEF checked, folded
<1> QED
  BY <1>1, <1>2, <1>3, <1>4, <1>7, TurnSound

LEMMA TimeoutSound ==
    ASSUME Ready, TimeoutActiveAction
    PROVE  Sound
<1> DEFINE i == state.active_seat
<1>1. HandRuns(state) /\ i \in Seats /\ UNCHANGED <<commits, syncs, bank, bounds, minted>>
  BY ReadyFacts, TimeoutFacts
<1>2. PICK missed \in 0 .. MAX_MISSED_ACTIONS, leaves \in BOOLEAN :
          Publish(CheckOrFold(Missed(i, missed, leaves), i))
  BY ReadyFacts, TimeoutFacts
<1> DEFINE r == Missed(i, missed, leaves)
           s == CheckOrFold(r, i)
<1>3. Rested(state, r)
  BY <1>1, ReadyFacts, MissedRested
<1>4. Publish(s)
  BY <1>2
<1> HIDE DEF i, r
<1>5. r \in SharedState /\ r.phase # "PostingBlinds" /\ RoundActive(r) /\ r.due = <<>>
  BY <1>1, <1>3, RestedRuns
<1>6. Played(r, s) /\ PotKept(s, Pot(Committed(r)))
  BY <1>1, <1>5, CheckOrFoldPlayed, CheckOrFoldPot
<1> HIDE DEF s
<1> QED
  BY <1>1, <1>3, <1>4, <1>6, TurnSound

(* A seat that is cleared has no chips in the pot of a hand that runs.     *)
LEMMA LeaveTableSound ==
    ASSUME Ready, NEW u \in Users, NEW i \in Seats, LeaveTable(u, i)
    PROVE  Sound
<1> DEFINE s == RemoveSeats(state, {i})
<1>1. Publish(s) /\ UNCHANGED <<commits, bank, minted>>
      /\ MayLeave(i) /\ ~(HandRuns(state) /\ state.seat[i].cards > 0)
  BY DEF LeaveTable
<1>2. Cleared(state, s, {i})
  BY ReadyFacts, RemoveSeatsCleared
<1> HIDE DEF s
<1>3. /\ s \in SharedState /\ s.phase = state.phase /\ s.due = <<>>
      /\ s.seat[i] = EmptySeat /\ \A j \in Seats \ {i} : s.seat[j] = state.seat[j]
  BY <1>2, ReadyFacts DEF Cleared, SameTurn
<1>4. Staked(s)
  BY <1>3, ReadyFacts DEF Staked, StakedSeat, EmptySeat
<1>5. (RoundActive(s) <=> RoundActive(state)) /\ (RoundActive(state) => HandRuns(state))
  BY <1>1, <1>3 DEF RoundActive, HandRuns, MayLeave
<1>6. CASE RoundActive(state)
  <2>1. state.seat[i].committed = 0
    BY <1>1, <1>5, <1>6, ReadyFacts, BetTypes DEF Staked, StakedSeat
  <2>2. SameCommitted(state, s)
    BY <1>3, <2>1 DEF SameCommitted, EmptySeat
  <2>3. PotKept(s, Pot(Committed(state)))
    BY <1>3, <1>5, <1>6, <2>2, SamePot
  <2>4. SectionPaid(s, commits)
    BY <1>3, <1>4, <1>6, <2>3, KeptPaid
  <2> QED
    BY <1>1, <2>4, PaidSound
<1>7. CASE ~RoundActive(state)
  <2>1. SectionPaid(s, commits)
    BY <1>3, <1>4, <1>5, <1>7 DEF SectionPaid
  <2> QED
    BY <1>1, <2>1, PaidSound
<1> QED
  BY <1>6, <1>7

(* A commit that is asked for takes nothing yet.                           *)
LEMMA AskSound ==
    ASSUME Ready, NEW u \in Users, NEW i \in Seats,
           Call(u, i) \/ AllIn(u, i) \/ \E size \in RaiseSizes : BetOrRaise(u, i, size)
    PROVE  Sound
<1> USE ReadyFacts
<1>1. PICK target, raise : Asks(i, target, raise)
  BY CommitAsked
<1> DEFINE t == Commit(RecordManualAction(state, i), i, FreshId(commits), FALSE,
                       target - state.seat[i].street_bet, target, raise)
           c == CommitTask(t, i)
<1>2. /\ target \in Int /\ raise \in Nat /\ target > state.seat[i].street_bet
      /\ Publish(t) /\ commits' = commits \cup {c} /\ UNCHANGED <<bank, minted>>
      /\ HandRuns(state) /\ i = state.active_seat /\ state.seat[i].user \in Users
  BY <1>1 DEF Asks, CommitTo
<1>3. CommitMakes(t, i, target, raise)
  <2>1. target \in Int /\ raise \in Nat /\ target > state.seat[i].street_bet
    BY <1>2
  <2> QED
    BY <2>1, CommitToMakes, Zenon
<1> HIDE DEF t
<1>4. PICK r, p :
         /\ Rested(state, r) /\ CommitMade(r, t, i, p)
         /\ p.id \in Nat \ {0} /\ \A d \in commits : d.id # p.id
         /\ p.amount \in Nat \ {0} /\ p.target = target /\ p.raise = raise
         /\ target = state.seat[i].street_bet + p.amount
         /\ ~p.blind /\ p # NoCommit
         /\ c = NewTask(p.id, t.seat[i].user, i, p.amount)
  BY <1>3 DEF CommitMakes
<1> HIDE DEF c
<1>5. /\ t \in SharedState /\ t.phase = state.phase /\ t.due = <<>>
      /\ \A j \in Seats : /\ t.seat[j].user = state.seat[j].user
                          /\ t.seat[j].cards = state.seat[j].cards
                          /\ t.seat[j].committed = state.seat[j].committed
                          /\ j # i => t.seat[j].pending = state.seat[j].pending
  BY <1>4 DEF CommitMade, SameTurn, SameButPending, Rested, SameHand
<1>6. SameCommitted(state, t) /\ RoundActive(t) /\ RoundActive(state)
  BY <1>2, <1>5 DEF SameCommitted, RoundActive, HandRuns
<1>7. state.seat[i].cards > 0 /\ state.seat[i].user # NoUser
  <2>1. i \in Active(state)
    BY <1>2 DEF TableInv, TurnGood, Actionable
  <2> QED
    BY <2>1 DEF Active, Occupied
<1>8. Staked(t)
  BY <1>5, <1>7 DEF Staked, StakedSeat
<1>9. c \in CommitType /\ c \notin commits /\ OnWay(c) = 0
  <2>1. t.seat[i].user \in Users
    BY <1>2, <1>5
  <2>2. c.id = p.id /\ c.pc = "debiting"
    BY <1>4 DEF NewTask
  <2> QED
    BY <1>4, <2>1, <2>2, NewTaskType DEF OnWay
<1>10. WayOf(commits') = WayOf(commits)
  <2>1. WayOf(commits) \in Nat
    BY WayOfType
  <2>2. WayOf(commits \cup {c}) = OnWay(c) + WayOf(commits)
    BY <1>9, WayAdded
  <2> QED
    BY <1>2, <1>9, <2>1, <2>2
<1>11. PotKept(t, Pot(Committed(state)))
  BY <1>5, <1>6, SamePot
<1>12. SectionPaid(t, commits')
  BY <1>5, <1>6, <1>8, <1>10, <1>11, KeptPaid
<1> QED
  BY <1>2, <1>12, PaidSound

(* Blinds that are answered move no seat.                                  *)
LEMMA BlindAnsweredSeats ==
    ASSUME NEW s \in SharedState, s.phase = "PostingBlinds"
    PROVE  BlindAnswered(s) \in SharedState /\ \A j \in Seats : BlindAnswered(s).seat[j] = s.seat[j]
<1> DEFINE n == Max({s.pending_blinds - 1, 0})
           w == [s EXCEPT !.pending_blinds = n]
<1>1. n \in 0 .. 2
  <2>1. s.pending_blinds \in 0 .. 2
    BY DEF SharedState
  <2>2. n = (IF s.pending_blinds - 1 >= 0 THEN s.pending_blinds - 1 ELSE 0)
    BY <2>1, MaxOfTwo
  <2> HIDE DEF n
  <2> QED
    BY <2>1, <2>2
<1>2. BlindAnswered(s) = IF n = 0 THEN FinishBlindPosting(w) ELSE w
  BY DEF BlindAnswered, SharedState
<1> HIDE DEF n
<1>3. w \in SharedState /\ w.seat = s.seat /\ w.phase = s.phase /\ w.pending_blinds = n
  BY <1>1 DEF SharedState
<1> HIDE DEF w
<1>4. n = 0 => \A j \in Seats : FinishBlindPosting(w).seat[j] = w.seat[j]
  BY <1>3, BlindsFinished
<1>5. BlindAnswered(s) \in SharedState
  BY BlindAnsweredType
<1> QED
  BY <1>2, <1>3, <1>4, <1>5

(* A commit that is taken: its chips move from their way into the pot.     *)
LEMMA PotPlaced ==
    ASSUME NEW s \in SharedState, NEW i \in Seats, NEW t, NEW p, p.amount \in Nat,
           BetPlaced(s, t, i, p)
    PROVE  Pot(Committed(t)) = Pot(Committed(s)) + p.amount
<1> DEFINE f == Committed(s)
           g == Committed(t)
<1>1. /\ g[i] = s.seat[i].committed + p.amount /\ f[i] = s.seat[i].committed
      /\ \A j \in Seats \ {i} : g[j] = f[j]
  BY DEF BetPlaced, PotSeat, OtherSeat, Committed
<1>2. f \in [Seats -> Nat] /\ Pot(f) \in Nat
  BY PotIsNat
<1> HIDE DEF f, g
<1>3. g[i] \in Int /\ g[i] = f[i] + p.amount /\ \A j \in Seats : f[j] \in Int
  BY <1>1, <1>2
<1>4. SumFunctionOnSet(g, Seats) = SumFunctionOnSet(f, Seats) - f[i] + g[i]
  <2>1. IsFiniteSet(Seats) /\ \A j \in Seats : f[j] \in Int
    BY <1>3, SeatsAreFinite
  <2>2. g[i] \in Int /\ \A j \in Seats \ {i} : g[j] = f[j]
    BY <1>1, <1>3
  <2> QED
    BY <2>1, <2>2, SumUpdate
<1>5. Pot(g) = Pot(f) - f[i] + g[i]
  BY <1>4 DEF Pot
<1> QED
  BY <1>2, <1>3, <1>5 DEF f, g

LEMMA LandsFacts ==
    ASSUME Ready, NEW c \in commits
    PROVE  /\ c.seat \in Seats /\ c.amount \in Nat \ {0} /\ Matches(state, c)
           /\ state.seat[c.seat].pending.amount = c.amount
           /\ state.seat[c.seat].pending # NoCommit
           /\ state.seat[c.seat].cards > 0 /\ state.seat[c.seat].user # NoUser
           /\ RoundActive(state)
           /\ WayOf(commits) = OnWay(c) + WayOf(commits \ {c})
           /\ WayOf(commits \ {c}) \in Nat /\ WayFinite(commits \ {c})
<1>1. Lands(state, c) /\ c \in CommitType
  BY ReadyFacts
<1>2. /\ c.seat \in Seats /\ c.amount \in Nat \ {0} /\ Matches(state, c)
      /\ state.seat[c.seat].pending.amount = c.amount
      /\ state.seat[c.seat].pending # NoCommit /\ RoundActive(state)
  BY <1>1 DEF CommitType, Lands, Matches, NoCommit
<1>3. state.seat[c.seat].cards > 0 /\ state.seat[c.seat].user # NoUser
  BY <1>2, ReadyFacts DEF Staked, StakedSeat
<1>4. /\ WayOf(commits) = OnWay(c) + WayOf(commits \ {c})
      /\ WayFinite(commits \ {c})
  BY ReadyFacts, WayRemoved
<1>5. WayOf(commits \ {c}) \in Nat
  BY <1>4, WayOfType
<1> QED
  BY <1>2, <1>3, <1>4, <1>5

LEMMA SuccessSound ==
    ASSUME Ready, NEW c \in commits, ApplyCommitSuccess(c)
    PROVE  Sound
<1> DEFINE i == c.seat
           p == state.seat[i].pending
           t == InPot(state, i)
           s == IF state.phase = "PostingBlinds" THEN BlindAnswered(t)
                ELSE AdvanceAfterAction(t, i)
           tasks == commits \ {c}
<1>1. /\ i \in Seats /\ c.amount \in Nat \ {0} /\ p.amount = c.amount
      /\ state.seat[i].cards > 0 /\ state.seat[i].user # NoUser /\ RoundActive(state)
      /\ WayOf(commits) = OnWay(c) + WayOf(tasks) /\ WayOf(tasks) \in Nat
  BY LandsFacts
<1>2. Publish(s) /\ c.pc = "taken" /\ commits' = tasks /\ UNCHANGED <<bank, minted>>
  BY DEF ApplyCommitSuccess
<1>3. BetPlaced(state, t, i, p)
  BY <1>1, ReadyFacts, InPotFields
<1> HIDE DEF t, tasks
<1>4. /\ t \in SharedState /\ t.phase = state.phase /\ t.due = <<>>
      /\ \A j \in Seats : /\ t.seat[j].user = state.seat[j].user
                          /\ t.seat[j].cards = state.seat[j].cards
      /\ \A j \in Seats \ {i} : /\ t.seat[j].pending = state.seat[j].pending
                                /\ t.seat[j].committed = state.seat[j].committed
  BY <1>3, ReadyFacts DEF BetPlaced, SameSpot, PotSeat, OtherSeat
<1>5. Staked(t) /\ RoundActive(t)
  BY <1>1, <1>4, ReadyFacts DEF Staked, StakedSeat, RoundActive, HandRuns
<1>6. Pot(Committed(t)) = Pot(Committed(state)) + c.amount
  BY <1>1, <1>3, ReadyFacts, PotPlaced
<1> HIDE DEF i, p
<1>7. s \in SharedState /\ Staked(s) /\ PotKept(s, Pot(Committed(t)))
  <2>1. CASE state.phase = "PostingBlinds"
    <3>1. s = BlindAnswered(t) /\ t.phase = "PostingBlinds"
      BY <1>4, <2>1
    <3> HIDE DEF s
    <3>2. s \in SharedState /\ \A j \in Seats : s.seat[j] = t.seat[j]
      BY <1>4, <3>1, BlindAnsweredSeats
    <3>3. PotKept(s, Pot(Committed(t)))
      BY <1>4, <3>1, BlindAnsweredPot
    <3>4. Staked(s)
      BY <1>5, <3>2 DEF Staked
    <3> QED
      BY <3>2, <3>3, <3>4
  <2>2. CASE state.phase # "PostingBlinds"
    <3>1. s = AdvanceAfterAction(t, i) /\ t.phase # "PostingBlinds"
      BY <1>4, <2>2
    <3> HIDE DEF s
    <3>2. Moves(t, s)
      BY <1>1, <1>4, <3>1, AdvanceMoves
    <3>3. Staked(s) /\ s \in SharedState
      BY <1>5, <3>2, PlayedStaked DEF Moves
    <3>4. PotKept(s, Pot(Committed(t)))
      BY <1>1, <1>4, <1>5, <3>1, AdvancePot
    <3> QED
      BY <3>3, <3>4
  <2> QED
    BY <2>1, <2>2
<1> HIDE DEF s
<1>8. PlayOf(state) = Pot(Committed(state)) /\ PlayOf(state) \in Nat /\ OnWay(c) = c.amount
  BY <1>1, <1>2, ReadyFacts DEF PlayOf, Priced, OnWay
<1>9. /\ PlayOf(state) + WayOf(commits) - WayOf(tasks) = Pot(Committed(t))
      /\ PlayOf(state) + WayOf(commits) - WayOf(tasks) \in Nat
  BY <1>1, <1>6, <1>8
<1>10. SectionPaid(s, commits')
  BY <1>1, <1>2, <1>7, <1>9 DEF SectionPaid
<1> QED
  BY <1>2, <1>10, PaidSound

(* A commit that is refused brings nothing.                                *)
LEMMA FailureSound ==
    ASSUME Ready, NEW c \in commits, ApplyCommitFailure(c)
    PROVE  Sound
<1> DEFINE i == c.seat
           t == [state EXCEPT !.seat[i].pending = NoCommit]
           v == [t EXCEPT !.seat[i].folded = TRUE]
           s == IF state.phase = "PostingBlinds" THEN BlindAnswered(v) ELSE t
           tasks == commits \ {c}
<1>1. /\ i \in Seats /\ RoundActive(state)
      /\ WayOf(commits) = OnWay(c) + WayOf(tasks) /\ WayOf(tasks) \in Nat
  BY LandsFacts
<1>2. Publish(s) /\ c.pc = "refused" /\ commits' = tasks /\ UNCHANGED <<bank, minted>>
  BY DEF ApplyCommitFailure
<1>3. /\ t \in SharedState /\ SameTurn(state, t)
      /\ t.seat[i].pending = NoCommit /\ Unanswered(state.seat[i], t.seat[i])
      /\ \A j \in Seats \ {i} : t.seat[j] = state.seat[j]
  BY <1>1, ReadyFacts, PendingCleared
<1> HIDE DEF t, i, tasks
<1>4. /\ v \in SharedState /\ SameTurn(t, v)
      /\ v.seat[i].pending = t.seat[i].pending /\ Unanswered(t.seat[i], v.seat[i])
      /\ \A j \in Seats \ {i} : v.seat[j] = t.seat[j]
  BY <1>1, <1>3, SeatFolded
<1> HIDE DEF v
<1>5. WayOf(tasks) = WayOf(commits)
  BY <1>1, <1>2 DEF OnWay
<1>6. SameStakes(state, t) /\ t.phase = state.phase /\ t.due = <<>>
  BY <1>3, ReadyFacts DEF SameStakes, Unanswered, SameTurn
<1>7. SameStakes(state, v) /\ v.phase = state.phase /\ v.due = <<>>
  BY <1>3, <1>4, ReadyFacts DEF SameStakes, Unanswered, SameTurn
<1>8. SectionPaid(s, tasks)
  <2>1. CASE state.phase # "PostingBlinds"
    BY <1>3, <1>5, <1>6, <2>1, SamePaid
  <2>2. CASE state.phase = "PostingBlinds"
    <3>1. s = BlindAnswered(v) /\ v.phase = "PostingBlinds"
      BY <1>7, <2>2
    <3> HIDE DEF s
    <3>2. s \in SharedState /\ \A j \in Seats : s.seat[j] = v.seat[j]
      BY <1>4, <3>1, BlindAnsweredSeats
    <3>3. Staked(v) /\ Committed(v) = Committed(state)
      BY <1>7, ReadyFacts, StakesStay
    <3>4. Staked(s) /\ PotKept(s, Pot(Committed(v)))
      BY <1>4, <1>7, <3>1, <3>2, <3>3, BlindAnsweredPot DEF Staked
    <3> QED
      BY <1>1, <1>5, <3>2, <3>3, <3>4, KeptPaid
  <2> QED
    BY <2>1, <2>2
<1> HIDE DEF s
<1>9. SectionPaid(s, commits')
  BY <1>2, <1>8
<1> QED
  BY <1>2, <1>9, PaidSound

LEMMA AnswerSound ==
    ASSUME Ready, NEW c \in commits,
           ApplyCommitSuccess(c) \/ ApplyCommitFailure(c) \/ CommitTooLate(c)
    PROVE  Sound
<1>1. ~CommitTooLate(c)
  BY LandsFacts DEF CommitTooLate
<1> QED
  BY <1>1, SuccessSound, FailureSound

(* The accounts.                                                           *)
LEMMA Deducted ==
    ASSUME NEW b \in [Users -> Nat], NEW u \in Users, NEW n \in Nat, NEW d, d = Deduct(b, u, n)
    PROVE  BankOf(d) = BankOf(b) - n
<1>1. d[u] = b[u] - n /\ \A x \in Users \ {u} : d[x] = b[x]
  BY DEF Deduct
<1>2. b[u] \in Nat /\ b[u] - n \in Int
  OBVIOUS
<1>3. BankOf(d) = BankOf(b) - b[u] + (b[u] - n)
  BY <1>1, <1>2, BankOfChanged
<1>4. BankOf(b) \in Nat
  BY BankOfType
<1> QED
  BY <1>2, <1>3, <1>4

LEMMA Added ==
    ASSUME NEW b \in [Users -> Nat], NEW u \in Users, NEW n \in Nat, NEW d, d = AddBonus(b, u, n)
    PROVE  BankOf(d) = BankOf(b) + n
<1>1. d[u] = b[u] + n /\ \A x \in Users \ {u} : d[x] = b[x]
  BY DEF AddBonus
<1>2. b[u] \in Nat /\ b[u] + n \in Int
  OBVIOUS
<1>3. BankOf(d) = BankOf(b) - b[u] + (b[u] + n)
  BY <1>1, <1>2, BankOfChanged
<1>4. BankOf(b) \in Nat
  BY BankOfType
<1> QED
  BY <1>2, <1>3, <1>4

LEMMA AnsweredWay ==
    ASSUME Ready, NEW c \in commits, c.pc = "debiting", NEW pc \in {"taken", "refused"},
           Answered(c, pc)
    PROVE  WayOf(commits') = WayOf(commits) + IF pc = "taken" THEN c.amount ELSE 0
<1> DEFINE d == [c EXCEPT !.pc = pc]
           others == commits \ {c}
<1>1. c \in CommitType /\ \A x \in commits : x.id = c.id => x = c
  BY ReadyFacts
<1>2. d \in CommitType /\ d.id = c.id /\ d.pc = pc /\ d.amount = c.amount
  BY <1>1 DEF CommitType
<1>3. commits' = others \cup {d}
  BY DEF Answered
<1>4. WayOf(commits) = OnWay(c) + WayOf(others) /\ WayOf(others) \in Nat /\ WayFinite(others)
      /\ c.amount \in Nat
  BY LandsFacts
<1> HIDE DEF d
<1>5. d \notin others
  BY <1>1, <1>2
<1> HIDE DEF others
<1>6. WayOf(others \cup {d}) = OnWay(d) + WayOf(others)
  BY <1>2, <1>4, <1>5, WayAdded
<1>7. OnWay(c) = 0 /\ OnWay(d) = IF pc = "taken" THEN c.amount ELSE 0
  BY <1>2 DEF OnWay
<1> QED
  BY <1>3, <1>4, <1>6, <1>7

LEMMA DebitSound ==
    ASSUME Ready, NEW c \in commits, DebitBet(c)
    PROVE  Sound
<1> DEFINE n == c.amount
<1>1. n \in Nat /\ c.user \in Users /\ bank \in [Users -> Nat] /\ minted \in Int
  BY ReadyFacts DEF CommitType
<1>2. c.pc = "debiting" /\ UNCHANGED <<state, settling>>
  BY DEF DebitBet
<1>3. WayOf(commits) \in Nat /\ BankOf(bank) \in Nat /\ PlayOf(state) \in Nat
      /\ OwedBy(settling) \in Nat
  BY ReadyFacts DEF Priced
<1>4. \/ /\ Answered(c, "taken") /\ bank' = Deduct(bank, c.user, n) /\ minted' = minted
      \/ Answered(c, "refused") /\ bank' = bank /\ minted' = minted
      \/ /\ Answered(c, "refused") /\ bank' = Deduct(bank, c.user, n)
         /\ minted' = minted - n
  BY DEF DebitBet
<1> HIDE DEF n
<1>5. Answered(c, "taken") => WayOf(commits') = WayOf(commits) + n
  BY <1>2, AnsweredWay DEF n
<1>6. Answered(c, "refused") => WayOf(commits') = WayOf(commits)
  <2>1. Answered(c, "refused") => WayOf(commits') = WayOf(commits) + 0
    BY <1>2, AnsweredWay
  <2> QED
    BY <1>3, <2>1
<1>7. bank' = Deduct(bank, c.user, n) => BankOf(bank') = BankOf(bank) - n
  BY <1>1, Deducted
<1>8. PlayOf(state') = PlayOf(state) /\ OwedBy(settling') = OwedBy(settling)
      /\ Staked(state') /\ (RoundActive(state) => RoundActive(state'))
  BY <1>2, ReadyFacts
<1>9. BankOf(bank') + WayOf(commits') + PlayOf(state') + OwedBy(settling') - minted'
      = BankOf(bank) + WayOf(commits) + PlayOf(state) + OwedBy(settling) - minted
  <2>1. CASE /\ Answered(c, "taken") /\ bank' = Deduct(bank, c.user, n) /\ minted' = minted
    <3>1. WayOf(commits') = WayOf(commits) + n /\ BankOf(bank') = BankOf(bank) - n
      BY <1>5, <1>7, <2>1
    <3> QED
      BY <1>1, <1>3, <1>8, <2>1, <3>1
  <2>2. CASE Answered(c, "refused") /\ bank' = bank /\ minted' = minted
    <3>1. WayOf(commits') = WayOf(commits) /\ BankOf(bank') = BankOf(bank)
      BY <1>6, <2>2
    <3> QED
      BY <1>1, <1>3, <1>8, <2>2, <3>1
  <2>3. CASE /\ Answered(c, "refused") /\ bank' = Deduct(bank, c.user, n)
             /\ minted' = minted - n
    <3>1. WayOf(commits') = WayOf(commits) /\ BankOf(bank') = BankOf(bank) - n
      BY <1>6, <1>7, <2>3
    <3> QED
      BY <1>1, <1>3, <1>8, <2>3, <3>1
  <2> QED
    BY <1>4, <2>1, <2>2, <2>3
<1>10. Accounted
  BY <1>8, <1>9, ReadyFacts, KeepsAccounts
<1> QED
  BY <1>8, <1>10 DEF Sound

(* A settlement is written: what is owed to one is in his account.         *)
LEMMA OnlyTask ==
    ASSUME Ready, NEW task \in settling
    PROVE  /\ settling = {task} /\ task \in TaskType /\ task.todo \in Seq(Settlement)
           /\ OwedBy(settling) = Credits(task.todo) /\ ~RoundActive(state)
<1>1. settling = {task} /\ task \in TaskType /\ ~RoundActive(state)
  BY ReadyFacts
<1>2. task.todo \in Seq(Settlement)
  BY <1>1 DEF TaskType
<1> QED
  BY <1>1, <1>2, OwedOne

LEMMA PersistSound ==
    ASSUME Ready, NEW task \in settling, PersistSettlement(task)
    PROVE  Sound
<1> DEFINE x == Head(task.todo)
           rest == [task EXCEPT !.todo = Tail(@)]
           grant == IF x.credit = 0 THEN FloorGrant(bank, x.user) ELSE 0
           paid == IF x.credit = 0 THEN RestoreFloor(bank, x.user)
                   ELSE AddBonus(bank, x.user, x.credit)
           done == [rest EXCEPT !.done = @ \cup {x}]
           failed == [rest EXCEPT !.failed = TRUE]
<1>1. /\ settling = {task} /\ task \in TaskType /\ task.todo \in Seq(Settlement)
      /\ OwedBy(settling) = Credits(task.todo) /\ ~RoundActive(state)
  BY OnlyTask
<1>2. /\ task.todo # <<>> /\ UNCHANGED <<state, commits>>
      /\ \/ bank' = paid /\ minted' = minted + grant /\ Becomes(task, done)
         \/ bank' = bank /\ minted' = minted - x.credit /\ Becomes(task, failed)
  BY DEF PersistSettlement
<1>3. x \in Settlement /\ x.user \in Users /\ x.credit \in Nat /\ Tail(task.todo) \in Seq(Settlement)
  <2>1. x \in Settlement /\ Tail(task.todo) \in Seq(Settlement)
    BY <1>1, <1>2
  <2> QED
    BY <2>1 DEF Settlement
<1>4. done.todo = Tail(task.todo) /\ failed.todo = Tail(task.todo)
  BY <1>1 DEF TaskType
<1>5. Credits(task.todo) = x.credit + Credits(Tail(task.todo)) /\ Credits(Tail(task.todo)) \in Nat
  BY <1>1, <1>2, <1>3, CreditsNext, CreditsNat
<1> HIDE DEF done, failed
<1>6. OwedBy(settling') = Credits(Tail(task.todo))
  <2>1. ASSUME NEW new, Becomes(task, new), new.todo = Tail(task.todo)
        PROVE  OwedBy(settling') = Credits(Tail(task.todo))
    <3>1. settling' = {new}
      BY <1>1, <2>1 DEF Becomes
    <3>2. OwedBy({new}) = Credits(new.todo)
      BY <1>3, <2>1, OwedOne
    <3> QED
      BY <2>1, <3>1, <3>2
  <2> QED
    BY <1>2, <1>4, <2>1
<1>7. bank \in [Users -> Nat] /\ minted \in Int /\ CHIP_FLOOR \in Nat
  BY ReadyFacts, ChipsAssumption
<1>8. BankOf(paid) = BankOf(bank) + x.credit + grant /\ grant \in Nat
  <2>1. CASE x.credit = 0
    <3>1. grant \in Nat /\ paid = AddBonus(bank, x.user, grant)
      BY <1>3, <1>7, <2>1 DEF FloorGrant, RestoreFloor
    <3> HIDE DEF grant, paid, x
    <3>2. BankOf(paid) = BankOf(bank) + grant
      BY <1>3, <1>7, <3>1, Added
    <3>3. BankOf(bank) \in Nat
      BY <1>7, BankOfType
    <3> QED
      BY <2>1, <3>1, <3>2, <3>3
  <2>2. CASE x.credit # 0
    <3>1. grant = 0 /\ paid = AddBonus(bank, x.user, x.credit)
      BY <2>2
    <3> HIDE DEF grant, paid, x
    <3>2. BankOf(paid) = BankOf(bank) + x.credit
      BY <1>3, <1>7, <3>1, Added
    <3>3. BankOf(bank) \in Nat
      BY <1>7, BankOfType
    <3> QED
      BY <1>3, <3>1, <3>2, <3>3
  <2> QED
    BY <2>1, <2>2
<1>9. WayOf(commits) \in Nat /\ BankOf(bank) \in Nat /\ PlayOf(state) \in Nat
      /\ OwedBy(settling) \in Nat
  BY ReadyFacts DEF Priced
<1> HIDE DEF paid, grant, x
<1>10. PlayOf(state') = PlayOf(state) /\ WayOf(commits') = WayOf(commits) /\ Staked(state')
  BY <1>2, ReadyFacts
<1>11. BankOf(bank') + WayOf(commits') + PlayOf(state') + OwedBy(settling') - minted'
       = BankOf(bank) + WayOf(commits) + PlayOf(state) + OwedBy(settling) - minted
  <2>1. CASE bank' = paid /\ minted' = minted + grant
    <3>1. BankOf(bank') = BankOf(bank) + x.credit + grant /\ minted' = minted + grant
      BY <1>8, <2>1
    <3>2. OwedBy(settling) = x.credit + OwedBy(settling')
      BY <1>1, <1>5, <1>6
    <3>3. OwedBy(settling') \in Nat /\ x.credit \in Nat /\ grant \in Nat /\ minted \in Int
      BY <1>3, <1>5, <1>6, <1>7, <1>8
    <3> QED
      BY <1>9, <1>10, <3>1, <3>2, <3>3
  <2>2. CASE bank' = bank /\ minted' = minted - x.credit
    <3>1. BankOf(bank') = BankOf(bank)
      BY <2>2
    <3>2. OwedBy(settling) = x.credit + OwedBy(settling')
      BY <1>1, <1>5, <1>6
    <3>3. OwedBy(settling') \in Nat /\ x.credit \in Nat /\ minted \in Int
      BY <1>3, <1>5, <1>6, <1>7
    <3> QED
      BY <1>9, <1>10, <2>2, <3>1, <3>2, <3>3
  <2> QED
    BY <1>2, <2>1, <2>2
<1>12. Accounted
  BY <1>1, <1>11, ReadyFacts, KeepsAccounts
<1> QED
  BY <1>10, <1>12 DEF Sound

(* Steps that move no chips.                                               *)
LEMMA StillSound ==
    ASSUME Ready, Staked(state'), PlayOf(state') = PlayOf(state),
           RoundActive(state) => RoundActive(state'), WayOf(commits') = WayOf(commits),
           OwedBy(settling') = OwedBy(settling), UNCHANGED <<bank, minted>>
    PROVE  Sound
<1>1. BankOf(bank') = BankOf(bank) /\ minted' = minted
  OBVIOUS
<1>2. Accounted
  BY <1>1, ReadyFacts, KeepsAccounts
<1> QED
  BY <1>2 DEF Sound

LEMMA TableSound ==
    ASSUME Ready, SameStakes(state, state'), state'.phase = state.phase,
           UNCHANGED <<commits, settling, bank, minted>>
    PROVE  Sound
<1>1. Staked(state') /\ Committed(state') = Committed(state)
  BY ReadyFacts, StakesStay
<1>2. PlayOf(state') = PlayOf(state) /\ (RoundActive(state) => RoundActive(state'))
  BY <1>1 DEF PlayOf, RoundActive, HandRuns
<1> QED
  BY <1>1, <1>2, StillSound

LEMMA QuietTableSound ==
    ASSUME Ready, Quiet(state, state'), UNCHANGED <<commits, settling, bank, minted>>
    PROVE  Sound
<1>1. SameStakes(state, state') /\ state'.phase = state.phase
  BY DEF Quiet, SameTurn, SameHand, SameStakes
<1> QED
  BY <1>1, TableSound

(* A settlement is reported once all of it is written.                     *)
LEMMA ClearedStaked ==
    ASSUME NEW s, NEW t, NEW gone, Staked(s), Cleared(s, t, gone)
    PROVE  Staked(t)
BY DEF Cleared, Staked, StakedSeat, EmptySeat

LEMMA ReportSound ==
    ASSUME Ready, NEW task \in settling, CompleteSettlements(task) \/ SettlementFailed(task)
    PROVE  Sound
<1>1. /\ task.todo = <<>> /\ settling' = settling \ {task}
      /\ UNCHANGED <<commits, bank, minted>>
  BY DEF CompleteSettlements, SettlementFailed
<1>2. settling = {task} /\ OwedBy(settling) = Credits(task.todo) /\ ~RoundActive(state)
  BY OnlyTask
<1>3. settling' = {} /\ OwedBy(settling) = 0
  BY <1>1, <1>2, CreditsNone
<1>4. OwedBy(settling') = OwedBy(settling)
  BY <1>3, OwedNone
<1>5. Staked(state') /\ state'.phase = state.phase
  <2>1. CASE CompleteSettlements(task)
    <3>1. PICK t, gone, v : /\ Quiet(state, t) /\ Cleared(t, v, gone)
                            /\ SettledFields(v, state')
      BY <2>1, ReadyFacts, CompleteFacts
    <3>2. SameStakes(state, t) /\ t.phase = state.phase
      BY <3>1 DEF Quiet, SameTurn, SameHand, SameStakes
    <3>3. Staked(v) /\ v.phase = state.phase
      BY <3>1, <3>2, ReadyFacts, StakesStay, ClearedStaked DEF Cleared, SameTurn
    <3> QED
      BY <3>1, <3>3 DEF SettledFields, Staked
  <2>2. CASE SettlementFailed(task)
    <3>1. SettledFields(state, state')
      BY <2>2, ReadyFacts, SettledTableFields DEF SettlementFailed, SettledTable
    <3> QED
      BY <3>1, ReadyFacts DEF SettledFields, Staked
  <2> QED
    BY <2>1, <2>2
<1>6. ~RoundActive(state')
  BY <1>2, <1>5 DEF RoundActive, HandRuns
<1>7. PlayOf(state') = PlayOf(state) /\ WayOf(commits') = WayOf(commits)
  BY <1>1, <1>2, <1>6 DEF PlayOf
<1> QED
  BY <1>1, <1>2, <1>4, <1>5, <1>7, StillSound

(* Chips that are spent elsewhere leave the account, and nothing else.     *)
LEMMA BalanceSound ==
    ASSUME Ready, BalanceStep
    PROVE  Sound
<1>1. ASSUME NEW u \in Users, SpendElsewhere(u) PROVE Sound
  <2>1. /\ bank' = Deduct(bank, u, 1) /\ minted' = minted - 1
        /\ UNCHANGED <<state, commits, settling>>
    BY <1>1 DEF SpendElsewhere
  <2>2. bank \in [Users -> Nat] /\ minted \in Int
    BY ReadyFacts
  <2>3. BankOf(bank') = BankOf(bank) - 1
    BY <2>1, <2>2, Deducted
  <2>4. PlayOf(state') = PlayOf(state) /\ WayOf(commits') = WayOf(commits)
        /\ OwedBy(settling') = OwedBy(settling) /\ Staked(state')
        /\ (RoundActive(state) => RoundActive(state'))
    BY <2>1, ReadyFacts
  <2>5. WayOf(commits) \in Nat /\ BankOf(bank) \in Nat /\ PlayOf(state) \in Nat
        /\ OwedBy(settling) \in Nat
    BY ReadyFacts DEF Priced
  <2>6. BankOf(bank') + WayOf(commits') + PlayOf(state') + OwedBy(settling') - minted'
        = BankOf(bank) + WayOf(commits) + PlayOf(state) + OwedBy(settling) - minted
    BY <2>1, <2>2, <2>3, <2>4, <2>5
  <2>7. Accounted
    BY <2>4, <2>6, ReadyFacts, KeepsAccounts
  <2> QED
    BY <2>4, <2>7 DEF Sound
<1>2. ASSUME NEW u \in Users, SyncExternalChipBalance(u) PROVE Sound
  <2>1. UNCHANGED <<state, commits, settling, bank, minted>>
    BY <1>2 DEF SyncExternalChipBalance
  <2>2. Quiet(state, state')
    BY <2>1, ReadyFacts DEF Quiet, SameTurn, SameHand
  <2> QED
    BY <2>1, <2>2, QuietTableSound
<1>3. ASSUME NEW x \in syncs, SyncBalance(x) PROVE Sound
  <2>1. x.balance \in Nat
    BY ReadyFacts, InvTypes
  <2>2. Quiet(state, state')
    BY <1>3, <2>1, ReadyFacts, SyncQuiet
  <2>3. UNCHANGED <<commits, settling, bank, minted>>
    BY <1>3 DEF SyncBalance
  <2> QED
    BY <2>2, <2>3, QuietTableSound
<1> QED
  BY <1>1, <1>2, <1>3 DEF BalanceStep

LEMMA DeadlineSound ==
    ASSUME Ready, DeadlinePasses
    PROVE  Sound
<1>1. state' = [state EXCEPT !.deadline = "due"]
      /\ UNCHANGED <<commits, settling, bank, minted>>
  BY DEF DeadlinePasses, OnlyState
<1>2. state'.phase = state.phase /\ state'.seat = state.seat
  BY <1>1, ReadyFacts DEF SharedState
<1>3. SameStakes(state, state')
  BY <1>2 DEF SameStakes
<1> QED
  BY <1>1, <1>2, <1>3, TableSound

(* A free seat has no chips in the pot.                                    *)
LEMMA SitSound ==
    ASSUME Ready, NEW u \in Users, Sit(u)
    PROVE  Sound
<1>1. PICK i \in Seats : state.seat[i].user = NoUser
                         /\ SeatChanged(state, state', i, Seated(u))
  BY ReadyFacts, SitFacts
<1>2. UNCHANGED <<commits, settling, bank, minted>>
  BY ReadyFacts, SitFacts DEF OnlyState
<1>3. /\ state'.phase = state.phase /\ state'.seat[i] = Seated(u)
      /\ \A j \in Seats \ {i} : state'.seat[j] = state.seat[j]
  BY <1>1 DEF SeatChanged, SameTurn
<1>4. Seated(u).committed = 0 /\ Seated(u).pending = NoCommit
  BY DEF Seated, EmptySeat
<1>5. state.seat[i].committed = 0
  BY <1>1, ReadyFacts, BetTypes DEF Staked, StakedSeat
<1>6. Staked(state') /\ SameCommitted(state, state')
  BY <1>3, <1>4, <1>5, ReadyFacts DEF Staked, StakedSeat, SameCommitted
<1>7. PlayOf(state') = PlayOf(state) /\ (RoundActive(state) => RoundActive(state'))
  <2>1. Committed(state') = Committed(state)
    BY <1>6, CommittedSame
  <2> QED
    BY <1>3, <2>1 DEF PlayOf, RoundActive, HandRuns
<1> QED
  BY <1>2, <1>6, <1>7, StillSound

(* A hand is dealt on an empty pot.                                        *)
LEMMA StartSound ==
    ASSUME Ready, NEW u \in Users, StartHand(u)
    PROVE  Sound
<1>1. MayStart(u) /\ UNCHANGED <<settling, bank, minted>>
  BY ReadyFacts, StartHandFacts
<1>2. PICK s : Cleared(state, s, LeavingSeats(state)) /\ Start(s, u)
  BY ReadyFacts, StartHandFacts
<1>3. ~RoundActive(state) /\ commits = {}
  BY <1>1, ReadyFacts, StartReady
<1>4. s \in SharedState /\ s.phase = state.phase /\ Staked(s)
  BY <1>2, ReadyFacts, ClearedStaked DEF Cleared, SameTurn
<1>5. PlayOf(state) = 0
  BY <1>3 DEF PlayOf
<1>6. CASE /\ Cardinality(Playable(s)) < 2 /\ state' = RecordActivity(s, u)
           /\ UNCHANGED <<commits, bounds>>
  <2>1. Quiet(s, state')
    BY <1>4, <1>6, RecordedQuiet
  <2>2. SameStakes(s, state') /\ state'.phase = state.phase
    BY <1>4, <2>1 DEF Quiet, SameTurn, SameHand, SameStakes
  <2>3. Staked(state')
    BY <1>4, <2>2, StakesStay
  <2>4. PlayOf(state') = 0
    BY <1>3, <2>2 DEF PlayOf, RoundActive, HandRuns
  <2> QED
    BY <1>1, <1>3, <1>5, <1>6, <2>3, <2>4, StillSound
<1>7. CASE /\ Cardinality(Playable(s)) >= 2 /\ bounds.hands > 0 /\ Spend("hands")
           /\ DealHand(s, u)
  <2>1. bounds \in Instance /\ IsFiniteSet(commits)
    BY ReadyFacts, InvTypes
  <2>2. PICK a, b \in Seats, small, big, id1, id2 \in Nat \ {0} :
              /\ a # b /\ id1 # id2 /\ \A c \in commits : c.id # id1 /\ c.id # id2
              /\ s.seat[a].user \in Users /\ s.seat[b].user \in Users
              /\ HandDealt(s, state', a, b, BlindCommit(id1, small), BlindCommit(id2, big))
              /\ commits' = commits \cup {NewTask(id1, s.seat[a].user, a, small),
                                          NewTask(id2, s.seat[b].user, b, big)}
    BY <1>4, <1>7, <2>1, DealHandFacts
  <2> DEFINE x == NewTask(id1, s.seat[a].user, a, small)
             y == NewTask(id2, s.seat[b].user, b, big)
             one == commits \cup {x}
  <2>3. /\ x \in CommitType /\ y \in CommitType
        /\ x.id = id1 /\ y.id = id2 /\ OnWay(x) = 0 /\ OnWay(y) = 0
        /\ commits' = one \cup {y}
    <3>1. x \in CommitType /\ y \in CommitType
      BY <2>2, NewTaskType
    <3>2. x.id = id1 /\ y.id = id2 /\ x.pc = "debiting" /\ y.pc = "debiting"
      BY DEF NewTask
    <3> QED
      BY <2>2, <3>1, <3>2 DEF OnWay
  <2> HIDE DEF x, y
  <2>4. WayOf(one) = OnWay(x) + WayOf(commits) /\ WayFinite(one)
    <3>1. x \notin commits
      BY <1>3
    <3> QED
      BY <2>3, <3>1, ReadyFacts, WayAdded
  <2>5. y \notin one
    BY <1>3, <2>2, <2>3
  <2> HIDE DEF one
  <2>6. WayOf(one \cup {y}) = OnWay(y) + WayOf(one)
    BY <2>3, <2>4, <2>5, WayAdded
  <2>7. WayOf(commits') = WayOf(commits)
    <3>1. WayOf(commits) \in Nat
      BY ReadyFacts DEF Priced
    <3> QED
      BY <2>3, <2>4, <2>6, <3>1
  <2>8. /\ \A i \in Seats : /\ state'.seat[i].committed = 0
                            /\ state'.seat[i].user = s.seat[i].user
        /\ state'.seat[a].cards > 0 /\ state'.seat[b].cards > 0
        /\ \A i \in Seats \ {a, b} : state'.seat[i].pending = NoCommit
    BY <2>2 DEF HandDealt, DealtSeat
  <2>9. Staked(state')
    <3>1. state'.seat[a].user # NoUser /\ state'.seat[b].user # NoUser
      BY <2>2, <2>8, PokerAssumption
    <3> QED
      BY <2>8, <3>1 DEF Staked, StakedSeat
  <2>10. PlayOf(state') = 0
    <3> DEFINE f == Committed(state')
    <3>1. \A i \in Seats : f[i] = 0
      BY <2>8 DEF Committed
    <3> HIDE DEF f
    <3>2. SumFunctionOnSet(f, Seats) = 0
      BY <3>1, SeatsAreFinite, SumZero
    <3> QED
      BY <3>2 DEF f, PlayOf, Pot
  <2> QED
    BY <1>1, <1>3, <1>5, <2>7, <2>9, <2>10, StillSound
<1> QED
  BY <1>2, <1>6, <1>7 DEF Start

LEMMA StepSound ==
    ASSUME Ready, [Next]_vars
    PROVE  Sound
<1>1. ASSUME NEW u \in Users, NEW i \in Seats
      PROVE  ~LeaveDuringHand(u, i) /\ ~KickFolds(u, i) /\ ~KickRemoves(u, i) /\ ~KickSkipped(u, i)
  <2>1. u \notin bounds.leavers
    BY ReadyFacts
  <2> QED
    BY <2>1 DEF LeaveDuringHand, KickFolds, KickRemoves, KickSkipped, Idle
<1>2. CASE UNCHANGED vars
  <2>1. Quiet(state, state')
    BY <1>2, ReadyFacts DEF vars, Quiet, SameTurn, SameHand
  <2>2. UNCHANGED <<commits, settling, bank, minted>>
    BY <1>2 DEF vars
  <2> QED
    BY <2>1, <2>2, QuietTableSound
<1>3. CASE SeatStep
  <2>1. PICK u \in Users :
            \/ Sit(u) \/ StartHand(u) \/ TouchActivity(u)
            \/ \E i \in Seats :
                  LeaveDuringHand(u, i) \/ LeaveTable(u, i) \/ ToggleAutoCheckFold(u, i)
    BY <1>3 DEF SeatStep
  <2>2. CASE Sit(u)
    BY <2>2, SitSound
  <2>3. CASE StartHand(u)
    BY <2>3, StartSound
  <2>4. CASE TouchActivity(u)
    <3>1. /\ Publish(RecordActivity(state, u)) /\ UNCHANGED <<commits, bank, minted>>
      BY <2>4 DEF TouchActivity
    <3>2. Quiet(state, RecordActivity(state, u))
      BY ReadyFacts, RecordedQuiet
    <3> QED
      BY <3>1, <3>2, QuietSound
  <2>5. ASSUME NEW i \in Seats, ToggleAutoCheckFold(u, i) PROVE Sound
    <3>1. /\ Publish(ToggledTable(u, i)) /\ UNCHANGED <<commits, bank, minted>>
      BY <2>5 DEF ToggleAutoCheckFold, ToggledTable
    <3>2. Quiet(state, ToggledTable(u, i))
      BY ReadyFacts, ToggledTableQuiet
    <3> QED
      BY <3>1, <3>2, QuietSound
  <2>6. CASE \E i \in Seats : LeaveTable(u, i)
    BY <2>6, LeaveTableSound
  <2> QED
    BY <1>1, <2>1, <2>2, <2>3, <2>4, <2>5, <2>6
<1>4. CASE TurnStep
  <2>1. PICK u \in Users, i \in Seats :
            \/ Check(u, i) \/ Fold(u, i)
            \/ Call(u, i) \/ AllIn(u, i) \/ \E size \in RaiseSizes : BetOrRaise(u, i, size)
    BY <1>4 DEF TurnStep
  <2>2. CASE Check(u, i) \/ Fold(u, i)
    BY <2>2, PlayedSound
  <2>3. CASE Call(u, i) \/ AllIn(u, i) \/ \E size \in RaiseSizes : BetOrRaise(u, i, size)
    BY <2>3, AskSound
  <2> QED
    BY <2>1, <2>2, <2>3
<1>5. CASE CommitStep
  BY <1>5, DebitSound, AnswerSound DEF CommitStep
<1>6. CASE TimerStep
  BY <1>6, DeadlineSound, TimeoutSound DEF TimerStep
<1>7. CASE KickStep
  BY <1>1, <1>7 DEF KickStep
<1>8. CASE SettleStep
  BY <1>8, PersistSound, ReportSound DEF SettleStep
<1>9. CASE BalanceStep
  BY <1>9, BalanceSound
<1> QED
  BY <1>2, <1>3, <1>4, <1>5, <1>6, <1>7, <1>8, <1>9 DEF Next

LEMMA InitStaked == Init => Staked(state)
<1> SUFFICES ASSUME Init PROVE Staked(state)
  OBVIOUS
<1>1. \A i \in Seats : state.seat[i].pending = NoCommit
  BY InitFacts
<1>2. PICK f \in [Seats -> Users \cup {NoUser}] :
          state = [phase |-> "Waiting", seat |-> [i \in Seats |-> FirstSeat(f, i)],
                   dealer_button |-> NoSeat, big_blind_seat |-> NoSeat,
                   active_seat |-> NoSeat, current_bet |-> 0, min_raise |-> BIG_BLIND,
                   pending_blinds |-> 0, deadline |-> "none", countdown_seat |-> NoSeat,
                   timer_task |-> FALSE, settlement_pending |-> FALSE, due |-> <<>>]
  BY DEF Init, InitialSeats, FirstSeat
<1>3. ASSUME NEW i \in Seats PROVE FirstSeat(f, i).committed = 0
  BY DEF FirstSeat, EmptySeat
<1>4. \A i \in Seats : state.seat[i].committed = 0
  BY <1>2, <1>3
<1> QED
  BY <1>1, <1>4 DEF Staked, StakedSeat

LEMMA SeatedSteps ==
    /\ StaysSeated /\ Init => TypeInv /\ SeatedInv /\ Staked(state)
    /\ TypeInv /\ SeatedInv /\ [Next]_vars => (TypeInv /\ SeatedInv)'
<1>1. SeatedInv <=> TableInv /\ bounds.leavers = {}
  BY DEF SeatedInv
<1>2. SeatedInv' <=> (TableInv /\ bounds.leavers = {})'
  BY DEF SeatedInv
<1> QED
  BY <1>1, <1>2, SeatedStep, InitStaked

(* No chip of a table whose players stay appears or is lost but what the   *)
(* end of a hand leaves to nobody: the rest of every pot is owed to the    *)
(* winners, and what is owed reaches the accounts, to the chip.            *)
THEOREM ChipsAccountedFor ==
    ASSUME StaysSeated
    PROVE  Spec => ChipsAccounted
<1> USE SeatedSteps
<1>1. Init => TypeInv /\ SeatedInv /\ Staked(state)
  OBVIOUS
<1>2. TypeInv /\ SeatedInv /\ Staked(state) /\ [Next]_vars =>
          (TypeInv /\ SeatedInv)' /\ Sound
  <2> SUFFICES ASSUME TypeInv, SeatedInv, Staked(state), [Next]_vars
               PROVE  (TypeInv /\ SeatedInv)' /\ Sound
    OBVIOUS
  <2>1. (TypeInv /\ SeatedInv)'
    OBVIOUS
  <2>2. Priced /\ Priced'
    BY <2>1, InvPriced, PricedNext
  <2>3. Ready
    BY <2>2 DEF Ready
  <2> QED
    BY <2>1, <2>3, StepSound
<1>3. Sound => Staked(state)' /\ Accounted
  BY DEF Sound, Staked
<1>4. Accounted =>
        [Chips' - minted' =
            Chips - minted
              - IF RoundActive(state) /\ ~RoundActive(state') THEN Forgone(state') ELSE 0]_vars
  BY DEF Accounted
<1> QED
  BY <1>1, <1>2, <1>3, <1>4, PTL DEF Spec, ChipsAccounted
==============================================================================
