-------------------------- MODULE PokerChipsProofs --------------------------
(***************************************************************************)
(* Poker implements ChipTable, whatever its users, strengths, stacks and   *)
(* bounds, as long as nobody leaves a hand.                                *)
(*                                                                         *)
(* PokerProofs counts the chips of the whole table; ChipTable keeps books  *)
(* for every user.  So the lemmas follow the chips of one user through     *)
(* the critical sections, and sums over the users bring the totals of      *)
(* PokerProofs back.  A step of the table has one of four outcomes: no     *)
(* stake moves, or a pot is divided (Shared), or one user's chips are      *)
(* staked, written or lost; each is a step of ChipTable or a stutter.      *)
(*                                                                         *)
(* The invariant adds Seating to that of PokerProofs: nobody sits twice,   *)
(* since the stakes of a user are those of one seat, and no blind that is  *)
(* still to be posted has chips in the pot, since a hand whose blinds are  *)
(* refused ends without dividing it.                                       *)
(***************************************************************************)
EXTENDS PokerChips, PokerProofs

(***************************************************************************)
(* Who has which chips: every stake, and every credit, by its user.        *)
(***************************************************************************)
(* Nobody sits twice, and a blind that is not posted yet puts no chips in the pot. *)
OneSeatEach(s) ==
    \A i, j \in Seats : s.seat[i].user = s.seat[j].user /\ s.seat[i].user # NoUser => i = j
BlindSeat(x) ==
    /\ x.folded => x.committed = 0 /\ x.pending = NoCommit
    /\ x.pending # NoCommit => x.committed = 0
Seating(s) ==
    OneSeatEach(s) /\ (s.phase = "PostingBlinds" => \A i \in Seats : BlindSeat(s.seat[i]))

(* What user u has put into the pot of table s, and what commits have taken. *)
OwingOf(s, u) == {i \in Owing(s) : s.seat[i].user = u}
PlacedBy(s, u) == SumFunctionOnSet(Committed(s), OwingOf(s, u))
TakenBy(tasks, u) == {c \in TakenOf(tasks) : c.user = u}
WayBy(tasks, u) == SumFunctionOnSet([c \in TakenBy(tasks, u) |-> c.amount], TakenBy(tasks, u))
StakeBy(s, tasks, u) == (IF RoundActive(s) THEN PlacedBy(s, u) ELSE 0) + WayBy(tasks, u)

(* A user who sits has put into the pot what lies before the seat.         *)
LEMMA PlacedAt ==
    ASSUME NEW s \in SharedState, OneSeatEach(s), NEW i \in Seats, s.seat[i].user \in Users
    PROVE  /\ SeatsOf(s, s.seat[i].user) = {i}
           /\ OwingOf(s, s.seat[i].user) = IF s.seat[i].committed > 0 THEN {i} ELSE {}
           /\ PlacedBy(s, s.seat[i].user) = s.seat[i].committed
<1> DEFINE u == s.seat[i].user
           c == Committed(s)
<1>1. u # NoUser
  BY PokerAssumption
<1>2. \A j \in Seats : s.seat[j].user = u => j = i
  BY <1>1 DEF OneSeatEach
<1>3. SeatsOf(s, u) = {i}
  BY <1>2 DEF SeatsOf
<1>4. OwingOf(s, u) = IF s.seat[i].committed > 0 THEN {i} ELSE {}
  BY <1>1, <1>2 DEF OwingOf, Owing, Occupied
<1>5. c[i] = s.seat[i].committed /\ c[i] \in Int /\ s.seat[i].committed \in Nat
  BY BetTypes DEF Committed
<1>6. SumFunctionOnSet(c, OwingOf(s, u)) = s.seat[i].committed
  <2> HIDE DEF c, u
  <2> QED
    BY <1>4, <1>5, SumEmpty, SumOfOne
<1> QED
  BY <1>3, <1>4, <1>6 DEF PlacedBy

(* Who does not sit has put nothing into it.                               *)
LEMMA PlacedNowhere ==
    ASSUME NEW s, NEW u, SeatsOf(s, u) = {}
    PROVE  PlacedBy(s, u) = 0
<1>1. OwingOf(s, u) = {}
  BY DEF OwingOf, Owing, Occupied, SeatsOf
<1> QED
  BY <1>1, SumEmpty DEF PlacedBy

(* Stakes are numbers of chips.                                            *)
LEMMA PlacedType ==
    ASSUME NEW s \in SharedState, NEW u
    PROVE  PlacedBy(s, u) \in Nat
<1> DEFINE c == Committed(s)
<1>1. OwingOf(s, u) \subseteq Owing(s) /\ IsFiniteSet(Owing(s)) /\ Owing(s) \subseteq Seats
  BY OwingIsFinite DEF OwingOf
<1>2. IsFiniteSet(OwingOf(s, u)) /\ \A i \in OwingOf(s, u) : c[i] \in Nat
  BY <1>1, FS_Subset, BetTypes DEF Committed
<1>3. SumFunctionOnSet(c, OwingOf(s, u)) \in Nat
  <2> HIDE DEF c
  <2> QED
    BY <1>2, SumNat
<1> QED
  BY <1>3 DEF PlacedBy

LEMMA TakenByType ==
    ASSUME NEW tasks, WayFinite(tasks), NEW u
    PROVE  /\ IsFiniteSet(TakenBy(tasks, u)) /\ \A c \in TakenBy(tasks, u) : c.amount \in Nat
           /\ WayBy(tasks, u) \in Nat
<1> DEFINE T == TakenBy(tasks, u)
           f == [c \in T |-> c.amount]
<1>1. IsFiniteSet(T) /\ \A c \in T : c.amount \in Nat
  BY FS_Subset DEF TakenBy, TakenOf, WayFinite, CommitType
<1>2. SumFunctionOnSet(f, T) \in Nat
  <2>1. \A c \in T : f[c] \in Nat
    BY <1>1
  <2> HIDE DEF T, f
  <2> QED
    BY <1>1, <2>1, SumNat
<1> QED
  BY <1>1, <1>2 DEF WayBy

(* The chips of the pot and of the commits, by their users.                *)
LEMMA PlacedTotal ==
    ASSUME NEW s \in SharedState, Staked(s), NEW g, \A u \in Users : g[u] = PlacedBy(s, u)
    PROVE  SumFunctionOnSet(g, Users) = Pot(Committed(s))
<1> DEFINE c == Committed(s)
           S == Owing(s)
           key == [i \in S |-> s.seat[i].user]
<1>1. S \subseteq Seats /\ IsFiniteSet(S) /\ IsFiniteSet(Users)
  BY OwingIsFinite, PokerAssumption
<1>2. \A i \in Seats : c[i] \in Int /\ (i \notin S => c[i] = 0)
  BY BetTypes DEF Committed, Owing, Occupied, Staked, StakedSeat
<1>3. \A i \in S : key[i] \in Users
  BY <1>1, SeatIsTyped DEF Owing, Occupied, SeatType
<1>4. KeyedSums(g, c, key, S, Users)
  <2>1. ASSUME NEW u \in Users PROVE {i \in S : key[i] = u} = OwingOf(s, u)
    BY DEF OwingOf
  <2> QED
    BY <2>1 DEF PlacedBy, KeyedSums
<1>5. Pot(c) = SumFunctionOnSet(c, Seats)
  BY DEF Pot
<1> HIDE DEF c, S, key
<1>6. SumFunctionOnSet(g, Users) = SumFunctionOnSet(c, S)
  <2>1. \A i \in S : c[i] \in Int
    BY <1>1, <1>2
  <2> QED
    BY <1>1, <1>3, <1>4, <2>1, SumByKey
<1>7. SumFunctionOnSet(c, Seats) = SumFunctionOnSet(c, S)
  <2>1. IsFiniteSet(Seats) /\ S \in SUBSET Seats /\ (\A i \in Seats : c[i] \in Int)
        /\ (\A i \in Seats \ S : c[i] = 0)
    BY <1>1, <1>2, SeatsAreFinite
  <2> QED
    BY <2>1, SumPart
<1> QED
  BY <1>5, <1>6, <1>7 DEF c

LEMMA WayTotal ==
    ASSUME NEW tasks, WayFinite(tasks), NEW g, \A u \in Users : g[u] = WayBy(tasks, u)
    PROVE  SumFunctionOnSet(g, Users) = WayOf(tasks)
<1> DEFINE S == TakenOf(tasks)
           f == [c \in S |-> c.amount]
           key == [c \in S |-> c.user]
<1>1. IsFiniteSet(S) /\ IsFiniteSet(Users)
  BY FS_Subset, PokerAssumption DEF TakenOf, WayFinite
<1>2. \A c \in S : f[c] \in Int /\ key[c] \in Users
  BY DEF TakenOf, WayFinite, CommitType
<1>3. ASSUME NEW u \in Users PROVE g[u] = SumFunctionOnSet(f, {c \in S : key[c] = u})
  <2> DEFINE T == TakenBy(tasks, u)
             h == [c \in T |-> c.amount]
  <2>1. T = {c \in S : key[c] = u}
    BY DEF TakenBy
  <2>2. IsFiniteSet(T) /\ \A c \in T : h[c] \in Int /\ f[c] = h[c]
    BY TakenByType DEF TakenBy
  <2>3. g[u] = SumFunctionOnSet(h, T)
    BY DEF WayBy
  <2> HIDE DEF T, h, f
  <2>4. SumFunctionOnSet(h, T) = SumFunctionOnSet(f, T)
    BY <2>2, SumSame
  <2> QED
    BY <2>1, <2>3, <2>4
<1>4. WayOf(tasks) = SumFunctionOnSet(f, S)
  BY DEF WayOf
<1>5. KeyedSums(g, f, key, S, Users)
  BY <1>3 DEF KeyedSums
<1> HIDE DEF S, f, key
<1>6. (\A c \in S : f[c] \in Int) /\ (\A c \in S : key[c] \in Users)
  BY <1>2
<1> QED
  BY <1>1, <1>4, <1>5, <1>6, SumByKey

(* What settlements owe to one user, and how many they are.                *)
PartOf(q, u) == {k \in DOMAIN q : q[k].user = u}
CreditTo(q, u) == SumFunctionOnSet([k \in PartOf(q, u) |-> q[k].credit], PartOf(q, u))
OwedSum(tasks, u) == SumFunctionOnSet([task \in tasks |-> OwedTo(u, task)], tasks)
CountSum(tasks, u) ==
    SumFunctionOnSet([task \in tasks |-> Cardinality(ToWrite(u, task))], tasks)

(* The part of one user in a list of settlements.                          *)
LEMMA PartFacts ==
    ASSUME NEW q \in Seq(Settlement), NEW u
    PROVE  /\ IsFiniteSet(PartOf(q, u)) /\ Cardinality(PartOf(q, u)) \in Nat
           /\ IsFiniteSet(DOMAIN q) /\ PartOf(q, u) \subseteq DOMAIN q
           /\ \A k \in DOMAIN q : q[k].credit \in Nat /\ q[k].user \in Users
           /\ CreditTo(q, u) \in Nat
<1> DEFINE T == PartOf(q, u)
           f == [k \in T |-> q[k].credit]
<1>1. DOMAIN q = 1 .. Len(q) /\ Len(q) \in Nat
  OBVIOUS
<1>2. IsFiniteSet(DOMAIN q) /\ T \subseteq DOMAIN q
  BY <1>1, FS_Interval DEF PartOf
<1>3. IsFiniteSet(T) /\ Cardinality(T) \in Nat
  <2> HIDE DEF T
  <2> QED
    BY <1>2, FS_Subset, FS_CardinalityType
<1>4. ASSUME NEW k \in DOMAIN q PROVE q[k].credit \in Nat /\ q[k].user \in Users
  <2>1. q[k] \in Settlement
    BY <1>1
  <2> QED
    BY <2>1 DEF Settlement
<1>5. \A k \in T : f[k] \in Nat
  BY <1>2, <1>4
<1>6. SumFunctionOnSet(f, T) \in Nat
  <2> HIDE DEF T, f
  <2> QED
    BY <1>3, <1>5, SumNat
<1> QED
  BY <1>2, <1>3, <1>4, <1>6 DEF CreditTo

LEMMA OwedToIs ==
    ASSUME NEW u, NEW task
    PROVE  OwedTo(u, task) = CreditTo(task.todo, u) /\ ToWrite(u, task) = PartOf(task.todo, u)
BY DEF OwedTo, CreditTo, ToWrite, PartOf

(* The first settlement is one, and the others are as they were.           *)
LEMMA PartNext ==
    ASSUME NEW q \in Seq(Settlement), q # <<>>, NEW u
    PROVE  /\ CreditTo(q, u) = (IF Head(q).user = u THEN Head(q).credit ELSE 0)
                                 + CreditTo(Tail(q), u)
           /\ Cardinality(PartOf(q, u)) = (IF Head(q).user = u THEN 1 ELSE 0)
                                            + Cardinality(PartOf(Tail(q), u))
<1> DEFINE n == Len(q)
           r == Tail(q)
           Q == PartOf(q, u)
           R == PartOf(r, u)
           f == [k \in Q |-> q[k].credit]
           g == [k \in R |-> r[k].credit]
           b == [k \in R |-> k + 1]
<1>1. /\ n \in Nat \ {0} /\ DOMAIN q = 1 .. n /\ DOMAIN r = 1 .. n - 1
      /\ \A k \in 1 .. n - 1 : r[k] = q[k + 1]
      /\ Head(q) = q[1] /\ r \in Seq(Settlement)
  OBVIOUS
<1>2. Q \subseteq 1 .. n /\ R \subseteq 1 .. n - 1
  BY <1>1 DEF PartOf
<1>3. \A k \in R : b[k] = k + 1 /\ k + 1 \in Q /\ k + 1 # 1 /\ q[k + 1] = r[k]
  BY <1>1 DEF PartOf
<1>4. \A m \in Q \ {1} : m - 1 \in R /\ m = (m - 1) + 1
  BY <1>1 DEF PartOf
<1>5. 1 \in Q <=> Head(q).user = u
  BY <1>1 DEF PartOf
<1>6. {b[k] : k \in R} = Q \ {1}
  BY <1>3, <1>4
<1>7. \A j, k \in R : b[j] = b[k] => j = k
  BY <1>2, <1>3
<1>8. /\ IsFiniteSet(Q) /\ IsFiniteSet(R) /\ Cardinality(Q) \in Nat /\ Cardinality(R) \in Nat
      /\ \A k \in DOMAIN q : q[k].credit \in Nat
  BY <1>1, PartFacts
<1>9. \A k \in Q : f[k] = q[k].credit /\ f[k] \in Int
  BY <1>1, <1>2, <1>8
<1>10. \A k \in R : f[b[k]] \in Int /\ g[k] = f[b[k]]
  BY <1>3, <1>9
<1>11. IsFiniteSet(Q \ {1}) /\ Cardinality(Q \ {1}) = Cardinality(R)
  <2>1. /\ b \in [R -> Q \ {1}]
        /\ \A j, k \in R : b[j] = b[k] => j = k
        /\ \A m \in Q \ {1} : m - 1 \in R /\ b[m - 1] = m
    BY <1>3, <1>4, <1>7
  <2> HIDE DEF Q, R, b
  <2>2. b \in Bijection(R, Q \ {1})
    BY <2>1 DEF Bijection, Injection, IsInjective, Surjection
  <2>3. ExistsBijection(R, Q \ {1})
    BY <2>2 DEF ExistsBijection
  <2> QED
    BY <1>8, <2>3, FS_Bijection
<1>12. SumFunctionOnSet(g, R) = SumFunctionOnSet(f, Q \ {1})
  <2>1. SumFunctionOnSet(g, R) = SumFunctionOnSet(f, {b[k] : k \in R})
    <3>1. /\ IsFiniteSet(R)
          /\ \A k \in R : f[b[k]] \in Int /\ g[k] = f[b[k]]
          /\ \A j, k \in R : b[j] = b[k] => j = k
      BY <1>7, <1>8, <1>10
    <3> HIDE DEF R, f, g, b
    <3> QED
      BY <3>1, SumRenamed
  <2> QED
    BY <1>6, <2>1
<1>13. CreditTo(q, u) = SumFunctionOnSet(f, Q) /\ CreditTo(r, u) = SumFunctionOnSet(g, R)
  BY DEF CreditTo
<1>14. CreditTo(r, u) \in Nat
  BY <1>1, PartFacts
<1>15. CASE 1 \in Q
  <2>1. f[1] = Head(q).credit /\ f[1] \in Int
    BY <1>1, <1>9, <1>15
  <2>2. Head(q).user = u
    BY <1>5, <1>15
  <2> HIDE DEF Q, R, f, g, r
  <2>3. SumFunctionOnSet(f, Q) = f[1] + SumFunctionOnSet(f, Q \ {1})
    <3>1. \A k \in Q : f[k] \in Int
      BY <1>9
    <3> QED
      BY <1>8, <1>15, <3>1, SumRemove
  <2>4. Cardinality(Q \ {1}) = Cardinality(Q) - 1
    BY <1>8, <1>15, FS_RemoveElement
  <2>5. CreditTo(q, u) = Head(q).credit + CreditTo(r, u)
    BY <1>12, <1>13, <2>1, <2>3
  <2>6. Cardinality(Q) = 1 + Cardinality(R)
    BY <1>8, <1>11, <2>4
  <2> QED
    BY <2>2, <2>5, <2>6 DEF Q, R, r
<1>16. CASE 1 \notin Q
  <2>1. Head(q).user # u /\ Q \ {1} = Q
    BY <1>5, <1>16
  <2>2. CreditTo(q, u) = CreditTo(r, u)
    BY <1>12, <1>13, <2>1
  <2>3. Cardinality(Q) = Cardinality(R)
    BY <1>11, <2>1
  <2> HIDE DEF Q, R, f, g, r
  <2>4. CreditTo(q, u) = 0 + CreditTo(r, u) /\ Cardinality(Q) = 0 + Cardinality(R)
    BY <1>8, <1>14, <2>2, <2>3
  <2> QED
    BY <2>1, <2>4 DEF Q, R, r
<1> QED
  BY <1>15, <1>16

(* One settlement task runs at a time, or none: what is owed is what that  *)
(* task is still to write.                                                 *)
LEMMA OwedSumNone ==
    ASSUME NEW u
    PROVE  OwedSum({}, u) = 0 /\ CountSum({}, u) = 0
BY SumEmpty DEF OwedSum, CountSum

LEMMA OwedSumOne ==
    ASSUME NEW task, task.todo \in Seq(Settlement), NEW u
    PROVE  /\ OwedSum({task}, u) = CreditTo(task.todo, u)
           /\ CountSum({task}, u) = Cardinality(PartOf(task.todo, u))
<1> DEFINE f == [x \in {task} |-> OwedTo(u, x)]
           g == [x \in {task} |-> Cardinality(ToWrite(u, x))]
<1>1. f[task] = CreditTo(task.todo, u) /\ g[task] = Cardinality(PartOf(task.todo, u))
  BY OwedToIs
<1>2. f[task] \in Int /\ g[task] \in Int
  BY <1>1, PartFacts
<1>3. OwedSum({task}, u) = SumFunctionOnSet(f, {task})
      /\ CountSum({task}, u) = SumFunctionOnSet(g, {task})
  BY DEF OwedSum, CountSum
<1> HIDE DEF f, g
<1> QED
  BY <1>1, <1>2, <1>3, SumOfOne

(* What a list of settlements credits is the sum of what its users get.    *)
LEMMA CreditTotal ==
    ASSUME NEW q \in Seq(Settlement), NEW g, \A u \in Users : g[u] = CreditTo(q, u)
    PROVE  SumFunctionOnSet(g, Users) = Credits(q)
<1> DEFINE S == DOMAIN q
           f == [k \in S |-> q[k].credit]
           key == [k \in S |-> q[k].user]
<1>1. IsFiniteSet(S) /\ IsFiniteSet(Users)
  BY PartFacts, PokerAssumption
<1>2. \A k \in S : f[k] \in Int /\ key[k] \in Users
  BY PartFacts
<1>3. ASSUME NEW u \in Users PROVE g[u] = SumFunctionOnSet(f, {k \in S : key[k] = u})
  <2> DEFINE T == PartOf(q, u)
             h == [k \in T |-> q[k].credit]
  <2>1. T = {k \in S : key[k] = u}
    BY DEF PartOf
  <2>2. IsFiniteSet(T)
    BY PartFacts
  <2>3. \A k \in T : h[k] \in Int /\ f[k] = h[k]
    BY <1>2 DEF PartOf
  <2>4. g[u] = SumFunctionOnSet(h, T)
    BY DEF CreditTo
  <2> HIDE DEF T, h, f
  <2>5. SumFunctionOnSet(h, T) = SumFunctionOnSet(f, T)
    BY <2>2, <2>3, SumSame
  <2> QED
    BY <2>1, <2>4, <2>5
<1>4. Credits(q) = SumFunctionOnSet(f, S)
  BY DEF Credits
<1>5. KeyedSums(g, f, key, S, Users)
  BY <1>3 DEF KeyedSums
<1> HIDE DEF S, f, key
<1>6. (\A k \in S : f[k] \in Int) /\ (\A k \in S : key[k] \in Users)
  BY <1>2
<1> QED
  BY <1>1, <1>4, <1>5, <1>6, SumByKey

(* When a hand ends, each user with chips in the pot has one settlement.   *)
LEMMA PaidOnce ==
    ASSUME NEW s \in SharedState, OneSeatEach(s), NEW credit \in [Seats -> Nat],
           NEW q, q = Settlements(s, credit), NEW u \in Users
    PROVE  /\ PlacedBy(s, u) > 0 => Cardinality(PartOf(q, u)) = 1
           /\ PlacedBy(s, u) = 0 => Cardinality(PartOf(q, u)) = 0 /\ CreditTo(q, u) = 0
<1>1. PICK at : Lists(q, at, s, credit, Owing(s))
  BY SettlementsListed
<1>2. /\ at \in [DOMAIN q -> Owing(s)] /\ {at[n] : n \in DOMAIN q} = Owing(s)
      /\ \A m, n \in DOMAIN q : at[m] = at[n] => m = n
      /\ \A n \in DOMAIN q : q[n].user = s.seat[at[n]].user
  BY <1>1 DEF Lists, Pay
<1>3. \A n \in PartOf(q, u) : at[n] \in OwingOf(s, u)
  BY <1>2 DEF PartOf, OwingOf
<1>4. CASE \E i \in Seats : s.seat[i].user = u
  <2>1. PICK i \in Seats : s.seat[i].user = u
    BY <1>4
  <2>2. /\ OwingOf(s, u) = IF s.seat[i].committed > 0 THEN {i} ELSE {}
        /\ PlacedBy(s, u) = s.seat[i].committed /\ s.seat[i].committed \in Nat
    BY <2>1, PlacedAt, BetTypes
  <2>3. CASE s.seat[i].committed > 0
    <3>1. i \in Owing(s)
      BY <2>2, <2>3 DEF OwingOf
    <3>2. PICK n \in DOMAIN q : at[n] = i
      BY <1>2, <3>1
    <3>3. PartOf(q, u) = {n}
      BY <1>2, <1>3, <2>1, <2>2, <2>3, <3>2 DEF PartOf
    <3>4. Cardinality(PartOf(q, u)) = 1
      BY <3>3, FS_Singleton
    <3> QED
      BY <2>2, <2>3, <3>4
  <2>4. CASE ~(s.seat[i].committed > 0)
    <3>1. PartOf(q, u) = {} /\ PlacedBy(s, u) = 0
      BY <1>3, <2>2, <2>4
    <3> QED
      BY <3>1, FS_EmptySet, SumEmpty DEF CreditTo
  <2> QED
    BY <2>3, <2>4
<1>5. CASE ~\E i \in Seats : s.seat[i].user = u
  <2>1. OwingOf(s, u) = {} /\ SeatsOf(s, u) = {}
    BY <1>5 DEF OwingOf, Owing, Occupied, SeatsOf
  <2>2. PartOf(q, u) = {} /\ PlacedBy(s, u) = 0
    BY <1>3, <2>1, PlacedNowhere
  <2> QED
    BY <2>2, FS_EmptySet, SumEmpty DEF CreditTo
<1> QED
  BY <1>4, <1>5

(***************************************************************************)
(* A hand that ends has divided its pot.                                   *)
(***************************************************************************)
(* A hand that is over has divided its pot, or had none.                   *)
Parted(s) ==
    IF RoundActive(s) THEN s.due = <<>>
    ELSE \E credit \in [Seats -> Nat] : s.due = Settlements(s, credit)

SameBetsBy(s, t) == \A i \in Seats : /\ t.seat[i].user = s.seat[i].user
                                     /\ t.seat[i].committed = s.seat[i].committed

(* The three ways a hand ends, each of which clears the pot.               *)
LEMMA SettleParts ==
    ASSUME NEW s \in SharedState, NEW credit \in [Seats -> Nat]
    PROVE  Parted(Settle(s, credit))
<1> DEFINE t == Settle(s, credit)
<1>1. t.phase = "Showdown" /\ t.seat = s.seat /\ t.due = Settlements(s, credit)
  BY SettleFields
<1> HIDE DEF t
<1>2. Settlements(t, credit) = Settlements(s, credit)
  BY <1>1 DEF Settlements, Occupied
<1>3. ~RoundActive(t)
  BY <1>1 DEF RoundActive, HandRuns, ActionPhases
<1>4. Parted(t)
  BY <1>1, <1>2, <1>3 DEF Parted
<1> QED
  BY <1>4 DEF t

LEMMA FoldParts ==
    ASSUME NEW s \in SharedState, NEW w
    PROVE  Parted(FinishByFold(s, w))
<1>1. Pot(Committed(s)) \in Nat
  BY PotIsNat
<1> QED
  BY <1>1, SettleParts DEF FinishByFold

LEMMA ShowdownParts ==
    ASSUME NEW s \in SharedState
    PROVE  Parted(FinishShowdown(s))
<1>1. Active(s) \in SUBSET Seats /\ Committed(s) \in [Seats -> Nat]
  BY SeatSets
<1> QED
  BY <1>1, CreditsType, SettleParts DEF FinishShowdown

(* Without chips in the pot there is no stake in it.                       *)
LEMMA NobodyOwing ==
    ASSUME NEW s \in SharedState, s.due = <<>>, ~RoundActive(s),
           \A i \in Seats : s.seat[i].committed = 0
    PROVE  Parted(s)
<1> DEFINE credit == [i \in Seats |-> 0]
           q == Settlements(s, credit)
<1>1. credit \in [Seats -> Nat]
  OBVIOUS
<1>2. Owing(s) = {}
  BY DEF Owing, Occupied
<1> HIDE DEF credit
<1>3. q \in Seq(Settlement)
  BY <1>1, SettlementsType
<1>4. PICK at : Lists(q, at, s, credit, Owing(s))
  BY <1>1, SettlementsListed
<1>5. at \in [DOMAIN q -> Owing(s)]
  BY <1>4 DEF Lists
<1>6. DOMAIN q = {}
  BY <1>2, <1>5
<1> HIDE DEF q
<1>7. q = <<>>
  BY <1>3, <1>6
<1> QED
  BY <1>1, <1>7 DEF Parted, q

(* However the turn moves on while somebody is left, the pot is divided.   *)
LEMMA AdvanceParts ==
    ASSUME NEW s \in SharedState, RoundActive(s), s.due = <<>>, Active(s) # {}, NEW i \in Seats
    PROVE  Parted(AdvanceAfterAction(s, i))
<1> DEFINE t == AdvanceAfterAction(s, i)
           f == FreshStreet(s)
           next == [f EXCEPT !.phase = NextStreet[s.phase],
                             !.active_seat = After(s.dealer_button, Actionable(s))]
           pass == [s EXCEPT !.active_seat = After(i, Actionable(s))]
<1>1. \/ \E w \in Active(s) : t = FinishByFold(s, w)
      \/ t = FinishShowdown(s)
      \/ t = FinishShowdown(f)
      \/ s.phase \in DOMAIN NextStreet /\ t = next
      \/ ~HandRuns(s) /\ t = f
      \/ t = pass
  BY AdvanceOutcomes
<1> HIDE DEF t
<1>2. f \in SharedState /\ f.phase = s.phase /\ f.due = s.due
  BY FreshStreetType, FreshStreetFields
<1> HIDE DEF f
<1>3. CASE (\E w \in Active(s) : t = FinishByFold(s, w)) \/ t = FinishShowdown(s)
           \/ t = FinishShowdown(f)
  BY <1>2, <1>3, FoldParts, ShowdownParts DEF t
<1>4. CASE s.phase \in DOMAIN NextStreet /\ t = next
  <2> DEFINE p == NextStreet[s.phase]
             a == After(s.dealer_button, Actionable(s))
  <2>1. p \in ActionPhases
    BY <1>4, RankFacts
  <2> HIDE DEF p, a
  <2>2. t.phase = p /\ t.due = f.due
    BY <1>2, <1>4 DEF SharedState, p, a
  <2>3. RoundActive(t) /\ t.due = <<>>
    BY <1>2, <2>1, <2>2 DEF RoundActive, HandRuns
  <2> QED
    BY <2>3 DEF t, Parted
<1>5. CASE ~HandRuns(s) /\ t = f
  BY <1>2, <1>5 DEF Parted, RoundActive, HandRuns, t
<1>6. CASE t = pass
  <2> DEFINE a == After(i, Actionable(s))
  <2> HIDE DEF a
  <2>1. t.phase = s.phase /\ t.due = s.due
    BY <1>6 DEF SharedState, a
  <2> QED
    BY <2>1 DEF Parted, RoundActive, HandRuns, t
<1> QED
  BY <1>1, <1>3, <1>4, <1>5, <1>6 DEF t

(* A seat that acts is not the only one.                                   *)
LEMMA ActedParts ==
    ASSUME NEW s \in SharedState, HandRuns(s), TurnGood(s), s.due = <<>>, NEW i \in Seats,
           NEW v, SeatActed(s, v, i)
    PROVE  Parted(AdvanceAfterAction(v, i))
<1>1. v \in SharedState /\ v.phase = s.phase /\ v.due = <<>>
      /\ \A j \in Seats \ {i} : v.seat[j] = s.seat[j]
  BY DEF SeatActed, SameTurn
<1>2. Cardinality(Active(s)) > 1 /\ Active(s) \subseteq Seats
  BY SeatSets DEF TurnGood
<1>3. PICK j \in Active(s) : j # i
  <2>1. CASE Active(s) \subseteq {i}
    <3>1. IsFiniteSet({i}) /\ Cardinality({i}) = 1
      BY FS_Singleton
    <3>2. Cardinality(Active(s)) <= 1
      BY <2>1, <3>1, FS_Subset
    <3> QED
      BY <1>2, <3>2, SeatSets
  <2> QED
    BY <2>1
<1>4. j \in Active(v)
  BY <1>1, <1>2, <1>3 DEF Active, Occupied
<1>5. RoundActive(v)
  BY <1>1 DEF RoundActive, HandRuns
<1> QED
  BY <1>1, <1>4, <1>5, AdvanceParts

LEMMA CheckOrFoldParts ==
    ASSUME NEW s \in SharedState, HandRuns(s), TurnGood(s), s.due = <<>>, NEW i \in Seats
    PROVE  Parted(CheckOrFold(s, i))
<1> DEFINE checked == [s EXCEPT !.seat[i].acted = TRUE]
           v == IF ToCall(s, i) = 0 THEN checked ELSE FoldSeat(s, i)
<1>1. SeatActed(s, v, i)
  <2>1. SeatActed(s, checked, i) /\ SeatActed(s, FoldSeat(s, i), i)
    BY CheckActed, FoldSeatActed
  <2> HIDE DEF checked
  <2> QED
    BY <2>1
<1>2. CheckOrFold(s, i) = AdvanceAfterAction(v, i)
  BY DEF CheckOrFold
<1> HIDE DEF v
<1> QED
  BY <1>1, <1>2, ActedParts

LEMMA AutoParts ==
    ASSUME NEW s \in SharedState, TurnGood(s), Parted(s)
    PROVE  LET t == AutoCheckFoldOnce(s) IN
           t \in SharedState /\ TurnGood(t) /\ Parted(t) /\ SameBetsBy(s, t)
<1> DEFINE i == s.active_seat
           c == ClearCountdown(s)
           t == AutoCheckFoldOnce(s)
           plays == /\ ~s.settlement_pending /\ HandRuns(s) /\ i \in Actionable(s)
                    /\ s.seat[i].auto_check_fold /\ s.seat[i].pending = NoCommit
<1> SUFFICES t \in SharedState /\ TurnGood(t) /\ Parted(t) /\ SameBetsBy(s, t)
  OBVIOUS
<1>1. t \in SharedState
  BY AutoCheckFoldType
<1>2. TurnGood(t) /\ SameBetsBy(s, t)
  <2>1. AutoPlayed(s, t)
    BY AutoOnce
  <2> HIDE DEF t
  <2> QED
    BY <2>1 DEF AutoPlayed, Played, Moves, MovedSeat, SameBetsBy
<1>3. CASE ~plays
  <2>1. t = s
    BY <1>3 DEF AutoCheckFoldOnce
  <2> QED
    BY <1>1, <1>2, <2>1
<1>4. CASE plays
  <2>1. t = CheckOrFold(c, i)
    BY <1>4 DEF AutoCheckFoldOnce
  <2>2. i \in Seats /\ RoundActive(s)
    BY <1>4, SeatSets DEF RoundActive
  <2>3. c \in SharedState /\ c.phase = s.phase /\ c.due = s.due /\ c.seat = s.seat
        /\ c.active_seat = s.active_seat
    BY ClearCountdownType, ClearCountdownFields
  <2> HIDE DEF c
  <2>4. HandRuns(c) /\ TurnGood(c) /\ c.due = <<>>
    BY <1>4, <2>2, <2>3 DEF HandRuns, TurnGood, Active, Actionable, Occupied, Parted
  <2>5. Parted(CheckOrFold(c, i))
    BY <2>2, <2>3, <2>4, CheckOrFoldParts
  <2> QED
    BY <1>1, <1>2, <2>1, <2>5
<1> QED
  BY <1>3, <1>4

(* Blinds that are all refused leave no pot.                               *)
LEMMA BlindsPart ==
    ASSUME NEW s \in SharedState, s.phase = "PostingBlinds", s.due = <<>>, Staked(s),
           \A i \in Seats : BlindSeat(s.seat[i])
    PROVE  Parted(FinishBlindPosting(s))
<1> DEFINE bets == {s.seat[i].street_bet : i \in Seats}
           v == [s EXCEPT !.current_bet = Max(bets), !.min_raise = BIG_BLIND]
           shown == [v EXCEPT !.phase = "PreFlop", !.active_seat = NoSeat]
           begun == [v EXCEPT !.phase = "PreFlop",
                              !.active_seat = After(v.big_blind_seat, Actionable(v))]
           t == FinishBlindPosting(s)
<1>1. Max(bets) \in Nat
  BY StreetBetsMax
<1>2. /\ v \in SharedState /\ v.seat = s.seat /\ v.phase = s.phase /\ v.due = <<>>
  BY <1>1, PokerAssumption DEF SharedState
<1>3. t = CASE Cardinality(Active(v)) = 1 -> FinishByFold(v, CHOOSE w \in Active(v) : TRUE)
          [] Active(v) = {} -> AbandonHand(v)
          [] Cardinality(Active(v)) > 1 /\ Actionable(v) = {} -> FinishShowdown(shown)
          [] OTHER -> begun
  BY DEF FinishBlindPosting
<1>4. begun.phase = "PreFlop" /\ begun.due = v.due
  BY <1>2 DEF SharedState
<1>5. shown \in SharedState
  <2>1. "PreFlop" \in Phases
    BY DEF Phases, ActionPhases
  <2> QED
    BY <1>2, <2>1 DEF SharedState, NoSeat
<1> HIDE DEF bets, v, shown, begun, t
<1>6. Active(v) = {} => Cardinality(Active(v)) = 0
  BY FS_EmptySet
<1>7. \/ t = FinishByFold(v, CHOOSE w \in Active(v) : TRUE)
      \/ Active(v) = {} /\ t = AbandonHand(v)
      \/ t = FinishShowdown(shown)
      \/ t = begun
  BY <1>3, <1>6
<1>8. CASE t = FinishByFold(v, CHOOSE w \in Active(v) : TRUE) \/ t = FinishShowdown(shown)
  BY <1>2, <1>5, <1>8, FoldParts, ShowdownParts DEF t
<1>9. CASE Active(v) = {} /\ t = AbandonHand(v)
  <2>1. t.phase = "Waiting" /\ t.seat = s.seat /\ t.due = <<>> /\ t \in SharedState
    BY <1>2, <1>9, AbandonFields, AbandonHandType
  <2>2. ASSUME NEW i \in Seats PROVE t.seat[i].committed = 0
    <3>1. s.seat[i].committed \in Nat
      BY BetTypes
    <3>2. s.seat[i].committed > 0 => s.seat[i].folded
      BY <1>2, <1>9 DEF Active, Occupied, Staked, StakedSeat
    <3> QED
      BY <2>1, <3>1, <3>2 DEF BlindSeat
  <2>3. ~RoundActive(t)
    BY <2>1 DEF RoundActive, HandRuns, ActionPhases
  <2> QED
    BY <2>1, <2>2, <2>3, NobodyOwing DEF t
<1>10. CASE t = begun
  BY <1>2, <1>4, <1>10 DEF RoundActive, HandRuns, ActionPhases, Parted, t
<1> QED
  BY <1>7, <1>8, <1>9, <1>10 DEF t

LEMMA BlindAnsweredParts ==
    ASSUME NEW s \in SharedState, s.phase = "PostingBlinds", s.due = <<>>, Staked(s),
           \A i \in Seats : BlindSeat(s.seat[i])
    PROVE  Parted(BlindAnswered(s))
<1> DEFINE n == Max({s.pending_blinds - 1, 0})
           w == [s EXCEPT !.pending_blinds = n]
<1>1. n \in 0 .. 2
  <2>1. s.pending_blinds \in 0 .. 2
    BY DEF SharedState
  <2>2. n = (IF s.pending_blinds - 1 >= 0 THEN s.pending_blinds - 1 ELSE 0)
    BY <2>1, MaxOfTwo
  <2> HIDE DEF n
  <2> QED
    BY <2>1, <2>2
<1>2. BlindAnswered(s) = IF n = 0 THEN FinishBlindPosting(w) ELSE w
  BY DEF BlindAnswered, SharedState
<1> HIDE DEF n
<1>3. w \in SharedState /\ w.seat = s.seat /\ w.phase = s.phase /\ w.due = s.due
  BY <1>1 DEF SharedState
<1> HIDE DEF w
<1>4. Parted(FinishBlindPosting(w))
  BY <1>3, BlindsPart DEF Staked
<1>5. Parted(w)
  BY <1>3 DEF Parted, RoundActive
<1> QED
  BY <1>2, <1>4, <1>5

(* What a section publishes is divided as the section has left it.         *)
LEMMA PublishParts ==
    ASSUME NEW s \in SharedState, TurnGood(s), Parted(s), Publish(s)
    PROVE  \E t \in SharedState :
              /\ Parted(t) /\ SameBetsBy(s, t) /\ PublishedTable(t, state')
              /\ settling' = IF t.due = <<>> THEN settling
                             ELSE settling \cup {SettlementTask(t.due)}
<1> DEFINE G == {t \in SharedState : TurnGood(t) /\ Parted(t) /\ SameBetsBy(s, t)}
<1>1. s \in G
  BY DEF SameBetsBy
<1>2. ASSUME NEW t \in G PROVE AutoCheckFoldOnce(t) \in G
  <2> DEFINE v == AutoCheckFoldOnce(t)
  <2>1. v \in SharedState /\ TurnGood(v) /\ Parted(v) /\ SameBetsBy(t, v)
    BY AutoParts
  <2> HIDE DEF v
  <2>2. v \in G
    BY <2>1 DEF SameBetsBy
  <2> QED
    BY <2>2 DEF v
<1> HIDE DEF G
<1>3. PICK t \in G :
               /\ state' = [StartActionCountdownIfNeeded(t) EXCEPT !.due = <<>>]
               /\ settling' = IF StartActionCountdownIfNeeded(t).due = <<>> THEN settling
                              ELSE settling \cup
                                   {SettlementTask(StartActionCountdownIfNeeded(t).due)}
  BY <1>1, <1>2, PublishOutcome
<1>4. t \in SharedState /\ Parted(t) /\ SameBetsBy(s, t)
  BY DEF G
<1>5. StartActionCountdownIfNeeded(t).due = t.due /\ PublishedTable(t, state')
  BY <1>3, <1>4, CountdownFields
<1> QED
  BY <1>3, <1>4, <1>5

LEMMA SeatingPublished ==
    ASSUME NEW s \in SharedState, Seating(s), Publish(s)
    PROVE  Seating(state')
<1>1. PICK t \in SharedState : AutoPlayed(s, t) /\ PublishedTable(t, state')
  BY PublishFacts
<1>2. state'.phase = t.phase /\ state'.seat = t.seat
  BY <1>1 DEF PublishedTable
<1>3. \A i \in Seats : t.seat[i].user = s.seat[i].user
  BY <1>1 DEF AutoPlayed, Played, Moves, MovedSeat
<1>4. t.phase = "PostingBlinds" => t = s
  BY <1>1 DEF AutoPlayed, Played, Moves, PhaseMoves
<1> QED
  BY <1>2, <1>3, <1>4 DEF Seating, OneSeatEach

(***************************************************************************)
(* The table as a chip table.                                              *)
(***************************************************************************)
StakeMap(s, tasks) == [u \in Users |-> StakeBy(s, tasks, u)]
OwedMap(tasks) == [u \in Users |-> OwedSum(tasks, u)]
CountMap(tasks) == [u \in Users |-> CountSum(tasks, u)]

SameStakeOf(u) == StakeBy(state', commits', u) = StakeBy(state, commits, u)
SameOwedTo(u) == OwedSum(settling', u) = OwedSum(settling, u)
                 /\ CountSum(settling', u) = CountSum(settling, u)

(* No stake and no debt moves.                                             *)
ChipsStill == bank' = bank /\ \A u \in Users : SameStakeOf(u) /\ SameOwedTo(u)

(* The pot of a hand, and nothing more, becomes what is owed.              *)
PotDivided ==
    /\ bank' = bank /\ settling = {}
    /\ \A u \in Users : /\ StakeBy(state, commits, u) \in Nat
                        /\ StakeBy(state', commits', u) = 0
    /\ \A u \in Users : /\ OwedSum(settling', u) \in Nat
                        /\ CountSum(settling', u) \in Nat
    /\ \A u \in Users : StakeBy(state, commits, u) > 0 => CountSum(settling', u) = 1
    /\ \A u \in Users : StakeBy(state, commits, u) = 0 =>
                            OwedSum(settling', u) = 0 /\ CountSum(settling', u) = 0
    /\ SumFunctionOnSet(OwedMap(settling'), Users)
          <= SumFunctionOnSet(StakeMap(state, commits), Users)

(* What Ready and the next state's invariant say of the stakes.            *)
Going == Ready /\ Seating(state) /\ Accounted /\ (RoundActive(state') \/ commits' = {})

LEMMA StakesTyped ==
    ASSUME Ready, NEW u \in Users
    PROVE  /\ PlacedBy(state, u) \in Nat /\ WayBy(commits, u) \in Nat
           /\ StakeBy(state, commits, u) \in Nat
<1>1. PlacedBy(state, u) \in Nat
  BY ReadyFacts, PlacedType
<1>2. WayBy(commits, u) \in Nat
  BY ReadyFacts, TakenByType
<1> QED
  BY <1>1, <1>2 DEF StakeBy

LEMMA NothingTaken == ASSUME NEW u PROVE WayBy({}, u) = 0
BY SumEmpty DEF WayBy, TakenBy, TakenOf

(* The stakes of all users are the pot and the chips on their way to it.   *)
LEMMA StakeTotal ==
    ASSUME Ready, RoundActive(state)
    PROVE  SumFunctionOnSet(StakeMap(state, commits), Users) = PlayOf(state) + WayOf(commits)
<1> DEFINE f == [u \in Users |-> PlacedBy(state, u)]
           g == [u \in Users |-> WayBy(commits, u)]
           h == StakeMap(state, commits)
<1>1. \A u \in Users : f[u] \in Int /\ g[u] \in Int /\ h[u] = f[u] + g[u]
  BY StakesTyped DEF StakeMap, StakeBy
<1>2. SumFunctionOnSet(f, Users) = Pot(Committed(state))
  <2>1. \A u \in Users : f[u] = PlacedBy(state, u)
    OBVIOUS
  <2> HIDE DEF f
  <2> QED
    BY <2>1, ReadyFacts, PlacedTotal
<1>3. SumFunctionOnSet(g, Users) = WayOf(commits)
  <2>1. \A u \in Users : g[u] = WayBy(commits, u)
    OBVIOUS
  <2> HIDE DEF g
  <2> QED
    BY <2>1, ReadyFacts, WayTotal
<1> HIDE DEF f, g, h
<1>4. SumFunctionOnSet(h, Users) = SumFunctionOnSet(f, Users) + SumFunctionOnSet(g, Users)
  BY <1>1, PokerAssumption, SumPlus
<1> QED
  BY <1>2, <1>3, <1>4 DEF h, PlayOf

(* What one settlement task is to write.                                   *)
LEMMA DueWritten ==
    ASSUME NEW q \in Seq(Settlement), NEW tasks,
           tasks = IF q = <<>> THEN {} ELSE {SettlementTask(q)}
    PROVE  /\ \A u \in Users : /\ OwedSum(tasks, u) = CreditTo(q, u)
                               /\ CountSum(tasks, u) = Cardinality(PartOf(q, u))
           /\ OwedBy(tasks) = Credits(q)
<1>1. CASE q = <<>>
  <2>1. tasks = {} /\ DOMAIN q = {}
    BY <1>1
  <2>2. ASSUME NEW u \in Users PROVE CreditTo(q, u) = 0 /\ Cardinality(PartOf(q, u)) = 0
    <3>1. PartOf(q, u) = {}
      BY <2>1 DEF PartOf
    <3> QED
      BY <3>1, SumEmpty, FS_EmptySet DEF CreditTo
  <2>3. Credits(q) = 0
    BY <1>1, CreditsNone
  <2> QED
    BY <2>1, <2>2, <2>3, OwedSumNone, OwedNone
<1>2. CASE q # <<>>
  <2> DEFINE task == SettlementTask(q)
  <2>1. tasks = {task} /\ task.todo = q
    BY <1>2 DEF SettlementTask
  <2> HIDE DEF task
  <2>2. task.todo \in Seq(Settlement)
    BY <2>1
  <2> QED
    BY <2>1, <2>2, OwedSumOne, OwedOne
<1> QED
  BY <1>1, <1>2

(* The stakes of a table are those of its seats.                           *)
SamePlaced(s, t) ==
    \A i \in Seats : /\ t.seat[i].committed = s.seat[i].committed
                     /\ s.seat[i].committed > 0 => t.seat[i].user = s.seat[i].user

LEMMA PlacedSame ==
    ASSUME NEW s, NEW t, SamePlaced(s, t), NEW u
    PROVE  PlacedBy(t, u) = PlacedBy(s, u)
<1>1. Owing(t) = Owing(s) /\ OwingOf(t, u) = OwingOf(s, u)
  BY DEF SamePlaced, Owing, Occupied, OwingOf
<1>2. Committed(t) = Committed(s)
  BY DEF SamePlaced, Committed
<1> QED
  BY <1>1, <1>2 DEF PlacedBy

(* What a publishing section makes of the stakes.                          *)
SectionShares(s, tasks) ==
    /\ s \in SharedState /\ Seating(s)
    /\ RoundActive(state) =>
          /\ TurnGood(s) /\ Parted(s)
          /\ \A u \in Users : PlacedBy(s, u) + WayBy(tasks, u) = StakeBy(state, commits, u)
    /\ ~RoundActive(state) => ~RoundActive(s) /\ s.due = <<>> /\ tasks = commits

Shared == Seating(state') /\ (ChipsStill \/ PotDivided)

(* What a section publishes either leaves every stake as it was, or is a   *)
(* hand that has just ended with its pot divided among the settlements.    *)
LEMMA PublishShares ==
    ASSUME Going, NEW s, SectionShares(s, commits'), Publish(s), UNCHANGED <<bank, minted>>
    PROVE  Shared
<1>1. s \in SharedState /\ Seating(s) /\ Ready
  BY DEF SectionShares, Going
<1>2. Seating(state')
  BY <1>1, SeatingPublished
<1>3. CASE ~RoundActive(state)
  <2>1. ~RoundActive(s) /\ s.due = <<>> /\ commits' = commits
    BY <1>3 DEF SectionShares
  <2>2. ~RoundActive(state') /\ settling' = settling
    BY <1>1, <2>1, PublishIdle
  <2>3. ChipsStill
    BY <1>3, <2>1, <2>2 DEF ChipsStill, SameStakeOf, SameOwedTo, StakeBy
  <2> QED
    BY <1>2, <2>3 DEF Shared
<1>4. CASE RoundActive(state)
  <2>1. /\ TurnGood(s) /\ Parted(s)
        /\ \A u \in Users : PlacedBy(s, u) + WayBy(commits', u) = StakeBy(state, commits, u)
    BY <1>4 DEF SectionShares
  <2>2. PICK t \in SharedState :
              /\ Parted(t) /\ SameBetsBy(s, t) /\ PublishedTable(t, state')
              /\ settling' = IF t.due = <<>> THEN settling
                             ELSE settling \cup {SettlementTask(t.due)}
    BY <1>1, <2>1, PublishParts
  <2>3. settling = {}
    BY <1>1, <1>4, ReadyFacts
  <2>4. state'.phase = t.phase /\ state'.seat = t.seat
    BY <2>2 DEF PublishedTable
  <2>5. RoundActive(state') <=> RoundActive(t)
    BY <2>4 DEF RoundActive, HandRuns
  <2>6. ASSUME NEW u \in Users
        PROVE  PlacedBy(t, u) = PlacedBy(s, u) /\ PlacedBy(state', u) = PlacedBy(t, u)
    <3>1. SamePlaced(t, state') /\ SamePlaced(s, t)
      BY <2>2, <2>4 DEF SameBetsBy, SamePlaced
    <3> QED
      BY <3>1, PlacedSame
  <2>7. CASE RoundActive(t)
    <3>1. settling' = settling
      BY <2>2, <2>7 DEF Parted
    <3>2. ASSUME NEW u \in Users PROVE SameStakeOf(u)
      BY <2>1, <2>5, <2>6, <2>7 DEF SameStakeOf, StakeBy
    <3>3. ChipsStill
      BY <3>1, <3>2 DEF ChipsStill, SameOwedTo
    <3> QED
      BY <1>2, <3>3 DEF Shared
  <2>8. CASE ~RoundActive(t)
    <3>1. commits' = {} /\ ~RoundActive(state')
      BY <2>5, <2>8 DEF Going
    <3>2. PICK credit \in [Seats -> Nat] : t.due = Settlements(t, credit)
      BY <2>2, <2>8 DEF Parted
    <3> DEFINE q == t.due
    <3>3. q \in Seq(Settlement) /\ OneSeatEach(t)
      <4>1. OneSeatEach(t)
        BY <1>1, <2>2 DEF Seating, OneSeatEach, SameBetsBy
      <4> QED
        BY <4>1 DEF SharedState
    <3>4. settling' = IF q = <<>> THEN {} ELSE {SettlementTask(q)}
      BY <2>2, <2>3
    <3>5. q = Settlements(t, credit)
      BY <3>2
    <3> HIDE DEF q
    <3>6. ASSUME NEW u \in Users
          PROVE  /\ StakeBy(state, commits, u) = PlacedBy(t, u) /\ PlacedBy(t, u) \in Nat
                 /\ StakeBy(state', commits', u) = 0
      <4>1. WayBy(commits', u) = 0
        BY <3>1, NothingTaken
      <4>2. PlacedBy(t, u) \in Nat
        BY PlacedType
      <4>3. PlacedBy(s, u) + WayBy(commits', u) = StakeBy(state, commits, u)
        BY <2>1
      <4>4. StakeBy(state, commits, u) = PlacedBy(t, u)
        BY <2>6, <4>1, <4>2, <4>3
      <4>5. StakeBy(state', commits', u) = 0
        BY <3>1, <4>1 DEF StakeBy
      <4> QED
        BY <4>2, <4>4, <4>5
    <3>7. ASSUME NEW u \in Users
          PROVE  /\ OwedSum(settling', u) = CreditTo(q, u)
                 /\ CountSum(settling', u) = Cardinality(PartOf(q, u))
                 /\ CreditTo(q, u) \in Nat /\ Cardinality(PartOf(q, u)) \in Nat
      BY <3>3, <3>4, DueWritten, PartFacts
    <3>8. ASSUME NEW u \in Users
          PROVE  /\ PlacedBy(t, u) > 0 => Cardinality(PartOf(q, u)) = 1
                 /\ PlacedBy(t, u) = 0 => Cardinality(PartOf(q, u)) = 0 /\ CreditTo(q, u) = 0
      BY <3>3, <3>5, PaidOnce
    <3>9. SumFunctionOnSet(OwedMap(settling'), Users) = Credits(q)
      <4> DEFINE g == OwedMap(settling')
      <4>1. \A u \in Users : g[u] = CreditTo(q, u)
        BY <3>7 DEF OwedMap
      <4> HIDE DEF g
      <4>2. SumFunctionOnSet(g, Users) = Credits(q)
        BY <3>3, <4>1, CreditTotal
      <4> QED
        BY <4>2 DEF g
    <3>10. Credits(q) <= PlayOf(state) + WayOf(commits)
      <4>1. OwedBy(settling') = Credits(q)
        BY <3>3, <3>4, DueWritten
      <4>2. OwedBy(settling) = 0 /\ WayOf(commits') = 0 /\ PlayOf(state') = 0
        <5>1. TakenOf({}) = {}
          BY DEF TakenOf
        <5> QED
          BY <2>3, <3>1, <5>1, OwedNone, SumEmpty DEF WayOf, PlayOf
      <4>3. Forgone(state') \in Nat
        BY <2>2, ForgoneType DEF PublishedTable
      <4>4. Chips' - minted' = Chips - minted - Forgone(state')
        BY <1>4, <3>1 DEF Accounted, Going
      <4>5. /\ BankOf(bank) \in Nat /\ WayOf(commits) \in Nat /\ PlayOf(state) \in Nat
            /\ minted \in Int /\ Credits(q) \in Nat
        BY <1>1, <3>3, CreditsNat DEF Ready, Priced
      <4>6. /\ Chips = BankOf(bank) + WayOf(commits) + PlayOf(state) + 0
            /\ Chips' = BankOf(bank) + 0 + 0 + Credits(q)
        BY <4>1, <4>2, ChipsAre
      <4> QED
        BY <4>3, <4>4, <4>5, <4>6
    <3>11. SumFunctionOnSet(OwedMap(settling'), Users)
              <= SumFunctionOnSet(StakeMap(state, commits), Users)
      BY <1>1, <1>4, <3>9, <3>10, StakeTotal
    <3>12. PotDivided
      BY <2>3, <3>6, <3>7, <3>8, <3>11 DEF PotDivided
    <3> QED
      BY <1>2, <3>12 DEF Shared
  <2> QED
    BY <2>7, <2>8
<1> QED
  BY <1>3, <1>4

(***************************************************************************)
(* The stakes of a step.                                                   *)
(***************************************************************************)
LEMMA GoingFacts == Going =>
    /\ Ready /\ TurnGood(state) /\ TableInv /\ OneSeatEach(state)
    /\ state \in SharedState /\ state.due = <<>> /\ Staked(state)
    /\ state.phase = "PostingBlinds" => \A i \in Seats : BlindSeat(state.seat[i])
BY ReadyFacts DEF Going, Seating, TableInv

(* A table on which no chip moves.                                         *)
LEMMA RestShares ==
    ASSUME Going, NEW s \in SharedState, OneSeatEach(s), s.phase = state.phase, s.due = <<>>,
           TurnGood(s), s.phase = "PostingBlinds" => \A i \in Seats : BlindSeat(s.seat[i]),
           RoundActive(state) => SamePlaced(state, s), NEW tasks,
           \A u \in Users : WayBy(tasks, u) = WayBy(commits, u),
           RoundActive(state) \/ tasks = commits
    PROVE  SectionShares(s, tasks)
<1>1. Seating(s) /\ (RoundActive(s) <=> RoundActive(state))
  BY DEF Seating, RoundActive, HandRuns
<1>2. CASE RoundActive(state)
  <2>1. Parted(s)
    BY <1>1, <1>2 DEF Parted
  <2>2. \A u \in Users : PlacedBy(s, u) + WayBy(tasks, u) = StakeBy(state, commits, u)
    BY <1>2, PlacedSame DEF StakeBy
  <2> QED
    BY <1>1, <1>2, <2>1, <2>2 DEF SectionShares
<1>3. CASE ~RoundActive(state)
  BY <1>1, <1>3 DEF SectionShares
<1> QED
  BY <1>2, <1>3

(* A table that changes no bet and no user keeps its seating and its       *)
(* stakes.                                                                 *)
LEMMA QuietSeating ==
    ASSUME Going, NEW s, Quiet(state, s)
    PROVE  /\ s \in SharedState /\ OneSeatEach(s) /\ s.phase = state.phase /\ s.due = <<>>
           /\ s.phase = "PostingBlinds" => \A i \in Seats : BlindSeat(s.seat[i])
           /\ SamePlaced(state, s)
<1>1. s \in SharedState /\ s.phase = state.phase /\ s.due = <<>>
  BY GoingFacts DEF Quiet, SameTurn
<1>2. \A i \in Seats : /\ s.seat[i].user = state.seat[i].user
                       /\ s.seat[i].committed = state.seat[i].committed
                       /\ s.seat[i].folded = state.seat[i].folded
                       /\ s.seat[i].pending = state.seat[i].pending
  BY DEF Quiet, SameHand
<1>3. OneSeatEach(s) /\ SamePlaced(state, s)
  BY <1>2, GoingFacts DEF OneSeatEach, SamePlaced
<1>4. s.phase = "PostingBlinds" => \A i \in Seats : BlindSeat(s.seat[i])
  BY <1>1, <1>2, GoingFacts DEF BlindSeat
<1> QED
  BY <1>1, <1>3, <1>4

LEMMA QuietShares ==
    ASSUME Going, NEW s, Quiet(state, s), Publish(s), UNCHANGED <<commits, bank, minted>>
    PROVE  Shared
<1>1. TurnGood(s)
  BY GoingFacts, QuietSection DEF SectionGood
<1>2. SectionShares(s, commits)
  BY <1>1, QuietSeating, RestShares
<1>3. SectionShares(s, commits')
  BY <1>2
<1> QED
  BY <1>3, PublishShares

(* A turn that is played puts no chips in the pot.                         *)
LEMMA TurnShares ==
    ASSUME Going, HandRuns(state), NEW r, Rested(state, r),
           NEW s, Played(r, s), Parted(s), Publish(s), UNCHANGED <<commits, bank, minted>>
    PROVE  Shared
<1>1. RoundActive(state) /\ state.phase # "PostingBlinds" /\ r.phase = state.phase
  BY DEF RoundActive, HandRuns, ActionPhases, Rested
<1>2. \A i \in Seats : /\ r.seat[i].user = state.seat[i].user
                       /\ r.seat[i].committed = state.seat[i].committed
  BY DEF Rested, SameHand
<1>3. \A i \in Seats : /\ s.seat[i].user = r.seat[i].user
                       /\ s.seat[i].committed = r.seat[i].committed
  BY DEF Played, Moves, MovedSeat
<1>4. /\ s \in SharedState /\ TurnGood(s) /\ PhaseMoves(r, s)
  BY DEF Played, Moves
<1>5. OneSeatEach(s) /\ SamePlaced(state, s)
  BY <1>2, <1>3, GoingFacts DEF OneSeatEach, SamePlaced
<1>6. s.phase # "PostingBlinds"
  BY <1>1, <1>4 DEF PhaseMoves, HandRuns, ActionPhases
<1>7. \A u \in Users : PlacedBy(s, u) + WayBy(commits, u) = StakeBy(state, commits, u)
  BY <1>1, <1>5, PlacedSame DEF StakeBy
<1>8. SectionShares(s, commits)
  BY <1>1, <1>4, <1>5, <1>6, <1>7 DEF SectionShares, Seating
<1>9. SectionShares(s, commits')
  BY <1>8
<1> QED
  BY <1>9, PublishShares

LEMMA RestedTurn ==
    ASSUME Going, HandRuns(state), NEW r, Rested(state, r)
    PROVE  r \in SharedState /\ r.due = <<>> /\ HandRuns(r) /\ TurnGood(r)
<1>1. /\ r \in SharedState /\ r.due = <<>> /\ r.phase = state.phase
      /\ r.active_seat = state.active_seat /\ \A i \in Seats : SameHand(state.seat[i], r.seat[i])
  BY GoingFacts DEF Rested
<1>2. Active(r) = Active(state) /\ Actionable(r) = Actionable(state)
  BY <1>1, SamePlayers DEF SameHand
<1> QED
  BY <1>1, <1>2, GoingFacts DEF TurnGood, HandRuns

(* Checks and folds, by players and by the clock, put no chips in the pot; *)
(* they may end the hand.                                                  *)
LEMMA PlayedShares ==
    ASSUME Going, NEW u \in Users, NEW i \in Seats, Check(u, i) \/ Fold(u, i)
    PROVE  Shared
<1> DEFINE r == RecordManualAction(state, i)
           v == [r EXCEPT !.seat[i].acted = TRUE]
           w == FoldSeat(r, i)
           checked == AdvanceAfterAction(v, i)
           folded == AdvanceAfterAction(w, i)
<1>1. MayAct(u, i) /\ HandRuns(state)
  BY DEF Check, Fold, MayAct
<1>2. Rested(state, r)
  BY GoingFacts, RecordedRested
<1>3. UNCHANGED <<commits, bank, minted>>
  BY DEF Check, Fold
<1>4. (Check(u, i) => Publish(checked)) /\ (Fold(u, i) => Publish(folded))
  BY DEF Check, Fold
<1> HIDE DEF r
<1>5. /\ r \in SharedState /\ r.due = <<>> /\ HandRuns(r) /\ TurnGood(r)
      /\ r.phase # "PostingBlinds"
  BY <1>1, <1>2, RestedTurn DEF HandRuns, ActionPhases
<1>6. SeatActed(r, v, i) /\ SeatActed(r, w, i)
  BY <1>5, CheckActed, FoldSeatActed
<1> HIDE DEF v, w
<1>7. Played(r, checked) /\ Played(r, folded)
  BY <1>5, <1>6, ActedPlayed
<1>8. Parted(checked) /\ Parted(folded)
  BY <1>5, <1>6, ActedParts
<1> HIDE DEF checked, folded
<1> QED
  BY <1>1, <1>2, <1>3, <1>4, <1>7, <1>8, TurnShares

LEMMA TimeoutShares ==
    ASSUME Going, TimeoutActiveAction
    PROVE  Shared
<1> DEFINE i == state.active_seat
<1>1. HandRuns(state) /\ i \in Seats /\ UNCHANGED <<commits, syncs, bank, bounds, minted>>
  BY GoingFacts, ReadyFacts, TimeoutFacts
<1>2. PICK missed \in 0 .. MAX_MISSED_ACTIONS, leaves \in BOOLEAN :
          Publish(CheckOrFold(Missed(i, missed, leaves), i))
  BY GoingFacts, ReadyFacts, TimeoutFacts
<1> DEFINE r == Missed(i, missed, leaves)
           s == CheckOrFold(r, i)
<1>3. Rested(state, r)
  BY <1>1, GoingFacts, MissedRested
<1>4. Publish(s)
  BY <1>2
<1> HIDE DEF i, r
<1>5. /\ r \in SharedState /\ r.due = <<>> /\ HandRuns(r) /\ TurnGood(r)
      /\ r.phase # "PostingBlinds"
  BY <1>1, <1>3, RestedTurn DEF HandRuns, ActionPhases
<1>6. Played(r, s) /\ Parted(s)
  BY <1>1, <1>5, CheckOrFoldPlayed, CheckOrFoldParts
<1> HIDE DEF s
<1> QED
  BY <1>1, <1>3, <1>4, <1>6, TurnShares

(* A seat that is cleared has nothing in the pot of a hand that runs.      *)
LEMMA LeaveTableShares ==
    ASSUME Going, NEW u \in Users, NEW i \in Seats, LeaveTable(u, i)
    PROVE  Shared
<1> DEFINE s == RemoveSeats(state, {i})
<1>1. Publish(s) /\ UNCHANGED <<commits, bank, minted>> /\ state.seat[i].user = u
      /\ MayLeave(i) /\ ~(HandRuns(state) /\ state.seat[i].cards > 0)
  BY DEF LeaveTable
<1>2. Cleared(state, s, {i})
  BY GoingFacts, RemoveSeatsCleared
<1>3. TurnGood(s)
  BY <1>1, GoingFacts, LeaveTableSection DEF SectionGood
<1> HIDE DEF s
<1>4. /\ s \in SharedState /\ s.phase = state.phase /\ s.due = <<>>
      /\ s.seat[i] = EmptySeat /\ \A j \in Seats \ {i} : s.seat[j] = state.seat[j]
  BY <1>2, GoingFacts DEF Cleared, SameTurn
<1>5. OneSeatEach(s) /\ s.phase # "PostingBlinds"
  BY <1>1, <1>4, GoingFacts DEF OneSeatEach, EmptySeat, MayLeave
<1>6. RoundActive(state) => SamePlaced(state, s)
  <2>1. RoundActive(state) => state.seat[i].committed = 0
    BY <1>1, GoingFacts, BetTypes DEF Staked, StakedSeat, RoundActive, MayLeave
  <2> QED
    BY <1>4, <2>1 DEF SamePlaced, EmptySeat
<1>7. SectionShares(s, commits)
  BY <1>3, <1>4, <1>5, <1>6, RestShares
<1>8. SectionShares(s, commits')
  BY <1>1, <1>7
<1> QED
  BY <1>1, <1>8, PublishShares

(* A commit that is asked for takes nothing yet.                           *)
LEMMA TakenAlike ==
    ASSUME NEW tasks, NEW c, c.pc # "taken", NEW u
    PROVE  /\ WayBy(tasks \cup {c}, u) = WayBy(tasks, u)
           /\ WayBy(tasks \ {c}, u) = WayBy(tasks, u)
<1>1. TakenBy(tasks \cup {c}, u) = TakenBy(tasks, u) /\ TakenBy(tasks \ {c}, u) = TakenBy(tasks, u)
  BY DEF TakenBy, TakenOf
<1> QED
  BY <1>1 DEF WayBy

LEMMA AskShares ==
    ASSUME Going, NEW u \in Users, NEW i \in Seats,
           Call(u, i) \/ AllIn(u, i) \/ \E size \in RaiseSizes : BetOrRaise(u, i, size)
    PROVE  Shared
<1> USE GoingFacts, ReadyFacts
<1>1. PICK target, raise : Asks(i, target, raise)
  BY CommitAsked
<1> DEFINE t == Commit(RecordManualAction(state, i), i, FreshId(commits), FALSE,
                       target - state.seat[i].street_bet, target, raise)
           c == CommitTask(t, i)
<1>2. /\ target \in Int /\ raise \in Nat /\ target > state.seat[i].street_bet
      /\ Publish(t) /\ commits' = commits \cup {c} /\ UNCHANGED <<bank, minted>>
      /\ HandRuns(state)
  BY <1>1 DEF Asks, CommitTo
<1>3. CommitMakes(t, i, target, raise)
  <2>1. target \in Int /\ raise \in Nat /\ target > state.seat[i].street_bet
    BY <1>2
  <2> QED
    BY <2>1, CommitToMakes, Zenon
<1> HIDE DEF t
<1>4. PICK r, p : /\ Rested(state, r) /\ CommitMade(r, t, i, p)
                  /\ c = NewTask(p.id, t.seat[i].user, i, p.amount)
  BY <1>3 DEF CommitMakes
<1> HIDE DEF c
<1>5. /\ t \in SharedState /\ t.phase = state.phase /\ t.due = <<>>
      /\ t.active_seat = state.active_seat
      /\ \A j \in Seats : /\ t.seat[j].user = state.seat[j].user
                          /\ t.seat[j].cards = state.seat[j].cards
                          /\ t.seat[j].folded = state.seat[j].folded
                          /\ t.seat[j].all_in = state.seat[j].all_in
                          /\ t.seat[j].committed = state.seat[j].committed
  BY <1>4 DEF CommitMade, SameTurn, SameButPending, Rested, SameHand
<1>6. t.phase # "PostingBlinds" /\ RoundActive(state) /\ OneSeatEach(t) /\ SamePlaced(state, t)
  BY <1>2, <1>5 DEF RoundActive, HandRuns, ActionPhases, OneSeatEach, SamePlaced
<1>7. TurnGood(t)
  <2>1. Active(t) = Active(state) /\ Actionable(t) = Actionable(state)
    BY <1>5, SamePlayers
  <2> QED
    BY <1>5, <2>1 DEF TurnGood, HandRuns
<1>8. \A x \in Users : WayBy(commits', x) = WayBy(commits, x)
  <2>1. c.pc # "taken"
    BY <1>4 DEF NewTask
  <2>2. ASSUME NEW x PROVE WayBy(commits \cup {c}, x) = WayBy(commits, x)
    BY ONLY <2>1, TakenAlike
  <2>3. commits' = commits \cup {c}
    BY <1>2
  <2> QED
    BY <2>2, <2>3
<1>9. SectionShares(t, commits')
  BY <1>5, <1>6, <1>7, <1>8, RestShares
<1> QED
  BY <1>2, <1>9, PublishShares

(* A commit that is taken: its chips move from their way into the pot.     *)
LEMMA TakenAway ==
    ASSUME NEW tasks, WayFinite(tasks), NEW c \in tasks, c.pc = "taken", NEW u
    PROVE  WayBy(tasks, u) = WayBy(tasks \ {c}, u) + IF c.user = u THEN c.amount ELSE 0
<1> DEFINE T == TakenBy(tasks, u)
           R == TakenBy(tasks \ {c}, u)
           f == [x \in T |-> x.amount]
           g == [x \in R |-> x.amount]
<1>1. IsFiniteSet(T) /\ \A x \in T : x.amount \in Nat
  BY TakenByType
<1>2. R = T \ {c} /\ (c \in T <=> c.user = u)
  BY DEF TakenBy, TakenOf
<1>3. WayBy(tasks, u) = SumFunctionOnSet(f, T) /\ WayBy(tasks \ {c}, u) = SumFunctionOnSet(g, R)
  BY DEF WayBy
<1>4. (\A x \in T : f[x] \in Int) /\ (\A x \in R : f[x] \in Int /\ g[x] = f[x])
  <2>1. ASSUME NEW x \in T PROVE f[x] = x.amount /\ f[x] \in Int
    BY <1>1
  <2>2. ASSUME NEW x \in R PROVE g[x] = x.amount /\ x \in T
    BY <1>2
  <2> QED
    BY <2>1, <2>2
<1>5. c \in T => f[c] = c.amount
  OBVIOUS
<1>6. WayBy(tasks, u) \in Nat
  BY TakenByType
<1> HIDE DEF T, R, f, g
<1>7. IsFiniteSet(R)
  BY <1>1, <1>2, FS_Subset
<1>8. SumFunctionOnSet(f, R) = SumFunctionOnSet(g, R)
  BY <1>4, <1>7, SumSame
<1>9. CASE c.user = u
  <2>1. c \in T
    BY <1>2, <1>9
  <2>2. SumFunctionOnSet(f, T) = f[c] + SumFunctionOnSet(f, T \ {c})
    BY <1>1, <1>4, <2>1, SumRemove
  <2>3. SumFunctionOnSet(f, R) \in Int
    BY <1>4, <1>7, SumInt
  <2>4. c.amount \in Nat
    BY <1>1, <2>1
  <2> QED
    BY <1>2, <1>3, <1>5, <1>8, <1>9, <2>1, <2>2, <2>3, <2>4
<1>10. CASE c.user # u
  <2>1. R = T
    BY <1>2, <1>10
  <2>2. WayBy(tasks, u) = WayBy(tasks \ {c}, u)
    BY <1>3, <1>8, <2>1
  <2> QED
    BY <1>6, <1>10, <2>2
<1> QED
  BY <1>9, <1>10

LEMMA BetShares ==
    ASSUME NEW s \in SharedState, OneSeatEach(s), NEW i \in Seats, s.seat[i].user \in Users,
           NEW p, NEW t, BetPlaced(s, t, i, p), NEW u \in Users
    PROVE  /\ PlacedBy(t, u) =
                  IF s.seat[i].user = u THEN PlacedBy(s, u) + p.amount ELSE PlacedBy(s, u)
           /\ OneSeatEach(t)
<1>1. /\ t \in SharedState /\ t.seat[i].committed = s.seat[i].committed + p.amount
      /\ \A j \in Seats : t.seat[j].user = s.seat[j].user
      /\ \A j \in Seats \ {i} : t.seat[j].committed = s.seat[j].committed
  BY DEF BetPlaced, PotSeat, OtherSeat
<1>2. OneSeatEach(t)
  BY <1>1 DEF OneSeatEach
<1>3. CASE s.seat[i].user = u
  <2>1. t.seat[i].user = u
    BY <1>1, <1>3
  <2>2. PlacedBy(s, u) = s.seat[i].committed
    BY <1>3, PlacedAt
  <2>3. PlacedBy(t, u) = t.seat[i].committed
    BY <1>1, <1>2, <2>1, PlacedAt
  <2> QED
    BY <1>1, <1>2, <1>3, <2>2, <2>3
<1>4. CASE s.seat[i].user # u
  <2>1. ASSUME NEW j \in Seats, s.seat[j].user = u PROVE PlacedBy(t, u) = PlacedBy(s, u)
    <3>1. j # i /\ t.seat[j].user = u
      BY <1>1, <1>4, <2>1
    <3>2. PlacedBy(s, u) = s.seat[j].committed
      BY <2>1, PlacedAt
    <3>3. PlacedBy(t, u) = t.seat[j].committed
      BY <1>1, <1>2, <3>1, PlacedAt
    <3> QED
      BY <1>1, <3>1, <3>2, <3>3
  <2>2. ASSUME \A j \in Seats : s.seat[j].user # u PROVE PlacedBy(t, u) = PlacedBy(s, u)
    <3>1. SeatsOf(s, u) = {} /\ SeatsOf(t, u) = {}
      BY <1>1, <2>2 DEF SeatsOf
    <3> QED
      BY <3>1, PlacedNowhere
  <2> QED
    BY <1>2, <1>4, <2>1, <2>2
<1> QED
  BY <1>3, <1>4

(* The bank took the chips of a commit, and the table now adds them to the *)
(* pot: what was on its way is placed, by the same user.                   *)
LEMMA SuccessShares ==
    ASSUME Going, NEW c \in commits, ApplyCommitSuccess(c)
    PROVE  Shared
<1> DEFINE i == c.seat
           p == state.seat[i].pending
           t == InPot(state, i)
           s == IF state.phase = "PostingBlinds" THEN BlindAnswered(t)
                ELSE AdvanceAfterAction(t, i)
           tasks == commits \ {c}
<1> USE GoingFacts
<1>1. /\ i \in Seats /\ c.amount \in Nat \ {0} /\ p.amount = c.amount /\ p # NoCommit
      /\ state.seat[i].cards > 0 /\ state.seat[i].user # NoUser /\ RoundActive(state)
  BY LandsFacts
<1>2. Publish(s) /\ c.pc = "taken" /\ commits' = tasks /\ UNCHANGED <<bank, minted>>
  BY DEF ApplyCommitSuccess
<1>3. BetPlaced(state, t, i, p)
  BY <1>1, InPotFields
<1>4. state.seat[i].user = c.user /\ c.user \in Users /\ Matches(state, c)
  BY ReadyFacts, LandsFacts DEF Lands, CommitType
<1>5. TurnGood(s) /\ s \in SharedState
  BY <1>4, SuccessSection DEF SectionGood
<1> HIDE DEF t
<1>6. /\ t \in SharedState /\ t.phase = state.phase /\ t.due = <<>> /\ OneSeatEach(t)
      /\ t.active_seat = state.active_seat
      /\ \A j \in Seats : /\ t.seat[j].user = state.seat[j].user
                          /\ t.seat[j].cards = state.seat[j].cards
                          /\ t.seat[j].folded = state.seat[j].folded
      /\ \A j \in Seats \ {i} : /\ t.seat[j].pending = state.seat[j].pending
                                /\ t.seat[j].committed = state.seat[j].committed
      /\ t.seat[i].pending = NoCommit
  <2>1. OneSeatEach(t)
    BY <1>1, <1>3, <1>4, BetShares
  <2> QED
    BY <1>3, <2>1 DEF BetPlaced, SameSpot, PotSeat, OtherSeat
<1>7. Staked(t) /\ RoundActive(t)
  BY <1>1, <1>6 DEF Staked, StakedSeat, RoundActive, HandRuns
<1>8. ASSUME NEW u \in Users PROVE PlacedBy(t, u) + WayBy(tasks, u) = StakeBy(state, commits, u)
  <2>1. PlacedBy(t, u) =
            IF c.user = u THEN PlacedBy(state, u) + c.amount ELSE PlacedBy(state, u)
    BY <1>1, <1>3, <1>4, BetShares
  <2>2. WayBy(commits, u) = WayBy(tasks, u) + IF c.user = u THEN c.amount ELSE 0
    <3>1. WayFinite(commits) /\ c.pc = "taken"
      BY <1>2, ReadyFacts
    <3> QED
      BY <3>1, TakenAway
  <2>3. WayFinite(tasks)
    BY LandsFacts
  <2>4. WayBy(tasks, u) \in Nat /\ PlacedBy(state, u) \in Nat /\ c.amount \in Nat
    BY <1>1, <2>3, TakenByType, PlacedType
  <2>5. StakeBy(state, commits, u) = PlacedBy(state, u) + WayBy(commits, u)
    BY <1>1 DEF StakeBy
  <2> HIDE DEF tasks
  <2> QED
    BY <2>1, <2>2, <2>4, <2>5
<1> HIDE DEF p, tasks
<1>9. Parted(s) /\ SameBetsBy(t, s) /\ (s.phase = "PostingBlinds" =>
                      state.phase = "PostingBlinds" /\ \A j \in Seats : s.seat[j] = t.seat[j])
  <2>1. CASE state.phase = "PostingBlinds"
    <3>1. s = BlindAnswered(t) /\ t.phase = "PostingBlinds"
      BY <1>6, <2>1
    <3>2. ASSUME NEW j \in Seats PROVE BlindSeat(t.seat[j])
      <4>1. BlindSeat(state.seat[j])
        BY <2>1
      <4> QED
        BY <1>1, <1>6, <4>1 DEF BlindSeat, p
    <3> HIDE DEF s
    <3>3. s \in SharedState /\ \A j \in Seats : s.seat[j] = t.seat[j]
      BY <1>6, <3>1, BlindAnsweredSeats
    <3>4. Parted(s)
      BY <1>6, <1>7, <3>1, <3>2, BlindAnsweredParts
    <3> QED
      BY <2>1, <3>3, <3>4 DEF SameBetsBy
  <2>2. CASE state.phase # "PostingBlinds"
    <3>1. s = AdvanceAfterAction(t, i) /\ t.phase # "PostingBlinds"
      BY <1>6, <2>2
    <3> HIDE DEF s
    <3>2. Moves(t, s)
      BY <1>1, <1>6, <3>1, AdvanceMoves
    <3>3. s.phase # "PostingBlinds"
      BY <3>1, <3>2 DEF Moves, PhaseMoves, HandRuns, ActionPhases
    <3>4. Active(t) # {}
      <4>1. Active(t) = Active(state)
        BY <1>6 DEF Active, Occupied
      <4>2. HandRuns(state)
        BY <1>1, <2>2 DEF RoundActive
      <4>3. state.active_seat \in Active(state)
        BY <4>2 DEF TurnGood, Actionable
      <4> QED
        BY <4>1, <4>3
    <3>5. Parted(s)
      BY <1>1, <1>6, <1>7, <3>1, <3>4, AdvanceParts
    <3>6. SameBetsBy(t, s)
      BY <3>2 DEF Moves, MovedSeat, SameBetsBy
    <3> QED
      BY <3>3, <3>5, <3>6
  <2> QED
    BY <2>1, <2>2
<1> HIDE DEF s
<1>10. Seating(s)
  <2>1. OneSeatEach(s)
    BY <1>6, <1>9 DEF OneSeatEach, SameBetsBy
  <2>2. ASSUME s.phase = "PostingBlinds", NEW j \in Seats PROVE BlindSeat(s.seat[j])
    <3>1. BlindSeat(state.seat[j]) /\ s.seat[j] = t.seat[j]
      BY <1>9, <2>2
    <3> QED
      BY <1>1, <1>6, <3>1 DEF BlindSeat, p
  <2> QED
    BY <2>1, <2>2 DEF Seating
<1>11. \A u \in Users : PlacedBy(s, u) = PlacedBy(t, u)
  <2>1. SamePlaced(t, s)
    BY <1>9 DEF SamePlaced, SameBetsBy
  <2> QED
    BY <2>1, PlacedSame
<1>12. SectionShares(s, commits')
  BY <1>1, <1>2, <1>5, <1>8, <1>9, <1>10, <1>11 DEF SectionShares
<1> QED
  BY <1>2, <1>12, PublishShares

(* A commit that is refused brings nothing.                                *)
LEMMA FailureShares ==
    ASSUME Going, NEW c \in commits, ApplyCommitFailure(c)
    PROVE  Shared
<1> DEFINE i == c.seat
           t == [state EXCEPT !.seat[i].pending = NoCommit]
           v == [t EXCEPT !.seat[i].folded = TRUE]
           s == IF state.phase = "PostingBlinds" THEN BlindAnswered(v) ELSE t
           tasks == commits \ {c}
<1> USE GoingFacts
<1>1. /\ i \in Seats /\ RoundActive(state) /\ Matches(state, c)
      /\ state.seat[i].pending # NoCommit
  BY LandsFacts
<1>2. Publish(s) /\ c.pc = "refused" /\ commits' = tasks /\ UNCHANGED <<bank, minted>>
  BY DEF ApplyCommitFailure
<1>3. TurnGood(s) /\ s \in SharedState
  BY <1>1, FailureSection DEF SectionGood
<1>4. /\ t \in SharedState /\ SameTurn(state, t) /\ t.seat[i].folded = state.seat[i].folded
      /\ t.seat[i].pending = NoCommit /\ Unanswered(state.seat[i], t.seat[i])
      /\ \A j \in Seats \ {i} : t.seat[j] = state.seat[j]
  BY <1>1, PendingCleared
<1> HIDE DEF t, i
<1>5. /\ v \in SharedState /\ SameTurn(t, v)
      /\ v.seat[i].pending = t.seat[i].pending /\ Unanswered(t.seat[i], v.seat[i])
      /\ \A j \in Seats \ {i} : v.seat[j] = t.seat[j]
  BY <1>1, <1>4, SeatFolded
<1> HIDE DEF v
<1>6. SameBetsBy(state, t) /\ t.phase = state.phase /\ t.due = <<>>
  BY <1>4 DEF SameBetsBy, Unanswered, SameTurn
<1>7. SameBetsBy(state, v) /\ v.phase = state.phase /\ v.due = <<>>
  BY <1>4, <1>5 DEF SameBetsBy, Unanswered, SameTurn
<1>8. \A u \in Users : WayBy(tasks, u) = WayBy(commits, u)
  <2>1. c.pc # "taken"
    BY <1>2
  <2> QED
    BY <2>1, TakenAlike
<1> HIDE DEF tasks
<1>9. CASE state.phase # "PostingBlinds"
  <2>1. s = t
    BY <1>9
  <2>2. OneSeatEach(t) /\ SamePlaced(state, t)
    BY <1>6 DEF SameBetsBy, OneSeatEach, SamePlaced
  <2> HIDE DEF s
  <2>3. SectionShares(s, tasks)
    BY <1>1, <1>3, <1>6, <1>8, <1>9, <2>1, <2>2, RestShares
  <2>4. SectionShares(s, commits')
    BY <1>2, <2>3
  <2> QED
    BY <1>2, <2>4, PublishShares
<1>10. CASE state.phase = "PostingBlinds"
  <2>1. s = BlindAnswered(v) /\ v.phase = "PostingBlinds"
    BY <1>7, <1>10
  <2>2. ASSUME NEW j \in Seats PROVE BlindSeat(v.seat[j])
    <3>1. BlindSeat(state.seat[j])
      BY <1>10
    <3>2. CASE j # i
      <4>1. v.seat[j] = state.seat[j]
        BY <1>4, <1>5, <3>2
      <4> QED
        BY <3>1, <4>1
    <3>3. CASE j = i
      <4>1. v.seat[i].committed = 0 /\ v.seat[i].pending = NoCommit
        BY <1>1, <1>4, <1>5, <1>7, <3>1, <3>3 DEF BlindSeat, SameBetsBy
      <4> QED
        BY <3>3, <4>1 DEF BlindSeat
    <3> QED
      BY <3>2, <3>3
  <2> HIDE DEF s
  <2>3. s \in SharedState /\ \A j \in Seats : s.seat[j] = v.seat[j]
    BY <1>5, <2>1, BlindAnsweredSeats
  <2>4. Staked(v)
    <3>1. SameStakes(state, v)
      BY <1>4, <1>5 DEF SameStakes, Unanswered
    <3> QED
      BY <3>1, StakesStay
  <2>5. Parted(s)
    BY <1>5, <1>7, <2>1, <2>2, <2>4, BlindAnsweredParts
  <2>6. SamePlaced(state, s) /\ OneSeatEach(s)
    BY <1>7, <2>3 DEF SamePlaced, SameBetsBy, OneSeatEach
  <2>7. Seating(s)
    BY <2>2, <2>3, <2>6 DEF Seating
  <2>8. \A u \in Users : PlacedBy(s, u) + WayBy(tasks, u) = StakeBy(state, commits, u)
    BY <1>1, <1>8, <2>6, PlacedSame DEF StakeBy
  <2>9. SectionShares(s, commits')
    BY <1>1, <1>2, <1>3, <2>5, <2>7, <2>8 DEF SectionShares
  <2> QED
    BY <1>2, <2>9, PublishShares
<1> QED
  BY <1>9, <1>10

(***************************************************************************)
(* What a step can make of the stakes, of the accounts and of what is owed.*)
(***************************************************************************)
AccountMoves(u) == bank'[u] <= bank[u] /\ bank' = [bank EXCEPT ![u] = bank'[u]]

ChipsStaked(u) ==
    /\ AccountMoves(u) /\ bank'[u] < bank[u]
    /\ StakeBy(state', commits', u) = StakeBy(state, commits, u) + bank[u] - bank'[u]
    /\ \A v \in Users \ {u} : SameStakeOf(v)
    /\ \A v \in Users : SameOwedTo(v)

ChipsWritten(u) ==
    LET paid == OwedSum(settling, u) - OwedSum(settling', u)
    IN  /\ CountSum(settling, u) > 0
        /\ CountSum(settling', u) = CountSum(settling, u) - 1
        /\ paid >= 0
        /\ bank' = IF paid = 0 THEN RestoreFloor(bank, u) ELSE AddBonus(bank, u, paid)
        /\ \A v \in Users : SameStakeOf(v)
        /\ \A v \in Users \ {u} : SameOwedTo(v)

ChipsLost(u) ==
    /\ AccountMoves(u)
    /\ OwedSum(settling', u) <= OwedSum(settling, u)
    /\ CountSum(settling', u) \in {CountSum(settling, u), CountSum(settling, u) - 1}
    /\ \A v \in Users : SameStakeOf(v)
    /\ \A v \in Users \ {u} : SameOwedTo(v)

Divided ==
    /\ Seating(state')
    /\ \/ ChipsStill \/ PotDivided
       \/ \E u \in Users : ChipsStaked(u) \/ ChipsWritten(u) \/ ChipsLost(u)

(* Sections that publish no end of a hand.                                 *)
LEMMA StillShares ==
    ASSUME Going, OneSeatEach(state'), state'.phase = state.phase,
           state'.phase = "PostingBlinds" => \A i \in Seats : BlindSeat(state'.seat[i]),
           RoundActive(state) => SamePlaced(state, state'),
           UNCHANGED <<commits, settling, bank>>
    PROVE  Shared
<1>1. Seating(state') /\ (RoundActive(state') <=> RoundActive(state))
  BY DEF Seating, RoundActive, HandRuns
<1>2. ASSUME NEW u \in Users PROVE SameStakeOf(u)
  <2>1. RoundActive(state) => PlacedBy(state', u) = PlacedBy(state, u)
    BY PlacedSame
  <2> QED
    BY <1>1, <2>1 DEF SameStakeOf, StakeBy
<1> QED
  BY <1>1, <1>2 DEF Shared, ChipsStill, SameOwedTo

LEMMA QuietTableShares ==
    ASSUME Going, Quiet(state, state'), UNCHANGED <<commits, settling, bank>>
    PROVE  Shared
BY QuietSeating, StillShares

LEMMA DeadlineShares ==
    ASSUME Going, DeadlinePasses
    PROVE  Shared
<1>1. state' = [state EXCEPT !.deadline = "due"] /\ UNCHANGED <<commits, settling, bank>>
  BY DEF DeadlinePasses, OnlyState
<1>2. state'.phase = state.phase /\ state'.seat = state.seat
  BY <1>1, GoingFacts DEF SharedState
<1>3. OneSeatEach(state') /\ SamePlaced(state, state')
  BY <1>2, GoingFacts DEF OneSeatEach, SamePlaced
<1>4. state'.phase = "PostingBlinds" => \A i \in Seats : BlindSeat(state'.seat[i])
  BY <1>2, GoingFacts
<1> QED
  BY <1>1, <1>2, <1>3, <1>4, StillShares

(* Who sits down has no other seat, and nothing in the pot.                *)
LEMMA SitShares ==
    ASSUME Going, NEW u \in Users, Sit(u)
    PROVE  Shared
<1> USE GoingFacts
<1>1. PICK i \in Seats : state.seat[i].user = NoUser
                         /\ SeatChanged(state, state', i, Seated(u))
  BY SitFacts
<1>2. UNCHANGED <<commits, settling, bank>> /\ SeatsOf(state, u) = {}
  BY SitFacts DEF OnlyState, Sit
<1>3. /\ state'.phase = state.phase /\ state'.seat[i] = Seated(u)
      /\ \A j \in Seats \ {i} : state'.seat[j] = state.seat[j]
  BY <1>1 DEF SeatChanged, SameTurn
<1>4. /\ Seated(u).user = u /\ Seated(u).committed = 0 /\ Seated(u).pending = NoCommit
  BY DEF Seated, EmptySeat
<1>5. \A j \in Seats : state.seat[j].user # u
  BY <1>2 DEF SeatsOf
<1>6. OneSeatEach(state')
  BY <1>3, <1>4, <1>5 DEF OneSeatEach
<1>7. state.seat[i].committed = 0
  BY <1>1, BetTypes DEF Staked, StakedSeat
<1>8. SamePlaced(state, state')
  BY <1>3, <1>4, <1>7 DEF SamePlaced
<1>9. state'.phase = "PostingBlinds" => \A j \in Seats : BlindSeat(state'.seat[j])
  BY <1>3, <1>4 DEF BlindSeat
<1> QED
  BY <1>2, <1>3, <1>6, <1>8, <1>9, StillShares

(* A settlement is reported when nothing of it is left to write.           *)
LEMMA ReportShares ==
    ASSUME Going, NEW task \in settling, CompleteSettlements(task) \/ SettlementFailed(task)
    PROVE  Shared
<1> USE GoingFacts
<1>1. task.todo = <<>> /\ settling' = settling \ {task} /\ UNCHANGED <<commits, bank>>
  BY DEF CompleteSettlements, SettlementFailed
<1>2. settling = {task} /\ task.todo \in Seq(Settlement) /\ ~RoundActive(state)
  BY OnlyTask
<1>3. ASSUME NEW u \in Users PROVE SameOwedTo(u)
  <2>1. PartOf(<<>>, u) = {}
    BY DEF PartOf
  <2>2. CreditTo(<<>>, u) = 0 /\ Cardinality(PartOf(<<>>, u)) = 0
    BY <2>1, SumEmpty, FS_EmptySet DEF CreditTo
  <2>3. OwedSum({task}, u) = 0 /\ CountSum({task}, u) = 0
    BY <1>1, <1>2, <2>2, OwedSumOne
  <2>4. settling' = {}
    BY <1>1, <1>2
  <2> QED
    BY <1>2, <2>3, <2>4, OwedSumNone DEF SameOwedTo
<1>4. OneSeatEach(state') /\ state'.phase = state.phase
  <2>1. CASE CompleteSettlements(task)
    <3>1. PICK t, gone, v : /\ Quiet(state, t) /\ Cleared(t, v, gone)
                            /\ SettledFields(v, state')
      BY <2>1, ReadyFacts, CompleteFacts
    <3>2. OneSeatEach(t) /\ t.phase = state.phase
      BY <3>1, QuietSeating
    <3>3. OneSeatEach(v) /\ v.phase = state.phase
      BY <3>1, <3>2 DEF Cleared, SameTurn, OneSeatEach, EmptySeat
    <3> QED
      BY <3>1, <3>3 DEF SettledFields, OneSeatEach
  <2>2. CASE SettlementFailed(task)
    <3>1. SettledFields(state, state')
      BY <2>2, SettledTableFields DEF SettlementFailed, SettledTable
    <3> QED
      BY <3>1 DEF SettledFields, OneSeatEach
  <2> QED
    BY <2>1, <2>2
<1>5. ~RoundActive(state') /\ Seating(state')
  BY <1>2, <1>4 DEF RoundActive, HandRuns, Seating
<1>6. \A u \in Users : SameStakeOf(u)
  BY <1>1, <1>2, <1>5 DEF SameStakeOf, StakeBy
<1> QED
  BY <1>1, <1>3, <1>5, <1>6 DEF Shared, ChipsStill

(* A hand is dealt on an empty pot.                                        *)
LEMMA StartShares ==
    ASSUME Going, NEW u \in Users, StartHand(u)
    PROVE  Shared
<1> USE GoingFacts
<1>1. MayStart(u) /\ UNCHANGED <<settling, bank>>
  BY StartHandFacts
<1>2. PICK s : Cleared(state, s, LeavingSeats(state)) /\ Start(s, u)
  BY StartHandFacts
<1>3. ~RoundActive(state) /\ commits = {}
  BY <1>1, ReadyFacts, StartReady
<1>4. s \in SharedState /\ s.phase = state.phase /\ OneSeatEach(s)
  BY <1>2 DEF Cleared, SameTurn, OneSeatEach, EmptySeat
<1>5. CASE /\ Cardinality(Playable(s)) < 2 /\ state' = RecordActivity(s, u)
           /\ UNCHANGED <<commits, bounds>>
  <2>1. Quiet(s, state')
    BY <1>4, <1>5, RecordedQuiet
  <2>2. OneSeatEach(state') /\ state'.phase = state.phase
    BY <1>4, <2>1 DEF Quiet, SameTurn, SameHand, OneSeatEach
  <2>3. state'.phase # "PostingBlinds"
    BY <1>3, <2>2 DEF RoundActive
  <2> QED
    BY <1>1, <1>3, <1>5, <2>2, <2>3, StillShares
<1>6. CASE /\ Cardinality(Playable(s)) >= 2 /\ bounds.hands > 0 /\ Spend("hands")
           /\ DealHand(s, u)
  <2>1. bounds \in Instance /\ IsFiniteSet(commits)
    BY ReadyFacts, InvTypes
  <2>2. PICK a, b \in Seats, small, big, id1, id2 \in Nat \ {0} :
              /\ a # b /\ id1 # id2 /\ \A c \in commits : c.id # id1 /\ c.id # id2
              /\ s.seat[a].user \in Users /\ s.seat[b].user \in Users
              /\ HandDealt(s, state', a, b, BlindCommit(id1, small), BlindCommit(id2, big))
              /\ commits' = commits \cup {NewTask(id1, s.seat[a].user, a, small),
                                          NewTask(id2, s.seat[b].user, b, big)}
    BY <1>4, <1>6, <2>1, DealHandFacts
  <2>3. \A i \in Seats : /\ state'.seat[i].user = s.seat[i].user /\ ~state'.seat[i].folded
                         /\ state'.seat[i].committed = 0
    BY <2>2 DEF HandDealt, DealtSeat
  <2>4. Seating(state')
    BY <1>4, <2>3 DEF Seating, OneSeatEach, BlindSeat
  <2>5. TakenOf(commits') = {}
    BY <1>3, <2>2 DEF TakenOf, NewTask
  <2>6. ASSUME NEW x \in Users PROVE SameStakeOf(x)
    <3>1. TakenBy(commits', x) = {}
      BY <2>5 DEF TakenBy
    <3>2. OwingOf(state', x) = {}
      <4>1. \A i \in Occupied(state') : ~(state'.seat[i].committed > 0)
        BY <2>3 DEF Occupied
      <4> QED
        BY <4>1 DEF OwingOf, Owing
    <3>3. WayBy(commits', x) = 0 /\ PlacedBy(state', x) = 0
      BY <3>1, <3>2, SumEmpty DEF WayBy, PlacedBy
    <3>4. WayBy(commits, x) = 0
      BY <1>3, NothingTaken
    <3> QED
      BY <1>3, <3>3, <3>4 DEF SameStakeOf, StakeBy
  <2> QED
    BY <1>1, <2>4, <2>6 DEF Shared, ChipsStill, SameOwedTo
<1> QED
  BY <1>2, <1>5, <1>6 DEF Start

LEMMA OwedTyped ==
    ASSUME Ready, NEW u \in Users
    PROVE  OwedSum(settling, u) \in Nat /\ CountSum(settling, u) \in Nat
<1>1. CASE settling = {}
  BY <1>1, OwedSumNone
<1>2. ASSUME NEW task \in settling
      PROVE  OwedSum(settling, u) \in Nat /\ CountSum(settling, u) \in Nat
  <2>1. settling = {task} /\ task.todo \in Seq(Settlement)
    BY OnlyTask
  <2> QED
    BY <2>1, OwedSumOne, PartFacts
<1> QED
  BY <1>1, <1>2

(* The bank takes the chips of a commit, or refuses it.                    *)
LEMMA DebitShares ==
    ASSUME Going, NEW c \in commits, DebitBet(c)
    PROVE  Divided
<1> DEFINE u == c.user
           n == c.amount
           d == [c EXCEPT !.pc = "taken"]
           e == [c EXCEPT !.pc = "refused"]
           others == commits \ {c}
<1> USE GoingFacts
<1>1. /\ c \in CommitType /\ u \in Users /\ n \in Nat \ {0} /\ c.pc = "debiting"
      /\ bank \in [Users -> Nat] /\ WayFinite(others) /\ \A x \in commits : x.id = c.id => x = c
  BY ReadyFacts, LandsFacts DEF CommitType, DebitBet
<1>2. UNCHANGED <<state, settling>> /\ Seating(state')
  BY DEF DebitBet, Going
<1>3. \/ Answered(c, "taken") /\ bank' = Deduct(bank, u, n)
      \/ Answered(c, "refused") /\ bank' = bank
      \/ Answered(c, "refused") /\ bank' = Deduct(bank, u, n)
  BY DEF DebitBet
<1>4. /\ d \in CommitType /\ d.id = c.id /\ d.pc = "taken" /\ d.amount = n /\ d.user = u
      /\ e.pc = "refused"
  BY <1>1 DEF CommitType
<1>5. /\ Answered(c, "taken") => commits' = others \cup {d}
      /\ Answered(c, "refused") => commits' = others \cup {e}
  BY DEF Answered
<1>6. \A v \in Users : WayBy(others, v) = WayBy(commits, v) /\ WayBy(commits, v) \in Nat
  BY <1>1, ReadyFacts, StakesTyped, TakenAlike
<1>7. bank' = Deduct(bank, u, n) => AccountMoves(u) /\ bank'[u] < bank[u] /\ bank'[u] = bank[u] - n
  <2> SUFFICES ASSUME bank' = Deduct(bank, u, n)
               PROVE  AccountMoves(u) /\ bank'[u] < bank[u] /\ bank'[u] = bank[u] - n
    OBVIOUS
  <2>1. bank' = [bank EXCEPT ![u] = bank[u] - n] /\ bank[u] \in Nat
    BY <1>1 DEF Deduct
  <2>2. bank'[u] = bank[u] - n
    BY <1>1, <2>1
  <2>3. bank' = [bank EXCEPT ![u] = bank'[u]]
    BY <2>1, <2>2
  <2> QED
    BY <1>1, <2>1, <2>2, <2>3 DEF AccountMoves
<1>8. \A v \in Users : SameOwedTo(v)
  BY <1>2 DEF SameOwedTo
<1>9. \A v \in Users : SameStakeOf(v) <=>
          (IF RoundActive(state) THEN PlacedBy(state, v) ELSE 0) + WayBy(commits', v)
          = (IF RoundActive(state) THEN PlacedBy(state, v) ELSE 0) + WayBy(commits, v)
  BY <1>2 DEF SameStakeOf, StakeBy
<1> HIDE DEF d, e
<1>10. d \notin others
  BY <1>1, <1>4
<1> HIDE DEF others
<1>11. CASE Answered(c, "refused")
  <2>1. \A v \in Users : WayBy(commits', v) = WayBy(commits, v)
    <3>1. commits' = others \cup {e} /\ e.pc # "taken"
      BY <1>4, <1>5, <1>11
    <3>2. \A v : WayBy(others \cup {e}, v) = WayBy(others, v)
      BY <3>1, TakenAlike
    <3> QED
      BY <1>6, <3>1, <3>2
  <2>2. \A v \in Users : SameStakeOf(v)
    BY <1>9, <2>1
  <2>3. CASE bank' = bank
    BY <1>2, <1>8, <2>2, <2>3 DEF Divided, ChipsStill
  <2>4. CASE bank' = Deduct(bank, u, n)
    <3>1. OwedSum(settling, u) \in Nat
      BY <1>1, OwedTyped
    <3> QED
      BY <1>1, <1>2, <1>7, <1>8, <2>2, <2>4, <3>1 DEF Divided, ChipsLost, SameOwedTo
  <2> QED
    BY <1>3, <2>3, <2>4
<1>12. CASE Answered(c, "taken") /\ bank' = Deduct(bank, u, n)
  <2>1. commits' = others \cup {d} /\ commits' \ {d} = others /\ d \in commits'
    BY <1>5, <1>10, <1>12
  <2>2. WayFinite(commits')
    BY <1>1, <1>4, <1>10, <2>1, WayAdded
  <2>3. \A v \in Users : WayBy(commits', v) = WayBy(commits, v) + IF u = v THEN n ELSE 0
    <3>1. \A v \in Users :
              WayBy(commits', v) = WayBy(commits' \ {d}, v) + IF d.user = v THEN d.amount ELSE 0
      BY <1>4, <2>1, <2>2, TakenAway
    <3> QED
      BY <1>4, <1>6, <2>1, <3>1
  <2>4. ASSUME NEW v \in Users \ {u} PROVE SameStakeOf(v)
    <3>1. WayBy(commits', v) = WayBy(commits, v)
      BY <1>6, <2>3
    <3> QED
      BY <1>9, <3>1
  <2>5. StakeBy(state', commits', u) = StakeBy(state, commits, u) + bank[u] - bank'[u]
    <3>1. StakeBy(state', commits', u) = StakeBy(state, commits, u) + n
      <4>1. PlacedBy(state, u) \in Nat /\ WayBy(commits, u) \in Nat
        BY <1>1, StakesTyped
      <4>2. WayBy(commits', u) = WayBy(commits, u) + n
        BY <1>1, <2>3
      <4>3. PlacedBy(state', u) = PlacedBy(state, u) /\ (RoundActive(state') <=> RoundActive(state))
        BY <1>2
      <4> QED
        BY <1>1, <4>1, <4>2, <4>3 DEF StakeBy
    <3>2. StakeBy(state, commits, u) \in Nat /\ bank[u] \in Nat
      BY <1>1, StakesTyped
    <3> QED
      BY <1>1, <1>7, <1>12, <3>1, <3>2
  <2> QED
    BY <1>1, <1>2, <1>7, <1>8, <1>12, <2>4, <2>5 DEF Divided, ChipsStaked
<1> QED
  BY <1>3, <1>11, <1>12

(* One settlement is written, or lost with the statement that failed.      *)
LEMMA PersistShares ==
    ASSUME Going, NEW task \in settling, PersistSettlement(task)
    PROVE  Divided
<1> DEFINE q == task.todo
           x == Head(q)
           u == x.user
           c == x.credit
           r == Tail(q)
           rest == [task EXCEPT !.todo = Tail(@)]
           paid == IF x.credit = 0 THEN RestoreFloor(bank, x.user)
                   ELSE AddBonus(bank, x.user, x.credit)
           done == [rest EXCEPT !.done = @ \cup {x}]
           failed == [rest EXCEPT !.failed = TRUE]
<1> USE GoingFacts
<1>1. /\ settling = {task} /\ task \in TaskType /\ q \in Seq(Settlement)
  BY OnlyTask
<1>2. /\ q # <<>> /\ UNCHANGED <<state, commits>>
      /\ \/ bank' = paid /\ Becomes(task, done)
         \/ bank' = bank /\ Becomes(task, failed)
  BY DEF PersistSettlement
<1>3. u \in Users /\ c \in Nat /\ r \in Seq(Settlement)
  <2>1. x \in Settlement /\ r \in Seq(Settlement)
    BY <1>1, <1>2
  <2> QED
    BY <2>1 DEF Settlement
<1>4. done.todo = r /\ failed.todo = r
  BY <1>1 DEF TaskType
<1>5. Seating(state') /\ bank \in [Users -> Nat]
  BY <1>2, ReadyFacts DEF Going
<1>6. \A v \in Users : SameStakeOf(v)
  BY <1>2 DEF SameStakeOf
<1>7. bank' = paid => bank' = IF c = 0 THEN RestoreFloor(bank, u) ELSE AddBonus(bank, u, c)
  OBVIOUS
<1> HIDE DEF done, failed, paid
<1>8. PICK new : settling' = {new} /\ new.todo = r
  BY <1>1, <1>2, <1>4 DEF Becomes
<1>9. ASSUME NEW v \in Users
      PROVE  /\ OwedSum(settling, v) = (IF u = v THEN c ELSE 0) + OwedSum(settling', v)
             /\ CountSum(settling, v) = (IF u = v THEN 1 ELSE 0) + CountSum(settling', v)
             /\ OwedSum(settling', v) \in Nat /\ CountSum(settling', v) \in Nat
  <2>1. /\ OwedSum(settling, v) = CreditTo(q, v)
        /\ CountSum(settling, v) = Cardinality(PartOf(q, v))
    BY <1>1, OwedSumOne
  <2>2. /\ OwedSum(settling', v) = CreditTo(r, v)
        /\ CountSum(settling', v) = Cardinality(PartOf(r, v))
    BY <1>3, <1>8, OwedSumOne
  <2>3. CreditTo(r, v) \in Nat /\ Cardinality(PartOf(r, v)) \in Nat
    BY <1>3, PartFacts
  <2>4. /\ CreditTo(q, v) = (IF u = v THEN c ELSE 0) + CreditTo(r, v)
        /\ Cardinality(PartOf(q, v)) = (IF u = v THEN 1 ELSE 0) + Cardinality(PartOf(r, v))
    BY <1>1, <1>2, PartNext
  <2> QED
    BY <2>1, <2>2, <2>3, <2>4
<1> HIDE DEF q, x, u, c, r
<1>10. ASSUME NEW v \in Users \ {u} PROVE SameOwedTo(v)
  <2>1. /\ OwedSum(settling, v) = 0 + OwedSum(settling', v)
        /\ CountSum(settling, v) = 0 + CountSum(settling', v)
        /\ OwedSum(settling', v) \in Nat /\ CountSum(settling', v) \in Nat
    BY <1>9
  <2> QED
    BY <2>1 DEF SameOwedTo
<1>11. /\ OwedSum(settling, u) = c + OwedSum(settling', u)
       /\ CountSum(settling, u) = 1 + CountSum(settling', u)
       /\ OwedSum(settling', u) \in Nat /\ CountSum(settling', u) \in Nat
  BY <1>3, <1>9
<1>12. CASE bank' = paid
  <2>1. OwedSum(settling, u) - OwedSum(settling', u) = c
    BY <1>3, <1>11
  <2>2. CountSum(settling, u) > 0 /\ CountSum(settling', u) = CountSum(settling, u) - 1
    BY <1>11
  <2>3. ChipsWritten(u)
    BY <1>3, <1>6, <1>7, <1>10, <1>12, <2>1, <2>2 DEF ChipsWritten
  <2> QED
    BY <1>3, <1>5, <2>3 DEF Divided
<1>13. CASE bank' = bank
  <2>1. AccountMoves(u)
    BY <1>3, <1>5, <1>13 DEF AccountMoves
  <2>2. /\ OwedSum(settling', u) <= OwedSum(settling, u)
        /\ CountSum(settling', u) = CountSum(settling, u) - 1
    BY <1>3, <1>11
  <2>3. ChipsLost(u)
    BY <1>6, <1>10, <2>1, <2>2 DEF ChipsLost
  <2> QED
    BY <1>3, <1>5, <2>3 DEF Divided
<1> QED
  BY <1>2, <1>12, <1>13

(* Chips that are spent elsewhere are no longer the table's to count.      *)
LEMMA SpendShares ==
    ASSUME Going, NEW u \in Users, SpendElsewhere(u)
    PROVE  Divided
<1>1. bank' = [bank EXCEPT ![u] = bank[u] - 1] /\ UNCHANGED <<state, commits, settling>>
  BY DEF SpendElsewhere, Deduct
<1>2. bank \in [Users -> Nat] /\ Ready
  BY GoingFacts, ReadyFacts
<1>3. AccountMoves(u)
  <2>1. bank[u] \in Nat /\ bank'[u] = bank[u] - 1
    BY <1>1, <1>2
  <2>2. bank'[u] <= bank[u]
    BY <2>1
  <2>3. bank' = [bank EXCEPT ![u] = bank'[u]]
    <3>1. bank[u] - 1 = bank'[u]
      BY <2>1
    <3> QED
      BY <1>1, <3>1, Zenon
  <2> QED
    BY <2>2, <2>3 DEF AccountMoves
<1>4. \A v \in Users : SameStakeOf(v) /\ SameOwedTo(v)
  BY <1>1 DEF SameStakeOf, SameOwedTo
<1>5. /\ OwedSum(settling', u) <= OwedSum(settling, u)
      /\ CountSum(settling', u) = CountSum(settling, u)
  BY <1>1, <1>2, OwedTyped
<1>6. Seating(state')
  BY <1>1 DEF Going
<1> QED
  BY <1>3, <1>4, <1>5, <1>6 DEF Divided, ChipsLost

(* Every step of the table has one of the four outcomes.                   *)
LEMMA StepDivides ==
    ASSUME Going, [Next]_vars
    PROVE  Divided
<1> USE GoingFacts
<1>1. Shared => Divided
  BY DEF Shared, Divided
<1>2. ASSUME NEW u \in Users, NEW i \in Seats
      PROVE  ~LeaveDuringHand(u, i) /\ ~KickFolds(u, i) /\ ~KickRemoves(u, i) /\ ~KickSkipped(u, i)
  <2>1. u \notin bounds.leavers
    BY ReadyFacts
  <2> QED
    BY <2>1 DEF LeaveDuringHand, KickFolds, KickRemoves, KickSkipped, Idle
<1>3. CASE UNCHANGED vars
  <2>1. Quiet(state, state') /\ UNCHANGED <<commits, settling, bank>>
    BY <1>3 DEF vars, Quiet, SameTurn, SameHand
  <2> QED
    BY <1>1, <2>1, QuietTableShares
<1>4. CASE SeatStep
  <2>1. PICK u \in Users :
            \/ Sit(u) \/ StartHand(u) \/ TouchActivity(u)
            \/ \E i \in Seats :
                  LeaveDuringHand(u, i) \/ LeaveTable(u, i) \/ ToggleAutoCheckFold(u, i)
    BY <1>4 DEF SeatStep
  <2>2. CASE TouchActivity(u)
    <3>1. /\ Publish(RecordActivity(state, u)) /\ UNCHANGED <<commits, bank, minted>>
      BY <2>2 DEF TouchActivity
    <3>2. Quiet(state, RecordActivity(state, u))
      BY RecordedQuiet
    <3> QED
      BY <1>1, <3>1, <3>2, QuietShares
  <2>3. ASSUME NEW i \in Seats, ToggleAutoCheckFold(u, i) PROVE Divided
    <3>1. /\ Publish(ToggledTable(u, i)) /\ UNCHANGED <<commits, bank, minted>>
      BY <2>3 DEF ToggleAutoCheckFold, ToggledTable
    <3>2. Quiet(state, ToggledTable(u, i))
      BY ToggledTableQuiet
    <3> QED
      BY <1>1, <3>1, <3>2, QuietShares
  <2> QED
    BY <1>1, <1>2, <2>1, <2>2, <2>3, SitShares, StartShares, LeaveTableShares
<1>5. CASE TurnStep
  <2>1. PICK u \in Users, i \in Seats :
            \/ Check(u, i) \/ Fold(u, i)
            \/ Call(u, i) \/ AllIn(u, i) \/ \E size \in RaiseSizes : BetOrRaise(u, i, size)
    BY <1>5 DEF TurnStep
  <2>2. CASE Check(u, i) \/ Fold(u, i)
    BY <1>1, <2>2, PlayedShares
  <2>3. CASE Call(u, i) \/ AllIn(u, i) \/ \E size \in RaiseSizes : BetOrRaise(u, i, size)
    BY <1>1, <2>3, AskShares
  <2> QED
    BY <2>1, <2>2, <2>3
<1>6. CASE CommitStep
  <2>1. ASSUME NEW c \in commits PROVE ~CommitTooLate(c)
    BY LandsFacts DEF CommitTooLate
  <2> QED
    BY <1>1, <1>6, <2>1, DebitShares, SuccessShares, FailureShares DEF CommitStep
<1>7. CASE TimerStep
  BY <1>1, <1>7, DeadlineShares, TimeoutShares DEF TimerStep
<1>8. CASE KickStep
  BY <1>2, <1>8 DEF KickStep
<1>9. CASE SettleStep
  BY <1>1, <1>9, PersistShares, ReportShares DEF SettleStep
<1>10. CASE BalanceStep
  <2>1. ASSUME NEW u \in Users, SyncExternalChipBalance(u) PROVE Divided
    <3>1. Quiet(state, state') /\ UNCHANGED <<commits, settling, bank>>
      BY <2>1 DEF SyncExternalChipBalance, Quiet, SameTurn, SameHand
    <3> QED
      BY <1>1, <3>1, QuietTableShares
  <2>2. ASSUME NEW x \in syncs, SyncBalance(x) PROVE Divided
    <3>1. x.balance \in Nat
      BY ReadyFacts, InvTypes
    <3>2. Quiet(state, state') /\ UNCHANGED <<commits, settling, bank>>
      BY <2>2, <3>1, SyncQuiet DEF SyncBalance
    <3> QED
      BY <1>1, <3>2, QuietTableShares
  <2> QED
    BY <1>10, <2>1, <2>2, SpendShares DEF BalanceStep
<1> QED
  BY <1>3, <1>4, <1>5, <1>6, <1>7, <1>8, <1>9, <1>10 DEF Next

(***************************************************************************)
(* The chip table that the refinement maps the poker table to.             *)
(***************************************************************************)
Stakes == StakeMap(state, commits)
Debts == OwedMap(settling)
Unpaid == CountMap(settling)

SeatedOnce == state \in SharedState /\ OneSeatEach(state)
TableMapped ==
    /\ [u \in Users |-> StakeOf(u)] = Stakes
    /\ [u \in Users |-> SumFunctionOnSet([t \in settling |-> OwedTo(u, t)], settling)] = Debts
    /\ [u \in Users |->
           SumFunctionOnSet([t \in settling |-> Cardinality(ToWrite(u, t))], settling)] = Unpaid

(* ChipTable, instantiated by PokerChips, with the maps above.             *)
LEMMA TableIsMapped == SeatedOnce => TableMapped
<1> SUFFICES ASSUME SeatedOnce PROVE TableMapped
  OBVIOUS
<1>1. ASSUME NEW u \in Users PROVE StakeOf(u) = StakeBy(state, commits, u)
  <2>1. CommittedBy(u) = IF RoundActive(state) THEN PlacedBy(state, u) ELSE 0
    <3>1. ASSUME NEW i \in Seats, state.seat[i].user = u
          PROVE  CommittedBy(u) = IF RoundActive(state) THEN PlacedBy(state, u) ELSE 0
      <4>1. SeatsOf(state, u) = {i} /\ PlacedBy(state, u) = state.seat[i].committed
        BY <3>1, PlacedAt DEF SeatedOnce
      <4>2. Min(SeatsOf(state, u)) \in SeatsOf(state, u)
        <5>1. SeatsOf(state, u) \in SUBSET Nat /\ SeatsOf(state, u) # {}
          BY <4>1 DEF Seats
        <5> QED
          BY <5>1, MinIsLeast
      <4> QED
        BY <4>1, <4>2 DEF CommittedBy
    <3>2. ASSUME SeatsOf(state, u) = {}
          PROVE  CommittedBy(u) = IF RoundActive(state) THEN PlacedBy(state, u) ELSE 0
      BY <3>2, PlacedNowhere DEF CommittedBy
    <3> QED
      BY <3>1, <3>2 DEF SeatsOf
  <2>2. {c \in Taken : c.user = u} = TakenBy(commits, u)
    BY DEF Taken, TakenBy, TakenOf
  <2> QED
    BY <2>1, <2>2 DEF StakeOf, StakeBy, WayBy
<1>2. [u \in Users |-> StakeOf(u)] = Stakes
  BY <1>1 DEF Stakes, StakeMap
<1> QED
  BY <1>2 DEF TableMapped, Debts, Unpaid, OwedMap, CountMap, OwedSum, CountSum

LEMMA TableIsMappedNext == SeatedOnce' => TableMapped'
BY TableIsMapped, PTL

(* The maps, one user at a time.                                           *)
LEMMA TableMaps ==
    ASSUME NEW u \in Users
    PROVE  /\ Stakes[u] = StakeBy(state, commits, u) /\ Stakes'[u] = StakeBy(state', commits', u)
           /\ Debts[u] = OwedSum(settling, u) /\ Debts'[u] = OwedSum(settling', u)
           /\ Unpaid[u] = CountSum(settling, u) /\ Unpaid'[u] = CountSum(settling', u)
BY DEF Stakes, Debts, Unpaid, StakeMap, OwedMap, CountMap

LEMMA TableMapsKept ==
    /\ (\A u \in Users : SameStakeOf(u)) => Stakes' = Stakes
    /\ (\A u \in Users : SameOwedTo(u)) => Debts' = Debts /\ Unpaid' = Unpaid
BY DEF Stakes, Debts, Unpaid, StakeMap, OwedMap, CountMap, SameStakeOf, SameOwedTo

(* A function of the users that changes at one of them.                    *)
LEMMA ChangedAt ==
    ASSUME NEW f, NEW g, DOMAIN f = Users, DOMAIN g = Users, f = [u \in Users |-> f[u]],
           g = [u \in Users |-> g[u]],
           NEW u \in Users, \A v \in Users \ {u} : g[v] = f[v]
    PROVE  g = [f EXCEPT ![u] = g[u]]
<1>1. \A v \in Users : g[v] = [f EXCEPT ![u] = g[u]][v]
  OBVIOUS
<1> QED
  BY <1>1

LEMMA MappedAt ==
    ASSUME NEW u \in Users
    PROVE  /\ (\A v \in Users \ {u} : SameStakeOf(v)) => Stakes' = [Stakes EXCEPT ![u] = Stakes'[u]]
           /\ (\A v \in Users \ {u} : SameOwedTo(v)) =>
                  /\ Debts' = [Debts EXCEPT ![u] = Debts'[u]]
                  /\ Unpaid' = [Unpaid EXCEPT ![u] = Unpaid'[u]]
<1>1. /\ Stakes = [v \in Users |-> Stakes[v]] /\ Stakes' = [v \in Users |-> Stakes'[v]]
      /\ Debts = [v \in Users |-> Debts[v]] /\ Debts' = [v \in Users |-> Debts'[v]]
      /\ Unpaid = [v \in Users |-> Unpaid[v]] /\ Unpaid' = [v \in Users |-> Unpaid'[v]]
  BY DEF Stakes, Debts, Unpaid, StakeMap, OwedMap, CountMap
<1>2. ASSUME \A v \in Users \ {u} : SameStakeOf(v)
      PROVE  Stakes' = [Stakes EXCEPT ![u] = Stakes'[u]]
  <2>1. \A v \in Users \ {u} : Stakes'[v] = Stakes[v]
    BY <1>2, TableMaps DEF SameStakeOf
  <2> QED
    BY <1>1, <2>1, ChangedAt
<1>3. ASSUME \A v \in Users \ {u} : SameOwedTo(v)
      PROVE  /\ Debts' = [Debts EXCEPT ![u] = Debts'[u]]
             /\ Unpaid' = [Unpaid EXCEPT ![u] = Unpaid'[u]]
  <2>1. \A v \in Users \ {u} : Debts'[v] = Debts[v] /\ Unpaid'[v] = Unpaid[v]
    BY <1>3, TableMaps DEF SameOwedTo
  <2> QED
    BY <1>1, <2>1, ChangedAt
<1> QED
  BY <1>2, <1>3

(* Each outcome of a step is a step of the chip table.                     *)
LEMMA StillStutters ==
    ASSUME TableMapped, TableMapped', ChipsStill
    PROVE  UNCHANGED Table!vars
<1>1. bank' = bank /\ Stakes' = Stakes /\ Debts' = Debts /\ Unpaid' = Unpaid
  BY TableMapsKept DEF ChipsStill
<1> QED
  BY <1>1 DEF TableMapped, Table!vars

(* The instance has its own copy of the sum of a function.                 *)
LEMMA TableSums ==
    ASSUME NEW f, NEW S
    PROVE  Table!SumFunctionOnSet(f, S) = SumFunctionOnSet(f, S)
BY DEF SumFunctionOnSet, FoldFunctionOnSet, MapThenFoldSet,
       Table!SumFunctionOnSet, Table!FoldFunctionOnSet, Table!MapThenFoldSet

(* A pot that is divided is settled: the stakes of all users become debts  *)
(* of at least nothing and in sum no more than the stakes.                 *)
LEMMA PotSettles ==
    ASSUME TableMapped, TableMapped', PotDivided
    PROVE  Table!Settle \/ UNCHANGED Table!vars
<1>1. bank' = bank /\ settling = {}
  BY DEF PotDivided
<1>2. ASSUME NEW u \in Users
      PROVE  /\ Stakes[u] \in Nat /\ Stakes'[u] = 0
             /\ Debts[u] = 0 /\ Unpaid[u] = 0 /\ Debts'[u] \in Nat /\ Unpaid'[u] \in Nat
             /\ Stakes[u] > 0 => Unpaid'[u] = 1
             /\ Stakes[u] = 0 => Debts'[u] = 0 /\ Unpaid'[u] = 0
  BY <1>1, TableMaps, OwedSumNone DEF PotDivided
<1>3. /\ Stakes = [u \in Users |-> Stakes[u]] /\ Stakes' = [u \in Users |-> Stakes'[u]]
      /\ Debts = [u \in Users |-> Debts[u]] /\ Debts' = [u \in Users |-> Debts'[u]]
      /\ Unpaid = [u \in Users |-> Unpaid[u]] /\ Unpaid' = [u \in Users |-> Unpaid'[u]]
  BY DEF Stakes, Debts, Unpaid, StakeMap, OwedMap, CountMap
<1>4. CASE \A u \in Users : Stakes[u] = 0
  <2>1. \A u \in Users : /\ Stakes'[u] = Stakes[u] /\ Debts'[u] = Debts[u]
                         /\ Unpaid'[u] = Unpaid[u]
    BY <1>2, <1>4
  <2>2. Stakes' = Stakes /\ Debts' = Debts /\ Unpaid' = Unpaid
    BY <1>3, <2>1
  <2> QED
    BY <1>1, <2>2 DEF TableMapped, Table!vars
<1>5. CASE \E u \in Users : Stakes[u] # 0
  <2>1. Stakes' # Stakes
    BY <1>2, <1>5
  <2>2. ASSUME NEW u \in Users
        PROVE  /\ Stakes[u] - Stakes'[u] >= 0 /\ Debts'[u] - Debts[u] >= 0
               /\ IF Stakes[u] - Stakes'[u] > 0 THEN Unpaid'[u] = Unpaid[u] + 1
                  ELSE Unpaid'[u] = Unpaid[u] /\ Debts'[u] - Debts[u] = 0
               /\ Stakes'[u] = 0
    <3>1. CASE Stakes[u] > 0
      <4>1. Stakes[u] - Stakes'[u] = Stakes[u] /\ Debts'[u] - Debts[u] = Debts'[u]
        BY <1>2
      <4> QED
        BY <1>2, <3>1, <4>1
    <3>2. CASE Stakes[u] = 0
      BY <1>2, <3>2
    <3> QED
      BY <1>2, <3>1, <3>2
  <2>3. SumFunctionOnSet(Debts', Users)
           <= SumFunctionOnSet(Debts, Users) + SumFunctionOnSet(Stakes, Users)
    <3>1. SumFunctionOnSet(Debts', Users) <= SumFunctionOnSet(Stakes, Users)
      BY DEF PotDivided, Debts, Stakes
    <3>2. SumFunctionOnSet(Debts, Users) = 0
      <4>1. \A u \in Users : Debts[u] = 0
        BY <1>2
      <4> QED
        BY <4>1, PokerAssumption, SumZero
    <3>3. SumFunctionOnSet(Stakes, Users) \in Nat
      <4>1. \A u \in Users : Stakes[u] \in Nat
        BY <1>2
      <4> QED
        BY <4>1, PokerAssumption, SumNat
    <3> QED
      BY <3>1, <3>2, <3>3
  <2>4. Table!SumFunctionOnSet(Debts', Users)
           <= Table!SumFunctionOnSet(Debts, Users) + Table!SumFunctionOnSet(Stakes, Users)
    BY <2>3, TableSums
  <2>5. Table!Settle
    BY <1>1, <2>1, <2>2, <2>4
       DEF TableMapped, Table!Settle, Table!SettledOf, Table!ReturnedTo, Table!Total
  <2> QED
    BY <2>5
<1> QED
  BY <1>4, <1>5

LEMMA StakedStakes ==
    ASSUME TableMapped, TableMapped', NEW u \in Users, ChipsStaked(u)
    PROVE  Table!Stake(u)
<1>1. bank'[u] < bank[u] /\ bank' = [bank EXCEPT ![u] = bank'[u]]
  BY DEF ChipsStaked, AccountMoves
<1>2. Debts' = Debts /\ Unpaid' = Unpaid
  BY TableMapsKept DEF ChipsStaked
<1>3. Stakes' = [Stakes EXCEPT ![u] = Stakes[u] + bank[u] - bank'[u]]
  <2>1. Stakes'[u] = Stakes[u] + bank[u] - bank'[u]
    BY TableMaps DEF ChipsStaked
  <2>2. Stakes' = [Stakes EXCEPT ![u] = Stakes'[u]]
    BY MappedAt DEF ChipsStaked
  <2> QED
    BY <2>1, <2>2
<1> QED
  BY <1>1, <1>2, <1>3 DEF TableMapped, Table!Stake

LEMMA WrittenWrites ==
    ASSUME TableMapped, TableMapped', NEW u \in Users, ChipsWritten(u)
    PROVE  Table!Write(u)
<1>1. /\ Unpaid[u] > 0 /\ Unpaid'[u] = Unpaid[u] - 1 /\ Debts[u] - Debts'[u] >= 0
      /\ bank' = IF Debts[u] - Debts'[u] = 0 THEN RestoreFloor(bank, u)
                 ELSE AddBonus(bank, u, Debts[u] - Debts'[u])
  BY TableMaps DEF ChipsWritten
<1>2. Stakes' = Stakes
  BY TableMapsKept DEF ChipsWritten
<1>3. Debts' = [Debts EXCEPT ![u] = Debts'[u]] /\ Unpaid' = [Unpaid EXCEPT ![u] = Unpaid'[u]]
  BY MappedAt DEF ChipsWritten
<1>4. Unpaid' = [Unpaid EXCEPT ![u] = Unpaid[u] - 1]
  BY <1>1, <1>3
<1>5. bank' = IF Debts[u] - Debts'[u] = 0 THEN Table!RestoreFloor(bank, u)
              ELSE Table!AddBonus(bank, u, Debts[u] - Debts'[u])
  BY <1>1 DEF RestoreFloor, AddBonus, FloorGrant, Table!RestoreFloor, Table!AddBonus,
              Table!FloorGrant
<1> QED
  BY <1>1, <1>2, <1>3, <1>4, <1>5, Zenon DEF TableMapped, Table!Write

LEMMA LostLoses ==
    ASSUME TableMapped, TableMapped', NEW u \in Users, ChipsLost(u)
    PROVE  Table!Lose(u)
<1>1. /\ bank'[u] <= bank[u] /\ bank' = [bank EXCEPT ![u] = bank'[u]]
      /\ Debts'[u] <= Debts[u] /\ Unpaid'[u] \in {Unpaid[u], Unpaid[u] - 1}
  BY TableMaps DEF ChipsLost, AccountMoves
<1>2. Stakes' = Stakes
  BY TableMapsKept DEF ChipsLost
<1>3. Debts' = [Debts EXCEPT ![u] = Debts'[u]] /\ Unpaid' = [Unpaid EXCEPT ![u] = Unpaid'[u]]
  BY MappedAt DEF ChipsLost
<1>4. Unpaid' \in {Unpaid, [Unpaid EXCEPT ![u] = Unpaid[u] - 1]}
  <2>1. Unpaid'[u] = Unpaid[u] => Unpaid' = Unpaid
    <3>1. Unpaid = [v \in Users |-> Unpaid[v]] /\ Unpaid' = [v \in Users |-> Unpaid'[v]]
      BY DEF Unpaid, CountMap
    <3> QED
      BY <1>3, <3>1
  <2>2. Unpaid'[u] = Unpaid[u] - 1 => Unpaid' = [Unpaid EXCEPT ![u] = Unpaid[u] - 1]
    BY <1>3
  <2> QED
    BY <1>1, <2>1, <2>2
<1> QED
  BY <1>1, <1>2, <1>3, <1>4 DEF TableMapped, Table!Lose
(* The first state has nobody twice at the table, and no chips on it.      *)
LEMMA InitSeating ==
    Init => Seating(state) /\ commits = {} /\ settling = {} /\ state.phase = "Waiting"
<1> SUFFICES ASSUME Init
             PROVE  Seating(state) /\ commits = {} /\ settling = {} /\ state.phase = "Waiting"
  OBVIOUS
<1>1. PICK f \in InitialSeats(bounds.stacks) :
          state = [phase |-> "Waiting", seat |-> [i \in Seats |-> FirstSeat(f, i)],
                   dealer_button |-> NoSeat, big_blind_seat |-> NoSeat,
                   active_seat |-> NoSeat, current_bet |-> 0, min_raise |-> BIG_BLIND,
                   pending_blinds |-> 0, deadline |-> "none", countdown_seat |-> NoSeat,
                   timer_task |-> FALSE, settlement_pending |-> FALSE, due |-> <<>>]
  BY DEF Init, FirstSeat
<1>2. state.phase = "Waiting" /\ \A i \in Seats : state.seat[i].user = f[i]
  BY <1>1 DEF FirstSeat, EmptySeat
<1>3. /\ f \in [Seats -> Users \cup {NoUser}]
      /\ \A u \in Users :
            Cardinality({i \in Seats : f[i] = u}) = (IF bounds.stacks[u] > 0 THEN 1 ELSE 0)
  BY DEF InitialSeats
<1>4. ASSUME NEW i \in Seats, NEW j \in Seats, f[i] = f[j], f[i] # NoUser PROVE i = j
  <2> DEFINE S == {k \in Seats : f[k] = f[i]}
  <2>1. f[i] \in Users /\ i \in S /\ j \in S /\ S \subseteq Seats
    BY <1>3, <1>4
  <2>2. Cardinality(S) \in {0, 1}
    BY <1>3, <2>1
  <2> HIDE DEF S
  <2>3. IsFiniteSet(S)
    BY <2>1, SeatsAreFinite, FS_Subset
  <2>4. Cardinality(S \ {i}) = Cardinality(S) - 1 /\ IsFiniteSet(S \ {i})
    BY <2>1, <2>3, FS_RemoveElement
  <2>5. Cardinality(S \ {i}) = 0
    BY <2>2, <2>4, FS_CardinalityType
  <2>6. S \ {i} = {}
    BY <2>4, <2>5, FS_EmptySet
  <2> QED
    BY <2>1, <2>6
<1>5. OneSeatEach(state)
  BY <1>2, <1>4 DEF OneSeatEach
<1> QED
  BY <1>2, <1>5 DEF Seating, Init

LEMMA InitDivides ==
    ASSUME Init, TableMapped
    PROVE  Table!Init
<1>1. commits = {} /\ settling = {} /\ ~RoundActive(state)
  BY InitSeating DEF RoundActive, HandRuns, ActionPhases
<1>2. ASSUME NEW u \in Users PROVE Stakes[u] = 0 /\ Debts[u] = 0 /\ Unpaid[u] = 0
  BY <1>1, TableMaps, NothingTaken, OwedSumNone DEF StakeBy
<1>3. /\ Stakes = [u \in Users |-> 0] /\ Debts = [u \in Users |-> 0]
      /\ Unpaid = [u \in Users |-> 0]
  BY <1>2 DEF Stakes, Debts, Unpaid, StakeMap, OwedMap, CountMap
<1>4. bank = Table!Ensured(Users)
  BY DEF Init, Ensured, Table!Ensured
<1> QED
  BY <1>3, <1>4 DEF TableMapped, Table!Init

(***************************************************************************)
(* Poker implements ChipTable as long as nobody leaves a hand.             *)
(***************************************************************************)
DividesInv == TypeInv /\ SeatedInv /\ Staked(state) /\ Seating(state)

LEMMA DividesOnce == DividesInv => SeatedOnce
BY InvTable DEF DividesInv, SeatedInv, SeatedOnce, Seating

LEMMA DividesOnceNext == DividesInv' => SeatedOnce'
BY DividesOnce, PTL

RoundOrNone == RoundActive(state) \/ commits = {}

(* Commits run only during a round.                                        *)
LEMMA CommitsOfRound == SeatedInv => RoundOrNone
BY DEF SeatedInv, TableInv, Lands, RoundOrNone

LEMMA CommitsOfRoundNext == SeatedInv' => RoundOrNone'
BY CommitsOfRound, PTL

(* The invariant is inductive, and under it every step has an outcome.     *)
LEMMA DividesStep ==
    ASSUME DividesInv, [Next]_vars
    PROVE  DividesInv' /\ Divided
<1>1. (TypeInv /\ SeatedInv)'
  BY SeatedSteps DEF DividesInv
<1>2. Priced /\ Priced'
  BY <1>1, InvPriced, PricedNext DEF DividesInv
<1>3. Ready
  BY <1>2 DEF Ready, DividesInv
<1>4. Sound
  BY <1>3, StepSound
<1>5. RoundActive(state') \/ commits' = {}
  BY <1>1, CommitsOfRoundNext DEF RoundOrNone
<1>6. Divided
  <2>1. Going
    BY <1>3, <1>4, <1>5 DEF Going, Sound, DividesInv
  <2> QED
    BY <2>1, StepDivides
<1>7. Staked(state') /\ Seating(state')
  BY <1>4, <1>6 DEF Sound, Divided
<1> QED
  BY <1>1, <1>6, <1>7 DEF DividesInv, Staked, Seating, OneSeatEach

THEOREM PokerKeepsTable ==
    ASSUME StaysSeated
    PROVE  Spec => ImplementsChipTable
<1> USE SeatedSteps
<1>1. Init => DividesInv /\ Table!Init
  <2> SUFFICES ASSUME Init PROVE DividesInv /\ Table!Init
    OBVIOUS
  <2>1. DividesInv
    BY InitSeating DEF DividesInv
  <2>2. TableMapped
    BY <2>1, DividesOnce, TableIsMapped
  <2> QED
    BY <2>1, <2>2, InitDivides
<1>2. DividesInv /\ [Next]_vars => DividesInv' /\ [Table!Next]_(Table!vars)
  <2> SUFFICES ASSUME DividesInv, [Next]_vars
               PROVE  DividesInv' /\ [Table!Next]_(Table!vars)
    OBVIOUS
  <2>1. DividesInv' /\ Divided
    BY DividesStep
  <2>2. TableMapped /\ TableMapped'
    BY <2>1, DividesOnce, DividesOnceNext, TableIsMapped, TableIsMappedNext
  <2>3. CASE ChipsStill \/ PotDivided
    <3>1. Table!Settle \/ UNCHANGED Table!vars
      BY <2>2, <2>3, StillStutters, PotSettles
    <3> QED
      BY <2>1, <3>1 DEF Table!Next
  <2>4. ASSUME NEW u \in Users, ChipsStaked(u) \/ ChipsWritten(u) \/ ChipsLost(u)
        PROVE  Table!Next
    <3>1. Table!Stake(u) \/ Table!Write(u) \/ Table!Lose(u)
      BY <2>2, <2>4, StakedStakes, WrittenWrites, LostLoses
    <3> QED
      BY <3>1 DEF Table!Next
  <2> QED
    BY <2>1, <2>3, <2>4 DEF Divided
<1> QED
  BY <1>1, <1>2, PTL DEF Spec, ImplementsChipTable, Table!Spec
=============================================================================
