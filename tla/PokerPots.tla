------------------------------ MODULE PokerPots ------------------------------
(***************************************************************************)
(* How a poker pot is divided at showdown: one side pot for each amount    *)
(* that somebody has committed, awarded to the best hands among those who  *)
(* committed that much and did not fold.                                   *)
(***************************************************************************)
EXTENDS Integers, FiniteSets, FiniteSetsExt

CONSTANT MAX_SEATS

ASSUME PotsAssumption == MAX_SEATS \in Nat \ {0}

Seats == 1 .. MAX_SEATS

(* Everything committed to the hand. *)
Pot(committed) == SumFunctionOnSet(committed, Seats)

Levels(committed) == {committed[i] : i \in Seats} \ {0}
Below(committed, level) == Max({l \in Levels(committed) : l < level} \cup {0})
Contributors(committed, level) == {i \in Seats : committed[i] >= level}

SidePot(committed, level) ==
    (level - Below(committed, level)) * Cardinality(Contributors(committed, level))

(* The best of the eligible seats; strength orders the seven-card hands. *)
Winners(committed, contenders, strength, level) ==
    LET eligible == Contributors(committed, level) \cap contenders
    IN  {i \in eligible : \A j \in eligible : strength[j] <= strength[i]}

(* The chips of the side pots that nobody contends for.                    *)
Unclaimed(committed, contenders) ==
    LET unclaimed == {level \in Levels(committed) :
                         Contributors(committed, level) \cap contenders = {}}
    IN  SumFunctionOnSet([level \in unclaimed |-> SidePot(committed, level)], unclaimed)

(* Mutant: chips that do not divide evenly are not given out. *)
ShareWithoutOddChips(amount, winners, i) == amount \div Cardinality(winners)

(* Odd chips go to the first winners in seat order. *)
Share(amount, winners, i) ==
    (amount \div Cardinality(winners))
    + (IF Cardinality({j \in winners : j < i}) < amount % Cardinality(winners) THEN 1 ELSE 0)

(* What the showdown credits to seat i; a pot without contenders is skipped. *)
CreditsFromAwards(committed, contenders, strength) ==
    LET winners(level) == Winners(committed, contenders, strength, level)
        won(i) == {level \in Levels(committed) : i \in winners(level)}
        shares(i) == [level \in won(i) |->
                         Share(SidePot(committed, level), winners(level), i)]
    IN  [i \in Seats |-> SumFunctionOnSet(shares(i), won(i))]
==============================================================================
