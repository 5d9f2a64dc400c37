------------------------------ MODULE PokerHands ------------------------------
(***************************************************************************)
(* How the poker table ranks the seven cards of a contender.  It looks for *)
(* one category after the other in all the cards at once; the rules of the *)
(* game ask for the best of the five-card hands among them.                *)
(***************************************************************************)
EXTENDS Integers, FiniteSets, FiniteSetsExt, Sequences, SequencesExt

CONSTANTS Suits, Ranks, Deck   \* Deck: the cards that may be dealt, of Ranks \X Suits

VARIABLE cards   \* a contender's hole cards, and then those with the board

Ace == 14
Count(hand, r) == Cardinality({c \in hand : c[1] = r})
RanksOf(hand) == {c[1] : c \in hand}
OfSuit(hand, suit) == {c \in hand : c[2] = suit}
Descending(ranks) == SetToSortSeq(ranks, >)

(* evaluated: a category and the ranks that decide within it. *)
Evaluated(category, ranks) ==
    <<category>> \o [k \in 1 .. 5 |-> IF k <= Len(ranks) THEN ranks[k] ELSE 0]

(* ranks_with_count_at_least, as a set. *)
WithCountAtLeast(hand, n) == {r \in RanksOf(hand) : Count(hand, r) >= n}

HighestExcluding(hand, excluded, n) ==
    LET ranks == Descending(RanksOf(hand) \ excluded)
    IN  [k \in 1 .. n |-> IF k <= Len(ranks) THEN ranks[k] ELSE 0]

(* Mutant: an ace is only high. *)
StraightHighsAceHigh(ranks) == {h \in ranks : \A k \in 0 .. 4 : h - k \in ranks}

(* The top ranks of the straights in a set of ranks; an ace also counts 1. *)
StraightHighs(ranks) ==
    LET low == IF Ace \in ranks THEN ranks \cup {1} ELSE ranks
    IN  {h \in ranks : \A k \in 0 .. 4 : h - k \in low}

StraightFlushHighs(hand) ==
    UNION {StraightHighs(RanksOf(OfSuit(hand, suit))) : suit \in Suits}

FlushSuits(hand) == {suit \in Suits : Cardinality(OfSuit(hand, suit)) >= 5}
FlushRanks(hand) ==
    SubSeq(Descending(RanksOf(OfSuit(hand, CHOOSE suit \in FlushSuits(hand) : TRUE))), 1, 5)

EvaluateBestHand(hand) ==
    LET quads == WithCountAtLeast(hand, 4)
        trips == WithCountAtLeast(hand, 3)
        pairs == WithCountAtLeast(hand, 2)
        trip  == Max(trips)
        full  == pairs \ {trip}
        two   == SubSeq(Descending(pairs), 1, 2)
    IN  IF StraightFlushHighs(hand) # {}
        THEN Evaluated(8, <<Max(StraightFlushHighs(hand))>>)
        ELSE IF quads # {}
        THEN Evaluated(7, <<Max(quads)>> \o HighestExcluding(hand, {Max(quads)}, 1))
        ELSE IF trips # {} /\ full # {} THEN Evaluated(6, <<trip, Max(full)>>)
        ELSE IF FlushSuits(hand) # {} THEN Evaluated(5, FlushRanks(hand))
        ELSE IF StraightHighs(RanksOf(hand)) # {}
        THEN Evaluated(4, <<Max(StraightHighs(RanksOf(hand)))>>)
        ELSE IF trips # {} THEN Evaluated(3, <<trip>> \o HighestExcluding(hand, {trip}, 2))
        ELSE IF Cardinality(pairs) >= 2
        THEN Evaluated(2, two \o HighestExcluding(hand, {two[1], two[2]}, 1))
        ELSE IF pairs # {}
        THEN Evaluated(1, <<Max(pairs)>> \o HighestExcluding(hand, pairs, 3))
        ELSE Evaluated(0, HighestExcluding(hand, {}, 5))

(* Two hole cards are dealt, and later what is missing of the board. *)
Init == cards = {}

DealHoleCards ==
    /\ cards = {}
    /\ \E S \in kSubset(2, Deck) : cards' = S

DealRemainingCommunity ==
    /\ Cardinality(cards) = 2
    /\ \E S \in kSubset(5, Deck \ cards) : cards' = cards \cup S

Next == DealHoleCards \/ DealRemainingCommunity
Spec == Init /\ [][Next]_cards

-------------------------------------------------------------------------------
(* Five cards, ranked by the rules: the shape of the equal ranks, flushes  *)
(* and straights; then the ranks, the most numerous and the highest first. *)
FiveCardValue(hand) ==
    LET ranks    == RanksOf(hand)
        shape    == SetToSortSeq(ranks, LAMBDA a, b :
                        \/ Count(hand, a) > Count(hand, b)
                        \/ Count(hand, a) = Count(hand, b) /\ a > b)
        most     == Count(hand, shape[1])
        flush    == \E suit \in Suits : hand \subseteq Ranks \X {suit}
        wheel    == ranks = {Ace, 2, 3, 4, 5}
        straight == Cardinality(ranks) = 5 /\ (wheel \/ Max(ranks) - Min(ranks) = 4)
        top      == IF wheel THEN 5 ELSE Max(ranks)
    IN  IF straight THEN Evaluated(IF flush THEN 8 ELSE 4, <<top>>)
        ELSE IF most = 4 THEN Evaluated(7, shape)
        ELSE IF most = 3 /\ Cardinality(ranks) = 2 THEN Evaluated(6, shape)
        ELSE IF flush THEN Evaluated(5, shape)
        ELSE Evaluated(CASE most = 3 -> 3
                         [] most = 2 /\ Cardinality(ranks) = 3 -> 2
                         [] most = 2 /\ Cardinality(ranks) = 4 -> 1
                         [] OTHER -> 0, shape)

(* The order of hand values: the first difference decides. *)
Beats(v, w) ==
    \E k \in 1 .. 6 : v[k] > w[k] /\ \A j \in 1 .. k - 1 : v[j] = w[j]

(***************************************************************************)
(* The value that decides a showdown is that of the best five of the seven *)
(* cards: no five-card hand beats it, and some hand has it.                *)
(***************************************************************************)
BestFiveDecide ==
    Cardinality(cards) = 7 =>
        LET value  == EvaluateBestHand(cards)
            values == {FiveCardValue(h) : h \in kSubset(5, cards)}
        IN  value \in values /\ \A v \in values : ~Beats(v, value)
==============================================================================
