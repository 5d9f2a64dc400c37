---------------------------- MODULE BlackjackRules ----------------------------
(***************************************************************************)
(* The rules of blackjack on hands of cards: scoring, the dealer's rule    *)
(* and settlement, as one player's hand and the dealer's are played out    *)
(* card by card.  It checks the scoring loop against a definition of the   *)
(* best total, and shows that BlackjackHands, which the table service is   *)
(* modelled with, allows everything that the cards can do.                 *)
(***************************************************************************)
EXTENDS BlackjackHands, Sequences, FiniteSets, FiniteSetsExt

CONSTANTS
    Values,     \* the card values that are dealt; 1 is the ace
    MaxCards,   \* bound: cards the player may hold
    DEALER_STAND_ON, BLACKJACK_TARGET

ASSUME RulesAssumption ==
    /\ Values \subseteq 1 .. 10
    /\ MaxCards \in Nat /\ DEALER_STAND_ON \in Nat
    /\ BLACKJACK_TARGET \in Nat /\ BLACKJACK_TARGET >= 20

VARIABLES player, dealer_hand

HardTotal(hand) == SumFunctionOnSet(hand, DOMAIN hand)
Aces(hand) == Cardinality({i \in DOMAIN hand : hand[i] = 1})

(* Mutant: an ace is not raised to make exactly 21. *)
ScoreBelowTarget(hand) ==
    LET raised == HardTotal(hand) + 10
    IN  IF Aces(hand) > 0 /\ raised < BLACKJACK_TARGET THEN raised ELSE HardTotal(hand)

(* score: aces are raised one at a time while the total stays within 21. *)
Score(hand) ==
    LET Raised[aces \in Nat] ==
          IF aces = 0 THEN HardTotal(hand)
          ELSE LET total == Raised[aces - 1]
               IN  IF total + 10 <= BLACKJACK_TARGET THEN total + 10 ELSE total
    IN  Raised[Aces(hand)]

IsBust(hand) == Score(hand) > BLACKJACK_TARGET

(* Mutant: any 21 is a natural. *)
IsAnyTwentyOne(hand) == Score(hand) = BLACKJACK_TARGET
IsNatural(hand) == Len(hand) = 2 /\ Score(hand) = BLACKJACK_TARGET
IsPair(hand) == Len(hand) = 2

DealerMustHit(hand) == Score(hand) < DEALER_STAND_ON

(* Mutant: the player's natural wins before the dealer's is looked at. *)
SettleNaturalFirst(p, d) ==
    IF IsBust(p)                          THEN "DealerWin"
    ELSE IF IsNatural(p)                  THEN "PlayerBlackjack"
    ELSE IF IsBust(d) \/ Score(p) > Score(d) THEN "PlayerWin"
    ELSE IF Score(p) < Score(d)           THEN "DealerWin"
    ELSE "Push"

SettleCards(p, d) ==
    IF IsBust(p)                          THEN "DealerWin"
    ELSE IF IsNatural(p) /\ IsNatural(d)  THEN "Push"
    ELSE IF IsNatural(p)                  THEN "PlayerBlackjack"
    ELSE IF IsBust(d)                     THEN "PlayerWin"
    ELSE IF Score(p) > Score(d)           THEN "PlayerWin"
    ELSE IF Score(p) < Score(d)           THEN "DealerWin"
    ELSE "Push"

(***************************************************************************)
(* Two cards each; then the player draws at will, and the dealer by rule.  *)
(***************************************************************************)
RulesInit ==
    /\ player \in Values \X Values
    /\ dealer_hand \in Values \X Values

PlayerHits ==
    /\ ~IsBust(player) /\ ~IsNatural(player) /\ ~IsNatural(dealer_hand)
    /\ Len(player) < MaxCards /\ Len(dealer_hand) = 2
    /\ \E c \in Values : player' = Append(player, c)
    /\ UNCHANGED dealer_hand

DealerHits ==
    /\ DealerMustHit(dealer_hand)
    /\ \E c \in Values : dealer_hand' = Append(dealer_hand, c)
    /\ UNCHANGED player

RulesNext == PlayerHits \/ DealerHits
rules_vars == <<player, dealer_hand>>
RulesSpec == RulesInit /\ [][RulesNext]_rules_vars

-------------------------------------------------------------------------------
(* What the table service can tell of a hand. *)
Kind(hand) ==
    IF IsBust(hand)         THEN "bust"
    ELSE IF IsNatural(hand) THEN "natural"
    ELSE IF IsPair(hand)    THEN "two"
    ELSE "many"

DealerKind(hand) ==
    IF DealerMustHit(hand)  THEN "drawing"
    ELSE IF IsBust(hand)    THEN "bust"
    ELSE IF IsNatural(hand) THEN "natural"
    ELSE "standing"

(* The totals of a hand whose aces count 1 or 11 as its holder likes. *)
Totals(hand) == {HardTotal(hand) + 10 * n : n \in 0 .. Aces(hand)}
BestTotal(hand) ==
    LET within == {t \in Totals(hand) : t <= BLACKJACK_TARGET}
    IN  IF within = {} THEN Min(Totals(hand)) ELSE Max(within)

(* The scoring loop finds the best total: the highest that is not bust.    *)
ScoreIsBest == \A h \in {player, dealer_hand} : Score(h) = BestTotal(h)

(* The table model knows kinds of hands instead of cards.  It loses none:  *)
(* the two cards of a deal and every card drawn make hands of the kinds it *)
(* deals and draws, and once the dealer stands, or the player is bust,     *)
(* settle() returns an outcome the table allows for hands of these kinds.  *)
KindsAreAllowed ==
    /\ Kind(player) \in IF Len(player) = 2 THEN DealtHands ELSE AfterHit
    /\ DealerKind(dealer_hand) \in
          IF Len(dealer_hand) = 2 THEN DealtDealerHands ELSE AfterDealerDraw
    /\ ~DealerMustHit(dealer_hand) \/ Kind(player) = "bust" =>
          SettleCards(player, dealer_hand)
              \in SettleOutcomes(Kind(player), DealerKind(dealer_hand))
===============================================================================
