----------------------------- MODULE MCCardRules -----------------------------
(* The rules of the two card games, checked in one run: either the two     *)
(* hands of a blackjack round are drawn, or the cards of a poker contender *)
(* from a deck with wheels, flushes, quads, two trips and three pairs.     *)
EXTENDS BlackjackRules

CONSTANTS Suits, Ranks

VARIABLES cards, game

SomeDeck ==
    ({2, 3, 4, 5, 6, 13, 14} \X {"Hearts"}) \cup ({5, 13, 14} \X {"Spades"})
      \cup ({13, 14} \X {"Clubs"}) \cup ({6, 13, 14} \X {"Diamonds"})

Poker == INSTANCE PokerHands WITH Deck <- SomeDeck

CardsInit ==
    \/ game = "blackjack" /\ RulesInit /\ cards = {}
    \/ game = "poker" /\ Poker!Init /\ player = <<>> /\ dealer_hand = <<>>

CardsNext ==
    /\ game' = game
    /\ \/ game = "blackjack" /\ RulesNext /\ UNCHANGED cards
       \/ game = "poker" /\ Poker!Next /\ UNCHANGED rules_vars

CardsSpec == CardsInit /\ [][CardsNext]_<<rules_vars, cards, game>>

BestFiveDecide == Poker!BestFiveDecide
==============================================================================
