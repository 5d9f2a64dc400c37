SPECIFICATION CardsSpec
CONSTANTS
    Values = {1, 5, 6, 10}
    MaxCards = 4
    DEALER_STAND_ON = 17
    BLACKJACK_TARGET = 21
    Suits = {"Hearts", "Diamonds", "Clubs", "Spades"}
    Ranks = {2, 3, 4, 5, 6, 13, 14}
CHECK_DEADLOCK FALSE
INVARIANTS
    ScoreIsBest
    KindsAreAllowed
    BestFiveDecide
