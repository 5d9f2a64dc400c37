--------------------------- MODULE MCBlackjackRounds ---------------------------
(* One round of all the users, and a second one of a user who was alone.   *)
EXTENDS MCBlackjack, FiniteSets

Involved ==
    {u \in Users : \/ \E s \in Seats : seats[s].user = u
                   \/ \E r \in Requests : request[r].user = u
                   \/ bank[u] # INITIAL_CHIP_BALANCE \/ net[u] # 0}

SecondRoundAlone ==
    round = 0 \/ (round = 1 /\ phase # "Betting") \/ Cardinality(Involved) <= 1
================================================================================
