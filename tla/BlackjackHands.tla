---------------------------- MODULE BlackjackHands ----------------------------
(***************************************************************************)
(* Blackjack hands seen from the table service, which asks a hand only a   *)
(* few questions: is it two cards, is it a natural, is it bust, must the   *)
(* dealer draw to it.  A player's hand and the dealer's are abstracted to  *)
(* the answers.  BlackjackRules defines the hands card by card and shows   *)
(* that this abstraction allows everything the cards can do.               *)
(***************************************************************************)
EXTENDS Naturals

(* "two": two cards that are not a natural; "many": three or more, <= 21. *)
LiveHands == {"two", "many"}
PlayerHands == LiveHands \cup {"none", "natural", "bust"}

(* "drawing": dealer_must_hit holds; "standing": 17 to 21, not a natural. *)
DealerHands == {"none", "drawing", "standing", "natural", "bust"}

Outcomes == {"PlayerBlackjack", "PlayerWin", "Push", "DealerWin"}

(* What two cards can be, and what one more card can make of a hand. *)
DealtHands == {"two", "natural"}
DealtDealerHands == {"drawing", "standing", "natural"}
AfterHit == {"many", "bust"}
AfterDealerDraw == {"drawing", "standing", "bust"}

CanDouble(hand) == hand \in DealtHands

(* The outcomes that settle() can return for hands of these kinds. *)
SettleOutcomes(player, dealer) ==
    CASE player = "bust"                            -> {"DealerWin"}
      [] player = "natural" /\ dealer = "natural"   -> {"Push"}
      [] player = "natural" /\ dealer # "natural"   -> {"PlayerBlackjack"}
      [] player \in LiveHands /\ dealer = "bust"    -> {"PlayerWin"}
      [] player = "two" /\ dealer = "natural"       -> {"DealerWin"}
      [] player = "many" /\ dealer = "natural"      -> {"DealerWin", "Push"}
      [] OTHER -> {"PlayerWin", "Push", "DealerWin"}

PayoutCredit(bet, outcome) ==
    CASE outcome = "DealerWin"       -> 0
      [] outcome = "Push"            -> bet
      [] outcome = "PlayerWin"       -> bet * 2
      [] outcome = "PlayerBlackjack" -> bet * 2 + bet \div 2
===============================================================================
