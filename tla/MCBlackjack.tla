------------------------------ MODULE MCBlackjack ------------------------------
(* Small instances of the blackjack table.                                 *)
EXTENDS BlackjackChips, TLC

Symmetry == Permutations(Users) \cup Permutations(Requests)
================================================================================
