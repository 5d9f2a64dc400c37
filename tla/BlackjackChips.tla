---------------------------- MODULE BlackjackChips ----------------------------
(* The blackjack table keeps the promises of a chip table.                 *)
EXTENDS Blackjack

(***************************************************************************)
(* A stake is what a request has taken or a seat has at risk; what is owed *)
(* are the credits of the settlements not yet persisted.                   *)
(***************************************************************************)
Table == INSTANCE ChipTable WITH
    Banked    <- TRUE,
    staked    <- [u \in Users |-> Taken(u) + AtRisk(u)],
    owed      <- [u \in Users |-> Owed(u)],
    unwritten <- [u \in Users |-> Cardinality({x \in unpaid : x.user = u})]

(***************************************************************************)
(* Blackjack implements ChipTable: through leaves, kicks, timeouts and     *)
(* refused bets every stake is settled once, for at most three to two, and *)
(* every settlement is written once.                                       *)
(***************************************************************************)
ImplementsChipTable == Table!Spec
===============================================================================
