------------------------------ MODULE PokerChips ------------------------------
(* The poker table keeps the promises of a chip table.                     *)
EXTENDS Poker

(***************************************************************************)
(* A stake is what a commit has taken or a seat has put into the pot of a  *)
(* hand; what is owed are the credits of the settlements still to be done. *)
(***************************************************************************)
CommittedBy(u) ==
    IF RoundActive(state) /\ SeatsOf(state, u) # {}
    THEN state.seat[Min(SeatsOf(state, u))].committed ELSE 0

StakeOf(u) ==
    LET taken == {c \in Taken : c.user = u}
    IN  CommittedBy(u) + SumFunctionOnSet([c \in taken |-> c.amount], taken)

ToWrite(u, task) == {k \in DOMAIN task.todo : task.todo[k].user = u}

OwedTo(u, task) ==
    SumFunctionOnSet([k \in ToWrite(u, task) |-> task.todo[k].credit], ToWrite(u, task))

Table == INSTANCE ChipTable WITH
    Banked    <- FALSE,
    DbCanFail <- TRUE,
    staked    <- [u \in Users |-> StakeOf(u)],
    owed      <- [u \in Users |-> SumFunctionOnSet([t \in settling |-> OwedTo(u, t)], settling)],
    unwritten <- [u \in Users |-> SumFunctionOnSet([t \in settling |-> Cardinality(ToWrite(u, t))], settling)]

(***************************************************************************)
(* Poker implements ChipTable as long as nobody leaves a hand: whatever is *)
(* committed, refused, folded and timed out, a pot is divided once, and    *)
(* every share is written once.                                            *)
(***************************************************************************)
ImplementsChipTable == Table!Spec
===============================================================================
