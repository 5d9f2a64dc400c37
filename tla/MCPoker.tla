------------------------------- MODULE MCPoker -------------------------------
(* Small instances of the poker table.                                     *)
EXTENDS PokerChips

CONSTANTS alice, bob, carol

Quiet == [stacks |-> [u \in Users |-> IF u = carol THEN 0 ELSE 4], arrivals |-> {},
          strengths |-> {1}, leavers |-> {}, auto |-> {}, hands |-> 1, failures |-> 0, spends |-> 0, syncs |-> 0]

(* Three players with unequal stacks: side pots and short all-ins. *)
SidePots == [Quiet EXCEPT !.stacks = [u \in Users |-> IF u = carol THEN 2 ELSE 3],
                          !.strengths = {1, 2}]

(* Two players, the other with the deeper stack: a raise is raised again. *)
DeepStacks(other) ==
    [Quiet EXCEPT !.stacks = [@ EXCEPT ![other] = 4, ![CHOOSE u \in {alice, bob} : u # other] = 3],
                  !.strengths = {1, 2}]

(* Two hands of two players, with a failing database. *)
TwoHands == [Quiet EXCEPT !.hands = 2, !.failures = 1]

(* Chips are spent elsewhere while old balances travel to the table. *)
OldBalances == [Quiet EXCEPT !.spends = 1, !.syncs = 1]

(* The big blind may fold when the two others are all in for less. *)
ShortStacks == [Quiet EXCEPT !.stacks = [u \in Users |-> IF u = carol THEN 3 ELSE 1]]

Stays == {SidePots, ShortStacks, DeepStacks(alice), DeepStacks(bob), TwoHands, OldBalances}

(* In these instances alice and bob may change places. *)
Symmetry == Permutations({alice, bob})

(* Players leave or idle out, or play automatically. *)
BothLeave == [Quiet EXCEPT !.leavers = {alice, bob}, !.auto = {alice}]
Refused == [Quiet EXCEPT !.auto = {bob}, !.failures = 1]
Comes == [Quiet EXCEPT !.leavers = {bob}, !.arrivals = {bob}]

Leaves == {BothLeave, Refused, Comes}

(* The last opponent leaves while a commit is with the bank. *)
OpponentLeaves == {[Quiet EXCEPT !.leavers = {bob}]}
==============================================================================
