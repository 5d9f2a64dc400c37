-------------------------------- MODULE Chips --------------------------------
(***************************************************************************)
(* The chip operations of late-core that the game tables call.  A balance  *)
(* sheet is a function from users to chips; every operation is one SQL     *)
(* statement, hence one atomic step, and is given here as an operator on   *)
(* the balance sheet.  The rows of chip_ledger and the notifications that  *)
(* the same statements write are left out: no table reads them.            *)
(***************************************************************************)
EXTENDS Naturals

CONSTANTS
    CHIP_FLOOR,            \* what a losing settlement restores a balance to
    INITIAL_CHIP_BALANCE   \* what a new account holds

ASSUME ChipsAssumption ==
    /\ CHIP_FLOOR \in Nat
    /\ INITIAL_CHIP_BALANCE \in Nat

(* The balance sheet of accounts that have just been opened. *)
Ensured(Users) == [u \in Users |-> INITIAL_CHIP_BALANCE]

(* Mutant: the amount is not compared with the balance. *)
CanDeductAlways(bank, u, amount) == TRUE

(* UserChips::deduct succeeds only on a balance that covers the amount. *)
CanDeduct(bank, u, amount) == bank[u] >= amount
Deduct(bank, u, amount) == [bank EXCEPT ![u] = @ - amount]

(* UserChips::add_bonus *)
AddBonus(bank, u, amount) == [bank EXCEPT ![u] = @ + amount]

(* UserChips::restore_floor: GREATEST(balance, CHIP_FLOOR). *)
FloorGrant(bank, u) == IF bank[u] < CHIP_FLOOR THEN CHIP_FLOOR - bank[u] ELSE 0

(* Mutant: the floor is added to the balance. *)
AddFloor(bank, u) == AddBonus(bank, u, CHIP_FLOOR)
RestoreFloor(bank, u) == AddBonus(bank, u, FloorGrant(bank, u))
==============================================================================
