------------------------------ MODULE ChipTable ------------------------------
(***************************************************************************)
(* What every card table promises about chips, whatever game is played at  *)
(* it: chips are staked, each stake is settled once, and each settlement   *)
(* is written to the account once.  A banked table may return more than    *)
(* was staked, up to three to two on top of the stake; at the others the   *)
(* stakes of a hand are divided among the players, all of them at once,    *)
(* and no more than these.  A failing database may lose chips, but it      *)
(* never creates any.                                                      *)
(***************************************************************************)
EXTENDS Chips, FiniteSetsExt

CONSTANTS
    Users,
    Banked,      \* whether the house plays against the stakes
    DbCanFail

VARIABLES
    bank,        \* the accounts
    staked,      \* chips taken from an account and not yet settled
    owed,        \* chips that settlements return, not yet written
    unwritten    \* number of settlements not yet written

vars == <<bank, staked, owed, unwritten>>

Total(f) == SumFunctionOnSet(f, Users)

Init ==
    /\ bank = Ensured(Users)
    /\ staked = [u \in Users |-> 0]
    /\ owed = staked /\ unwritten = staked

Stake(u) ==
    /\ bank'[u] < bank[u]
    /\ bank' = [bank EXCEPT ![u] = bank'[u]]
    /\ staked' = [staked EXCEPT ![u] = @ + bank[u] - bank'[u]]
    /\ UNCHANGED <<owed, unwritten>>

SettledOf(u) == staked[u] - staked'[u]
ReturnedTo(u) == owed'[u] - owed[u]

Settle ==
    /\ UNCHANGED bank
    /\ staked' # staked
    /\ \A u \in Users :
          /\ SettledOf(u) >= 0 /\ ReturnedTo(u) >= 0
          /\ IF SettledOf(u) > 0 THEN unwritten'[u] = unwritten[u] + 1
             ELSE unwritten'[u] = unwritten[u] /\ ReturnedTo(u) = 0
    /\ IF Banked
       THEN \A u \in Users : 2 * ReturnedTo(u) <= 5 * SettledOf(u)
       ELSE /\ \A u \in Users : staked'[u] = 0
            /\ Total(owed') <= Total(owed) + Total(staked)

(* A settlement without return lifts the account to the floor. *)
Write(u) ==
    LET returned == owed[u] - owed'[u]
    IN  /\ unwritten[u] > 0
        /\ unwritten' = [unwritten EXCEPT ![u] = @ - 1]
        /\ owed' = [owed EXCEPT ![u] = owed'[u]]
        /\ returned >= 0
        /\ bank' = IF returned = 0 THEN RestoreFloor(bank, u)
                   ELSE AddBonus(bank, u, returned)
        /\ UNCHANGED staked

(* The statement of a stake or of a settlement has failed. *)
Lose(u) ==
    /\ DbCanFail
    /\ bank'[u] <= bank[u] /\ bank' = [bank EXCEPT ![u] = bank'[u]]
    /\ owed'[u] <= owed[u] /\ owed' = [owed EXCEPT ![u] = owed'[u]]
    /\ unwritten' \in {unwritten, [unwritten EXCEPT ![u] = @ - 1]}
    /\ UNCHANGED staked

Next == Settle \/ \E u \in Users : Stake(u) \/ Write(u) \/ Lose(u)

Spec == Init /\ [][Next]_vars
==============================================================================
