-------------------------------- MODULE Poker --------------------------------
(***************************************************************************)
(* One poker table of late-ssh: the state behind the table's mutex, the    *)
(* commit tasks that debit chips while the mutex is released, the          *)
(* settlement tasks that pay a pot, the turn timer and the idle kicks.     *)
(*                                                                         *)
(* Every critical section is one action.  It maps the table to a new table *)
(* with the operators below, the way SharedState's methods do, and ends in *)
(* Publish, which starts the countdown and spawns what the section asked   *)
(* for.  "due" holds the settlements a section hands to its caller.        *)
(***************************************************************************)
EXTENDS Integers, Sequences, SequencesExt, Chips, PokerPots

CONSTANTS
    Users, NoUser,
    SMALL_BLIND, BIG_BLIND, STARTING_STACK,
    MAX_MISSED_ACTIONS,
    RaiseSizes,        \* amounts a client can select
    Instances          \* what is explored: each of these is one small instance

(* The stacks of those who sit in an instance (0 for the others), the users *)
(* who may sit down, what its seven-card hands are worth, the users who may *)
(* fall idle or leave a hand they play, those who may toggle auto           *)
(* check/fold, and its bounds: hands dealt, statements the database fails,  *)
(* chips spent away from the table, balances that clients send to it.       *)
Instance ==
    [stacks : [Users -> 0 .. INITIAL_CHIP_BALANCE], arrivals : SUBSET Users,
     strengths : SUBSET (Nat \ {0}), leavers : SUBSET Users, auto : SUBSET Users,
     hands : Nat, failures : Nat, spends : Nat, syncs : Nat]

ASSUME PokerAssumption ==
    /\ IsFiniteSet(Users) /\ NoUser \notin Users
    /\ SMALL_BLIND \in Nat \ {0} /\ BIG_BLIND \in Nat /\ SMALL_BLIND <= BIG_BLIND
    /\ STARTING_STACK \in Nat \ {0}
    /\ MAX_MISSED_ACTIONS \in Nat \ {0}
    /\ RaiseSizes \subseteq Nat
    /\ \A x \in Instances : x \in Instance

VARIABLES
    state,      \* SharedState, behind the table's mutex
    commits,    \* commit tasks
    settling,   \* settlement tasks
    syncs,      \* sync_balance tasks
    bank,       \* the chip accounts
    bounds,     \* the instance, with what is left of its bounds
    minted      \* history: chips granted less chips lost, of all users

vars == <<state, commits, settling, syncs, bank, bounds, minted>>

NoSeat == 0
NoCommit == [id |-> 0, blind |-> FALSE, amount |-> 0, target |-> 0, raise |-> 0]
ActionPhases == {"PreFlop", "Flop", "Turn", "River"}
Phases == {"Waiting", "PostingBlinds", "Showdown"} \cup ActionPhases

(* cards is the strength of the dealt hand, 0 for none; armed says that an *)
(* inactivity task of the latest activity exists.                          *)
EmptySeat ==
    [user |-> NoUser, stack |-> 0, cards |-> 0, folded |-> FALSE,
     all_in |-> FALSE, acted |-> FALSE, leave_after_hand |-> FALSE,
     auto_check_fold |-> FALSE, committed |-> 0, street_bet |-> 0,
     pending |-> NoCommit, missed_actions |-> 0, armed |-> FALSE]

Spend(what) == bounds' = [bounds EXCEPT ![what] = @ - 1]

SeatsOf(s, u) == {i \in Seats : s.seat[i].user = u}
Occupied(s) == {i \in Seats : s.seat[i].user # NoUser}
Playable(s) == {i \in Occupied(s) : s.seat[i].stack > 0}
Active(s) == {i \in Occupied(s) : s.seat[i].cards > 0 /\ ~s.seat[i].folded}
Actionable(s) == {i \in Active(s) : ~s.seat[i].all_in}
HandRuns(s) == s.phase \in ActionPhases
RoundActive(s) == s.phase = "PostingBlinds" \/ HandRuns(s)
Committed(s) == [i \in Seats |-> s.seat[i].committed]

(* The first seat of S after start, around the table. *)
After(start, S) ==
    IF S = {} THEN NoSeat
    ELSE LET distance(i) == (i - start - 1) % MAX_SEATS
         IN  CHOOSE i \in S : \A j \in S : distance(i) <= distance(j)

ToCall(s, i) == s.current_bet - s.seat[i].street_bet

CanRaise(s, i) ==
    HandRuns(s) /\ i \in Actionable(s) /\ ~s.seat[i].acted

(* A task whose countdown was cleared never matches again: every countdown *)
(* has an id of its own.                                                   *)
ClearCountdown(s) ==
    [s EXCEPT !.deadline = "none", !.countdown_seat = NoSeat, !.timer_task = FALSE]

(***************************************************************************)
(* The end of a hand.                                                      *)
(***************************************************************************)
(* What is paid to those with chips in the pot, in the order of their seats. *)
Settlements(s, credit) ==
    LET owing == {i \in Occupied(s) : s.seat[i].committed > 0}
        upto[k \in 0 .. MAX_SEATS] ==
            IF k = 0 THEN <<>>
            ELSE IF k \in owing
            THEN Append(upto[k - 1], [user |-> s.seat[k].user, credit |-> credit[k]])
            ELSE upto[k - 1]
    IN  upto[MAX_SEATS]

Settle(s, credit) ==
    [ClearCountdown(s) EXCEPT !.phase = "Showdown", !.active_seat = NoSeat,
        !.due = Settlements(s, credit),
        !.settlement_pending = Settlements(s, credit) # <<>>]

FinishByFold(s, winner) ==
    Settle(s, [i \in Seats |-> IF i = winner THEN Pot(Committed(s)) ELSE 0])

FinishShowdown(s) ==
    Settle(s, CreditsFromAwards(Committed(s), Active(s),
                                [i \in Seats |-> s.seat[i].cards]))

(* Nobody is left in the hand. *)
AbandonHand(s) ==
    [ClearCountdown(s) EXCEPT !.phase = "Waiting", !.active_seat = NoSeat]

(***************************************************************************)
(* The turn moves on after seat i has acted.                               *)
(***************************************************************************)
(* Mutant: whoever has acted need not match the bet. *)
StreetCompleteUnmatched(s) ==
    \A i \in Active(s) : s.seat[i].all_in \/ s.seat[i].acted

StreetComplete(s) ==
    \A i \in Active(s) :
        \/ s.seat[i].all_in
        \/ s.seat[i].acted /\ s.seat[i].street_bet >= s.current_bet

ShouldRunOut(s) == Cardinality(Actionable(s)) <= 1

NextStreet == [PreFlop |-> "Flop", Flop |-> "Turn", Turn |-> "River"]

FreshStreet(s) ==
    [s EXCEPT
        !.seat = [i \in Seats |-> [s.seat[i] EXCEPT !.acted = FALSE, !.street_bet = 0]],
        !.current_bet = 0, !.min_raise = BIG_BLIND]

AdvanceStreet(s) ==
    LET t == FreshStreet(s)
    IN  CASE s.phase \in DOMAIN NextStreet
              -> [t EXCEPT !.phase = NextStreet[s.phase],
                           !.active_seat = After(s.dealer_button, Actionable(s))]
          [] s.phase = "River" -> FinishShowdown(t)
          [] OTHER -> t

AdvanceAfterAction(s, i) ==
    CASE Active(s) = {} -> AbandonHand(s)
      [] Cardinality(Active(s)) = 1 -> FinishByFold(s, CHOOSE w \in Active(s) : TRUE)
      [] Cardinality(Active(s)) > 1 /\ StreetComplete(s) ->
            IF ShouldRunOut(s) THEN FinishShowdown(s) ELSE AdvanceStreet(s)
      [] OTHER -> [s EXCEPT !.active_seat = After(i, Actionable(s))]

(* Seat i gives up its hand. *)
FoldSeat(s, i) == [s EXCEPT !.seat[i] = [@ EXCEPT !.folded = TRUE, !.acted = TRUE]]

(* A turn that nobody played: a check if it is free, else a fold. *)
CheckOrFold(s, i) ==
    AdvanceAfterAction(
        IF ToCall(s, i) = 0 THEN [s EXCEPT !.seat[i].acted = TRUE] ELSE FoldSeat(s, i), i)

(***************************************************************************)
(* Every critical section ends by playing the turns of seats on auto       *)
(* check/fold, by starting the countdown of the seat whose turn it is, and *)
(* by spawning the settlement task.                                        *)
(***************************************************************************)
AutoCheckFoldOnce(s) ==
    LET i == s.active_seat
    IN  IF /\ ~s.settlement_pending /\ HandRuns(s)
           /\ i \in Actionable(s)
           /\ s.seat[i].auto_check_fold /\ s.seat[i].pending = NoCommit
        THEN CheckOrFold(ClearCountdown(s), i)
        ELSE s

(* The set that holds the one table on which no more such turn comes next. *)
ApplyAutoCheckFolds(s) ==
    LET turns[k \in 0 .. 4 * MAX_SEATS] ==
            IF k = 0 THEN {s} ELSE {AutoCheckFoldOnce(t) : t \in turns[k - 1]}
    IN  turns[4 * MAX_SEATS]

StartActionCountdownIfNeeded(s) ==
    LET i == s.active_seat
    IN  IF ~(HandRuns(s) /\ i \in Actionable(s) /\ s.seat[i].pending = NoCommit)
        THEN ClearCountdown(s)
        ELSE IF s.deadline # "none" /\ s.countdown_seat = i THEN s
        ELSE [s EXCEPT !.deadline = "running", !.countdown_seat = i, !.timer_task = TRUE]

SettlementTask(due) == [todo |-> due, done |-> {}, failed |-> FALSE]

Publish(s) ==
    \E t \in {StartActionCountdownIfNeeded(x) : x \in ApplyAutoCheckFolds(s)} :
        /\ state' = [t EXCEPT !.due = <<>>]
        /\ settling' = IF t.due = <<>> THEN settling
                       ELSE settling \cup {SettlementTask(t.due)}

(* Input of user u restarts the idle time of the seat. *)
RecordActivity(s, u) ==
    [s EXCEPT !.seat = [i \in Seats |->
        IF s.seat[i].user = u THEN [s.seat[i] EXCEPT !.armed = TRUE] ELSE s.seat[i]]]

(***************************************************************************)
(* Seats.                                                                  *)
(***************************************************************************)
OnlyState == UNCHANGED <<commits, settling, syncs, bank, bounds, minted>>

(* sit: the lowest free seat.  The client sends the balance it knows, the  *)
(* one it saw at login or a later one.                                     *)
Sit(u) ==
    /\ SeatsOf(state, u) = {} /\ u \in bounds.arrivals
    /\ {INITIAL_CHIP_BALANCE, bank[u]} \cap {b \in Nat : b >= STARTING_STACK} # {}
    /\ LET free == Seats \ Occupied(state)
       IN  /\ free # {}
           /\ state' = [state EXCEPT !.seat[Min(free)] =
                          [EmptySeat EXCEPT !.user = u, !.stack = STARTING_STACK,
                                            !.armed = TRUE]]
    /\ OnlyState

RemoveSeats(s, gone) ==
    LET t == [s EXCEPT !.seat =
                 [i \in Seats |-> IF i \in gone THEN EmptySeat ELSE s.seat[i]]]
    IN  IF gone # {} /\ Occupied(t) = {} THEN [t EXCEPT !.dealer_button = NoSeat] ELSE t

(* Mutant: nobody is marked to leave. *)
NobodyLeaves(s) == {}
LeavingSeats(s) == {i \in Seats : s.seat[i].leave_after_hand}

(* Folds the hand of seat i, whose user leaves once the hand is over.      *)
(* Mutant: a fold out of turn does not end the hand.                       *)
FoldAndLeaveOpen(s, i) ==
    LET t == [FoldSeat(s, i) EXCEPT !.seat[i].leave_after_hand = TRUE]
    IN  IF s.active_seat = i THEN AdvanceAfterAction(t, i) ELSE t

FoldAndLeave(s, i) ==
    LET t == [FoldSeat(s, i) EXCEPT !.seat[i].leave_after_hand = TRUE]
    IN  CASE s.active_seat = i -> AdvanceAfterAction(t, i)
          [] s.active_seat # i /\ Cardinality(Active(t)) = 1
                -> FinishByFold(t, CHOOSE w \in Active(t) : TRUE)
          [] OTHER -> t

MayLeave(i) ==
    /\ state.seat[i].pending = NoCommit
    /\ ~state.settlement_pending
    /\ state.phase # "PostingBlinds"

LeaveDuringHand(u, i) ==
    /\ state.seat[i].user = u /\ u \in bounds.leavers
    /\ MayLeave(i)
    /\ HandRuns(state) /\ state.seat[i].cards > 0
    /\ Publish(FoldAndLeave(state, i))
    /\ UNCHANGED <<commits, syncs, bank, bounds, minted>>

LeaveTable(u, i) ==
    /\ state.seat[i].user = u
    /\ MayLeave(i)
    /\ ~(HandRuns(state) /\ state.seat[i].cards > 0)
    /\ Publish(RemoveSeats(state, {i}))
    /\ UNCHANGED <<commits, syncs, bank, bounds, minted>>

(***************************************************************************)
(* Commits.  A commit marks its seat, and its task debits the chips while  *)
(* the table is unlocked.  An id that no live task holds is a new one.     *)
(***************************************************************************)
FreshId(taken) == CHOOSE n \in 1 .. Cardinality(taken) + 1 : \A c \in taken : c.id # n

Commit(s, i, id, blind, amount, target, raise) ==
    [s EXCEPT !.seat[i].pending =
        [id |-> id, blind |-> blind, amount |-> amount, target |-> target, raise |-> raise]]

CommitTask(s, i) ==
    [id |-> s.seat[i].pending.id, user |-> s.seat[i].user, seat |-> i,
     amount |-> s.seat[i].pending.amount, pc |-> "debiting"]

BlindSeats(s, dealer) ==
    LET small == IF Cardinality(Playable(s)) = 2 THEN dealer ELSE After(dealer, Playable(s))
    IN  <<small, After(small, Playable(s))>>

(* The table as start_hand leaves it before the blinds are asked for.      *)
Dealt(s, dealer, strength) ==
    [ClearCountdown(s) EXCEPT
        !.seat = [i \in Seats |-> [s.seat[i] EXCEPT
            !.cards = IF i \in Playable(s) THEN strength[i] ELSE 0,
            !.folded = FALSE, !.all_in = FALSE, !.acted = FALSE,
            !.leave_after_hand = FALSE, !.committed = 0, !.street_bet = 0,
            !.pending = NoCommit]],
        !.phase = "PostingBlinds", !.dealer_button = dealer, !.active_seat = NoSeat,
        !.current_bet = 0, !.min_raise = BIG_BLIND]

DealHand(s, u) ==
    \E strength \in [Playable(s) -> bounds.strengths] :
        LET dealer == IF s.dealer_button # NoSeat THEN After(s.dealer_button, Playable(s))
                      ELSE Min(IF SeatsOf(s, u) \cap Playable(s) # {}
                               THEN SeatsOf(s, u) \cap Playable(s) ELSE Playable(s))
            blind  == BlindSeats(s, dealer)
            small  == Min({SMALL_BLIND, s.seat[blind[1]].stack})
            big    == Min({BIG_BLIND, s.seat[blind[2]].stack})
            id1    == FreshId(commits)
            id2    == FreshId(commits \cup {[id |-> id1]})
            t      == Commit(Commit(Dealt(s, dealer, strength),
                                    blind[1], id1, TRUE, small, small, small),
                             blind[2], id2, TRUE, big, big, big)
        IN  /\ state' = RecordActivity([t EXCEPT !.pending_blinds = 2,
                                                 !.big_blind_seat = blind[2]], u)
            /\ commits' = commits \cup {CommitTask(t, blind[1]), CommitTask(t, blind[2])}

MayStart(u) ==
    /\ SeatsOf(state, u) # {}
    /\ ~state.settlement_pending /\ state.phase \in {"Waiting", "Showdown"}
    /\ \A i \in Seats : state.seat[i].pending = NoCommit

(* start_hand: whoever was to leave is gone first. *)
StartHand(u) ==
    /\ MayStart(u)
    /\ LET s == RemoveSeats(state, LeavingSeats(state))
       IN  \/ /\ Cardinality(Playable(s)) >= 2
              /\ bounds.hands > 0 /\ Spend("hands")
              /\ DealHand(s, u)
           \/ /\ Cardinality(Playable(s)) < 2
              /\ state' = RecordActivity(s, u)
              /\ UNCHANGED <<commits, bounds>>
    /\ UNCHANGED <<settling, syncs, bank, minted>>

(***************************************************************************)
(* A turn that is played by its user (validate_active_user).               *)
(***************************************************************************)
(* Mutant: a second action may follow before the first is answered. *)
MayActTwice(u, i) ==
    /\ state.seat[i].user = u
    /\ HandRuns(state) /\ state.active_seat = i /\ i \in Actionable(state)

MayAct(u, i) ==
    /\ state.seat[i].user = u
    /\ HandRuns(state) /\ state.active_seat = i /\ i \in Actionable(state)
    /\ state.seat[i].pending = NoCommit

RecordManualAction(s, i) ==
    RecordActivity([ClearCountdown(s) EXCEPT !.seat[i].missed_actions = 0], s.seat[i].user)

Check(u, i) ==
    /\ MayAct(u, i)
    /\ ToCall(state, i) = 0
    /\ Publish(AdvanceAfterAction(
           [RecordManualAction(state, i) EXCEPT !.seat[i].acted = TRUE], i))
    /\ UNCHANGED <<commits, syncs, bank, bounds, minted>>

Fold(u, i) ==
    /\ MayAct(u, i)
    /\ Publish(AdvanceAfterAction(FoldSeat(RecordManualAction(state, i), i), i))
    /\ UNCHANGED <<commits, syncs, bank, bounds, minted>>

(* The seat commits the chips that lift its bet to target. *)
CommitTo(i, target, raise) ==
    LET t == Commit(RecordManualAction(state, i), i, FreshId(commits), FALSE,
                    target - state.seat[i].street_bet, target, raise)
    IN  /\ target > state.seat[i].street_bet
        /\ Publish(t)
        /\ commits' = commits \cup {CommitTask(t, i)}
        /\ UNCHANGED <<syncs, bank, bounds, minted>>

AllOfStack(i) == state.seat[i].street_bet + state.seat[i].stack

Call(u, i) ==
    /\ MayAct(u, i)
    /\ ToCall(state, i) > 0
    /\ CommitTo(i, Min({state.current_bet, AllOfStack(i)}), 0)

BetOrRaise(u, i, size) ==
    LET raise_by == Max({size, state.min_raise, BIG_BLIND})
        target   == Min({state.current_bet + raise_by, AllOfStack(i)})
    IN  /\ MayAct(u, i) /\ CanRaise(state, i)
        /\ state.seat[i].stack > 0
        /\ CommitTo(i, target, Max({target - state.current_bet, 0}))

AllIn(u, i) ==
    /\ MayAct(u, i)
    /\ state.seat[i].stack > 0
    /\ AllOfStack(i) > state.current_bet => CanRaise(state, i)
    /\ CommitTo(i, AllOfStack(i), Max({AllOfStack(i) - state.current_bet, 0}))

ToggleAutoCheckFold(u, i) ==
    /\ state.seat[i].user = u /\ u \in bounds.auto
    /\ Publish(RecordActivity([state EXCEPT !.seat[i].auto_check_fold = ~@], u))
    /\ UNCHANGED <<commits, syncs, bank, bounds, minted>>

(* Input that moves nothing, or an action that is refused. *)
TouchActivity(u) ==
    /\ SeatsOf(state, u) # {}
    /\ Publish(RecordActivity(state, u))
    /\ UNCHANGED <<commits, syncs, bank, bounds, minted>>

(***************************************************************************)
(* The answer of the bank to a commit, and what the table makes of it.     *)
(***************************************************************************)
Answered(c, pc) == commits' = (commits \ {c}) \cup {[c EXCEPT !.pc = pc]}

(* Mutant: a commit that the bank refuses is taken for paid. *)
DebitBetUnanswered(c) ==
    /\ c.pc = "debiting"
    /\ bank' = IF CanDeduct(bank, c.user, c.amount) THEN Deduct(bank, c.user, c.amount)
               ELSE bank
    /\ Answered(c, "taken")
    /\ UNCHANGED <<state, settling, syncs, bounds, minted>>

DebitBet(c) ==
    /\ c.pc = "debiting"
    /\ \/ /\ CanDeduct(bank, c.user, c.amount)
          /\ bank' = Deduct(bank, c.user, c.amount)
          /\ Answered(c, "taken")
          /\ UNCHANGED <<bounds, minted>>
       \/ /\ ~CanDeduct(bank, c.user, c.amount)
          /\ Answered(c, "refused")
          /\ UNCHANGED <<bank, bounds, minted>>
       \/ /\ bounds.failures > 0 /\ Spend("failures")
          /\ Answered(c, "refused")
          /\ \/ UNCHANGED <<bank, minted>>
             \/ /\ CanDeduct(bank, c.user, c.amount)
                /\ bank' = Deduct(bank, c.user, c.amount)
                /\ minted' = minted - c.amount
    /\ UNCHANGED <<state, settling, syncs>>

(* finish_blind_posting *)
FinishBlindPosting(s) ==
    LET t == [s EXCEPT !.current_bet = Max({s.seat[i].street_bet : i \in Seats}),
                       !.min_raise = BIG_BLIND]
    IN  CASE Cardinality(Active(t)) = 1 -> FinishByFold(t, CHOOSE w \in Active(t) : TRUE)
          [] Active(t) = {} -> AbandonHand(t)
          [] Cardinality(Active(t)) > 1 /\ Actionable(t) = {} ->
                FinishShowdown([t EXCEPT !.phase = "PreFlop", !.active_seat = NoSeat])
          [] OTHER -> [t EXCEPT !.phase = "PreFlop",
                                !.active_seat = After(t.big_blind_seat, Actionable(t))]

BlindAnswered(s) ==
    LET t == [s EXCEPT !.pending_blinds = Max({@ - 1, 0})]
    IN  IF t.pending_blinds = 0 THEN FinishBlindPosting(t) ELSE t

(* Mutant: any raise reopens the action. *)
FullRaiseAlways(s, p) == p.target > s.current_bet
FullRaise(s, p) ==
    /\ p.target > s.current_bet
    /\ Max({p.raise, p.target - s.current_bet}) >= s.min_raise

(* The chips of a commit are in the pot: the seat's bet and, if it raises, *)
(* the bet to match; a full raise reopens the action of the others.        *)
InPot(s, i) ==
    LET p == s.seat[i].pending
        x == [s.seat[i] EXCEPT
                !.pending = NoCommit, !.stack = @ - p.amount,
                !.committed = @ + p.amount, !.street_bet = @ + p.amount,
                !.all_in = @ \/ s.seat[i].stack = p.amount, !.acted = ~p.blind]
    IN  [s EXCEPT
            !.seat = [j \in Seats |->
                IF j = i THEN x
                ELSE IF FullRaise(s, p) /\ HandRuns(s) /\ j \in Active(s)
                THEN [s.seat[j] EXCEPT !.acted = FALSE]
                ELSE s.seat[j]],
            !.current_bet = Max({s.current_bet, p.target}),
            !.min_raise = IF FullRaise(s, p)
                          THEN Max({p.raise, p.target - s.current_bet}) ELSE @]

Matches(s, c) == s.seat[c.seat].pending.id = c.id

ApplyCommitSuccess(c) ==
    /\ c.pc = "taken" /\ Matches(state, c)
    /\ LET t == InPot(state, c.seat)
       IN  Publish(IF state.phase = "PostingBlinds" THEN BlindAnswered(t)
                   ELSE AdvanceAfterAction(t, c.seat))
    /\ commits' = commits \ {c}
    /\ UNCHANGED <<syncs, bank, bounds, minted>>

(* Mutant: a refused commit stays pending. *)
ApplyCommitFailureIgnored(c) ==
    /\ c.pc = "refused" /\ Matches(state, c)
    /\ commits' = commits \ {c}
    /\ UNCHANGED <<state, settling, syncs, bank, bounds, minted>>

ApplyCommitFailure(c) ==
    /\ c.pc = "refused" /\ Matches(state, c)
    /\ LET t == [state EXCEPT !.seat[c.seat].pending = NoCommit]
       IN  Publish(IF state.phase = "PostingBlinds"
                   THEN BlindAnswered([t EXCEPT !.seat[c.seat].folded = TRUE])
                   ELSE t)
    /\ commits' = commits \ {c}
    /\ UNCHANGED <<syncs, bank, bounds, minted>>

(* The seat no longer waits for this commit: its chips are gone. *)
CommitTooLate(c) ==
    /\ c.pc \in {"taken", "refused"} /\ ~Matches(state, c)
    /\ Publish(state)
    /\ commits' = commits \ {c}
    /\ minted' = IF c.pc = "taken" THEN minted - c.amount ELSE minted
    /\ UNCHANGED <<syncs, bank, bounds>>

(***************************************************************************)
(* The turn timer.  When a deadline passes, and when the five idle minutes *)
(* of a seat are over, is left open.                                       *)
(***************************************************************************)
DeadlinePasses ==
    /\ state.deadline = "running"
    /\ state' = [state EXCEPT !.deadline = "due"]
    /\ OnlyState

(* timeout_active_action, run by the task of the running countdown. *)
TimeoutActiveAction ==
    LET i      == state.active_seat
        missed == Min({state.seat[i].missed_actions + 1, MAX_MISSED_ACTIONS})
        leaves == state.seat[i].leave_after_hand \/ missed >= MAX_MISSED_ACTIONS
    IN  /\ state.deadline = "due" /\ state.timer_task
        /\ HandRuns(state) /\ i = state.countdown_seat
        /\ Publish(CheckOrFold(
              [ClearCountdown(state) EXCEPT
                  !.seat[i] = [@ EXCEPT !.missed_actions = missed,
                                        !.leave_after_hand = leaves]], i))
        /\ UNCHANGED <<commits, syncs, bank, bounds, minted>>

(* kick_inactive_user, run once by the task of the seat's last activity.   *)
Idle(u, i) == u \in bounds.leavers /\ state.seat[i].user = u /\ state.seat[i].armed
Wakes(s, i) == [s EXCEPT !.seat[i].armed = FALSE]

KickFolds(u, i) ==
    /\ Idle(u, i)
    /\ HandRuns(state) /\ state.seat[i].cards > 0
    /\ Publish(FoldAndLeave(Wakes(state, i), i))
    /\ UNCHANGED <<commits, syncs, bank, bounds, minted>>

KickRemoves(u, i) ==
    /\ Idle(u, i)
    /\ state.phase \in {"Waiting", "Showdown"} /\ ~state.settlement_pending
    /\ Publish(RemoveSeats(state, {i}))
    /\ UNCHANGED <<commits, syncs, bank, bounds, minted>>

(* The seat cannot leave now, and the task ends without a successor. *)
KickSkipped(u, i) ==
    /\ Idle(u, i)
    /\ \/ HandRuns(state) /\ state.seat[i].cards = 0
       \/ state.phase = "PostingBlinds"
       \/ ~HandRuns(state) /\ state.settlement_pending
    /\ state' = Wakes(state, i)
    /\ OnlyState

(***************************************************************************)
(* Settlement tasks write one account after the other, and then report to  *)
(* the table.                                                              *)
(***************************************************************************)
Becomes(task, new) == settling' = (settling \ {task}) \cup {new}

PersistSettlement(task) ==
    LET x    == Head(task.todo)
        paid == IF x.credit = 0 THEN RestoreFloor(bank, x.user)
                ELSE AddBonus(bank, x.user, x.credit)
        rest == [task EXCEPT !.todo = Tail(@)]
    IN  /\ task.todo # <<>>
        /\ \/ /\ bank' = paid
              /\ minted' = minted + IF x.credit = 0 THEN FloorGrant(bank, x.user) ELSE 0
              /\ Becomes(task, [rest EXCEPT !.done = @ \cup {x}])
              /\ UNCHANGED bounds
           \/ /\ bounds.failures > 0 /\ Spend("failures")
              /\ UNCHANGED bank
              /\ minted' = minted - x.credit
              /\ Becomes(task, [rest EXCEPT !.failed = TRUE])
        /\ UNCHANGED <<state, commits, syncs>>

Won(task, u) ==
    LET won == {x \in task.done : x.user = u}
    IN  SumFunctionOnSet([x \in won |-> x.credit], won)

CompleteSettlements(task) ==
    /\ task.todo = <<>> /\ ~task.failed
    /\ LET t == [state EXCEPT !.seat = [i \in Seats |->
                    IF i \in Occupied(state)
                    THEN [state.seat[i] EXCEPT !.stack = @ + Won(task, state.seat[i].user)]
                    ELSE state.seat[i]]]
       IN  state' = [RemoveSeats(t, LeavingSeats(t)) EXCEPT !.settlement_pending = FALSE]
    /\ settling' = settling \ {task}
    /\ UNCHANGED <<commits, syncs, bank, bounds, minted>>

(* Some account could not be written: no stack is topped up. *)
SettlementFailed(task) ==
    /\ task.todo = <<>> /\ task.failed
    /\ state' = [state EXCEPT !.settlement_pending = FALSE]
    /\ settling' = settling \ {task}
    /\ UNCHANGED <<commits, syncs, bank, bounds, minted>>

(***************************************************************************)
(* Balances that change away from the table.  A client that learns of one  *)
(* sends it to the table if no hand is shown to run; by then the balance   *)
(* may be old, and by the time the task runs a hand may have begun.        *)
(***************************************************************************)
SpendElsewhere(u) ==
    /\ bounds.spends > 0 /\ Spend("spends")
    /\ CanDeduct(bank, u, 1)
    /\ bank' = Deduct(bank, u, 1)
    /\ minted' = minted - 1
    /\ UNCHANGED <<state, commits, settling, syncs>>

SyncExternalChipBalance(u) ==
    /\ bounds.syncs > 0 /\ Spend("syncs")
    /\ state.phase \in {"Waiting", "Showdown"} /\ ~state.settlement_pending
    /\ syncs' = syncs \cup {[user |-> u, balance |-> bank[u]]}
    /\ UNCHANGED <<state, commits, settling, bank, minted>>

(* The table stack is never topped up, only cut to the balance. *)
SyncBalance(x) ==
    /\ state' = [state EXCEPT !.seat = [i \in Seats |->
          IF state.seat[i].user = x.user
          THEN [state.seat[i] EXCEPT !.stack = Min({@, x.balance})]
          ELSE state.seat[i]]]
    /\ syncs' = syncs \ {x}
    /\ UNCHANGED <<commits, settling, bank, bounds, minted>>

-------------------------------------------------------------------------------
(* Users with a stack sit at the first seats, in no particular order.      *)
InitialSeats(stacks) ==
    {f \in [Seats -> Users \cup {NoUser}] :
        /\ \A u \in Users :
              Cardinality({i \in Seats : f[i] = u}) = (IF stacks[u] > 0 THEN 1 ELSE 0)
        /\ \A i \in Seats : f[i] = NoUser => \A j \in i .. MAX_SEATS : f[j] = NoUser}

Init ==
    /\ bounds \in Instances
    /\ \E f \in InitialSeats(bounds.stacks) :
          state = [phase |-> "Waiting",
                   seat |-> [i \in Seats |->
                       IF f[i] = NoUser THEN EmptySeat
                       ELSE [EmptySeat EXCEPT !.user = f[i], !.armed = TRUE,
                                              !.stack = bounds.stacks[f[i]]]],
                   dealer_button |-> NoSeat, big_blind_seat |-> NoSeat,
                   active_seat |-> NoSeat, current_bet |-> 0, min_raise |-> BIG_BLIND,
                   pending_blinds |-> 0, deadline |-> "none", countdown_seat |-> NoSeat,
                   timer_task |-> FALSE, settlement_pending |-> FALSE, due |-> <<>>]
    /\ commits = {} /\ settling = {} /\ syncs = {}
    /\ bank = Ensured(Users)
    /\ minted = 0

SeatStep ==
    \E u \in Users :
        \/ Sit(u) \/ StartHand(u) \/ TouchActivity(u)
        \/ \E i \in Seats :
              LeaveDuringHand(u, i) \/ LeaveTable(u, i) \/ ToggleAutoCheckFold(u, i)

TurnStep ==
    \E u \in Users, i \in Seats :
        \/ Check(u, i) \/ Fold(u, i) \/ Call(u, i) \/ AllIn(u, i)
        \/ \E size \in RaiseSizes : BetOrRaise(u, i, size)

CommitStep ==
    \E c \in commits :
        DebitBet(c) \/ ApplyCommitSuccess(c) \/ ApplyCommitFailure(c) \/ CommitTooLate(c)

TimerStep == DeadlinePasses \/ TimeoutActiveAction

KickStep ==
    \E u \in Users, i \in Seats : KickFolds(u, i) \/ KickRemoves(u, i) \/ KickSkipped(u, i)

SettleStep ==
    \E task \in settling :
        PersistSettlement(task) \/ CompleteSettlements(task) \/ SettlementFailed(task)

BalanceStep ==
    \/ \E u \in Users : SpendElsewhere(u) \/ SyncExternalChipBalance(u)
    \/ \E x \in syncs : SyncBalance(x)

Next ==
    SeatStep \/ TurnStep \/ CommitStep \/ TimerStep \/ KickStep \/ SettleStep \/ BalanceStep

Spec == Init /\ [][Next]_vars

(* Tasks run, deadlines pass and the bank answers; users do as they like.  *)
Fairness ==
    WF_vars(CommitStep) /\ WF_vars(DeadlinePasses) /\ WF_vars(TimeoutActiveAction)
    /\ WF_vars(SettleStep)

FairSpec == Spec /\ Fairness

-------------------------------------------------------------------------------
SeatType ==
    [user : Users \cup {NoUser}, stack : Int, cards : Nat, folded : BOOLEAN,
     all_in : BOOLEAN, acted : BOOLEAN, leave_after_hand : BOOLEAN,
     auto_check_fold : BOOLEAN, committed : Nat, street_bet : Nat,
     pending : [id : Nat, blind : BOOLEAN, amount : Nat, target : Nat, raise : Nat],
     missed_actions : 0 .. MAX_MISSED_ACTIONS, armed : BOOLEAN]

Settlement == [user : Users, credit : Nat]

SharedState ==
    [phase : Phases, seat : [Seats -> SeatType], dealer_button : Seats \cup {NoSeat},
     big_blind_seat : Seats \cup {NoSeat}, active_seat : Seats \cup {NoSeat},
     current_bet : Nat, min_raise : Nat, pending_blinds : 0 .. 2,
     deadline : {"none", "running", "due"}, countdown_seat : Seats \cup {NoSeat},
     timer_task : BOOLEAN, settlement_pending : BOOLEAN, due : Seq(Settlement)]

CommitType ==
    [id : Nat \ {0}, user : Users, seat : Seats, amount : Nat \ {0},
     pc : {"debiting", "taken", "refused"}]

TaskType ==
    [todo : Seq(Settlement), done : SUBSET Settlement, failed : BOOLEAN]

(* The types of the variables.  A balance is never negative, and what is   *)
(* bet, committed and paid never is; a stack can be, see the README.       *)
TypeOK ==
    /\ state \in SharedState /\ state.due = <<>>
    /\ commits \subseteq CommitType
    /\ settling \subseteq TaskType
    /\ syncs \subseteq [user : Users, balance : Nat]
    /\ bank \in [Users -> Nat] /\ minted \in Int
    /\ bounds \in Instance

(***************************************************************************)
(* While a hand runs two players contend for the pot and one of them can   *)
(* act, and either the bank holds a commit of that seat or a live task     *)
(* will end the turn: through every fold, leave, kick and refused commit,  *)
(* the table never waits for nobody.                                       *)
(***************************************************************************)
TurnIsServed ==
    HandRuns(state) =>
        /\ Cardinality(Active(state)) > 1
        /\ state.active_seat \in Actionable(state)
        /\ \/ \E c \in commits : c.seat = state.active_seat /\ Matches(state, c)
           \/ /\ state.deadline # "none" /\ state.timer_task
              /\ state.countdown_seat = state.active_seat

(***************************************************************************)
(* A street closes, and a showdown starts, only on equal bets: whatever    *)
(* they raised, called or were refused, players who can still act have put *)
(* the same into the pot, and nobody who is all in has put in more.        *)
(***************************************************************************)
ClosedBet(i) ==
    state.seat[i].committed - IF HandRuns(state) THEN state.seat[i].street_bet ELSE 0
StreetsCloseEven ==
    HandRuns(state) \/ state.phase = "Showdown" =>
        \A i \in Actionable(state), j \in Active(state) :
            /\ ClosedBet(j) <= ClosedBet(i)
            /\ j \in Actionable(state) => ClosedBet(j) = ClosedBet(i)

(***************************************************************************)
(* Chips that the bank has taken for a commit find their seat waiting, in  *)
(* the hand they were bet in.                                              *)
(***************************************************************************)
CommitsLand ==
    \A c \in commits :
        /\ Matches(state, c) /\ state.seat[c.seat].pending.amount = c.amount
        /\ state.phase = "PostingBlinds" \/ HandRuns(state)

(***************************************************************************)
(* No chip appears or disappears between the accounts, the commits on      *)
(* their way, the pot and the settlements still to be written.             *)
(***************************************************************************)
Taken == {c \in commits : c.pc = "taken"}
OnTheirWay == SumFunctionOnSet([c \in Taken |-> c.amount], Taken)
InPlay == IF RoundActive(state) THEN Pot(Committed(state)) ELSE 0
Credits(todo) == SumFunctionOnSet([k \in DOMAIN todo |-> todo[k].credit], DOMAIN todo)
Owed == SumFunctionOnSet([task \in settling |-> Credits(task.todo)], settling)

Chips == SumFunctionOnSet(bank, Users) + OnTheirWay + InPlay + Owed

ChipsConserved == Chips = Cardinality(Users) * INITIAL_CHIP_BALANCE + minted

(***************************************************************************)
(* What the code leaves to nobody when a hand ends, a side pot for which   *)
(* nobody contends and a pot whose winner has no chips in it, is all that  *)
(* is ever lost: the rest of the pot is owed to the winners, to the chip.  *)
(***************************************************************************)
Forgone(s) ==
    IF Cardinality(Active(s)) = 1
    THEN IF \E i \in Active(s) : s.seat[i].committed = 0 THEN Pot(Committed(s)) ELSE 0
    ELSE Unclaimed(Committed(s), Active(s))

ChipsAccounted ==
    [][Chips' - minted' =
          Chips - minted - IF RoundActive(state) /\ ~RoundActive(state') THEN Forgone(state') ELSE 0]_vars

(***************************************************************************)
(* A user marked to leave, whether by a leave, a kick or missed turns, is  *)
(* never dealt another hand.                                               *)
(***************************************************************************)
LeaversAreNotDealt ==
    [][state'.phase = "PostingBlinds" /\ state.phase # "PostingBlinds" =>
          \A i \in Seats : state.seat[i].leave_after_hand =>
              state'.seat[i].user = NoUser]_vars

(***************************************************************************)
(* A short all-in does not reopen the action: a seat that has acted acts   *)
(* again on the same street only if a full raise came in between.          *)
(***************************************************************************)
ActionReopensOnFullRaise ==
    [][\A i \in Seats :
          /\ state.seat[i].acted /\ ~state'.seat[i].acted
          /\ state'.phase = state.phase /\ HandRuns(state)
          /\ state'.seat[i].user = state.seat[i].user
          => state'.current_bet - state.current_bet >= state.min_raise]_vars

(***************************************************************************)
(* Every hand ends, unless users try commits that the bank refuses forever.*)
(***************************************************************************)
HandEnds ==
    \/ []<>(\E c \in commits : c.pc = "refused")
    \/ HandRuns(state) ~> ~HandRuns(state)
==============================================================================
