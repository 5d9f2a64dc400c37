------------------------------- MODULE Blackjack -------------------------------
(***************************************************************************)
(* One blackjack table of late-ssh: the state behind the table's mutex,    *)
(* the asynchronous tasks that lock it (player requests, countdowns, the   *)
(* dealer, inactivity kicks) and the chip accounts they debit and credit   *)
(* while the mutex is released.                                            *)
(*                                                                         *)
(* An action is one critical section of the mutex, or one statement of the *)
(* chip database.  A request that debits chips takes three actions: it     *)
(* marks its seat pending, the database answers, and the answer is applied *)
(* to the seat in a second critical section.                               *)
(***************************************************************************)
EXTENDS Integers, FiniteSets, Functions, Chips, BlackjackHands

CONSTANTS
    Users, NoUser,     \* the accounts, and the user of an empty seat
    MAX_SEATS,         \* seats at the table
    MinBet, MaxBet,    \* the table's limits
    ChipDenominations, \* the chips that can be thrown on a stake
    MaxMissedDeals,    \* MAX_MISSED_DEALS
    Requests,          \* slots for concurrent request tasks
    DbCanFail,         \* whether a chip statement may fail
    MaxDealerDraws,    \* bound: cards the dealer can draw to a hand
    MaxRounds          \* bound: rounds that are dealt

Seats == 1 .. MAX_SEATS

ASSUME BlackjackAssumption ==
    /\ NoUser \notin Users
    /\ MAX_SEATS \in Nat
    /\ MinBet \in Nat \ {0} /\ MaxBet \in Nat /\ MinBet <= MaxBet
    /\ ChipDenominations \subseteq MinBet .. MaxBet
    /\ MaxMissedDeals \in Nat \ {0}
    /\ DbCanFail \in BOOLEAN
    /\ MaxDealerDraws \in Nat \ {0}
    /\ MaxRounds \in Nat

VARIABLES
    phase,                 \* of the table
    seats,                 \* what each seat holds
    dealer, draws,         \* the dealer's hand, and the cards drawn to it
    betting_deadline, betting_countdown_id,
    action_deadline, action_countdown_id,
    dealer_turn_id,
    dealTasks, actionTasks, dealerTasks,   \* ids of the spawned timer tasks
    request,               \* what each request task is doing
    unpaid,                \* settlements not yet written to the accounts
    bank,                  \* the chip accounts
    round, net             \* history: rounds dealt, net result of each user

timers == <<betting_deadline, betting_countdown_id, dealTasks,
            action_deadline, action_countdown_id, actionTasks>>
dealing == <<dealer, draws, dealer_turn_id, dealerTasks>>
accounts == <<unpaid, bank, net>>
vars == <<phase, seats, dealing, timers, request, accounts, round>>

Phases == {"Betting", "PlayerTurn", "DealerTurn", "Settling"}
Deadlines == {"none", "running", "due"}
DeferredLeaveReasons == {"Idle", "MissedAction"}

(***************************************************************************)
(* Seats.  An amount of 0 stands for Option::None.  "armed" says that an   *)
(* inactivity task with the seat's current activity generation exists;     *)
(* a task of an older generation does nothing when it wakes.               *)
(***************************************************************************)
EmptySeat ==
    [user |-> NoUser, stake |-> 0, pending_bet |-> 0, bet |-> 0,
     pending_double |-> FALSE, hand |-> "none", stood |-> FALSE,
     resolved |-> FALSE, missed_deals |-> 0, armed |-> FALSE,
     deferred_leave_reason |-> "none"]

Occupied(seat) == seat.user # NoUser
HasUnresolvedBet(seat) == seat.bet > 0 /\ ~seat.resolved
Playable(seat) == HasUnresolvedBet(seat) /\ ~seat.stood
HasPendingBets(ss) == \E s \in Seats : ss[s].pending_bet > 0
HasBets(ss) == \E s \in Seats : ss[s].bet > 0

(* Mutant: one locked bet deals. *)
AnyBetReady(ss) == HasBets(ss)

AllSeatedBetsReady(ss) ==
    /\ \E s \in Seats : Occupied(ss[s])
    /\ \A s \in Seats :
          Occupied(ss[s]) => ss[s].bet > 0 /\ ss[s].pending_bet = 0

RecordActivity(seat) == [seat EXCEPT !.armed = TRUE]

ClearRound(seat) ==
    [seat EXCEPT !.pending_bet = 0, !.bet = 0, !.pending_double = FALSE,
                 !.stake = 0, !.hand = "none", !.stood = FALSE,
                 !.resolved = FALSE]

(* Mutant: the seat is lost one missed deal too late. *)
MissDealOnceMore(seat) ==
    IF seat.missed_deals + 1 > MaxMissedDeals
    THEN EmptySeat
    ELSE [seat EXCEPT !.missed_deals = @ + 1]

(* A seated user without a bet misses the deal, and in the end the seat. *)
MissDeal(seat) ==
    IF seat.missed_deals + 1 >= MaxMissedDeals
    THEN EmptySeat
    ELSE [seat EXCEPT !.missed_deals = @ + 1]

(***************************************************************************)
(* Settlements.  An outcome function maps the seats that are finished in a *)
(* critical section to their outcomes; the credits are written to the      *)
(* accounts later, without the mutex.                                      *)
(***************************************************************************)
NoOutcome == [s \in {} |-> "DealerWin"]
Bust(s) == [x \in {s} |-> "DealerWin"]

(* Mutants: no outcome is recorded; finished seats are not marked. *)
FinishSeatUnrecorded(seat) == [seat EXCEPT !.stood = FALSE]
UnmarkedFinished(ss, outcome) == ss

FinishSeat(seat) == [seat EXCEPT !.resolved = TRUE, !.stood = FALSE]

Finished(ss, outcome) ==
    [s \in Seats |-> IF s \in DOMAIN outcome THEN FinishSeat(ss[s]) ELSE ss[s]]

NetChange(ss, outcome, u) ==
    LET mine == {s \in DOMAIN outcome : ss[s].user = u}
        s    == CHOOSE x \in mine : TRUE
    IN  IF mine = {} THEN 0 ELSE PayoutCredit(ss[s].bet, outcome[s]) - ss[s].bet

Settle(ss, outcome, r) ==
    /\ unpaid' = unpaid \cup
          {[user |-> ss[s].user, round |-> r,
            credit |-> PayoutCredit(ss[s].bet, outcome[s])] : s \in DOMAIN outcome}
    /\ net' = [u \in Users |-> net[u] + NetChange(ss, outcome, u)]
    /\ UNCHANGED bank

(* Mutant: only idle seats leave. *)
RemoveIdleSeats(ss, ph) ==
    [s \in Seats |->
        IF ss[s].deferred_leave_reason = "Idle" /\ (ss[s].resolved \/ ph = "Settling")
        THEN EmptySeat ELSE ss[s]]

RemoveDeferredLeaveSeats(ss, ph) ==
    [s \in Seats |->
        IF /\ ss[s].deferred_leave_reason # "none"
           /\ ss[s].resolved \/ ph = "Settling"
        THEN EmptySeat ELSE ss[s]]

(***************************************************************************)
(* Changes of phase, applied to the seats ss that a critical section has   *)
(* already updated.                                                        *)
(***************************************************************************)
(* Mutant: no task is spawned for the dealer. *)
BeginDealerTurnUnscheduled ==
    /\ phase' = "DealerTurn"
    /\ action_deadline' = "none"
    /\ dealer_turn_id' = dealer_turn_id + 1
    /\ UNCHANGED dealerTasks

BeginDealerTurn ==
    /\ phase' = "DealerTurn"
    /\ action_deadline' = "none"
    /\ dealer_turn_id' = dealer_turn_id + 1
    /\ dealerTasks' = dealerTasks \cup {dealer_turn_id'}

(* What remains of a player's step once ss holds its effect. *)
AdvanceOrFinishRound(ss) ==
    \/ /\ \E s \in Seats : Playable(ss[s])
       /\ phase' = "PlayerTurn"
       /\ seats' = ss
       /\ UNCHANGED <<action_deadline, dealer_turn_id, dealerTasks>>
    \/ /\ \A s \in Seats : ~HasUnresolvedBet(ss[s])
       /\ phase' = "Settling"
       /\ seats' = RemoveDeferredLeaveSeats(ss, "Settling")
       /\ action_deadline' = "none"
       /\ UNCHANGED <<dealer_turn_id, dealerTasks>>
    \/ /\ \A s \in Seats : ~Playable(ss[s])
       /\ \E s \in Seats : HasUnresolvedBet(ss[s])
       /\ seats' = ss
       /\ BeginDealerTurn

(* The seats as start_round leaves them, before any card is dealt. *)
ClearedForDeal(ss) ==
    [s \in Seats |->
        LET clean == [ss[s] EXCEPT !.stake = 0, !.hand = "none",
                                   !.stood = FALSE, !.resolved = FALSE]
        IN  IF ss[s].bet > 0         THEN [clean EXCEPT !.missed_deals = 0]
            ELSE IF Occupied(ss[s])  THEN MissDeal(clean)
            ELSE clean]

(* Mutant: the timeout task is not spawned. *)
StartActionCountdownUnscheduled ==
    /\ action_countdown_id' = action_countdown_id + 1
    /\ action_deadline' = "running"
    /\ UNCHANGED <<actionTasks, dealer_turn_id, dealerTasks>>

StartActionCountdown ==
    /\ action_countdown_id' = action_countdown_id + 1
    /\ action_deadline' = "running"
    /\ actionTasks' = actionTasks \cup {action_countdown_id'}
    /\ UNCHANGED <<dealer_turn_id, dealerTasks>>

(* start_round, with the countdown or the dealer task its callers spawn. *)
StartRound(ss) ==
    LET cleared == ClearedForDeal(ss)
        players == {s \in Seats : cleared[s].bet > 0}
    IN  \E hands \in [players -> DealtHands], d \in DealtDealerHands :
          LET naturals == {s \in players : hands[s] = "natural" /\ d # "natural"}
              outcome  == [s \in naturals |->
                              CHOOSE o \in SettleOutcomes(hands[s], d) : TRUE]
              dealt    == [s \in Seats |->
                              IF s \in players
                              THEN [cleared[s] EXCEPT !.hand = hands[s]]
                              ELSE cleared[s]]
              ss2      == Finished(dealt, outcome)
          IN  /\ dealer' = d /\ draws' = 0
              /\ round' = round + 1
              /\ betting_deadline' = "none"
              /\ UNCHANGED betting_countdown_id
              /\ seats' = ss2
              /\ Settle(dealt, outcome, round + 1)
              /\ \/ /\ d = "natural"
                    /\ BeginDealerTurn
                    /\ UNCHANGED <<action_countdown_id, actionTasks>>
                 \/ /\ d # "natural"
                    /\ \E s \in Seats : Playable(ss2[s])
                    /\ phase' = "PlayerTurn"
                    /\ StartActionCountdown
                 \/ /\ d # "natural"
                    /\ \A s \in Seats : ~Playable(ss2[s])
                    /\ phase' = "Settling"
                    /\ action_deadline' = "none"
                    /\ UNCHANGED <<action_countdown_id, actionTasks,
                                   dealer_turn_id, dealerTasks>>

(***************************************************************************)
(* The table is created empty; every account has just been opened.         *)
(***************************************************************************)
NoRequest == [pc |-> "idle", user |-> NoUser, amount |-> 0]

Init ==
    /\ phase = "Betting"
    /\ seats = [s \in Seats |-> EmptySeat]
    /\ dealer = "none" /\ draws = 0 /\ dealer_turn_id = 0
    /\ betting_deadline = "none" /\ betting_countdown_id = 0
    /\ action_deadline = "none" /\ action_countdown_id = 0
    /\ dealTasks = {} /\ actionTasks = {} /\ dealerTasks = {}
    /\ request = [r \in Requests |-> NoRequest]
    /\ unpaid = {}
    /\ bank = Ensured(Users)
    /\ round = 0 /\ net = [u \in Users |-> 0]

(***************************************************************************)
(* Seats and stakes.  A user with no seat is turned away unchanged.        *)
(***************************************************************************)
OnlySeats == UNCHANGED <<phase, dealing, timers, request, accounts, round>>

(* The lowest free seat is taken; nobody sits twice. *)
Sit(u, s) ==
    /\ \A t \in Seats : seats[t].user # u
    /\ ~Occupied(seats[s])
    /\ \A t \in 1 .. s - 1 : Occupied(seats[t])
    /\ seats' = [seats EXCEPT ![s] = RecordActivity([@ EXCEPT !.user = u])]
    /\ OnlySeats

(* Mutant: only a pending bet holds the seat. *)
LeaveWithLockedBet(u, s) ==
    /\ seats[s].user = u
    /\ phase = "Settling" \/ seats[s].pending_bet = 0
    /\ seats' = [seats EXCEPT ![s] = EmptySeat]
    /\ OnlySeats

LeaveSeat(u, s) ==
    /\ seats[s].user = u
    /\ phase = "Settling" \/ (seats[s].bet = 0 /\ seats[s].pending_bet = 0)
    /\ seats' = [seats EXCEPT ![s] = EmptySeat]
    /\ OnlySeats

TouchActivity(u, s) ==
    /\ seats[s].user = u
    /\ seats' = [seats EXCEPT ![s] = RecordActivity(@)]
    /\ OnlySeats

(* The seat at which u may build a stake (stake_seat_index). *)
CanStake(u, s) ==
    /\ seats[s].user = u
    /\ phase = "Betting"
    /\ seats[s].bet = 0 /\ seats[s].pending_bet = 0

ThrowChip(u, s, chip) ==
    /\ CanStake(u, s)
    /\ seats[s].stake + chip <= MaxBet
    /\ seats' = [seats EXCEPT ![s] = RecordActivity([@ EXCEPT !.stake = seats[s].stake + chip])]
    /\ OnlySeats

(* The chip thrown last; the order of a stake's chips is abstracted away. *)
PullStakeChip(u, s, chip) ==
    /\ CanStake(u, s)
    /\ seats[s].stake >= chip
    /\ seats' = [seats EXCEPT ![s] = RecordActivity([@ EXCEPT !.stake = seats[s].stake - chip])]
    /\ OnlySeats

ClearStake(u, s) ==
    /\ CanStake(u, s)
    /\ seats' = [seats EXCEPT ![s] = RecordActivity([@ EXCEPT !.stake = 0])]
    /\ OnlySeats

(***************************************************************************)
(* Bets.  submit_stake reads the stake in a critical section of its own,   *)
(* so the amount can be stale when place_bet marks the seat.               *)
(***************************************************************************)
SubmitStake(r, u, s) ==
    /\ request[r].pc = "idle"
    /\ round < MaxRounds
    /\ CanStake(u, s)
    /\ seats[s].stake > 0
    /\ request' = [request EXCEPT ![r] =
           [pc |-> "submitted", user |-> u, amount |-> seats[s].stake]]
    /\ UNCHANGED <<phase, seats, dealing, timers, accounts, round>>

MarkBetPending(r, s) ==
    /\ request[r].pc = "submitted"
    /\ round < MaxRounds
    /\ CanStake(request[r].user, s)
    /\ request[r].amount \in MinBet .. MaxBet
    /\ seats' = [seats EXCEPT ![s] = RecordActivity(
           [@ EXCEPT !.pending_bet = request[r].amount, !.stake = 0])]
    /\ request' = [request EXCEPT ![r].pc = "debiting bet"]
    /\ UNCHANGED <<phase, dealing, timers, accounts, round>>

(* NotSeated, TableBusy or AlreadyBet: the table moved on since the read. *)
RejectBet(r) ==
    /\ request[r].pc = "submitted"
    /\ \A s \in Seats : ~CanStake(request[r].user, s)
    /\ request' = [request EXCEPT ![r] = NoRequest]
    /\ UNCHANGED <<phase, seats, dealing, timers, accounts, round>>

(* Mutant: the task is given the id before it is advanced. *)
EnsureCountdownOldId ==
    /\ IF betting_deadline = "none"
       THEN /\ betting_countdown_id' = betting_countdown_id + 1
            /\ betting_deadline' = "running"
       ELSE UNCHANGED <<betting_countdown_id, betting_deadline>>
    /\ dealTasks' = dealTasks \cup {betting_countdown_id}

(* ensure_betting_countdown, with the auto-deal task its caller spawns. *)
EnsureBettingCountdown ==
    /\ IF betting_deadline = "none"
       THEN /\ betting_countdown_id' = betting_countdown_id + 1
            /\ betting_deadline' = "running"
       ELSE UNCHANGED <<betting_countdown_id, betting_deadline>>
    /\ dealTasks' = dealTasks \cup {betting_countdown_id'}

(* The chips are taken: the bet is locked, and the last bet deals.  The    *)
(* code's branch for a user who is no longer seated is not modelled:       *)
(* PendingTracksDebit shows that it is never taken.                        *)
LockBet(r, s) ==
    /\ request[r].pc = "bet taken"
    /\ seats[s].user = request[r].user
    /\ request' = [request EXCEPT ![r] = NoRequest]
    /\ LET ss == [seats EXCEPT ![s] = RecordActivity(
                     [@ EXCEPT !.bet = seats[s].pending_bet, !.pending_bet = 0,
                               !.missed_deals = 0])]
       IN  \/ /\ AllSeatedBetsReady(ss)
              /\ StartRound(ss)
              /\ UNCHANGED dealTasks
           \/ /\ ~AllSeatedBetsReady(ss)
              /\ seats' = ss
              /\ EnsureBettingCountdown
              /\ UNCHANGED <<phase, dealing, action_deadline, action_countdown_id,
                             actionTasks, accounts, round>>

(* Mutant: the pending bet is not cleared. *)
ReleaseNothing(r, s) ==
    /\ request[r].pc = "bet refused"
    /\ seats[s].user = request[r].user
    /\ request' = [request EXCEPT ![r] = NoRequest]
    /\ UNCHANGED <<phase, seats, dealing, timers, accounts, round>>

(* Refused for lack of chips, or a database error: the seat is released. *)
ReleaseBet(r, s) ==
    /\ request[r].pc = "bet refused"
    /\ seats[s].user = request[r].user
    /\ seats' = [seats EXCEPT ![s].pending_bet = 0]
    /\ request' = [request EXCEPT ![r] = NoRequest]
    /\ UNCHANGED <<phase, dealing, timers, accounts, round>>

(***************************************************************************)
(* The player's turn.  All players act in parallel, each on an own hand.   *)
(***************************************************************************)
CanAct(u, s) ==
    /\ phase = "PlayerTurn"
    /\ seats[s].user = u
    /\ Playable(seats[s]) /\ ~seats[s].pending_double

(* A bust hand is settled at once; any other stays in play. *)
Hit(u, s) ==
    /\ CanAct(u, s)
    /\ \E hand \in AfterHit :
          LET drawn == [seats EXCEPT ![s] = RecordActivity([@ EXCEPT !.hand = hand])]
          IN  \/ /\ hand = "bust"
                 /\ Settle(drawn, Bust(s), round)
                 /\ AdvanceOrFinishRound(Finished(drawn, Bust(s)))
              \/ /\ hand # "bust"
                 /\ seats' = drawn
                 /\ UNCHANGED <<phase, action_deadline, dealer_turn_id,
                                dealerTasks, accounts>>
    /\ UNCHANGED <<dealer, draws, betting_deadline, betting_countdown_id, dealTasks,
                   action_countdown_id, actionTasks, request, round>>

Stand(u, s) ==
    /\ CanAct(u, s)
    /\ AdvanceOrFinishRound([seats EXCEPT ![s] = RecordActivity([@ EXCEPT !.stood = TRUE])])
    /\ UNCHANGED <<dealer, draws, betting_deadline, betting_countdown_id, dealTasks,
                   action_countdown_id, actionTasks, request, accounts, round>>

PrepareDoubleDown(r, u, s) ==
    /\ request[r].pc = "idle"
    /\ CanAct(u, s)
    /\ CanDouble(seats[s].hand)
    /\ seats' = [seats EXCEPT ![s] = RecordActivity([@ EXCEPT !.pending_double = TRUE])]
    /\ request' = [request EXCEPT ![r] =
           [pc |-> "debiting double", user |-> u, amount |-> seats[s].bet]]
    /\ UNCHANGED <<phase, dealing, timers, accounts, round>>

(* One card for twice the bet; the hand is bust or stands.  The guards of  *)
(* finish_double_down hold whenever the chips were taken: see              *)
(* PendingTracksDebit.                                                     *)
FinishDoubleDown(r, s) ==
    /\ request[r].pc = "double taken"
    /\ CanDouble(seats[s].hand)
    /\ phase = "PlayerTurn"
    /\ seats[s].user = request[r].user
    /\ seats[s].pending_double /\ Playable(seats[s])
    /\ request' = [request EXCEPT ![r] = NoRequest]
    /\ \E hand \in AfterHit :
          LET doubled == [seats EXCEPT ![s] = RecordActivity(
                            [@ EXCEPT !.pending_double = FALSE, !.bet = seats[s].bet * 2,
                                      !.hand = hand, !.stood = TRUE])]
              outcome == IF hand = "bust" THEN Bust(s) ELSE NoOutcome
          IN  /\ Settle(doubled, outcome, round)
              /\ AdvanceOrFinishRound(Finished(doubled, outcome))
    /\ UNCHANGED <<dealer, draws, betting_deadline, betting_countdown_id, dealTasks,
                   action_countdown_id, actionTasks, round>>

(* Refused, or a database error: only the seat's flag is cleared. *)
ClearPendingDouble(r, s) ==
    /\ request[r].pc = "double refused"
    /\ seats[s].user = request[r].user
    /\ seats' = [seats EXCEPT ![s].pending_double = FALSE]
    /\ request' = [request EXCEPT ![r] = NoRequest]
    /\ UNCHANGED <<phase, dealing, timers, accounts, round>>

(* Any seated user clears the table once the result has been on view; the  *)
(* 1.2 seconds of SETTLEMENT_MIN_VIEW_MS are time, which is not modelled.  *)
NextHand(u) ==
    /\ phase = "Settling"
    /\ \E s \in Seats : seats[s].user = u
    /\ phase' = "Betting"
    /\ dealer' = "none" /\ draws' = 0
    /\ betting_deadline' = "none" /\ action_deadline' = "none"
    /\ seats' = [s \in Seats |->
           IF seats[s].user = u THEN RecordActivity(ClearRound(seats[s]))
                                ELSE ClearRound(seats[s])]
    /\ UNCHANGED <<dealer_turn_id, dealerTasks, betting_countdown_id, dealTasks,
                   action_countdown_id, actionTasks, request, accounts, round>>

(***************************************************************************)
(* The chip database answers a debit, or writes a settlement.  A statement *)
(* that fails may still have been applied: its answer is what was lost.    *)
(***************************************************************************)
Answered(r, ok) ==
    request' = [request EXCEPT ![r].pc =
        IF @ = "debiting bet" THEN IF ok THEN "bet taken" ELSE "bet refused"
                              ELSE IF ok THEN "double taken" ELSE "double refused"]

DebitBet(r) ==
    /\ request[r].pc \in {"debiting bet", "debiting double"}
    /\ LET u == request[r].user
           amount == request[r].amount
       IN  \/ /\ CanDeduct(bank, u, amount)
              /\ bank' = Deduct(bank, u, amount)
              /\ Answered(r, TRUE)
              /\ UNCHANGED net
           \/ /\ ~CanDeduct(bank, u, amount) \/ DbCanFail
              /\ Answered(r, FALSE)
              /\ UNCHANGED <<bank, net>>
           \/ /\ DbCanFail
              /\ CanDeduct(bank, u, amount)
              /\ bank' = Deduct(bank, u, amount)
              /\ net' = [net EXCEPT ![u] = @ - amount]
              /\ Answered(r, FALSE)
    /\ UNCHANGED <<phase, seats, dealing, timers, unpaid, round>>

(* persist_settlements, one settlement: a failed write is only logged. *)
PersistSettlement(x) ==
    /\ x \in unpaid
    /\ unpaid' = unpaid \ {x}
    /\ \/ /\ x.credit = 0
          /\ bank' = RestoreFloor(bank, x.user)
          /\ net' = [net EXCEPT ![x.user] = @ + FloorGrant(bank, x.user)]
       \/ /\ x.credit > 0
          /\ bank' = AddBonus(bank, x.user, x.credit)
          /\ UNCHANGED net
       \/ /\ DbCanFail
          /\ net' = [net EXCEPT ![x.user] = @ - x.credit]
          /\ UNCHANGED bank
    /\ UNCHANGED <<phase, seats, dealing, timers, request, round>>

(***************************************************************************)
(* Deadlines pass on their own; the timer tasks poll them.                 *)
(***************************************************************************)
BettingDeadlinePasses ==
    /\ betting_deadline = "running"
    /\ betting_deadline' = "due"
    /\ UNCHANGED <<phase, seats, dealing, betting_countdown_id, dealTasks,
                   action_deadline, action_countdown_id, actionTasks,
                   request, accounts, round>>

ActionDeadlinePasses ==
    /\ action_deadline = "running"
    /\ action_deadline' = "due"
    /\ UNCHANGED <<phase, seats, dealing, betting_deadline, betting_countdown_id,
                   dealTasks, action_countdown_id, actionTasks,
                   request, accounts, round>>

(* Mutants: a countdown that has run out no longer matches. *)
CountdownRuns(id) ==
    phase = "Betting" /\ betting_deadline = "running" /\ betting_countdown_id = id
ActionCountdownRuns(id) ==
    phase = "PlayerTurn" /\ action_deadline = "running" /\ action_countdown_id = id

CountdownMatches(id) ==
    phase = "Betting" /\ betting_deadline # "none" /\ betting_countdown_id = id

ActionCountdownMatches(id) ==
    phase = "PlayerTurn" /\ action_deadline # "none" /\ action_countdown_id = id

(* The auto-deal task waits out the deadline and then the pending bets. *)
AutoDeal(id) ==
    /\ id \in dealTasks
    /\ CountdownMatches(id)
    /\ betting_deadline = "due"
    /\ ~HasPendingBets(seats)
    /\ HasBets(seats)
    /\ dealTasks' = dealTasks \ {id}
    /\ StartRound(seats)
    /\ UNCHANGED request

(* The action timeout stands every hand but those whose double is pending, *)
(* marks their seats to leave, and is not started again in this round.     *)
AutoStandRemaining(id) ==
    /\ id \in actionTasks
    /\ ActionCountdownMatches(id)
    /\ action_deadline = "due"
    /\ actionTasks' = actionTasks \ {id}
    /\ AdvanceOrFinishRound([s \in Seats |->
          IF Playable(seats[s]) /\ ~seats[s].pending_double
          THEN [seats[s] EXCEPT !.stood = TRUE,
                                !.deferred_leave_reason = "MissedAction"]
          ELSE seats[s]])
    /\ UNCHANGED <<dealer, draws, betting_deadline, betting_countdown_id, dealTasks,
                   action_countdown_id, request, accounts, round>>

(* Every DEALER_CARD_DELAY_MS the dealer draws one card, or settles. *)
DealerDraws(id) ==
    /\ id \in dealerTasks
    /\ phase = "DealerTurn" /\ dealer_turn_id = id
    /\ dealer = "drawing"
    /\ dealer' \in {h \in AfterDealerDraw : h = "drawing" => draws + 1 < MaxDealerDraws}
    /\ draws' = draws + 1
    /\ UNCHANGED <<phase, seats, dealer_turn_id, dealerTasks, timers, request,
                   accounts, round>>

FinishDealerTurn(id) ==
    /\ id \in dealerTasks
    /\ phase = "DealerTurn" /\ dealer_turn_id = id
    /\ dealer # "drawing"
    /\ dealerTasks' = dealerTasks \ {id}
    /\ phase' = "Settling"
    /\ \E outcome \in [{s \in Seats : HasUnresolvedBet(seats[s])} -> Outcomes] :
          /\ \A s \in DOMAIN outcome :
                outcome[s] \in SettleOutcomes(seats[s].hand, dealer)
          /\ Settle(seats, outcome, round)
          /\ seats' = RemoveDeferredLeaveSeats(Finished(seats, outcome), "Settling")
    /\ UNCHANGED <<dealer, draws, dealer_turn_id, timers, request, round>>

(* A task whose countdown or turn is over finds a mismatch and ends. *)
StaleTaskEnds ==
    /\ \/ \E id \in dealTasks :
             /\ ~CountdownMatches(id)
             /\ dealTasks' = dealTasks \ {id}
             /\ UNCHANGED <<actionTasks, dealerTasks>>
       \/ \E id \in actionTasks :
             /\ ~ActionCountdownMatches(id)
             /\ actionTasks' = actionTasks \ {id}
             /\ UNCHANGED <<dealTasks, dealerTasks>>
    /\ UNCHANGED <<phase, seats, dealer, draws, dealer_turn_id, betting_deadline,
                   betting_countdown_id, action_deadline, action_countdown_id,
                   request, accounts, round>>

(***************************************************************************)
(* kick_inactive_user, run once by the inactivity task of the seat's last  *)
(* activity.  Five idle minutes are time, so it may run at any moment.     *)
(***************************************************************************)
IdleTaskWakes(u, s) == seats[s].user = u /\ seats[s].armed

(* Mutant: a pending bet does not hold the seat. *)
KickIgnoresPendingBet(s) ==
    \/ seats[s].pending_double
    \/ /\ seats[s].bet > 0
       /\ phase = "Betting" \/ (phase = "PlayerTurn" /\ seats[s].resolved)

KickBlocked(s) ==
    \/ seats[s].pending_bet > 0
    \/ seats[s].pending_double
    \/ /\ seats[s].bet > 0
       /\ phase = "Betting" \/ (phase = "PlayerTurn" /\ seats[s].resolved)

(* The seat cannot leave now, and the task ends without a successor. *)
KickSkipped(u, s) ==
    /\ IdleTaskWakes(u, s)
    /\ KickBlocked(s)
    /\ seats' = [seats EXCEPT ![s].armed = FALSE]
    /\ OnlySeats

KickStands(u, s) ==
    /\ IdleTaskWakes(u, s)
    /\ ~KickBlocked(s)
    /\ phase = "PlayerTurn" /\ HasUnresolvedBet(seats[s])
    /\ AdvanceOrFinishRound(RemoveDeferredLeaveSeats(
          [seats EXCEPT ![s].armed = FALSE, ![s].stood = TRUE,
                        ![s].deferred_leave_reason = "Idle"], "PlayerTurn"))
    /\ UNCHANGED <<dealer, draws, betting_deadline, betting_countdown_id, dealTasks,
                   action_countdown_id, actionTasks, request, accounts, round>>

KickDeferred(u, s) ==
    /\ IdleTaskWakes(u, s)
    /\ phase = "DealerTurn" /\ seats[s].bet > 0
    /\ seats' = [seats EXCEPT ![s].armed = FALSE,
                              ![s].deferred_leave_reason = "Idle"]
    /\ OnlySeats

KickLeaves(u, s) ==
    /\ IdleTaskWakes(u, s)
    /\ ~KickBlocked(s)
    /\ seats[s].bet = 0 \/ phase = "Settling"
    /\ seats' = [seats EXCEPT ![s] = EmptySeat]
    /\ OnlySeats

-------------------------------------------------------------------------------
SeatStep ==
    \E u \in Users, s \in Seats :
        \/ Sit(u, s) \/ LeaveSeat(u, s) \/ TouchActivity(u, s)
        \/ \E chip \in ChipDenominations : ThrowChip(u, s, chip)
        \/ \E chip \in ChipDenominations : PullStakeChip(u, s, chip)
        \/ ClearStake(u, s)

PlayerStep ==
    \E u \in Users :
        \/ \E s \in Seats : Hit(u, s) \/ Stand(u, s)
        \/ NextHand(u)

RequestStep(r) ==
    \E s \in Seats :
        \/ MarkBetPending(r, s) \/ LockBet(r, s) \/ ReleaseBet(r, s)
        \/ FinishDoubleDown(r, s) \/ ClearPendingDouble(r, s)

NewRequest(r) ==
    \E u \in Users, s \in Seats :
        SubmitStake(r, u, s) \/ PrepareDoubleDown(r, u, s)

TimerStep ==
    \/ BettingDeadlinePasses \/ ActionDeadlinePasses
    \/ \E id \in dealTasks : AutoDeal(id)
    \/ \E id \in actionTasks : AutoStandRemaining(id)
    \/ StaleTaskEnds

DealerStep == \E id \in dealerTasks : DealerDraws(id) \/ FinishDealerTurn(id)

KickStep ==
    \E u \in Users, s \in Seats :
        \/ KickSkipped(u, s) \/ KickStands(u, s)
        \/ KickDeferred(u, s) \/ KickLeaves(u, s)

PersistStep == \E x \in unpaid : PersistSettlement(x)

Next ==
    \/ SeatStep \/ PlayerStep \/ KickStep
    \/ \E r \in Requests :
          NewRequest(r) \/ RejectBet(r) \/ RequestStep(r) \/ DebitBet(r)
    \/ TimerStep \/ DealerStep \/ PersistStep

Spec == Init /\ [][Next]_vars

(***************************************************************************)
(* The runtime wakes its tasks, time passes and the database answers; what *)
(* players do, and when they are idle, is left open.                       *)
(***************************************************************************)
Fairness ==
    /\ \A r \in Requests : WF_vars(RejectBet(r) \/ RequestStep(r) \/ DebitBet(r))
    /\ WF_vars(BettingDeadlinePasses) /\ WF_vars(ActionDeadlinePasses)
    /\ WF_vars(\E id \in dealTasks : AutoDeal(id))
    /\ WF_vars(\E id \in actionTasks : AutoStandRemaining(id))
    /\ WF_vars(StaleTaskEnds)
    /\ WF_vars(DealerStep)
    /\ WF_vars(PersistStep)

FairSpec == Spec /\ Fairness

-------------------------------------------------------------------------------
SeatType ==
    [user : Users \cup {NoUser}, stake : 0 .. MaxBet, pending_bet : 0 .. MaxBet,
     bet : 0 .. 2 * MaxBet, pending_double : BOOLEAN, hand : PlayerHands,
     stood : BOOLEAN, resolved : BOOLEAN, missed_deals : 0 .. MaxMissedDeals - 1,
     armed : BOOLEAN, deferred_leave_reason : {"none"} \cup DeferredLeaveReasons]

BetStages == {"submitted", "debiting bet", "bet taken", "bet refused"}
DoubleStages == {"debiting double", "double taken", "double refused"}

RequestType ==
    {NoRequest} \cup [pc : BetStages, user : Users, amount : 1 .. MaxBet]
                \cup [pc : DoubleStages, user : Users, amount : 1 .. MaxBet]

(* The types of the variables. *)
TypeOK ==
    /\ phase \in Phases
    /\ seats \in [Seats -> SeatType]
    /\ dealer \in DealerHands /\ draws \in Nat
    /\ betting_deadline \in Deadlines /\ betting_countdown_id \in Nat
    /\ action_deadline \in Deadlines /\ action_countdown_id \in Nat
    /\ dealer_turn_id \in Nat
    /\ dealTasks \in SUBSET Nat /\ actionTasks \in SUBSET Nat
    /\ dealerTasks \in SUBSET Nat
    /\ request \in [Requests -> RequestType]
    /\ unpaid \subseteq [user : Users, round : Nat, credit : Nat]
    /\ bank \in [Users -> Nat] /\ net \in [Users -> Int]
    /\ round \in Nat

BetPending(r) == request[r].pc \in BetStages \ {"submitted"}
DoublePending(r) == request[r].pc \in DoubleStages

(***************************************************************************)
(* A request whose chips are with the database finds its seat as it left   *)
(* it, whatever ran while the table was unlocked, and no flag outlives its *)
(* request: the chips can always be locked, and a refusal released.        *)
(***************************************************************************)
PendingTracksDebit ==
    /\ \A r \in Requests : BetPending(r) =>
          \E s \in Seats :
             /\ seats[s].user = request[r].user
             /\ seats[s].pending_bet = request[r].amount
             /\ phase = "Betting" /\ seats[s].bet = 0
    /\ \A r \in Requests : DoublePending(r) =>
          \E s \in Seats :
             /\ seats[s].user = request[r].user
             /\ seats[s].pending_double /\ seats[s].bet = request[r].amount
             /\ phase = "PlayerTurn" /\ Playable(seats[s])
             /\ seats[s].hand = "two"
    /\ \A s \in Seats :
          /\ seats[s].pending_bet > 0 =>
                \E r \in Requests : BetPending(r) /\ request[r].user = seats[s].user
          /\ seats[s].pending_double =>
                \E r \in Requests : DoublePending(r) /\ request[r].user = seats[s].user
    /\ \A q, r \in Requests :
          /\ BetPending(q) \/ DoublePending(q)
          /\ BetPending(r) \/ DoublePending(r)
          /\ request[q].user = request[r].user
          => q = r

(***************************************************************************)
(* No chip appears or disappears: what a user holds, has handed to a       *)
(* request, has at risk on the table and is still owed adds up to what the *)
(* account opened with and the net result of the settlements, the floor    *)
(* grants and the database failures.  A hand settled twice, a bet dropped  *)
(* with its seat or a debit without a bet breaks the sum.                  *)
(***************************************************************************)
Taken(u) ==
    SumFunctionOnSet([r \in Requests |-> request[r].amount],
        {r \in Requests : /\ request[r].pc \in {"bet taken", "double taken"}
                          /\ request[r].user = u})
AtRisk(u) ==
    SumFunctionOnSet([s \in Seats |-> seats[s].bet],
        {s \in Seats : seats[s].user = u /\ HasUnresolvedBet(seats[s])})
Owed(u) ==
    SumFunctionOnSet([x \in unpaid |-> x.credit], {x \in unpaid : x.user = u})

ChipsConserved ==
    \A u \in Users :
        bank[u] + Taken(u) + AtRisk(u) + Owed(u) = INITIAL_CHIP_BALANCE + net[u]

(***************************************************************************)
(* Whatever waits for a timer has a live task that will wake it, through   *)
(* every early return of the countdown, timeout and dealer tasks.          *)
(***************************************************************************)
TimersHaveTasks ==
    /\ betting_deadline # "none" =>
          /\ phase = "Betting" /\ HasBets(seats)
          /\ betting_countdown_id \in dealTasks
    /\ phase = "Betting" /\ HasBets(seats) => betting_deadline # "none"
    /\ phase = "PlayerTurn" /\ action_deadline = "running" =>
          action_countdown_id \in actionTasks
    /\ phase = "DealerTurn" => dealer_turn_id \in dealerTasks

(***************************************************************************)
(* The phase agrees with the hands: the dealer plays only when no player   *)
(* can, and for somebody; a settled table owes nobody an outcome.          *)
(***************************************************************************)
PhaseMatchesHands ==
    /\ phase = "Betting" => \A s \in Seats : seats[s].hand = "none"
    /\ phase = "PlayerTurn" => \E s \in Seats : Playable(seats[s])
    /\ phase = "DealerTurn" =>
          /\ \E s \in Seats : HasUnresolvedBet(seats[s])
          /\ dealer # "natural" => \A s \in Seats : ~Playable(seats[s])
    /\ phase = "Settling" => \A s \in Seats : ~HasUnresolvedBet(seats[s])

(***************************************************************************)
(* A seat that was told to leave after the settlement is gone before the   *)
(* next hand, whichever task settled the round.                            *)
(***************************************************************************)
DeferredLeavesHonoured ==
    phase = "Betting" =>
        \A s \in Seats : seats[s].deferred_leave_reason = "none"

(***************************************************************************)
(* A bet at risk stays with its seat and its user, at least at its amount: *)
(* no leave, kick, missed deal or reset takes it from the table unless the *)
(* same step settles it.                                                   *)
(***************************************************************************)
BetsStayInPlay ==
    [][\A s \in Seats : HasUnresolvedBet(seats[s]) =>
          \/ /\ seats'[s].user = seats[s].user
             /\ seats'[s].bet >= seats[s].bet
          \/ \E x \in unpaid' \ unpaid :
                x.user = seats[s].user /\ x.round = round]_vars

(***************************************************************************)
(* A round starts when the deadline of its betting window has passed or    *)
(* when everybody seated has locked a bet, and never while chips are being *)
(* debited for a bet of this round.                                        *)
(***************************************************************************)
RoundStartsWhenReady ==
    [][round' # round =>
          /\ \A r \in Requests : ~BetPending(r)'
          /\ \/ betting_deadline = "due"
             \/ \A s \in Seats : Occupied(seats[s]) =>
                   seats'[s].user = seats[s].user /\ seats'[s].bet > 0]_vars

(***************************************************************************)
(* The first locked bet leads to a deal, unless players keep chips of new  *)
(* bets in flight forever: the auto-deal task waits for pending bets.      *)
(***************************************************************************)
LockedBetsAreDealt ==
    \/ []<>HasPendingBets(seats)
    \/ (phase = "Betting" /\ HasBets(seats)) ~> phase # "Betting"

(* The dealer's turn always ends in a settlement. *)
DealerTurnSettles == phase = "DealerTurn" ~> phase = "Settling"

(* The action timeout ends the players' turn. *)
ActionTimeoutEndsTurn ==
    (phase = "PlayerTurn" /\ action_deadline = "due") ~> phase # "PlayerTurn"
================================================================================
