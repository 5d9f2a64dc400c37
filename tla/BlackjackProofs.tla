---------------------------- MODULE BlackjackProofs ----------------------------
(***************************************************************************)
(* What the blackjack table keeps, for every number of users, seats,       *)
(* requests and rounds: the types of its variables, the debits in flight   *)
(* and the seats that wait for them, the agreement of its phase, hands and *)
(* timer tasks, and then the chips: where they are, and that the table     *)
(* implements ChipTable.  The last part is about the rules, for hands of   *)
(* any cards and any length.                                               *)
(***************************************************************************)
EXTENDS BlackjackChips, BlackjackRules, SumFacts, TLAPS

(***************************************************************************)
(* Every step of the blackjack table keeps the types of its variables.     *)
(*                                                                         *)
(* TypeOK is strengthened by SeatInv, because a bet is bounded by its      *)
(* history: it is locked within the limits, doubled once, and a doubled    *)
(* hand has drawn a card.  That a bet is locked only while the table takes *)
(* bets, which RequestStepType assumes, is part of the invariant of        *)
(* the next part.                                                          *)
(***************************************************************************)

(* A bet belongs to a user, and only a doubled bet exceeds the maximum. *)
SeatOK(seat, ph) ==
    /\ seat.bet > 0 => seat.user \in Users
    /\ seat.bet > MaxBet => seat.hand \in AfterHit
    /\ ph = "Betting" => seat.hand = "none"

SeatInv == \A s \in Seats : SeatOK(seats[s], phase)

TypeInv == TypeOK /\ SeatInv

SeatsType == [Seats -> SeatType]
-------------------------------------------------------------------------------
(* An empty seat has the type of a seat. *)
LEMMA EmptySeatType == EmptySeat \in SeatType
  BY BlackjackAssumption DEF EmptySeat, SeatType, PlayerHands, DeferredLeaveReasons

(* Replacing one seat by a seat keeps the type of the seats. *)
LEMMA UpdateType ==
    ASSUME NEW ss \in SeatsType, NEW s \in Seats, NEW seat \in SeatType
    PROVE  [ss EXCEPT ![s] = seat] \in SeatsType
  BY DEF SeatsType

(* Missing a deal leaves a seat. *)
LEMMA MissDealType ==
    ASSUME NEW seat \in SeatType
    PROVE  MissDeal(seat) \in SeatType
  BY EmptySeatType, BlackjackAssumption DEF MissDeal, SeatType

(* Recording activity leaves a seat. *)
LEMMA RecordActivityType ==
    ASSUME NEW seat \in SeatType
    PROVE  RecordActivity(seat) \in SeatType
  BY DEF RecordActivity, SeatType

(* The bounds on amounts. *)
LEMMA Bounds ==
    /\ MinBet \in Nat /\ MaxBet \in Nat /\ 0 < MinBet
    /\ 0 \in 0 .. MaxMissedDeals - 1
    /\ \A b \in MinBet .. MaxBet : b \in 0 .. MaxBet
    /\ \A b \in 0 .. MaxBet : b \in 0 .. 2 * MaxBet /\ b <= MaxBet /\ ~(b > MaxBet)
<1>1. MinBet \in Nat /\ MaxBet \in Nat /\ 0 < MinBet /\ 0 \in 0 .. MaxMissedDeals - 1
  BY BlackjackAssumption
<1> QED
  BY <1>1

(* Zero is an amount. *)
LEMMA Zeros == 0 \in 0 .. MaxBet /\ 0 \in 0 .. 2 * MaxBet
  BY BlackjackAssumption

(* Clearing the round leaves a seat. *)
LEMMA ClearRoundType ==
    ASSUME NEW seat \in SeatType
    PROVE  ClearRound(seat) \in SeatType
<1> DEFINE cleared == [seat EXCEPT !.pending_bet = 0, !.bet = 0, !.stake = 0]
<1>1. cleared \in SeatType
  BY Zeros DEF SeatType
<1>2. [cleared EXCEPT !.pending_double = FALSE, !.hand = "none", !.stood = FALSE,
                      !.resolved = FALSE] \in SeatType
  BY <1>1 DEF SeatType, PlayerHands
<1> QED
  BY <1>2 DEF ClearRound, SeatType

(* Finishing a seat leaves a seat. *)
LEMMA FinishSeatType ==
    ASSUME NEW seat \in SeatType
    PROVE  FinishSeat(seat) \in SeatType
  BY DEF FinishSeat, SeatType

(* Removing the deferred leavers keeps the type, and keeps or empties each seat. *)
LEMMA RemoveType ==
    ASSUME NEW ss \in SeatsType, NEW ph
    PROVE  /\ RemoveDeferredLeaveSeats(ss, ph) \in SeatsType
           /\ \A s \in Seats : RemoveDeferredLeaveSeats(ss, ph)[s] \in {ss[s], EmptySeat}
  BY EmptySeatType DEF RemoveDeferredLeaveSeats, SeatsType

(* Finishing seats keeps the type of the seats. *)
LEMMA FinishedType ==
    ASSUME NEW ss \in SeatsType, NEW outcome
    PROVE  Finished(ss, outcome) \in SeatsType
  BY FinishSeatType DEF Finished, SeatsType

(* A step of the players that may end their turn keeps the types. *)
LEMMA AdvanceType ==
    ASSUME TypeOK, NEW ss \in SeatsType, AdvanceOrFinishRound(ss)
    PROVE  /\ seats' \in SeatsType
           /\ phase' \in Phases \ {"Betting"}
           /\ action_deadline' \in Deadlines
           /\ dealer_turn_id' \in Nat /\ dealerTasks' \in SUBSET Nat
           /\ \A s \in Seats : seats'[s] \in {ss[s], EmptySeat}
<1>1. CASE /\ phase' = "Settling"
           /\ seats' = RemoveDeferredLeaveSeats(ss, "Settling")
           /\ action_deadline' = "none"
           /\ UNCHANGED <<dealer_turn_id, dealerTasks>>
  BY <1>1, RemoveType DEF TypeOK, Phases, Deadlines
<1>2. CASE /\ phase' = "PlayerTurn" /\ seats' = ss
           /\ UNCHANGED <<action_deadline, dealer_turn_id, dealerTasks>>
  BY <1>2 DEF TypeOK, Phases
<1>3. CASE seats' = ss /\ BeginDealerTurn
  BY <1>3 DEF BeginDealerTurn, TypeOK, Phases, Deadlines
<1> QED
  BY <1>1, <1>2, <1>3 DEF AdvanceOrFinishRound

(* A payout is a number of chips. *)
LEMMA CreditType ==
    ASSUME NEW bet \in Nat, NEW o \in Outcomes
    PROVE  PayoutCredit(bet, o) \in Nat
  BY DEF PayoutCredit, Outcomes

(* Settling seats of users keeps the types of the accounts. *)
LEMMA SettleType ==
    ASSUME TypeOK, NEW ss \in SeatsType, NEW D \in SUBSET Seats,
           NEW outcome \in [D -> Outcomes], NEW r \in Nat,
           \A s \in D : ss[s].user \in Users,
           Settle(ss, outcome, r)
    PROVE  /\ unpaid' \subseteq [user : Users, round : Nat, credit : Nat]
           /\ net' \in [Users -> Int]
           /\ bank' = bank
<1>1. ASSUME NEW s \in D
      PROVE  ss[s].bet \in Nat /\ PayoutCredit(ss[s].bet, outcome[s]) \in Nat
  BY CreditType, BlackjackAssumption DEF SeatsType, SeatType
<1>2. unpaid' \subseteq [user : Users, round : Nat, credit : Nat]
  BY <1>1 DEF Settle, TypeOK
<1>3. ASSUME NEW u \in Users PROVE NetChange(ss, outcome, u) \in Int
  BY <1>1 DEF NetChange
<1> QED
  BY <1>2, <1>3 DEF Settle, TypeOK

(* What is known of the seats that are dealt a round. *)
Dealable(ss) ==
    /\ ss \in SeatsType
    /\ \A s \in Seats : ss[s].bet > 0 => ss[s].user \in Users /\ ss[s].bet <= MaxBet

(* The seats that are cleared for a deal are dealable, and hold no hand. *)
LEMMA ClearedType ==
    ASSUME NEW ss, Dealable(ss)
    PROVE  /\ Dealable(ClearedForDeal(ss))
           /\ \A s \in Seats :
                 /\ ClearedForDeal(ss)[s].hand = "none"
                 /\ ~ClearedForDeal(ss)[s].resolved /\ ~ClearedForDeal(ss)[s].stood
                 /\ ss[s].bet > 0 =>
                       /\ ClearedForDeal(ss)[s].bet = ss[s].bet
                       /\ ClearedForDeal(ss)[s].user = ss[s].user
                 /\ ss[s].bet = 0 => ClearedForDeal(ss)[s].bet = 0
<1> DEFINE clean(s) == [ss[s] EXCEPT !.stake = 0, !.hand = "none",
                                     !.stood = FALSE, !.resolved = FALSE]
           dealt(s) == [clean(s) EXCEPT !.missed_deals = 0]
           cleared(s) == IF ss[s].bet > 0        THEN dealt(s)
                         ELSE IF Occupied(ss[s]) THEN MissDeal(clean(s))
                         ELSE clean(s)
<1>1. ASSUME NEW s \in Seats
      PROVE  /\ clean(s) \in SeatType
             /\ clean(s).hand = "none" /\ ~clean(s).resolved /\ ~clean(s).stood
             /\ clean(s).bet = ss[s].bet /\ clean(s).user = ss[s].user
  BY Zeros DEF Dealable, SeatsType, SeatType, PlayerHands
<1>2. ASSUME NEW s \in Seats
      PROVE  /\ dealt(s) \in SeatType
             /\ dealt(s).hand = "none" /\ ~dealt(s).resolved /\ ~dealt(s).stood
             /\ dealt(s).bet = ss[s].bet /\ dealt(s).user = ss[s].user
  <2> HIDE DEF clean
  <2> QED
    BY <1>1, BlackjackAssumption DEF SeatType
<1>3. ASSUME NEW s \in Seats, ss[s].bet = 0
      PROVE  /\ MissDeal(clean(s)) \in SeatType
             /\ MissDeal(clean(s)).hand = "none" /\ MissDeal(clean(s)).bet = 0
             /\ ~MissDeal(clean(s)).resolved /\ ~MissDeal(clean(s)).stood
  <2> HIDE DEF clean
  <2>1. MissDeal(clean(s)) = EmptySeat
        \/ MissDeal(clean(s)) = [clean(s) EXCEPT !.missed_deals = @ + 1]
    BY DEF MissDeal
  <2>2. MissDeal(clean(s)) \in SeatType
    BY <1>1, MissDealType
  <2> QED
    BY <1>1, <1>3, <2>1, <2>2 DEF EmptySeat, SeatType
<1>4. ClearedForDeal(ss) = [s \in Seats |-> cleared(s)]
  BY DEF ClearedForDeal
<1>5. \A s \in Seats : ss[s].bet \in Nat
  BY BlackjackAssumption DEF Dealable, SeatsType, SeatType
<1>6. ASSUME NEW s \in Seats
      PROVE  /\ cleared(s) \in SeatType
             /\ cleared(s).hand = "none" /\ ~cleared(s).resolved /\ ~cleared(s).stood
             /\ ss[s].bet > 0 => cleared(s).bet = ss[s].bet /\ cleared(s).user = ss[s].user
             /\ ss[s].bet = 0 => cleared(s).bet = 0
  <2> HIDE DEF clean, dealt
  <2> QED
    BY <1>1, <1>2, <1>3, <1>5
<1> HIDE DEF cleared
<1> QED
  BY <1>4, <1>5, <1>6 DEF Dealable, SeatsType

(* A natural against a dealer without one has an outcome. *)
LEMMA NaturalsType ==
    ASSUME NEW S, NEW d \in DealtDealerHands, d # "natural"
    PROVE  [s \in S |-> CHOOSE o \in SettleOutcomes("natural", d) : TRUE]
              \in [S -> Outcomes]
<1>1. SettleOutcomes("natural", d) = {"PlayerBlackjack"}
  BY DEF SettleOutcomes, LiveHands
<1> QED
  BY <1>1 DEF Outcomes

(* What a deal makes of the table. *)
LEMMA StartRoundType ==
    ASSUME TypeOK, NEW ss, Dealable(ss), StartRound(ss)
    PROVE  /\ Dealable(seats')
           /\ phase' \in Phases \ {"Betting"}
           /\ dealer' \in DealerHands /\ draws' \in Nat /\ round' \in Nat
           /\ betting_deadline' = "none" /\ betting_countdown_id' \in Nat
           /\ action_deadline' \in Deadlines /\ action_countdown_id' \in Nat
           /\ actionTasks' \in SUBSET Nat
           /\ dealer_turn_id' \in Nat /\ dealerTasks' \in SUBSET Nat
           /\ unpaid' \subseteq [user : Users, round : Nat, credit : Nat]
           /\ net' \in [Users -> Int] /\ bank' = bank
<1> DEFINE cleared == ClearedForDeal(ss)
           players == {s \in Seats : cleared[s].bet > 0}
           naturals(hands, d) ==
              {s \in players : hands[s] = "natural" /\ d # "natural"}
           outcome(hands, d) ==
              [s \in naturals(hands, d) |->
                  CHOOSE o \in SettleOutcomes(hands[s], d) : TRUE]
           dealt(hands) ==
              [s \in Seats |-> IF s \in players
                               THEN [cleared[s] EXCEPT !.hand = hands[s]]
                               ELSE cleared[s]]
           timersAfter(ss2, d) ==
              \/ /\ d = "natural"
                 /\ BeginDealerTurn
                 /\ UNCHANGED <<action_countdown_id, actionTasks>>
              \/ /\ d # "natural"
                 /\ \E s \in Seats : Playable(ss2[s])
                 /\ phase' = "PlayerTurn"
                 /\ StartActionCountdown
              \/ /\ d # "natural"
                 /\ \A s \in Seats : ~Playable(ss2[s])
                 /\ phase' = "Settling"
                 /\ action_deadline' = "none"
                 /\ UNCHANGED <<action_countdown_id, actionTasks,
                                dealer_turn_id, dealerTasks>>
<1>1. PICK hands \in [players -> DealtHands], d \in DealtDealerHands :
         /\ dealer' = d /\ draws' = 0
         /\ round' = round + 1
         /\ betting_deadline' = "none" /\ UNCHANGED betting_countdown_id
         /\ seats' = Finished(dealt(hands), outcome(hands, d))
         /\ Settle(dealt(hands), outcome(hands, d), round + 1)
         /\ timersAfter(Finished(dealt(hands), outcome(hands, d)), d)
  BY DEF StartRound
<1>2. Dealable(dealt(hands))
  <2> HIDE DEF cleared
  <2>1. Dealable(cleared)
    BY ClearedType DEF cleared
  <2>2. ASSUME NEW s \in Seats
        PROVE  /\ dealt(hands)[s] \in SeatType
               /\ dealt(hands)[s].bet = cleared[s].bet
               /\ dealt(hands)[s].user = cleared[s].user
    BY <2>1 DEF Dealable, SeatsType, SeatType, DealtHands, PlayerHands, LiveHands
  <2> HIDE DEF dealt
  <2>3. dealt(hands) = [s \in Seats |-> dealt(hands)[s]]
    BY DEF dealt
  <2> QED
    BY <2>1, <2>2, <2>3 DEF Dealable, SeatsType
<1>3. outcome(hands, d) \in [naturals(hands, d) -> Outcomes]
  <2>1. CASE d = "natural"
    BY <2>1
  <2>2. CASE d # "natural"
    <3>1. outcome(hands, d) =
             [s \in naturals(hands, d) |->
                CHOOSE o \in SettleOutcomes("natural", d) : TRUE]
      BY DEF SettleOutcomes
    <3> QED
      BY <2>2, <3>1, NaturalsType
  <2> QED
    BY <2>1, <2>2
<1>4. \A s \in naturals(hands, d) : s \in Seats /\ dealt(hands)[s].user \in Users
  <2>1. \A s \in players : dealt(hands)[s].bet > 0
    BY ClearedType DEF Dealable, SeatsType, SeatType
  <2> QED
    BY <1>2, <2>1 DEF Dealable
<1> HIDE DEF players, naturals, outcome, dealt
<1>5. /\ unpaid' \subseteq [user : Users, round : Nat, credit : Nat]
      /\ net' \in [Users -> Int] /\ bank' = bank
  <2>1. round + 1 \in Nat /\ dealt(hands) \in SeatsType
    BY <1>2 DEF TypeOK, Dealable
  <2>2. naturals(hands, d) \in SUBSET Seats
    BY <1>4
  <2> QED
    BY <1>1, <1>3, <1>4, <2>1, <2>2, SettleType
<1>6. Dealable(seats')
  <2>1. ASSUME NEW s \in Seats
        PROVE  /\ seats'[s].bet = dealt(hands)[s].bet
               /\ seats'[s].user = dealt(hands)[s].user
    BY ZenonT(40), <1>1, <1>2 DEF Finished, FinishSeat, Dealable, SeatsType, SeatType
  <2> QED
    BY <1>1, <1>2, <2>1, FinishedType DEF Dealable
<1>7. /\ phase' \in Phases \ {"Betting"}
      /\ action_deadline' \in Deadlines /\ action_countdown_id' \in Nat
      /\ actionTasks' \in SUBSET Nat
      /\ dealer_turn_id' \in Nat /\ dealerTasks' \in SUBSET Nat
  <2>1. CASE BeginDealerTurn /\ UNCHANGED <<action_countdown_id, actionTasks>>
    BY <2>1 DEF BeginDealerTurn, TypeOK, Phases, Deadlines
  <2>2. CASE phase' = "PlayerTurn" /\ StartActionCountdown
    BY <2>2 DEF StartActionCountdown, TypeOK, Phases, Deadlines
  <2>3. CASE /\ phase' = "Settling" /\ action_deadline' = "none"
             /\ UNCHANGED <<action_countdown_id, actionTasks, dealer_turn_id, dealerTasks>>
    BY <2>3 DEF TypeOK, Phases, Deadlines
  <2> QED
    BY <1>1, <2>1, <2>2, <2>3
<1> QED
  BY <1>1, <1>5, <1>6, <1>7
     DEF TypeOK, DealtDealerHands, DealerHands

-------------------------------------------------------------------------------
(* One seat changes, and nothing else that has a type to keep. *)
LEMMA OneSeatChanges ==
    ASSUME TypeInv, NEW s \in Seats, NEW seat \in SeatType, SeatOK(seat, phase),
           seats' = [seats EXCEPT ![s] = seat],
           request' \in [Requests -> RequestType],
           UNCHANGED <<phase, dealing, timers, accounts, round>>
    PROVE  TypeInv'
<1>1. TypeOK'
  BY UpdateType DEF TypeInv, TypeOK, dealing, timers, accounts, SeatsType
<1>2. SeatInv'
  BY DEF TypeInv, TypeOK, SeatInv
<1> QED
  BY <1>1, <1>2 DEF TypeInv

(* The same for a step that changes nothing but the seat. *)
LEMMA OneSeatOnly ==
    ASSUME TypeInv, NEW s \in Seats, NEW seat \in SeatType, SeatOK(seat, phase),
           seats' = [seats EXCEPT ![s] = seat], OnlySeats
    PROVE  TypeInv'
  BY OneSeatChanges DEF OnlySeats, TypeInv, TypeOK

(* An empty seat is in order in every phase. *)
LEMMA EmptySeatOK == \A ph : SeatOK(EmptySeat, ph)
  BY BlackjackAssumption DEF SeatOK, EmptySeat

(* Sitting, leaving and staking keep the types. *)
LEMMA SeatStepType ==
    ASSUME TypeInv, SeatStep PROVE TypeInv'
<1>1. PICK u \in Users, s \in Seats :
         \/ Sit(u, s) \/ LeaveSeat(u, s) \/ TouchActivity(u, s)
         \/ \E chip \in ChipDenominations : ThrowChip(u, s, chip)
         \/ \E chip \in ChipDenominations : PullStakeChip(u, s, chip)
         \/ ClearStake(u, s)
  BY DEF SeatStep
<1>2. seats[s] \in SeatType /\ SeatOK(seats[s], phase)
  BY DEF TypeInv, TypeOK, SeatInv
<1>3. ASSUME NEW x \in SeatType, SeatOK(x, phase)
      PROVE  RecordActivity(x) \in SeatType /\ SeatOK(RecordActivity(x), phase)
  BY <1>3 DEF RecordActivity, SeatType, SeatOK
<1>4. ASSUME NEW stake \in 0 .. MaxBet
      PROVE  /\ [seats[s] EXCEPT !.stake = stake] \in SeatType
             /\ SeatOK([seats[s] EXCEPT !.stake = stake], phase)
  BY <1>2 DEF SeatType, SeatOK
<1>4a. ASSUME NEW stake \in 0 .. MaxBet, OnlySeats,
              seats' = [seats EXCEPT ![s] = RecordActivity([seats[s] EXCEPT !.stake = stake])]
       PROVE  TypeInv'
  BY <1>3, <1>4, <1>4a, OneSeatOnly
<1>5. CASE Sit(u, s)
  <2>1. [seats[s] EXCEPT !.user = u] \in SeatType
    BY <1>2 DEF SeatType
  <2>2. SeatOK([seats[s] EXCEPT !.user = u], phase)
    BY <1>2 DEF SeatType, SeatOK
  <2>3. seats' = [seats EXCEPT ![s] = RecordActivity([seats[s] EXCEPT !.user = u])]
        /\ OnlySeats
    BY <1>5 DEF Sit
  <2> HIDE <1>5
  <2> QED
    BY <1>3, <2>1, <2>2, <2>3, OneSeatOnly
<1>6. CASE LeaveSeat(u, s)
  BY <1>6, EmptySeatType, EmptySeatOK, OneSeatOnly DEF LeaveSeat
<1>7. CASE TouchActivity(u, s)
  BY <1>2, <1>3, <1>7, OneSeatOnly DEF TouchActivity
<1>8. ASSUME NEW chip \in ChipDenominations, ThrowChip(u, s, chip) PROVE TypeInv'
  <2>1. seats[s].stake + chip \in 0 .. MaxBet
    BY <1>2, <1>8, BlackjackAssumption DEF ThrowChip, SeatType
  <2>2. /\ seats' = [seats EXCEPT ![s] =
                         RecordActivity([seats[s] EXCEPT !.stake = seats[s].stake + chip])]
        /\ OnlySeats
    BY <1>8 DEF ThrowChip
  <2> QED
    BY <1>4a, <2>1, <2>2
<1>9. ASSUME NEW chip \in ChipDenominations, PullStakeChip(u, s, chip) PROVE TypeInv'
  <2>1. seats[s].stake - chip \in 0 .. MaxBet
    BY <1>2, <1>9, BlackjackAssumption DEF PullStakeChip, SeatType
  <2>2. /\ seats' = [seats EXCEPT ![s] =
                         RecordActivity([seats[s] EXCEPT !.stake = seats[s].stake - chip])]
        /\ OnlySeats
    BY <1>9 DEF PullStakeChip
  <2> QED
    BY <1>4a, <2>1, <2>2
<1>10. CASE ClearStake(u, s)
  BY <1>4a, <1>10, Zeros DEF ClearStake
<1> QED
  BY <1>1, <1>5, <1>6, <1>7, <1>8, <1>9, <1>10

-------------------------------------------------------------------------------
(* A step that may end the players' turn. *)
LEMMA AdvanceStep ==
    ASSUME TypeInv, NEW ss \in SeatsType, AdvanceOrFinishRound(ss),
           \A s \in Seats : SeatOK(ss[s], "PlayerTurn"),
           request' \in [Requests -> RequestType],
           actionTasks' \in SUBSET Nat,
           unpaid' \subseteq [user : Users, round : Nat, credit : Nat],
           net' \in [Users -> Int],
           UNCHANGED <<dealer, draws, betting_deadline, betting_countdown_id,
                       dealTasks, action_countdown_id, bank, round>>
    PROVE  TypeInv'
<1>1. /\ seats' \in SeatsType
      /\ phase' \in Phases \ {"Betting"}
      /\ action_deadline' \in Deadlines
      /\ dealer_turn_id' \in Nat /\ dealerTasks' \in SUBSET Nat
      /\ \A s \in Seats : seats'[s] \in {ss[s], EmptySeat}
  BY AdvanceType DEF TypeInv
<1>2. TypeOK'
  BY <1>1 DEF TypeInv, TypeOK, SeatsType
<1>3. SeatInv'
  BY <1>1, EmptySeatOK DEF SeatInv, SeatOK
<1> QED
  BY <1>2, <1>3 DEF TypeInv

(* Standing keeps the types. *)
LEMMA StandType ==
    ASSUME TypeInv, NEW u \in Users, NEW s \in Seats, Stand(u, s) PROVE TypeInv'
<1> DEFINE stood == [seats[s] EXCEPT !.stood = TRUE]
           seat == RecordActivity(stood)
           ss == [seats EXCEPT ![s] = seat]
<1>1. seat \in SeatType /\ SeatOK(seat, "PlayerTurn")
  BY RecordActivityType DEF TypeInv, TypeOK, SeatInv, SeatType, SeatOK, RecordActivity
<1> HIDE DEF seat
<1>2. ss \in SeatsType /\ \A t \in Seats : SeatOK(ss[t], "PlayerTurn")
  BY <1>1, UpdateType DEF TypeInv, TypeOK, SeatInv, SeatsType, SeatOK
<1>3. AdvanceOrFinishRound(ss)
  BY DEF Stand, seat
<1> QED
  BY <1>2, <1>3, AdvanceStep DEF Stand, TypeInv, TypeOK, accounts

(* A hand that goes bust is settled at once. *)
LEMMA BustSettles ==
    ASSUME TypeInv, NEW ss \in SeatsType, NEW s \in Seats, ss[s].user \in Users,
           Settle(ss, Bust(s), round)
    PROVE  /\ unpaid' \subseteq [user : Users, round : Nat, credit : Nat]
           /\ net' \in [Users -> Int]
           /\ bank' = bank
<1>1. Bust(s) \in [{s} -> Outcomes] /\ {s} \in SUBSET Seats
  BY DEF Bust, Outcomes
<1> QED
  BY <1>1, SettleType DEF TypeInv, TypeOK

(* Settling no seat changes no account. *)
LEMMA NothingSettles ==
    ASSUME TypeInv, NEW ss, Settle(ss, NoOutcome, round)
    PROVE  unpaid' = unpaid /\ net' = net /\ bank' = bank
<1>1. \A u \in Users : NetChange(ss, NoOutcome, u) = 0
  BY DEF NetChange, NoOutcome
<1>2. unpaid' = unpaid
  BY DEF Settle, NoOutcome
<1> QED
  BY <1>1, <1>2 DEF Settle, TypeInv, TypeOK

(* Finishing seats keeps them in order. *)
LEMMA FinishedOK ==
    ASSUME NEW ss \in SeatsType, NEW outcome, NEW ph,
           \A s \in Seats : SeatOK(ss[s], ph)
    PROVE  \A s \in Seats : SeatOK(Finished(ss, outcome)[s], ph)
  BY DEF Finished, FinishSeat, SeatsType, SeatType, SeatOK

(* Drawing a card keeps the types. *)
LEMMA HitType ==
    ASSUME TypeInv, NEW u \in Users, NEW s \in Seats, Hit(u, s) PROVE TypeInv'
<1>1. PICK hand \in AfterHit :
         LET drawn == [seats EXCEPT ![s] = RecordActivity([@ EXCEPT !.hand = hand])]
         IN  \/ /\ hand = "bust"
                /\ Settle(drawn, Bust(s), round)
                /\ AdvanceOrFinishRound(Finished(drawn, Bust(s)))
             \/ /\ hand # "bust"
                /\ seats' = drawn
                /\ UNCHANGED <<phase, action_deadline, dealer_turn_id,
                               dealerTasks, accounts>>
  BY DEF Hit
<1> DEFINE seat == RecordActivity([seats[s] EXCEPT !.hand = hand])
           drawn == [seats EXCEPT ![s] = seat]
<1>2. seat \in SeatType /\ SeatOK(seat, "PlayerTurn") /\ seat.user = seats[s].user
  BY RecordActivityType DEF TypeInv, TypeOK, SeatInv, SeatType, SeatOK, RecordActivity,
        AfterHit, PlayerHands, LiveHands
<1>3. \/ /\ Settle(drawn, Bust(s), round)
         /\ AdvanceOrFinishRound(Finished(drawn, Bust(s)))
      \/ /\ seats' = drawn
         /\ UNCHANGED <<phase, action_deadline, dealer_turn_id, dealerTasks, accounts>>
  BY <1>1
<1> HIDE DEF seat
<1>4. /\ drawn \in SeatsType /\ drawn[s].user \in Users
      /\ \A t \in Seats : SeatOK(drawn[t], "PlayerTurn")
  BY <1>2, UpdateType DEF TypeInv, TypeOK, SeatInv, SeatsType, SeatOK, Hit, CanAct
<1> HIDE DEF drawn
<1>5. CASE /\ Settle(drawn, Bust(s), round)
           /\ AdvanceOrFinishRound(Finished(drawn, Bust(s)))
  <2>1. /\ unpaid' \subseteq [user : Users, round : Nat, credit : Nat]
        /\ net' \in [Users -> Int] /\ bank' = bank
    BY <1>4, <1>5, BustSettles
  <2> QED
    BY <1>4, <1>5, <2>1, FinishedType, FinishedOK, AdvanceStep DEF Hit, TypeInv, TypeOK
<1>6. CASE /\ seats' = drawn
           /\ UNCHANGED <<phase, action_deadline, dealer_turn_id, dealerTasks, accounts>>
  <2>1. phase = "PlayerTurn"
    BY DEF Hit, CanAct
  <2>2. TypeOK'
    BY <1>4, <1>6 DEF Hit, TypeInv, TypeOK, SeatsType, accounts
  <2>3. SeatInv'
    BY <1>4, <1>6, <2>1 DEF SeatInv
  <2> QED
    BY <2>2, <2>3 DEF TypeInv
<1> QED
  BY <1>3, <1>5, <1>6

(* Clearing the table keeps the types. *)
LEMMA NextHandType ==
    ASSUME TypeInv, NEW u \in Users, NextHand(u) PROVE TypeInv'
<1> DEFINE cleared(s) == ClearRound(seats[s])
           active(s) == RecordActivity(cleared(s))
<1>1. ASSUME NEW s \in Seats
      PROVE  /\ cleared(s) \in SeatType /\ active(s) \in SeatType
             /\ SeatOK(cleared(s), "Betting") /\ SeatOK(active(s), "Betting")
  <2>1. cleared(s) \in SeatType
    BY ClearRoundType DEF TypeInv, TypeOK
  <2>2. SeatOK(cleared(s), "Betting")
    BY BlackjackAssumption DEF ClearRound, SeatOK, TypeInv, TypeOK, SeatType
  <2> HIDE DEF cleared
  <2>3. active(s) \in SeatType /\ SeatOK(active(s), "Betting")
    BY <2>1, <2>2 DEF RecordActivity, SeatType, SeatOK
  <2> QED
    BY <2>1, <2>2, <2>3
<1>2. seats' = [s \in Seats |-> IF seats[s].user = u THEN active(s) ELSE cleared(s)]
      /\ phase' = "Betting"
  BY DEF NextHand
<1> HIDE DEF cleared, active
<1>3. seats' \in SeatsType /\ SeatInv'
  BY <1>1, <1>2 DEF SeatsType, SeatInv
<1> QED
  BY <1>3 DEF NextHand, TypeInv, TypeOK, SeatsType, Phases, Deadlines, DealerHands, accounts

(* Every step of a player keeps the types. *)
LEMMA PlayerStepType == ASSUME TypeInv, PlayerStep PROVE TypeInv'
  BY HitType, StandType, NextHandType DEF PlayerStep

(* The types of the requests. *)
LEMMA RequestUpdate ==
    ASSUME TypeInv, NEW r \in Requests, NEW q \in RequestType
    PROVE  [request EXCEPT ![r] = q] \in [Requests -> RequestType]
  BY DEF TypeInv, TypeOK

(* The idle slot is a request. *)
LEMMA NoRequestType == NoRequest \in RequestType
  BY DEF RequestType

(* A request that is at work has a user and an amount. *)
LEMMA WorkingRequest ==
    ASSUME TypeInv, NEW r \in Requests, request[r].pc # "idle"
    PROVE  request[r] \in [pc : BetStages, user : Users, amount : 1 .. MaxBet]
                     \cup [pc : DoubleStages, user : Users, amount : 1 .. MaxBet]
  BY DEF TypeInv, TypeOK, RequestType, NoRequest

(* Its stage can change, and its amount is a bet. *)
LEMMA RequestAtWork ==
    ASSUME TypeInv, NEW r \in Requests, request[r].pc # "idle"
    PROVE  /\ request[r].user \in Users /\ request[r].amount \in 1 .. MaxBet
           /\ request[r].pc \in BetStages \cup DoubleStages
           /\ \A pc \in BetStages \cup DoubleStages :
                 [request[r] EXCEPT !.pc = pc] \in RequestType
<1>1. request[r] \in [pc : BetStages, user : Users, amount : 1 .. MaxBet]
                \cup [pc : DoubleStages, user : Users, amount : 1 .. MaxBet]
  BY DEF TypeInv, TypeOK, RequestType, NoRequest
<1> QED
  BY <1>1 DEF RequestType

(* A new request keeps the types. *)
LEMMA NewRequestType ==
    ASSUME TypeInv, NEW r \in Requests, NewRequest(r) PROVE TypeInv'
<1>1. PICK u \in Users, s \in Seats : SubmitStake(r, u, s) \/ PrepareDoubleDown(r, u, s)
  BY DEF NewRequest
<1>2. seats[s] \in SeatType /\ SeatOK(seats[s], phase)
  BY DEF TypeInv, TypeOK, SeatInv
<1>3. CASE SubmitStake(r, u, s)
  <2> DEFINE q == [pc |-> "submitted", user |-> u, amount |-> seats[s].stake]
  <2>1. q \in RequestType
    BY <1>2, <1>3, BlackjackAssumption DEF SubmitStake, SeatType, RequestType, BetStages
  <2>2. request' \in [Requests -> RequestType]
    BY <1>3, <2>1, RequestUpdate DEF SubmitStake
  <2> QED
    BY <1>3, <2>2 DEF SubmitStake, TypeInv, TypeOK, SeatInv, dealing, timers, accounts
<1>4. CASE PrepareDoubleDown(r, u, s)
  <2> DEFINE q == [pc |-> "debiting double", user |-> u, amount |-> seats[s].bet]
             seat == RecordActivity([seats[s] EXCEPT !.pending_double = TRUE])
  <2>0. /\ seats[s].bet \in 0 .. 2 * MaxBet /\ seats[s].bet > 0
        /\ ~(seats[s].bet > MaxBet)
    BY <1>2, <1>4
       DEF PrepareDoubleDown, CanAct, Playable, HasUnresolvedBet, CanDouble, DealtHands,
           AfterHit, SeatType, SeatOK
  <2>0a. seats[s].bet \in 1 .. MaxBet
    BY <2>0, BlackjackAssumption
  <2>1. q \in RequestType
    BY <2>0a DEF RequestType, DoubleStages
  <2>2. request' \in [Requests -> RequestType]
    BY <1>4, <2>1, RequestUpdate DEF PrepareDoubleDown
  <2>3. seat \in SeatType /\ SeatOK(seat, phase)
    BY <1>2 DEF RecordActivity, SeatType, SeatOK
  <2>4. seats' = [seats EXCEPT ![s] = seat]
    BY <1>4 DEF PrepareDoubleDown
  <2> HIDE DEF seat
  <2> QED
    BY <1>4, <2>2, <2>3, <2>4, OneSeatChanges DEF PrepareDoubleDown
<1> QED
  BY <1>1, <1>3, <1>4

(* Turning a bet away keeps the types. *)
LEMMA RejectBetType ==
    ASSUME TypeInv, NEW r \in Requests, RejectBet(r) PROVE TypeInv'
<1>1. request' \in [Requests -> RequestType]
  BY RequestUpdate, NoRequestType DEF RejectBet
<1> QED
  BY <1>1 DEF RejectBet, TypeInv, TypeOK, SeatInv, dealing, timers, accounts

(* The answer of the database to a debit keeps the types. *)
LEMMA DebitBetType ==
    ASSUME TypeInv, NEW r \in Requests, DebitBet(r) PROVE TypeInv'
<1>1. request[r].user \in Users /\ request[r].amount \in 1 .. MaxBet
  BY RequestAtWork DEF DebitBet
<1>2. ASSUME NEW ok \in BOOLEAN, Answered(r, ok)
      PROVE  request' \in [Requests -> RequestType]
  <2>1. PICK pc \in BetStages \cup DoubleStages :
           request' = [request EXCEPT ![r] = [request[r] EXCEPT !.pc = pc]]
    BY <1>2 DEF Answered, BetStages, DoubleStages
  <2> QED
    BY <2>1, RequestAtWork, RequestUpdate DEF DebitBet
<1>3. bank' \in [Users -> Nat] /\ net' \in [Users -> Int]
  <2> DEFINE u == request[r].user
             amount == request[r].amount
  <2>1. amount \in Nat /\ u \in Users /\ bank[u] \in Nat /\ net[u] \in Int
    BY <1>1, BlackjackAssumption DEF TypeInv, TypeOK
  <2>2. \/ UNCHANGED <<bank, net>>
        \/ /\ bank[u] >= amount
           /\ bank' = [bank EXCEPT ![u] = bank[u] - amount]
           /\ net' = net \/ net' = [net EXCEPT ![u] = net[u] - amount]
    BY DEF DebitBet, CanDeduct, Deduct
  <2> HIDE DEF u, amount
  <2> QED
    BY <2>1, <2>2 DEF TypeInv, TypeOK
<1>4. request' \in [Requests -> RequestType]
  BY <1>2 DEF DebitBet
<1> QED
  BY <1>3, <1>4 DEF DebitBet, TypeInv, TypeOK, SeatInv, dealing, timers

(* Writing a settlement keeps the types. *)
LEMMA PersistSettlementType ==
    ASSUME TypeInv, NEW x \in unpaid, PersistSettlement(x) PROVE TypeInv'
<1>1. x.user \in Users /\ x.credit \in Nat
  BY DEF TypeInv, TypeOK
<1>2. FloorGrant(bank, x.user) \in Nat
  BY <1>1, ChipsAssumption DEF FloorGrant, TypeInv, TypeOK
<1>3. bank' \in [Users -> Nat] /\ net' \in [Users -> Int]
  BY <1>1, <1>2 DEF PersistSettlement, TypeInv, TypeOK, RestoreFloor, AddBonus
<1> QED
  BY <1>3 DEF PersistSettlement, TypeInv, TypeOK, SeatInv, dealing, timers

(* The deal keeps the types. *)
LEMMA DealtTypeInv ==
    ASSUME TypeInv, NEW ss, Dealable(ss), StartRound(ss),
           request' \in [Requests -> RequestType], dealTasks' \in SUBSET Nat
    PROVE  TypeInv'
<1>1. TypeOK'
  BY StartRoundType DEF TypeInv, TypeOK, Dealable, SeatsType, Deadlines
<1>2. SeatInv'
  BY StartRoundType, <1>1, BlackjackAssumption
     DEF TypeInv, Dealable, SeatInv, SeatOK, TypeOK, SeatType, Phases
<1> QED
  BY <1>1, <1>2 DEF TypeInv

(* Doubling keeps the types: the hand is over, so the bet is not doubled again. *)
LEMMA FinishDoubleDownType ==
    ASSUME TypeInv, NEW r \in Requests, NEW s \in Seats, FinishDoubleDown(r, s)
    PROVE  TypeInv'
<1> DEFINE seat(hand) == RecordActivity([seats[s] EXCEPT
                            !.pending_double = FALSE, !.bet = seats[s].bet * 2,
                            !.hand = hand, !.stood = TRUE])
           doubled(hand) == [seats EXCEPT ![s] = seat(hand)]
           outcome(hand) == IF hand = "bust" THEN Bust(s) ELSE NoOutcome
<1>1. PICK hand \in AfterHit :
         /\ Settle(doubled(hand), outcome(hand), round)
         /\ AdvanceOrFinishRound(Finished(doubled(hand), outcome(hand)))
  BY DEF FinishDoubleDown
<1>2. seats[s] \in SeatType /\ seats[s].user \in Users /\ seats[s].bet * 2 \in 0 .. 2 * MaxBet
  <2>1. /\ seats[s] \in SeatType /\ SeatOK(seats[s], phase)
        /\ seats[s].bet > 0 /\ seats[s].hand \in DealtHands
    BY DEF FinishDoubleDown, TypeInv, TypeOK, SeatInv, Playable, HasUnresolvedBet, CanDouble
  <2>2. seats[s].user \in Users /\ ~(seats[s].bet > MaxBet)
    BY <2>1 DEF SeatOK, DealtHands, AfterHit
  <2>3. seats[s].bet \in Nat
    BY <2>1, BlackjackAssumption DEF SeatType
  <2> QED
    BY <2>1, <2>2, <2>3, BlackjackAssumption
<1>3. /\ seat(hand) \in SeatType /\ SeatOK(seat(hand), "PlayerTurn")
      /\ seat(hand).user \in Users
  BY <1>2 DEF RecordActivity, SeatType, SeatOK, AfterHit, PlayerHands, LiveHands
<1> HIDE DEF seat
<1>4. /\ doubled(hand) \in SeatsType /\ doubled(hand)[s].user \in Users
      /\ \A t \in Seats : SeatOK(doubled(hand)[t], "PlayerTurn")
  BY <1>3, UpdateType DEF TypeInv, TypeOK, SeatInv, SeatsType, SeatOK
<1> HIDE DEF doubled
<1>5. /\ unpaid' \subseteq [user : Users, round : Nat, credit : Nat]
      /\ net' \in [Users -> Int] /\ bank' = bank
  <2>1. CASE hand = "bust"
    BY <1>1, <1>4, <2>1, BustSettles
  <2>2. CASE hand # "bust"
    BY <1>1, <2>2, NothingSettles DEF TypeInv, TypeOK
  <2> QED
    BY <2>1, <2>2
<1>6. request' \in [Requests -> RequestType]
  BY RequestUpdate, NoRequestType DEF FinishDoubleDown
<1> HIDE DEF outcome
<1> QED
  BY <1>1, <1>4, <1>5, <1>6, FinishedType, FinishedOK, AdvanceStep
     DEF FinishDoubleDown, TypeInv, TypeOK

(* The betting countdown. *)
LEMMA CountdownType ==
    ASSUME TypeInv, EnsureBettingCountdown
    PROVE  /\ betting_deadline' \in Deadlines /\ betting_countdown_id' \in Nat
           /\ dealTasks' \in SUBSET Nat
<1>1. betting_deadline \in Deadlines /\ betting_countdown_id \in Nat
      /\ dealTasks \in SUBSET Nat
  BY DEF TypeInv, TypeOK
<1>2. betting_countdown_id' \in Nat
  BY <1>1 DEF EnsureBettingCountdown
<1> QED
  BY <1>1, <1>2 DEF EnsureBettingCountdown, Deadlines

(* The critical sections of a request keep the types. *)
LEMMA RequestStepType ==
    ASSUME TypeInv, NEW r \in Requests, RequestStep(r),
           request[r].pc = "bet taken" => phase = "Betting"
    PROVE  TypeInv'
<1>1. PICK s \in Seats :
         \/ MarkBetPending(r, s) \/ LockBet(r, s) \/ ReleaseBet(r, s)
         \/ FinishDoubleDown(r, s) \/ ClearPendingDouble(r, s)
  BY DEF RequestStep
<1>2. seats[s] \in SeatType /\ SeatOK(seats[s], phase)
  BY DEF TypeInv, TypeOK, SeatInv
<1>3. CASE MarkBetPending(r, s)
  <2> DEFINE amount == request[r].amount
             seat == RecordActivity([seats[s] EXCEPT !.pending_bet = amount, !.stake = 0])
  <2>1. amount \in 0 .. MaxBet
    <3>1. amount \in MinBet .. MaxBet
      BY <1>3 DEF MarkBetPending
    <3> HIDE DEF amount
    <3> QED
      BY <3>1, Bounds
  <2>2. request' \in [Requests -> RequestType]
    BY <1>3, RequestAtWork, RequestUpdate DEF MarkBetPending, BetStages
  <2> HIDE DEF amount
  <2>3. seat \in SeatType /\ SeatOK(seat, phase)
    BY <1>2, <2>1, Zeros DEF RecordActivity, SeatType, SeatOK
  <2>4. seats' = [seats EXCEPT ![s] = seat]
    BY <1>3 DEF MarkBetPending, amount
  <2> HIDE DEF seat
  <2> QED
    BY <1>3, <2>2, <2>3, <2>4, OneSeatChanges DEF MarkBetPending
<1>4. CASE LockBet(r, s)
  <2> DEFINE seat == RecordActivity([seats[s] EXCEPT !.bet = seats[s].pending_bet,
                                        !.pending_bet = 0, !.missed_deals = 0])
             ss == [seats EXCEPT ![s] = seat]
  <2>1. request' \in [Requests -> RequestType]
    BY <1>4, RequestUpdate, NoRequestType DEF LockBet
  <2>2. seats[s].user \in Users
    BY <1>4, RequestAtWork DEF LockBet
  <2>3. PICK b : b = seats[s].pending_bet /\ b \in 0 .. MaxBet /\ b \in 0 .. 2 * MaxBet
    BY <1>2, Bounds DEF SeatType
  <2>4. seat \in SeatType /\ SeatOK(seat, phase) /\ seat.bet <= MaxBet
    <3>1. seat = RecordActivity([seats[s] EXCEPT !.bet = b, !.pending_bet = 0,
                                                  !.missed_deals = 0])
      BY <2>3
    <3>2. ~(b > MaxBet) /\ b <= MaxBet /\ 0 \in 0 .. MaxMissedDeals - 1
      BY <2>3, Bounds
    <3> HIDE DEF seat
    <3> QED
      BY <1>2, <2>2, <2>3, <3>1, <3>2, Zeros DEF RecordActivity, SeatType, SeatOK
  <2>5. \/ StartRound(ss) /\ UNCHANGED dealTasks
        \/ /\ seats' = ss
           /\ EnsureBettingCountdown
           /\ UNCHANGED <<phase, dealing, action_deadline, action_countdown_id,
                          actionTasks, accounts, round>>
    BY <1>4 DEF LockBet
  <2> HIDE DEF seat
  <2>6. CASE StartRound(ss) /\ UNCHANGED dealTasks
    <3>1. Dealable(ss)
      <4>1. phase = "Betting"
        BY <1>4 DEF LockBet
      <4>2. ASSUME NEW t \in Seats, t # s
            PROVE  seats[t].bet > 0 => seats[t].user \in Users /\ seats[t].bet <= MaxBet
        BY <4>1, BlackjackAssumption
           DEF TypeInv, TypeOK, SeatInv, SeatOK, SeatType, AfterHit
      <4> QED
        BY <2>4, <4>2, UpdateType DEF Dealable, TypeInv, TypeOK, SeatsType, SeatOK
    <3> QED
      BY <2>1, <2>6, <3>1, DealtTypeInv DEF TypeInv, TypeOK
  <2>7. CASE /\ seats' = ss
             /\ EnsureBettingCountdown
             /\ UNCHANGED <<phase, dealing, action_deadline, action_countdown_id,
                            actionTasks, accounts, round>>
    <3>1. seats' \in SeatsType /\ SeatInv'
      BY <2>4, <2>7, UpdateType DEF TypeInv, TypeOK, SeatInv, SeatsType
    <3>2. /\ betting_deadline' \in Deadlines /\ betting_countdown_id' \in Nat
          /\ dealTasks' \in SUBSET Nat
      BY <2>7, CountdownType
    <3> QED
      BY <2>1, <2>7, <3>1, <3>2 DEF TypeInv, TypeOK, SeatsType, dealing, accounts
  <2> QED
    BY <2>5, <2>6, <2>7
<1>5. CASE ReleaseBet(r, s)
  <2> DEFINE seat == [seats[s] EXCEPT !.pending_bet = 0]
  <2>1. request' \in [Requests -> RequestType]
    BY <1>5, RequestUpdate, NoRequestType DEF ReleaseBet
  <2>2. seat \in SeatType /\ SeatOK(seat, phase)
    BY <1>2, Zeros DEF SeatType, SeatOK
  <2> QED
    BY <1>5, <2>1, <2>2, OneSeatChanges DEF ReleaseBet
<1>6. CASE ClearPendingDouble(r, s)
  <2> DEFINE seat == [seats[s] EXCEPT !.pending_double = FALSE]
  <2>1. request' \in [Requests -> RequestType]
    BY <1>6, RequestUpdate, NoRequestType DEF ClearPendingDouble
  <2>2. seat \in SeatType /\ SeatOK(seat, phase)
    BY <1>2 DEF SeatType, SeatOK
  <2> QED
    BY <1>6, <2>1, <2>2, OneSeatChanges DEF ClearPendingDouble
<1> QED
  BY <1>1, <1>3, <1>4, <1>5, <1>6, FinishDoubleDownType

-------------------------------------------------------------------------------
(* The timer tasks. *)
LEMMA AutoDealType ==
    ASSUME TypeInv, NEW id, AutoDeal(id) PROVE TypeInv'
<1>1. Dealable(seats)
  BY BlackjackAssumption
     DEF AutoDeal, CountdownMatches, Dealable, TypeInv, TypeOK, SeatsType, SeatInv, SeatOK,
         SeatType, AfterHit
<1>2. request' \in [Requests -> RequestType] /\ dealTasks' \in SUBSET Nat
  BY DEF AutoDeal, TypeInv, TypeOK
<1> QED
  BY <1>1, <1>2, DealtTypeInv DEF AutoDeal

(* The action timeout keeps the types. *)
LEMMA AutoStandType ==
    ASSUME TypeInv, NEW id, AutoStandRemaining(id) PROVE TypeInv'
<1> DEFINE stood(s) == [seats[s] EXCEPT !.stood = TRUE,
                                        !.deferred_leave_reason = "MissedAction"]
           ss == [s \in Seats |-> IF Playable(seats[s]) /\ ~seats[s].pending_double
                                  THEN stood(s) ELSE seats[s]]
<1>1. ASSUME NEW s \in Seats
      PROVE  /\ seats[s] \in SeatType /\ SeatOK(seats[s], "PlayerTurn")
             /\ stood(s) \in SeatType /\ SeatOK(stood(s), "PlayerTurn")
  BY ZenonT(40) DEF TypeInv, TypeOK, SeatInv, SeatType, SeatOK, DeferredLeaveReasons
<1> HIDE DEF stood
<1>2. ss \in SeatsType /\ \A s \in Seats : SeatOK(ss[s], "PlayerTurn")
  BY <1>1 DEF SeatsType
<1>3. AdvanceOrFinishRound(ss)
  BY DEF AutoStandRemaining, stood
<1> HIDE DEF ss
<1> QED
  BY <1>2, <1>3, AdvanceStep DEF AutoStandRemaining, TypeInv, TypeOK, accounts

(* The timer tasks keep the types. *)
LEMMA TimerStepType ==
    ASSUME TypeInv, TimerStep PROVE TypeInv'
<1>1. CASE BettingDeadlinePasses \/ ActionDeadlinePasses
  BY <1>1 DEF BettingDeadlinePasses, ActionDeadlinePasses, TypeInv, TypeOK, SeatInv,
              Deadlines, dealing, accounts
<1>2. CASE StaleTaskEnds
  <2>1. dealTasks' \in SUBSET Nat /\ actionTasks' \in SUBSET Nat
        /\ UNCHANGED dealerTasks
    BY <1>2 DEF StaleTaskEnds, TypeInv, TypeOK
  <2> QED
    BY <1>2, <2>1 DEF StaleTaskEnds, TypeInv, TypeOK, SeatInv, accounts
<1> QED
  BY <1>1, <1>2, AutoDealType, AutoStandType DEF TimerStep

(* The dealer. *)
LEMMA DealerDrawsType ==
    ASSUME TypeInv, NEW id, DealerDraws(id) PROVE TypeInv'
  BY DEF DealerDraws, TypeInv, TypeOK, SeatInv, AfterDealerDraw, DealerHands, timers,
         accounts

(* The settlement of the round keeps the types. *)
LEMMA FinishDealerTurnType ==
    ASSUME TypeInv, NEW id, FinishDealerTurn(id) PROVE TypeInv'
<1> DEFINE unresolved == {s \in Seats : HasUnresolvedBet(seats[s])}
<1>1. PICK outcome \in [unresolved -> Outcomes] :
         /\ Settle(seats, outcome, round)
         /\ seats' = RemoveDeferredLeaveSeats(Finished(seats, outcome), "Settling")
  BY DEF FinishDealerTurn
<1>2. \A s \in unresolved : seats[s].user \in Users
  BY DEF HasUnresolvedBet, TypeInv, SeatInv, SeatOK
<1> HIDE DEF unresolved
<1>3. unresolved \in SUBSET Seats
  BY DEF unresolved
<1>4. /\ unpaid' \subseteq [user : Users, round : Nat, credit : Nat]
      /\ net' \in [Users -> Int] /\ bank' = bank
  BY <1>1, <1>2, <1>3, SettleType DEF TypeInv, TypeOK, SeatsType
<1>5. seats \in SeatsType /\ \A s \in Seats : SeatOK(seats[s], "Settling")
  BY DEF TypeInv, TypeOK, SeatsType, SeatInv, SeatOK
<1>6. /\ Finished(seats, outcome) \in SeatsType
      /\ \A s \in Seats : SeatOK(Finished(seats, outcome)[s], "Settling")
  BY <1>5, FinishedType, FinishedOK
<1>7. seats' \in SeatsType /\ \A s \in Seats : SeatOK(seats'[s], "Settling")
  BY <1>1, <1>6, RemoveType, EmptySeatOK
<1>8. SeatInv'
  BY <1>7 DEF FinishDealerTurn, SeatInv
<1>9. TypeOK'
  BY <1>4, <1>7 DEF FinishDealerTurn, TypeInv, TypeOK, SeatsType, Phases, timers
<1> QED
  BY <1>8, <1>9 DEF TypeInv

(* The inactivity tasks. *)
LEMMA KickStepType ==
    ASSUME TypeInv, KickStep PROVE TypeInv'
<1>1. PICK u \in Users, s \in Seats :
         KickSkipped(u, s) \/ KickStands(u, s) \/ KickDeferred(u, s) \/ KickLeaves(u, s)
  BY DEF KickStep
<1>2. seats[s] \in SeatType /\ SeatOK(seats[s], phase)
  BY DEF TypeInv, TypeOK, SeatInv
<1>3. CASE KickSkipped(u, s)
  <2> DEFINE seat == [seats[s] EXCEPT !.armed = FALSE]
  <2>1. seat \in SeatType /\ SeatOK(seat, phase)
    BY <1>2 DEF SeatType, SeatOK
  <2> QED
    BY <1>3, <2>1, OneSeatOnly DEF KickSkipped
<1>4. CASE KickStands(u, s)
  <2> DEFINE seat == [seats[s] EXCEPT !.armed = FALSE, !.stood = TRUE,
                                      !.deferred_leave_reason = "Idle"]
             stood == [seats EXCEPT ![s] = seat]
             ss == RemoveDeferredLeaveSeats(stood, "PlayerTurn")
  <2>1. seat \in SeatType /\ SeatOK(seat, "PlayerTurn")
    BY <1>2 DEF SeatType, SeatOK, DeferredLeaveReasons
  <2>2. AdvanceOrFinishRound(ss)
    BY <1>4 DEF KickStands, TypeInv, TypeOK
  <2> HIDE DEF seat
  <2>3. stood \in SeatsType /\ \A t \in Seats : SeatOK(stood[t], "PlayerTurn")
    BY <2>1, UpdateType DEF TypeInv, TypeOK, SeatInv, SeatsType, SeatOK
  <2> HIDE DEF stood
  <2>4. ss \in SeatsType /\ \A t \in Seats : SeatOK(ss[t], "PlayerTurn")
    BY <2>3, RemoveType, EmptySeatOK
  <2> HIDE DEF ss
  <2> QED
    BY <1>4, <2>2, <2>4, AdvanceStep DEF KickStands, TypeInv, TypeOK, accounts
<1>5. CASE KickDeferred(u, s)
  <2> DEFINE seat == [seats[s] EXCEPT !.armed = FALSE, !.deferred_leave_reason = "Idle"]
  <2>1. seat \in SeatType /\ SeatOK(seat, phase)
    BY <1>2 DEF SeatType, SeatOK, DeferredLeaveReasons
  <2>2. seats' = [seats EXCEPT ![s] = seat]
    BY <1>5 DEF KickDeferred, TypeInv, TypeOK
  <2> HIDE DEF seat
  <2> QED
    BY <1>5, <2>1, <2>2, OneSeatOnly DEF KickDeferred
<1>6. CASE KickLeaves(u, s)
  BY <1>6, EmptySeatType, EmptySeatOK, OneSeatOnly DEF KickLeaves
<1> QED
  BY <1>1, <1>3, <1>4, <1>5, <1>6

(* The initial state has the types. *)
LEMMA InitType == Init => TypeInv
<1> SUFFICES ASSUME Init PROVE TypeInv
  OBVIOUS
<1>1. TypeOK
  BY EmptySeatType, NoRequestType, ChipsAssumption
     DEF Init, TypeOK, Phases, Deadlines, DealerHands, Ensured
<1>2. SeatInv
  BY EmptySeatOK DEF Init, SeatInv
<1> QED
  BY <1>1, <1>2 DEF TypeInv

------------------------------------------------------------------------------
(***************************************************************************)
(* A debit in flight and the seat that waits for it belong together, for   *)
(* every number of users, seats, requests and rounds.                      *)
(*                                                                         *)
(* Most steps do not touch a pending seat: they are quiet, and one lemma   *)
(* (QuietStep) deals with all of them.  What is left is that a request     *)
(* marks a seat that no other request has marked, and that the critical    *)
(* section that ends a request unmarks its seat.                           *)
(***************************************************************************)

(***************************************************************************)
(* PendingTracksDebit is inductive together with two facts: nobody sits    *)
(* twice, and a hand whose bet is open during the players' turn is neither *)
(* a natural nor bust, so that a hand that may double is two cards.        *)
(***************************************************************************)
OneSeatEach ==
    \A s, t \in Seats : Occupied(seats[s]) /\ seats[s].user = seats[t].user => s = t

PlayerHandsLive ==
    phase = "PlayerTurn" =>
        \A s \in Seats : HasUnresolvedBet(seats[s]) => seats[s].hand \in LiveHands

DebitInv == TypeInv /\ OneSeatEach /\ PlayerHandsLive /\ PendingTracksDebit

Pending(r) == BetPending(r) \/ DoublePending(r)

(* What DebitInv says of a pending seat. *)
LEMMA PendingSeats ==
    ASSUME DebitInv
    PROVE  /\ \A s \in Seats : seats[s].pending_bet > 0 =>
                 phase = "Betting" /\ seats[s].bet = 0 /\ seats[s].user \in Users
           /\ \A s \in Seats : seats[s].pending_double =>
                 /\ phase = "PlayerTurn" /\ Playable(seats[s]) /\ seats[s].hand = "two"
                 /\ seats[s].user \in Users
<1>1. ASSUME NEW r \in Requests, Pending(r)
      PROVE  request[r].user \in Users /\ request[r].user # NoUser
  <2>1. request[r].pc # "idle"
    BY <1>1 DEF Pending, BetPending, DoublePending, BetStages, DoubleStages
  <2> QED
    BY <2>1, RequestAtWork, BlackjackAssumption DEF DebitInv
<1>2. ASSUME NEW s \in Seats, seats[s].pending_bet > 0
      PROVE  phase = "Betting" /\ seats[s].bet = 0 /\ seats[s].user \in Users
  <2>1. PICK r \in Requests : BetPending(r) /\ request[r].user = seats[s].user
    BY <1>2 DEF DebitInv, PendingTracksDebit
  <2>2. PICK t \in Seats : /\ seats[t].user = request[r].user
                           /\ phase = "Betting" /\ seats[t].bet = 0
    BY <2>1 DEF DebitInv, PendingTracksDebit
  <2>3. seats[s].user \in Users /\ seats[s].user # NoUser
    BY <1>1, <2>1 DEF Pending
  <2>4. s = t
    BY <2>1, <2>2, <2>3 DEF DebitInv, OneSeatEach, Occupied
  <2> QED
    BY <2>2, <2>3, <2>4
<1>3. ASSUME NEW s \in Seats, seats[s].pending_double
      PROVE  /\ phase = "PlayerTurn" /\ Playable(seats[s]) /\ seats[s].hand = "two"
             /\ seats[s].user \in Users
  <2>1. PICK r \in Requests : DoublePending(r) /\ request[r].user = seats[s].user
    BY <1>3 DEF DebitInv, PendingTracksDebit
  <2>2. PICK t \in Seats : /\ seats[t].user = request[r].user
                           /\ phase = "PlayerTurn" /\ Playable(seats[t])
                           /\ seats[t].hand = "two"
    BY <2>1 DEF DebitInv, PendingTracksDebit
  <2>3. seats[s].user \in Users /\ seats[s].user # NoUser
    BY <1>1, <2>1 DEF Pending
  <2>4. s = t
    BY <2>1, <2>2, <2>3 DEF DebitInv, OneSeatEach, Occupied
  <2> QED
    BY <2>2, <2>3, <2>4
<1> QED
  BY <1>2, <1>3

(***************************************************************************)
(* A step leaves a seat quiet if it does not touch a pending seat, makes   *)
(* none pending, seats nobody, and leaves no open hand dead.               *)
(***************************************************************************)
BetHeld(s) ==
    /\ phase' = phase
    /\ seats'[s].user = seats[s].user
    /\ seats'[s].pending_bet = seats[s].pending_bet
    /\ seats'[s].bet = seats[s].bet

DoubleHeld(s) ==
    /\ phase' = phase
    /\ seats'[s].user = seats[s].user
    /\ seats'[s].pending_double /\ seats'[s].bet = seats[s].bet
    /\ seats'[s].hand = seats[s].hand
    /\ Playable(seats'[s])

QuietPending(s) ==
    /\ seats[s].pending_bet > 0 => BetHeld(s)
    /\ seats[s].pending_double => DoubleHeld(s)
    /\ seats'[s].pending_bet > 0 => seats[s].pending_bet > 0
    /\ seats'[s].pending_double => seats[s].pending_double

Quiet(s) ==
    /\ QuietPending(s)
    /\ seats'[s].user \in {seats[s].user, NoUser}
    /\ phase' = "PlayerTurn" /\ HasUnresolvedBet(seats'[s]) =>
          seats'[s].hand \in LiveHands

(* The requests keep what is pending of them. *)
SameRequest(r) ==
    /\ (BetPending(r)' <=> BetPending(r)) /\ (DoublePending(r)' <=> DoublePending(r))
    /\ Pending(r) => /\ request'[r].user = request[r].user
                     /\ request'[r].amount = request[r].amount

(* Nobody sits twice after a step by which users only leave. *)
LEMMA QuietUsers ==
    ASSUME OneSeatEach, \A s \in Seats : seats'[s].user \in {seats[s].user, NoUser}
    PROVE  OneSeatEach'
  BY DEF OneSeatEach, Occupied

(* The open hands are live after a step that leaves no open hand dead. *)
LEMMA QuietHands ==
    ASSUME \A s \in Seats : phase' = "PlayerTurn" /\ HasUnresolvedBet(seats'[s]) =>
                               seats'[s].hand \in LiveHands
    PROVE  PlayerHandsLive'
  BY DEF PlayerHandsLive

(* The amounts that are pending are positive. *)
LEMMA PendingAmount ==
    ASSUME TypeInv, NEW r \in Requests, Pending(r)
    PROVE  request[r].amount > 0 /\ request[r].user \in Users /\ request[r].user # NoUser
<1>1. request[r].pc # "idle"
  BY DEF Pending, BetPending, DoublePending, BetStages, DoubleStages
<1>2. request[r].user \in Users /\ request[r].amount \in 1 .. MaxBet
  BY <1>1, RequestAtWork
<1> QED
  BY <1>2, BlackjackAssumption

(* The seats and the debits still match if all seats and requests keep what is pending. *)
LEMMA QuietDebits ==
    ASSUME DebitInv, \A s \in Seats : QuietPending(s), \A r \in Requests : SameRequest(r)
    PROVE  PendingTracksDebit'
<1>2. ASSUME NEW r \in Requests, BetPending(r)'
      PROVE  \E s \in Seats :
                /\ seats'[s].user = request'[r].user
                /\ seats'[s].pending_bet = request'[r].amount
                /\ phase' = "Betting" /\ seats'[s].bet = 0
  <2>1. BetPending(r) /\ Pending(r)
    BY <1>2 DEF SameRequest, Pending
  <2>2. PICK s \in Seats :
           /\ seats[s].user = request[r].user
           /\ seats[s].pending_bet = request[r].amount
           /\ phase = "Betting" /\ seats[s].bet = 0
    BY <2>1 DEF DebitInv, PendingTracksDebit
  <2>3. BetHeld(s)
    BY <2>1, <2>2, PendingAmount DEF DebitInv, QuietPending
  <2> QED
    BY <2>1, <2>2, <2>3 DEF BetHeld, SameRequest
<1>3. ASSUME NEW r \in Requests, DoublePending(r)'
      PROVE  \E s \in Seats :
                /\ seats'[s].user = request'[r].user
                /\ seats'[s].pending_double /\ seats'[s].bet = request'[r].amount
                /\ phase' = "PlayerTurn" /\ Playable(seats'[s])
                /\ seats'[s].hand = "two"
  <2>1. DoublePending(r) /\ Pending(r)
    BY <1>3 DEF SameRequest, Pending
  <2>2. PICK s \in Seats :
           /\ seats[s].user = request[r].user
           /\ seats[s].pending_double /\ seats[s].bet = request[r].amount
           /\ phase = "PlayerTurn" /\ Playable(seats[s])
           /\ seats[s].hand = "two"
    BY <2>1 DEF DebitInv, PendingTracksDebit
  <2>3. DoubleHeld(s)
    BY <2>2 DEF QuietPending
  <2> QED
    BY <2>1, <2>2, <2>3 DEF DoubleHeld, SameRequest
<1>4. ASSUME NEW s \in Seats, seats'[s].pending_bet > 0
      PROVE  \E r \in Requests : BetPending(r)' /\ request'[r].user = seats'[s].user
  <2>1. seats[s].pending_bet > 0 /\ BetHeld(s)
    BY <1>4 DEF QuietPending
  <2>2. PICK r \in Requests : BetPending(r) /\ request[r].user = seats[s].user
    BY <2>1 DEF DebitInv, PendingTracksDebit
  <2> QED
    BY <2>1, <2>2 DEF SameRequest, Pending, BetHeld
<1>5. ASSUME NEW s \in Seats, seats'[s].pending_double
      PROVE  \E r \in Requests : DoublePending(r)' /\ request'[r].user = seats'[s].user
  <2>1. seats[s].pending_double /\ DoubleHeld(s)
    BY <1>5 DEF QuietPending
  <2>2. PICK r \in Requests : DoublePending(r) /\ request[r].user = seats[s].user
    BY <2>1 DEF DebitInv, PendingTracksDebit
  <2> QED
    BY <2>1, <2>2 DEF SameRequest, Pending, DoubleHeld
<1>6. ASSUME NEW q \in Requests, NEW r \in Requests, Pending(q)', Pending(r)',
             request'[q].user = request'[r].user
      PROVE  q = r
  <2>1. Pending(q) /\ Pending(r)
    BY <1>6 DEF SameRequest, Pending
  <2> QED
    BY <1>6, <2>1 DEF SameRequest, Pending, DebitInv, PendingTracksDebit
<1> QED
  BY <1>2, <1>3, <1>4, <1>5, <1>6 DEF PendingTracksDebit, Pending

(* The three invariants over a step that leaves every seat quiet. *)
Others == OneSeatEach /\ PlayerHandsLive /\ PendingTracksDebit

(* The same for the three invariants. *)
LEMMA QuietStep ==
    ASSUME DebitInv, \A s \in Seats : Quiet(s), \A r \in Requests : SameRequest(r)
    PROVE  Others'
  BY QuietDebits, QuietUsers, QuietHands DEF DebitInv, Quiet, Others

(* A step that leaves the requests alone. *)
LEMMA NoRequestChanges ==
    ASSUME UNCHANGED request PROVE \A r \in Requests : SameRequest(r)
  BY DEF SameRequest, BetPending, DoublePending

-------------------------------------------------------------------------------
(* A seat that a step leaves alone, in the phase it is in, stays quiet. *)
LEMMA SameSeatQuiet ==
    ASSUME DebitInv, NEW s \in Seats, phase' = phase, seats'[s] = seats[s]
    PROVE  Quiet(s)
  BY PendingSeats
     DEF Quiet, QuietPending, BetHeld, DoubleHeld, DebitInv, PlayerHandsLive

(* A step that leaves the seats alone. *)
LEMMA SameSeats ==
    ASSUME DebitInv, UNCHANGED <<phase, seats>> PROVE \A s \in Seats : Quiet(s)
  BY SameSeatQuiet

(* A step that changes one seat is quiet if it is at that seat. *)
LEMMA OneSeatQuiet ==
    ASSUME DebitInv, NEW s \in Seats, NEW seat, phase' = phase,
           seats' = [seats EXCEPT ![s] = seat],
           seats'[s] = seat => Quiet(s)
    PROVE  \A t \in Seats : Quiet(t)
<1>1. seats'[s] = seat /\ \A t \in Seats : t # s => seats'[t] = seats[t]
  BY DEF DebitInv, TypeInv, TypeOK
<1> QED
  BY <1>1, SameSeatQuiet

(* A seat becomes empty that holds no pending chips. *)
LEMMA EmptiedQuiet ==
    ASSUME DebitInv, NEW s \in Seats, seats'[s] = EmptySeat,
           ~(seats[s].pending_bet > 0), ~seats[s].pending_double
    PROVE  Quiet(s)
  BY DEF Quiet, QuietPending, EmptySeat, HasUnresolvedBet

(* Only the stake and the activity of a seat change. *)
LEMMA StakeQuiet ==
    ASSUME DebitInv, NEW s \in Seats, NEW stake, OnlySeats,
           seats' = [seats EXCEPT ![s] = RecordActivity([seats[s] EXCEPT !.stake = stake])]
    PROVE  Others'
<1> DEFINE seat == RecordActivity([seats[s] EXCEPT !.stake = stake])
<1>1. /\ seat.user = seats[s].user /\ seat.pending_bet = seats[s].pending_bet
      /\ seat.bet = seats[s].bet /\ seat.pending_double = seats[s].pending_double
      /\ seat.hand = seats[s].hand /\ seat.stood = seats[s].stood
      /\ seat.resolved = seats[s].resolved
  BY DEF RecordActivity, DebitInv, TypeInv, TypeOK, SeatType
<1> HIDE DEF seat
<1>2. phase' = phase /\ UNCHANGED request
  BY DEF OnlySeats
<1>3. ASSUME seats'[s] = seat PROVE Quiet(s)
  BY <1>1, <1>2, <1>3, PendingSeats
     DEF Quiet, QuietPending, BetHeld, DoubleHeld, DebitInv, PlayerHandsLive, Playable,
         HasUnresolvedBet
<1>4. seats' = [seats EXCEPT ![s] = seat]
  BY DEF seat
<1>5. \A t \in Seats : Quiet(t)
  BY <1>2, <1>3, <1>4, OneSeatQuiet
<1> QED
  BY <1>2, <1>5, QuietStep, NoRequestChanges

(* Sitting down disturbs no pending seat, as it takes a seat without a user. *)
LEMMA SitDebits ==
    ASSUME DebitInv, NEW u \in Users, NEW s \in Seats, Sit(u, s) PROVE Others'
<1> DEFINE seat == RecordActivity([seats[s] EXCEPT !.user = u])
<1>1. /\ seat.user = u /\ seat.pending_bet = seats[s].pending_bet
      /\ seat.bet = seats[s].bet /\ seat.pending_double = seats[s].pending_double
      /\ seat.hand = seats[s].hand /\ seat.stood = seats[s].stood
      /\ seat.resolved = seats[s].resolved
  BY DEF RecordActivity, DebitInv, TypeInv, TypeOK, SeatType
<1> HIDE DEF seat
<1>2. /\ phase' = phase /\ UNCHANGED request
      /\ seats'[s] = seat /\ \A t \in Seats : t # s => seats'[t] = seats[t]
  BY DEF Sit, OnlySeats, seat, DebitInv, TypeInv, TypeOK
<1>3. ~(seats[s].pending_bet > 0) /\ ~seats[s].pending_double
  BY PendingSeats, BlackjackAssumption DEF Sit, Occupied
<1>4. \A t \in Seats : QuietPending(t)
  BY <1>1, <1>2, <1>3, SameSeatQuiet DEF Quiet, QuietPending
<1>5. PendingTracksDebit'
  BY <1>2, <1>4, QuietDebits, NoRequestChanges
<1>6. OneSeatEach'
  BY <1>1, <1>2 DEF Sit, DebitInv, OneSeatEach, Occupied
<1>7. PlayerHandsLive'
  BY <1>1, <1>2 DEF DebitInv, PlayerHandsLive, HasUnresolvedBet
<1> QED
  BY <1>5, <1>6, <1>7 DEF Others

(* Nor does any other step at the seats: a pending seat cannot be left. *)
LEMMA SeatStepDebits ==
    ASSUME DebitInv, SeatStep PROVE Others'
<1>1. PICK u \in Users, s \in Seats :
         \/ Sit(u, s) \/ LeaveSeat(u, s) \/ TouchActivity(u, s)
         \/ \E chip \in ChipDenominations : ThrowChip(u, s, chip)
         \/ \E chip \in ChipDenominations : PullStakeChip(u, s, chip)
         \/ ClearStake(u, s)
  BY DEF SeatStep
<1>2. CASE LeaveSeat(u, s)
  <2>1. ~(seats[s].pending_bet > 0) /\ ~seats[s].pending_double
    <3>1. \/ phase = "Settling"
          \/ seats[s].bet = 0 /\ seats[s].pending_bet = 0
      BY <1>2 DEF LeaveSeat
    <3> QED
      BY <3>1, PendingSeats DEF Playable, HasUnresolvedBet
  <2>2. seats'[s] = EmptySeat => Quiet(s)
    BY <2>1, EmptiedQuiet
  <2>3. \A t \in Seats : Quiet(t)
    BY <1>2, <2>2, OneSeatQuiet DEF LeaveSeat, OnlySeats
  <2> QED
    BY <1>2, <2>3, QuietStep, NoRequestChanges DEF LeaveSeat, OnlySeats
<1>3. CASE TouchActivity(u, s)
  <2>1. RecordActivity(seats[s]) = RecordActivity([seats[s] EXCEPT !.stake = seats[s].stake])
    BY DEF RecordActivity, DebitInv, TypeInv, TypeOK, SeatType
  <2> QED
    BY <1>3, <2>1, StakeQuiet DEF TouchActivity
<1>4. ASSUME NEW chip \in ChipDenominations,
             ThrowChip(u, s, chip) \/ PullStakeChip(u, s, chip)
      PROVE  Others'
  BY <1>4, StakeQuiet DEF ThrowChip, PullStakeChip
<1>5. CASE ClearStake(u, s)
  BY <1>5, StakeQuiet DEF ClearStake
<1> QED
  BY <1>1, <1>2, <1>3, <1>4, <1>5, SitDebits

-------------------------------------------------------------------------------
(* Requests that are not pending before or after a step. *)
LEMMA OneRequest ==
    ASSUME DebitInv, NEW r \in Requests, NEW q,
           request' = [request EXCEPT ![r] = q]
    PROVE  /\ request'[r] = q
           /\ \A x \in Requests : x # r => request'[x] = request[x] /\ SameRequest(x)
  BY DEF SameRequest, BetPending, DoublePending, DebitInv, TypeInv, TypeOK

(* A request that is not yet pending may come and go. *)
LEMMA IdleRequest ==
    ASSUME DebitInv, NEW r \in Requests, NEW q,
           request' = [request EXCEPT ![r] = q], ~Pending(r),
           q.pc \in {"idle", "submitted"}
    PROVE  \A x \in Requests : SameRequest(x)
<1>1. ~Pending(r)'
  BY OneRequest DEF Pending, BetPending, DoublePending, BetStages, DoubleStages
<1>2. SameRequest(r)
  BY <1>1 DEF SameRequest, Pending, BetPending, DoublePending
<1> QED
  BY <1>2, OneRequest

(* The answer of the database leaves its request pending. *)
LEMMA DebitBetDebits ==
    ASSUME DebitInv, NEW r \in Requests, DebitBet(r) PROVE Others'
<1>1. /\ request[r].pc \in {"debiting bet", "debiting double"}
      /\ UNCHANGED <<phase, seats>>
  BY DEF DebitBet
<1>2. PICK ok \in BOOLEAN : Answered(r, ok)
  BY DEF DebitBet
<1>3. PICK pc \in BetStages \cup DoubleStages :
         /\ request' = [request EXCEPT ![r] = [request[r] EXCEPT !.pc = pc]]
         /\ request[r].pc = "debiting bet" => pc \in {"bet taken", "bet refused"}
         /\ request[r].pc = "debiting double" => pc \in {"double taken", "double refused"}
  BY <1>1, <1>2 DEF Answered, BetStages, DoubleStages
<1>4. [request[r] EXCEPT !.pc = pc].pc = pc
      /\ [request[r] EXCEPT !.pc = pc].user = request[r].user
      /\ [request[r] EXCEPT !.pc = pc].amount = request[r].amount
  <2>1. request[r] \in [pc : BetStages, user : Users, amount : 1 .. MaxBet]
                  \cup [pc : DoubleStages, user : Users, amount : 1 .. MaxBet]
    BY <1>1, WorkingRequest DEF DebitInv
  <2> QED
    BY <2>1
<1>5. request'[r] = [request[r] EXCEPT !.pc = pc]
      /\ \A x \in Requests : x # r => SameRequest(x)
  BY <1>3, OneRequest
<1>6. SameRequest(r)
  <2>0. /\ request'[r].pc = pc /\ request'[r].user = request[r].user
        /\ request'[r].amount = request[r].amount
    BY <1>4, <1>5
  <2>1. CASE request[r].pc = "debiting bet"
    <3>0. request'[r].pc \in {"bet taken", "bet refused"}
      BY <1>3, <2>0, <2>1
    <3>1. BetPending(r) /\ ~DoublePending(r) /\ BetPending(r)' /\ ~DoublePending(r)'
      BY <2>1, <3>0 DEF BetPending, DoublePending, BetStages, DoubleStages
    <3> QED
      BY <2>0, <3>1 DEF SameRequest
  <2>2. CASE request[r].pc = "debiting double"
    <3>0. request'[r].pc \in {"double taken", "double refused"}
      BY <1>3, <2>0, <2>2
    <3>1. ~BetPending(r) /\ DoublePending(r) /\ ~BetPending(r)' /\ DoublePending(r)'
      BY <2>2, <3>0 DEF BetPending, DoublePending, BetStages, DoubleStages
    <3> QED
      BY <2>0, <3>1 DEF SameRequest
  <2> QED
    BY <1>1, <2>1, <2>2
<1> QED
  BY <1>1, <1>5, <1>6, QuietStep, SameSeats

(* A bet that is turned away was never pending. *)
LEMMA RejectBetDebits ==
    ASSUME DebitInv, NEW r \in Requests, RejectBet(r) PROVE Others'
<1>1. ~Pending(r)
  BY DEF RejectBet, Pending, BetPending, DoublePending, BetStages, DoubleStages
<1>2. \A x \in Requests : SameRequest(x)
  BY <1>1, IdleRequest DEF RejectBet, NoRequest
<1> QED
  BY <1>2, QuietStep, SameSeats DEF RejectBet

(* A stake that is submitted is not pending yet. *)
LEMMA SubmitStakeDebits ==
    ASSUME DebitInv, NEW r \in Requests, NEW u \in Users, NEW s \in Seats,
           SubmitStake(r, u, s)
    PROVE  Others'
<1>1. ~Pending(r)
  BY DEF SubmitStake, Pending, BetPending, DoublePending, BetStages, DoubleStages
<1>2. \A x \in Requests : SameRequest(x)
  BY <1>1, IdleRequest DEF SubmitStake
<1> QED
  BY <1>2, QuietStep, SameSeats DEF SubmitStake

(***************************************************************************)
(* A request marks its user's seat, which no other request has marked.     *)
(***************************************************************************)
LEMMA NotMarkedYet ==
    ASSUME DebitInv, NEW s \in Seats, seats[s].user \in Users,
           ~(seats[s].pending_bet > 0), ~seats[s].pending_double
    PROVE  \A q \in Requests : Pending(q) => request[q].user # seats[s].user
<1> SUFFICES ASSUME NEW q \in Requests, Pending(q), request[q].user = seats[s].user
             PROVE  FALSE
  OBVIOUS
<1>1. seats[s].user # NoUser /\ request[q].amount > 0
  BY BlackjackAssumption, PendingAmount DEF DebitInv
<1>2. PICK t \in Seats :
         /\ seats[t].user = request[q].user
         /\ seats[t].pending_bet = request[q].amount \/ seats[t].pending_double
  BY DEF Pending, DebitInv, PendingTracksDebit
<1>3. s = t
  BY <1>1, <1>2 DEF DebitInv, OneSeatEach, Occupied
<1> QED
  BY <1>1, <1>2, <1>3

(* Marking a bet pending pairs one seat with one request. *)
LEMMA MarkBetDebits ==
    ASSUME DebitInv, NEW r \in Requests, NEW s \in Seats, MarkBetPending(r, s)
    PROVE  Others'
<1> DEFINE u == request[r].user
           amount == request[r].amount
           seat == RecordActivity([seats[s] EXCEPT !.pending_bet = amount, !.stake = 0])
<1>1. /\ seat.user = seats[s].user /\ seat.pending_bet = amount
      /\ seat.bet = seats[s].bet /\ seat.pending_double = seats[s].pending_double
      /\ seat.hand = seats[s].hand /\ seat.stood = seats[s].stood
      /\ seat.resolved = seats[s].resolved
  BY DEF RecordActivity, DebitInv, TypeInv, TypeOK, SeatType
<1> HIDE DEF seat
<1>2. /\ phase' = phase /\ phase = "Betting"
      /\ seats[s].user = u /\ seats[s].bet = 0 /\ seats[s].pending_bet = 0
      /\ seats'[s] = seat /\ \A t \in Seats : t # s => seats'[t] = seats[t]
  BY DEF MarkBetPending, CanStake, seat, DebitInv, TypeInv, TypeOK
<1>3. ~Pending(r) /\ u \in Users
  BY RequestAtWork
     DEF MarkBetPending, DebitInv, Pending, BetPending, DoublePending, BetStages,
         DoubleStages
<1>4. /\ request'[r].pc = "debiting bet" /\ request'[r].user = u
      /\ request'[r].amount = amount
      /\ \A x \in Requests : x # r => request'[x] = request[x] /\ SameRequest(x)
  <2>1. request[r] \in [pc : BetStages, user : Users, amount : 1 .. MaxBet]
                  \cup [pc : DoubleStages, user : Users, amount : 1 .. MaxBet]
    BY WorkingRequest DEF MarkBetPending, DebitInv
  <2> DEFINE marked == [request[r] EXCEPT !.pc = "debiting bet"]
  <2>2. marked.pc = "debiting bet" /\ marked.user = u /\ marked.amount = amount
    BY <2>1
  <2>3. request' = [request EXCEPT ![r] = marked]
    BY DEF MarkBetPending
  <2> HIDE DEF marked
  <2> QED
    BY <2>2, <2>3, OneRequest
<1>5. BetPending(r)' /\ ~DoublePending(r)'
  BY <1>4 DEF BetPending, DoublePending, BetStages, DoubleStages
<1>6. ~seats[s].pending_double
  BY <1>2, PendingSeats
<1>7. \A q \in Requests : Pending(q) => request[q].user # u
  BY <1>2, <1>3, <1>6, NotMarkedYet
<1>8. \A t \in Seats : t # s => QuietPending(t)
  BY <1>2, SameSeatQuiet DEF Quiet
<1>9. OneSeatEach' /\ PlayerHandsLive'
  BY <1>1, <1>2, QuietUsers DEF DebitInv, PlayerHandsLive
<1>10. PendingTracksDebit'
  <2>1. ASSUME NEW q \in Requests, BetPending(q)'
        PROVE  \E t \in Seats :
                  /\ seats'[t].user = request'[q].user
                  /\ seats'[t].pending_bet = request'[q].amount
                  /\ phase' = "Betting" /\ seats'[t].bet = 0
    <3>1. CASE q = r
      BY <1>1, <1>2, <1>4, <3>1
    <3>2. CASE q # r
      <4>1. BetPending(q) /\ request'[q] = request[q]
        BY <1>4, <2>1, <3>2 DEF SameRequest
      <4>2. PICK t \in Seats : /\ seats[t].user = request[q].user
                               /\ seats[t].pending_bet = request[q].amount
                               /\ phase = "Betting" /\ seats[t].bet = 0
        BY <4>1 DEF DebitInv, PendingTracksDebit
      <4>3. t # s
        BY <1>2, <1>7, <4>1, <4>2 DEF Pending
      <4> QED
        BY <1>2, <4>1, <4>2, <4>3
    <3> QED
      BY <3>1, <3>2
  <2>2. ASSUME NEW q \in Requests PROVE ~DoublePending(q)'
    BY <1>2, <1>4, <1>5 DEF SameRequest, DebitInv, PendingTracksDebit
  <2>3. ASSUME NEW t \in Seats, seats'[t].pending_bet > 0
        PROVE  \E q \in Requests : BetPending(q)' /\ request'[q].user = seats'[t].user
    <3>1. CASE t = s
      BY <1>1, <1>2, <1>4, <1>5, <3>1
    <3>2. CASE t # s
      <4>1. PICK q \in Requests : BetPending(q) /\ request[q].user = seats[t].user
        BY <1>2, <2>3, <3>2 DEF DebitInv, PendingTracksDebit
      <4>2. q # r
        BY <1>3, <4>1 DEF Pending
      <4> QED
        BY <1>2, <1>4, <3>2, <4>1, <4>2 DEF SameRequest
    <3> QED
      BY <3>1, <3>2
  <2>4. ASSUME NEW t \in Seats PROVE ~seats'[t].pending_double
    BY <1>1, <1>2, <1>6, PendingSeats
  <2>5. ASSUME NEW q \in Requests, NEW x \in Requests, Pending(q)', Pending(x)',
               request'[q].user = request'[x].user
        PROVE  q = x
    <3>1. \A y \in Requests : y # r /\ Pending(y)' =>
             Pending(y) /\ request'[y] = request[y]
      BY <1>4 DEF SameRequest, Pending
    <3>2. CASE q # r /\ x # r
      BY <2>5, <3>1, <3>2 DEF Pending, DebitInv, PendingTracksDebit
    <3>3. CASE q = r \/ x = r
      BY <1>4, <1>7, <2>5, <3>1, <3>3
    <3> QED
      BY <3>2, <3>3
  <2> QED
    BY <2>1, <2>2, <2>3, <2>4, <2>5 DEF PendingTracksDebit, Pending
<1> QED
  BY <1>9, <1>10 DEF Others


(* Marking a double pending pairs one seat with one request. *)
LEMMA PrepareDoubleDebits ==
    ASSUME DebitInv, NEW r \in Requests, NEW u \in Users, NEW s \in Seats,
           PrepareDoubleDown(r, u, s)
    PROVE  Others'
<1> DEFINE amount == seats[s].bet
           seat == RecordActivity([seats[s] EXCEPT !.pending_double = TRUE])
<1>1. /\ seat.user = seats[s].user /\ seat.pending_bet = seats[s].pending_bet
      /\ seat.bet = seats[s].bet /\ seat.pending_double
      /\ seat.hand = seats[s].hand /\ seat.stood = seats[s].stood
      /\ seat.resolved = seats[s].resolved
  BY DEF RecordActivity, DebitInv, TypeInv, TypeOK, SeatType
<1> HIDE DEF seat
<1>2. /\ phase' = phase /\ phase = "PlayerTurn"
      /\ seats[s].user = u /\ Playable(seats[s]) /\ ~seats[s].pending_double
      /\ seats'[s] = seat /\ \A t \in Seats : t # s => seats'[t] = seats[t]
  BY DEF PrepareDoubleDown, CanAct, seat, DebitInv, TypeInv, TypeOK
<1>2a. seats[s].hand = "two"
  <2>1. seats[s].hand \in DealtHands /\ seats[s].hand \in LiveHands
    BY <1>2 DEF PrepareDoubleDown, CanDouble, Playable, DebitInv, PlayerHandsLive
  <2> QED
    BY <2>1 DEF DealtHands, LiveHands
<1>3. ~Pending(r)
  BY DEF PrepareDoubleDown, Pending, BetPending, DoublePending, BetStages, DoubleStages
<1>4. /\ request'[r].pc = "debiting double" /\ request'[r].user = u
      /\ request'[r].amount = amount
      /\ \A x \in Requests : x # r => request'[x] = request[x] /\ SameRequest(x)
  <2> DEFINE q == [pc |-> "debiting double", user |-> u, amount |-> amount]
  <2>1. q.pc = "debiting double" /\ q.user = u /\ q.amount = amount
    OBVIOUS
  <2>2. request' = [request EXCEPT ![r] = q]
    BY DEF PrepareDoubleDown
  <2> HIDE DEF q
  <2> QED
    BY <2>1, <2>2, OneRequest
<1>5. DoublePending(r)' /\ ~BetPending(r)'
  BY <1>4 DEF BetPending, DoublePending, BetStages, DoubleStages
<1>6. ~(seats[s].pending_bet > 0)
  BY <1>2, PendingSeats
<1>7. \A q \in Requests : Pending(q) => request[q].user # u
  BY <1>2, <1>6, NotMarkedYet
<1>9. OneSeatEach' /\ PlayerHandsLive'
  BY <1>1, <1>2, QuietUsers DEF DebitInv, PlayerHandsLive, HasUnresolvedBet
<1>10. PendingTracksDebit'
  <2>1. ASSUME NEW q \in Requests, DoublePending(q)'
        PROVE  \E t \in Seats :
                  /\ seats'[t].user = request'[q].user
                  /\ seats'[t].pending_double /\ seats'[t].bet = request'[q].amount
                  /\ phase' = "PlayerTurn" /\ Playable(seats'[t])
                  /\ seats'[t].hand = "two"
    <3>1. CASE q = r
      BY <1>1, <1>2, <1>2a, <1>4, <3>1 DEF Playable, HasUnresolvedBet
    <3>2. CASE q # r
      <4>1. DoublePending(q) /\ request'[q] = request[q]
        BY <1>4, <2>1, <3>2 DEF SameRequest
      <4>2. PICK t \in Seats :
               /\ seats[t].user = request[q].user
               /\ seats[t].pending_double /\ seats[t].bet = request[q].amount
               /\ phase = "PlayerTurn" /\ Playable(seats[t])
               /\ seats[t].hand = "two"
        BY <4>1 DEF DebitInv, PendingTracksDebit
      <4>3. t # s
        BY <1>2, <1>7, <4>1, <4>2 DEF Pending
      <4> QED
        BY <1>2, <4>1, <4>2, <4>3
    <3> QED
      BY <3>1, <3>2
  <2>2. ASSUME NEW q \in Requests PROVE ~BetPending(q)'
    BY <1>2, <1>4, <1>5 DEF SameRequest, DebitInv, PendingTracksDebit
  <2>3. ASSUME NEW t \in Seats, seats'[t].pending_double
        PROVE  \E q \in Requests : DoublePending(q)' /\ request'[q].user = seats'[t].user
    <3>1. CASE t = s
      BY <1>1, <1>2, <1>4, <1>5, <3>1
    <3>2. CASE t # s
      <4>1. PICK q \in Requests : DoublePending(q) /\ request[q].user = seats[t].user
        BY <1>2, <2>3, <3>2 DEF DebitInv, PendingTracksDebit
      <4>2. q # r
        BY <1>3, <4>1 DEF Pending
      <4> QED
        BY <1>2, <1>4, <3>2, <4>1, <4>2 DEF SameRequest
    <3> QED
      BY <3>1, <3>2
  <2>4. ASSUME NEW t \in Seats PROVE ~(seats'[t].pending_bet > 0)
    BY <1>1, <1>2, PendingSeats
  <2>5. ASSUME NEW q \in Requests, NEW x \in Requests, Pending(q)', Pending(x)',
               request'[q].user = request'[x].user
        PROVE  q = x
    <3>1. \A y \in Requests : y # r /\ Pending(y)' =>
             Pending(y) /\ request'[y] = request[y]
      BY <1>4 DEF SameRequest, Pending
    <3>2. CASE q # r /\ x # r
      BY <2>5, <3>1, <3>2 DEF Pending, DebitInv, PendingTracksDebit
    <3>3. CASE q = r \/ x = r
      BY <1>4, <1>7, <2>5, <3>1, <3>3
    <3> QED
      BY <3>2, <3>3
  <2> QED
    BY <2>1, <2>2, <2>3, <2>4, <2>5 DEF PendingTracksDebit, Pending
<1> QED
  BY <1>9, <1>10 DEF Others

(***************************************************************************)
(* A request is done, and its seat is pending no more.                     *)
(***************************************************************************)
LEMMA UnmarkDebits ==
    ASSUME DebitInv, NEW r \in Requests, NEW s \in Seats, Pending(r),
           seats[s].user = request[r].user,
           request' = [request EXCEPT ![r] = NoRequest],
           ~(seats'[s].pending_bet > 0), ~seats'[s].pending_double,
           \A t \in Seats : t # s => QuietPending(t)
    PROVE  PendingTracksDebit'
<1>1. /\ ~BetPending(r)' /\ ~DoublePending(r)'
      /\ \A q \in Requests : q # r => request'[q] = request[q] /\ SameRequest(q)
  <2>1. /\ request'[r] = NoRequest
        /\ \A q \in Requests : q # r => request'[q] = request[q]
    BY DEF DebitInv, TypeInv, TypeOK
  <2>1a. request'[r].pc = "idle"
    BY <2>1 DEF NoRequest
  <2>2. ~BetPending(r)' /\ ~DoublePending(r)'
    BY <2>1a DEF BetPending, DoublePending, BetStages, DoubleStages
  <2>3. \A q \in Requests : q # r => SameRequest(q)
    BY <2>1 DEF SameRequest, BetPending, DoublePending
  <2> QED
    BY <2>1, <2>2, <2>3
<1>2. \A q \in Requests : Pending(q) /\ q # r => request[q].user # seats[s].user
  BY DEF Pending, DebitInv, PendingTracksDebit
<1>3. \A t \in Seats : t # s => seats[t].user # request[r].user
  <2>1. seats[s].user # NoUser
    BY PendingAmount DEF DebitInv
  <2> QED
    BY <2>1 DEF DebitInv, OneSeatEach, Occupied
<1>4. ASSUME NEW q \in Requests, BetPending(q)'
      PROVE  \E t \in Seats :
                /\ seats'[t].user = request'[q].user
                /\ seats'[t].pending_bet = request'[q].amount
                /\ phase' = "Betting" /\ seats'[t].bet = 0
  <2>1. q # r /\ BetPending(q) /\ Pending(q) /\ request'[q] = request[q]
    BY <1>1, <1>4 DEF SameRequest, Pending
  <2>2. PICK t \in Seats : /\ seats[t].user = request[q].user
                           /\ seats[t].pending_bet = request[q].amount
                           /\ phase = "Betting" /\ seats[t].bet = 0
    BY <2>1 DEF DebitInv, PendingTracksDebit
  <2>3. t # s
    BY <1>2, <2>1, <2>2
  <2>4. BetHeld(t)
    BY <2>1, <2>2, <2>3, PendingAmount DEF DebitInv, QuietPending
  <2> QED
    BY <2>1, <2>2, <2>4 DEF BetHeld
<1>5. ASSUME NEW q \in Requests, DoublePending(q)'
      PROVE  \E t \in Seats :
                /\ seats'[t].user = request'[q].user
                /\ seats'[t].pending_double /\ seats'[t].bet = request'[q].amount
                /\ phase' = "PlayerTurn" /\ Playable(seats'[t])
                /\ seats'[t].hand = "two"
  <2>1. q # r /\ DoublePending(q) /\ Pending(q) /\ request'[q] = request[q]
    BY <1>1, <1>5 DEF SameRequest, Pending
  <2>2. PICK t \in Seats :
           /\ seats[t].user = request[q].user
           /\ seats[t].pending_double /\ seats[t].bet = request[q].amount
           /\ phase = "PlayerTurn" /\ Playable(seats[t])
           /\ seats[t].hand = "two"
    BY <2>1 DEF DebitInv, PendingTracksDebit
  <2>3. t # s
    BY <1>2, <2>1, <2>2
  <2>4. DoubleHeld(t)
    BY <2>2, <2>3 DEF QuietPending
  <2> QED
    BY <2>1, <2>2, <2>4 DEF DoubleHeld
<1>6. ASSUME NEW t \in Seats, seats'[t].pending_bet > 0
      PROVE  \E q \in Requests : BetPending(q)' /\ request'[q].user = seats'[t].user
  <2>1. t # s /\ seats[t].pending_bet > 0 /\ BetHeld(t)
    BY <1>6 DEF QuietPending
  <2>2. PICK q \in Requests : BetPending(q) /\ request[q].user = seats[t].user
    BY <2>1 DEF DebitInv, PendingTracksDebit
  <2>3. q # r
    BY <1>3, <2>1, <2>2
  <2> QED
    BY <1>1, <2>1, <2>2, <2>3 DEF SameRequest, BetHeld
<1>7. ASSUME NEW t \in Seats, seats'[t].pending_double
      PROVE  \E q \in Requests : DoublePending(q)' /\ request'[q].user = seats'[t].user
  <2>1. t # s /\ seats[t].pending_double /\ DoubleHeld(t)
    BY <1>7 DEF QuietPending
  <2>2. PICK q \in Requests : DoublePending(q) /\ request[q].user = seats[t].user
    BY <2>1 DEF DebitInv, PendingTracksDebit
  <2>3. q # r
    BY <1>3, <2>1, <2>2
  <2> QED
    BY <1>1, <2>1, <2>2, <2>3 DEF SameRequest, DoubleHeld
<1>8. ASSUME NEW q \in Requests, NEW x \in Requests, Pending(q)', Pending(x)',
             request'[q].user = request'[x].user
      PROVE  q = x
  <2>1. /\ q # r /\ x # r /\ Pending(q) /\ Pending(x)
        /\ request'[q] = request[q] /\ request'[x] = request[x]
    BY <1>1, <1>8 DEF SameRequest, Pending
  <2> QED
    BY <1>8, <2>1 DEF Pending, DebitInv, PendingTracksDebit
<1> QED
  BY <1>4, <1>5, <1>6, <1>7, <1>8 DEF PendingTracksDebit, Pending


(***************************************************************************)
(* What a deal makes of the seats: users only leave, nothing becomes       *)
(* pending, and naturals are settled unless the dealer has one.            *)
(***************************************************************************)
SeatKept(new, old) ==
    /\ new.user \in {old.user, NoUser}
    /\ new.pending_bet > 0 => old.pending_bet > 0
    /\ new.pending_double => old.pending_double

(* A seat that is cleared for a deal keeps or loses its user, and gains nothing pending. *)
LEMMA ClearedSeat ==
    ASSUME NEW ss \in SeatsType, NEW s \in Seats
    PROVE  SeatKept(ClearedForDeal(ss)[s], ss[s])
<1> DEFINE clean == [ss[s] EXCEPT !.stake = 0, !.hand = "none",
                                  !.stood = FALSE, !.resolved = FALSE]
<1>1. SeatKept(clean, ss[s]) /\ clean \in SeatType
  BY Zeros DEF SeatKept, SeatsType, SeatType, PlayerHands
<1>2. ClearedForDeal(ss)[s] = (IF ss[s].bet > 0 THEN [clean EXCEPT !.missed_deals = 0]
                               ELSE IF Occupied(ss[s]) THEN MissDeal(clean) ELSE clean)
  BY DEF ClearedForDeal
<1> HIDE DEF clean
<1>3. SeatKept([clean EXCEPT !.missed_deals = 0], ss[s])
  BY <1>1 DEF SeatKept, SeatType
<1>4. MissDeal(clean) = EmptySeat
      \/ MissDeal(clean) = [clean EXCEPT !.missed_deals = clean.missed_deals + 1]
  BY DEF MissDeal
<1>5. SeatKept(EmptySeat, ss[s])
  BY DEF SeatKept, EmptySeat
<1>6. SeatKept([clean EXCEPT !.missed_deals = clean.missed_deals + 1], ss[s])
  BY <1>1 DEF SeatKept, SeatType
<1> QED
  BY <1>1, <1>2, <1>3, <1>4, <1>5, <1>6


(* So does a seat in the deal; and the hands left open are live. *)
LEMMA StartRoundSeats ==
    ASSUME NEW ss, Dealable(ss), StartRound(ss)
    PROVE  \A s \in Seats :
              /\ SeatKept(seats'[s], ss[s])
              /\ phase' = "PlayerTurn" /\ HasUnresolvedBet(seats'[s]) =>
                    seats'[s].hand \in LiveHands
<1> DEFINE cleared == ClearedForDeal(ss)
           players == {s \in Seats : cleared[s].bet > 0}
           naturals(hands, d) ==
              {s \in players : hands[s] = "natural" /\ d # "natural"}
           outcome(hands, d) ==
              [s \in naturals(hands, d) |->
                  CHOOSE o \in SettleOutcomes(hands[s], d) : TRUE]
           dealt(hands) ==
              [s \in Seats |-> IF s \in players
                               THEN [cleared[s] EXCEPT !.hand = hands[s]]
                               ELSE cleared[s]]
<1>1. PICK hands \in [players -> DealtHands], d \in DealtDealerHands :
         /\ seats' = Finished(dealt(hands), outcome(hands, d))
         /\ phase' = "PlayerTurn" => d # "natural"
  BY DEF StartRound, BeginDealerTurn
<1> SUFFICES ASSUME NEW s \in Seats
             PROVE  /\ SeatKept(seats'[s], ss[s])
                    /\ phase' = "PlayerTurn" /\ HasUnresolvedBet(seats'[s]) =>
                          seats'[s].hand \in LiveHands
  OBVIOUS
<1>2. cleared[s] \in SeatType /\ SeatKept(cleared[s], ss[s])
  BY ClearedType, ClearedSeat DEF Dealable, SeatsType
<1> HIDE DEF cleared
<1>3. /\ dealt(hands)[s] \in SeatType /\ SeatKept(dealt(hands)[s], ss[s])
      /\ s \in players => dealt(hands)[s].hand = hands[s]
      /\ s \notin players => ~(dealt(hands)[s].bet > 0)
  BY <1>2 DEF SeatKept, SeatType, DealtHands, PlayerHands, LiveHands
<1> HIDE DEF dealt
<1>4. seats'[s] = IF s \in naturals(hands, d) THEN FinishSeat(dealt(hands)[s])
                                              ELSE dealt(hands)[s]
  BY <1>1 DEF Finished
<1>5. SeatKept(seats'[s], ss[s])
  BY <1>3, <1>4 DEF FinishSeat, SeatKept, SeatType
<1>6. ASSUME phase' = "PlayerTurn", HasUnresolvedBet(seats'[s])
      PROVE  seats'[s].hand \in LiveHands
  <2>1. s \notin naturals(hands, d)
    BY <1>3, <1>4, <1>6 DEF FinishSeat, SeatType, HasUnresolvedBet
  <2>2. s \in players /\ hands[s] # "natural"
    BY <1>1, <1>3, <1>4, <1>6, <2>1 DEF HasUnresolvedBet
  <2>3. hands[s] \in DealtHands
    BY <2>2
  <2> HIDE DEF players
  <2> QED
    BY <1>3, <1>4, <2>1, <2>2, <2>3 DEF DealtHands, LiveHands
<1> QED
  BY <1>5, <1>6

(***************************************************************************)
(* A player's step: ss holds its effect, and the turn may end with it.     *)
(***************************************************************************)
LEMMA AdvanceSeats ==
    ASSUME NEW ss, AdvanceOrFinishRound(ss), NEW s \in Seats
    PROVE  /\ Playable(ss[s]) => phase' = "PlayerTurn" /\ seats'[s] = ss[s]
           /\ seats'[s] \in {ss[s], EmptySeat}
           /\ phase' = "PlayerTurn" => seats'[s] = ss[s]
  BY DEF AdvanceOrFinishRound, RemoveDeferredLeaveSeats, BeginDealerTurn, Playable

(* What the effect of a step on a seat must be for the seat to be quiet. *)
QuietEffect(ss, s) ==
    /\ seats[s].pending_double => ss[s] = seats[s]
    /\ SeatKept(ss[s], seats[s])
    /\ HasUnresolvedBet(ss[s]) => ss[s].hand \in LiveHands

(* A pending double holds the turn, so a quiet effect is a quiet step. *)
LEMMA AdvanceQuiet ==
    ASSUME DebitInv, phase = "PlayerTurn", NEW ss, AdvanceOrFinishRound(ss),
           NEW s \in Seats, QuietEffect(ss, s)
    PROVE  Quiet(s)
<1>1. ~(seats[s].pending_bet > 0) /\ (seats[s].pending_double => Playable(seats[s]))
  BY PendingSeats
<1>2. seats[s].pending_double => DoubleHeld(s)
  BY <1>1, AdvanceSeats DEF DoubleHeld, QuietEffect
<1>3. SeatKept(seats'[s], seats[s])
  BY AdvanceSeats DEF SeatKept, EmptySeat, QuietEffect
<1>4. phase' = "PlayerTurn" /\ HasUnresolvedBet(seats'[s]) => seats'[s].hand \in LiveHands
  BY AdvanceSeats DEF QuietEffect
<1> QED
  BY <1>1, <1>2, <1>3, <1>4 DEF Quiet, QuietPending, SeatKept

-------------------------------------------------------------------------------
(* No effect is a quiet effect. *)
LEMMA LiveOrSame ==
    ASSUME DebitInv, phase = "PlayerTurn", NEW s \in Seats
    PROVE  QuietEffect(seats, s)
  BY DEF QuietEffect, SeatKept, DebitInv, PlayerHandsLive

(* A step that acts on one seat of the table and then advances. *)
LEMMA OneEffect ==
    ASSUME DebitInv, phase = "PlayerTurn", NEW s \in Seats, NEW ss,
           AdvanceOrFinishRound(ss),
           \A t \in Seats : t # s => ss[t] = seats[t],
           QuietEffect(ss, s)
    PROVE  \A t \in Seats : Quiet(t)
<1>1. ASSUME NEW t \in Seats, t # s PROVE QuietEffect(ss, t)
  BY <1>1, LiveOrSame DEF QuietEffect
<1> QED
  BY <1>1, AdvanceQuiet

(* Standing, drawing and clearing the table disturb no pending seat. *)
LEMMA PlayerStepDebits ==
    ASSUME DebitInv, PlayerStep PROVE Others'
<1>1. ASSUME NEW u \in Users, NEW s \in Seats, Stand(u, s) PROVE Others'
  <2> DEFINE seat == RecordActivity([seats[s] EXCEPT !.stood = TRUE])
             ss == [seats EXCEPT ![s] = seat]
  <2>1. /\ phase = "PlayerTurn" /\ AdvanceOrFinishRound(ss) /\ UNCHANGED request
        /\ ~seats[s].pending_double
    BY <1>1 DEF Stand, CanAct
  <2>2. SeatKept(seat, seats[s]) /\ seat.hand = seats[s].hand /\ seat.bet = seats[s].bet
        /\ seat.resolved = seats[s].resolved
    BY DEF RecordActivity, SeatKept, DebitInv, TypeInv, TypeOK, SeatType
  <2> HIDE DEF seat
  <2>3. ss[s] = seat /\ \A t \in Seats : t # s => ss[t] = seats[t]
    BY DEF DebitInv, TypeInv, TypeOK
  <2>4. QuietEffect(ss, s)
    BY <2>1, <2>2, <2>3 DEF QuietEffect, DebitInv, PlayerHandsLive, HasUnresolvedBet
  <2> HIDE DEF ss
  <2> QED
    BY <2>1, <2>3, <2>4, OneEffect, QuietStep, NoRequestChanges
<1>2. ASSUME NEW u \in Users, NEW s \in Seats, Hit(u, s) PROVE Others'
  <2> DEFINE seat(hand) == RecordActivity([seats[s] EXCEPT !.hand = hand])
             drawn(hand) == [seats EXCEPT ![s] = seat(hand)]
  <2>1. phase = "PlayerTurn" /\ UNCHANGED request /\ ~seats[s].pending_double
    BY <1>2 DEF Hit, CanAct
  <2>2. PICK hand \in AfterHit :
           \/ /\ hand = "bust"
              /\ AdvanceOrFinishRound(Finished(drawn(hand), Bust(s)))
           \/ /\ hand # "bust"
              /\ seats' = drawn(hand) /\ UNCHANGED phase
    BY <1>2 DEF Hit
  <2>3. /\ SeatKept(seat(hand), seats[s]) /\ seat(hand).hand = hand
        /\ SeatKept(FinishSeat(seat(hand)), seats[s]) /\ FinishSeat(seat(hand)).resolved
        /\ seat(hand).pending_bet = seats[s].pending_bet
        /\ seat(hand).pending_double = seats[s].pending_double
    BY DEF RecordActivity, SeatKept, FinishSeat, DebitInv, TypeInv, TypeOK, SeatType
  <2> HIDE DEF seat
  <2>4. drawn(hand)[s] = seat(hand) /\ \A t \in Seats : t # s => drawn(hand)[t] = seats[t]
    BY DEF DebitInv, TypeInv, TypeOK
  <2> HIDE DEF drawn
  <2>5. CASE AdvanceOrFinishRound(Finished(drawn(hand), Bust(s)))
    <3> DEFINE ss == Finished(drawn(hand), Bust(s))
    <3>1. ss[s] = FinishSeat(seat(hand)) /\ \A t \in Seats : t # s => ss[t] = seats[t]
      BY <2>4 DEF Finished, Bust
    <3> HIDE DEF ss
    <3>2. QuietEffect(ss, s)
      BY <2>1, <2>3, <3>1 DEF QuietEffect, HasUnresolvedBet
    <3>3. AdvanceOrFinishRound(ss)
      BY <2>5 DEF ss
    <3> QED
      BY <2>1, <3>1, <3>2, <3>3, OneEffect, QuietStep, NoRequestChanges
  <2>6. CASE hand # "bust" /\ seats' = drawn(hand) /\ UNCHANGED phase
    <3>1. hand \in LiveHands
      BY <2>6 DEF AfterHit, LiveHands
    <3>2. Quiet(s)
      BY <2>1, <2>3, <2>4, <2>6, <3>1, PendingSeats
         DEF Quiet, QuietPending, SeatKept
    <3>3. \A t \in Seats : Quiet(t)
      BY <2>4, <2>6, <3>2, SameSeatQuiet
    <3> QED
      BY <2>1, <3>3, QuietStep, NoRequestChanges
  <2> QED
    BY <2>2, <2>5, <2>6
<1>3. ASSUME NEW u \in Users, NextHand(u) PROVE Others'
  <2>1. phase = "Settling" /\ phase' = "Betting" /\ UNCHANGED request
    BY <1>3 DEF NextHand
  <2>2. ASSUME NEW s \in Seats PROVE Quiet(s)
    <3>1. ~(seats[s].pending_bet > 0) /\ ~seats[s].pending_double
      BY <2>1, PendingSeats
    <3>2. seats'[s] = ClearRound(seats[s])
          \/ seats'[s] = RecordActivity(ClearRound(seats[s]))
      BY <1>3 DEF NextHand
    <3>3. seats'[s].pending_bet = 0 /\ seats'[s].pending_double = FALSE
          /\ seats'[s].user = seats[s].user
      BY <3>2 DEF ClearRound, RecordActivity, DebitInv, TypeInv, TypeOK, SeatType
    <3> QED
      BY <2>1, <3>1, <3>3 DEF Quiet, QuietPending
  <2> QED
    BY <2>1, <2>2, QuietStep, NoRequestChanges
<1> QED
  BY <1>1, <1>2, <1>3 DEF PlayerStep

(* Nor do the timers: the deal waits for pending bets, the timeout spares pending doubles. *)
LEMMA TimerStepDebits ==
    ASSUME DebitInv, TimerStep PROVE Others'
<1>1. CASE BettingDeadlinePasses \/ ActionDeadlinePasses \/ StaleTaskEnds
  BY <1>1, SameSeats, QuietStep, NoRequestChanges
     DEF BettingDeadlinePasses, ActionDeadlinePasses, StaleTaskEnds
<1>2. ASSUME NEW id, AutoDeal(id) PROVE Others'
  <2>1. /\ phase = "Betting" /\ StartRound(seats) /\ UNCHANGED request
        /\ \A s \in Seats : ~(seats[s].pending_bet > 0)
    BY <1>2 DEF AutoDeal, CountdownMatches, HasPendingBets
  <2>2. Dealable(seats)
    BY <2>1, BlackjackAssumption
       DEF DebitInv, Dealable, TypeInv, TypeOK, SeatsType, SeatInv, SeatOK, SeatType,
           AfterHit
  <2>3. ASSUME NEW s \in Seats PROVE Quiet(s)
    <3>1. ~seats[s].pending_double
      BY <2>1, PendingSeats
    <3> QED
      BY <2>1, <2>2, <3>1, StartRoundSeats DEF Quiet, QuietPending, SeatKept
  <2> QED
    BY <2>1, <2>3, QuietStep, NoRequestChanges
<1>3. ASSUME NEW id, AutoStandRemaining(id) PROVE Others'
  <2> DEFINE stood(s) == [seats[s] EXCEPT !.stood = TRUE,
                                          !.deferred_leave_reason = "MissedAction"]
             ss == [s \in Seats |-> IF Playable(seats[s]) /\ ~seats[s].pending_double
                                    THEN stood(s) ELSE seats[s]]
  <2>1. phase = "PlayerTurn" /\ AdvanceOrFinishRound(ss) /\ UNCHANGED request
    BY <1>3 DEF AutoStandRemaining, ActionCountdownMatches
  <2>2. ASSUME NEW s \in Seats
        PROVE  /\ SeatKept(stood(s), seats[s]) /\ stood(s).hand = seats[s].hand
               /\ stood(s).bet = seats[s].bet /\ stood(s).resolved = seats[s].resolved
    BY DEF SeatKept, DebitInv, TypeInv, TypeOK, SeatType
  <2> HIDE DEF stood
  <2>3. ASSUME NEW s \in Seats PROVE QuietEffect(ss, s)
    BY <2>1, <2>2, LiveOrSame DEF QuietEffect, HasUnresolvedBet
  <2> HIDE DEF ss
  <2> QED
    BY <2>1, <2>3, AdvanceQuiet, QuietStep, NoRequestChanges
<1> QED
  BY <1>1, <1>2, <1>3 DEF TimerStep

(* Nothing is pending in the turn of the dealer. *)
LEMMA DealerStepDebits ==
    ASSUME DebitInv, DealerStep PROVE Others'
<1>1. ASSUME NEW id, DealerDraws(id) PROVE Others'
  BY <1>1, SameSeats, QuietStep, NoRequestChanges DEF DealerDraws
<1>2. ASSUME NEW id, FinishDealerTurn(id) PROVE Others'
  <2>1. phase = "DealerTurn" /\ phase' = "Settling" /\ UNCHANGED request
    BY <1>2 DEF FinishDealerTurn
  <2>2. ASSUME NEW s \in Seats PROVE Quiet(s)
    <3>1. ~(seats[s].pending_bet > 0) /\ ~seats[s].pending_double
      BY <2>1, PendingSeats
    <3>2. seats'[s] \in {seats[s], FinishSeat(seats[s]), EmptySeat}
      <4>1. PICK outcome :
               seats' = RemoveDeferredLeaveSeats(Finished(seats, outcome), "Settling")
        BY <1>2 DEF FinishDealerTurn
      <4>2. Finished(seats, outcome)[s] \in {seats[s], FinishSeat(seats[s])}
        BY DEF Finished
      <4>3. seats'[s] \in {Finished(seats, outcome)[s], EmptySeat}
        BY <4>1 DEF RemoveDeferredLeaveSeats
      <4> QED
        BY <4>2, <4>3
    <3>3. SeatKept(seats'[s], seats[s])
      <4>1. /\ SeatKept(FinishSeat(seats[s]), seats[s]) /\ SeatKept(seats[s], seats[s])
            /\ SeatKept(EmptySeat, seats[s])
        BY DEF SeatKept, FinishSeat, EmptySeat, DebitInv, TypeInv, TypeOK, SeatType
      <4> QED
        BY <3>2, <4>1
    <3> QED
      BY <2>1, <3>1, <3>3 DEF Quiet, QuietPending, SeatKept
  <2> QED
    BY <2>1, <2>2, QuietStep, NoRequestChanges
<1> QED
  BY <1>1, <1>2 DEF DealerStep

(* Settlements touch accounts only. *)
LEMMA PersistStepDebits ==
    ASSUME DebitInv, PersistStep PROVE Others'
  BY SameSeats, QuietStep, NoRequestChanges DEF PersistStep, PersistSettlement


(* An inactivity task spares a pending seat. *)
LEMMA KickStepDebits ==
    ASSUME DebitInv, KickStep PROVE Others'
<1>1. PICK u \in Users, s \in Seats :
         KickSkipped(u, s) \/ KickStands(u, s) \/ KickDeferred(u, s) \/ KickLeaves(u, s)
  BY DEF KickStep
<1>2. ASSUME NEW seat, UNCHANGED <<phase, request>>, seats' = [seats EXCEPT ![s] = seat],
             seat.user = seats[s].user, seat.pending_bet = seats[s].pending_bet,
             seat.bet = seats[s].bet, seat.pending_double = seats[s].pending_double,
             seat.hand = seats[s].hand, seat.stood = seats[s].stood,
             seat.resolved = seats[s].resolved
      PROVE  Others'
  <2>1. seats'[s] = seat => Quiet(s)
    BY <1>2, PendingSeats
       DEF Quiet, QuietPending, BetHeld, DoubleHeld, Playable, HasUnresolvedBet,
           DebitInv, PlayerHandsLive
  <2>2. \A t \in Seats : Quiet(t)
    BY <1>2, <2>1, OneSeatQuiet
  <2> QED
    BY <1>2, <2>2, QuietStep, NoRequestChanges
<1>3. CASE KickSkipped(u, s)
  <2> DEFINE seat == [seats[s] EXCEPT !.armed = FALSE]
  <2>1. /\ seat.user = seats[s].user /\ seat.pending_bet = seats[s].pending_bet
        /\ seat.bet = seats[s].bet /\ seat.pending_double = seats[s].pending_double
        /\ seat.hand = seats[s].hand /\ seat.stood = seats[s].stood
        /\ seat.resolved = seats[s].resolved
    BY DEF DebitInv, TypeInv, TypeOK, SeatType
  <2>2. seats' = [seats EXCEPT ![s] = seat] /\ UNCHANGED <<phase, request>>
    BY <1>3 DEF KickSkipped, OnlySeats
  <2> HIDE DEF seat
  <2> QED
    BY <1>2, <2>1, <2>2
<1>4. CASE KickDeferred(u, s)
  <2> DEFINE seat == [seats[s] EXCEPT !.armed = FALSE, !.deferred_leave_reason = "Idle"]
  <2>1. /\ seat.user = seats[s].user /\ seat.pending_bet = seats[s].pending_bet
        /\ seat.bet = seats[s].bet /\ seat.pending_double = seats[s].pending_double
        /\ seat.hand = seats[s].hand /\ seat.stood = seats[s].stood
        /\ seat.resolved = seats[s].resolved
    BY DEF DebitInv, TypeInv, TypeOK, SeatType
  <2>2. seats' = [seats EXCEPT ![s] = seat] /\ UNCHANGED <<phase, request>>
    BY <1>4 DEF KickDeferred, OnlySeats, DebitInv, TypeInv, TypeOK
  <2> HIDE DEF seat
  <2> QED
    BY <1>2, <2>1, <2>2
<1>5. CASE KickLeaves(u, s)
  <2>1. ~(seats[s].pending_bet > 0) /\ ~seats[s].pending_double
    BY <1>5 DEF KickLeaves, KickBlocked
  <2>2. seats'[s] = EmptySeat => Quiet(s)
    BY <2>1, EmptiedQuiet
  <2>3. \A t \in Seats : Quiet(t)
    BY <1>5, <2>2, OneSeatQuiet DEF KickLeaves, OnlySeats
  <2> QED
    BY <1>5, <2>3, QuietStep, NoRequestChanges DEF KickLeaves, OnlySeats
<1>6. CASE KickStands(u, s)
  <2> DEFINE seat == [seats[s] EXCEPT !.armed = FALSE, !.stood = TRUE,
                                      !.deferred_leave_reason = "Idle"]
             stood == [seats EXCEPT ![s] = seat]
             ss == RemoveDeferredLeaveSeats(stood, "PlayerTurn")
  <2>1. /\ phase = "PlayerTurn" /\ ~seats[s].pending_double /\ UNCHANGED request
        /\ AdvanceOrFinishRound(ss)
    BY <1>6 DEF KickStands, KickBlocked, DebitInv, TypeInv, TypeOK
  <2>2. SeatKept(seat, seats[s]) /\ seat.hand = seats[s].hand /\ seat.bet = seats[s].bet
        /\ seat.resolved = seats[s].resolved
    BY DEF SeatKept, DebitInv, TypeInv, TypeOK, SeatType
  <2> HIDE DEF seat
  <2>3. QuietEffect(stood, s) /\ \A t \in Seats : t # s => stood[t] = seats[t]
    <3>1. stood[s] = seat /\ \A t \in Seats : t # s => stood[t] = seats[t]
      BY DEF DebitInv, TypeInv, TypeOK
    <3> QED
      BY <2>1, <2>2, <3>1 DEF QuietEffect, DebitInv, PlayerHandsLive, HasUnresolvedBet
  <2> HIDE DEF stood
  <2>4. ASSUME NEW t \in Seats PROVE QuietEffect(ss, t)
    <3>1. QuietEffect(stood, t)
      BY <2>1, <2>3, LiveOrSame DEF QuietEffect
    <3>2. ss[t] \in {stood[t], EmptySeat}
      BY DEF RemoveDeferredLeaveSeats
    <3>3. seats[t].pending_double => ss[t] = stood[t]
      BY <3>1, PendingSeats
         DEF QuietEffect, RemoveDeferredLeaveSeats, Playable, HasUnresolvedBet
    <3> QED
      BY <3>1, <3>2, <3>3 DEF QuietEffect, SeatKept, EmptySeat, HasUnresolvedBet
  <2> HIDE DEF ss
  <2> QED
    BY <2>1, <2>4, AdvanceQuiet, QuietStep, NoRequestChanges
<1> QED
  BY <1>1, <1>3, <1>4, <1>5, <1>6

(***************************************************************************)
(* The second critical section of a request.                               *)
(***************************************************************************)
LEMMA ReleaseDebits ==
    ASSUME DebitInv, NEW r \in Requests, NEW s \in Seats,
           ReleaseBet(r, s) \/ ClearPendingDouble(r, s)
    PROVE  Others'
<1>1. /\ Pending(r) /\ seats[s].user = request[r].user /\ UNCHANGED phase
      /\ request' = [request EXCEPT ![r] = NoRequest]
  BY DEF ReleaseBet, ClearPendingDouble, Pending, BetPending, DoublePending, BetStages,
         DoubleStages
<1>2. PICK seat : /\ seats' = [seats EXCEPT ![s] = seat]
                  /\ \/ request[r].pc = "bet refused"
                        /\ seat = [seats[s] EXCEPT !.pending_bet = 0]
                     \/ request[r].pc = "double refused"
                        /\ seat = [seats[s] EXCEPT !.pending_double = FALSE]
  BY DEF ReleaseBet, ClearPendingDouble
<1>3. /\ seat.user = seats[s].user /\ seat.hand = seats[s].hand
      /\ seat.bet = seats[s].bet /\ seat.resolved = seats[s].resolved
      /\ \/ seat.pending_bet = 0 /\ seat.pending_double = seats[s].pending_double
            /\ request[r].pc = "bet refused"
         \/ seat.pending_bet = seats[s].pending_bet /\ seat.pending_double = FALSE
            /\ request[r].pc = "double refused"
  BY <1>2 DEF DebitInv, TypeInv, TypeOK, SeatType
<1>4. seats'[s] = seat /\ \A t \in Seats : t # s => seats'[t] = seats[t]
  BY <1>2 DEF DebitInv, TypeInv, TypeOK
<1>5. ~(seat.pending_bet > 0) /\ ~seat.pending_double
  <2>1. CASE request[r].pc = "bet refused"
    <3>1. phase = "Betting"
      BY <2>1 DEF BetPending, BetStages, DebitInv, PendingTracksDebit
    <3>2. seat.pending_bet = 0 /\ seat.pending_double = seats[s].pending_double
      BY <1>3, <2>1
    <3>3. ~seats[s].pending_double
      BY <3>1, PendingSeats
    <3> QED
      BY <3>2, <3>3
  <2>2. CASE request[r].pc = "double refused"
    <3>1. phase = "PlayerTurn"
      BY <2>2 DEF DoublePending, DoubleStages, DebitInv, PendingTracksDebit
    <3>2. seat.pending_bet = seats[s].pending_bet /\ seat.pending_double = FALSE
      BY <1>3, <2>2
    <3>3. ~(seats[s].pending_bet > 0)
      BY <3>1, PendingSeats
    <3> QED
      BY <3>2, <3>3
  <2> QED
    BY <1>3, <2>1, <2>2
<1>6. \A t \in Seats : t # s => QuietPending(t)
  BY <1>1, <1>4, SameSeatQuiet DEF Quiet
<1>7. PendingTracksDebit'
  BY <1>1, <1>4, <1>5, <1>6, UnmarkDebits
<1>8. OneSeatEach'
  BY <1>3, <1>4, QuietUsers DEF DebitInv
<1>9. PlayerHandsLive'
  BY <1>1, <1>3, <1>4 DEF DebitInv, PlayerHandsLive, HasUnresolvedBet
<1> QED
  BY <1>7, <1>8, <1>9 DEF Others

(* Locking a bet ends its request; a bet that deals is the last one pending. *)
LEMMA LockBetDebits ==
    ASSUME DebitInv, NEW r \in Requests, NEW s \in Seats, LockBet(r, s)
    PROVE  Others'
<1> DEFINE seat == RecordActivity([seats[s] EXCEPT !.bet = seats[s].pending_bet,
                                      !.pending_bet = 0, !.missed_deals = 0])
           ss == [seats EXCEPT ![s] = seat]
<1>1. /\ BetPending(r) /\ Pending(r) /\ seats[s].user = request[r].user
      /\ request' = [request EXCEPT ![r] = NoRequest]
  BY DEF LockBet, Pending, BetPending, BetStages
<1>2. phase = "Betting"
  BY <1>1 DEF DebitInv, PendingTracksDebit
<1>3. \/ AllSeatedBetsReady(ss) /\ StartRound(ss)
      \/ seats' = ss /\ UNCHANGED phase
  BY DEF LockBet
<1>4. /\ seat \in SeatType /\ seat.user = seats[s].user /\ seat.pending_bet = 0
      /\ seat.pending_double = seats[s].pending_double /\ seat.bet <= MaxBet
      /\ seats[s].user \in Users
  <2>1. seats[s] \in SeatType
    BY DEF DebitInv, TypeInv, TypeOK
  <2>2. PICK b : b = seats[s].pending_bet /\ b \in 0 .. 2 * MaxBet /\ b <= MaxBet
    BY <2>1, Bounds DEF SeatType
  <2>3. seat = RecordActivity([seats[s] EXCEPT !.bet = b, !.pending_bet = 0,
                                               !.missed_deals = 0])
    BY <2>2
  <2>4. seats[s].user \in Users
    BY <1>1, PendingAmount DEF DebitInv
  <2> HIDE DEF seat
  <2> QED
    BY <2>1, <2>2, <2>3, <2>4, Bounds, Zeros DEF RecordActivity, SeatType
<1> HIDE DEF seat
<1>5. ss[s] = seat /\ \A t \in Seats : t # s => ss[t] = seats[t]
  BY DEF DebitInv, TypeInv, TypeOK
<1>6. \A t \in Seats : ~seats[t].pending_double
  BY <1>2, PendingSeats
<1>7. CASE seats' = ss /\ UNCHANGED phase
  <2>1. \A t \in Seats : t # s => QuietPending(t)
    BY <1>5, <1>7, SameSeatQuiet DEF Quiet
  <2>2. PendingTracksDebit'
    <3>1. ~(seats'[s].pending_bet > 0)
      BY <1>4, <1>5, <1>7
    <3>2. ~seats'[s].pending_double
      BY <1>4, <1>5, <1>6, <1>7
    <3> QED
      BY <1>1, <2>1, <3>1, <3>2, UnmarkDebits
  <2>3. OneSeatEach'
    BY <1>4, <1>5, <1>7, QuietUsers DEF DebitInv
  <2>4. PlayerHandsLive'
    BY <1>2, <1>7 DEF PlayerHandsLive
  <2> QED
    BY <2>2, <2>3, <2>4 DEF Others
<1>8. CASE AllSeatedBetsReady(ss) /\ StartRound(ss)
  <2>1. Dealable(ss)
    <3>1. ASSUME NEW t \in Seats, t # s
          PROVE  seats[t].bet > 0 => seats[t].user \in Users /\ seats[t].bet <= MaxBet
      BY <1>2, BlackjackAssumption
         DEF DebitInv, TypeInv, TypeOK, SeatInv, SeatOK, SeatType, AfterHit
    <3>2. ss \in SeatsType
      BY <1>4, UpdateType DEF DebitInv, TypeInv, TypeOK, SeatsType
    <3> QED
      BY <1>4, <1>5, <3>1, <3>2 DEF Dealable
  <2>2. ASSUME NEW t \in Seats PROVE ~(ss[t].pending_bet > 0)
    <3>1. Occupied(ss[t]) => ss[t].pending_bet = 0
      BY <1>8 DEF AllSeatedBetsReady
    <3>2. ss[t].pending_bet > 0 => t # s /\ seats[t].user \in Users
      BY <1>4, <1>5, PendingSeats
    <3> QED
      BY <1>5, <3>1, <3>2, BlackjackAssumption DEF Occupied
  <2> HIDE DEF ss
  <2>3. ASSUME NEW t \in Seats, t # s PROVE ~(seats[t].pending_bet > 0)
    BY <1>5, <2>2, <2>3
  <2>4. ASSUME NEW t \in Seats
        PROVE  /\ ~(seats'[t].pending_bet > 0) /\ ~seats'[t].pending_double
               /\ seats'[t].user \in {seats[t].user, NoUser}
               /\ phase' = "PlayerTurn" /\ HasUnresolvedBet(seats'[t]) =>
                     seats'[t].hand \in LiveHands
    BY <1>4, <1>5, <1>6, <1>8, <2>1, <2>2, StartRoundSeats DEF SeatKept
  <2>5. \A t \in Seats : t # s => QuietPending(t)
    BY <1>6, <2>3, <2>4 DEF QuietPending
  <2>6. PendingTracksDebit'
    BY <1>1, <2>4, <2>5, UnmarkDebits
  <2> QED
    BY <2>4, <2>6, QuietUsers, QuietHands DEF Others, DebitInv
<1> QED
  BY <1>3, <1>7, <1>8


(* Finishing a double ends its request, whatever becomes of the hand. *)
LEMMA FinishDoubleDebits ==
    ASSUME DebitInv, NEW r \in Requests, NEW s \in Seats, FinishDoubleDown(r, s)
    PROVE  Others'
<1> DEFINE seat(hand) == RecordActivity([seats[s] EXCEPT
                            !.pending_double = FALSE, !.bet = seats[s].bet * 2,
                            !.hand = hand, !.stood = TRUE])
           doubled(hand) == [seats EXCEPT ![s] = seat(hand)]
           outcome(hand) == IF hand = "bust" THEN Bust(s) ELSE NoOutcome
<1>1. PICK hand \in AfterHit :
         AdvanceOrFinishRound(Finished(doubled(hand), outcome(hand)))
  BY DEF FinishDoubleDown
<1>2. /\ Pending(r) /\ seats[s].user = request[r].user /\ phase = "PlayerTurn"
      /\ request' = [request EXCEPT ![r] = NoRequest]
  BY DEF FinishDoubleDown, Pending, DoublePending, DoubleStages
<1>3. ~(seats[s].pending_bet > 0)
  BY <1>2, PendingSeats
<1>4. /\ seat(hand) \in [user : {seats[s].user}, stake : {seats[s].stake},
            pending_bet : {seats[s].pending_bet}, bet : {seats[s].bet * 2},
            pending_double : {FALSE}, hand : {hand}, stood : {TRUE},
            resolved : {seats[s].resolved}, missed_deals : {seats[s].missed_deals},
            armed : {TRUE}, deferred_leave_reason : {seats[s].deferred_leave_reason}]
  BY ZenonT(40) DEF RecordActivity, DebitInv, TypeInv, TypeOK, SeatType
<1> HIDE DEF seat
<1>5. doubled(hand)[s] = seat(hand)
      /\ \A t \in Seats : t # s => doubled(hand)[t] = seats[t]
  BY DEF DebitInv, TypeInv, TypeOK
<1> HIDE DEF doubled
<1> DEFINE ss == Finished(doubled(hand), outcome(hand))
<1>6. /\ \A t \in Seats : t # s => ss[t] = seats[t]
      /\ hand = "bust" => ss[s] = FinishSeat(seat(hand))
      /\ hand # "bust" => ss[s] = seat(hand)
  BY <1>5 DEF Finished, Bust, NoOutcome
<1>7. AdvanceOrFinishRound(ss)
  BY <1>1
<1> HIDE DEF ss
<1>8. /\ SeatKept(ss[s], seats[s]) /\ ~ss[s].pending_double
      /\ HasUnresolvedBet(ss[s]) => ss[s].hand \in LiveHands
  <2>1. CASE hand = "bust"
    BY <1>4, <1>6, <2>1 DEF FinishSeat, SeatKept, HasUnresolvedBet
  <2>2. CASE hand # "bust"
    BY <1>4, <1>6, <2>2 DEF SeatKept, AfterHit, LiveHands
  <2> QED
    BY <2>1, <2>2
<1>9. \A t \in Seats : t # s => Quiet(t)
  <2>1. \A t \in Seats : t # s => QuietEffect(ss, t)
    BY <1>2, <1>6, LiveOrSame DEF QuietEffect
  <2> QED
    BY <1>2, <1>7, <2>1, AdvanceQuiet
<1>10. /\ seats'[s] \in {ss[s], EmptySeat}
       /\ phase' = "PlayerTurn" => seats'[s] = ss[s]
  BY <1>7, AdvanceSeats
<1>11. ~(seats'[s].pending_bet > 0) /\ ~seats'[s].pending_double
       /\ seats'[s].user \in {seats[s].user, NoUser}
  BY <1>3, <1>8, <1>10 DEF SeatKept, EmptySeat
<1>12. PendingTracksDebit'
  BY <1>2, <1>9, <1>11, UnmarkDebits DEF Quiet
<1>13. OneSeatEach'
  BY <1>9, <1>11, QuietUsers DEF DebitInv, Quiet
<1>14. PlayerHandsLive'
  BY <1>8, <1>9, <1>10, QuietHands DEF Quiet
<1> QED
  BY <1>12, <1>13, <1>14 DEF Others

-------------------------------------------------------------------------------
(***************************************************************************)
(* The inductive invariant holds of the empty table (the table's creation  *)
(* in BlackjackService::new).                                              *)
(***************************************************************************)
THEOREM InitDebitInv == Init => DebitInv
<1> SUFFICES ASSUME Init PROVE DebitInv
  OBVIOUS
<1>1. \A s \in Seats : seats[s] = EmptySeat
  BY DEF Init
<1>2. \A r \in Requests : ~BetPending(r) /\ ~DoublePending(r)
  BY DEF Init, NoRequest, BetPending, DoublePending, BetStages, DoubleStages
<1>3. OneSeatEach /\ PlayerHandsLive
  BY <1>1 DEF OneSeatEach, PlayerHandsLive, EmptySeat, Occupied, HasUnresolvedBet
<1>4. PendingTracksDebit
  BY <1>1, <1>2 DEF PendingTracksDebit, EmptySeat
<1> QED
  BY <1>3, <1>4, InitType DEF DebitInv

(***************************************************************************)
(* Every critical section and every statement of the database preserves    *)
(* the inductive invariant.                                                *)
(***************************************************************************)
THEOREM NextDebitInv == DebitInv /\ [Next]_vars => DebitInv'
<1> SUFFICES ASSUME DebitInv, [Next]_vars PROVE DebitInv'
  OBVIOUS
<1>1. CASE SeatStep
  BY <1>1, SeatStepType, SeatStepDebits DEF DebitInv, Others
<1>2. CASE PlayerStep
  BY <1>2, PlayerStepType, PlayerStepDebits DEF DebitInv, Others
<1>3. CASE KickStep
  BY <1>3, KickStepType, KickStepDebits DEF DebitInv, Others
<1>4. ASSUME NEW r \in Requests, NewRequest(r) PROVE DebitInv'
  BY <1>4, NewRequestType, SubmitStakeDebits, PrepareDoubleDebits
     DEF NewRequest, DebitInv, Others
<1>5. ASSUME NEW r \in Requests, RejectBet(r) PROVE DebitInv'
  BY <1>5, RejectBetType, RejectBetDebits DEF DebitInv, Others
<1>6. ASSUME NEW r \in Requests, DebitBet(r) PROVE DebitInv'
  BY <1>6, DebitBetType, DebitBetDebits DEF DebitInv, Others
<1>7. ASSUME NEW r \in Requests, RequestStep(r) PROVE DebitInv'
  <2>1. request[r].pc = "bet taken" => phase = "Betting"
    BY DEF DebitInv, PendingTracksDebit, BetPending, BetStages
  <2>2. TypeInv'
    BY <1>7, <2>1, RequestStepType DEF DebitInv
  <2>3. Others'
    BY <1>7, MarkBetDebits, LockBetDebits, ReleaseDebits, FinishDoubleDebits
       DEF RequestStep
  <2> QED
    BY <2>2, <2>3 DEF DebitInv, Others
<1>8. CASE TimerStep
  BY <1>8, TimerStepType, TimerStepDebits DEF DebitInv, Others
<1>9. CASE DealerStep
  BY <1>9, DealerDrawsType, FinishDealerTurnType, DealerStepDebits
     DEF DealerStep, DebitInv, Others
<1>10. CASE PersistStep
  BY <1>10, PersistSettlementType, PersistStepDebits DEF PersistStep, DebitInv, Others
<1>11. CASE UNCHANGED vars
  <2>1. TypeInv'
    BY <1>11 DEF DebitInv, TypeInv, TypeOK, SeatInv, vars, dealing, timers, accounts
  <2>2. Others'
    BY <1>11, QuietStep, SameSeats, NoRequestChanges DEF vars
  <2> QED
    BY <2>1, <2>2 DEF DebitInv, Others
<1> QED
  BY <1>1, <1>2, <1>3, <1>4, <1>5, <1>6, <1>7, <1>8, <1>9, <1>10, <1>11 DEF Next

(***************************************************************************)
(* Types, seats, live hands and pending debits are in order in every       *)
(* reachable state, for any number of users, seats, requests and rounds.   *)
(***************************************************************************)
THEOREM DebitInvariance == Spec => []DebitInv
  BY InitDebitInv, NextDebitInv, PTL DEF Spec

(***************************************************************************)
(* The variables of the table keep their types; so no bet exceeds twice    *)
(* the limit, and no balance or credit is negative (place_bet,             *)
(* double_down).                                                           *)
(***************************************************************************)
THEOREM TypeCorrect == Spec => []TypeOK
<1>1. DebitInv => TypeOK
  BY DEF DebitInv, TypeInv
<1> QED
  BY <1>1, DebitInvariance, PTL

(***************************************************************************)
(* Whatever runs while a debit is with the database (leave_seat, the       *)
(* inactivity kick, the auto-deal and timeout tasks, other requests), the  *)
(* seat that waits for it stays as the request left it, and no seat waits  *)
(* without a request.                                                      *)
(***************************************************************************)
THEOREM DebitsTracked == Spec => []PendingTracksDebit
<1>1. DebitInv => PendingTracksDebit
  BY DEF DebitInv
<1> QED
  BY <1>1, DebitInvariance, PTL

------------------------------------------------------------------------------
(***************************************************************************)
(* The phase of the table, its hands and its timer tasks agree, for every  *)
(* number of users, seats, requests and rounds.                            *)
(*                                                                         *)
(* Both properties are inductive once DebitInv is known: a bet is locked   *)
(* or doubled only for a seat that is still there and in the phase that    *)
(* the request expects.  The steps fall into those that leave the table    *)
(* alone (TableIdle), those of the players, and the deal.                  *)
(***************************************************************************)

TableInv == DebitInv /\ TimersHaveTasks /\ PhaseMatchesHands

(* A step that leaves the bets, the hands in play and the timers alone. *)
BetKept(s) ==
    /\ HasUnresolvedBet(seats'[s]) <=> HasUnresolvedBet(seats[s])
    /\ Playable(seats'[s]) <=> Playable(seats[s])
    /\ phase = "Betting" => seats'[s].bet = seats[s].bet

TableIdle ==
    /\ UNCHANGED <<phase, dealing, timers>>
    /\ \A s \in Seats : BetKept(s)

(* And phase, hands and timers still agree after it. *)
LEMMA IdleTable ==
    ASSUME TableInv, TableIdle, SeatInv'
    PROVE  (TimersHaveTasks /\ PhaseMatchesHands)'
<1>1. phase = "Betting" => (HasBets(seats') <=> HasBets(seats))
  BY DEF TableIdle, BetKept, HasBets
<1>2. TimersHaveTasks'
  BY <1>1 DEF TableInv, TableIdle, TimersHaveTasks, timers, dealing
<1>3. PhaseMatchesHands'
  BY DEF TableInv, TableIdle, BetKept, PhaseMatchesHands, dealing, SeatInv, SeatOK
<1> QED
  BY <1>2, <1>3

(* The bets stay if one seat changes and keeps its bet. *)
LEMMA OneBet ==
    ASSUME TableInv, NEW s \in Seats, NEW seat,
           seats' = [seats EXCEPT ![s] = seat],
           seats'[s] = seat => BetKept(s)
    PROVE  \A t \in Seats : BetKept(t)
<1>1. seats'[s] = seat /\ \A t \in Seats : t # s => seats'[t] = seats[t]
  BY DEF TableInv, DebitInv, TypeInv, TypeOK
<1> QED
  BY <1>1 DEF BetKept

(* An empty seat has no bet. *)
LEMMA EmptySeatBet == ~HasUnresolvedBet(EmptySeat) /\ ~Playable(EmptySeat) /\ EmptySeat.bet = 0
  BY DEF EmptySeat, HasUnresolvedBet, Playable

(* Sitting, leaving and staking leave the table alone: a bet is not left. *)
LEMMA SeatStepIdle ==
    ASSUME TableInv, SeatStep PROVE TableIdle
<1>1. PICK u \in Users, s \in Seats :
         \/ Sit(u, s) \/ LeaveSeat(u, s) \/ TouchActivity(u, s)
         \/ \E chip \in ChipDenominations : ThrowChip(u, s, chip)
         \/ \E chip \in ChipDenominations : PullStakeChip(u, s, chip)
         \/ ClearStake(u, s)
  BY DEF SeatStep
<1>2. UNCHANGED <<phase, dealing, timers>>
  BY <1>1 DEF Sit, LeaveSeat, TouchActivity, ThrowChip, PullStakeChip, ClearStake, OnlySeats
<1>3. seats[s] \in SeatType
  BY DEF TableInv, DebitInv, TypeInv, TypeOK
<1>4. ASSUME NEW seat \in {RecordActivity([seats[s] EXCEPT !.user = u]),
                           RecordActivity(seats[s])}
                          \cup {RecordActivity([seats[s] EXCEPT !.stake = k]) : k \in Int}
      PROVE  seats'[s] = seat => BetKept(s)
  <2>1. /\ seat.bet = seats[s].bet /\ seat.stood = seats[s].stood
        /\ seat.resolved = seats[s].resolved
    <3>1. CASE seat = RecordActivity([seats[s] EXCEPT !.user = u])
      BY <1>3, <3>1 DEF RecordActivity, SeatType
    <3>2. CASE seat = RecordActivity(seats[s])
      BY <1>3, <3>2 DEF RecordActivity, SeatType
    <3>3. ASSUME NEW k \in Int, seat = RecordActivity([seats[s] EXCEPT !.stake = k])
          PROVE  /\ seat.bet = seats[s].bet /\ seat.stood = seats[s].stood
                 /\ seat.resolved = seats[s].resolved
      BY <1>3, <3>3 DEF RecordActivity, SeatType
    <3> QED
      BY <1>4, <3>1, <3>2, <3>3
  <2> QED
    BY <2>1 DEF BetKept, HasUnresolvedBet, Playable
<1>5. CASE Sit(u, s) \/ TouchActivity(u, s)
  BY <1>2, <1>4, <1>5, OneBet DEF Sit, TouchActivity, TableIdle
<1>6. ASSUME NEW k \in Int,
             seats' = [seats EXCEPT ![s] = RecordActivity([seats[s] EXCEPT !.stake = k])]
      PROVE  TableIdle
  BY <1>2, <1>4, <1>6, OneBet DEF TableIdle
<1>7. ASSUME NEW chip \in ChipDenominations,
             ThrowChip(u, s, chip) \/ PullStakeChip(u, s, chip)
      PROVE  TableIdle
  <2>1. seats[s].stake + chip \in Int /\ seats[s].stake - chip \in Int
    BY <1>3, BlackjackAssumption DEF SeatType
  <2> QED
    BY <1>6, <1>7, <2>1 DEF ThrowChip, PullStakeChip
<1>8. CASE ClearStake(u, s)
  <2>1. seats' = [seats EXCEPT ![s] = RecordActivity([seats[s] EXCEPT !.stake = 0])]
    BY <1>8 DEF ClearStake
  <2>2. 0 \in Int
    OBVIOUS
  <2> QED
    BY <1>6, <2>1, <2>2
<1>9. CASE LeaveSeat(u, s)
  <2>1. \/ phase = "Settling"
        \/ seats[s].bet = 0
    BY <1>9 DEF LeaveSeat
  <2>2. ~HasUnresolvedBet(seats[s]) /\ (phase = "Betting" => seats[s].bet = 0)
    BY <2>1 DEF TableInv, PhaseMatchesHands, HasUnresolvedBet
  <2>3. seats'[s] = EmptySeat => BetKept(s)
    BY <2>2, EmptySeatBet DEF BetKept, Playable
  <2> QED
    BY <1>2, <1>9, <2>3, OneBet DEF LeaveSeat, TableIdle
<1> QED
  BY <1>1, <1>5, <1>7, <1>8, <1>9

-------------------------------------------------------------------------------
(* The requests leave the table alone, but for the bets they lock and the  *)
(* doubles they finish.                                                    *)
LEMMA RequestIdle ==
    ASSUME TableInv, NEW r \in Requests,
           \/ NewRequest(r) \/ RejectBet(r) \/ DebitBet(r)
           \/ \E s \in Seats : \/ MarkBetPending(r, s) \/ ReleaseBet(r, s)
                               \/ ClearPendingDouble(r, s)
    PROVE  TableIdle
<1>1. UNCHANGED <<phase, dealing, timers>>
  BY DEF NewRequest, SubmitStake, PrepareDoubleDown, RejectBet, DebitBet, MarkBetPending,
         ReleaseBet, ClearPendingDouble
<1>2. CASE seats' = seats
  BY <1>1, <1>2 DEF TableIdle, BetKept
<1>3. ASSUME NEW s \in Seats, NEW seat, seats' = [seats EXCEPT ![s] = seat],
             seat.bet = seats[s].bet, seat.stood = seats[s].stood,
             seat.resolved = seats[s].resolved
      PROVE  TableIdle
  <2>1. seats'[s] = seat => BetKept(s)
    BY <1>3 DEF BetKept, HasUnresolvedBet, Playable
  <2> QED
    BY <1>1, <1>3, <2>1, OneBet DEF TableIdle
<1>4. ASSUME NEW s \in Seats, MarkBetPending(r, s) PROVE TableIdle
  <2> DEFINE seat == RecordActivity([seats[s] EXCEPT
                        !.pending_bet = request[r].amount, !.stake = 0])
  <2>1. /\ seat.bet = seats[s].bet /\ seat.stood = seats[s].stood
        /\ seat.resolved = seats[s].resolved
    BY DEF RecordActivity, TableInv, DebitInv, TypeInv, TypeOK, SeatType
  <2>2. seats' = [seats EXCEPT ![s] = seat]
    BY <1>4 DEF MarkBetPending
  <2> HIDE DEF seat
  <2> QED
    BY <1>3, <2>1, <2>2
<1>5. ASSUME NEW s \in Seats, ReleaseBet(r, s) PROVE TableIdle
  <2> DEFINE seat == [seats[s] EXCEPT !.pending_bet = 0]
  <2>1. /\ seat.bet = seats[s].bet /\ seat.stood = seats[s].stood
        /\ seat.resolved = seats[s].resolved
    BY DEF TableInv, DebitInv, TypeInv, TypeOK, SeatType
  <2>2. seats' = [seats EXCEPT ![s] = seat]
    BY <1>5 DEF ReleaseBet
  <2> HIDE DEF seat
  <2> QED
    BY <1>3, <2>1, <2>2
<1>6. ASSUME NEW s \in Seats, ClearPendingDouble(r, s) PROVE TableIdle
  <2> DEFINE seat == [seats[s] EXCEPT !.pending_double = FALSE]
  <2>1. /\ seat.bet = seats[s].bet /\ seat.stood = seats[s].stood
        /\ seat.resolved = seats[s].resolved
    BY DEF TableInv, DebitInv, TypeInv, TypeOK, SeatType
  <2>2. seats' = [seats EXCEPT ![s] = seat]
    BY <1>6 DEF ClearPendingDouble
  <2> HIDE DEF seat
  <2> QED
    BY <1>3, <2>1, <2>2
<1>7. ASSUME NEW u \in Users, NEW s \in Seats, PrepareDoubleDown(r, u, s) PROVE TableIdle
  <2> DEFINE seat == RecordActivity([seats[s] EXCEPT !.pending_double = TRUE])
  <2>1. /\ seat.bet = seats[s].bet /\ seat.stood = seats[s].stood
        /\ seat.resolved = seats[s].resolved
    BY DEF RecordActivity, TableInv, DebitInv, TypeInv, TypeOK, SeatType
  <2>2. seats' = [seats EXCEPT ![s] = seat]
    BY <1>7 DEF PrepareDoubleDown
  <2> HIDE DEF seat
  <2> QED
    BY <1>3, <2>1, <2>2
<1>8. CASE RejectBet(r) \/ DebitBet(r)
  BY <1>2, <1>8 DEF RejectBet, DebitBet
<1>9. ASSUME NEW u \in Users, NEW s \in Seats, SubmitStake(r, u, s) PROVE TableIdle
  BY <1>2, <1>9 DEF SubmitStake
<1> QED
  BY <1>4, <1>5, <1>6, <1>7, <1>8, <1>9 DEF NewRequest

(* An inactivity task leaves the table alone, unless it stands a hand. *)
LEMMA KickIdle ==
    ASSUME TableInv, NEW u \in Users, NEW s \in Seats,
           KickSkipped(u, s) \/ KickDeferred(u, s) \/ KickLeaves(u, s)
    PROVE  TableIdle
<1>1. UNCHANGED <<phase, dealing, timers>>
  BY DEF KickSkipped, KickDeferred, KickLeaves, OnlySeats
<1>2. ASSUME NEW seat, seats' = [seats EXCEPT ![s] = seat],
             seat.bet = seats[s].bet, seat.stood = seats[s].stood,
             seat.resolved = seats[s].resolved
      PROVE  TableIdle
  <2>1. seats'[s] = seat => BetKept(s)
    BY <1>2 DEF BetKept, HasUnresolvedBet, Playable
  <2> QED
    BY <1>1, <1>2, <2>1, OneBet DEF TableIdle
<1>3. CASE KickSkipped(u, s)
  <2> DEFINE seat == [seats[s] EXCEPT !.armed = FALSE]
  <2>1. /\ seat.bet = seats[s].bet /\ seat.stood = seats[s].stood
        /\ seat.resolved = seats[s].resolved
    BY DEF TableInv, DebitInv, TypeInv, TypeOK, SeatType
  <2>2. seats' = [seats EXCEPT ![s] = seat]
    BY <1>3 DEF KickSkipped
  <2> HIDE DEF seat
  <2> QED
    BY <1>2, <2>1, <2>2
<1>4. CASE KickDeferred(u, s)
  <2> DEFINE seat == [seats[s] EXCEPT !.armed = FALSE, !.deferred_leave_reason = "Idle"]
  <2>1. /\ seat.bet = seats[s].bet /\ seat.stood = seats[s].stood
        /\ seat.resolved = seats[s].resolved
    BY DEF TableInv, DebitInv, TypeInv, TypeOK, SeatType
  <2>2. seats' = [seats EXCEPT ![s] = seat]
    BY <1>4 DEF KickDeferred, TableInv, DebitInv, TypeInv, TypeOK
  <2> HIDE DEF seat
  <2> QED
    BY <1>2, <2>1, <2>2
<1>5. CASE KickLeaves(u, s)
  <2>1. phase = "Settling" \/ seats[s].bet = 0
    BY <1>5 DEF KickLeaves
  <2>2. ~HasUnresolvedBet(seats[s]) /\ (phase = "Betting" => seats[s].bet = 0)
    BY <2>1 DEF TableInv, PhaseMatchesHands, HasUnresolvedBet
  <2>3. seats'[s] = EmptySeat => BetKept(s)
    BY <2>2, EmptySeatBet DEF BetKept, Playable
  <2> QED
    BY <1>1, <1>5, <2>3, OneBet DEF KickLeaves, TableIdle
<1> QED
  BY <1>3, <1>4, <1>5

-------------------------------------------------------------------------------
(* A step of the players leaves phase and hands in agreement: the turn     *)
(* goes on with a playable hand, or to the dealer, or is over.             *)
LEMMA AdvancePhase ==
    ASSUME TableInv, phase = "PlayerTurn", NEW ss, AdvanceOrFinishRound(ss), SeatInv',
           UNCHANGED <<dealer, betting_deadline, action_countdown_id>>,
           phase' = "PlayerTurn" /\ action_deadline = "running" =>
              action_countdown_id \in actionTasks'
    PROVE  (TimersHaveTasks /\ PhaseMatchesHands)'
<1>1. betting_deadline = "none"
  BY DEF TableInv, TimersHaveTasks
<1>2. CASE /\ \E s \in Seats : Playable(ss[s])
           /\ phase' = "PlayerTurn" /\ seats' = ss
           /\ UNCHANGED <<action_deadline, dealer_turn_id, dealerTasks>>
  BY <1>1, <1>2 DEF TimersHaveTasks, PhaseMatchesHands
<1>3. CASE /\ \A s \in Seats : ~HasUnresolvedBet(ss[s])
           /\ phase' = "Settling"
           /\ seats' = RemoveDeferredLeaveSeats(ss, "Settling")
  <2>1. \A s \in Seats : seats'[s] \in {ss[s], EmptySeat}
    BY <1>3 DEF RemoveDeferredLeaveSeats
  <2> QED
    BY <1>1, <1>3, <2>1, EmptySeatBet DEF TimersHaveTasks, PhaseMatchesHands
<1>4. CASE /\ \A s \in Seats : ~Playable(ss[s])
           /\ \E s \in Seats : HasUnresolvedBet(ss[s])
           /\ seats' = ss /\ BeginDealerTurn
  BY <1>1, <1>4 DEF BeginDealerTurn, TimersHaveTasks, PhaseMatchesHands
<1> QED
  BY <1>2, <1>3, <1>4 DEF AdvanceOrFinishRound

(* A hand that draws a card and is not bust can still play. *)
LEMMA DrawPhase ==
    ASSUME TableInv, NEW u \in Users, NEW s \in Seats, NEW hand, CanAct(u, s),
           seats' = [seats EXCEPT ![s] = RecordActivity([seats[s] EXCEPT !.hand = hand])],
           UNCHANGED <<phase, action_deadline, dealer_turn_id, dealerTasks, dealer,
                       betting_deadline, action_countdown_id, actionTasks>>
    PROVE  (TimersHaveTasks /\ PhaseMatchesHands)'
<1> DEFINE seat == RecordActivity([seats[s] EXCEPT !.hand = hand])
<1>1. /\ seat.bet = seats[s].bet /\ seat.stood = seats[s].stood
      /\ seat.resolved = seats[s].resolved
  BY DEF RecordActivity, TableInv, DebitInv, TypeInv, TypeOK, SeatType
<1>2. seats'[s] = seat
  BY DEF TableInv, DebitInv, TypeInv, TypeOK
<1> HIDE DEF seat
<1>3. phase = "PlayerTurn" /\ Playable(seats'[s])
  BY <1>1, <1>2 DEF CanAct, Playable, HasUnresolvedBet
<1> QED
  BY <1>3 DEF TableInv, TimersHaveTasks, PhaseMatchesHands

(* The steps of the players. *)
LEMMA PlayerStepPhase ==
    ASSUME TableInv, PlayerStep, SeatInv' PROVE (TimersHaveTasks /\ PhaseMatchesHands)'
<1>1. ASSUME NEW u \in Users, NEW s \in Seats, Stand(u, s)
      PROVE  (TimersHaveTasks /\ PhaseMatchesHands)'
  BY <1>1, AdvancePhase DEF Stand, CanAct, TableInv, TimersHaveTasks
<1>2. ASSUME NEW u \in Users, NEW s \in Seats, Hit(u, s)
      PROVE  (TimersHaveTasks /\ PhaseMatchesHands)'
  <2>1. /\ CanAct(u, s) /\ phase = "PlayerTurn"
        /\ UNCHANGED <<dealer, betting_deadline, action_countdown_id, actionTasks>>
        /\ action_deadline = "running" => action_countdown_id \in actionTasks'
    BY <1>2 DEF Hit, CanAct, TableInv, TimersHaveTasks
  <2>2. PICK hand \in AfterHit :
           LET drawn == [seats EXCEPT ![s] = RecordActivity([@ EXCEPT !.hand = hand])]
           IN  \/ AdvanceOrFinishRound(Finished(drawn, Bust(s)))
               \/ /\ seats' = drawn
                  /\ UNCHANGED <<phase, action_deadline, dealer_turn_id, dealerTasks>>
    BY <1>2 DEF Hit
  <2> DEFINE drawn == [seats EXCEPT ![s] = RecordActivity([seats[s] EXCEPT !.hand = hand])]
  <2>3. CASE AdvanceOrFinishRound(Finished(drawn, Bust(s)))
    BY <2>1, <2>3, AdvancePhase
  <2>4. CASE /\ seats' = drawn
             /\ UNCHANGED <<phase, action_deadline, dealer_turn_id, dealerTasks>>
    BY <2>1, <2>4, DrawPhase
  <2> QED
    BY <2>2, <2>3, <2>4
<1>3. ASSUME NEW u \in Users, NextHand(u)
      PROVE  (TimersHaveTasks /\ PhaseMatchesHands)'
  <2>1. phase' = "Betting" /\ betting_deadline' = "none"
    BY <1>3 DEF NextHand
  <2>2. ASSUME NEW s \in Seats PROVE ~(seats'[s].bet > 0)
    <3>1. seats'[s] = ClearRound(seats[s])
          \/ seats'[s] = RecordActivity(ClearRound(seats[s]))
      BY <1>3 DEF NextHand
    <3>2. seats'[s].bet = 0
      BY <3>1 DEF ClearRound, RecordActivity, TableInv, DebitInv, TypeInv, TypeOK, SeatType
    <3> QED
      BY <3>2
  <2>3. TimersHaveTasks'
    BY <2>1, <2>2 DEF TimersHaveTasks, HasBets
  <2>4. PhaseMatchesHands'
    BY <2>1 DEF PhaseMatchesHands, SeatInv, SeatOK
  <2> QED
    BY <2>3, <2>4
<1> QED
  BY <1>1, <1>2, <1>3 DEF PlayerStep

-------------------------------------------------------------------------------
(* A step gives a seat no reason to leave. *)
ReasonKept(new, old) == new.deferred_leave_reason \in {old.deferred_leave_reason, "none"}

(* A seat with a bet keeps user and bet in the deal, and no seat stands.   *)
LEMMA DealtSeats ==
    ASSUME NEW ss, Dealable(ss), StartRound(ss), NEW s \in Seats
    PROVE  /\ ~seats'[s].stood
           /\ ss[s].bet > 0 =>
                 /\ seats'[s].user = ss[s].user /\ seats'[s].bet = ss[s].bet
                 /\ dealer' = "natural" => HasUnresolvedBet(seats'[s])
<1> DEFINE cleared == ClearedForDeal(ss)
           players == {x \in Seats : cleared[x].bet > 0}
           naturals(hands, d) ==
              {x \in players : hands[x] = "natural" /\ d # "natural"}
           outcome(hands, d) ==
              [x \in naturals(hands, d) |->
                  CHOOSE o \in SettleOutcomes(hands[x], d) : TRUE]
           dealt(hands) ==
              [x \in Seats |-> IF x \in players
                               THEN [cleared[x] EXCEPT !.hand = hands[x]]
                               ELSE cleared[x]]
<1>1. PICK hands \in [players -> DealtHands], d \in DealtDealerHands :
         seats' = Finished(dealt(hands), outcome(hands, d)) /\ dealer' = d
  BY DEF StartRound
<1>2. /\ cleared[s] \in SeatType /\ ~cleared[s].stood /\ ~cleared[s].resolved
      /\ ss[s].bet > 0 => cleared[s].bet = ss[s].bet /\ cleared[s].user = ss[s].user
  BY ClearedType DEF Dealable, SeatsType
<1> HIDE DEF cleared
<1>3. /\ dealt(hands)[s] \in SeatType
      /\ ~dealt(hands)[s].stood /\ ~dealt(hands)[s].resolved
      /\ ss[s].bet > 0 => /\ dealt(hands)[s].bet = ss[s].bet
                          /\ dealt(hands)[s].user = ss[s].user
  BY <1>2 DEF SeatType, DealtHands, PlayerHands, LiveHands
<1> HIDE DEF dealt
<1>4. /\ s \in naturals(hands, d) => seats'[s] = FinishSeat(dealt(hands)[s])
      /\ s \notin naturals(hands, d) => seats'[s] = dealt(hands)[s]
  BY <1>1 DEF Finished
<1>5. d = "natural" => s \notin naturals(hands, d)
  OBVIOUS
<1> HIDE DEF naturals
<1>6. CASE s \in naturals(hands, d)
  BY <1>1, <1>3, <1>4, <1>5, <1>6 DEF FinishSeat, SeatType
<1>7. CASE s \notin naturals(hands, d)
  BY <1>3, <1>4, <1>7 DEF HasUnresolvedBet
<1> QED
  BY <1>6, <1>7

(* The deal leaves phase, hands and timers in agreement. *)
LEMMA DealPhase ==
    ASSUME NEW ss, Dealable(ss), HasBets(ss), StartRound(ss)
    PROVE  (TimersHaveTasks /\ PhaseMatchesHands)' /\ phase' # "Betting"
<1>1. betting_deadline' = "none"
  BY DEF StartRound
<1>2. \/ /\ dealer' = "natural" /\ BeginDealerTurn
      \/ /\ \E s \in Seats : Playable(seats'[s])
         /\ phase' = "PlayerTurn" /\ StartActionCountdown
      \/ /\ \A s \in Seats : ~Playable(seats'[s])
         /\ phase' = "Settling"
  BY ZenonT(40) DEF StartRound
<1>3. CASE dealer' = "natural" /\ BeginDealerTurn
  <2>1. \E s \in Seats : HasUnresolvedBet(seats'[s])
    BY <1>3, DealtSeats DEF HasBets
  <2> QED
    BY <1>1, <1>3, <2>1 DEF BeginDealerTurn, TimersHaveTasks, PhaseMatchesHands
<1>4. CASE /\ \E s \in Seats : Playable(seats'[s])
           /\ phase' = "PlayerTurn" /\ StartActionCountdown
  BY <1>1, <1>4 DEF StartActionCountdown, TimersHaveTasks, PhaseMatchesHands
<1>5. CASE /\ \A s \in Seats : ~Playable(seats'[s])
           /\ phase' = "Settling"
  <2>1. \A s \in Seats : ~HasUnresolvedBet(seats'[s])
    BY <1>5, DealtSeats DEF Playable
  <2> QED
    BY <1>1, <1>5, <2>1 DEF TimersHaveTasks, PhaseMatchesHands
<1> QED
  BY <1>2, <1>3, <1>4, <1>5

(* What the seats are when the last bet is locked. *)
LEMMA LockedBets ==
    ASSUME DebitInv, NEW r \in Requests, NEW s \in Seats, LockBet(r, s)
    PROVE  \E ss : /\ Dealable(ss) /\ HasBets(ss) /\ phase = "Betting"
                   /\ \A t \in Seats : /\ ss[t].user = seats[t].user
                                       /\ ss[t].resolved = seats[t].resolved
                                       /\ ReasonKept(ss[t], seats[t])
                                       /\ t # s => ss[t].bet = seats[t].bet
                   /\ seats[s].bet = 0 /\ ss[s].bet = request[r].amount /\ ss[s].bet > 0
                   /\ \/ AllSeatedBetsReady(ss) /\ StartRound(ss)
                      \/ /\ seats' = ss /\ EnsureBettingCountdown
                         /\ UNCHANGED <<phase, round, accounts>>
<1> DEFINE seat == RecordActivity([seats[s] EXCEPT !.bet = seats[s].pending_bet,
                                      !.pending_bet = 0, !.missed_deals = 0])
           ss == [seats EXCEPT ![s] = seat]
<1>1. \/ AllSeatedBetsReady(ss) /\ StartRound(ss)
      \/ /\ seats' = ss /\ EnsureBettingCountdown
         /\ UNCHANGED <<phase, round, accounts>>
  BY DEF LockBet
<1>2. BetPending(r) /\ Pending(r) /\ seats[s].user = request[r].user
  BY DEF LockBet, Pending, BetPending, BetStages
<1>3. /\ phase = "Betting" /\ seats[s].bet = 0 /\ seats[s].user \in Users
      /\ seats[s].pending_bet > 0 /\ seats[s].pending_bet = request[r].amount
  <2>1. PICK t \in Seats : /\ seats[t].user = request[r].user
                           /\ seats[t].pending_bet = request[r].amount
                           /\ phase = "Betting" /\ seats[t].bet = 0
    BY <1>2 DEF DebitInv, PendingTracksDebit
  <2>2. request[r].amount > 0 /\ request[r].user \in Users /\ request[r].user # NoUser
    BY <1>2, PendingAmount DEF DebitInv
  <2>3. s = t
    BY <1>2, <2>1, <2>2 DEF DebitInv, OneSeatEach, Occupied
  <2> QED
    BY <1>2, <2>1, <2>2, <2>3
<1>4. /\ seat \in SeatType /\ seat.user = seats[s].user /\ seat.bet > 0
      /\ seat.bet <= MaxBet /\ seat.bet = request[r].amount
      /\ seat.resolved = seats[s].resolved
      /\ seat.deferred_leave_reason = seats[s].deferred_leave_reason
  <2>1. seats[s] \in SeatType
    BY DEF DebitInv, TypeInv, TypeOK
  <2>2. PICK b : b = seats[s].pending_bet /\ b \in 0 .. 2 * MaxBet /\ b <= MaxBet /\ b > 0
    BY <1>3, <2>1, Bounds DEF SeatType
  <2>3. seat = RecordActivity([seats[s] EXCEPT !.bet = b, !.pending_bet = 0,
                                               !.missed_deals = 0])
    BY <2>2
  <2> HIDE DEF seat
  <2> QED
    BY <1>3, <2>1, <2>2, <2>3, Bounds, Zeros DEF RecordActivity, SeatType
<1> HIDE DEF seat
<1>5. ss[s] = seat /\ \A t \in Seats : t # s => ss[t] = seats[t]
  BY DEF DebitInv, TypeInv, TypeOK
<1>6. ss \in SeatsType
  BY <1>4, UpdateType DEF DebitInv, TypeInv, TypeOK, SeatsType
<1> HIDE DEF ss
<1>7. ASSUME NEW t \in Seats, t # s
      PROVE  seats[t].bet > 0 => seats[t].user \in Users /\ seats[t].bet <= MaxBet
  BY <1>3, BlackjackAssumption
     DEF DebitInv, TypeInv, TypeOK, SeatInv, SeatOK, SeatType, AfterHit
<1>8. /\ Dealable(ss) /\ HasBets(ss)
      /\ \A t \in Seats : /\ ss[t].user = seats[t].user
                          /\ ss[t].resolved = seats[t].resolved
                          /\ ReasonKept(ss[t], seats[t])
  BY <1>3, <1>4, <1>5, <1>6, <1>7 DEF Dealable, HasBets, ReasonKept
<1> QED
  BY <1>1, <1>3, <1>4, <1>5, <1>8

(* What the readers of a locked bet need to know. *)
LEMMA LockedSeats ==
    ASSUME DebitInv, NEW r \in Requests, NEW s \in Seats, LockBet(r, s)
    PROVE  \E ss : /\ Dealable(ss) /\ HasBets(ss) /\ phase = "Betting"
                   /\ \A t \in Seats : /\ ss[t].user = seats[t].user
                                       /\ ReasonKept(ss[t], seats[t])
                   /\ \/ AllSeatedBetsReady(ss) /\ StartRound(ss)
                      \/ /\ seats' = ss /\ EnsureBettingCountdown
                         /\ UNCHANGED <<phase, round>>
<1>1. PICK ss : /\ Dealable(ss) /\ HasBets(ss) /\ phase = "Betting"
                /\ \A t \in Seats : /\ ss[t].user = seats[t].user
                                    /\ ss[t].resolved = seats[t].resolved
                                    /\ ReasonKept(ss[t], seats[t])
                                    /\ t # s => ss[t].bet = seats[t].bet
                /\ seats[s].bet = 0 /\ ss[s].bet = request[r].amount /\ ss[s].bet > 0
                /\ \/ AllSeatedBetsReady(ss) /\ StartRound(ss)
                   \/ /\ seats' = ss /\ EnsureBettingCountdown
                      /\ UNCHANGED <<phase, round, accounts>>
  BY LockedBets
<1> QED
  BY <1>1

(* Locking a bet deals, or leaves a countdown with a task. *)
LEMMA LockBetPhase ==
    ASSUME TableInv, NEW r \in Requests, NEW s \in Seats, LockBet(r, s), SeatInv'
    PROVE  (TimersHaveTasks /\ PhaseMatchesHands)'
<1>1. PICK ss : /\ Dealable(ss) /\ HasBets(ss) /\ phase = "Betting"
                /\ \/ AllSeatedBetsReady(ss) /\ StartRound(ss)
                   \/ /\ seats' = ss /\ EnsureBettingCountdown
                      /\ UNCHANGED <<phase, round>>
  BY LockedSeats DEF TableInv
<1>2. CASE seats' = ss /\ EnsureBettingCountdown /\ UNCHANGED <<phase, round>>
  <2>1. betting_deadline' # "none" /\ betting_countdown_id' \in dealTasks'
    BY <1>2 DEF EnsureBettingCountdown
  <2>2. TimersHaveTasks'
    BY <1>1, <1>2, <2>1 DEF TimersHaveTasks
  <2>3. PhaseMatchesHands'
    BY <1>1, <1>2 DEF PhaseMatchesHands, SeatInv, SeatOK
  <2> QED
    BY <2>2, <2>3
<1> QED
  BY <1>1, <1>2, DealPhase

(* The seats that the auto-deal task deals. *)
LEMMA AutoDealSeats ==
    ASSUME DebitInv, NEW id, AutoDeal(id)
    PROVE  Dealable(seats) /\ HasBets(seats) /\ StartRound(seats) /\ phase = "Betting"
  BY BlackjackAssumption
     DEF AutoDeal, CountdownMatches, Dealable, DebitInv, TypeInv, TypeOK, SeatsType,
         SeatInv, SeatOK, SeatType, AfterHit

(* The timer tasks. *)
LEMMA TimerStepPhase ==
    ASSUME TableInv, TimerStep, SeatInv' PROVE (TimersHaveTasks /\ PhaseMatchesHands)'
<1>1. CASE BettingDeadlinePasses
  BY <1>1 DEF BettingDeadlinePasses, TableInv, TimersHaveTasks, PhaseMatchesHands, dealing
<1>2. CASE ActionDeadlinePasses
  BY <1>2 DEF ActionDeadlinePasses, TableInv, TimersHaveTasks, PhaseMatchesHands, dealing
<1>3. CASE StaleTaskEnds
  <2>1. betting_countdown_id \in dealTasks /\ phase = "Betting" /\ betting_deadline # "none"
           => betting_countdown_id \in dealTasks'
    BY <1>3 DEF StaleTaskEnds, CountdownMatches
  <2>2. action_countdown_id \in actionTasks /\ phase = "PlayerTurn"
           /\ action_deadline = "running"
           => action_countdown_id \in actionTasks'
    BY <1>3 DEF StaleTaskEnds, ActionCountdownMatches
  <2>3. UNCHANGED <<phase, seats, dealer, dealer_turn_id, dealerTasks, betting_deadline,
                    betting_countdown_id, action_deadline, action_countdown_id>>
    BY <1>3 DEF StaleTaskEnds
  <2> QED
    BY <2>1, <2>2, <2>3 DEF TableInv, TimersHaveTasks, PhaseMatchesHands
<1>4. ASSUME NEW id, AutoDeal(id) PROVE (TimersHaveTasks /\ PhaseMatchesHands)'
  BY <1>4, AutoDealSeats, DealPhase DEF TableInv
<1>5. ASSUME NEW id, AutoStandRemaining(id)
      PROVE  (TimersHaveTasks /\ PhaseMatchesHands)'
  <2>1. phase = "PlayerTurn" /\ action_deadline # "running"
    BY <1>5 DEF AutoStandRemaining, ActionCountdownMatches
  <2> QED
    BY <1>5, <2>1, AdvancePhase DEF AutoStandRemaining
<1> QED
  BY <1>1, <1>2, <1>3, <1>4, <1>5 DEF TimerStep

(* The dealer: the task draws, or settles every open bet and ends. *)
LEMMA DealerStepPhase ==
    ASSUME TableInv, DealerStep, SeatInv' PROVE (TimersHaveTasks /\ PhaseMatchesHands)'
<1>1. ASSUME NEW id, DealerDraws(id) PROVE (TimersHaveTasks /\ PhaseMatchesHands)'
  BY <1>1 DEF DealerDraws, AfterDealerDraw, timers, TableInv, TimersHaveTasks,
              PhaseMatchesHands
<1>2. ASSUME NEW id, FinishDealerTurn(id) PROVE (TimersHaveTasks /\ PhaseMatchesHands)'
  <2>1. PICK outcome \in [{s \in Seats : HasUnresolvedBet(seats[s])} -> Outcomes] :
           seats' = RemoveDeferredLeaveSeats(Finished(seats, outcome), "Settling")
    BY <1>2 DEF FinishDealerTurn
  <2>2. phase = "DealerTurn" /\ phase' = "Settling" /\ UNCHANGED timers
    BY <1>2 DEF FinishDealerTurn
  <2>3. ASSUME NEW s \in Seats PROVE ~HasUnresolvedBet(seats'[s])
    <3>1. ~HasUnresolvedBet(FinishSeat(seats[s]))
      BY DEF FinishSeat, HasUnresolvedBet, TableInv, DebitInv, TypeInv, TypeOK, SeatType
    <3>2. ~HasUnresolvedBet(Finished(seats, outcome)[s])
      BY <2>1, <3>1 DEF Finished
    <3>3. seats'[s] \in {Finished(seats, outcome)[s], EmptySeat}
      BY <2>1 DEF RemoveDeferredLeaveSeats
    <3> QED
      BY <3>2, <3>3, EmptySeatBet
  <2>4. TimersHaveTasks'
    BY <2>2 DEF TableInv, TimersHaveTasks, timers
  <2> QED
    BY <2>2, <2>3, <2>4 DEF PhaseMatchesHands
<1> QED
  BY <1>1, <1>2 DEF DealerStep

(* The inactivity tasks. *)
LEMMA KickStepPhase ==
    ASSUME TableInv, KickStep, SeatInv' PROVE (TimersHaveTasks /\ PhaseMatchesHands)'
<1>1. ASSUME NEW u \in Users, NEW s \in Seats, KickStands(u, s)
      PROVE  (TimersHaveTasks /\ PhaseMatchesHands)'
  BY <1>1, AdvancePhase DEF KickStands, TableInv, TimersHaveTasks
<1> QED
  BY <1>1, KickIdle, IdleTable DEF KickStep

(* The critical sections of a request. *)
LEMMA RequestStepPhase ==
    ASSUME TableInv, NEW r \in Requests, RequestStep(r), SeatInv'
    PROVE  (TimersHaveTasks /\ PhaseMatchesHands)'
<1>1. ASSUME NEW s \in Seats, FinishDoubleDown(r, s)
      PROVE  (TimersHaveTasks /\ PhaseMatchesHands)'
  BY <1>1, AdvancePhase DEF FinishDoubleDown, TableInv, TimersHaveTasks
<1> QED
  BY <1>1, LockBetPhase, RequestIdle, IdleTable DEF RequestStep

-------------------------------------------------------------------------------
(***************************************************************************)
(* The inductive invariant holds of the empty table.                       *)
(***************************************************************************)
THEOREM InitTableInv == Init => TableInv
<1> SUFFICES ASSUME Init PROVE TableInv
  OBVIOUS
<1>1. DebitInv
  BY InitDebitInv
<1>2. TimersHaveTasks
  BY EmptySeatBet DEF Init, TimersHaveTasks, HasBets
<1>3. PhaseMatchesHands
  BY <1>1 DEF Init, PhaseMatchesHands, DebitInv, TypeInv, SeatInv, SeatOK
<1> QED
  BY <1>1, <1>2, <1>3 DEF TableInv

(***************************************************************************)
(* Every critical section preserves it, among them every early return of   *)
(* the countdown, timeout and dealer tasks (StaleTaskEnds).                *)
(***************************************************************************)
THEOREM NextTableInv == TableInv /\ [Next]_vars => TableInv'
<1> SUFFICES ASSUME TableInv, [Next]_vars PROVE TableInv'
  OBVIOUS
<1>1. DebitInv' /\ SeatInv'
  BY NextDebitInv DEF TableInv, DebitInv, TypeInv
<1>2. CASE TableIdle
  BY <1>1, <1>2, IdleTable DEF TableInv
<1>3. CASE SeatStep
  BY <1>2, <1>3, SeatStepIdle
<1>4. CASE PlayerStep
  BY <1>1, <1>4, PlayerStepPhase DEF TableInv
<1>5. CASE KickStep
  BY <1>1, <1>5, KickStepPhase DEF TableInv
<1>6. ASSUME NEW r \in Requests, NewRequest(r) \/ RejectBet(r) \/ DebitBet(r)
      PROVE  TableInv'
  BY <1>2, <1>6, RequestIdle
<1>7. ASSUME NEW r \in Requests, RequestStep(r) PROVE TableInv'
  BY <1>1, <1>7, RequestStepPhase DEF TableInv
<1>8. CASE TimerStep
  BY <1>1, <1>8, TimerStepPhase DEF TableInv
<1>9. CASE DealerStep
  BY <1>1, <1>9, DealerStepPhase DEF TableInv
<1>10. CASE PersistStep \/ UNCHANGED vars
  <2>1. TableIdle
    BY <1>10 DEF PersistStep, PersistSettlement, vars, TableIdle, BetKept
  <2> QED
    BY <1>2, <2>1
<1> QED
  BY <1>3, <1>4, <1>5, <1>6, <1>7, <1>8, <1>9, <1>10 DEF Next

(***************************************************************************)
(* No reachable state lacks the task that it waits for, and in none does   *)
(* the phase disagree with the hands.                                      *)
(***************************************************************************)
THEOREM TableInvariance == Spec => []TableInv
  BY InitTableInv, NextTableInv, PTL DEF Spec

(***************************************************************************)
(* Whatever waits for the auto-deal, timeout or dealer task has one        *)
(* (ensure_betting_countdown, start_action_countdown, begin_dealer_turn).  *)
(***************************************************************************)
THEOREM TimersServed == Spec => []TimersHaveTasks
<1>1. TableInv => TimersHaveTasks
  BY DEF TableInv
<1> QED
  BY <1>1, TableInvariance, PTL

(***************************************************************************)
(* The dealer plays only when no player can, and for somebody; a settled   *)
(* table owes nobody an outcome (advance_or_finish_round, start_round).    *)
(***************************************************************************)
THEOREM PhaseAgrees == Spec => []PhaseMatchesHands
<1>1. TableInv => PhaseMatchesHands
  BY DEF TableInv
<1> QED
  BY <1>1, TableInvariance, PTL

-------------------------------------------------------------------------------
(* A round is dealt by the last bet or by the auto-deal task only. *)
LEMMA WhoDeals ==
    ASSUME [Next]_vars, round' # round
    PROVE  \/ \E id \in dealTasks : AutoDeal(id)
           \/ \E r \in Requests, s \in Seats : LockBet(r, s)
  BY ZenonT(40) DEF Next, SeatStep, Sit, LeaveSeat, TouchActivity, ThrowChip, PullStakeChip,
         ClearStake, OnlySeats, PlayerStep, Hit, Stand, NextHand, KickStep, KickSkipped,
         KickStands, KickDeferred, KickLeaves, NewRequest, SubmitStake, PrepareDoubleDown,
         RejectBet, RequestStep, MarkBetPending, ReleaseBet, FinishDoubleDown,
         ClearPendingDouble, DebitBet, TimerStep, BettingDeadlinePasses,
         ActionDeadlinePasses, AutoStandRemaining, StaleTaskEnds, DealerStep, DealerDraws,
         FinishDealerTurn, PersistStep, PersistSettlement, vars

(* What RoundStartsWhenReady says of a step. *)
DealtWhenReady ==
    round' # round =>
        /\ \A r \in Requests : ~BetPending(r)'
        /\ \/ betting_deadline = "due"
           \/ \A s \in Seats : Occupied(seats[s]) =>
                 seats'[s].user = seats[s].user /\ seats'[s].bet > 0

(* Every step deals only when the table is ready. *)
LEMMA ReadyStep ==
    ASSUME DebitInv, DebitInv', [Next]_vars PROVE DealtWhenReady
<1> SUFFICES ASSUME round' # round
             PROVE  /\ phase' # "Betting"
                    /\ \/ betting_deadline = "due"
                       \/ \A s \in Seats : Occupied(seats[s]) =>
                             seats'[s].user = seats[s].user /\ seats'[s].bet > 0
  BY DEF DealtWhenReady, DebitInv, PendingTracksDebit
<1>1. ASSUME NEW id, AutoDeal(id) PROVE phase' # "Betting" /\ betting_deadline = "due"
  BY <1>1, AutoDealSeats, DealPhase DEF AutoDeal
<1>2. ASSUME NEW r \in Requests, NEW s \in Seats, LockBet(r, s)
      PROVE  /\ phase' # "Betting"
             /\ \A t \in Seats : Occupied(seats[t]) =>
                   seats'[t].user = seats[t].user /\ seats'[t].bet > 0
  <2>1. PICK ss : /\ Dealable(ss) /\ HasBets(ss)
                  /\ \A t \in Seats : ss[t].user = seats[t].user
                  /\ AllSeatedBetsReady(ss) /\ StartRound(ss)
    BY <1>2, LockedSeats
  <2>2. ASSUME NEW t \in Seats, Occupied(seats[t])
        PROVE  seats'[t].user = seats[t].user /\ seats'[t].bet > 0
    <3>1. ss[t].bet > 0
      BY <2>1, <2>2 DEF AllSeatedBetsReady, Occupied
    <3> QED
      BY <2>1, <3>1, DealtSeats
  <2> QED
    BY <2>1, <2>2, DealPhase
<1> QED
  BY <1>1, <1>2, WhoDeals

(***************************************************************************)
(* A round starts when its betting window is over or everybody seated has  *)
(* locked a bet, and never while chips are debited for a bet of the round  *)
(* (place_bet's last critical section, the auto-deal task).                *)
(***************************************************************************)
THEOREM RoundsStartReady == Spec => RoundStartsWhenReady
<1>1. DebitInv /\ DebitInv' /\ [Next]_vars => [DealtWhenReady]_vars
  BY ReadyStep
<1> QED
  BY <1>1, DebitInvariance, PTL DEF Spec, RoundStartsWhenReady, DealtWhenReady

-------------------------------------------------------------------------------
(* A seat's reason to leave is set during a round only, and the settlement *)
(* empties the seat.                                                       *)
LeaveInv ==
    /\ TypeInv
    /\ phase \in {"Betting", "Settling"} =>
          \A s \in Seats : seats[s].deferred_leave_reason = "none"

(* The changes of a seat that keep its reason, or empty it. *)
LEMMA KeptReasons ==
    ASSUME NEW seat \in SeatType
    PROVE  /\ ReasonKept(EmptySeat, seat) /\ ReasonKept(seat, seat)
           /\ ReasonKept(FinishSeat(seat), seat)
           /\ ReasonKept(ClearRound(seat), seat)
           /\ ReasonKept(RecordActivity(seat), seat)
           /\ ReasonKept(RecordActivity(ClearRound(seat)), seat)
           /\ ReasonKept(MissDeal(seat), seat)
<1>1. FinishSeat(seat) \in SeatType /\ ClearRound(seat) \in SeatType
  BY FinishSeatType, ClearRoundType
<1>2. /\ ReasonKept(EmptySeat, seat) /\ ReasonKept(seat, seat)
      /\ ReasonKept(FinishSeat(seat), seat)
      /\ ReasonKept(ClearRound(seat), seat)
      /\ ReasonKept(RecordActivity(seat), seat)
  BY DEF ReasonKept, EmptySeat, FinishSeat, ClearRound, RecordActivity, SeatType
<1>3. ReasonKept(RecordActivity(ClearRound(seat)), seat)
  BY DEF ReasonKept, ClearRound, RecordActivity, SeatType
<1>4. MissDeal(seat) = EmptySeat
      \/ MissDeal(seat) = [seat EXCEPT !.missed_deals = seat.missed_deals + 1]
  BY DEF MissDeal
<1>5. ReasonKept(MissDeal(seat), seat)
  BY <1>2, <1>4 DEF ReasonKept, SeatType
<1> QED
  BY <1>2, <1>3, <1>5

(* The deal gives no seat a reason to leave. *)
LEMMA DealtReasons ==
    ASSUME NEW ss, Dealable(ss), StartRound(ss), NEW s \in Seats
    PROVE  ReasonKept(seats'[s], ss[s])
<1> DEFINE cleared == ClearedForDeal(ss)
           players == {x \in Seats : cleared[x].bet > 0}
           naturals(hands, d) ==
              {x \in players : hands[x] = "natural" /\ d # "natural"}
           outcome(hands, d) ==
              [x \in naturals(hands, d) |->
                  CHOOSE o \in SettleOutcomes(hands[x], d) : TRUE]
           dealt(hands) ==
              [x \in Seats |-> IF x \in players
                               THEN [cleared[x] EXCEPT !.hand = hands[x]]
                               ELSE cleared[x]]
           clean == [ss[s] EXCEPT !.stake = 0, !.hand = "none",
                                  !.stood = FALSE, !.resolved = FALSE]
<1>1. PICK hands \in [players -> DealtHands], d \in DealtDealerHands :
         seats' = Finished(dealt(hands), outcome(hands, d))
  BY DEF StartRound
<1>2. clean \in SeatType /\ ReasonKept(clean, ss[s])
  BY ZenonT(40), Zeros DEF Dealable, SeatsType, SeatType, PlayerHands, ReasonKept
<1>3. cleared[s] = (IF ss[s].bet > 0 THEN [clean EXCEPT !.missed_deals = 0]
                    ELSE IF Occupied(ss[s]) THEN MissDeal(clean) ELSE clean)
  BY DEF ClearedForDeal
<1>4. cleared[s] \in SeatType
  BY ClearedType DEF Dealable, SeatsType
<1> HIDE DEF clean, cleared
<1>5. ReasonKept([clean EXCEPT !.missed_deals = 0], ss[s])
  BY <1>2 DEF ReasonKept, SeatType
<1>6. ReasonKept(MissDeal(clean), ss[s])
  BY <1>2, KeptReasons DEF ReasonKept
<1>7. ReasonKept(cleared[s], ss[s])
  BY <1>2, <1>3, <1>5, <1>6
<1>8. dealt(hands)[s] \in SeatType /\ ReasonKept(dealt(hands)[s], ss[s])
  BY <1>4, <1>7 DEF ReasonKept, SeatType, DealtHands, PlayerHands, LiveHands
<1> HIDE DEF dealt
<1>9. seats'[s] \in {dealt(hands)[s], FinishSeat(dealt(hands)[s])}
  BY <1>1 DEF Finished
<1>10. ReasonKept(FinishSeat(dealt(hands)[s]), ss[s])
  BY <1>8, KeptReasons DEF ReasonKept
<1> QED
  BY <1>8, <1>9, <1>10

(* A step of the players that settles the table empties the seats. *)
LEMMA AdvanceReasons ==
    ASSUME NEW ss, AdvanceOrFinishRound(ss), phase' \in {"Betting", "Settling"},
           phase = "PlayerTurn"
    PROVE  \A s \in Seats : seats'[s].deferred_leave_reason = "none"
  BY DEF AdvanceOrFinishRound, BeginDealerTurn, RemoveDeferredLeaveSeats, EmptySeat

(* A step of one seat that keeps its reason. *)
LEMMA OneReason ==
    ASSUME LeaveInv, NEW s \in Seats, NEW seat, seats' = [seats EXCEPT ![s] = seat],
           phase' = phase, ReasonKept(seat, seats[s])
    PROVE  phase' \in {"Betting", "Settling"} =>
              \A t \in Seats : seats'[t].deferred_leave_reason = "none"
  BY DEF LeaveInv, TypeInv, TypeOK, ReasonKept

(* What LeaveInv asks of the state after a step. *)
NoReasons ==
    phase' \in {"Betting", "Settling"} =>
        \A s \in Seats : seats'[s].deferred_leave_reason = "none"

(* Steps at the seats. *)
LEMMA SeatStepReasons ==
    ASSUME LeaveInv, SeatStep PROVE NoReasons
<1>1. PICK u \in Users, s \in Seats :
         \/ Sit(u, s) \/ LeaveSeat(u, s) \/ TouchActivity(u, s)
         \/ \E chip \in ChipDenominations : ThrowChip(u, s, chip)
         \/ \E chip \in ChipDenominations : PullStakeChip(u, s, chip)
         \/ ClearStake(u, s)
  BY DEF SeatStep
<1>2. seats[s] \in SeatType /\ phase' = phase
  BY <1>1 DEF LeaveInv, TypeInv, TypeOK, Sit, LeaveSeat, TouchActivity, ThrowChip,
              PullStakeChip, ClearStake, OnlySeats
<1>3. CASE LeaveSeat(u, s) \/ TouchActivity(u, s)
  BY <1>2, <1>3, KeptReasons, OneReason DEF LeaveSeat, TouchActivity, NoReasons
<1>4. ASSUME NEW seat, seats' = [seats EXCEPT ![s] = RecordActivity(seat)],
             \/ seat = [seats[s] EXCEPT !.user = u]
             \/ \E k : seat = [seats[s] EXCEPT !.stake = k]
      PROVE  NoReasons
  <2>1. ReasonKept(RecordActivity(seat), seats[s])
    BY <1>2, <1>4 DEF ReasonKept, RecordActivity, SeatType
  <2> QED
    BY <1>2, <1>4, <2>1, OneReason DEF NoReasons
<1>5. CASE Sit(u, s)
  BY <1>4, <1>5 DEF Sit
<1>6. ASSUME NEW k,
             seats' = [seats EXCEPT ![s] = RecordActivity([seats[s] EXCEPT !.stake = k])]
      PROVE  NoReasons
  BY <1>4, <1>6
<1>7. ASSUME NEW chip \in ChipDenominations,
             ThrowChip(u, s, chip) \/ PullStakeChip(u, s, chip)
      PROVE  NoReasons
  BY <1>6, <1>7 DEF ThrowChip, PullStakeChip
<1>8. CASE ClearStake(u, s)
  BY <1>6, <1>8 DEF ClearStake
<1> QED
  BY <1>1, <1>3, <1>5, <1>7, <1>8

(* Steps of the players: who clears the table finds no reasons. *)
LEMMA PlayerStepReasons ==
    ASSUME LeaveInv, PlayerStep PROVE NoReasons
<1>1. ASSUME NEW u \in Users, NEW s \in Seats, Stand(u, s) PROVE NoReasons
  BY <1>1, AdvanceReasons DEF Stand, CanAct, NoReasons
<1>2. ASSUME NEW u \in Users, NEW s \in Seats, Hit(u, s) PROVE NoReasons
  <2>1. phase = "PlayerTurn" /\ (phase' = phase \/ \E ss : AdvanceOrFinishRound(ss))
    BY <1>2 DEF Hit, CanAct
  <2> QED
    BY <2>1, AdvanceReasons DEF NoReasons
<1>3. ASSUME NEW u \in Users, NextHand(u) PROVE NoReasons
  <2>1. ASSUME NEW s \in Seats PROVE seats'[s].deferred_leave_reason = "none"
    <3>1. seats[s] \in SeatType /\ seats[s].deferred_leave_reason = "none"
      BY <1>3 DEF NextHand, LeaveInv, TypeInv, TypeOK
    <3>2. seats'[s] \in {ClearRound(seats[s]), RecordActivity(ClearRound(seats[s]))}
      BY <1>3 DEF NextHand
    <3> QED
      BY <3>1, <3>2, KeptReasons DEF ReasonKept
  <2> QED
    BY <2>1 DEF NoReasons
<1> QED
  BY <1>1, <1>2, <1>3 DEF PlayerStep

(* The inactivity tasks give reasons during a round only. *)
LEMMA KickStepReasons ==
    ASSUME LeaveInv, KickStep PROVE NoReasons
<1>1. PICK u \in Users, s \in Seats :
         KickSkipped(u, s) \/ KickStands(u, s) \/ KickDeferred(u, s) \/ KickLeaves(u, s)
  BY DEF KickStep
<1>2. seats[s] \in SeatType
  BY DEF LeaveInv, TypeInv, TypeOK
<1>3. CASE KickSkipped(u, s)
  <2>1. ReasonKept([seats[s] EXCEPT !.armed = FALSE], seats[s])
    BY <1>2 DEF ReasonKept, SeatType
  <2> QED
    BY <1>3, <2>1, OneReason DEF KickSkipped, OnlySeats, NoReasons
<1>4. CASE KickStands(u, s)
  <2>1. phase = "PlayerTurn" /\ \E ss : AdvanceOrFinishRound(ss)
    BY <1>4 DEF KickStands
  <2> QED
    BY <2>1, AdvanceReasons DEF NoReasons
<1>5. CASE KickDeferred(u, s)
  BY <1>5 DEF KickDeferred, OnlySeats, NoReasons
<1>6. CASE KickLeaves(u, s)
  BY <1>2, <1>6, KeptReasons, OneReason DEF KickLeaves, OnlySeats, NoReasons
<1> QED
  BY <1>1, <1>3, <1>4, <1>5, <1>6

(* The critical sections of a request. *)
LEMMA RequestStepReasons ==
    ASSUME DebitInv, LeaveInv, NEW r \in Requests, RequestStep(r) PROVE NoReasons
<1>1. ASSUME NEW s \in Seats, NEW seat, seats' = [seats EXCEPT ![s] = seat],
             phase' = phase, ReasonKept(seat, seats[s])
      PROVE  NoReasons
  BY <1>1, OneReason DEF NoReasons
<1>2. ASSUME NEW s \in Seats, MarkBetPending(r, s) PROVE NoReasons
  <2> DEFINE seat == RecordActivity([seats[s] EXCEPT
                        !.pending_bet = request[r].amount, !.stake = 0])
  <2>1. ReasonKept(seat, seats[s])
    BY DEF ReasonKept, RecordActivity, LeaveInv, TypeInv, TypeOK, SeatType
  <2>2. seats' = [seats EXCEPT ![s] = seat] /\ phase' = phase
    BY <1>2 DEF MarkBetPending
  <2> HIDE DEF seat
  <2> QED
    BY <1>1, <2>1, <2>2
<1>3. ASSUME NEW s \in Seats, ReleaseBet(r, s) PROVE NoReasons
  <2>1. ReasonKept([seats[s] EXCEPT !.pending_bet = 0], seats[s])
    BY DEF ReasonKept, LeaveInv, TypeInv, TypeOK, SeatType
  <2> QED
    BY <1>1, <1>3, <2>1 DEF ReleaseBet
<1>4. ASSUME NEW s \in Seats, ClearPendingDouble(r, s) PROVE NoReasons
  <2>1. ReasonKept([seats[s] EXCEPT !.pending_double = FALSE], seats[s])
    BY DEF ReasonKept, LeaveInv, TypeInv, TypeOK, SeatType
  <2> QED
    BY <1>1, <1>4, <2>1 DEF ClearPendingDouble
<1>5. ASSUME NEW s \in Seats, FinishDoubleDown(r, s) PROVE NoReasons
  <2>1. phase = "PlayerTurn" /\ \E ss : AdvanceOrFinishRound(ss)
    BY <1>5 DEF FinishDoubleDown
  <2> QED
    BY <2>1, AdvanceReasons DEF NoReasons
<1>6. ASSUME NEW s \in Seats, LockBet(r, s) PROVE NoReasons
  <2>1. PICK ss : /\ Dealable(ss) /\ phase = "Betting"
                  /\ \A t \in Seats : ReasonKept(ss[t], seats[t])
                  /\ StartRound(ss) \/ seats' = ss
    BY <1>6, LockedSeats
  <2>2. \A t \in Seats : ReasonKept(seats'[t], ss[t])
    BY <2>1, DealtReasons DEF ReasonKept
  <2> QED
    BY <2>1, <2>2 DEF ReasonKept, NoReasons, LeaveInv
<1> QED
  BY <1>2, <1>3, <1>4, <1>5, <1>6 DEF RequestStep

(* The timer tasks. *)
LEMMA TimerStepReasons ==
    ASSUME DebitInv, LeaveInv, TimerStep PROVE NoReasons
<1>1. CASE BettingDeadlinePasses \/ ActionDeadlinePasses \/ StaleTaskEnds
  BY <1>1 DEF BettingDeadlinePasses, ActionDeadlinePasses, StaleTaskEnds, LeaveInv, NoReasons
<1>2. ASSUME NEW id, AutoDeal(id) PROVE NoReasons
  BY <1>2, AutoDealSeats, DealtReasons DEF ReasonKept, NoReasons, LeaveInv
<1>3. ASSUME NEW id, AutoStandRemaining(id) PROVE NoReasons
  <2>1. phase = "PlayerTurn" /\ \E ss : AdvanceOrFinishRound(ss)
    BY <1>3 DEF AutoStandRemaining, ActionCountdownMatches
  <2> QED
    BY <2>1, AdvanceReasons DEF NoReasons
<1> QED
  BY <1>1, <1>2, <1>3 DEF TimerStep

(* The settlement of the round empties the seats. *)
LEMMA DealerStepReasons ==
    ASSUME LeaveInv, DealerStep PROVE NoReasons
<1>1. ASSUME NEW id, DealerDraws(id) PROVE NoReasons
  BY <1>1 DEF DealerDraws, NoReasons
<1>2. ASSUME NEW id, FinishDealerTurn(id) PROVE NoReasons
  <2>1. \E ss : seats' = RemoveDeferredLeaveSeats(ss, "Settling")
    BY <1>2 DEF FinishDealerTurn
  <2> QED
    BY <2>1 DEF RemoveDeferredLeaveSeats, EmptySeat, NoReasons
<1> QED
  BY <1>1, <1>2 DEF DealerStep

(* Every step. *)
LEMMA NextReasons ==
    ASSUME DebitInv, LeaveInv, [Next]_vars PROVE NoReasons
<1>1. ASSUME NEW r \in Requests, NewRequest(r) \/ RejectBet(r) \/ DebitBet(r)
      PROVE  NoReasons
  <2>1. CASE UNCHANGED <<phase, seats>>
    BY <2>1 DEF LeaveInv, NoReasons
  <2>2. ASSUME NEW u \in Users, NEW s \in Seats, PrepareDoubleDown(r, u, s) PROVE NoReasons
    BY <2>2 DEF PrepareDoubleDown, CanAct, NoReasons
  <2> QED
    BY <1>1, <2>1, <2>2 DEF NewRequest, SubmitStake, RejectBet, DebitBet
<1>2. CASE PersistStep \/ UNCHANGED vars
  BY <1>2 DEF PersistStep, PersistSettlement, vars, LeaveInv, NoReasons
<1> QED
  BY <1>1, <1>2, SeatStepReasons, PlayerStepReasons, KickStepReasons, RequestStepReasons,
     TimerStepReasons, DealerStepReasons DEF Next

(***************************************************************************)
(* A seat that was told to leave is gone before the next hand, whichever   *)
(* task settled the round (remove_deferred_leave_seats).                   *)
(***************************************************************************)
THEOREM LeavesHonoured == Spec => []DeferredLeavesHonoured
<1>1. Init => LeaveInv
  <2>1. Init => TypeInv
    BY InitType
  <2> QED
    BY <2>1 DEF Init, LeaveInv, EmptySeat
<1>2. DebitInv /\ DebitInv' /\ LeaveInv /\ [Next]_vars => LeaveInv'
  BY NextReasons DEF LeaveInv, NoReasons, DebitInv
<1>3. LeaveInv => DeferredLeavesHonoured
  BY DEF LeaveInv, DeferredLeavesHonoured
<1> QED
  BY <1>1, <1>2, <1>3, DebitInvariance, PTL DEF Spec

(***************************************************************************)
(* No chip is lost at the blackjack table, and it keeps the promises of a  *)
(* chip table, for any number of users, seats, requests and rounds.        *)
(*                                                                         *)
(* What is taken from a user and what is at risk are sums, of which the    *)
(* invariants of the parts before leave one term: nobody sits twice or has *)
(* two debits at once.  What is owed to a user grows with the rounds; the  *)
(* settlements are a set, so it must be known that no two of them are the  *)
(* same: who has a bet at risk has no settlement of that round yet.        *)
(***************************************************************************)

(* The chips that the requests rq have taken from u, that u has at risk at *)
(* the seats ss, and that the settlements U still owe u.                   *)
TakenOf(rq, u) ==
    SumFunctionOnSet([r \in Requests |-> rq[r].amount],
        {r \in Requests : /\ rq[r].pc \in {"bet taken", "double taken"}
                          /\ rq[r].user = u})
RiskOf(ss, u) ==
    SumFunctionOnSet([s \in Seats |-> ss[s].bet],
        {s \in Seats : ss[s].user = u /\ HasUnresolvedBet(ss[s])})
Mine(U, u) == {x \in U : x.user = u}
OwedOf(U, u) == SumFunctionOnSet([x \in U |-> x.credit], Mine(U, u))
CountOf(U, u) == Cardinality(Mine(U, u))

-------------------------------------------------------------------------------
(* One seat, or none, has chips of u at risk. *)
LEMMA RiskOne ==
    ASSUME NEW ss, NEW u, NEW s \in Seats, ss[s].bet \in Int,
           ss[s].user = u, HasUnresolvedBet(ss[s]),
           \A t \in Seats : ss[t].user = u => t = s
    PROVE  RiskOf(ss, u) = ss[s].bet
<1> DEFINE f == [t \in Seats |-> ss[t].bet]
<1>1. {t \in Seats : ss[t].user = u /\ HasUnresolvedBet(ss[t])} = {s}
  OBVIOUS
<1>2. f[s] = ss[s].bet
  OBVIOUS
<1>3. SumFunctionOnSet(f, {s}) = f[s]
  <2> HIDE DEF f
  <2> QED
    BY <1>2, SumOfOne
<1> QED
  BY <1>1, <1>2, <1>3 DEF RiskOf

LEMMA RiskNone ==
    ASSUME NEW ss, NEW u,
           \A t \in Seats : ss[t].user = u => ~HasUnresolvedBet(ss[t])
    PROVE  RiskOf(ss, u) = 0
<1>1. {t \in Seats : ss[t].user = u /\ HasUnresolvedBet(ss[t])} = {}
  OBVIOUS
<1> QED
  BY <1>1, SumEmpty DEF RiskOf

(* So with the requests. *)
Holding(q, u) == q.pc \in {"bet taken", "double taken"} /\ q.user = u

LEMMA TakenOne ==
    ASSUME NEW rq, NEW u, NEW r \in Requests, rq[r].amount \in Nat, Holding(rq[r], u),
           \A q \in Requests : Holding(rq[q], u) => q = r
    PROVE  TakenOf(rq, u) = rq[r].amount
<1> DEFINE f == [q \in Requests |-> rq[q].amount]
<1>1. {q \in Requests : /\ rq[q].pc \in {"bet taken", "double taken"}
                        /\ rq[q].user = u} = {r}
  BY DEF Holding
<1>2. f[r] = rq[r].amount /\ f[r] \in Int
  OBVIOUS
<1>3. SumFunctionOnSet(f, {r}) = f[r]
  <2> HIDE DEF f
  <2> QED
    BY <1>2, SumOfOne
<1> QED
  BY <1>1, <1>2, <1>3 DEF TakenOf

LEMMA TakenNone ==
    ASSUME NEW rq, NEW u, \A q \in Requests : ~Holding(rq[q], u)
    PROVE  TakenOf(rq, u) = 0
<1>1. {q \in Requests : /\ rq[q].pc \in {"bet taken", "double taken"}
                        /\ rq[q].user = u} = {}
  BY DEF Holding
<1> QED
  BY <1>1, SumEmpty DEF TakenOf

(* What is owed grows by a new settlement, and shrinks by a written one. *)
LEMMA OwedAdd ==
    ASSUME NEW U, IsFiniteSet(U), \A x \in U : x.credit \in Int,
           NEW y \in U, NEW u, y.user = u
    PROVE  /\ OwedOf(U, u) = OwedOf(U \ {y}, u) + y.credit
           /\ OwedOf(U \ {y}, u) \in Int
           /\ CountOf(U, u) = CountOf(U \ {y}, u) + 1
           /\ CountOf(U \ {y}, u) \in Nat
<1> DEFINE V == Mine(U, u)
           W == Mine(U \ {y}, u)
           f == [x \in U |-> x.credit]
           g == [x \in U \ {y} |-> x.credit]
<1>1. W = V \ {y} /\ y \in V /\ V \in SUBSET U
  BY DEF Mine
<1>2. IsFiniteSet(V) /\ IsFiniteSet(W)
  BY <1>1, FS_Subset
<1>3. (\A x \in V : f[x] \in Int) /\ f[y] = y.credit
      /\ \A x \in W : f[x] \in Int /\ g[x] = f[x]
  BY DEF Mine
<1>4. OwedOf(U, u) = SumFunctionOnSet(f, V) /\ OwedOf(U \ {y}, u) = SumFunctionOnSet(g, W)
  BY DEF OwedOf
<1>5. CountOf(U, u) = Cardinality(V) /\ CountOf(U \ {y}, u) = Cardinality(W)
  BY DEF CountOf
<1> HIDE DEF V, W, f, g
<1>6. SumFunctionOnSet(f, V) = f[y] + SumFunctionOnSet(f, W)
  BY <1>1, <1>2, <1>3, SumRemove
<1>7. SumFunctionOnSet(f, W) = SumFunctionOnSet(g, W) /\ SumFunctionOnSet(f, W) \in Int
  BY <1>2, <1>3, SumSame, SumInt
<1>8. Cardinality(V) = Cardinality(W) + 1 /\ Cardinality(W) \in Nat
  BY <1>1, <1>2, FS_RemoveElement, FS_CardinalityType
<1> QED
  BY <1>3, <1>4, <1>5, <1>6, <1>7, <1>8

(* The settlements of others do not matter. *)
LEMMA OwedSame ==
    ASSUME NEW U, IsFiniteSet(U), \A x \in U : x.credit \in Int, NEW T, NEW u,
           Mine(T, u) = Mine(U, u)
    PROVE  OwedOf(T, u) = OwedOf(U, u) /\ CountOf(T, u) = CountOf(U, u)
<1> DEFINE V == Mine(U, u)
           f == [x \in U |-> x.credit]
           g == [x \in T |-> x.credit]
<1>1. V \in SUBSET U /\ \A x \in V : f[x] \in Int /\ g[x] = f[x]
  BY DEF Mine
<1>2. OwedOf(U, u) = SumFunctionOnSet(f, V) /\ OwedOf(T, u) = SumFunctionOnSet(g, V)
  BY DEF OwedOf
<1>3. CountOf(T, u) = CountOf(U, u)
  BY DEF CountOf
<1> HIDE DEF V, f, g
<1>4. IsFiniteSet(V)
  BY <1>1, FS_Subset
<1> QED
  BY <1>1, <1>2, <1>3, <1>4, SumSame

LEMMA OwedNew ==
    ASSUME NEW U, IsFiniteSet(U), \A x \in U : x.credit \in Int,
           NEW T, IsFiniteSet(T), \A x \in T : x.credit \in Int,
           NEW y \in T, NEW u, y.user = u,
           Mine(T \ {y}, u) = Mine(U, u)
    PROVE  OwedOf(T, u) = OwedOf(U, u) + y.credit /\ CountOf(T, u) = CountOf(U, u) + 1
<1>1. /\ OwedOf(T, u) = OwedOf(T \ {y}, u) + y.credit
      /\ CountOf(T, u) = CountOf(T \ {y}, u) + 1
  BY OwedAdd
<1>3. OwedOf(T \ {y}, u) = OwedOf(U, u) /\ CountOf(T \ {y}, u) = CountOf(U, u)
  BY OwedSame
<1> QED
  BY <1>1, <1>3

LEMMA OwedNat ==
    ASSUME NEW U, IsFiniteSet(U), \A x \in U : x.credit \in Nat, NEW u
    PROVE  OwedOf(U, u) \in Nat /\ CountOf(U, u) \in Nat
<1> DEFINE V == Mine(U, u)
           f == [x \in U |-> x.credit]
<1>1. V \in SUBSET U /\ \A x \in V : f[x] \in Nat
  BY DEF Mine
<1>2. OwedOf(U, u) = SumFunctionOnSet(f, V) /\ CountOf(U, u) = Cardinality(V)
  BY DEF OwedOf, CountOf
<1> HIDE DEF V, f
<1>3. IsFiniteSet(V)
  BY <1>1, FS_Subset
<1> QED
  BY <1>1, <1>2, <1>3, SumNat, FS_CardinalityType

-------------------------------------------------------------------------------
(* A settlement returns at most three to two on top of the bet. *)
LEMMA PayoutBounds ==
    ASSUME NEW bet \in Nat, NEW o \in Outcomes
    PROVE  PayoutCredit(bet, o) \in Nat /\ 2 * PayoutCredit(bet, o) <= 5 * bet
<1>1. bet \div 2 \in Nat /\ 2 * (bet \div 2) <= bet
  OBVIOUS
<1>2. PayoutCredit(bet, o) \in {0, bet, bet * 2, bet * 2 + bet \div 2}
  BY DEF PayoutCredit, Outcomes
<1> DEFINE half == bet \div 2
<1> HIDE DEF half
<1>3. half \in Nat /\ 2 * half <= bet /\ PayoutCredit(bet, o) \in {0, bet, bet * 2, bet * 2 + half}
  BY <1>1, <1>2 DEF half
<1> QED
  BY <1>3

LEMMA SeatsFinite == IsFiniteSet(Seats)
  BY FS_Interval, BlackjackAssumption DEF Seats

(***************************************************************************)
(* What is known when the seats D of ss are settled: each has a user of    *)
(* its own, of whom no settlement of round r is waiting.                   *)
(***************************************************************************)
UnpaidOK == IsFiniteSet(unpaid) /\ unpaid \subseteq [user : Users, round : Nat, credit : Nat]

Settles(ss, D, outcome, r) ==
    /\ ss \in SeatsType /\ D \in SUBSET Seats /\ outcome \in [D -> Outcomes] /\ r \in Nat
    /\ \A s \in D : ss[s].user \in Users
    /\ \A s \in D, t \in Seats : ss[t].user = ss[s].user => t = s
    /\ \A s \in D, x \in unpaid : x.user = ss[s].user => x.round # r
    /\ Settle(ss, outcome, r)

SettlementOf(ss, outcome, r, s) ==
    [user |-> ss[s].user, round |-> r, credit |-> PayoutCredit(ss[s].bet, outcome[s])]

(* The settlements stay finitely many, and their credits numbers. *)
LEMMA SettlesUnpaid ==
    ASSUME UnpaidOK, NEW ss, NEW D, NEW outcome, NEW r, Settles(ss, D, outcome, r)
    PROVE  /\ unpaid' = unpaid \cup {SettlementOf(ss, outcome, r, s) : s \in D}
           /\ IsFiniteSet(unpaid') /\ IsFiniteSet(unpaid)
           /\ \A x \in unpaid' : x.credit \in Int
           /\ \A x \in unpaid : x.credit \in Int
<1> DEFINE new == {SettlementOf(ss, outcome, r, s) : s \in D}
<1>1. unpaid' = unpaid \cup new
  BY DEF Settles, Settle, SettlementOf
<1>2. IsFiniteSet(new)
  <2>1. IsFiniteSet(D)
    BY SeatsFinite, FS_Subset DEF Settles
  <2> DEFINE f == [s \in D |-> SettlementOf(ss, outcome, r, s)]
  <2>2. f \in Surjection(D, new)
    BY DEF Surjection
  <2> HIDE DEF f, new
  <2> QED
    BY <2>1, <2>2, FS_Surjection
<1>3. \A s \in D : PayoutCredit(ss[s].bet, outcome[s]) \in Nat
  <2>1. \A s \in D : ss[s].bet \in Nat /\ outcome[s] \in Outcomes
    BY BlackjackAssumption DEF Settles, SeatsType, SeatType
  <2> QED
    BY <2>1, PayoutBounds
<1>4. \A x \in new : x.credit \in Nat
  BY <1>3 DEF SettlementOf
<1>5. \A x \in unpaid : x.credit \in Nat
  BY DEF UnpaidOK
<1>6. IsFiniteSet(unpaid')
  <2> HIDE DEF new
  <2> QED
    BY <1>1, <1>2, FS_Union DEF UnpaidOK
<1> QED
  BY <1>1, <1>4, <1>5, <1>6 DEF UnpaidOK

(* A user who is not settled has the account left alone. *)
LEMMA SettlesNot ==
    ASSUME UnpaidOK, net \in [Users -> Int], NEW ss, NEW D, NEW outcome, NEW r,
           Settles(ss, D, outcome, r),
           NEW u \in Users, \A s \in D : ss[s].user # u
    PROVE  /\ OwedOf(unpaid', u) = OwedOf(unpaid, u)
           /\ CountOf(unpaid', u) = CountOf(unpaid, u)
           /\ net'[u] = net[u]
<1>1. Mine(unpaid', u) = Mine(unpaid, u)
  BY SettlesUnpaid DEF Mine, SettlementOf
<1>2. IsFiniteSet(unpaid) /\ \A x \in unpaid : x.credit \in Int
  BY SettlesUnpaid
<1>3. OwedOf(unpaid', u) = OwedOf(unpaid, u) /\ CountOf(unpaid', u) = CountOf(unpaid, u)
  BY <1>1, <1>2, OwedSame
<1>4. NetChange(ss, outcome, u) = 0
  BY DEF NetChange, Settles
<1>5. net'[u] = net[u] + NetChange(ss, outcome, u)
  BY DEF Settles, Settle
<1>6. net'[u] = net[u]
  BY <1>4, <1>5
<1> QED
  BY <1>3, <1>6

(* A user who is settled is owed one settlement more. *)
LEMMA SettlesOne ==
    ASSUME UnpaidOK, NEW ss, NEW D, NEW outcome, NEW r,
           Settles(ss, D, outcome, r),
           NEW s \in D, NEW u, u = ss[s].user
    PROVE  /\ OwedOf(unpaid', u) =
                  OwedOf(unpaid, u) + PayoutCredit(ss[s].bet, outcome[s])
           /\ CountOf(unpaid', u) = CountOf(unpaid, u) + 1
           /\ net'[u] = net[u] + (PayoutCredit(ss[s].bet, outcome[s]) - ss[s].bet)
           /\ SettlementOf(ss, outcome, r, s) \in unpaid' \ unpaid
<1>1. \A t \in D : ss[t].user = u => t = s
  BY DEF Settles
<1>2. /\ unpaid' = unpaid \cup {SettlementOf(ss, outcome, r, t) : t \in D}
      /\ IsFiniteSet(unpaid') /\ IsFiniteSet(unpaid)
      /\ \A x \in unpaid' : x.credit \in Int
      /\ \A x \in unpaid : x.credit \in Int
  BY SettlesUnpaid
<1>3. PICK y \in unpaid' : y = SettlementOf(ss, outcome, r, s)
  BY <1>2
<1>4. /\ y \notin unpaid /\ y.user = u
      /\ y.credit = PayoutCredit(ss[s].bet, outcome[s])
  BY <1>3 DEF SettlementOf, Settles
<1>5. Mine(unpaid' \ {y}, u) = Mine(unpaid, u)
  BY <1>1, <1>2, <1>3, <1>4 DEF Mine, SettlementOf
<1>6. OwedOf(unpaid', u) = OwedOf(unpaid, u) + y.credit
      /\ CountOf(unpaid', u) = CountOf(unpaid, u) + 1
  <2>1. /\ IsFiniteSet(unpaid') /\ IsFiniteSet(unpaid)
        /\ \A x \in unpaid' : x.credit \in Int
        /\ \A x \in unpaid : x.credit \in Int
    BY <1>2
  <2> QED
    BY <1>4, <1>5, <2>1, OwedNew
<1>7. net'[u] = net[u] + (PayoutCredit(ss[s].bet, outcome[s]) - ss[s].bet)
  <2>1. {t \in DOMAIN outcome : ss[t].user = u} = {s}
    BY <1>1 DEF Settles
  <2>2. NetChange(ss, outcome, u) = PayoutCredit(ss[s].bet, outcome[s]) - ss[s].bet
    BY <2>1 DEF NetChange
  <2> QED
    BY <2>2 DEF Settles, Settle
<1> QED
  BY <1>3, <1>4, <1>6, <1>7

-------------------------------------------------------------------------------
(* The seats ss and the requests rq hold chips of u: handed over, or at risk. *)
StakeOf(rq, ss, u) == TakenOf(rq, u) + RiskOf(ss, u)

(* A seat, and a request, whose chips stay what they were. *)
RiskKept(new, old) ==
    /\ HasUnresolvedBet(new) <=> HasUnresolvedBet(old)
    /\ HasUnresolvedBet(old) => new.user = old.user /\ new.bet = old.bet

TakenStages == {"bet taken", "double taken"}
TakenKept(new, old) ==
    /\ new.pc \in TakenStages <=> old.pc \in TakenStages
    /\ old.pc \in TakenStages => new.user = old.user /\ new.amount = old.amount

LEMMA RiskSame ==
    ASSUME NEW ss \in SeatsType, NEW tt \in SeatsType, NEW u,
           \A s \in Seats : ss[s].user = u \/ tt[s].user = u => RiskKept(tt[s], ss[s])
    PROVE  RiskOf(tt, u) = RiskOf(ss, u)
<1> DEFINE S == {s \in Seats : ss[s].user = u /\ HasUnresolvedBet(ss[s])}
           f == [s \in Seats |-> ss[s].bet]
           g == [s \in Seats |-> tt[s].bet]
<1>1. S = {s \in Seats : tt[s].user = u /\ HasUnresolvedBet(tt[s])}
  BY DEF RiskKept
<1>2. RiskOf(ss, u) = SumFunctionOnSet(f, S) /\ RiskOf(tt, u) = SumFunctionOnSet(g, S)
  BY <1>1 DEF RiskOf
<1>3. S \in SUBSET Seats
  OBVIOUS
<1>4. \A s \in S : f[s] \in Int /\ g[s] = f[s]
  BY BlackjackAssumption DEF RiskKept, SeatsType, SeatType
<1> HIDE DEF S, f, g
<1>5. IsFiniteSet(S)
  BY <1>3, SeatsFinite, FS_Subset
<1> QED
  BY <1>2, <1>4, <1>5, SumSame

(* A user has at most one request that holds chips. *)
OneTaken(rq) ==
    /\ \A r \in Requests : rq[r].pc \in TakenStages => rq[r].amount \in Nat
    /\ \A q, r \in Requests :
          /\ rq[q].pc \in TakenStages /\ rq[r].pc \in TakenStages
          /\ rq[q].user = rq[r].user
          => q = r

LEMMA TakenNat ==
    ASSUME NEW rq, OneTaken(rq), NEW u
    PROVE  TakenOf(rq, u) \in Nat
<1>1. CASE \A r \in Requests : ~Holding(rq[r], u)
  BY <1>1, TakenNone
<1>2. ASSUME NEW r \in Requests, Holding(rq[r], u) PROVE TakenOf(rq, u) \in Nat
  <2>1. rq[r].amount \in Nat /\ \A q \in Requests : Holding(rq[q], u) => q = r
    BY <1>2 DEF OneTaken, Holding, TakenStages
  <2>2. TakenOf(rq, u) = rq[r].amount
    BY <1>2, <2>1, TakenOne
  <2> QED
    BY <2>1, <2>2
<1> QED
  BY <1>1, <1>2

LEMMA TakenSame ==
    ASSUME NEW rq, OneTaken(rq), NEW rp, NEW u,
           \A r \in Requests : rq[r].user = u \/ rp[r].user = u => TakenKept(rp[r], rq[r])
    PROVE  TakenOf(rp, u) = TakenOf(rq, u)
<1>1. \A r \in Requests : Holding(rp[r], u) <=> Holding(rq[r], u)
  BY DEF Holding, TakenKept, TakenStages
<1>2. CASE \A r \in Requests : ~Holding(rq[r], u)
  BY <1>1, <1>2, TakenNone
<1>3. ASSUME NEW r \in Requests, Holding(rq[r], u)
      PROVE  TakenOf(rp, u) = TakenOf(rq, u)
  <2>1. rq[r].amount \in Nat /\ \A q \in Requests : Holding(rq[q], u) => q = r
    BY <1>3 DEF OneTaken, Holding, TakenStages
  <2>2. TakenOf(rq, u) = rq[r].amount
    BY <1>3, <2>1, TakenOne
  <2>3. Holding(rp[r], u) /\ \A q \in Requests : Holding(rp[q], u) => q = r
    BY <1>1, <1>3, <2>1
  <2>4. rp[r].amount = rq[r].amount
    BY <1>3 DEF Holding, TakenKept, TakenStages
  <2>5. TakenOf(rp, u) = rp[r].amount
    BY <2>1, <2>3, <2>4, TakenOne
  <2> QED
    BY <2>2, <2>4, <2>5
<1> QED
  BY <1>2, <1>3

LEMMA RequestTaken ==
    ASSUME DebitInv PROVE OneTaken(request)
<1>1. \A r \in Requests : request[r].pc \in TakenStages => Pending(r)
  BY DEF TakenStages, Pending, BetPending, DoublePending, BetStages, DoubleStages
<1>2. ASSUME NEW r \in Requests, request[r].pc \in TakenStages
      PROVE  request[r].amount \in Nat
  <2>1. request[r].amount \in 1 .. MaxBet
    BY <1>2, RequestAtWork DEF DebitInv, TakenStages
  <2> QED
    BY <2>1, BlackjackAssumption
<1> QED
  BY <1>1, <1>2 DEF OneTaken, DebitInv, PendingTracksDebit, Pending

LEMMA RequestTakenNext ==
    ASSUME DebitInv' PROVE OneTaken(request')
<1>1. \A r \in Requests : request'[r].pc \in TakenStages => Pending(r)'
  BY DEF TakenStages, Pending, BetPending, DoublePending, BetStages, DoubleStages
<1>2. ASSUME NEW r \in Requests, request'[r].pc \in TakenStages
      PROVE  request'[r].amount \in Nat
  <2>1. request'[r] \in RequestType /\ request'[r].pc # "idle"
    BY <1>2 DEF DebitInv, TypeInv, TypeOK, TakenStages
  <2>2. request'[r].amount \in 1 .. MaxBet
    BY <2>1 DEF RequestType, NoRequest
  <2> QED
    BY <2>2, BlackjackAssumption
<1> QED
  BY <1>1, <1>2 DEF OneTaken, DebitInv, PendingTracksDebit, Pending

(***************************************************************************)
(* What a step does to the chips of u: nothing, or it settles the stake b  *)
(* for the credit c.                                                       *)
(***************************************************************************)
AccountKept(u) ==
    /\ StakeOf(request', seats', u) = StakeOf(request, seats, u)
    /\ OwedOf(unpaid', u) = OwedOf(unpaid, u)
    /\ CountOf(unpaid', u) = CountOf(unpaid, u)
    /\ net'[u] = net[u]

AccountSettled(u) ==
    \E b \in Nat \ {0}, c \in Nat :
        /\ 2 * c <= 5 * b
        /\ StakeOf(request', seats', u) = StakeOf(request, seats, u) - b
        /\ OwedOf(unpaid', u) = OwedOf(unpaid, u) + c
        /\ CountOf(unpaid', u) = CountOf(unpaid, u) + 1
        /\ net'[u] = net[u] + (c - b)

TableSettles == UNCHANGED bank /\ \A u \in Users : AccountKept(u) \/ AccountSettled(u)

(***************************************************************************)
(* SettledOnce: a settlement is of a round that was dealt, and the user of *)
(* a settlement of the current hand has no bet at risk in it any more.     *)
(* OpenWhileBetting: a bet that is locked is at risk.                      *)
(***************************************************************************)
SettledOnce ==
    \A x \in unpaid :
        /\ x.round <= round
        /\ x.round = round /\ phase # "Betting" =>
              \A s \in Seats : seats[s].user = x.user => ~HasUnresolvedBet(seats[s])

OpenWhileBetting == phase = "Betting" => \A s \in Seats : ~seats[s].resolved

ChipInv == TableInv /\ IsFiniteSet(unpaid) /\ SettledOnce /\ OpenWhileBetting

LEMMA ChipTypes ==
    ASSUME ChipInv
    PROVE  /\ UnpaidOK /\ seats \in SeatsType /\ round \in Nat
           /\ net \in [Users -> Int] /\ bank \in [Users -> Nat]
           /\ request \in [Requests -> RequestType]
  BY DEF ChipInv, TableInv, DebitInv, TypeInv, TypeOK, UnpaidOK, SeatsType

(* The settled seats are at risk no more, and the others as before. *)
SettledSeats(ss, D) ==
    /\ \A s \in D : HasUnresolvedBet(ss[s]) /\ ~HasUnresolvedBet(seats'[s])
    /\ \A s \in Seats \ D : RiskKept(seats'[s], ss[s])

LEMMA SettlesRisk ==
    ASSUME NEW ss \in SeatsType, seats' \in SeatsType, NEW D \in SUBSET Seats,
           SettledSeats(ss, D), NEW u,
           \A s \in D, t \in Seats : ss[t].user = ss[s].user => t = s
    PROVE  /\ (\A s \in D : ss[s].user # u) => RiskOf(seats', u) = RiskOf(ss, u)
           /\ \A s \in D : ss[s].user = u =>
                 /\ RiskOf(ss, u) = ss[s].bet
                 /\ RiskOf(seats', u) = 0
                 /\ \A t \in Seats : seats'[t].user = u => ~HasUnresolvedBet(seats'[t])
<1>1. ASSUME \A s \in D : ss[s].user # u PROVE RiskOf(seats', u) = RiskOf(ss, u)
  <2> DEFINE S == {s \in Seats : ss[s].user = u /\ HasUnresolvedBet(ss[s])}
             f == [s \in Seats |-> ss[s].bet]
             g == [s \in Seats |-> seats'[s].bet]
  <2>1. S = {s \in Seats : seats'[s].user = u /\ HasUnresolvedBet(seats'[s])}
    BY <1>1 DEF RiskKept, SettledSeats
  <2>2. RiskOf(ss, u) = SumFunctionOnSet(f, S) /\ RiskOf(seats', u) = SumFunctionOnSet(g, S)
    BY <2>1 DEF RiskOf
  <2>3. S \in SUBSET Seats
    OBVIOUS
  <2>4. \A s \in S : f[s] \in Int /\ g[s] = f[s]
    BY <1>1, BlackjackAssumption DEF RiskKept, SettledSeats, SeatsType, SeatType
  <2> HIDE DEF S, f, g
  <2>5. IsFiniteSet(S)
    BY <2>3, SeatsFinite, FS_Subset
  <2> QED
    BY <2>2, <2>4, <2>5, SumSame
<1>2. ASSUME NEW s \in D, ss[s].user = u
      PROVE  /\ RiskOf(ss, u) = ss[s].bet
             /\ RiskOf(seats', u) = 0
             /\ \A t \in Seats : seats'[t].user = u => ~HasUnresolvedBet(seats'[t])
  <2>1. \A t \in Seats : ss[t].user = u => t = s
    BY <1>2
  <2>2. \A t \in Seats : seats'[t].user = u => ~HasUnresolvedBet(seats'[t])
    BY <2>1 DEF SettledSeats, RiskKept
  <2>3. ss[s].bet \in Int /\ HasUnresolvedBet(ss[s]) /\ s \in Seats
    BY BlackjackAssumption DEF SettledSeats, SeatsType, SeatType
  <2> QED
    BY <1>2, <2>1, <2>2, <2>3, RiskOne, RiskNone
<1> QED
  BY <1>1, <1>2

(***************************************************************************)
(* A step that settles the seats D settles the stakes of their users.      *)
(***************************************************************************)
LEMMA SettlesStep ==
    ASSUME ChipInv, seats' \in SeatsType, OneTaken(request'),
           NEW ss, NEW D, NEW outcome, NEW r, Settles(ss, D, outcome, r),
           SettledSeats(ss, D),
           \A u \in Users : StakeOf(request', ss, u) = StakeOf(request, seats, u)
    PROVE  TableSettles
<1>1. UNCHANGED bank
  BY DEF Settles, Settle
<1> SUFFICES ASSUME NEW u \in Users PROVE AccountKept(u) \/ AccountSettled(u)
  BY <1>1 DEF TableSettles
<1>2. /\ ss \in SeatsType /\ D \in SUBSET Seats
      /\ \A s \in D, t \in Seats : ss[t].user = ss[s].user => t = s
  BY DEF Settles
<1>3. CASE \A s \in D : ss[s].user # u
  <2>1. RiskOf(seats', u) = RiskOf(ss, u)
    BY <1>2, <1>3, SettlesRisk
  <2>2. /\ OwedOf(unpaid', u) = OwedOf(unpaid, u)
        /\ CountOf(unpaid', u) = CountOf(unpaid, u)
        /\ net'[u] = net[u]
    BY <1>3, ChipTypes, SettlesNot
  <2>3. StakeOf(request', seats', u) = StakeOf(request, seats, u)
    BY <2>1 DEF StakeOf
  <2> QED
    BY <2>2, <2>3 DEF AccountKept
<1>4. ASSUME NEW s \in D, ss[s].user = u PROVE AccountSettled(u)
  <2>1. RiskOf(ss, u) = ss[s].bet /\ RiskOf(seats', u) = 0
    BY <1>2, <1>4, SettlesRisk
  <2> DEFINE b == ss[s].bet
             c == PayoutCredit(ss[s].bet, outcome[s])
  <2>2. b \in Nat \ {0} /\ outcome[s] \in Outcomes
    BY BlackjackAssumption DEF Settles, SettledSeats, HasUnresolvedBet, SeatsType, SeatType
  <2>3. c \in Nat /\ 2 * c <= 5 * b
    BY <2>2, PayoutBounds
  <2>4. /\ OwedOf(unpaid', u) = OwedOf(unpaid, u) + c
        /\ CountOf(unpaid', u) = CountOf(unpaid, u) + 1
        /\ net'[u] = net[u] + (c - b)
    BY <1>4, ChipTypes, SettlesOne
  <2>5. StakeOf(request', ss, u) = StakeOf(request, seats, u)
    OBVIOUS
  <2>6. TakenOf(request', u) \in Int
    BY TakenNat
  <2>7. StakeOf(request', seats', u) = StakeOf(request, seats, u) - b
    BY <2>1, <2>2, <2>5, <2>6 DEF StakeOf
  <2> HIDE DEF b, c
  <2> QED
    BY <2>2, <2>3, <2>4, <2>7 DEF AccountSettled
<1> QED
  BY <1>3, <1>4

-------------------------------------------------------------------------------
(* No bet at risk leaves the table unsettled (the action of BetsStayInPlay). *)
BetsHeld ==
    \A s \in Seats : HasUnresolvedBet(seats[s]) =>
        \/ /\ seats'[s].user = seats[s].user
           /\ seats'[s].bet >= seats[s].bet
        \/ \E x \in unpaid' \ unpaid :
              x.user = seats[s].user /\ x.round = round

(* What a step of the table, as against one of the database, must do. *)
ChipsMove ==
    /\ TableSettles
    /\ IsFiniteSet(unpaid')
    /\ SettledOnce'
    /\ OpenWhileBetting'
    /\ BetsHeld

(***************************************************************************)
(* A quiet step changes no request that holds chips and no bet at risk.    *)
(***************************************************************************)
ChipsQuiet ==
    /\ UNCHANGED <<accounts, round>>
    /\ \A r \in Requests : TakenKept(request'[r], request[r])
    /\ \A s \in Seats : RiskKept(seats'[s], seats[s])
    /\ phase' # "Betting" => phase # "Betting"
    /\ phase' = "Betting" =>
          \A s \in Seats : seats'[s].resolved => phase = "Betting" /\ seats[s].resolved

LEMMA QuietMove ==
    ASSUME ChipInv, TableInv', ChipsQuiet PROVE ChipsMove
<1>1. /\ seats \in SeatsType /\ seats' \in SeatsType /\ OneTaken(request)
  BY RequestTaken DEF ChipInv, TableInv, DebitInv, TypeInv, TypeOK, SeatsType
<1>2. unpaid' = unpaid /\ net' = net /\ bank' = bank /\ round' = round
  BY DEF ChipsQuiet, accounts
<1>3. ASSUME NEW u \in Users PROVE AccountKept(u)
  <2>1. TakenOf(request', u) = TakenOf(request, u)
    BY <1>1, TakenSame DEF ChipsQuiet
  <2>2. RiskOf(seats', u) = RiskOf(seats, u)
    BY <1>1, RiskSame DEF ChipsQuiet
  <2> QED
    BY <1>2, <2>1, <2>2 DEF AccountKept, StakeOf
<1>4. TableSettles
  BY <1>2, <1>3 DEF TableSettles
<1>5. SettledOnce'
  BY <1>2 DEF ChipInv, SettledOnce, ChipsQuiet, RiskKept
<1>6. OpenWhileBetting'
  BY DEF ChipInv, OpenWhileBetting, ChipsQuiet
<1>7. BetsHeld
  <2>1. \A s \in Seats : seats[s].bet \in Nat
    BY <1>1, BlackjackAssumption DEF SeatsType, SeatType
  <2> QED
    BY <2>1 DEF BetsHeld, ChipsQuiet, RiskKept
<1> QED
  BY <1>2, <1>4, <1>5, <1>6, <1>7 DEF ChipsMove, ChipInv

(***************************************************************************)
(* A step within a hand that settles the seats D.  No settlement of this   *)
(* hand is waiting for their users, since they have bets at risk.          *)
(***************************************************************************)
LEMMA HandMove ==
    ASSUME ChipInv, TableInv', NEW ss, NEW D, NEW outcome,
           ss \in SeatsType, D \in SUBSET Seats, outcome \in [D -> Outcomes],
           Settle(ss, outcome, round), SettledSeats(ss, D),
           phase # "Betting", phase' # "Betting", round' = round,
           \A s \in Seats :
              /\ ss[s].user = seats[s].user /\ ss[s].bet >= seats[s].bet
              /\ HasUnresolvedBet(ss[s]) <=> HasUnresolvedBet(seats[s]),
           \A u \in Users : StakeOf(request', ss, u) = StakeOf(request, seats, u)
    PROVE  ChipsMove
<1>1. seats' \in SeatsType /\ OneTaken(request')
  BY RequestTakenNext DEF TableInv, DebitInv, TypeInv, TypeOK, SeatsType
<1>2. ASSUME NEW s \in D
      PROVE  /\ s \in Seats /\ HasUnresolvedBet(seats[s])
             /\ ss[s].user = seats[s].user /\ seats[s].user \in Users
             /\ \A t \in Seats : ss[t].user = ss[s].user => t = s
  <2>1. s \in Seats /\ HasUnresolvedBet(seats[s]) /\ ss[s].user = seats[s].user
    BY <1>2 DEF SettledSeats
  <2>2. seats[s].user \in Users
    BY <2>1 DEF HasUnresolvedBet, ChipInv, TableInv, DebitInv, TypeInv, SeatInv, SeatOK
  <2>3. seats[s].user # NoUser
    BY <2>2, BlackjackAssumption
  <2> QED
    BY <2>1, <2>2, <2>3 DEF ChipInv, TableInv, DebitInv, OneSeatEach, Occupied
<1>3. Settles(ss, D, outcome, round)
  <2>1. \A s \in D, x \in unpaid : x.user = ss[s].user => x.round # round
    BY <1>2 DEF ChipInv, SettledOnce
  <2>2. round \in Nat
    BY ChipTypes
  <2> QED
    BY <1>2, <2>1, <2>2 DEF Settles
<1>4. TableSettles
  BY <1>1, <1>3, SettlesStep
<1>5. /\ unpaid' = unpaid \cup {SettlementOf(ss, outcome, round, s) : s \in D}
      /\ IsFiniteSet(unpaid')
  BY <1>3, ChipTypes, SettlesUnpaid
<1>6. SettledOnce'
  <2> SUFFICES ASSUME NEW x \in unpaid'
               PROVE  /\ x.round <= round
                      /\ x.round = round => \A t \in Seats :
                            seats'[t].user = x.user => ~HasUnresolvedBet(seats'[t])
    BY DEF SettledOnce
  <2>1. CASE x \in unpaid
    <3>1. \A t \in Seats : HasUnresolvedBet(seats'[t]) =>
             HasUnresolvedBet(seats[t]) /\ seats'[t].user = seats[t].user
      BY DEF SettledSeats, RiskKept
    <3> QED
      BY <2>1, <3>1 DEF ChipInv, SettledOnce
  <2>2. ASSUME NEW s \in D, x = SettlementOf(ss, outcome, round, s)
        PROVE  /\ x.round <= round
               /\ \A t \in Seats :
                      seats'[t].user = x.user => ~HasUnresolvedBet(seats'[t])
    <3>1. x.round = round /\ x.user = ss[s].user
      BY <2>2 DEF SettlementOf
    <3>2. round \in Nat
      BY ChipTypes
    <3>3. \A t \in Seats : seats'[t].user = ss[s].user => ~HasUnresolvedBet(seats'[t])
      BY <1>2 DEF SettledSeats, RiskKept
    <3> QED
      BY <3>1, <3>2, <3>3
  <2> QED
    BY <1>5, <2>1, <2>2
<1>7. OpenWhileBetting'
  BY DEF OpenWhileBetting
<1>8. BetsHeld
  <2> SUFFICES ASSUME NEW s \in Seats, HasUnresolvedBet(seats[s])
               PROVE  \/ /\ seats'[s].user = seats[s].user
                         /\ seats'[s].bet >= seats[s].bet
                      \/ \E x \in unpaid' \ unpaid :
                            x.user = seats[s].user /\ x.round = round
    BY DEF BetsHeld
  <2>1. CASE s \in D
    <3>1. SettlementOf(ss, outcome, round, s) \in unpaid' \ unpaid
      BY <1>3, <2>1, ChipTypes, SettlesOne
    <3> QED
      BY <1>2, <2>1, <3>1 DEF SettlementOf
  <2>2. CASE s \notin D
    BY <2>2 DEF SettledSeats, RiskKept
  <2> QED
    BY <2>1, <2>2
<1> QED
  BY <1>4, <1>5, <1>6, <1>7, <1>8 DEF ChipsMove

-------------------------------------------------------------------------------
(***************************************************************************)
(* The deal.  The seats that start_round has dealt to hold the same bets   *)
(* as before, and those it settles are the naturals.                       *)
(***************************************************************************)
LEMMA DealtStakes ==
    ASSUME NEW ss, Dealable(ss), \A s \in Seats : ~ss[s].resolved, StartRound(ss)
    PROVE  /\ round' = round + 1 /\ phase' # "Betting"
           /\ \E dealt, D, outcome :
                 /\ dealt \in SeatsType /\ D \in SUBSET Seats
                 /\ outcome \in [D -> Outcomes]
                 /\ Settle(dealt, outcome, round + 1)
                 /\ SettledSeats(dealt, D)
                 /\ \A s \in Seats : RiskKept(dealt[s], ss[s])
                 /\ \A s \in Seats : dealt[s].user \in {ss[s].user, NoUser}
<1> DEFINE cleared == ClearedForDeal(ss)
           players == {s \in Seats : cleared[s].bet > 0}
           naturals(hands, d) ==
              {s \in players : hands[s] = "natural" /\ d # "natural"}
           outcome(hands, d) ==
              [s \in naturals(hands, d) |->
                  CHOOSE o \in SettleOutcomes(hands[s], d) : TRUE]
           dealt(hands) ==
              [s \in Seats |-> IF s \in players
                               THEN [cleared[s] EXCEPT !.hand = hands[s]]
                               ELSE cleared[s]]
<1>1. PICK hands \in [players -> DealtHands], d \in DealtDealerHands :
         /\ round' = round + 1
         /\ seats' = Finished(dealt(hands), outcome(hands, d))
         /\ Settle(dealt(hands), outcome(hands, d), round + 1)
  BY DEF StartRound
<1>2. phase' # "Betting"
  BY DEF StartRound, BeginDealerTurn
<1>3. outcome(hands, d) \in [naturals(hands, d) -> Outcomes]
  <2>1. CASE d = "natural"
    BY <2>1
  <2>2. CASE d # "natural"
    <3>1. outcome(hands, d) =
             [s \in naturals(hands, d) |->
                CHOOSE o \in SettleOutcomes("natural", d) : TRUE]
      BY DEF SettleOutcomes
    <3> QED
      BY <2>2, <3>1, NaturalsType
  <2> QED
    BY <2>1, <2>2
<1>4. ASSUME NEW s \in Seats
      PROVE  /\ cleared[s] \in SeatType /\ ~cleared[s].resolved
             /\ RiskKept(cleared[s], ss[s])
             /\ cleared[s].user \in {ss[s].user, NoUser}
             /\ ss[s].bet > 0 => cleared[s].bet > 0
             /\ cleared[s].bet \in Nat
  <2>1. cleared[s] \in SeatType /\ SeatKept(cleared[s], ss[s])
    BY ClearedType, ClearedSeat DEF Dealable, SeatsType
  <2>2. /\ ~cleared[s].resolved
        /\ ss[s].bet > 0 => cleared[s].bet = ss[s].bet /\ cleared[s].user = ss[s].user
        /\ ss[s].bet = 0 => cleared[s].bet = 0
    BY ClearedType
  <2>3. ss[s].bet \in Nat /\ cleared[s].bet \in Nat
    BY <2>1, BlackjackAssumption DEF Dealable, SeatsType, SeatType
  <2> HIDE DEF cleared
  <2>4. RiskKept(cleared[s], ss[s])
    BY <2>2, <2>3 DEF RiskKept, HasUnresolvedBet
  <2> QED
    BY <2>1, <2>2, <2>3, <2>4 DEF SeatKept
<1> HIDE DEF cleared
<1>5. ASSUME NEW s \in Seats
      PROVE  /\ dealt(hands)[s] \in SeatType /\ ~dealt(hands)[s].resolved
             /\ dealt(hands)[s].bet = cleared[s].bet
             /\ dealt(hands)[s].user = cleared[s].user
  BY <1>4 DEF SeatType, DealtHands, PlayerHands, LiveHands
<1>6. dealt(hands) \in SeatsType
  BY <1>5 DEF SeatsType
<1>7. naturals(hands, d) \in SUBSET Seats /\ \A s \in naturals(hands, d) : cleared[s].bet > 0
  OBVIOUS
<1> HIDE DEF dealt, naturals, outcome
<1>8. \A s \in Seats : RiskKept(dealt(hands)[s], ss[s])
                      /\ dealt(hands)[s].user \in {ss[s].user, NoUser}
  BY <1>4, <1>5 DEF RiskKept, HasUnresolvedBet
<1>9. SettledSeats(dealt(hands), naturals(hands, d))
  <2>1. ASSUME NEW s \in naturals(hands, d)
        PROVE  HasUnresolvedBet(dealt(hands)[s]) /\ ~HasUnresolvedBet(seats'[s])
    <3>1. s \in Seats /\ seats'[s] = FinishSeat(dealt(hands)[s])
      BY <1>1, <1>3, <1>7 DEF Finished
    <3>2. HasUnresolvedBet(dealt(hands)[s])
      BY <1>5, <1>7, <3>1 DEF HasUnresolvedBet
    <3> QED
      BY <1>5, <3>1, <3>2 DEF FinishSeat, SeatType, HasUnresolvedBet
  <2>2. ASSUME NEW s \in Seats \ naturals(hands, d)
        PROVE  RiskKept(seats'[s], dealt(hands)[s])
    <3>1. seats'[s] = dealt(hands)[s]
      BY <1>1, <1>3 DEF Finished
    <3> QED
      BY <3>1 DEF RiskKept
  <2> QED
    BY <2>1, <2>2 DEF SettledSeats
<1> QED
  BY <1>1, <1>2, <1>3, <1>6, <1>7, <1>8, <1>9

LEMMA DealMove ==
    ASSUME ChipInv, TableInv', NEW ss, Dealable(ss), StartRound(ss),
           \A s \in Seats : ~ss[s].resolved,
           \A s, t \in Seats : ss[s].user # NoUser /\ ss[s].user = ss[t].user => s = t,
           \A s \in Seats : HasUnresolvedBet(seats[s]) =>
                               ss[s].user = seats[s].user /\ ss[s].bet = seats[s].bet,
           \A u \in Users : StakeOf(request', ss, u) = StakeOf(request, seats, u)
    PROVE  ChipsMove
<1>1. /\ seats' \in SeatsType /\ OneTaken(request') /\ round \in Nat
      /\ \A s \in Seats : seats[s].bet \in Nat
  BY RequestTakenNext, BlackjackAssumption
     DEF TableInv, DebitInv, TypeInv, TypeOK, SeatsType, SeatType, ChipInv
<1>2. round' = round + 1 /\ phase' # "Betting"
  BY DealtStakes
<1>3. PICK dealt, D, outcome :
         /\ dealt \in SeatsType /\ D \in SUBSET Seats
         /\ outcome \in [D -> Outcomes]
         /\ Settle(dealt, outcome, round + 1)
         /\ SettledSeats(dealt, D)
         /\ \A s \in Seats : RiskKept(dealt[s], ss[s])
         /\ \A s \in Seats : dealt[s].user \in {ss[s].user, NoUser}
  BY DealtStakes
<1>4. ASSUME NEW s \in D
      PROVE  /\ s \in Seats /\ dealt[s].user = ss[s].user /\ dealt[s].user \in Users
             /\ \A t \in Seats : dealt[t].user = dealt[s].user => t = s
  <2>1. s \in Seats /\ HasUnresolvedBet(dealt[s])
    BY <1>3 DEF SettledSeats
  <2>2. HasUnresolvedBet(ss[s]) /\ dealt[s].user = ss[s].user
    BY <1>3, <2>1 DEF RiskKept
  <2>3. ss[s].user \in Users /\ ss[s].user # NoUser
    BY <2>1, <2>2, BlackjackAssumption DEF HasUnresolvedBet, Dealable
  <2> QED
    BY <1>3, <2>1, <2>2, <2>3
<1>5. Settles(dealt, D, outcome, round + 1)
  <2>1. \A x \in unpaid : x.round <= round /\ x.round \in Nat
    BY ChipTypes DEF ChipInv, SettledOnce, UnpaidOK
  <2>2. \A x \in unpaid : x.round # round + 1
    BY <1>1, <2>1
  <2> QED
    BY <1>1, <1>3, <1>4, <2>2 DEF Settles
<1>6. TableSettles
  <2>1. ASSUME NEW u \in Users PROVE StakeOf(request', dealt, u) = StakeOf(request, seats, u)
    <3>1. RiskOf(dealt, u) = RiskOf(ss, u)
      BY <1>3, RiskSame DEF Dealable
    <3>2. StakeOf(request', ss, u) = StakeOf(request, seats, u)
      OBVIOUS
    <3> QED
      BY <3>1, <3>2 DEF StakeOf
  <2> QED
    BY <1>1, <1>3, <1>5, <2>1, SettlesStep
<1>7. /\ unpaid' = unpaid \cup {SettlementOf(dealt, outcome, round + 1, s) : s \in D}
      /\ IsFiniteSet(unpaid')
  BY <1>5, ChipTypes, SettlesUnpaid
<1>8. SettledOnce'
  <2> SUFFICES ASSUME NEW x \in unpaid'
               PROVE  /\ x.round <= round + 1
                      /\ x.round = round + 1 => \A t \in Seats :
                            seats'[t].user = x.user => ~HasUnresolvedBet(seats'[t])
    BY <1>2 DEF SettledOnce
  <2>1. CASE x \in unpaid
    <3>1. x.round <= round /\ x.round \in Nat
      BY <2>1, ChipTypes DEF ChipInv, SettledOnce, UnpaidOK
    <3> QED
      BY <1>1, <3>1
  <2>2. ASSUME NEW s \in D, x = SettlementOf(dealt, outcome, round + 1, s)
        PROVE  /\ x.round <= round + 1
               /\ \A t \in Seats :
                      seats'[t].user = x.user => ~HasUnresolvedBet(seats'[t])
    <3>1. x.round = round + 1 /\ x.user = dealt[s].user
      BY <2>2 DEF SettlementOf
    <3>2. \A t \in Seats : seats'[t].user = dealt[s].user => ~HasUnresolvedBet(seats'[t])
      BY <1>3, <1>4 DEF SettledSeats, RiskKept
    <3> QED
      BY <1>1, <3>1, <3>2
  <2> QED
    BY <1>7, <2>1, <2>2
<1>9. OpenWhileBetting'
  BY <1>2 DEF OpenWhileBetting
<1>10. BetsHeld
  <2>1. ASSUME NEW s \in Seats, HasUnresolvedBet(seats[s])
        PROVE  seats'[s].user = seats[s].user /\ seats'[s].bet = seats[s].bet
    BY <2>1, DealtSeats DEF HasUnresolvedBet
  <2> QED
    BY <1>1, <2>1 DEF BetsHeld
<1> QED
  BY <1>6, <1>7, <1>8, <1>9, <1>10 DEF ChipsMove

-------------------------------------------------------------------------------
(* The bet of a seat is what it was. *)
SameBet(new, old) ==
    new.user = old.user /\ new.bet = old.bet /\ new.resolved = old.resolved

(* A step that changes one seat, and its bet only if it is not at risk. *)
LEMMA OneSeatMove ==
    ASSUME ChipInv, NEW s \in Seats, NEW seat, phase' = phase,
           seats' = [seats EXCEPT ![s] = seat],
           \/ SameBet(seat, seats[s])
           \/ ~HasUnresolvedBet(seat) /\ ~HasUnresolvedBet(seats[s]) /\ ~seat.resolved,
           UNCHANGED <<accounts, round>>,
           \A r \in Requests : TakenKept(request'[r], request[r])
    PROVE  ChipsQuiet
<1>1. seats'[s] = seat /\ \A t \in Seats : t # s => seats'[t] = seats[t]
  BY ChipTypes DEF SeatsType
<1>2. \A t \in Seats : RiskKept(seats'[t], seats[t])
  BY <1>1 DEF RiskKept, SameBet, HasUnresolvedBet
<1>3. \A t \in Seats : seats'[t].resolved => seats[t].resolved
  BY <1>1 DEF SameBet
<1> QED
  BY <1>2, <1>3 DEF ChipsQuiet

(* A step that changes one request, which does not hold chips. *)
LEMMA OneRequestMove ==
    ASSUME ChipInv, NEW r \in Requests, NEW q, request' = [request EXCEPT ![r] = q],
           request[r].pc \notin TakenStages, q.pc \notin TakenStages
    PROVE  \A x \in Requests : TakenKept(request'[x], request[x])
<1>1. request'[r] = q /\ \A x \in Requests : x # r => request'[x] = request[x]
  BY ChipTypes
<1> QED
  BY <1>1 DEF TakenKept

LEMMA NoRequestMove ==
    ASSUME UNCHANGED request
    PROVE  \A x \in Requests : TakenKept(request'[x], request[x])
  BY DEF TakenKept

(* Activity is recorded of a seat of which one field changes. *)
LEMMA ActiveSeat ==
    ASSUME ChipInv, NEW s \in Seats, NEW v
    PROVE  /\ SameBet(RecordActivity(seats[s]), seats[s])
           /\ SameBet(RecordActivity([seats[s] EXCEPT !.stake = v]), seats[s])
           /\ SameBet(RecordActivity([seats[s] EXCEPT !.pending_bet = v, !.stake = 0]), seats[s])
           /\ SameBet(RecordActivity([seats[s] EXCEPT !.pending_double = v]), seats[s])
           /\ SameBet(RecordActivity([seats[s] EXCEPT !.stood = v]), seats[s])
           /\ SameBet(RecordActivity([seats[s] EXCEPT !.hand = v]), seats[s])
<1>1. seats[s] \in SeatType
  BY ChipTypes DEF SeatsType
<1> QED
  BY <1>1 DEF RecordActivity, SameBet, SeatType

(* Sitting, leaving and staking. *)
LEMMA SeatStepMove ==
    ASSUME ChipInv, SeatStep PROVE ChipsQuiet
<1>1. PICK u \in Users, s \in Seats :
         \/ Sit(u, s) \/ LeaveSeat(u, s) \/ TouchActivity(u, s)
         \/ \E chip \in ChipDenominations : ThrowChip(u, s, chip)
         \/ \E chip \in ChipDenominations : PullStakeChip(u, s, chip)
         \/ ClearStake(u, s)
  BY DEF SeatStep
<1>2. /\ phase' = phase /\ UNCHANGED <<accounts, round>>
      /\ \A r \in Requests : TakenKept(request'[r], request[r])
  BY <1>1, NoRequestMove
     DEF OnlySeats, Sit, LeaveSeat, TouchActivity, ThrowChip, PullStakeChip, ClearStake
<1>3. seats[s] \in SeatType /\ SeatOK(seats[s], phase)
  BY DEF ChipInv, TableInv, DebitInv, TypeInv, TypeOK, SeatInv
<1>4. CASE Sit(u, s)
  <2> DEFINE seat == RecordActivity([seats[s] EXCEPT !.user = u])
  <2>1. seats[s].bet = 0
    <3>1. ~(seats[s].bet > 0)
      BY <1>3, <1>4, BlackjackAssumption DEF Sit, Occupied, SeatOK
    <3> QED
      BY <1>3, <3>1, BlackjackAssumption DEF SeatType
  <2>2. seat.bet = 0 /\ seat.resolved = seats[s].resolved
    BY <1>3, <2>1 DEF RecordActivity, SeatType
  <2>3. seats' = [seats EXCEPT ![s] = seat]
    BY <1>4 DEF Sit
  <2> HIDE DEF seat
  <2>4. seats'[s] = seat /\ \A t \in Seats : t # s => seats'[t] = seats[t]
    BY <2>3, ChipTypes DEF SeatsType
  <2>5. \A t \in Seats : RiskKept(seats'[t], seats[t])
    BY <2>1, <2>2, <2>4 DEF RiskKept, HasUnresolvedBet
  <2> QED
    BY <1>2, <2>2, <2>4, <2>5 DEF ChipsQuiet
<1>5. CASE LeaveSeat(u, s)
  <2>1. ~HasUnresolvedBet(seats[s])
    BY <1>3, <1>5 DEF LeaveSeat, HasUnresolvedBet, ChipInv, TableInv, PhaseMatchesHands
  <2>2. ~HasUnresolvedBet(EmptySeat) /\ ~EmptySeat.resolved
    BY DEF EmptySeat, HasUnresolvedBet
  <2> QED
    BY <1>2, <1>5, <2>1, <2>2, OneSeatMove DEF LeaveSeat
<1>6. CASE TouchActivity(u, s)
  BY <1>2, <1>6, ActiveSeat, OneSeatMove DEF TouchActivity
<1>7. ASSUME NEW stake, seats' = [seats EXCEPT ![s] =
                                     RecordActivity([seats[s] EXCEPT !.stake = stake])]
      PROVE  ChipsQuiet
  BY <1>2, <1>7, ActiveSeat, OneSeatMove
<1>8. CASE ClearStake(u, s)
  BY <1>7, <1>8 DEF ClearStake
<1>9. ASSUME NEW chip \in ChipDenominations, ThrowChip(u, s, chip) \/ PullStakeChip(u, s, chip)
      PROVE  ChipsQuiet
  BY <1>7, <1>9 DEF ThrowChip, PullStakeChip
<1> QED
  BY <1>1, <1>4, <1>5, <1>6, <1>8, <1>9

(* What a step of a player does to the bets, when it may end the turn. *)
LEMMA AdvanceBets ==
    ASSUME NEW ss, AdvanceOrFinishRound(ss)
    PROVE  /\ phase' # "Betting"
           /\ \A s \in Seats : /\ RiskKept(seats'[s], ss[s])
                               /\ seats'[s] \in {ss[s], EmptySeat}
<1>1. CASE \A s \in Seats : ~HasUnresolvedBet(ss[s])
  BY <1>1, AdvanceSeats, EmptySeatBet
     DEF AdvanceOrFinishRound, RiskKept, BeginDealerTurn
<1>2. CASE \E s \in Seats : HasUnresolvedBet(ss[s])
  BY <1>2 DEF AdvanceOrFinishRound, RiskKept, BeginDealerTurn
<1> QED
  BY <1>1, <1>2

(* A step that may end the turn and settles nothing. *)
LEMMA AdvanceMove ==
    ASSUME ChipInv, NEW ss, AdvanceOrFinishRound(ss), phase # "Betting",
           \A s \in Seats : RiskKept(ss[s], seats[s]),
           UNCHANGED <<accounts, round>>,
           \A r \in Requests : TakenKept(request'[r], request[r])
    PROVE  ChipsQuiet
<1>1. \A s \in Seats : RiskKept(seats'[s], seats[s])
  BY AdvanceBets DEF RiskKept
<1> QED
  BY <1>1, AdvanceBets DEF ChipsQuiet

LEMMA StandMove ==
    ASSUME ChipInv, NEW u \in Users, NEW s \in Seats, Stand(u, s)
    PROVE  ChipsQuiet
<1> DEFINE seat == RecordActivity([seats[s] EXCEPT !.stood = TRUE])
           ss == [seats EXCEPT ![s] = seat]
<1>1. SameBet(seat, seats[s])
  BY ActiveSeat
<1>2. AdvanceOrFinishRound(ss) /\ phase = "PlayerTurn"
      /\ UNCHANGED <<request, accounts, round>>
  BY DEF Stand, CanAct
<1> HIDE DEF seat
<1>3. \A t \in Seats : RiskKept(ss[t], seats[t])
  BY <1>1, ChipTypes DEF SeatsType, RiskKept, SameBet, HasUnresolvedBet
<1> HIDE DEF ss
<1> QED
  BY <1>2, <1>3, AdvanceMove, NoRequestMove

LEMMA NextHandMove ==
    ASSUME ChipInv, NEW u \in Users, NextHand(u) PROVE ChipsQuiet
<1>1. ASSUME NEW s \in Seats
      PROVE  seats'[s].bet = 0 /\ ~seats'[s].resolved
  <2>1. seats[s] \in SeatType
    BY ChipTypes DEF SeatsType
  <2>2. seats'[s] = ClearRound(seats[s]) \/ seats'[s] = RecordActivity(ClearRound(seats[s]))
    BY DEF NextHand
  <2> QED
    BY <2>1, <2>2 DEF ClearRound, RecordActivity, SeatType
<1>2. phase = "Settling" /\ phase' = "Betting" /\ UNCHANGED <<request, accounts, round>>
  BY DEF NextHand
<1>3. \A s \in Seats : RiskKept(seats'[s], seats[s])
  BY <1>1, <1>2 DEF RiskKept, HasUnresolvedBet, ChipInv, TableInv, PhaseMatchesHands
<1> QED
  BY <1>1, <1>2, <1>3, NoRequestMove DEF ChipsQuiet

(* The requests that hold no chips: a bet is submitted, marked, turned away or released. *)
LEMMA RequestMove ==
    ASSUME ChipInv, NEW r \in Requests,
           \/ NewRequest(r) \/ RejectBet(r)
           \/ \E s \in Seats : \/ MarkBetPending(r, s) \/ ReleaseBet(r, s)
                               \/ ClearPendingDouble(r, s)
    PROVE  ChipsQuiet
<1>1. request[r].pc \notin TakenStages /\ UNCHANGED <<phase, accounts, round>>
  BY DEF NewRequest, SubmitStake, PrepareDoubleDown, RejectBet, MarkBetPending, ReleaseBet,
         ClearPendingDouble, TakenStages
<1>2. \A x \in Requests : TakenKept(request'[x], request[x])
  <2>1. ASSUME NEW q, request' = [request EXCEPT ![r] = q], q.pc \notin TakenStages
        PROVE  \A x \in Requests : TakenKept(request'[x], request[x])
    BY <1>1, <2>1, OneRequestMove
  <2>2. NoRequest.pc \notin TakenStages
    BY DEF NoRequest, TakenStages
  <2>3. CASE request' = [request EXCEPT ![r] = NoRequest]
    BY <2>1, <2>2, <2>3
  <2>4. ASSUME NEW s \in Seats, MarkBetPending(r, s)
        PROVE  \A x \in Requests : TakenKept(request'[x], request[x])
    <3>1. [request[r] EXCEPT !.pc = "debiting bet"].pc \notin TakenStages
      <4>1. TypeInv /\ request[r].pc # "idle"
        BY <2>4 DEF MarkBetPending, ChipInv, TableInv, DebitInv
      <4> QED
        BY <4>1, WorkingRequest DEF TakenStages
    <3>2. request' = [request EXCEPT ![r] = [request[r] EXCEPT !.pc = "debiting bet"]]
      BY <2>4 DEF MarkBetPending
    <3> QED
      BY <2>1, <3>1, <3>2
  <2>5. ASSUME NEW pc \in {"submitted", "debiting double"}, NEW u, NEW amount,
               request' = [request EXCEPT ![r] = [pc |-> pc, user |-> u, amount |-> amount]]
        PROVE  \A x \in Requests : TakenKept(request'[x], request[x])
    BY <2>1, <2>5 DEF TakenStages
  <2> QED
    BY <2>3, <2>4, <2>5
       DEF NewRequest, SubmitStake, PrepareDoubleDown, RejectBet, ReleaseBet, ClearPendingDouble
<1>3. ASSUME NEW s \in Seats, NEW seat, SameBet(seat, seats[s]),
             seats' = [seats EXCEPT ![s] = seat]
      PROVE  ChipsQuiet
  BY <1>1, <1>2, <1>3, OneSeatMove
<1>4. CASE seats' = seats
  <2>1. \A s \in Seats : RiskKept(seats'[s], seats[s])
    BY <1>4 DEF RiskKept
  <2> QED
    BY <1>1, <1>2, <1>4, <2>1 DEF ChipsQuiet
<1>5. ASSUME NEW s \in Seats
      PROVE  /\ SameBet([seats[s] EXCEPT !.pending_bet = 0], seats[s])
             /\ SameBet([seats[s] EXCEPT !.pending_double = FALSE], seats[s])
  BY ChipTypes DEF SeatsType, SeatType, SameBet
<1>6. ASSUME NEW s \in Seats, MarkBetPending(r, s) PROVE ChipsQuiet
  BY <1>3, <1>6, ActiveSeat DEF MarkBetPending
<1>7. ASSUME NEW s \in Seats, ReleaseBet(r, s) \/ ClearPendingDouble(r, s) PROVE ChipsQuiet
  BY <1>3, <1>5, <1>7 DEF ReleaseBet, ClearPendingDouble
<1>8. ASSUME NEW u \in Users, NEW s \in Seats, PrepareDoubleDown(r, u, s) PROVE ChipsQuiet
  BY <1>3, <1>8, ActiveSeat DEF PrepareDoubleDown
<1> QED
  BY <1>4, <1>6, <1>7, <1>8 DEF NewRequest, SubmitStake, RejectBet

(* The inactivity tasks. *)
LEMMA KickMove ==
    ASSUME ChipInv, KickStep PROVE ChipsQuiet
<1>1. PICK u \in Users, s \in Seats :
         \/ KickSkipped(u, s) \/ KickStands(u, s)
         \/ KickDeferred(u, s) \/ KickLeaves(u, s)
  BY DEF KickStep
<1>2. UNCHANGED <<accounts, round>> /\ \A r \in Requests : TakenKept(request'[r], request[r])
  BY <1>1, NoRequestMove DEF KickSkipped, KickStands, KickDeferred, KickLeaves, OnlySeats
<1>3. seats[s] \in SeatType /\ seats[s].bet \in Nat
  BY ChipTypes, BlackjackAssumption DEF SeatsType, SeatType
<1>4. CASE KickSkipped(u, s)
  <2>1. SameBet([seats[s] EXCEPT !.armed = FALSE], seats[s])
    BY <1>3 DEF SameBet, SeatType
  <2> QED
    BY <1>2, <1>4, <2>1, OneSeatMove DEF KickSkipped, OnlySeats
<1>5. CASE KickDeferred(u, s)
  <2> DEFINE seat == [seats[s] EXCEPT !.armed = FALSE, !.deferred_leave_reason = "Idle"]
  <2>1. SameBet(seat, seats[s])
    BY <1>3 DEF SameBet, SeatType
  <2>2. seats' = [seats EXCEPT ![s] = seat] /\ phase' = phase
    BY <1>5, ChipTypes DEF KickDeferred, OnlySeats, SeatsType
  <2> HIDE DEF seat
  <2> QED
    BY <1>2, <2>1, <2>2, OneSeatMove
<1>6. CASE KickLeaves(u, s)
  <2>1. ~HasUnresolvedBet(seats[s])
    BY <1>3, <1>6 DEF KickLeaves, HasUnresolvedBet, ChipInv, TableInv, PhaseMatchesHands
  <2>2. ~HasUnresolvedBet(EmptySeat) /\ ~EmptySeat.resolved
    BY DEF EmptySeat, HasUnresolvedBet
  <2> QED
    BY <1>2, <1>6, <2>1, <2>2, OneSeatMove DEF KickLeaves, OnlySeats
<1>7. CASE KickStands(u, s)
  <2> DEFINE stood == [seats EXCEPT ![s].armed = FALSE, ![s].stood = TRUE,
                                    ![s].deferred_leave_reason = "Idle"]
             ss == RemoveDeferredLeaveSeats(stood, "PlayerTurn")
  <2>1. \A t \in Seats : SameBet(stood[t], seats[t])
    BY ChipTypes DEF SeatsType, SeatType, SameBet
  <2> HIDE DEF stood
  <2>2. \A t \in Seats : ss[t] = stood[t] \/ (ss[t] = EmptySeat /\ stood[t].resolved)
    BY DEF RemoveDeferredLeaveSeats
  <2>3. \A t \in Seats : RiskKept(ss[t], seats[t])
    BY <2>1, <2>2, EmptySeatBet DEF RiskKept, SameBet, HasUnresolvedBet
  <2>4. AdvanceOrFinishRound(ss) /\ phase # "Betting"
    BY <1>7 DEF KickStands, stood
  <2> HIDE DEF ss
  <2> QED
    BY <1>2, <2>3, <2>4, AdvanceMove
<1> QED
  BY <1>1, <1>4, <1>5, <1>6, <1>7

(* Deadlines pass, and tasks stand the hands, draw or end. *)
LEMMA TimerMove ==
    ASSUME ChipInv,
           \/ BettingDeadlinePasses \/ ActionDeadlinePasses \/ StaleTaskEnds
           \/ \E id \in actionTasks : AutoStandRemaining(id)
           \/ \E id \in dealerTasks : DealerDraws(id)
    PROVE  ChipsQuiet
<1>1. UNCHANGED <<request, accounts, round>>
  BY DEF BettingDeadlinePasses, ActionDeadlinePasses, StaleTaskEnds, AutoStandRemaining,
         DealerDraws
<1>2. \A r \in Requests : TakenKept(request'[r], request[r])
  BY <1>1, NoRequestMove
<1>3. CASE UNCHANGED <<phase, seats>>
  BY <1>1, <1>2, <1>3 DEF ChipsQuiet, RiskKept
<1>4. ASSUME NEW id \in actionTasks, AutoStandRemaining(id) PROVE ChipsQuiet
  <2> DEFINE ss == [s \in Seats |->
                IF Playable(seats[s]) /\ ~seats[s].pending_double
                THEN [seats[s] EXCEPT !.stood = TRUE,
                                      !.deferred_leave_reason = "MissedAction"]
                ELSE seats[s]]
  <2>1. AdvanceOrFinishRound(ss) /\ phase # "Betting"
    BY <1>4 DEF AutoStandRemaining, ActionCountdownMatches
  <2>2. \A s \in Seats : RiskKept(ss[s], seats[s])
    BY ChipTypes DEF SeatsType, SeatType, RiskKept, HasUnresolvedBet
  <2> HIDE DEF ss
  <2> QED
    BY <1>1, <1>2, <2>1, <2>2, AdvanceMove
<1> QED
  BY <1>3, <1>4
     DEF BettingDeadlinePasses, ActionDeadlinePasses, StaleTaskEnds, DealerDraws

-------------------------------------------------------------------------------
(* The request r of u holds the chips v, or none when it is over. *)
LEMMA TakenEnds ==
    ASSUME ChipInv, NEW r \in Requests, request[r].pc \in TakenStages,
           request' = [request EXCEPT ![r] = NoRequest]
    PROVE  /\ TakenOf(request, request[r].user) = request[r].amount
           /\ TakenOf(request', request[r].user) = 0
           /\ \A u \in Users : u # request[r].user => TakenOf(request', u) = TakenOf(request, u)
<1>1. request'[r] = NoRequest /\ \A x \in Requests : x # r => request'[x] = request[x]
  BY ChipTypes
<1>2. OneTaken(request)
  BY RequestTaken DEF ChipInv, TableInv
<1>3. \A x \in Requests : Holding(request[x], request[r].user) => x = r
  BY <1>2 DEF OneTaken, Holding, TakenStages
<1>4. Holding(request[r], request[r].user) /\ request[r].amount \in Nat
  BY Zenon, <1>2 DEF OneTaken, Holding, TakenStages
<1>5. NoRequest.pc \notin TakenStages
  BY DEF NoRequest, TakenStages
<1>6. \A x \in Requests : ~Holding(request'[x], request[r].user)
  BY <1>1, <1>3, <1>5 DEF Holding, TakenStages
<1>7. ASSUME NEW u \in Users, u # request[r].user
      PROVE  TakenOf(request', u) = TakenOf(request, u)
  <2>1. \A x \in Requests : x # r => TakenKept(request'[x], request[x])
    BY <1>1 DEF TakenKept
  <2>2. request'[r].user # u
    BY <1>1, <1>7, BlackjackAssumption DEF NoRequest
  <2>3. \A x \in Requests : request[x].user = u \/ request'[x].user = u =>
           TakenKept(request'[x], request[x])
    BY <1>7, <2>1, <2>2
  <2> QED
    BY <1>2, <2>3, TakenSame
<1> QED
  BY <1>3, <1>4, <1>6, <1>7, TakenOne, TakenNone

(* The only seat of u has the bet b. *)
LEMMA RiskAt ==
    ASSUME NEW ss \in SeatsType, NEW s \in Seats, NEW u, ss[s].user = u,
           \A t \in Seats : ss[t].user = u => t = s
    PROVE  /\ HasUnresolvedBet(ss[s]) => RiskOf(ss, u) = ss[s].bet
           /\ ~HasUnresolvedBet(ss[s]) => RiskOf(ss, u) = 0
<1>1. ss[s].bet \in Int
  BY BlackjackAssumption DEF SeatsType, SeatType
<1>2. ASSUME HasUnresolvedBet(ss[s]) PROVE RiskOf(ss, u) = ss[s].bet
  BY <1>1, <1>2, RiskOne
<1>3. ASSUME ~HasUnresolvedBet(ss[s]) PROVE RiskOf(ss, u) = 0
  BY <1>3, RiskNone
<1> QED
  BY <1>2, <1>3

(***************************************************************************)
(* Chips that a request has taken go to its seat: they are at risk now.    *)
(***************************************************************************)
LEMMA StakeMoves ==
    ASSUME ChipInv, NEW r \in Requests, request[r].pc \in TakenStages,
           request' = [request EXCEPT ![r] = NoRequest],
           NEW ss \in SeatsType, NEW s \in Seats,
           seats[s].user = request[r].user, request[r].user \in Users,
           \A t \in Seats : ss[t].user = seats[t].user,
           \A t \in Seats : t # s => RiskKept(ss[t], seats[t]),
           HasUnresolvedBet(ss[s]),
           \/ seats[s].bet = 0 /\ ss[s].bet = request[r].amount
           \/ /\ HasUnresolvedBet(seats[s])
              /\ ss[s].bet = seats[s].bet + request[r].amount
    PROVE  \A u \in Users : StakeOf(request', ss, u) = StakeOf(request, seats, u)
<1> DEFINE v == request[r].user
<1>1. /\ TakenOf(request, v) = request[r].amount
      /\ TakenOf(request', v) = 0
      /\ \A u \in Users : u # v => TakenOf(request', u) = TakenOf(request, u)
  BY TakenEnds
<1>2. v # NoUser /\ \A t \in Seats : seats[t].user = v => t = s
  BY BlackjackAssumption DEF ChipInv, TableInv, DebitInv, OneSeatEach, Occupied
<1>3. RiskOf(ss, v) = ss[s].bet
  BY <1>2, RiskAt
<1>4. RiskOf(seats, v) = IF HasUnresolvedBet(seats[s]) THEN seats[s].bet ELSE 0
  BY <1>2, RiskAt, ChipTypes
<1>5. /\ request[r].amount \in Int /\ seats[s].bet \in Int
      /\ seats[s].bet = 0 => ~HasUnresolvedBet(seats[s])
  BY RequestTaken, ChipTypes, BlackjackAssumption
     DEF ChipInv, TableInv, OneTaken, SeatsType, SeatType, HasUnresolvedBet
<1>6. StakeOf(request', ss, v) = StakeOf(request, seats, v)
  <2>1. CASE seats[s].bet = 0 /\ ss[s].bet = request[r].amount
    BY <1>1, <1>3, <1>4, <1>5, <2>1 DEF StakeOf
  <2>2. CASE /\ HasUnresolvedBet(seats[s])
             /\ ss[s].bet = seats[s].bet + request[r].amount
    BY <1>1, <1>3, <1>4, <1>5, <2>2 DEF StakeOf
  <2> QED
    BY <2>1, <2>2
<1>7. ASSUME NEW u \in Users, u # v PROVE StakeOf(request', ss, u) = StakeOf(request, seats, u)
  <2>1. \A t \in Seats : ss[t].user = u \/ seats[t].user = u => RiskKept(ss[t], seats[t])
    BY <1>7
  <2>2. RiskOf(ss, u) = RiskOf(seats, u)
    BY <2>1, RiskSame, ChipTypes
  <2> QED
    BY <1>1, <1>7, <2>2 DEF StakeOf
<1> QED
  BY <1>6, <1>7

(* Locking a bet: its chips go to the seat, and the last bet deals. *)
LEMMA LockMove ==
    ASSUME ChipInv, TableInv', NEW r \in Requests, NEW s \in Seats, LockBet(r, s)
    PROVE  ChipsMove
<1>1. PICK ss : /\ Dealable(ss) /\ HasBets(ss) /\ phase = "Betting"
                /\ \A t \in Seats : /\ ss[t].user = seats[t].user
                                    /\ ss[t].resolved = seats[t].resolved
                                    /\ ReasonKept(ss[t], seats[t])
                                    /\ t # s => ss[t].bet = seats[t].bet
                /\ seats[s].bet = 0 /\ ss[s].bet = request[r].amount /\ ss[s].bet > 0
                /\ \/ AllSeatedBetsReady(ss) /\ StartRound(ss)
                   \/ /\ seats' = ss /\ EnsureBettingCountdown
                      /\ UNCHANGED <<phase, round, accounts>>
  BY LockedBets DEF ChipInv, TableInv
<1>2. /\ request[r].pc \in TakenStages /\ request' = [request EXCEPT ![r] = NoRequest]
      /\ seats[s].user = request[r].user /\ request[r].user \in Users
  BY RequestAtWork DEF LockBet, TakenStages, ChipInv, TableInv, DebitInv
<1>3. /\ ss \in SeatsType
      /\ \A t \in Seats : ss[t].user = seats[t].user /\ ~ss[t].resolved
      /\ \A t \in Seats : t # s => RiskKept(ss[t], seats[t])
      /\ HasUnresolvedBet(ss[s]) /\ ~HasUnresolvedBet(seats[s])
  BY <1>1, ChipTypes, BlackjackAssumption
     DEF Dealable, ChipInv, OpenWhileBetting, RiskKept, HasUnresolvedBet
<1>4. \A u \in Users : StakeOf(request', ss, u) = StakeOf(request, seats, u)
  BY <1>1, <1>2, <1>3, StakeMoves
<1>5. ASSUME NEW t \in Seats, HasUnresolvedBet(seats[t])
      PROVE  ss[t].user = seats[t].user /\ ss[t].bet = seats[t].bet
  BY <1>3, <1>5 DEF RiskKept
<1>6. CASE StartRound(ss)
  <2>1. \A x, y \in Seats : ss[x].user # NoUser /\ ss[x].user = ss[y].user => x = y
    BY <1>3 DEF ChipInv, TableInv, DebitInv, OneSeatEach, Occupied
  <2>2. Dealable(ss) /\ \A t \in Seats : ~ss[t].resolved
    BY <1>1, <1>3
  <2> QED
    BY <1>4, <1>5, <1>6, <2>1, <2>2, DealMove
<1>7. CASE seats' = ss /\ UNCHANGED <<phase, round, accounts>>
  <2>1. TableSettles
    BY <1>4, <1>7 DEF accounts, TableSettles, AccountKept
  <2>2. SettledOnce' /\ OpenWhileBetting' /\ IsFiniteSet(unpaid')
    BY <1>1, <1>3, <1>7 DEF accounts, SettledOnce, OpenWhileBetting, ChipInv
  <2>3. BetsHeld
    <3>1. \A t \in Seats : seats[t].bet \in Nat
      BY ChipTypes, BlackjackAssumption DEF SeatsType, SeatType
    <3> QED
      BY <1>5, <1>7, <3>1 DEF BetsHeld
  <2> QED
    BY <2>1, <2>2, <2>3 DEF ChipsMove
<1> QED
  BY <1>1, <1>6, <1>7

(* The auto-deal task deals the seats as they are. *)
LEMMA AutoDealMove ==
    ASSUME ChipInv, TableInv', NEW id, AutoDeal(id) PROVE ChipsMove
<1>1. Dealable(seats) /\ StartRound(seats) /\ phase = "Betting" /\ UNCHANGED request
  BY AutoDealSeats DEF ChipInv, TableInv, AutoDeal
<1>2. /\ \A s \in Seats : ~seats[s].resolved
      /\ \A s, t \in Seats : seats[s].user # NoUser /\ seats[s].user = seats[t].user => s = t
  BY <1>1 DEF ChipInv, TableInv, DebitInv, OneSeatEach, Occupied, OpenWhileBetting
<1>3. \A u \in Users : StakeOf(request', seats, u) = StakeOf(request, seats, u)
  BY <1>1
<1> QED
  BY <1>1, <1>2, <1>3, DealMove

(***************************************************************************)
(* The steps within a hand that settle: a bust, a doubled hand, and the    *)
(* end of the dealer's turn.                                               *)
(***************************************************************************)
LEMMA BustSeats ==
    ASSUME NEW ss \in SeatsType, NEW s \in Seats, HasUnresolvedBet(ss[s]),
           AdvanceOrFinishRound(Finished(ss, Bust(s)))
    PROVE  /\ SettledSeats(ss, {s})
           /\ Bust(s) \in [{s} -> Outcomes]
<1> DEFINE fin == Finished(ss, Bust(s))
<1>1. fin[s] = FinishSeat(ss[s]) /\ \A t \in Seats : t # s => fin[t] = ss[t]
  BY DEF Finished, Bust
<1>2. ~HasUnresolvedBet(fin[s])
  BY <1>1 DEF FinishSeat, SeatsType, SeatType, HasUnresolvedBet
<1>3. \A t \in Seats : RiskKept(seats'[t], fin[t])
  BY AdvanceBets
<1> HIDE DEF fin
<1>4. SettledSeats(ss, {s})
  BY <1>1, <1>2, <1>3 DEF SettledSeats, RiskKept
<1> QED
  BY <1>4 DEF Bust, Outcomes

LEMMA HitMove ==
    ASSUME ChipInv, TableInv', NEW u \in Users, NEW s \in Seats, Hit(u, s)
    PROVE  ChipsQuiet \/ ChipsMove
<1>1. /\ phase = "PlayerTurn" /\ HasUnresolvedBet(seats[s]) /\ UNCHANGED <<request, round>>
  BY DEF Hit, CanAct, Playable
<1>2. PICK hand \in AfterHit :
         LET drawn == [seats EXCEPT ![s] = RecordActivity([@ EXCEPT !.hand = hand])]
         IN  \/ /\ hand = "bust"
                /\ Settle(drawn, Bust(s), round)
                /\ AdvanceOrFinishRound(Finished(drawn, Bust(s)))
             \/ /\ hand # "bust"
                /\ seats' = drawn
                /\ UNCHANGED <<phase, action_deadline, dealer_turn_id,
                               dealerTasks, accounts>>
  BY DEF Hit
<1> DEFINE seat == RecordActivity([seats[s] EXCEPT !.hand = hand])
           drawn == [seats EXCEPT ![s] = seat]
<1>3. SameBet(seat, seats[s]) /\ seat \in SeatType
  <2>1. seats[s] \in SeatType
    BY ChipTypes DEF SeatsType
  <2>2. [seats[s] EXCEPT !.hand = hand] \in SeatType
    BY <2>1 DEF SeatType, AfterHit, PlayerHands, LiveHands
  <2> QED
    BY <2>2, ActiveSeat, RecordActivityType
<1>4. \/ /\ Settle(drawn, Bust(s), round)
         /\ AdvanceOrFinishRound(Finished(drawn, Bust(s)))
      \/ seats' = drawn /\ UNCHANGED <<phase, accounts>>
  BY <1>2
<1> HIDE DEF seat
<1>5. CASE seats' = drawn /\ UNCHANGED <<phase, accounts>>
  BY <1>1, <1>3, <1>5, OneSeatMove, NoRequestMove
<1>6. /\ drawn \in SeatsType /\ drawn[s] = seat
      /\ \A t \in Seats : t # s => drawn[t] = seats[t]
  BY <1>3, ChipTypes, UpdateType DEF SeatsType
<1> HIDE DEF drawn
<1>7. CASE /\ Settle(drawn, Bust(s), round)
           /\ AdvanceOrFinishRound(Finished(drawn, Bust(s)))
  <2>1. \A t \in Seats : /\ drawn[t].user = seats[t].user /\ drawn[t].bet = seats[t].bet
                         /\ HasUnresolvedBet(drawn[t]) <=> HasUnresolvedBet(seats[t])
    BY <1>3, <1>6 DEF SameBet, HasUnresolvedBet
  <2>2. SettledSeats(drawn, {s}) /\ Bust(s) \in [{s} -> Outcomes]
    BY <1>1, <1>6, <1>7, <2>1, BustSeats
  <2>3. \A t \in Seats : seats[t].bet \in Nat
    BY ChipTypes, BlackjackAssumption DEF SeatsType, SeatType
  <2>4. \A t \in Seats : drawn[t].bet >= seats[t].bet
    BY <2>1, <2>3
  <2>5. \A v \in Users : StakeOf(request', drawn, v) = StakeOf(request, seats, v)
    <3>1. ASSUME NEW v \in Users PROVE RiskOf(drawn, v) = RiskOf(seats, v)
      BY <1>6, <2>1, ChipTypes, RiskSame DEF RiskKept
    <3> QED
      BY <1>1, <3>1 DEF StakeOf
  <2>6. phase' # "Betting" /\ {s} \in SUBSET Seats
    BY <1>7, AdvanceBets
  <2> QED
    BY <1>1, <1>6, <1>7, <2>1, <2>2, <2>4, <2>5, <2>6, HandMove
<1> QED
  BY <1>4, <1>5, <1>7

LEMMA DoubleMove ==
    ASSUME ChipInv, TableInv', NEW r \in Requests, NEW s \in Seats, FinishDoubleDown(r, s)
    PROVE  ChipsMove
<1> DEFINE seat(hand) == RecordActivity([seats[s] EXCEPT
                            !.pending_double = FALSE, !.bet = seats[s].bet * 2,
                            !.hand = hand, !.stood = TRUE])
           doubled(hand) == [seats EXCEPT ![s] = seat(hand)]
           outcome(hand) == IF hand = "bust" THEN Bust(s) ELSE NoOutcome
           D(hand) == IF hand = "bust" THEN {s} ELSE {}
<1>1. PICK hand \in AfterHit :
         /\ Settle(doubled(hand), outcome(hand), round)
         /\ AdvanceOrFinishRound(Finished(doubled(hand), outcome(hand)))
  BY DEF FinishDoubleDown
<1>2. /\ phase = "PlayerTurn" /\ HasUnresolvedBet(seats[s]) /\ round' = round
      /\ request[r].pc \in TakenStages /\ request' = [request EXCEPT ![r] = NoRequest]
      /\ seats[s].user = request[r].user /\ request[r].user \in Users
      /\ DoublePending(r)
  BY RequestAtWork
     DEF FinishDoubleDown, Playable, TakenStages, ChipInv, TableInv, DebitInv, DoublePending,
         DoubleStages
<1>3. seats[s].bet = request[r].amount
  <2>1. PICK t \in Seats : seats[t].user = request[r].user /\ seats[t].bet = request[r].amount
    BY <1>2 DEF ChipInv, TableInv, DebitInv, PendingTracksDebit
  <2>2. request[r].user # NoUser
    BY <1>2, BlackjackAssumption
  <2>3. s = t
    BY <1>2, <2>1, <2>2 DEF ChipInv, TableInv, DebitInv, OneSeatEach, Occupied
  <2> QED
    BY <2>1, <2>3
<1>4. /\ seats[s] \in SeatType /\ seats[s].bet \in Nat /\ seats[s].bet > 0
      /\ seats[s].bet * 2 \in 0 .. 2 * MaxBet
  <2>1. seats[s] \in SeatType /\ SeatOK(seats[s], phase) /\ seats[s].hand \in DealtHands
    BY DEF FinishDoubleDown, ChipInv, TableInv, DebitInv, TypeInv, TypeOK, SeatInv, CanDouble
  <2>2. ~(seats[s].bet > MaxBet)
    BY <2>1 DEF SeatOK, DealtHands, AfterHit
  <2>3. seats[s].bet \in Nat /\ seats[s].bet > 0
    BY <1>2, <2>1, BlackjackAssumption DEF SeatType, HasUnresolvedBet
  <2> QED
    BY <2>1, <2>2, <2>3, BlackjackAssumption
<1>5. PICK b : b = seats[s].bet * 2 /\ b \in 0 .. 2 * MaxBet /\ b = seats[s].bet + request[r].amount
               /\ b > 0 /\ b >= seats[s].bet
  BY <1>3, <1>4
<1>6. /\ seat(hand) \in SeatType
      /\ seat(hand).user = seats[s].user /\ seat(hand).bet = b
      /\ seat(hand).resolved = seats[s].resolved
  <2>1. seat(hand) = RecordActivity([seats[s] EXCEPT
                            !.pending_double = FALSE, !.bet = b,
                            !.hand = hand, !.stood = TRUE])
    BY <1>5
  <2>2. b \in 0 .. 2 * MaxBet /\ seats[s] \in SeatType
    BY <1>4, <1>5
  <2> HIDE DEF seat
  <2> QED
    BY <2>1, <2>2 DEF RecordActivity, SeatType, AfterHit, PlayerHands, LiveHands
<1> HIDE DEF seat
<1>7. /\ doubled(hand) \in SeatsType /\ doubled(hand)[s] = seat(hand)
      /\ \A t \in Seats : t # s => doubled(hand)[t] = seats[t]
  BY <1>6, ChipTypes, UpdateType DEF SeatsType
<1> HIDE DEF doubled
<1>8. /\ \A t \in Seats : doubled(hand)[t].user = seats[t].user
      /\ \A t \in Seats : HasUnresolvedBet(doubled(hand)[t]) <=> HasUnresolvedBet(seats[t])
      /\ \A t \in Seats : t # s => RiskKept(doubled(hand)[t], seats[t])
      /\ HasUnresolvedBet(doubled(hand)[s])
  BY <1>2, <1>5, <1>6, <1>7 DEF HasUnresolvedBet, RiskKept
<1>9. \A t \in Seats : doubled(hand)[t].bet >= seats[t].bet
  <2>1. \A t \in Seats : seats[t].bet \in Nat
    BY ChipTypes, BlackjackAssumption DEF SeatsType, SeatType
  <2> QED
    BY <1>5, <1>6, <1>7, <2>1
<1>10. \A u \in Users : StakeOf(request', doubled(hand), u) = StakeOf(request, seats, u)
  <2>1. doubled(hand)[s].bet = seats[s].bet + request[r].amount
    BY <1>5, <1>6, <1>7
  <2> QED
    BY <1>2, <1>7, <1>8, <2>1, StakeMoves
<1>11. /\ SettledSeats(doubled(hand), D(hand)) /\ D(hand) \in SUBSET Seats
       /\ outcome(hand) \in [D(hand) -> Outcomes]
  <2>1. CASE hand = "bust"
    BY <1>1, <1>7, <1>8, <2>1, BustSeats
  <2>2. CASE hand # "bust"
    <3>1. outcome(hand) = NoOutcome /\ D(hand) = {}
      BY <2>2
    <3> HIDE DEF outcome, D
    <3>2. \A t \in Seats : Finished(doubled(hand), NoOutcome)[t] = doubled(hand)[t]
      BY DEF Finished, NoOutcome
    <3>3. \A t \in Seats : RiskKept(seats'[t], doubled(hand)[t])
      BY <1>1, <3>1, <3>2, AdvanceBets
    <3>4. NoOutcome \in [{} -> Outcomes]
      BY DEF NoOutcome
    <3> QED
      BY <3>1, <3>3, <3>4 DEF SettledSeats
  <2> QED
    BY <2>1, <2>2
<1>12. phase' # "Betting"
  BY <1>1, AdvanceBets
<1> HIDE DEF outcome, D
<1> QED
  BY <1>1, <1>2, <1>7, <1>8, <1>9, <1>10, <1>11, <1>12, HandMove

LEMMA DealerMove ==
    ASSUME ChipInv, TableInv', NEW id, FinishDealerTurn(id) PROVE ChipsMove
<1> DEFINE D == {s \in Seats : HasUnresolvedBet(seats[s])}
<1>1. PICK outcome \in [D -> Outcomes] :
         /\ Settle(seats, outcome, round)
         /\ seats' = RemoveDeferredLeaveSeats(Finished(seats, outcome), "Settling")
  BY DEF FinishDealerTurn
<1>2. phase = "DealerTurn" /\ phase' = "Settling" /\ UNCHANGED <<request, round>>
  BY DEF FinishDealerTurn
<1>3. ASSUME NEW s \in Seats PROVE ~HasUnresolvedBet(seats'[s])
  <2>1. seats[s] \in SeatType
    BY ChipTypes DEF SeatsType
  <2>2. ~HasUnresolvedBet(FinishSeat(seats[s]))
    BY <2>1 DEF FinishSeat, HasUnresolvedBet, SeatType
  <2>3. ~HasUnresolvedBet(Finished(seats, outcome)[s])
    BY <1>1, <2>2 DEF Finished
  <2>4. seats'[s] \in {Finished(seats, outcome)[s], EmptySeat}
    BY <1>1 DEF RemoveDeferredLeaveSeats
  <2> QED
    BY <2>3, <2>4, EmptySeatBet
<1>4. SettledSeats(seats, D)
  BY <1>3 DEF SettledSeats, RiskKept
<1>5. \A s \in Seats : seats[s].bet >= seats[s].bet
  BY ChipTypes, BlackjackAssumption DEF SeatsType, SeatType
<1>6. \A u \in Users : StakeOf(request', seats, u) = StakeOf(request, seats, u)
  BY <1>2
<1>7. seats \in SeatsType /\ D \in SUBSET Seats
  BY ChipTypes
<1> HIDE DEF D
<1> QED
  BY <1>1, <1>2, <1>4, <1>5, <1>6, <1>7, HandMove

-------------------------------------------------------------------------------
(* A debit takes the chips of its amount, or none; or they are lost. *)
LEMMA DebitMove ==
    ASSUME ChipInv, TableInv', NEW r \in Requests, DebitBet(r)
    PROVE  \E u \in Users, a \in Nat \ {0} :
              /\ bank[u] \in Nat
              /\ \/ UNCHANGED bank
                 \/ bank[u] >= a /\ bank' = [bank EXCEPT ![u] = bank[u] - a]
              /\ UNCHANGED <<unpaid, seats, round, phase>>
              /\ \A v \in Users : v # u => TakenOf(request', v) = TakenOf(request, v)
              /\ \/ /\ net' = net
                    /\ TakenOf(request', u) = TakenOf(request, u) + (bank[u] - bank'[u])
                 \/ /\ DbCanFail
                    /\ TakenOf(request', u) = TakenOf(request, u)
                    /\ net' = [net EXCEPT ![u] = net[u] - (bank[u] - bank'[u])]
<1> DEFINE u == request[r].user
           a == request[r].amount
<1>1. TypeInv /\ request[r].pc # "idle" /\ Pending(r) /\ request[r].pc \notin TakenStages
  BY DEF DebitBet, ChipInv, TableInv, DebitInv, Pending, BetPending, DoublePending, BetStages,
         DoubleStages, TakenStages
<1>2. u \in Users /\ a \in Nat \ {0}
  <2>1. u \in Users /\ a \in 1 .. MaxBet
    BY <1>1, RequestAtWork
  <2> HIDE DEF u, a
  <2> QED
    BY <2>1, BlackjackAssumption
<1>3. OneTaken(request) /\ OneTaken(request')
  BY RequestTaken, RequestTakenNext DEF ChipInv, TableInv
<1>4. ASSUME NEW x \in Requests, x # r, request[x].pc \in TakenStages
      PROVE  request[x].user # u
  <2>1. Pending(x)
    BY <1>4 DEF TakenStages, Pending, BetPending, DoublePending, BetStages, DoubleStages
  <2> QED
    BY <1>1, <1>4, <2>1 DEF Pending, ChipInv, TableInv, DebitInv, PendingTracksDebit
<1>5. TakenOf(request, u) = 0
  BY <1>1, <1>4, TakenNone DEF Holding, TakenStages
<1>6. ASSUME NEW ok \in BOOLEAN, Answered(r, ok)
      PROVE  /\ \A x \in Requests : x # r => request'[x] = request[x]
             /\ request'[r].user = u /\ request'[r].amount = a
             /\ request'[r].pc \in TakenStages <=> ok
  <2>1. request[r] \in [pc : BetStages, user : Users, amount : 1 .. MaxBet]
                  \cup [pc : DoubleStages, user : Users, amount : 1 .. MaxBet]
    BY <1>1, WorkingRequest
  <2>2. PICK pc \in {"bet taken", "bet refused", "double taken", "double refused"} :
           /\ request' = [request EXCEPT ![r] = [request[r] EXCEPT !.pc = pc]]
           /\ pc \in TakenStages <=> ok
    BY <1>6 DEF Answered, TakenStages
  <2>3. request'[r] = [request[r] EXCEPT !.pc = pc]
        /\ \A x \in Requests : x # r => request'[x] = request[x]
    BY <2>2, ChipTypes
  <2>4. /\ [request[r] EXCEPT !.pc = pc].user = u
        /\ [request[r] EXCEPT !.pc = pc].amount = a
        /\ [request[r] EXCEPT !.pc = pc].pc = pc
    BY <2>1
  <2> QED
    BY <2>2, <2>3, <2>4
<1> HIDE DEF u, a
<1>7. ASSUME NEW ok \in BOOLEAN, Answered(r, ok), NEW v \in Users, v # u
      PROVE  TakenOf(request', v) = TakenOf(request, v)
  <2>1. /\ \A x \in Requests : x # r => request'[x] = request[x]
        /\ request'[r].user = u /\ request[r].user = u
    BY <1>6, <1>7 DEF u
  <2>2. \A x \in Requests : request[x].user = v \/ request'[x].user = v =>
           TakenKept(request'[x], request[x])
    BY <1>7, <2>1 DEF TakenKept
  <2> QED
    BY <1>3, <2>2, TakenSame
<1>8. ASSUME Answered(r, FALSE) PROVE TakenOf(request', u) = TakenOf(request, u)
  <2>1. \A x \in Requests : ~Holding(request'[x], u)
    BY <1>4, <1>6, <1>8 DEF Holding, TakenStages
  <2> QED
    BY <1>5, <2>1, TakenNone
<1>9. ASSUME Answered(r, TRUE) PROVE TakenOf(request', u) = a
  <2>1. Holding(request'[r], u) /\ \A x \in Requests : Holding(request'[x], u) => x = r
    BY <1>4, <1>6, <1>9 DEF Holding, TakenStages
  <2>2. request'[r].amount \in Nat /\ request'[r].amount = a
    BY <1>2, <1>6, <1>9
  <2> QED
    BY <2>1, <2>2, TakenOne
<1>10. /\ UNCHANGED <<unpaid, seats, round, phase>>
       /\ \/ /\ bank[u] >= a /\ bank' = [bank EXCEPT ![u] = bank[u] - a]
             /\ Answered(r, TRUE) /\ net' = net
          \/ /\ Answered(r, FALSE) /\ bank' = bank /\ net' = net
          \/ /\ DbCanFail /\ bank[u] >= a /\ bank' = [bank EXCEPT ![u] = bank[u] - a]
             /\ net' = [net EXCEPT ![u] = net[u] - a] /\ Answered(r, FALSE)
  BY DEF DebitBet, CanDeduct, Deduct, u, a
<1>11. bank[u] \in Nat /\ net[u] \in Int
  BY <1>2, ChipTypes
<1>12. CASE /\ bank[u] >= a /\ bank' = [bank EXCEPT ![u] = bank[u] - a]
            /\ Answered(r, TRUE) /\ net' = net
  <2>1. bank'[u] = bank[u] - a
    BY <1>2, <1>12, ChipTypes
  <2>2. bank[u] - bank'[u] = a
    BY <1>2, <1>11, <2>1
  <2>3. TakenOf(request', u) = TakenOf(request, u) + (bank[u] - bank'[u])
    BY <1>2, <1>5, <1>9, <1>12, <2>2
  <2> QED
    BY <1>2, <1>7, <1>10, <1>11, <1>12, <2>3
<1>13. CASE /\ Answered(r, FALSE) /\ bank' = bank /\ net' = net
  <2>1. TakenOf(request', u) = TakenOf(request, u) + (bank[u] - bank'[u])
    BY <1>5, <1>8, <1>11, <1>13
  <2> QED
    BY <1>2, <1>7, <1>10, <1>11, <1>13, <2>1
<1>14. CASE /\ DbCanFail /\ bank[u] >= a /\ bank' = [bank EXCEPT ![u] = bank[u] - a]
            /\ net' = [net EXCEPT ![u] = net[u] - a] /\ Answered(r, FALSE)
  <2>1. bank'[u] = bank[u] - a
    BY <1>2, <1>14, ChipTypes
  <2>2. bank[u] - bank'[u] = a
    BY <1>2, <1>11, <2>1
  <2> QED
    BY <1>2, <1>7, <1>8, <1>10, <1>11, <1>14, <2>2
<1> QED
  BY <1>10, <1>12, <1>13, <1>14

(* A written settlement is owed no more, and pays, grants the floor or fails. *)
LEMMA PersistMove ==
    ASSUME ChipInv, NEW x \in unpaid, PersistSettlement(x)
    PROVE  \E u \in Users, c \in Nat :
              /\ UNCHANGED <<request, seats, round, phase>>
              /\ unpaid' = unpaid \ {x}
              /\ OwedOf(unpaid', u) = OwedOf(unpaid, u) - c
              /\ CountOf(unpaid', u) = CountOf(unpaid, u) - 1
              /\ \A v \in Users : v # u => /\ OwedOf(unpaid', v) = OwedOf(unpaid, v)
                                         /\ CountOf(unpaid', v) = CountOf(unpaid, v)
              /\ \/ /\ c = 0 /\ bank' = RestoreFloor(bank, u)
                    /\ net' = [net EXCEPT ![u] = net[u] + FloorGrant(bank, u)]
                 \/ c > 0 /\ bank' = AddBonus(bank, u, c) /\ net' = net
                 \/ /\ DbCanFail /\ bank' = bank
                    /\ net' = [net EXCEPT ![u] = net[u] - c]
<1>1. x.user \in Users /\ x.credit \in Nat /\ IsFiniteSet(unpaid)
      /\ \A y \in unpaid : y.credit \in Int
  BY ChipTypes DEF UnpaidOK
<1>2. unpaid' = unpaid \ {x} /\ UNCHANGED <<request, seats, round, phase>>
  BY DEF PersistSettlement
<1>3. PICK u \in Users : u = x.user
  BY <1>1
<1>4. PICK c \in Nat : c = x.credit
  BY <1>1
<1>5. /\ OwedOf(unpaid, u) = OwedOf(unpaid \ {x}, u) + c
      /\ OwedOf(unpaid \ {x}, u) \in Int
      /\ CountOf(unpaid, u) = CountOf(unpaid \ {x}, u) + 1
      /\ CountOf(unpaid \ {x}, u) \in Nat
  BY <1>1, <1>3, <1>4, OwedAdd
<1>6. /\ OwedOf(unpaid', u) = OwedOf(unpaid, u) - c
      /\ CountOf(unpaid', u) = CountOf(unpaid, u) - 1
  BY <1>2, <1>5
<1>7. ASSUME NEW v \in Users, v # u
      PROVE  /\ OwedOf(unpaid', v) = OwedOf(unpaid, v)
             /\ CountOf(unpaid', v) = CountOf(unpaid, v)
  <2>1. Mine(unpaid', v) = Mine(unpaid, v)
    BY <1>2, <1>3, <1>7 DEF Mine
  <2> QED
    BY <1>1, <2>1, OwedSame
<1>8. \/ /\ c = 0 /\ bank' = RestoreFloor(bank, u)
         /\ net' = [net EXCEPT ![u] = net[u] + FloorGrant(bank, u)]
      \/ c > 0 /\ bank' = AddBonus(bank, u, c) /\ net' = net
      \/ /\ DbCanFail /\ bank' = bank
         /\ net' = [net EXCEPT ![u] = net[u] - c]
  BY <1>3, <1>4 DEF PersistSettlement
<1> QED
  BY <1>2, <1>6, <1>7, <1>8

-------------------------------------------------------------------------------
(* A step of the database: the chips of one user move, and no bet does. *)
DebitsOne ==
    \E u \in Users, a \in Nat \ {0} :
        /\ \/ UNCHANGED bank
           \/ bank[u] >= a /\ bank' = [bank EXCEPT ![u] = bank[u] - a]
        /\ UNCHANGED <<unpaid, seats, round, phase>>
        /\ \A v \in Users : v # u => TakenOf(request', v) = TakenOf(request, v)
        /\ \/ /\ net' = net
              /\ TakenOf(request', u) = TakenOf(request, u) + (bank[u] - bank'[u])
           \/ /\ DbCanFail
              /\ TakenOf(request', u) = TakenOf(request, u)
              /\ net' = [net EXCEPT ![u] = net[u] - (bank[u] - bank'[u])]

WritesOne ==
    \E u \in Users, c \in Nat :
        /\ UNCHANGED <<request, seats, round, phase>>
        /\ \E x \in unpaid : unpaid' = unpaid \ {x}
        /\ OwedOf(unpaid', u) = OwedOf(unpaid, u) - c
        /\ CountOf(unpaid', u) = CountOf(unpaid, u) - 1
        /\ \A v \in Users : v # u => /\ OwedOf(unpaid', v) = OwedOf(unpaid, v)
                                   /\ CountOf(unpaid', v) = CountOf(unpaid, v)
        /\ \/ /\ c = 0 /\ bank' = RestoreFloor(bank, u)
              /\ net' = [net EXCEPT ![u] = net[u] + FloorGrant(bank, u)]
           \/ c > 0 /\ bank' = AddBonus(bank, u, c) /\ net' = net
           \/ /\ DbCanFail /\ bank' = bank
              /\ net' = [net EXCEPT ![u] = net[u] - c]

BetsAsTheyWere ==
    /\ UNCHANGED <<seats, round, phase>>
    /\ unpaid' \in SUBSET unpaid /\ IsFiniteSet(unpaid')

LEMMA EveryStep ==
    ASSUME ChipInv, TableInv', [Next]_vars
    PROVE  \/ ChipsMove
           \/ DebitsOne /\ BetsAsTheyWere
           \/ WritesOne /\ BetsAsTheyWere
<1>0. IsFiniteSet(unpaid)
  BY DEF ChipInv
<1>1. CASE SeatStep
  BY <1>1, SeatStepMove, QuietMove
<1>2. CASE PlayerStep
  BY <1>2, HitMove, StandMove, NextHandMove, QuietMove DEF PlayerStep
<1>3. CASE KickStep
  BY <1>3, KickMove, QuietMove
<1>4. ASSUME NEW r \in Requests, NewRequest(r) \/ RejectBet(r) \/ RequestStep(r)
      PROVE  ChipsMove
  BY <1>4, RequestMove, LockMove, DoubleMove, QuietMove DEF RequestStep
<1>5. ASSUME NEW r \in Requests, DebitBet(r) PROVE DebitsOne /\ BetsAsTheyWere
  <2>1. DebitsOne
    BY <1>5, DebitMove DEF DebitsOne
  <2> QED
    BY <1>0, <2>1 DEF DebitsOne, BetsAsTheyWere
<1>6. CASE TimerStep
  BY <1>6, TimerMove, AutoDealMove, QuietMove DEF TimerStep
<1>7. CASE DealerStep
  BY <1>7, TimerMove, DealerMove, QuietMove DEF DealerStep
<1>8. ASSUME NEW x \in unpaid, PersistSettlement(x) PROVE WritesOne /\ BetsAsTheyWere
  <2>1. WritesOne
    BY <1>8, PersistMove DEF WritesOne
  <2>2. unpaid' = unpaid \ {x} /\ IsFiniteSet(unpaid \ {x})
    BY <1>0, <1>8, FS_RemoveElement DEF PersistSettlement
  <2> QED
    BY <2>1, <2>2 DEF WritesOne, BetsAsTheyWere
<1>9. CASE UNCHANGED vars
  <2>1. ChipsQuiet
    BY <1>9 DEF vars, ChipsQuiet, accounts, TakenKept, RiskKept, OpenWhileBetting
  <2> QED
    BY <2>1, QuietMove
<1> QED
  BY <1>1, <1>2, <1>3, <1>4, <1>5, <1>6, <1>7, <1>8, <1>9 DEF Next, PersistStep

-------------------------------------------------------------------------------
THEOREM InitChipInv == Init => ChipInv
<1> SUFFICES ASSUME Init PROVE ChipInv
  OBVIOUS
<1>1. TableInv
  BY InitTableInv
<1>2. IsFiniteSet(unpaid) /\ SettledOnce
  BY FS_EmptySet DEF Init, SettledOnce
<1>3. OpenWhileBetting
  BY DEF Init, OpenWhileBetting, EmptySeat
<1> QED
  BY <1>1, <1>2, <1>3 DEF ChipInv

THEOREM NextChipInv == ChipInv /\ [Next]_vars => ChipInv'
<1> SUFFICES ASSUME ChipInv, [Next]_vars PROVE ChipInv'
  OBVIOUS
<1>1. TableInv'
  BY NextTableInv DEF ChipInv
<1>2. CASE ChipsMove
  BY <1>1, <1>2 DEF ChipsMove, ChipInv
<1>3. CASE BetsAsTheyWere
  <2>1. SettledOnce' /\ OpenWhileBetting'
    BY <1>3 DEF BetsAsTheyWere, ChipInv, SettledOnce, OpenWhileBetting
  <2> QED
    BY <1>1, <1>3, <2>1 DEF BetsAsTheyWere, ChipInv
<1> QED
  BY <1>1, <1>2, <1>3, EveryStep

(***************************************************************************)
(* Who has a bet at risk has no settlement of that hand yet: the invariant *)
(* that the accounts and the refinement rest on.                           *)
(***************************************************************************)
THEOREM ChipInvariance == Spec => []ChipInv
  BY InitChipInv, NextChipInv, PTL DEF Spec

(***************************************************************************)
(* No locked bet leaves the table unsettled, and none shrinks: through     *)
(* leaves, kicks, timeouts, doubles and deals.                             *)
(***************************************************************************)
THEOREM BetsStay == Spec => BetsStayInPlay
<1>1. ASSUME ChipInv, [Next]_vars PROVE [BetsHeld]_vars
  <2>1. TableInv'
    BY <1>1, NextTableInv DEF ChipInv
  <2>2. CASE BetsAsTheyWere
    <3>1. \A s \in Seats : seats[s].bet \in Nat
      BY <1>1, ChipTypes, BlackjackAssumption DEF SeatsType, SeatType
    <3> QED
      BY <2>2, <3>1 DEF BetsAsTheyWere, BetsHeld
  <2> QED
    BY <1>1, <2>1, <2>2, EveryStep DEF ChipsMove
<1> QED
  BY <1>1, ChipInvariance, PTL DEF Spec, BetsStayInPlay, BetsHeld

-------------------------------------------------------------------------------
(* The chips of a user, wherever they are. *)
LEMMA ChipNumbers ==
    ASSUME ChipInv, NEW u \in Users
    PROVE  /\ bank[u] \in Nat /\ net[u] \in Int
           /\ TakenOf(request, u) \in Nat /\ RiskOf(seats, u) \in Nat
           /\ OwedOf(unpaid, u) \in Nat /\ CountOf(unpaid, u) \in Nat
<1>1. TakenOf(request, u) \in Nat
  BY RequestTaken, TakenNat DEF ChipInv, TableInv
<1>2. RiskOf(seats, u) \in Nat
  <2> DEFINE S == {s \in Seats : seats[s].user = u /\ HasUnresolvedBet(seats[s])}
             f == [s \in Seats |-> seats[s].bet]
  <2>1. RiskOf(seats, u) = SumFunctionOnSet(f, S)
    BY DEF RiskOf
  <2>2. S \in SUBSET Seats /\ \A s \in S : f[s] \in Nat
    BY ChipTypes, BlackjackAssumption DEF SeatsType, SeatType
  <2> HIDE DEF S, f
  <2>3. IsFiniteSet(S)
    BY <2>2, SeatsFinite, FS_Subset
  <2> QED
    BY <2>1, <2>2, <2>3, SumNat
<1>3. IsFiniteSet(unpaid) /\ \A x \in unpaid : x.credit \in Nat
  BY ChipTypes DEF UnpaidOK
<1>4. OwedOf(unpaid, u) \in Nat /\ CountOf(unpaid, u) \in Nat
  BY <1>3, OwedNat
<1> QED
  BY <1>1, <1>2, <1>4, ChipTypes

LEMMA ChipNumbersNext ==
    ASSUME ChipInv', NEW u \in Users
    PROVE  /\ bank'[u] \in Nat /\ net'[u] \in Int
           /\ TakenOf(request', u) \in Nat /\ RiskOf(seats', u) \in Nat
           /\ OwedOf(unpaid', u) \in Nat /\ CountOf(unpaid', u) \in Nat
<1>1. TakenOf(request', u) \in Nat
  BY RequestTakenNext, TakenNat DEF ChipInv, TableInv
<1>2. RiskOf(seats', u) \in Nat
  <2> DEFINE S == {s \in Seats : seats'[s].user = u /\ HasUnresolvedBet(seats'[s])}
             f == [s \in Seats |-> seats'[s].bet]
  <2>1. RiskOf(seats', u) = SumFunctionOnSet(f, S)
    BY DEF RiskOf
  <2>2. S \in SUBSET Seats /\ \A s \in S : f[s] \in Nat
    BY BlackjackAssumption DEF ChipInv, TableInv, DebitInv, TypeInv, TypeOK, SeatType
  <2> HIDE DEF S, f
  <2>3. IsFiniteSet(S)
    BY <2>2, SeatsFinite, FS_Subset
  <2> QED
    BY <2>1, <2>2, <2>3, SumNat
<1>3. IsFiniteSet(unpaid') /\ \A x \in unpaid' : x.credit \in Nat
  BY DEF ChipInv, TableInv, DebitInv, TypeInv, TypeOK
<1>4. OwedOf(unpaid', u) \in Nat /\ CountOf(unpaid', u) \in Nat
  BY <1>3, OwedNat
<1>5. bank'[u] \in Nat /\ net'[u] \in Int
  BY DEF ChipInv, TableInv, DebitInv, TypeInv, TypeOK
<1> QED
  BY <1>1, <1>2, <1>4, <1>5

Accounts == \A u \in Users :
    bank[u] + TakenOf(request, u) + RiskOf(seats, u) + OwedOf(unpaid, u)
        = INITIAL_CHIP_BALANCE + net[u]

LEMMA AccountsConserved == Accounts <=> ChipsConserved
  BY DEF Accounts, ChipsConserved, TakenOf, RiskOf, OwedOf, Mine, Taken, AtRisk, Owed

LEMMA InitAccounts == ASSUME Init PROVE Accounts
<1> SUFFICES ASSUME NEW u \in Users
             PROVE  bank[u] + TakenOf(request, u) + RiskOf(seats, u) + OwedOf(unpaid, u)
                      = INITIAL_CHIP_BALANCE + net[u]
  BY DEF Accounts
<1>1. TakenOf(request, u) = 0
  BY TakenNone DEF Init, Holding, NoRequest
<1>2. RiskOf(seats, u) = 0
  BY RiskNone DEF Init, EmptySeat, HasUnresolvedBet
<1>3. OwedOf(unpaid, u) = 0
  <2>1. Mine({}, u) = {}
    BY DEF Mine
  <2> QED
    BY <2>1, SumEmpty DEF Init, OwedOf
<1>4. bank[u] = INITIAL_CHIP_BALANCE /\ net[u] = 0 /\ INITIAL_CHIP_BALANCE \in Nat
  BY ChipsAssumption DEF Init, Ensured
<1> QED
  BY <1>1, <1>2, <1>3, <1>4

LEMMA NextAccounts ==
    ASSUME ChipInv, ChipInv', [Next]_vars, Accounts PROVE Accounts'
<1> SUFFICES ASSUME NEW u \in Users
             PROVE  bank'[u] + TakenOf(request', u) + RiskOf(seats', u) + OwedOf(unpaid', u)
                      = INITIAL_CHIP_BALANCE + net'[u]
  BY DEF Accounts
<1>1. /\ bank[u] \in Nat /\ net[u] \in Int
      /\ TakenOf(request, u) \in Nat /\ RiskOf(seats, u) \in Nat
      /\ OwedOf(unpaid, u) \in Nat
  BY ChipNumbers
<1>2. /\ bank'[u] \in Nat /\ net'[u] \in Int
      /\ TakenOf(request', u) \in Nat /\ RiskOf(seats', u) \in Nat
      /\ OwedOf(unpaid', u) \in Nat
  BY ChipNumbersNext
<1>3. bank[u] + TakenOf(request, u) + RiskOf(seats, u) + OwedOf(unpaid, u)
        = INITIAL_CHIP_BALANCE + net[u]
  BY DEF Accounts
<1>4. INITIAL_CHIP_BALANCE \in Nat /\ CHIP_FLOOR \in Nat
  BY ChipsAssumption
<1>5. CASE ChipsMove
  <2>1. bank'[u] = bank[u]
    BY <1>5 DEF ChipsMove, TableSettles
  <2>2. CASE AccountKept(u)
    BY <1>1, <1>2, <1>3, <1>4, <2>1, <2>2 DEF AccountKept, StakeOf
  <2>3. CASE AccountSettled(u)
    BY <1>1, <1>2, <1>3, <1>4, <2>1, <2>3 DEF AccountSettled, StakeOf
  <2> QED
    BY <1>5, <2>2, <2>3 DEF ChipsMove, TableSettles
<1>6. CASE DebitsOne
  <2>1. PICK v \in Users, a \in Nat \ {0} :
        /\ \/ UNCHANGED bank
           \/ bank[v] >= a /\ bank' = [bank EXCEPT ![v] = bank[v] - a]
        /\ UNCHANGED <<unpaid, seats, round, phase>>
        /\ \A w \in Users : w # v => TakenOf(request', w) = TakenOf(request, w)
        /\ \/ /\ net' = net
              /\ TakenOf(request', v) = TakenOf(request, v) + (bank[v] - bank'[v])
           \/ /\ DbCanFail
              /\ TakenOf(request', v) = TakenOf(request, v)
              /\ net' = [net EXCEPT ![v] = net[v] - (bank[v] - bank'[v])]
    BY <1>6 DEF DebitsOne
  <2>2. RiskOf(seats', u) = RiskOf(seats, u) /\ OwedOf(unpaid', u) = OwedOf(unpaid, u)
    BY <2>1
  <2>3. CASE u = v
    <3>1. \/ /\ net'[u] = net[u]
             /\ TakenOf(request', u) = TakenOf(request, u) + (bank[u] - bank'[u])
          \/ /\ TakenOf(request', u) = TakenOf(request, u)
             /\ net'[u] = net[u] - (bank[u] - bank'[u])
      BY <2>1, <2>3, ChipTypes
    <3> QED
      BY <1>1, <1>2, <1>3, <1>4, <2>2, <3>1
  <2>4. CASE u # v
    <3>1. bank'[u] = bank[u] /\ net'[u] = net[u]
      BY <2>1, <2>4, ChipTypes
    <3>2. TakenOf(request', u) = TakenOf(request, u)
      BY <2>1, <2>4
    <3> QED
      BY <1>3, <2>2, <3>1, <3>2
  <2> QED
    BY <2>3, <2>4
<1>7. CASE WritesOne
  <2>1. PICK v \in Users, c \in Nat :
        /\ UNCHANGED <<request, seats, round, phase>>
        /\ OwedOf(unpaid', v) = OwedOf(unpaid, v) - c
        /\ \A w \in Users : w # v => OwedOf(unpaid', w) = OwedOf(unpaid, w)
        /\ \/ /\ c = 0 /\ bank' = RestoreFloor(bank, v)
              /\ net' = [net EXCEPT ![v] = net[v] + FloorGrant(bank, v)]
           \/ c > 0 /\ bank' = AddBonus(bank, v, c) /\ net' = net
           \/ /\ DbCanFail /\ bank' = bank
              /\ net' = [net EXCEPT ![v] = net[v] - c]
    BY <1>7 DEF WritesOne
  <2>2. RiskOf(seats', u) = RiskOf(seats, u) /\ TakenOf(request', u) = TakenOf(request, u)
    BY <2>1
  <2>3. CASE u = v
    <3>1. FloorGrant(bank, u) \in Nat
      BY <1>1, <1>4 DEF FloorGrant
    <3>2. \/ /\ c = 0 /\ bank'[u] = bank[u] + FloorGrant(bank, u)
             /\ net'[u] = net[u] + FloorGrant(bank, u)
          \/ bank'[u] = bank[u] + c /\ net'[u] = net[u]
          \/ bank'[u] = bank[u] /\ net'[u] = net[u] - c
      BY <2>1, <2>3, ChipTypes DEF RestoreFloor, AddBonus
    <3>3. OwedOf(unpaid', u) = OwedOf(unpaid, u) - c
      BY <2>1, <2>3
    <3> QED
      BY <1>1, <1>2, <1>3, <1>4, <2>1, <2>2, <3>1, <3>2, <3>3
  <2>4. CASE u # v
    <3>1. bank'[u] = bank[u] /\ net'[u] = net[u]
      BY <2>1, <2>4, ChipTypes DEF RestoreFloor, AddBonus
    <3>2. OwedOf(unpaid', u) = OwedOf(unpaid, u)
      BY <2>1, <2>4
    <3> QED
      BY <1>3, <2>2, <3>1, <3>2
  <2> QED
    BY <2>3, <2>4
<1> QED
  BY <1>5, <1>6, <1>7, EveryStep DEF ChipInv

(***************************************************************************)
(* No chip is lost or made: what a user has in the bank, has handed over,  *)
(* has at risk and is owed adds up, through every settlement and refund.   *)
(***************************************************************************)
THEOREM ChipsStay == Spec => []ChipsConserved
<1>1. Init => ChipInv /\ Accounts
  BY InitChipInv, InitAccounts
<1>2. ChipInv /\ Accounts /\ [Next]_vars => (ChipInv /\ Accounts)'
  BY NextChipInv, NextAccounts
<1>3. Accounts => ChipsConserved
  BY AccountsConserved
<1> QED
  BY <1>1, <1>2, <1>3, PTL DEF Spec

-------------------------------------------------------------------------------
(* The state of the chip table, as the refinement maps it. *)
Staked == [u \in Users |-> StakeOf(request, seats, u)]
OwedTo == [u \in Users |-> OwedOf(unpaid, u)]
Unwritten == [u \in Users |-> CountOf(unpaid, u)]

LEMMA TableState ==
    /\ [u \in Users |-> Taken(u) + AtRisk(u)] = Staked
    /\ [u \in Users |-> Owed(u)] = OwedTo
    /\ [u \in Users |-> Cardinality({x \in unpaid : x.user = u})] = Unwritten
  BY DEF Staked, OwedTo, Unwritten, StakeOf, TakenOf, RiskOf, OwedOf, CountOf, Mine,
         Taken, AtRisk, Owed

LEMMA TableStateNext ==
    /\ [u \in Users |-> Taken(u) + AtRisk(u)]' = Staked'
    /\ [u \in Users |-> Owed(u)]' = OwedTo'
    /\ [u \in Users |-> Cardinality({x \in unpaid : x.user = u})]' = Unwritten'
  BY DEF Staked, OwedTo, Unwritten, StakeOf, TakenOf, RiskOf, OwedOf, CountOf, Mine,
         Taken, AtRisk, Owed

LEMMA TableStateAt ==
    ASSUME NEW u \in Users
    PROVE  /\ Staked[u] = TakenOf(request, u) + RiskOf(seats, u)
           /\ Staked'[u] = TakenOf(request', u) + RiskOf(seats', u)
           /\ OwedTo[u] = OwedOf(unpaid, u) /\ OwedTo'[u] = OwedOf(unpaid', u)
           /\ Unwritten[u] = CountOf(unpaid, u) /\ Unwritten'[u] = CountOf(unpaid', u)
  BY DEF Staked, OwedTo, Unwritten, StakeOf

LEMMA InitTable == ASSUME Init PROVE Table!Init
<1>1. ASSUME NEW u \in Users PROVE StakeOf(request, seats, u) = 0
  <2>1. TakenOf(request, u) = 0
    BY TakenNone DEF Init, Holding, NoRequest
  <2>2. RiskOf(seats, u) = 0
    BY RiskNone DEF Init, EmptySeat, HasUnresolvedBet
  <2> QED
    BY <2>1, <2>2 DEF StakeOf
<1>2. ASSUME NEW u \in Users PROVE OwedOf(unpaid, u) = 0 /\ CountOf(unpaid, u) = 0
  <2>1. Mine({}, u) = {}
    BY DEF Mine
  <2> QED
    BY <2>1, SumEmpty, FS_EmptySet DEF Init, OwedOf, CountOf
<1>3. /\ Staked = [u \in Users |-> 0] /\ OwedTo = [u \in Users |-> 0]
      /\ Unwritten = [u \in Users |-> 0]
  BY <1>1, <1>2 DEF Staked, OwedTo, Unwritten
<1>4. bank = Table!Ensured(Users)
  BY DEF Init, Ensured, Table!Ensured
<1> QED
  BY <1>3, <1>4, TableState DEF Table!Init

(* A step of the table settles stakes, or leaves all accounts alone. *)
LEMMA MoveSettles ==
    ASSUME ChipInv, ChipInv', TableSettles
    PROVE  Table!Settle \/ UNCHANGED Table!vars
<1>1. UNCHANGED bank
  BY DEF TableSettles
<1>2. ASSUME NEW u \in Users, AccountKept(u)
      PROVE  Staked'[u] = Staked[u] /\ OwedTo'[u] = OwedTo[u] /\ Unwritten'[u] = Unwritten[u]
  BY <1>2 DEF AccountKept, Staked, OwedTo, Unwritten
<1>3. ASSUME NEW u \in Users, AccountSettled(u)
      PROVE  /\ Staked[u] - Staked'[u] > 0 /\ OwedTo'[u] - OwedTo[u] >= 0
             /\ Unwritten'[u] = Unwritten[u] + 1
             /\ 2 * (OwedTo'[u] - OwedTo[u]) <= 5 * (Staked[u] - Staked'[u])
             /\ Staked'[u] # Staked[u]
  <2>1. PICK b \in Nat \ {0}, c \in Nat :
           /\ 2 * c <= 5 * b
           /\ StakeOf(request', seats', u) = StakeOf(request, seats, u) - b
           /\ OwedOf(unpaid', u) = OwedOf(unpaid, u) + c
           /\ CountOf(unpaid', u) = CountOf(unpaid, u) + 1
    BY <1>3 DEF AccountSettled
  <2>2. StakeOf(request, seats, u) \in Nat /\ OwedOf(unpaid, u) \in Nat
    BY ChipNumbers DEF StakeOf
  <2>3. Staked[u] - Staked'[u] = b /\ OwedTo'[u] - OwedTo[u] = c
        /\ Unwritten'[u] = Unwritten[u] + 1
    BY <2>1, <2>2 DEF Staked, OwedTo, Unwritten
  <2>4. Staked'[u] # Staked[u]
    BY <2>1, <2>2 DEF Staked
  <2> QED
    BY <2>1, <2>3, <2>4
<1>4. CASE \A u \in Users : AccountKept(u)
  <2>1. Staked' = Staked /\ OwedTo' = OwedTo /\ Unwritten' = Unwritten
    BY <1>4 DEF AccountKept, Staked, OwedTo, Unwritten
  <2> QED
    BY <1>1, <2>1, TableState, TableStateNext DEF Table!vars
<1>5. CASE \E u \in Users : AccountSettled(u)
  <2>1. Staked' # Staked
    BY <1>3, <1>5
  <2>2. ASSUME NEW u \in Users
        PROVE  /\ Staked[u] - Staked'[u] >= 0 /\ OwedTo'[u] - OwedTo[u] >= 0
               /\ Staked[u] - Staked'[u] > 0 => Unwritten'[u] = Unwritten[u] + 1
               /\ ~(Staked[u] - Staked'[u] > 0) =>
                     Unwritten'[u] = Unwritten[u] /\ OwedTo'[u] - OwedTo[u] = 0
               /\ 2 * (OwedTo'[u] - OwedTo[u]) <= 5 * (Staked[u] - Staked'[u])
    <3>1. Staked[u] \in Int /\ OwedTo[u] \in Int
      BY ChipNumbers, TableStateAt
    <3>2. CASE AccountKept(u)
      <4>1. Staked'[u] = Staked[u] /\ OwedTo'[u] = OwedTo[u] /\ Unwritten'[u] = Unwritten[u]
        BY <1>2, <3>2
      <4> QED
        BY <3>1, <4>1
    <3>3. CASE AccountSettled(u)
      <4>1. Staked'[u] \in Int
        BY ChipNumbersNext, TableStateAt
      <4> QED
        BY <1>3, <3>1, <3>3, <4>1
    <3> QED
      BY <3>2, <3>3 DEF TableSettles
  <2> QED
    BY <1>1, <2>1, <2>2, TableState, TableStateNext
       DEF Table!Settle, Table!SettledOf, Table!ReturnedTo
<1> QED
  BY <1>4, <1>5 DEF TableSettles

(* A debit stakes the chips it takes, or loses them. *)
LEMMA DebitStakes ==
    ASSUME ChipInv, ChipInv', DebitsOne
    PROVE  (\E u \in Users : Table!Stake(u) \/ Table!Lose(u)) \/ UNCHANGED Table!vars
<1>1. PICK u \in Users, a \in Nat \ {0} :
        /\ \/ UNCHANGED bank
           \/ bank[u] >= a /\ bank' = [bank EXCEPT ![u] = bank[u] - a]
        /\ UNCHANGED <<unpaid, seats, round, phase>>
        /\ \A v \in Users : v # u => TakenOf(request', v) = TakenOf(request, v)
        /\ \/ /\ net' = net
              /\ TakenOf(request', u) = TakenOf(request, u) + (bank[u] - bank'[u])
           \/ /\ DbCanFail
              /\ TakenOf(request', u) = TakenOf(request, u)
              /\ net' = [net EXCEPT ![u] = net[u] - (bank[u] - bank'[u])]
  BY DEF DebitsOne
<1>2. OwedTo' = OwedTo /\ Unwritten' = Unwritten
  BY <1>1 DEF OwedTo, Unwritten
<1>3. \A v \in Users : v # u => Staked'[v] = Staked[v]
  BY <1>1 DEF Staked, StakeOf
<1>4. bank \in [Users -> Nat] /\ bank'[u] \in Nat
  BY ChipTypes, ChipNumbersNext
<1>5. Staked[u] \in Nat
  BY ChipNumbers, TableStateAt
<1>6. TakenOf(request, u) \in Nat /\ RiskOf(seats, u) \in Nat
  BY ChipNumbers
<1>7. CASE TakenOf(request', u) = TakenOf(request, u) + (bank[u] - bank'[u])
  <2>1. Staked'[u] = Staked[u] + bank[u] - bank'[u]
    BY <1>1, <1>4, <1>6, <1>7, TableStateAt
  <2>2. CASE UNCHANGED bank
    <3>1. Staked'[u] = Staked[u]
      BY <1>4, <1>5, <2>1, <2>2
    <3>2. Staked' = Staked
      BY <1>3, <3>1 DEF Staked
    <3> QED
      BY <1>2, <2>2, <3>2, TableState, TableStateNext DEF Table!vars
  <2>3. CASE bank[u] >= a /\ bank' = [bank EXCEPT ![u] = bank[u] - a]
    <3>1. bank'[u] = bank[u] - a
      BY <1>4, <2>3
    <3>2. bank'[u] < bank[u]
      BY <1>4, <3>1
    <3>3. bank' = [bank EXCEPT ![u] = bank'[u]]
      BY <2>3, <3>1
    <3>4. Staked' = [Staked EXCEPT ![u] = Staked[u] + bank[u] - bank'[u]]
      <4>1. \A v \in Users : Staked'[v] =
               [Staked EXCEPT ![u] = Staked[u] + bank[u] - bank'[u]][v]
        BY <1>3, <2>1 DEF Staked
      <4> QED
        BY <4>1 DEF Staked
    <3>5. Table!Stake(u)
      BY <1>2, <3>2, <3>3, <3>4, TableState, TableStateNext DEF Table!Stake
    <3> QED
      BY <3>5
  <2> QED
    BY <1>1, <2>2, <2>3
<1>8. CASE DbCanFail /\ TakenOf(request', u) = TakenOf(request, u)
  <2>1. Staked' = Staked
    <3>1. Staked'[u] = Staked[u]
      BY <1>1, <1>8 DEF Staked, StakeOf
    <3> QED
      BY <1>3, <3>1 DEF Staked
  <2>2. bank'[u] <= bank[u] /\ bank' = [bank EXCEPT ![u] = bank'[u]]
    <3>1. CASE UNCHANGED bank
      BY <1>4, <3>1
    <3>2. CASE bank[u] >= a /\ bank' = [bank EXCEPT ![u] = bank[u] - a]
      <4>1. bank'[u] = bank[u] - a
        BY <1>4, <3>2
      <4> QED
        BY <1>4, <3>2, <4>1
    <3> QED
      BY <1>1, <3>1, <3>2
  <2>3. OwedTo'[u] <= OwedTo[u] /\ OwedTo' = [OwedTo EXCEPT ![u] = OwedTo'[u]]
    <3>1. OwedTo[u] \in Nat
      BY ChipNumbers, TableStateAt
    <3> QED
      BY <1>2, <3>1 DEF OwedTo
  <2>4. Table!Lose(u)
    BY <1>2, <1>8, <2>1, <2>2, <2>3, TableState, TableStateNext DEF Table!Lose
  <2> QED
    BY <2>4
<1> QED
  BY <1>1, <1>7, <1>8

(* A settlement is written to the account, or lost. *)
LEMMA WriteWrites ==
    ASSUME ChipInv, ChipInv', WritesOne
    PROVE  \E u \in Users : Table!Write(u) \/ Table!Lose(u)
<1>1. PICK u \in Users, c \in Nat :
        /\ UNCHANGED <<request, seats, round, phase>>
        /\ OwedOf(unpaid', u) = OwedOf(unpaid, u) - c
        /\ CountOf(unpaid', u) = CountOf(unpaid, u) - 1
        /\ \A v \in Users : v # u => /\ OwedOf(unpaid', v) = OwedOf(unpaid, v)
                                   /\ CountOf(unpaid', v) = CountOf(unpaid, v)
        /\ \/ c = 0 /\ bank' = RestoreFloor(bank, u)
           \/ c > 0 /\ bank' = AddBonus(bank, u, c)
           \/ DbCanFail /\ bank' = bank
  BY DEF WritesOne
<1>2. Staked' = Staked
  BY <1>1 DEF Staked
<1>3. /\ OwedOf(unpaid, u) \in Nat /\ OwedOf(unpaid', u) \in Nat
      /\ CountOf(unpaid, u) \in Nat /\ CountOf(unpaid', u) \in Nat
  BY ChipNumbers, ChipNumbersNext
<1>4. OwedTo[u] - OwedTo'[u] = c /\ OwedTo'[u] <= OwedTo[u]
  BY <1>1, <1>3 DEF OwedTo
<1>5. Unwritten'[u] = Unwritten[u] - 1 /\ Unwritten[u] > 0
  BY <1>1, <1>3 DEF Unwritten
<1>6. OwedTo' = [OwedTo EXCEPT ![u] = OwedTo'[u]]
  BY <1>1 DEF OwedTo
<1>7. Unwritten' = [Unwritten EXCEPT ![u] = Unwritten[u] - 1]
  <2>1. \A v \in Users : Unwritten'[v] = [Unwritten EXCEPT ![u] = Unwritten[u] - 1][v]
    BY <1>1, <1>5 DEF Unwritten
  <2> QED
    BY <2>1 DEF Unwritten
<1>8. CASE \/ c = 0 /\ bank' = RestoreFloor(bank, u)
           \/ c > 0 /\ bank' = AddBonus(bank, u, c)
  <2>1. bank' = IF c = 0 THEN Table!RestoreFloor(bank, u) ELSE Table!AddBonus(bank, u, c)
    BY <1>8 DEF RestoreFloor, AddBonus, FloorGrant, Table!RestoreFloor, Table!AddBonus,
                Table!FloorGrant
  <2>2. /\ OwedTo[u] - OwedTo'[u] >= 0
        /\ bank' = IF OwedTo[u] - OwedTo'[u] = 0 THEN Table!RestoreFloor(bank, u)
                   ELSE Table!AddBonus(bank, u, OwedTo[u] - OwedTo'[u])
    BY <1>4, <2>1
  <2>3. Table!Write(u)
    BY <1>2, <1>5, <1>6, <1>7, <2>2, TableState, TableStateNext, Zenon DEF Table!Write
  <2> QED
    BY <2>3
<1>9. CASE DbCanFail /\ bank' = bank
  <2>1. bank'[u] <= bank[u] /\ bank' = [bank EXCEPT ![u] = bank'[u]]
    BY <1>9, ChipTypes
  <2>2. Table!Lose(u)
    BY <1>2, <1>4, <1>6, <1>7, <1>9, <2>1, TableState, TableStateNext DEF Table!Lose
  <2> QED
    BY <2>2
<1> QED
  BY <1>1, <1>8, <1>9

(***************************************************************************)
(* Blackjack implements ChipTable: every stake is settled once, for at     *)
(* most three to two on top of it, and every settlement is written once.   *)
(***************************************************************************)
THEOREM KeepsTable == Spec => ImplementsChipTable
<1>1. ChipInv /\ ChipInv' /\ [Next]_vars => [Table!Next]_(Table!vars)
  <2> SUFFICES ASSUME ChipInv, ChipInv', [Next]_vars PROVE [Table!Next]_(Table!vars)
    OBVIOUS
  <2>1. ChipsMove \/ DebitsOne \/ WritesOne
    BY EveryStep DEF ChipInv
  <2>2. CASE ChipsMove
    BY <2>2, MoveSettles DEF ChipsMove, Table!Next
  <2>3. CASE DebitsOne
    BY <2>3, DebitStakes DEF Table!Next
  <2>4. CASE WritesOne
    BY <2>4, WriteWrites DEF Table!Next
  <2> QED
    BY <2>1, <2>2, <2>3, <2>4
<1>2. Init => Table!Init
  BY InitTable
<1> QED
  BY <1>1, <1>2, ChipInvariance, PTL DEF Spec, ImplementsChipTable, Table!Spec

(***************************************************************************)
(* The rules of blackjack for hands of any cards and any length: the loop  *)
(* that raises aces finds the best total, and the kinds of hands by which  *)
(* the table service is modelled allow all that cards can do.              *)
(***************************************************************************)
Hands == {h \in Seq(Values) : Len(h) >= 2}

HandsInv == player \in Hands /\ dealer_hand \in Hands

(* A loop that takes steps of ten while the total stays within a limit.    *)
TakesTens(g, hard, limit) ==
    g = [n \in Nat |-> IF n = 0 THEN hard
                       ELSE IF g[n - 1] + 10 <= limit THEN g[n - 1] + 10 ELSE g[n - 1]]

-------------------------------------------------------------------------------
LEMMA TensWithin ==
    ASSUME NEW hard \in Nat, NEW limit \in Nat
    PROVE  \E q \in Nat : /\ q > 0 => hard + 10 * q <= limit
                          /\ hard + 10 * q + 10 > limit
<1>1. CASE hard > limit
  BY <1>1
<1>2. CASE hard <= limit
  <2> DEFINE rest == limit - hard
  <2>1. rest \in Nat
    BY <1>2
  <2>2. rest \div 10 \in Nat /\ 10 * (rest \div 10) <= rest /\ rest < 10 * (rest \div 10) + 10
    BY <2>1
  <2> QED
    BY <2>1, <2>2
<1> QED
  BY <1>1, <1>2

LEMMA TensExist ==
    ASSUME NEW hard \in Nat, NEW limit \in Nat
    PROVE  \E g : TakesTens(g, hard, limit)
<1>1. PICK q \in Nat : (q > 0 => hard + 10 * q <= limit) /\ hard + 10 * q + 10 > limit
  BY TensWithin
<1> DEFINE g == [n \in Nat |-> hard + 10 * (IF n <= q THEN n ELSE q)]
<1>2. ASSUME NEW n \in Nat
      PROVE  g[n] = IF n = 0 THEN hard
                    ELSE IF g[n - 1] + 10 <= limit THEN g[n - 1] + 10 ELSE g[n - 1]
  <2>1. CASE n = 0
    BY <2>1
  <2>2. CASE n # 0 /\ n <= q
    <3>1. n - 1 \in Nat /\ g[n - 1] = hard + 10 * (n - 1) /\ g[n] = hard + 10 * n
      BY <2>2
    <3>2. g[n - 1] + 10 <= limit
      BY <1>1, <2>2, <3>1
    <3> HIDE DEF g
    <3> QED
      BY <2>2, <3>1, <3>2
  <2>3. CASE n > q
    <3>1. n - 1 \in Nat /\ g[n - 1] = hard + 10 * q /\ g[n] = hard + 10 * q
      BY <2>3
    <3> HIDE DEF g
    <3> QED
      BY <1>1, <2>3, <3>1
  <2> QED
    BY <2>1, <2>2, <2>3
<1>3. TakesTens(g, hard, limit)
  BY <1>2 DEF TakesTens
<1> HIDE DEF g
<1> QED
  BY <1>3

(* After n rounds, as many tens were taken as n and the limit allow.       *)
LEMMA TensTaken ==
    ASSUME NEW hard \in Nat, NEW limit \in Nat, NEW g, TakesTens(g, hard, limit), NEW n \in Nat
    PROVE  \E k \in 0 .. n : /\ g[n] = hard + 10 * k
                             /\ k > 0 => g[n] <= limit
                             /\ k < n => g[n] + 10 > limit
<1> DEFINE Added(m) == \E k \in 0 .. m : /\ g[m] = hard + 10 * k
                                         /\ k > 0 => g[m] <= limit
                                         /\ k < m => g[m] + 10 > limit
           S == {m \in Nat : Added(m)}
<1>1. 0 \in S
  BY DEF TakesTens
<1>2. ASSUME NEW m \in S PROVE m + 1 \in S
  <2>1. PICK k \in 0 .. m : /\ g[m] = hard + 10 * k
                            /\ k > 0 => g[m] <= limit
                            /\ k < m => g[m] + 10 > limit
    OBVIOUS
  <2>2. g[m + 1] = IF g[m] + 10 <= limit THEN g[m] + 10 ELSE g[m]
    BY DEF TakesTens
  <2>3. CASE g[m] + 10 <= limit
    <3>1. k = m
      BY <2>1, <2>3
    <3>2. g[m + 1] = hard + 10 * (m + 1) /\ g[m + 1] <= limit /\ m + 1 \in 0 .. m + 1
      BY <2>1, <2>2, <2>3, <3>1
    <3> QED
      BY <3>2
  <2>4. CASE ~(g[m] + 10 <= limit)
    <3>1. g[m + 1] = g[m] /\ g[m + 1] + 10 > limit /\ k \in 0 .. m + 1
      BY <2>1, <2>2, <2>4
    <3> QED
      BY <2>1, <3>1
  <2> QED
    BY <2>3, <2>4
<1>3. S = Nat
  <2> HIDE DEF Added
  <2>1. S \in SUBSET Nat
    OBVIOUS
  <2> HIDE DEF S
  <2> QED
    BY <1>1, <1>2, <2>1, NatSetInduction
<1> QED
  BY <1>3

-------------------------------------------------------------------------------
LEMMA CardsOfHand ==
    ASSUME NEW h \in Hands
    PROVE  /\ Len(h) \in Nat /\ Len(h) >= 2 /\ DOMAIN h = 1 .. Len(h)
           /\ h \in Seq(Values)
           /\ \A i \in 1 .. Len(h) : h[i] \in 1 .. 10
<1>1. h \in Seq(Values) /\ Len(h) >= 2
  BY DEF Hands
<1>2. Values \subseteq 1 .. 10
  BY RulesAssumption
<1>3. Len(h) \in Nat /\ DOMAIN h = 1 .. Len(h) /\ \A i \in 1 .. Len(h) : h[i] \in Values
  BY <1>1
<1> QED
  BY <1>1, <1>2, <1>3

LEMMA HandTypes ==
    ASSUME NEW h \in Hands
    PROVE  HardTotal(h) \in Nat /\ Aces(h) \in Nat
<1>1. Len(h) \in Nat /\ DOMAIN h = 1 .. Len(h) /\ IsFiniteSet(1 .. Len(h))
  BY CardsOfHand, FS_Interval
<1>2. \A i \in 1 .. Len(h) : h[i] \in Nat
  BY CardsOfHand
<1>3. HardTotal(h) \in Nat
  BY <1>1, <1>2, SumNat DEF HardTotal
<1>4. Aces(h) \in Nat
  <2> DEFINE aces == {i \in 1 .. Len(h) : h[i] = 1}
  <2>1. IsFiniteSet(aces) /\ Aces(h) = Cardinality(aces)
    BY <1>1, FS_Subset DEF Aces
  <2> HIDE DEF aces
  <2> QED
    BY <2>1, FS_CardinalityType
<1> QED
  BY <1>3, <1>4

(* The score counts some of the aces as 11, and never one more than fits.  *)
LEMMA ScoreFacts ==
    ASSUME NEW h \in Hands
    PROVE  \E k \in 0 .. Aces(h) :
             /\ Score(h) = HardTotal(h) + 10 * k
             /\ k > 0 => Score(h) <= BLACKJACK_TARGET
             /\ k < Aces(h) => Score(h) + 10 > BLACKJACK_TARGET
<1> DEFINE hard == HardTotal(h)
           limit == BLACKJACK_TARGET
           g == CHOOSE f : TakesTens(f, hard, limit)
<1>1. hard \in Nat /\ Aces(h) \in Nat /\ limit \in Nat
  BY HandTypes, RulesAssumption
<1>2. Score(h) = g[Aces(h)]
  BY DEF Score, TakesTens
<1> HIDE DEF hard, limit
<1>3. \E f : TakesTens(f, hard, limit)
  BY <1>1, TensExist
<1>4. TakesTens(g, hard, limit)
  BY <1>3
<1> HIDE DEF g
<1>5. \E k \in 0 .. Aces(h) : /\ g[Aces(h)] = hard + 10 * k
                              /\ k > 0 => g[Aces(h)] <= limit
                              /\ k < Aces(h) => g[Aces(h)] + 10 > limit
  BY <1>1, <1>4, TensTaken
<1> QED
  BY <1>2, <1>5 DEF hard, limit

LEMMA ScoreTyped ==
    ASSUME NEW h \in Hands
    PROVE  Score(h) \in Nat /\ (HardTotal(h) <= BLACKJACK_TARGET => Score(h) <= BLACKJACK_TARGET)
<1>1. HardTotal(h) \in Nat /\ Aces(h) \in Nat /\ BLACKJACK_TARGET \in Nat
  BY HandTypes, RulesAssumption
<1>2. PICK k \in 0 .. Aces(h) :
        /\ Score(h) = HardTotal(h) + 10 * k
        /\ k > 0 => Score(h) <= BLACKJACK_TARGET
  BY ScoreFacts
<1>3. k \in Nat /\ 10 * k \in Nat
  BY <1>1
<1>4. CASE k = 0
  <2>1. Score(h) = HardTotal(h)
    BY <1>1, <1>2, <1>4
  <2> QED
    BY <1>1, <2>1
<1>5. CASE k > 0
  BY <1>1, <1>2, <1>3, <1>5
<1> QED
  BY <1>3, <1>4, <1>5

LEMMA BestOfHand ==
    ASSUME NEW h \in Hands
    PROVE  Score(h) = BestTotal(h)
<1> DEFINE hard == HardTotal(h)
           limit == BLACKJACK_TARGET
           totals == {hard + 10 * n : n \in 0 .. Aces(h)}
           within == {t \in totals : t <= limit}
           score == Score(h)
<1>1. hard \in Nat /\ Aces(h) \in Nat /\ limit \in Nat
  BY HandTypes, RulesAssumption
<1>2. BestTotal(h) = IF within = {} THEN Min(totals) ELSE Max(within)
  BY DEF BestTotal, Totals
<1>3. PICK k \in 0 .. Aces(h) :
        /\ score = hard + 10 * k
        /\ k > 0 => score <= limit
        /\ k < Aces(h) => score + 10 > limit
  BY ScoreFacts
<1> HIDE DEF hard, limit, score
<1>4. \A t \in totals : t \in Nat /\ t >= hard
  BY <1>1
<1>5. hard \in totals /\ score \in totals
  BY <1>1, <1>3
<1>6. CASE hard > limit
  <2>1. k = 0 /\ score = hard
    BY <1>1, <1>3, <1>6
  <2>2. within = {}
    BY <1>1, <1>4, <1>6
  <2>3. \A x \in totals : (\A t \in totals : x <= t) => x = hard
    BY <1>1, <1>4, <1>5
  <2>4. \A t \in totals : hard <= t
    BY <1>1, <1>4
  <2> HIDE DEF totals
  <2>5. Min(totals) = hard
    BY <1>5, <2>3, <2>4 DEF Min
  <2> QED
    BY <1>2, <2>1, <2>2, <2>5 DEF score
<1>7. CASE hard <= limit
  <2>1. score \in within
    BY <1>1, <1>3, <1>5, <1>7
  <2>2. ASSUME NEW t \in within PROVE t <= score
    <3>1. PICK n \in 0 .. Aces(h) : t = hard + 10 * n
      OBVIOUS
    <3>2. n <= k
      BY <1>1, <1>3, <2>2, <3>1
    <3> QED
      BY <1>1, <1>3, <3>1, <3>2
  <2>3. \A t \in within : t \in Nat
    BY <1>4
  <2> HIDE DEF within
  <2>4. \A x \in within : (\A t \in within : t <= x) => x = score
    BY <2>1, <2>2, <2>3
  <2>5. Max(within) = score
    BY <2>1, <2>2, <2>4 DEF Max
  <2> QED
    BY <1>2, <2>1, <2>5 DEF score
<1> QED
  BY <1>1, <1>6, <1>7

(* Two cards are never bust.                                               *)
LEMMA TwoCards ==
    ASSUME NEW h \in Hands, Len(h) = 2
    PROVE  ~IsBust(h)
<1> DEFINE places == 1 .. 2
<1>1. DOMAIN h = places /\ \A i \in places : h[i] \in 1 .. 10
  BY CardsOfHand
<1>0. IsFiniteSet(places) /\ 1 \in places /\ 2 \in places /\ places \ {1} = {2}
  <2>1. IsFiniteSet(places)
    <3>1. IsFiniteSet(1 .. Len(h))
      BY CardsOfHand, FS_Interval
    <3> QED
      BY <3>1
  <2>2. 1 \in places /\ 2 \in places /\ places \ {1} = {2}
    OBVIOUS
  <2> QED
    BY <2>1, <2>2
<1> HIDE DEF places
<1>2. (\A i \in places : h[i] \in Int) /\ h[1] \in 1 .. 10 /\ h[2] \in 1 .. 10
  BY <1>0, <1>1
<1>3. SumFunctionOnSet(h, places) = h[1] + SumFunctionOnSet(h, {2})
  BY <1>0, <1>2, SumRemove
<1>4. SumFunctionOnSet(h, {2}) = h[2]
  BY <1>2, SumOfOne
<1>5. HardTotal(h) <= 20
  BY <1>1, <1>2, <1>3, <1>4 DEF HardTotal
<1>6. HardTotal(h) \in Nat /\ BLACKJACK_TARGET \in Nat /\ BLACKJACK_TARGET >= 20
  BY HandTypes, RulesAssumption
<1>7. Score(h) \in Nat /\ Score(h) <= BLACKJACK_TARGET
  BY <1>5, <1>6, ScoreTyped
<1> QED
  BY <1>6, <1>7 DEF IsBust

-------------------------------------------------------------------------------
LEMMA InitHands == RulesInit => HandsInv
<1>1. ASSUME NEW h \in Values \X Values PROVE h \in Hands
  <2>1. PICK a \in Values, b \in Values : h = <<a, b>>
    OBVIOUS
  <2>2. <<a, b>> \in Seq(Values) /\ Len(<<a, b>>) = 2
    OBVIOUS
  <2>3. <<a, b>> \in Hands
    BY <2>2 DEF Hands
  <2> QED
    BY <2>1, <2>3
<1> QED
  BY <1>1 DEF RulesInit, HandsInv

LEMMA NextHands == HandsInv /\ [RulesNext]_rules_vars => HandsInv'
<1> SUFFICES ASSUME HandsInv, [RulesNext]_rules_vars PROVE HandsInv'
  OBVIOUS
<1>1. \A h \in Hands, c \in Values : Append(h, c) \in Hands
  BY DEF Hands
<1>2. CASE PlayerHits
  BY <1>1, <1>2 DEF PlayerHits, HandsInv
<1>3. CASE DealerHits
  BY <1>1, <1>3 DEF DealerHits, HandsInv
<1>4. CASE UNCHANGED rules_vars
  BY <1>4 DEF rules_vars, HandsInv
<1> QED
  BY <1>2, <1>3, <1>4 DEF RulesNext

LEMMA OutcomesOfKinds ==
    ASSUME NEW d
    PROVE  /\ SettleOutcomes("bust", d) = {"DealerWin"}
           /\ SettleOutcomes("natural", "natural") = {"Push"}
           /\ d # "natural" => SettleOutcomes("natural", d) = {"PlayerBlackjack"}
<1>1. SettleOutcomes("bust", d) = {"DealerWin"}
  BY DEF SettleOutcomes, LiveHands
<1>2. SettleOutcomes("natural", "natural") = {"Push"}
  BY DEF SettleOutcomes, LiveHands
<1>3. d # "natural" => SettleOutcomes("natural", d) = {"PlayerBlackjack"}
  BY DEF SettleOutcomes, LiveHands
<1> QED
  BY <1>1, <1>2, <1>3

(* A draw is settled by its kinds alone, up to what the scores leave open. *)
LEMMA KindsSettle ==
    ASSUME NEW p \in Hands, NEW d \in Hands, ~DealerMustHit(d) \/ Kind(p) = "bust"
    PROVE  SettleCards(p, d) \in SettleOutcomes(Kind(p), DealerKind(d))
<1>1. Score(p) \in Nat /\ Score(d) \in Nat /\ BLACKJACK_TARGET \in Nat
  BY ScoreTyped, RulesAssumption
<1>2. CASE IsBust(p)
  <2>1. SettleCards(p, d) = "DealerWin" /\ Kind(p) = "bust"
    BY <1>2 DEF SettleCards, Kind
  <2> QED
    BY <2>1, OutcomesOfKinds
<1>3. CASE ~IsBust(p) /\ IsNatural(p)
  <2>1. Kind(p) = "natural" /\ ~DealerMustHit(d)
    BY <1>3 DEF Kind
  <2>2. DealerKind(d) = "natural" <=> IsNatural(d) /\ ~IsBust(d)
    BY <2>1 DEF DealerKind
  <2>3. IsNatural(d) => ~IsBust(d)
    BY <1>1 DEF IsNatural, IsBust
  <2>4. SettleCards(p, d) = IF IsNatural(d) THEN "Push" ELSE "PlayerBlackjack"
    BY <1>3 DEF SettleCards
  <2> QED
    BY <2>1, <2>2, <2>3, <2>4, OutcomesOfKinds
<1>4. CASE ~IsBust(p) /\ ~IsNatural(p)
  <2>1. Kind(p) \in LiveHands /\ ~DealerMustHit(d)
    BY <1>4 DEF Kind, LiveHands
  <2>2. SettleCards(p, d) = IF IsBust(d) THEN "PlayerWin"
                            ELSE IF Score(p) > Score(d) THEN "PlayerWin"
                            ELSE IF Score(p) < Score(d) THEN "DealerWin"
                            ELSE "Push"
    BY <1>4 DEF SettleCards
  <2>3. CASE IsBust(d)
    <3>1. DealerKind(d) = "bust"
      BY <2>1, <2>3 DEF DealerKind
    <3> QED
      BY <2>1, <2>2, <2>3, <3>1 DEF SettleOutcomes, LiveHands
  <2>4. CASE ~IsBust(d) /\ IsNatural(d)
    <3>1. DealerKind(d) = "natural" /\ Score(d) = BLACKJACK_TARGET
      BY <2>1, <2>4 DEF DealerKind, IsNatural
    <3>2. Score(p) <= Score(d)
      BY <1>1, <1>4, <3>1 DEF IsBust
    <3>3. Kind(p) = "two" => Score(p) # Score(d)
      BY <1>4, <3>1 DEF Kind, IsPair, IsNatural
    <3> QED
      BY <1>1, <2>1, <2>2, <2>4, <3>1, <3>2, <3>3 DEF SettleOutcomes, LiveHands
  <2>5. CASE ~IsBust(d) /\ ~IsNatural(d)
    <3>1. DealerKind(d) = "standing"
      BY <2>1, <2>5 DEF DealerKind
    <3> QED
      BY <2>1, <2>2, <3>1 DEF SettleOutcomes, LiveHands
  <2> QED
    BY <2>3, <2>4, <2>5
<1> QED
  BY <1>2, <1>3, <1>4

LEMMA HandsAllowed == HandsInv => KindsAreAllowed
<1> SUFFICES ASSUME HandsInv PROVE KindsAreAllowed
  OBVIOUS
<1>1. player \in Hands /\ dealer_hand \in Hands
  BY DEF HandsInv
<1>2. Kind(player) \in IF Len(player) = 2 THEN DealtHands ELSE AfterHit
  BY <1>1, TwoCards DEF Kind, IsNatural, IsPair, DealtHands, AfterHit
<1>3. DealerKind(dealer_hand) \in
        IF Len(dealer_hand) = 2 THEN DealtDealerHands ELSE AfterDealerDraw
  BY <1>1, TwoCards DEF DealerKind, IsNatural, DealtDealerHands, AfterDealerDraw
<1> QED
  BY <1>1, <1>2, <1>3, KindsSettle DEF KindsAreAllowed

(* The loop that raises aces one by one while the total stays within 21    *)
(* finds the best total of any hand, however many cards and aces it has.   *)
THEOREM ScoresBest == RulesSpec => []ScoreIsBest
<1>1. HandsInv => ScoreIsBest
  BY BestOfHand DEF HandsInv, ScoreIsBest
<1> QED
  BY InitHands, NextHands, <1>1, PTL DEF RulesSpec

(* Whatever is dealt and drawn, the hands are of the kinds that the table  *)
(* model deals and draws, and settle() gives an outcome that it allows.    *)
THEOREM KindsSuffice == RulesSpec => []KindsAreAllowed
  BY InitHands, NextHands, HandsAllowed, PTL DEF RulesSpec
===============================================================================
