# late.sh: a verification project

late.sh is a social terminal reached over SSH: chat, music, arcade games and
multiplayer game rooms, with an in-house currency, chips, that games stake and
pay. This directory holds TLA+ models of its concurrent core, TLC
configurations that check them on small instances, and TLAPS proofs. Line
numbers below are of the files under `src/`; `rooms/` stands for
`src/late-ssh/src/app/rooms/`, `app/` for `src/late-ssh/src/app/`, and `models/`
for `src/late-core/src/models/`.

## 1. The system and its parts

One process, `late-ssh`, serves every connection (two while a rollout overlaps). A
connection is an SSH session with its own input and render loops; what sessions
share lives in services that keep their state behind a mutex, spawn tokio tasks,
publish snapshots and events, and store durable state in PostgreSQL through
`late-core`.

| Component | State it keeps | Operations | What is hard | What makes it correct |
|---|---|---|---|---|
| Chip accounts (`models/chips.rs`, `models/game_payout.rs`, `app/games/chips/svc.rs`) | a balance per user, ledger rows, claims | ensure, deduct, add_bonus, restore_floor, gift, drink, reward claims | callers debit and credit from many tasks, any statement can fail, rows are locked in different orders | no chip appears or disappears; no balance goes below zero; a claim is paid once |
| Hub: shop and quests (`models/marketplace.rs`, `models/quest.rs`, `app/hub/`) | purchases, what is worn, fish in the tank, progress, streaks | buy, equip, show fish, feed, treat, report progress | a purchase writes the balance it has read; limits span rows; events come twice, late and from two processes | limits hold; a reward is paid once |
| Blackjack table (`rooms/blackjack/svc.rs`) | seats, phase, dealer's hand, two deadlines, three task counters, behind one mutex | sit, leave, stake, bet, hit, stand, double, next hand; auto-deal, action timeout, dealer turn, idle kick | every debit releases the mutex; four kinds of timer tasks; seats vanish for four reasons | debits find their seats, timers have their tasks, rounds start and end, chips are conserved |
| Blackjack rules (`rooms/blackjack/state.rs`) | none | score, settle, dealer_must_hit, payout_credit | aces, naturals, bounds at 17 and 21 | the score is the best total; settlement order |
| Poker table (`rooms/poker/svc.rs`) | seats, stacks, pots, turn, commits in flight | sit, leave, start, call, raise, fold, auto check/fold; blinds, turn timeout, settlement, idle kick | the same debits, with turns, side pots and a stack that follows the account | streets close even, pots are paid once and in full, the turn always moves |
| Chess room (`rooms/chess/svc.rs`) | seats, game, clocks, deadline, `runtime_state` | sit, ready, move, resign, flag, restore | clocks against moves; unordered saves; state survives a restart | a restart finds what was saved; no early flag, every flag falls; one winner |
| Rooms service (`rooms/svc.rs`, `models/game_room.rs`) | `game_rooms` rows; a generation per room; a status lock | create, delete, enter, touch, status updates, cleanup, start-up reconciliation | status tasks unordered and retried; restart | the row follows the table; running rounds are not deleted |
| Audio queue (`app/audio/svc.rs`, `models/media_queue_item.rs`) | rows of the queue; per process: current item, mode, votes, timers | submit, advance, vote, skip, delete, lock, fall back, reconcile, resume | statements of two processes interleave under two mutexes; votes against timers; faults | what plays has a timer; skips are voted; the queue empties |
| `paired_clients.rs` | which of a user's clients plays | pair, claim | one mutex | |
| Tron, tic-tac-toe | one game behind a mutex | seats, moves, ticks | little concurrency | winner once |
| Asterion, ssHattrick | adapters to external game crates | | outside the repository | |
| Chat, notifications, IRC gateway, moderation | database rows, broadcast channels | messages, rooms, bans | ordering is the database's | |
| Voice, clubhouse, artboard | presence, positions, a canvas | | last write wins | |
| Arcade, door games, companions | per-session games | | one task per game | |
| Front ends: SSH, HTTP API, web, CLI | connections | | I/O | |

How they interact: a session calls a table's `*_task` methods, which spawn a task
that locks the table; a table calls the chip service with the mutex released, and
its rooms service (with the mutex held) to mark or save its room's row; the shop,
quests and rewards meet the tables in the rows of `user_chips`; a restart loses
every table, generation and task, and keeps balances and rows. The full list of
components, with the reason for each that is not modelled, is in `PROJECT.json`;
so are the hazards, each at its line.

## 2. The modules

| Module | Models | Uses |
|---|---|---|
| `Chips` | the balance operations tables call, as operators on a balance sheet | |
| `ChipTable` | the abstract specification of a card table: chips are staked, each stake is settled once, each settlement is written once | `Chips` |
| `BlackjackHands` | hands as the table service sees them: kinds, and the outcomes settlement allows for two kinds | |
| `BlackjackRules` | scoring and settlement on cards, and that `BlackjackHands` allows all they can do | `BlackjackHands` |
| `Blackjack` | one table, its tasks, its requests and the accounts they use | `Chips`, `BlackjackHands` |
| `BlackjackChips` | the refinement mapping to `ChipTable` | `Blackjack`, `ChipTable` |
| `PokerPots` | side pots and the split of odd chips, as operators | |
| `PokerHands` | the ranking of seven cards in one pass, against the best of the 21 hands of five | |
| `Poker` | one table, its commits, settlements, timers and kicks | `Chips`, `PokerPots` |
| `PokerChips` | the refinement mapping to `ChipTable` | `Poker`, `ChipTable` |
| `ChessRoom` | one room, its deadline tasks, its saves and restarts | |
| `RoomStatus` | the status tasks of the rooms service, the cleanup, restart and reconciliation | |
| `AudioQueue` | the rows of the queue and the processes that share them | |
| `Economy` | accounts, shop, claims and quests as transactions that lock rows | |
| `BlackjackProofs` | theorems about `Blackjack`, in parts: types; debits in flight; phases, timers and leaves; chips and the refinement; then about `BlackjackRules` | `BlackjackChips`, `BlackjackRules`, `SumFacts` |
| `PokerProofs` | theorems about `Poker`: types; leaves and turns; commits, streets and raises; chips | `SumFacts` |
| `PokerChipsProofs` | the refinement: poker implements `ChipTable` | `PokerChips`, `PokerProofs` |
| `ChessRoomProofs` | theorems about `ChessRoom`: types, saves and wins; clocks | |
| `RoomStatusProofs`, `AudioQueueProofs` | theorems about `RoomStatus` and `AudioQueue` | |
| `EconomyProofs` | theorems about `Economy`: balances; limits; deadlocks | `SumFacts` |
| `SumFacts` | induction over naturals and finite sets, and what the sums and folds of the community modules compute | |
| `MC*` | small instances and symmetry for TLC | |

**Instances.** One question often needs several small instances, each bounded in a
different direction. `Poker`, `AudioQueue` and `Economy` have a constant `Instances` and a
variable (`bounds`, `request`) that `Init` picks from it: who sits down with
what stack, which processes, users and items there are, how much may fail, which
transactions run. A run explores all its instances side by side.

### Blackjack

A critical section of the table's mutex is an action, and so is a statement of the
chip database. The variables are the fields of `SharedTableState` and `SeatState`
(svc.rs:1142-1182), with amounts for bets (0 is `None`) and hands reduced to the
questions the service asks of them.

*Requests.* `submit_stake` and `double_down` debit chips between two critical
sections. Each of the `Requests` is a slot for such a task and walks through
*submitted* (the stake was read), *debiting* (the seat is marked pending), *taken*
or *refused* (the database answered), and back to idle. Everything else can run
between these steps. With two slots, two users or two requests of one user are in
flight together.

*Timer tasks.* A countdown is a deadline (`running`, then `due` when time has
passed) and an id; a task polls until the id no longer matches. `dealTasks`,
`actionTasks` and `dealerTasks` hold the ids of live tasks: two tasks of the same
id do the same thing, the second finding a mismatch. When a deadline passes, and
when the five idle minutes of a seat are over, is left open. `armed` says that an
inactivity task with the seat's current generation exists; older ones do nothing.

*Settlements* computed under the mutex go to `unpaid` and are written one by one by
`PersistSettlement`, after the mutex is released and in any order. A statement
that fails may have been applied or not; `net` records what was lost.

*Left out:* time itself (so also `SETTLEMENT_MIN_VIEW_MS`), the shoe (any card may
come), chip order within a stake, status texts and snapshots, player names and
cached balances, activity events, ledger rows. `dealer_turn_scheduled` is folded
into `BeginDealerTurn`: every caller of `begin_dealer_turn` schedules the task in
the same critical section. `deal_task` and `place_bet_task` have no caller.
`place_bet` and `finish_double_down` have branches for a seat that is gone or
changed while the chips were debited; they are not modelled, because
`PendingTracksDebit` shows that they cannot be reached.

### Poker

`state` is `SharedState`; an action applies the operators named after its methods
(`StartHand`, `ApplyFold`, `AdvanceAfterAction`, ...) one after the other, as the
critical section does, and ends in `Publish`, which starts the countdown of the turn and
spawns the settlement that the section owes its caller. A commit is a task: the seat
is marked with it, the bank takes or refuses the chips, and the answer is applied under
the mutex if the seat still waits for this commit. Blinds are commits of the same
kind, posted one after the other. A settlement task pays seat after seat, then
clears the hand and removes those who leave. `sync_balance` tasks carry a balance
that may be old by the time they lock the table. Hands are strengths, drawn when a
hand is dealt; `PokerHands` shows that the code orders real hands as strengths are
ordered. Streets deal no cards in the model.

### ChessRoom

`room` is `SharedState`, `row` its copy in `game_rooms.runtime_state`, and `saves` the tasks
that carry a copy to the row in any order, guarded by the revision. `tasks` are the
deadline tasks, each with the generation of its turn and its own wake-up time; a task
wakes once. Time is in ticks, `SecondTicks` of them a second, since the clocks count
whole seconds and the deadline does not. `Stop` drops room, tasks and saves; the next one who
enters builds the room from the row (`GetOrCreate`), and `restore_active_clock` decides
what becomes of a deadline that passed.

### RoomStatus

`SyncRoomStatus` is `sync_room_status_task` (svc.rs:247) with the task that it
spawns; a task takes `status_update_lock` and compares generations (`TakeLock`),
updates the row and publishes (`WriteStatus`), or fails before or after the update
(`FailToWrite`) and retries or gives way (`Retry`). `DeleteRoom` is the cleanup and
the administrator's delete. `Restart` loses the process and spawns the
reconciliation of main.rs:212, which the server does not wait for and which tries once: it resets the
stale rows (`ReconcileRoundStatuses`) or fails before or after its update (`FailToReconcile`). Two history
variables serve the properties: `written`, the last generation written, and
`overtaken`, whether the reconciliation reset a running round's row.

### AudioQueue

A process is a record: its `QueueState` and, in `at`, the place between two database
statements of the operation that holds the mutex. Public operations start at *idle* and
walk through `FinishItem`, `SkipItem`, `AdoptCurrent`, `AdoptOrAdvance`, `FirstQueued`, `MarkPlaying` and so
on, each one a statement with what follows it in memory; the other process runs
between them, and `Fail` ends the operation at any of them, as `?` does. The order of
queued items by votes and time is left open. A listener is of one process; `switching` and
`asking` are the steps of changing the source and voting that come before the mutex. `audience` is history: how many
listened when the votes that skip an item were counted, which is the denominator of the code's threshold.

### Economy

A request is one transaction, the task that makes it a *sender*. `Statements` lists what
each kind of transaction locks and in which order; `Execute` takes one row at a time
(an UPDATE of several rows takes them in any order) and waits if another holds it.
Under READ COMMITTED a statement sees what has been committed, so the checks of the code
(`Refused`) are evaluated when their statement has its locks, the balance a purchase
computes with is remembered from its own SELECT (`tx[t].balance`), and the writes are one
step at the commit, as nobody sees them before. A commit keeps nothing locked. Whatever
is open may fail without a trace. Cooldowns are abstracted to one per day. `grants` and
`late` are history.

*Left out:* users without an account (login makes one), the companion a purchase
adopts and its chat effects, the points of drinks, availability windows of items,
drawing the assignments, notifications, edits by staff. An UPDATE that finds its row
changed while it waited changes nothing, as a transaction that fails does, and is not
listed apart.

## 3. What the runs check

| Run | Instance | Properties | Shows |
|---|---|---|---|
| `blackjack_table` | 2 users, 2 seats, 2 requests, 1 round, and 1 user for 2 rounds; any chip statement may fail | `TypeOK`, `PendingTracksDebit`, `TimersHaveTasks`, `PhaseMatchesHands`, `DeferredLeavesHonoured`, `ChipsConserved`, `BetsStayInPlay`, `RoundStartsWhenReady` | every interleaving of a round, and what it leaves to the next, keeps seats, debits, timers, phase and chips consistent |
| `blackjack_live` | 2 users, 1 request | `ImplementsChipTable`, `LockedBetsAreDealt`, `DealerTurnSettles`, `ActionTimeoutEndsTurn` | the refinement; rounds are dealt, played and settled |
| `blackjack_refused_double` | 1 user whose double is refused | `ActionTimeoutEndsTurn` is violated | finding 1 |
| `card_rules` | blackjack with ace, 5, 6, 10 and 4 player cards; poker with 7 of 17 cards | `ScoreIsBest`, `KindsAreAllowed`, `BestFiveDecide` | the rules, and the abstractions of hands |
| `poker_table` | 3 players of unequal stacks, down to a chip; 2 with deeper ones; 2 hands with a failure; balances that change elsewhere | `TypeOK`, `CommitsLand`, `StreetsCloseEven`, `ChipsAccounted`, `ActionReopensOnFullRaise`, `LeaversAreNotDealt`, `ImplementsChipTable` | betting, side pots, settlement, and the refinement |
| `poker_leaves` | 2 players who leave, idle, come back, play automatically; failing commits | `TurnIsServed`, `HandEnds` | whoever goes, the turn is served and the hand ends |
| `poker_paid_twice` | 2 players, 1 leaves | `ChipsConserved` is violated | finding 2 |
| `chess_room` | 2 seated players, 2 plies, 7 changes, 2 saves at once that may fail, 1 restart, both clocks | `TypeOK`, `RowCatchesUp`, `WinPaidOnce`, `NoEarlyFlag`, `FlagFalls` | clocks, saves and restarts |
| `chess_refused_move` | a clock of 2 seconds, 1 ply | `TurnEnds` is violated | finding 3 |
| `room_status` | 2 rooms, 3 changes, 1 restart, failures | `TypeOK`, `StatusFollowsTable`, `WritesInOrder`, `StatusSettles` | rows follow tables, in the end too |
| `audio_queue` | 2 processes with 2 items, alone and with 2 voters; 1 with 2 and with 4 listeners; 2 with a fallback and a fault; old rows | `TypeOK`, `CurrentIsTimed`, `SkipsAreVoted`, `QueueEmpties` | the queue plays on through overlaps, restarts and faults |
| `accounts` | all pairs of 22 transactions, all triples of 10, two circles of waits at once, quests of 2 days by 2 processes | `BalanceIsLedger`, `LimitsHold`, `DeadlocksAreKnown` | transactions that run at once |

**The refinement.** `ChipTable` knows only, for each user, the account, what is staked, what is
owed and how many settlements are unwritten. `BlackjackChips` maps a stake to what a
request has taken or a seat has at risk, and `PokerChips` to what a commit has taken
or a seat has put into the pot. Every step of either table is then a stake, a
settlement, a write, a loss of chips by a failing statement, or none of these. Blackjack is
*banked*: a settlement returns at most three to two on top of the stake. Poker
divides all stakes of a hand at once and returns no more than these. It may return less: when a
player folds to others who are all in for less, nobody contends for the chips above their bets, the code skips
that side pot (poker/svc.rs:1684) and its chips are gone. `ChipsAccounted` says that nothing else is ever lost:
what a step takes out of accounts, commits, pot and settlements is what `Forgone` names, to the chip. The poker run has no
leavers, because of finding 2.

**Bounds.** *Blackjack.* A table reacts to other seats only through "some seat"
and "all seats" conditions, and two seats make them differ. Two requests put two debits in
flight. What an earlier round leaves to a later one (stale tasks, unpaid settlements,
missed deals, the floor) is checked with one user over two rounds. `MinBet = MaxBet = 2`
with the chip 2 makes one stake size, as amounts only flow; balances of 4 pay a bet
and its double, and 3 refuses the double. `MaxDealerDraws` bounds the dealer's draws.
*Poker.* Stacks of 2, 3 and 3 with blinds of 1 and 2 make a short all-in, a full
raise and two side pots; 1, 1 and 3 a side pot that nobody contends for; 3 and 4 let a raise be raised again; strengths 1 and 2 make
winners, losers and splits. A failure, an expense elsewhere and an old balance are
spent one at a time. *Chess.* Seconds of two ticks let a second be half used; clocks of
a second let every turn's deadline come; seven changes are a game, its end and part of a rematch;
two saves at once overtake each other. *Rooms.* Three changes per room are a round, its end, and
the next, so two outdated tasks compete with a current one. *Audio.* Two items let one
process move on while the other remembers the first. The minimum of two votes is the code's; the share is 80 % where the
code has 30 %, so that three listeners need three votes (and rounding down would ask for two) and four need four; at 30 % it
takes seven listeners to exceed the minimum. Three of four vote, one of them changes source and the fourth goes
offline: then the remaining votes are enough and `ReevaluateSkipThreshold` skips. `leavers`, `movers` and `voters` say who may do so in an instance,
and `force` whether the staff skips; the two voters of two processes stay, and nobody skips by force there. One fault comes at any statement. *Accounts.* All cycles of waits
that two transactions can make appear in the pairs. The balances (7 and 5, floor 2) pay any one of the
requests and not all; the tank has room for one more fish of two kinds. The rules run uses
cards that reach 17, 21, soft and hard totals and both naturals, and, in poker, wheels, flushes,
quads, two trips and three pairs. `CHECK_DEADLOCK FALSE` is set where a model stops when its bound
is used up (poker, rooms, accounts) or its hands are over (rules).

**Fairness.** The tokio runtime wakes spawned tasks, deadlines pass, and the database
answers; so request and commit tasks, deadlines, timer tasks, the dealer, saves and settlements are
weakly fair. What users do, and when they are idle, is not. The start-up task of the rooms ends, with its update or
with an error; only that it ends is fair.
`LockedBetsAreDealt` excepts bets that stay pending forever: the auto-deal task waits for
pending bets, so users could hold up a deal with endless bets of refused amounts.
Status writes are strongly fair: a database that is reachable again and again is
written to in the end, which is what the endless retry loop of svc.rs:276 counts on.
Chess assumes that somebody enters a room that no process has built. In the audio queue
items come to an end, stopped processes are started, and the statements of an operation are
weakly fair; its timer, its reconciliation (every few seconds) and its resumption are
strongly fair, as each waits for a mutex that is free again and again.

**Findings**, each a violated run; `PROJECT.json` quotes the lines they disagree with.
(1) A blackjack double refused after the action timer ran leaves a hand with no
timer; only the idle kick, minutes later, ends the turn. (2) A poker pot is paid twice
when the last opponent leaves while a commit is with the bank. (3) A refused chess move
forgets the part of a second that had passed, so the deadline task finds time
left and ends, and nothing flags the player any more.

**Other disagreements** met while modelling, in the models but in no run of their own:

- An idle seat whose hand is settled while others play, or that idles while blinds are
  posted, is neither removed nor marked to leave (blackjack/svc.rs:1722, poker/svc.rs:1998).
- The start-up reconciliation can reset the row of a round that started after the restart
  (rooms/svc.rs:225, main.rs:212); `StatusFollowsTable` excepts it through `overtaken`. When its one attempt fails, which is
  only logged (rooms/svc.rs:176), rows that the last process left `in_round` stay so, and are never cleaned up, until their
  tables start a round (rooms/CONTEXT.md:63 has them reset); `StatusSettles` excepts them through `LeftStale`.
- Chess: a process that builds a room with less than a second left gives the clock a whole second and keeps the deadline
  (chess/svc.rs:619), so the deadline task finds time left and ends, as in finding 3. `FlagFalls` excepts it.
- Poker: a pot whose winner committed nothing is not paid (poker/svc.rs:1774), and a side pot whose
  contributors have all folded is dropped (poker/svc.rs:1684), as when the big blind folds to two players who are all in
  for less (`ShortStacks` of `MCPoker`). `Forgone` is what is lost so.
- Poker: a stack follows the account (`sync_balance`, poker/svc.rs:1008), and when an old balance arrives while a
  commit is with the bank, the commit takes it below zero (poker/svc.rs:1417). `TypeOK` lets stacks be negative.
- Poker: what finding 2 leads to in a second hand. The late of the two settlement tasks still has a seat to clear;
  if its user sits again, a hand is dealt and he is marked to leave it, the task clears the seat in the hand that
  runs and the turn stays with nobody (`CompleteSettlements`). `TurnServed` below excludes it by `TablePaysOnce`.
- Audio: when `mark_played` fails as the playback timer wakes, the item plays for good
  (audio/CONTEXT.md:105 and :156 say otherwise); `QueueEmpties` excepts it through `finishLost`. When a statement fails in
  `advance_to_next` on an empty queue, the mode stays YouTube with no fallback armed. `resume_from_db` does not cancel
  a fall to Icecast that a skip has armed while the process was starting (audio/svc.rs:1495); it does no harm, as
  `finish_fallback_debounce` looks for a current item, so `CurrentIsTimed` asks for the mode and not for the handle. A comment
  (audio/svc.rs:1018) says that disconnects reevaluate the skip threshold; only a change of source does.
- `create_game_room` counts and inserts without a lock (rooms/svc.rs:396), so concurrent requests
  pass the cap together that rooms/CONTEXT.md:83 states.
- Quests: events of two processes can complete a later day first; the earlier one then resets the
  streak, and the later day's bonus can be paid again (hub/CONTEXT.md:124 has the streak advance by UTC
  days). `LimitsHold` excepts those users through `late`.
- Opposite gifts, and changes of one slot by two sessions of a user, deadlock; PostgreSQL ends one
  of them and the user sees an error (`DeadlocksAreKnown`).

## 4. What is proved

TLAPS checks the theorems for every value of the constants that the named assumptions
allow; TLC evaluates the assumptions in every run.

**RoomStatus** (`RoomStatusProofs`). `TypeCorrect`, `FollowsTable` and `InOrder` prove
`TypeOK`, `StatusFollowsTable` and `WritesInOrder` for any set of rooms and any number of
changes and restarts. The properties are not inductive. A task compares its
generation and then writes, and a newer status can be asked for in between, so a
row can be written with an outdated status. `GenerationsInOrder` says that such a task
held the lock since its generation was the latest, so no newer write came before it;
`Corrected` says that whenever a task holding the lock, or a row, is outdated, a task
of the latest generation exists, and no step but its own successful write removes it.
A row is `Reliable` once the start-up task has reset the stale ones, or else from the first change of its table on, which
is also what holds after that task has failed.

**Blackjack** (`BlackjackProofs`). For any number of users, seats, requests, rounds and missed deals, and
any limits with `0 < MinBet <= MaxBet`, the theorems prove all eight properties of `blackjack_table` and the refinement
of `blackjack_live`:

- `TypeCorrect` (`TypeOK`) and `DebitsTracked` (`PendingTracksDebit`) come from
  `DebitInv`, which adds three facts. `SeatInv`: a bet belongs to a user, and exceeds the
  maximum only on a hand that has drawn a card, which is why a double is not doubled
  again. `OneSeatEach`: nobody sits twice, so the seat found by a user is the seat that
  was marked. `PlayerHandsLive`: a hand that is open in the players' turn is no natural,
  so a hand that may double has two cards. Types and debits need each other: a bet is
  locked within the limits only because its seat still waits in the betting phase.
  Most steps are `Quiet`, which one lemma handles for all of them; the rest mark
  a seat no other request has marked, or end a request and unmark its seat.
- `TimersServed` (`TimersHaveTasks`) and `PhaseAgrees` (`PhaseMatchesHands`) are inductive on top of
  `DebitInv`: steps either leave the bets and timers alone (`TableIdle`), or advance the
  players' turn, or deal, and the last two set phase, deadline and task together.
- `RoundsStartReady` (`RoundStartsWhenReady`): only `LockBet` and `AutoDeal` deal, and after
  them the phase is past the one in which `PendingTracksDebit` allows a pending bet.
- `LeavesHonoured` (`DeferredLeavesHonoured`): a reason to leave is given in the turns of players
  and dealer only, and each way into *Settling* from there empties the seat.

- `ChipsStay` (`ChipsConserved`), `BetsStay` (`BetsStayInPlay`) and `KeepsTable` (`ImplementsChipTable`) are about sums: what
  requests have taken from a user, what he has at risk and what he is owed. The invariants above leave the first
  two one term each (`TakenOf`, `RiskOf`): nobody has two debits or two seats. What is owed (`OwedOf`) grows with the
  rounds, and settlements are a set, so two equal ones would count once. `ChipInv` excludes that:
  `SettledOnce` says that who has a bet at risk has no settlement of this round yet, `OpenWhileBetting` that a bet is not
  resolved before the deal. A step is then one of four: nothing happens to the chips, one request debits
  (`DebitsOne`), one settlement is written or lost (`WritesOne`), or the table settles, for each user
  not at all or his whole stake against one new settlement (`TableSettles`). For each, one lemma gives conservation and the step of
  `ChipTable`.

**Blackjack rules** (the last part of `BlackjackProofs`). For hands of any cards and any length, and any target that two cards cannot
exceed, `ScoresBest` proves `ScoreIsBest` and `KindsSuffice` proves `KindsAreAllowed`. The loop that raises aces is a recursive function;
that a function with these equations exists and takes as many tens as fit (`TensExist`, `TensTaken`) is induction over its
rounds. `KindsSettle` compares `settle()` on cards with the outcomes that `BlackjackHands` allows.

**Poker** (`PokerProofs`). A critical section is a chain of operators on `state`, so lemmas say what each operator does to a typed
state (`AdvanceAfterAction`, `ApplyAutoCheckFolds`, `Publish`, ...), and what an action does follows from those it applies.
`PokerTypes` (`TypeOK`) and `LeaversLeave` (`LeaversAreNotDealt`) hold of every instance, with any number of players, stacks, strengths
and failures. The others rest on `TableInv`: the turn is with a seat that can act and is timed unless its commit is with the bank
(`TurnGood`, `TurnTimed`), a waiting seat has a commit on its way (`Awaited`, `IdsDiffer`), and,
while nobody leaves, a commit that comes back finds its seat, turn and bet (`Lands`) and bets of closed streets are even (`BetsGood`).

- `TurnServed` (`TurnIsServed`) assumes `TablePaysOnce`: an instance in which players leave deals one hand. The assumption is
  needed (see the other disagreements), and the instances of `poker_leaves` meet it.
- `CommitsAlwaysLand` (`CommitsLand`), `StreetsEven` (`StreetsCloseEven`) and `FullRaiseReopens` (`ActionReopensOnFullRaise`)
  assume `StaysSeated`: nobody leaves a hand, in any number of hands. A kick takes a seat from under its commit, which is how
  finding 2 starts. The instances of `poker_table` meet it.
- `ChipsAccountedFor` (`ChipsAccounted`) assumes `StaysSeated` too. For any number of seats, stacks and side pots it says that
  accounts, commits, pot and settlements together change by what is granted, by what a failing statement loses,
  and by `Forgone` when a hand ends. The sums are over all users and seats, so a step is followed through them:
  a debit moves chips from an account to a commit, a commit to a seat (`InPot`), the end of a
  hand from the pot to settlements, a settlement to an account. The invariant it needs on top of `TableInv` is `Staked`:
  whoever has chips in the pot, or a commit on its way, holds cards, so a deal clears no chips.
  The levels up to what a seat has put in add up to it (`LevelsAddUp`), so the side pots add up to the pot, counted
  by seat (`SidePotsAddUp`). The shares of each one's winners, odd chips included, are that side pot, so all credits and the
  side pots that are skipped are the pot (`CreditsAddUp`); `PotKept` is what every operator that can end a hand keeps.
- `PokerKeepsTable` (`ImplementsChipTable`, in `PokerChipsProofs`) assumes `StaysSeated` as well: poker implements the
  chip table of blackjack, pooled. `ChipTable` keeps books for each user where `ChipsAccountedFor` has totals, so a stake
  (`StakeBy`) is what lies before the user's one seat and what commits have taken from him, a debt (`OwedSum`) is his part of
  the settlement task. The invariant `DividesInv` is that of `ChipsAccountedFor` and `Seating`: nobody sits twice, or the mapping would
  read one of two seats; and a blind to be posted has no chips in the pot, so a hand whose blinds are refused ends
  with nothing to divide. Every operator that can end a hand leaves its pot divided (`Parted`), with one settlement for
  each user who had put chips in it (`PaidOnce`) and credits of no more chips than the pot. A step then leaves stakes and debts alone
  (`ChipsStill`), divides a pot (`PotDivided`), or stakes, writes or loses chips of one user (`StepDivides`), each a step of
  `ChipTable` or a stutter. `SumByKey` ties the sums of all users to the totals.

**Audio queue** (`AudioQueueProofs`). For any number of processes, listeners and items, `TypeCorrect`, `CurrentTimed`
and `SkipsVoted` prove `TypeOK`, `CurrentIsTimed` and `SkipsAreVoted`. The inductive invariant `AudioInv` says of every
process what it remembers of its current item between two statements (`Bookkeeping`), that the item has its timer
or the timer is ending it (`Timed`), and that a skip for votes still has the votes (`Voted`): the share of the audience
for which they were counted, and the minimum (`EnoughAre`). What others do to the rows
in between does no harm because a row never goes back to the queue (`RowsMove`): what was once current
will not play again.

**Chess** (`ChessRoomProofs`). `ChessTypes`, `RowIsNewest` and `GameWonOnce` prove `TypeOK`, `RowCatchesUp` and
`WinPaidOnce` for both time controls, any clocks and any number of changes, saves at once and restarts. `RowCatchesUp` says
what holds when no save is on its way; `SavesInv` says it of every moment: whatever carries the revision of the room, a
save or the row, is the room (`SavesKnown`, `RowKnown`), nothing is ahead of it, and the row or a save carries that
revision unless that very save failed (`LatestSaved`). Every change raises the revision, so a new save is the only one that carries
it (`PersistSafe`). `WinsInv` adds that the game which runs, or which a new process would build from the row, is not won
yet: a stop with a row as new as the room keeps the phase, as the two are the same.

`FlagsOnTime` proves `NoEarlyFlag` for both time controls and any clocks. The server flags by the clock, the screens show
the deadline, and `ClockInv` ties the two in a timed game: the time that the clock has run and the time
left to the deadline never exceed the time on the clock (`ClockOf`), up to less than a second once the server has been restarted
(`Slack`). A turn starts with the two equal; settling takes whole seconds off the clock and forgets the rest, which
gives time away; a restart winds the clock to the whole seconds of the deadline, at least one, which is where the slack
comes from. So a clock that is used up leaves no more than the slack to the deadline (`FlagMeansDeadline`).

**Economy** (`EconomyProofs`). `AccountsBalance` proves `BalanceIsLedger` for any users, items,
prices, quests and workloads. A purchase writes the balance it has read, so the property is
about locks, and `IInv` adds them. `Exclusive`: no row has two holders. `Holds`: an open transaction holds the rows of chips
that its finished statements name, which for a quest depends on whether the reward is due, and stays so because
the progress row is locked too. `Relies`: what a transaction has read or checked of a balance still
is so. `RewardedIsCompleted` ties a streak bonus to a reward, so that whoever pays one has locked the account.
A step changes a balance only under its holder (`PostSafe`, `PurchaseSafe`, `GiftSafe`), and then what all others rely
on is untouched (`Undisturbed`), as they hold other rows.

`LimitsKept` proves `LimitsHold`. `LimitsInv` says that a transaction holds the item, the claim of the day or the key of the
cooldown that it has locked (`HoldsKeys`), so what it checked under them is still so at its commit (`Checked`); that shelves
fit (`ShelvesInv`); and that whatever was granted can be told from a row that keeps it from being granted again
(`Backed`), which is why a limit that history states (`Once`) follows from unique keys and guarded updates.

`DeadlocksKnown` proves `DeadlocksAreKnown`, a statement about one circle of waits. Rows have levels (items, claims and keys; progress;
chips; what is owned and streaks; pets) and a transaction locks them in that order (`Ordered`), so along a circle the level cannot
rise and all wait at one level. Only a gift's recipient and the rest of a slot are locked after another row of
their level, so the circle is one of gifts or of changes of what one user wears.

The bounds of the models (`MaxDealerDraws`, `MaxRounds`, `LastDay`, ...) are constants like the others, so the
theorems hold for all their values.

**Induction.** The library's induction theorems take a formula as a parameter, which the provers here cannot
instantiate. `SumFacts` does without: a set of naturals with 0 and all successors is `Nat` (`NatSetInduction`), and a set of finite
sets that is not empty has a member of least size. From these follow the sums and folds that the models use.

**Only model-checked.** Liveness under fairness. `BestFiveDecide`, whose algorithm is recursive over sorted cards; TLC
checks it on hands of 17 cards. `ChipsConserved` of `Poker` is false, by finding 2, and dropped pots break it without
leavers; `ChipsAccounted` is what holds in its place. `ImplementsChipTable` of `Poker` is false too when players leave,
by the same finding, which is why run and theorem are about tables whose players stay.

## 5. Not modelled

- Blackjack and poker: snapshots, status texts, activity events, the balances that clients cache. The last would
  show that the task of the last bet can deal and pay a natural before its `BetPlaced` is sent (blackjack/svc.rs:485), and
  that quest credit reads `round_player_count` after the table was released (blackjack/svc.rs:1051).
- Rooms: creation and its cap, entering, chat rooms of rooms. rooms/CONTEXT.md:83 states the cap; the code
  checks it without a lock, and concurrent requests pass it together (section 3).
- Audio: history, votes that order the queue, rate limits and bans, messages to clients, `paired_clients.rs`.
- Tron and tic-tac-toe: a game behind one mutex that debits nothing; its steps do not interleave with statements.
- Asterion and ssHattrick: adapters to crates outside the repository. Door games, arcade games and companions: large
  programs of one task each, where a model would transcribe the game.
- Chat, moderation, IRC, voice, clubhouse, artboard, profiles: forms over database rows, with ordering left to the database, and
  vendored or external servers.
- SSH, HTTP, web, CLI, infrastructure: I/O.

## 6. The plan

Done: the two card tables with their rules and the abstract table they implement, chess, room status, the audio
queue, accounts with shop and quests. Next, in order of weight:

1. `BlackjackClient`: the balance a session caches from `BetPlaced` and `HandSettled`.
2. Votes and history of the audio queue, and paired clients.
3. Room creation and entering, with the chat room that is made beside the room.
4. `Economy`: the sum of the fish in a tank is read before the tank's update (models/marketplace.rs:682); the model evaluates it at
   the commit, which is the same as long as every writer locks the user's chips first.
