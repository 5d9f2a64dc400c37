------------------------------ MODULE ChessRoom ------------------------------
(***************************************************************************)
(* One chess room of late-ssh: the state behind the mutex, the tasks that  *)
(* sleep until a deadline, and the runtime_state column of the room's row, *)
(* to which every change is saved by a task of its own.  Chess is the one  *)
(* game that survives a restart: a new process builds the room from the    *)
(* row when somebody enters it.                                            *)
(*                                                                         *)
(* A position is the side to move and the number of plies; whether a move  *)
(* is legal, mates or draws is up to the board.  Time passes in ticks of a *)
(* fraction of a second, because the clocks count whole seconds.           *)
(***************************************************************************)
EXTENDS Integers, FiniteSets, FiniteSetsExt

CONSTANTS
    Users, NoUser,
    None,             \* no deadline, no start time
    SecondTicks,      \* ticks in a second
    BaseSecs, IncrementSecs,   \* of a countdown clock
    MoveSecs,         \* to move in a daily game
    DbCanFail,        \* whether a save may fail
    MaxRevision,      \* bound: changes of the room
    MaxPlies,         \* bound: moves of a game that do not end it
    MaxSaves,         \* bound: saves on their way at a time
    MaxRestarts       \* bound: restarts of the process

ASSUME ChessAssumption ==
    /\ NoUser \notin Users /\ None \notin Int
    /\ SecondTicks \in Nat \ {0}
    /\ BaseSecs \in Nat \ {0} /\ IncrementSecs \in Nat /\ MoveSecs \in Nat \ {0}
    /\ DbCanFail \in BOOLEAN
    /\ MaxRevision \in Nat /\ MaxPlies \in Nat /\ MaxSaves \in Nat /\ MaxRestarts \in Nat

VARIABLES
    mode,       \* the room's time control
    room,       \* SharedState, behind the mutex
    tasks,      \* sleeping deadline tasks
    row,        \* the runtime_state column
    saves,      \* save tasks on their way to the row
    live,       \* whether the process has built the room
    restarts,
    wins,       \* history: wins credited for this game
    unsaved,    \* history: the save of the latest change has failed
    rewound     \* history: a restart has undone changes of this game

process == <<room, tasks, saves, live>>
history == <<restarts, wins, unsaved, rewound>>
vars == <<mode, process, row, history>>

White == 0
Black == 1
Colors == {White, Black}
Other(c) == 1 - c
Modes == {"Countdown", "Daily"}
ChessPhases == {"Waiting", "Ready", "Active", "Finished"}

InitialClocks == [c \in Colors |-> BaseSecs]

(* since counts the ticks from active_started_at, deadline those to        *)
(* active_deadline; a daily game uses neither since nor the clocks.        *)
NewRoom ==
    [seats |-> [c \in Colors |-> NoUser], ready |-> [c \in Colors |-> FALSE],
     phase |-> "Waiting", result |-> None, turn |-> White, plies |-> 0,
     clocks |-> InitialClocks, since |-> None, deadline |-> None,
     generation |-> 0, revision |-> 0]

SeatsOf(u) == {c \in Colors : room.seats[c] = u}
Full(r) == \A c \in Colors : r.seats[c] # NoUser
PhaseOfSeats(r) == IF Full(r) THEN "Ready" ELSE "Waiting"

-------------------------------------------------------------------------------
(* The methods of SharedState, each from a room to a room.                 *)
ResetBoard(r) ==
    [r EXCEPT !.turn = White, !.plies = 0, !.result = None, !.clocks = InitialClocks,
              !.since = None, !.deadline = None, !.generation = @ + 1,
              !.ready = [c \in Colors |-> FALSE]]

(* A result is its kind and the winner; a draw has none. *)
Result(kind, winner) == [kind |-> kind, winner |-> winner]
Results == {Result(k, c) : k \in {"Checkmate", "Resignation", "Timeout"}, c \in Colors}
               \cup {Result("Draw", None)}

ASSUME NoResultAssumption == None \notin Results

Finish(r, result) ==
    [r EXCEPT !.phase = "Finished", !.result = result, !.ready = [c \in Colors |-> FALSE],
              !.since = None, !.deadline = None, !.generation = @ + 1]

Allowance(r) ==
    SecondTicks * IF mode = "Daily" THEN MoveSecs ELSE r.clocks[r.turn]

StartTurnClock(r) ==
    [r EXCEPT !.generation = @ + 1, !.deadline = Allowance(r),
              !.since = IF mode = "Daily" THEN None ELSE 0]

ElapsedSecs(r) == IF r.since = None THEN 0 ELSE r.since \div SecondTicks

(* settle_active_clock: the mover has used up the clock, or its elapsed    *)
(* seconds are taken off and it starts again from now.                     *)
Flagged(r) ==
    IF mode = "Daily" THEN r.deadline = 0
    ELSE ElapsedSecs(r) >= r.clocks[r.turn]

FinishTimeout(r) ==
    Finish(IF mode = "Daily" THEN r ELSE [r EXCEPT !.clocks[r.turn] = 0],
           Result("Timeout", Other(r.turn)))

(* Mutant: a settled clock is not started again, and charges twice. *)
SettleKeepsStart(r) ==
    IF mode = "Daily" THEN r ELSE [r EXCEPT !.clocks[r.turn] = @ - ElapsedSecs(r)]

SettleActiveClock(r) ==
    IF mode = "Daily" THEN r
    ELSE [r EXCEPT !.clocks[r.turn] = @ - ElapsedSecs(r), !.since = 0]

ApplyIncrement(r) ==
    IF mode = "Daily" THEN r ELSE [r EXCEPT !.clocks[r.turn] = @ + IncrementSecs]

-------------------------------------------------------------------------------
(* Mutant: a change is saved under the revision before it. *)
BumpAfterSave(r) ==
    /\ room' = [r EXCEPT !.revision = @ + 1]
    /\ saves' = saves \cup {[r EXCEPT !.since = None]}
    /\ unsaved' = FALSE
    /\ UNCHANGED <<mode, row, live, restarts>>

(* A change is published, gets a new revision and is saved by a task.      *)
Persist(r) ==
    /\ room' = [r EXCEPT !.revision = @ + 1]
    /\ saves' = saves \cup {[room' EXCEPT !.since = None]}
    /\ unsaved' = FALSE
    /\ UNCHANGED <<mode, row, live, restarts>>

(* Mutant: a move leaves the earlier deadline in force. *)
ScheduleOnlyFirst(r) ==
    tasks' = IF tasks = {} THEN {[generation |-> r.generation, due |-> r.deadline]} ELSE tasks

ScheduleDeadline(r) ==
    tasks' = tasks \cup {[generation |-> r.generation, due |-> r.deadline]}

(* The bounds on changes; a game that has begun may still end.            *)
MayChange == room.revision < MaxRevision /\ Cardinality(saves) < MaxSaves

Keep == UNCHANGED <<tasks, wins, rewound>>

(* publish_game_end: the winner, if there is one, is credited. *)
EndGame(r) ==
    /\ Persist(r)
    /\ wins' = wins + IF r.result.winner = None THEN 0 ELSE 1
    /\ UNCHANGED rewound

Sit(u) ==
    /\ live /\ MayChange /\ SeatsOf(u) = {} /\ room.phase # "Active"
    /\ \E c \in Colors :
          /\ room.seats[c] = NoUser
          /\ \A d \in Colors : d < c => room.seats[d] # NoUser
          /\ LET r == [room EXCEPT !.seats[c] = u, !.ready[c] = FALSE]
             IN  Persist([r EXCEPT !.phase = PhaseOfSeats(r)])
    /\ Keep

(* Mutant: a player can leave the seat while a game runs. *)
LeaveAnyTime(u) ==
    /\ live /\ MayChange
    /\ \E c \in SeatsOf(u) :
          Persist([room EXCEPT !.seats[c] = NoUser, !.ready[c] = FALSE])
    /\ Keep

Leave(u) ==
    /\ live /\ MayChange /\ room.phase # "Active"
    /\ \E c \in SeatsOf(u) :
          LET r == ResetBoard([room EXCEPT !.seats[c] = NoUser, !.ready[c] = FALSE])
          IN  Persist([r EXCEPT !.phase = PhaseOfSeats(r)])
    /\ Keep

(* Mutant: a finished game can be resigned again. *)
ResignAnyTime(u) ==
    /\ live /\ room.phase \in {"Active", "Finished"}
    /\ \E c \in SeatsOf(u) : EndGame(Finish(room, Result("Resignation", Other(c))))
    /\ UNCHANGED tasks

Resign(u) ==
    /\ live /\ room.phase = "Active"
    /\ \E c \in SeatsOf(u) : EndGame(Finish(room, Result("Resignation", Other(c))))
    /\ UNCHANGED tasks

(* start_game: the first to press n is ready; with the second a game       *)
(* starts, and after a finished one the players change colors.             *)
GetReady(u) ==
    /\ live /\ MayChange /\ room.phase # "Active" /\ Full(room)
    /\ \E c \in SeatsOf(u) :
          /\ ~room.ready[c] /\ ~room.ready[Other(c)]
          /\ Persist([room EXCEPT !.ready[c] = TRUE])
    /\ Keep

SwapColors(r) == [r EXCEPT !.seats = [c \in Colors |-> r.seats[Other(c)]]]

StartGame(u) ==
    /\ live /\ MayChange /\ room.phase # "Active" /\ Full(room)
    /\ \E c \in SeatsOf(u) : room.ready[Other(c)]
    /\ LET r == IF room.phase = "Finished" THEN SwapColors(room) ELSE room
           s == StartTurnClock([ResetBoard(r) EXCEPT !.phase = "Active"])
       IN  Persist(s) /\ ScheduleDeadline(s)
    /\ wins' = 0 /\ rewound' = FALSE

(***************************************************************************)
(* play_move, of the player whose turn it is.  The clock is settled before *)
(* the move is looked at, so a late move loses on time, and a move that is *)
(* refused has stopped and restarted the clock.                            *)
(***************************************************************************)
MayMove(u) == live /\ room.phase = "Active" /\ room.seats[room.turn] = u

MoveTooLate(u) ==
    /\ MayMove(u) /\ Flagged(room)
    /\ EndGame(FinishTimeout(room))
    /\ UNCHANGED tasks

IllegalMove(u) ==
    /\ MayMove(u) /\ ~Flagged(room)
    /\ room' = SettleActiveClock(room)
    /\ UNCHANGED <<mode, tasks, saves, live, row, history>>

Played ==
    [ApplyIncrement(SettleActiveClock(room)) EXCEPT !.turn = Other(@), !.plies = @ + 1]

Move(u) ==
    /\ MayMove(u) /\ MayChange /\ room.plies < MaxPlies /\ ~Flagged(room)
    /\ Persist(StartTurnClock(Played)) /\ ScheduleDeadline(StartTurnClock(Played))
    /\ UNCHANGED <<wins, rewound>>

(* The move mates, or it draws: a stalemate or a third repetition. *)
LastMove(u) ==
    /\ MayMove(u) /\ ~Flagged(room)
    /\ \E result \in {Result("Checkmate", room.turn), Result("Draw", None)} :
          EndGame(Finish(Played, result))
    /\ UNCHANGED tasks

-------------------------------------------------------------------------------
(* A deadline task wakes, once, and looks whether the turn is still its.   *)
IsCurrent(t) == live /\ room.phase = "Active" /\ room.generation = t.generation

TimeoutIfCurrent(t) ==
    /\ t.due = 0
    /\ tasks' = tasks \ {t}
    /\ \/ IsCurrent(t) /\ Flagged(room) /\ EndGame(FinishTimeout(room))
       \/ /\ IsCurrent(t) /\ ~Flagged(room)
          /\ room' = SettleActiveClock(room)
          /\ UNCHANGED <<mode, saves, live, row, history>>
       \/ /\ ~IsCurrent(t)
          /\ UNCHANGED <<mode, room, saves, live, row, history>>

(* Mutant: the row takes whatever save comes last. *)
WriteLast(s) ==
    /\ row' = s /\ saves' = saves \ {s}
    /\ UNCHANGED <<mode, room, tasks, live, history>>

(* update_runtime_state: the row keeps a newer revision. *)
WriteSave(s) ==
    /\ row' = IF row.revision <= s.revision THEN s ELSE row
    /\ saves' = saves \ {s}
    /\ UNCHANGED <<mode, room, tasks, live, history>>

(* The error is logged; nobody tries again. *)
FailSave(s) ==
    /\ DbCanFail
    /\ saves' = saves \ {s}
    /\ unsaved' = (unsaved \/ s.revision = room.revision)
    /\ UNCHANGED <<mode, room, tasks, live, row, restarts, wins, rewound>>

(* The process stops, with all its tasks. *)
Stop ==
    /\ restarts < MaxRestarts /\ restarts' = restarts + 1
    /\ live /\ live' = FALSE
    /\ room' = NewRoom /\ tasks' = {} /\ saves' = {}
    /\ unsaved' = FALSE
    /\ rewound' = (rewound \/ row.revision < room.revision)
    /\ UNCHANGED <<mode, row, wins>>

(***************************************************************************)
(* from_runtime_state and restore_active_clock.  A row that has never been *)
(* saved stands for a new room.                                            *)
(***************************************************************************)
RestoreActiveClock(r) ==
    IF mode = "Daily" THEN r
    ELSE IF r.deadline = 0
    THEN [r EXCEPT !.since = SecondTicks * r.clocks[r.turn]]
    ELSE [r EXCEPT !.clocks[r.turn] = Max({r.deadline \div SecondTicks, 1}), !.since = 0]

Restored(r) ==
    CASE r.phase # "Active" -> [r EXCEPT !.since = None, !.deadline = None]
      [] r.phase = "Active" /\ Full(r) -> RestoreActiveClock(r)
      [] r.phase = "Active" /\ ~Full(r) -> [ResetBoard(r) EXCEPT !.phase = "Waiting"]

GetOrCreate ==
    /\ ~live /\ live' = TRUE
    /\ room' = Restored(row)
    /\ IF room'.phase = "Active" THEN ScheduleDeadline(room') ELSE tasks' = {}
    /\ UNCHANGED <<mode, saves, row, history>>

(* Time passes, for the clock, the tasks and the deadlines in the saves.   *)
(* A deadline that has passed, and a clock that is used up, stay so.       *)
Earlier(t) == Max({t - 1, 0})
Aged(r) == IF r.deadline = None THEN r ELSE [r EXCEPT !.deadline = Earlier(@)]
Later(r) == Min({r.since + 1, SecondTicks * r.clocks[r.turn]})

Tick ==
    /\ room' = IF room.since = None THEN Aged(room)
               ELSE [Aged(room) EXCEPT !.since = Later(room)]
    /\ tasks' = {[t EXCEPT !.due = Earlier(@)] : t \in tasks}
    /\ row' = Aged(row)
    /\ saves' = {Aged(s) : s \in saves}
    /\ UNCHANGED <<mode, live, history>>

-------------------------------------------------------------------------------
Init ==
    /\ mode \in Modes
    /\ room = NewRoom /\ row = NewRoom
    /\ tasks = {} /\ saves = {}
    /\ live = TRUE
    /\ restarts = 0 /\ wins = 0 /\ unsaved = FALSE /\ rewound = FALSE

PlayerStep ==
    \E u \in Users :
        \/ Sit(u) \/ Leave(u) \/ Resign(u) \/ GetReady(u) \/ StartGame(u)
        \/ MoveTooLate(u) \/ IllegalMove(u) \/ Move(u) \/ LastMove(u)

TimerStep == \E t \in tasks : TimeoutIfCurrent(t)

SaveStep == \E s \in saves : WriteSave(s) \/ FailSave(s)

Next == PlayerStep \/ TimerStep \/ SaveStep \/ Stop \/ GetOrCreate \/ Tick

Spec == Init /\ [][Next]_vars

(* Time passes, tasks run, and somebody enters a room that is not live.    *)
Fairness ==
    WF_vars(Tick) /\ WF_vars(TimerStep) /\ WF_vars(SaveStep) /\ WF_vars(GetOrCreate)

FairSpec == Spec /\ Fairness

-------------------------------------------------------------------------------
Rooms ==
    [seats : [Colors -> Users \cup {NoUser}], ready : [Colors -> BOOLEAN],
     phase : ChessPhases, result : Results \cup {None}, turn : Colors, plies : Nat,
     clocks : [Colors -> Nat], since : Nat \cup {None}, deadline : Nat \cup {None},
     generation : Nat, revision : Nat]

(* A running game has two players and a deadline, a finished one a result, *)
(* and nobody is ready for a game that already runs.                       *)
ConsistentRoom(r) ==
    /\ r.phase = "Active" => Full(r) /\ r.deadline # None
    /\ r.phase # "Active" => r.since = None /\ r.deadline = None
    /\ r.phase = "Finished" => r.result # None
    /\ (\E c \in Colors : r.ready[c]) => Full(r) /\ r.phase # "Active"
    /\ ~\A c \in Colors : r.ready[c]

(***************************************************************************)
(* Types, and a room, a row and saves that from_runtime_state can bring    *)
(* back as they were: SharedState in chess/svc.rs.                         *)
(***************************************************************************)
TypeOK ==
    /\ mode \in Modes
    /\ room \in Rooms /\ row \in Rooms /\ saves \subseteq Rooms
    /\ \A r \in {room, row} \cup saves : ConsistentRoom(r)
    /\ tasks \subseteq [generation : Nat, due : Nat]
    /\ live \in BOOLEAN /\ unsaved \in BOOLEAN /\ rewound \in BOOLEAN
    /\ restarts \in Nat /\ wins \in Nat

(* What a restart must bring back. *)
Durable(r) == <<r.seats, r.ready, r.phase, r.result, r.turn, r.plies>>

(***************************************************************************)
(* Saves run as unordered tasks, and each may fail; still the row never    *)
(* shows an older change over a newer one, and when no save is on its way  *)
(* it holds the latest change, or that very change failed to be saved.     *)
(* save_runtime_state_task and update_runtime_state.                       *)
(***************************************************************************)
RowCatchesUp ==
    live =>
        /\ row.revision <= room.revision
        /\ row.revision = room.revision => Durable(row) = Durable(room)
        /\ saves = {} => row.revision = room.revision \/ unsaved

(***************************************************************************)
(* A game is won once, whichever of a move, a flag, a resignation and a    *)
(* restart come together, unless a restart has lost the change that ended  *)
(* it: publish_game_end.                                                   *)
(***************************************************************************)
WinPaidOnce == wins <= 1 \/ rewound

(***************************************************************************)
(* Nobody loses on time before the deadline on the players' screens; after *)
(* a restart, which rounds the clock down, within its last second.         *)
(* settle_active_clock and restore_active_clock.                           *)
(***************************************************************************)
FlagsInTime ==
    room.phase = "Active" /\ room'.phase = "Finished" /\ room'.result.kind = "Timeout" =>
        \/ room.deadline = 0
        \/ restarts > 0 /\ room.deadline < SecondTicks

NoEarlyFlag == [][FlagsInTime]_vars

OnTurn(c) == live /\ room.phase = "Active" /\ room.turn = c

(* The clock is used up when the deadline comes: it is not after a refused *)
(* move, nor in a room that was restored within the last second.           *)
ClockMeetsDeadline ==
    mode = "Daily" \/ room.since + room.deadline >= SecondTicks * room.clocks[room.turn]

(***************************************************************************)
(* A player who does not move loses: a turn ends, in whatever order the    *)
(* tasks of earlier turns wake and the process restarts, as long as its    *)
(* clock and its deadline agree; and a turn whose deadline passed while    *)
(* no process had the room ends as well.  schedule_deadline,               *)
(* timeout_if_current, restore_active_clock.                               *)
(***************************************************************************)
FlagFalls ==
    /\ \A c \in Colors :
          OnTurn(c) /\ ClockMeetsDeadline /\ room.deadline > 0
              ~> ~(OnTurn(c) /\ ClockMeetsDeadline)
    /\ ~live /\ row.phase = "Active" /\ row.deadline = 0
           ~> live /\ room.phase = "Finished"

(***************************************************************************)
(* rooms/CONTEXT.md: clocks "debit elapsed time idempotently", and a game  *)
(* is kept until checkmate, timeout, resignation or draw.  Every turn      *)
(* would end, then, also one in which a move was refused.                  *)
(***************************************************************************)
TurnEnds == \A c \in Colors : OnTurn(c) ~> ~OnTurn(c)
===============================================================================
