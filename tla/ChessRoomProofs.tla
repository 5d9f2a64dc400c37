---------------------------- MODULE ChessRoomProofs ----------------------------
(***************************************************************************)
(* A chess room never loses what it saved: whatever order the saves reach  *)
(* the row in and whichever of them fail, the row is the latest change, or *)
(* one is on its way, or that very change failed.  A game is then won once *)
(* also across restarts, because the room that is built again is as far as *)
(* the one that stopped.                                                   *)
(***************************************************************************)
EXTENDS ChessRoom, TLAPS

IsRoom(r) == r \in Rooms /\ ConsistentRoom(r)

(* Everything that is on its way to the row is a change of this process,   *)
(* and what carries the latest revision is the latest change.              *)
SavesKnown ==
    \A s \in saves :
        /\ s.revision <= room.revision
        /\ s.revision = room.revision => Durable(s) = Durable(room)

LatestSaved ==
    row.revision = room.revision \/ \E s \in saves : s.revision = room.revision

RowKnown ==
    /\ row.revision <= room.revision
    /\ row.revision = room.revision => Durable(row) = Durable(room)

SavesInv ==
    /\ SavesKnown
    /\ live => RowKnown /\ (LatestSaved \/ unsaved)
    /\ ~live => saves = {}

(* The game that runs, or that a new process would build, is not won yet.  *)
WinsInv ==
    ~rewound =>
        /\ wins <= 1
        /\ live /\ room.phase = "Active" => wins = 0
        /\ ~live /\ row.phase = "Active" => wins = 0

IInv == TypeOK /\ SavesInv /\ WinsInv

USE DEF White, Black, Colors

-------------------------------------------------------------------------------
(* The larger and the smaller of two numbers.                              *)
LEMMA ExtremeFacts ==
    ASSUME NEW x \in Int, NEW y \in Int
    PROVE  /\ Max({x, y}) \in {x, y} /\ Max({x, y}) >= x /\ Max({x, y}) >= y
           /\ Min({x, y}) \in {x, y}
<1>1. /\ \E m \in {x, y} : \A z \in {x, y} : m >= z
      /\ \E m \in {x, y} : \A z \in {x, y} : m =< z
  OBVIOUS
<1>2. Max({x, y}) \in {x, y} /\ \A z \in {x, y} : Max({x, y}) >= z
  BY <1>1 DEF Max
<1>3. Min({x, y}) \in {x, y}
  BY <1>1 DEF Min
<1> QED
  BY <1>2, <1>3

(* A number of seconds has a number of ticks, and the other way round.     *)
LEMMA TickFacts ==
    ASSUME NEW n \in Nat
    PROVE  SecondTicks * n \in Nat /\ n \div SecondTicks \in Nat
<1>1. SecondTicks \in Nat /\ SecondTicks > 0
  BY ChessAssumption
<1>2. SecondTicks * n \in Nat
  BY <1>1, SMT
<1>3. n \div SecondTicks \in Nat
  BY <1>1, SMT
<1> QED
  BY <1>2, <1>3

LEMMA ElapsedTyped ==
    ASSUME NEW r \in Rooms
    PROVE  ElapsedSecs(r) \in Nat
<1>1. CASE r.since = None
  BY <1>1 DEF ElapsedSecs
<1>2. CASE r.since # None
  <2>1. r.since \in Nat
    BY <1>2 DEF Rooms
  <2> QED
    BY <1>2, <2>1, TickFacts DEF ElapsedSecs
<1> QED
  BY <1>1, <1>2

-------------------------------------------------------------------------------
(* A record with the fields of a room is a room.                           *)
Fields == {"seats", "ready", "phase", "result", "turn", "plies", "clocks", "since",
           "deadline", "generation", "revision"}

LEMMA RoomOfFields ==
    ASSUME NEW x, x = [f \in Fields |-> x[f]],
           x.seats \in [Colors -> Users \cup {NoUser}], x.ready \in [Colors -> BOOLEAN],
           x.phase \in ChessPhases, x.result \in Results \cup {None}, x.turn \in Colors,
           x.plies \in Nat, x.clocks \in [Colors -> Nat], x.since \in Nat \cup {None},
           x.deadline \in Nat \cup {None}, x.generation \in Nat, x.revision \in Nat
    PROVE  x \in Rooms
  BY DEF Rooms, Fields

LEMMA FieldsOfRoom ==
    ASSUME NEW r \in Rooms
    PROVE  DOMAIN r = Fields
  BY DEF Rooms, Fields

-------------------------------------------------------------------------------
(* The methods of SharedState keep a room a room.                          *)
LEMMA NewRoomFacts == IsRoom(NewRoom) /\ NewRoom.phase = "Waiting" /\ NewRoom.revision = 0
<1>1. NewRoom \in Rooms
  BY ChessAssumption DEF NewRoom, Rooms, InitialClocks, ChessPhases
<1> QED
  BY <1>1 DEF IsRoom, ConsistentRoom, NewRoom

LEMMA ResetFacts ==
    ASSUME NEW r \in Rooms
    PROVE  /\ ResetBoard(r) \in Rooms
           /\ ResetBoard(r).seats = r.seats /\ ResetBoard(r).phase = r.phase
           /\ ResetBoard(r).revision = r.revision
           /\ ResetBoard(r).since = None /\ ResetBoard(r).deadline = None
           /\ ResetBoard(r).ready = [c \in Colors |-> FALSE]
<1>1. LET x == ResetBoard(r)
      IN  /\ x.seats = r.seats /\ x.phase = r.phase /\ x.revision = r.revision
          /\ x.since = None /\ x.deadline = None /\ x.result = None
          /\ x.ready = [c \in Colors |-> FALSE]
          /\ x.turn = 0 /\ x.plies = 0 /\ x.clocks = InitialClocks
          /\ x.generation = r.generation + 1
  BY DEF ResetBoard, Rooms
<1>2. ResetBoard(r) = [f \in Fields |-> ResetBoard(r)[f]]
  BY Zenon, FieldsOfRoom DEF ResetBoard, Rooms
<1>3. /\ [c \in Colors |-> FALSE] \in [Colors -> BOOLEAN]
      /\ InitialClocks \in [Colors -> Nat]
      /\ r.generation + 1 \in Nat /\ r.revision \in Nat /\ r.phase \in ChessPhases
      /\ r.seats \in [Colors -> Users \cup {NoUser}]
  BY ChessAssumption DEF Rooms, InitialClocks
<1>4. ResetBoard(r) \in Rooms
  <2> DEFINE x == ResetBoard(r)
  <2>1. /\ x.seats \in [Colors -> Users \cup {NoUser}] /\ x.ready \in [Colors -> BOOLEAN]
        /\ x.phase \in ChessPhases /\ x.result \in Results \cup {None}
        /\ x.turn \in Colors /\ x.plies \in Nat
    BY <1>1, <1>3
  <2>2. /\ x.clocks \in [Colors -> Nat] /\ x.since \in Nat \cup {None}
        /\ x.deadline \in Nat \cup {None} /\ x.generation \in Nat /\ x.revision \in Nat
    BY <1>1, <1>3
  <2>3. x = [f \in Fields |-> x[f]]
    BY <1>2
  <2> HIDE DEF x
  <2>4. x \in Rooms
    BY <2>1, <2>2, <2>3, RoomOfFields
  <2> QED
    BY <2>4 DEF x
<1> QED
  BY <1>1, <1>4

LEMMA FinishFacts ==
    ASSUME NEW r \in Rooms, NEW result \in Results
    PROVE  /\ IsRoom(Finish(r, result)) /\ Finish(r, result).phase = "Finished"
           /\ Finish(r, result).revision = r.revision
<1>1. LET x == Finish(r, result)
      IN  /\ x.seats = r.seats /\ x.turn = r.turn /\ x.clocks = r.clocks
          /\ x.plies = r.plies /\ x.revision = r.revision
          /\ x.since = None /\ x.deadline = None /\ x.result = result
          /\ x.phase = "Finished" /\ x.ready = [c \in Colors |-> FALSE]
          /\ x.generation = r.generation + 1
  BY DEF Finish, Rooms
<1>2. Finish(r, result) = [f \in Fields |-> Finish(r, result)[f]]
  BY Zenon, FieldsOfRoom DEF Finish, Rooms
<1>3. /\ [c \in Colors |-> FALSE] \in [Colors -> BOOLEAN] /\ "Finished" \in ChessPhases
      /\ r.generation + 1 \in Nat /\ r.revision \in Nat
      /\ r.seats \in [Colors -> Users \cup {NoUser}] /\ r.turn \in Colors
      /\ r.clocks \in [Colors -> Nat] /\ r.plies \in Nat
  BY DEF Rooms, ChessPhases
<1>4. Finish(r, result) \in Rooms
  BY <1>1, <1>2, <1>3, RoomOfFields
<1>5. result # None
  BY NoResultAssumption
<1> QED
  BY <1>1, <1>4, <1>5 DEF IsRoom, ConsistentRoom

LEMMA TimeoutFacts ==
    ASSUME NEW r \in Rooms
    PROVE  /\ IsRoom(FinishTimeout(r)) /\ FinishTimeout(r).phase = "Finished"
           /\ FinishTimeout(r).revision = r.revision
<1> DEFINE flagged == IF mode = "Daily" THEN r ELSE [r EXCEPT !.clocks[r.turn] = 0]
<1>1. flagged \in Rooms /\ flagged.revision = r.revision
  BY DEF Rooms
<1>2. Result("Timeout", Other(r.turn)) \in Results
  BY DEF Results, Other, Rooms
<1>3. FinishTimeout(r) = Finish(flagged, Result("Timeout", Other(r.turn)))
  BY DEF FinishTimeout
<1> HIDE DEF flagged
<1> QED
  BY <1>1, <1>2, <1>3, FinishFacts

(* A clock that has not run out is settled to what is left of it.          *)
LEMMA SettleFacts ==
    ASSUME NEW r \in Rooms, ConsistentRoom(r), r.phase = "Active", ~Flagged(r)
    PROVE  /\ IsRoom(SettleActiveClock(r)) /\ SettleActiveClock(r).phase = "Active"
           /\ SettleActiveClock(r).revision = r.revision
           /\ Durable(SettleActiveClock(r)) = Durable(r)
<1>1. CASE mode = "Daily"
  BY <1>1 DEF SettleActiveClock, IsRoom
<1>2. CASE mode # "Daily"
  <2>1. ElapsedSecs(r) \in Nat /\ r.clocks[r.turn] \in Nat /\ ElapsedSecs(r) < r.clocks[r.turn]
    BY <1>2, ElapsedTyped DEF Flagged, Rooms
  <2>2. r.clocks[r.turn] - ElapsedSecs(r) \in Nat
    BY <2>1
  <2> DEFINE left == r.clocks[r.turn] - ElapsedSecs(r)
  <2>3. SettleActiveClock(r) = [r EXCEPT !.clocks = [@ EXCEPT ![r.turn] = left], !.since = 0]
    BY <1>2 DEF SettleActiveClock, Rooms
  <2> HIDE DEF left
  <2> DEFINE clocks == [r.clocks EXCEPT ![r.turn] = left]
  <2>6. clocks \in [Colors -> Nat]
    BY <2>2 DEF left, Rooms
  <2>7. SettleActiveClock(r) =
          [seats |-> r.seats, ready |-> r.ready, phase |-> r.phase, result |-> r.result,
           turn |-> r.turn, plies |-> r.plies, clocks |-> clocks, since |-> 0,
           deadline |-> r.deadline, generation |-> r.generation, revision |-> r.revision]
    BY <2>3 DEF Rooms
  <2> HIDE DEF clocks
  <2>4. SettleActiveClock(r) \in Rooms
    BY <2>6, <2>7 DEF Rooms
  <2>5. /\ SettleActiveClock(r).phase = r.phase /\ SettleActiveClock(r).deadline = r.deadline
        /\ SettleActiveClock(r).seats = r.seats /\ SettleActiveClock(r).ready = r.ready
        /\ SettleActiveClock(r).result = r.result /\ SettleActiveClock(r).turn = r.turn
        /\ SettleActiveClock(r).plies = r.plies /\ SettleActiveClock(r).revision = r.revision
    BY <2>3 DEF Rooms
  <2> QED
    BY <2>4, <2>5 DEF IsRoom, ConsistentRoom, Full, Durable
<1> QED
  BY <1>1, <1>2

(* The turn of a running game starts: its clock runs and it has a deadline. *)
LEMMA StartTurnFacts ==
    ASSUME NEW r \in Rooms, r.phase = "Active", Full(r), \A c \in Colors : ~r.ready[c]
    PROVE  /\ IsRoom(StartTurnClock(r)) /\ StartTurnClock(r).revision = r.revision
           /\ StartTurnClock(r).phase = "Active"
           /\ StartTurnClock(r).generation \in Nat /\ StartTurnClock(r).deadline \in Nat
<1>1. Allowance(r) \in Nat
  <2>1. MoveSecs \in Nat /\ r.clocks[r.turn] \in Nat
    BY ChessAssumption DEF Rooms
  <2> QED
    BY <2>1, TickFacts DEF Allowance
<1>2. LET x == StartTurnClock(r)
      IN  /\ x.seats = r.seats /\ x.turn = r.turn /\ x.clocks = r.clocks
          /\ x.plies = r.plies /\ x.revision = r.revision /\ x.result = r.result
          /\ x.since \in {0, None} /\ x.deadline = Allowance(r)
          /\ x.phase = r.phase /\ x.ready = r.ready
          /\ x.generation = r.generation + 1
  BY DEF StartTurnClock, Rooms
<1>3. StartTurnClock(r) = [f \in Fields |-> StartTurnClock(r)[f]]
  BY Zenon, FieldsOfRoom DEF StartTurnClock, Rooms
<1>4. /\ r.generation + 1 \in Nat /\ r.revision \in Nat /\ r.phase \in ChessPhases
      /\ r.seats \in [Colors -> Users \cup {NoUser}] /\ r.turn \in Colors
      /\ r.clocks \in [Colors -> Nat] /\ r.plies \in Nat
      /\ r.result \in Results \cup {None} /\ r.ready \in [Colors -> BOOLEAN]
  BY DEF Rooms
<1>5. StartTurnClock(r) \in Rooms
  <2> DEFINE x == StartTurnClock(r)
  <2>1. /\ x.seats \in [Colors -> Users \cup {NoUser}] /\ x.ready \in [Colors -> BOOLEAN]
        /\ x.phase \in ChessPhases /\ x.result \in Results \cup {None}
        /\ x.turn \in Colors /\ x.plies \in Nat
    BY <1>2, <1>4
  <2>2. /\ x.clocks \in [Colors -> Nat] /\ x.since \in Nat \cup {None}
        /\ x.deadline \in Nat \cup {None} /\ x.generation \in Nat /\ x.revision \in Nat
    BY <1>1, <1>2, <1>4
  <2>3. x = [f \in Fields |-> x[f]]
    BY <1>3
  <2> HIDE DEF x
  <2>4. x \in Rooms
    BY <2>1, <2>2, <2>3, RoomOfFields
  <2> QED
    BY <2>4 DEF x
<1>6. Allowance(r) # None
  BY <1>1, ChessAssumption
<1> QED
  BY <1>1, <1>2, <1>4, <1>5, <1>6 DEF IsRoom, ConsistentRoom, Full

(* What Move and LastMove make of a running game before they go on.        *)
LEMMA PlayedFacts ==
    ASSUME IsRoom(room), room.phase = "Active", ~Flagged(room)
    PROVE  /\ Played \in Rooms /\ Played.phase = "Active" /\ Full(Played)
           /\ Played.revision = room.revision /\ \A c \in Colors : ~Played.ready[c]
<1> DEFINE settled == SettleActiveClock(room)
           raised == ApplyIncrement(settled)
<1>1. /\ IsRoom(settled) /\ settled.phase = "Active" /\ settled.revision = room.revision
      /\ Full(settled) /\ \A c \in Colors : ~settled.ready[c]
  BY SettleFacts DEF IsRoom, ConsistentRoom
<1> HIDE DEF settled
<1>2. /\ raised \in Rooms /\ raised.phase = settled.phase /\ raised.seats = settled.seats
      /\ raised.revision = settled.revision /\ raised.ready = settled.ready
  <2>1. settled \in Rooms
    BY <1>1 DEF IsRoom
  <2>2. CASE mode = "Daily"
    BY <2>1, <2>2 DEF ApplyIncrement
  <2>3. CASE mode # "Daily"
    <3>1. settled.clocks[settled.turn] + IncrementSecs \in Nat
      BY <2>1, ChessAssumption DEF Rooms
    <3> DEFINE raise == settled.clocks[settled.turn] + IncrementSecs
    <3>2. raised = [settled EXCEPT !.clocks = [@ EXCEPT ![settled.turn] = raise]]
      BY <2>1, <2>3 DEF ApplyIncrement, Rooms
    <3> HIDE DEF raise, raised
    <3>3. raised \in Rooms
      BY <2>1, <3>1, <3>2 DEF raise, Rooms
    <3>4. /\ raised.phase = settled.phase /\ raised.seats = settled.seats
          /\ raised.revision = settled.revision /\ raised.ready = settled.ready
      BY <2>1, <3>2 DEF Rooms
    <3> QED
      BY <3>3, <3>4
  <2> QED
    BY <2>2, <2>3
<1>3. Played = [raised EXCEPT !.turn = Other(raised.turn), !.plies = raised.plies + 1]
  BY DEF Played, settled
<1> HIDE DEF raised
<1>4. /\ Played.phase = raised.phase /\ Played.seats = raised.seats
      /\ Played.revision = raised.revision /\ Played.ready = raised.ready
  BY <1>2, <1>3 DEF Rooms
<1>5. Played \in Rooms
  <2>1. Other(raised.turn) \in Colors /\ raised.plies + 1 \in Nat
    BY <1>2 DEF Rooms, Other
  <2> DEFINE turned == [raised EXCEPT !.turn = Other(raised.turn)]
  <2>2. turned \in Rooms
    BY <1>2, <2>1 DEF Rooms
  <2>3. Played = [turned EXCEPT !.plies = raised.plies + 1]
    BY <1>3
  <2> HIDE DEF turned
  <2> QED
    BY <2>1, <2>2, <2>3 DEF Rooms
<1> QED
  BY <1>1, <1>2, <1>4, <1>5 DEF Full

-------------------------------------------------------------------------------
(* Time changes a deadline and a clock, and nothing that lasts.            *)
LEMMA EarlierTyped ==
    ASSUME NEW t \in Nat
    PROVE  Earlier(t) \in Nat
<1>1. Max({t - 1, 0}) \in {t - 1, 0} /\ Max({t - 1, 0}) >= 0
  BY ExtremeFacts
<1> QED
  BY <1>1 DEF Earlier

LEMMA AgedFacts ==
    ASSUME NEW r, IsRoom(r)
    PROVE  /\ IsRoom(Aged(r)) /\ Durable(Aged(r)) = Durable(r)
           /\ Aged(r).revision = r.revision /\ Aged(r).phase = r.phase
           /\ Aged(r).since = r.since /\ Aged(r).clocks = r.clocks
<1>1. CASE r.deadline = None
  BY <1>1 DEF Aged
<1>2. CASE r.deadline # None
  <2>1. Earlier(r.deadline) \in Nat
    BY <1>2, EarlierTyped DEF IsRoom, Rooms
  <2>2. Aged(r) = [r EXCEPT !.deadline = Earlier(r.deadline)]
    BY <1>2 DEF Aged
  <2>3. Aged(r) \in Rooms
    BY <2>1, <2>2 DEF IsRoom, Rooms
  <2>4. /\ Aged(r).seats = r.seats /\ Aged(r).ready = r.ready /\ Aged(r).phase = r.phase
        /\ Aged(r).result = r.result /\ Aged(r).turn = r.turn /\ Aged(r).plies = r.plies
        /\ Aged(r).since = r.since /\ Aged(r).revision = r.revision
        /\ Aged(r).clocks = r.clocks /\ Aged(r).deadline = Earlier(r.deadline)
    BY <2>2 DEF IsRoom, Rooms
  <2>5. Earlier(r.deadline) # None
    BY <2>1, ChessAssumption
  <2> QED
    BY <1>2, <2>3, <2>4, <2>5 DEF IsRoom, ConsistentRoom, Full, Durable
<1> QED
  BY <1>1, <1>2

(* Another since in a running game changes nothing that lasts.             *)
LEMMA SinceFacts ==
    ASSUME NEW r, IsRoom(r), NEW n \in Nat \cup {None}, n = None \/ r.phase = "Active"
    PROVE  LET x == [r EXCEPT !.since = n]
           IN  /\ IsRoom(x) /\ Durable(x) = Durable(r)
               /\ x.revision = r.revision /\ x.phase = r.phase
<1> DEFINE x == [r EXCEPT !.since = n]
<1>1. /\ x \in Rooms /\ x.seats = r.seats /\ x.ready = r.ready /\ x.phase = r.phase
      /\ x.result = r.result /\ x.turn = r.turn /\ x.plies = r.plies
      /\ x.since = n /\ x.revision = r.revision /\ x.deadline = r.deadline
  BY DEF IsRoom, Rooms
<1> HIDE DEF x
<1>2. IsRoom(x) /\ Durable(x) = Durable(r)
  BY <1>1 DEF IsRoom, ConsistentRoom, Full, Durable
<1> QED
  BY <1>1, <1>2 DEF x

(* What a new process builds from a row is the room the row shows.         *)
LEMMA RestoredFacts ==
    ASSUME NEW r, IsRoom(r)
    PROVE  /\ IsRoom(Restored(r)) /\ Durable(Restored(r)) = Durable(r)
           /\ Restored(r).revision = r.revision /\ Restored(r).phase = r.phase
<1>1. CASE r.phase # "Active"
  <2>1. r.since = None /\ r.deadline = None /\ r \in Rooms
    BY <1>1 DEF IsRoom, ConsistentRoom
  <2>2. Restored(r) = [r EXCEPT !.since = None, !.deadline = None]
    BY <1>1 DEF Restored
  <2>3. [r EXCEPT !.since = None, !.deadline = None] = r
    BY <2>1 DEF Rooms
  <2> QED
    BY <2>2, <2>3
<1>2. CASE r.phase = "Active"
  <2>1. Full(r) /\ r \in Rooms /\ r.deadline \in Nat
    BY <1>2 DEF IsRoom, ConsistentRoom, Rooms
  <2>2. Restored(r) = RestoreActiveClock(r)
    BY <1>2, <2>1 DEF Restored
  <2>3. CASE mode = "Daily"
    BY <2>2, <2>3 DEF RestoreActiveClock
  <2>4. CASE mode # "Daily" /\ r.deadline = 0
    <3>1. SecondTicks * r.clocks[r.turn] \in Nat
      BY <2>1, TickFacts DEF Rooms
    <3>2. Restored(r) = [r EXCEPT !.since = SecondTicks * r.clocks[r.turn]]
      BY <2>2, <2>4 DEF RestoreActiveClock
    <3> QED
      BY <1>2, <3>1, <3>2, SinceFacts
  <2>5. CASE mode # "Daily" /\ r.deadline # 0
    <3> DEFINE secs == Max({r.deadline \div SecondTicks, 1})
               wound == [r EXCEPT !.clocks = [@ EXCEPT ![r.turn] = secs]]
    <3>1. secs \in Nat
      <4>1. r.deadline \div SecondTicks \in Nat
        BY <2>1, TickFacts
      <4>2. Max({r.deadline \div SecondTicks, 1}) \in {r.deadline \div SecondTicks, 1}
        BY <4>1, ExtremeFacts
      <4> QED
        BY <4>1, <4>2
    <3> HIDE DEF secs
    <3>2. /\ wound \in Rooms /\ wound.seats = r.seats /\ wound.ready = r.ready
          /\ wound.phase = r.phase /\ wound.result = r.result /\ wound.turn = r.turn
          /\ wound.plies = r.plies /\ wound.since = r.since
          /\ wound.revision = r.revision /\ wound.deadline = r.deadline
      BY <2>1, <3>1 DEF Rooms
    <3>3. Restored(r) = [wound EXCEPT !.since = 0]
      BY <2>1, <2>2, <2>5 DEF RestoreActiveClock, secs, Rooms
    <3> HIDE DEF wound
    <3>4. IsRoom(wound) /\ Durable(wound) = Durable(r) /\ wound.phase = "Active"
      BY <1>2, <3>2 DEF IsRoom, ConsistentRoom, Full, Durable
    <3> QED
      BY <3>2, <3>3, <3>4, SinceFacts
  <2> QED
    BY <2>3, <2>4, <2>5
<1> QED
  BY <1>1, <1>2

-------------------------------------------------------------------------------
(* The part of the type invariant that a save of a change leaves true.     *)
RoomOK ==
    /\ mode \in Modes /\ live \in BOOLEAN /\ unsaved \in BOOLEAN /\ restarts \in Nat
    /\ IsRoom(room) /\ IsRoom(row) /\ \A s \in saves : IsRoom(s)

LedgerOK == tasks \subseteq [generation : Nat, due : Nat] /\ rewound \in BOOLEAN /\ wins \in Nat

LEMMA TypeParts == TypeOK <=> RoomOK /\ LedgerOK
  BY DEF TypeOK, RoomOK, LedgerOK, IsRoom

(* A change is on its way to the row as soon as it is made.                *)
LEMMA PersistSafe ==
    ASSUME IInv, live, NEW r, IsRoom(r), r.revision = room.revision, Persist(r)
    PROVE  /\ RoomOK' /\ SavesInv' /\ live'
           /\ room'.phase = r.phase /\ row' = row
<1>1. /\ room' = [r EXCEPT !.revision = r.revision + 1]
      /\ saves' = saves \cup {[room' EXCEPT !.since = None]}
      /\ unsaved' = FALSE /\ mode' = mode /\ row' = row /\ live' = live /\ restarts' = restarts
  BY DEF Persist
<1>2. RoomOK /\ SavesKnown /\ RowKnown /\ r \in Rooms /\ r.revision \in Nat
  BY TypeParts DEF IInv, SavesInv, IsRoom, Rooms
<1>3. /\ room' \in Rooms /\ room'.seats = r.seats /\ room'.ready = r.ready
      /\ room'.phase = r.phase /\ room'.result = r.result /\ room'.turn = r.turn
      /\ room'.plies = r.plies /\ room'.since = r.since
      /\ room'.revision = r.revision + 1 /\ room'.deadline = r.deadline
  BY <1>1, <1>2 DEF Rooms
<1>4. IsRoom(room')
  BY <1>3 DEF IsRoom, ConsistentRoom, Full
<1> DEFINE latest == [room' EXCEPT !.since = None]
<1>5. /\ IsRoom(latest) /\ Durable(latest) = Durable(room')
      /\ latest.revision = room'.revision
  BY <1>4, SinceFacts
<1> HIDE DEF latest
<1>6. saves' = saves \cup {latest}
  BY <1>1 DEF latest
<1>7. RoomOK'
  BY <1>1, <1>2, <1>4, <1>5, <1>6 DEF RoomOK
<1>8. \A s \in saves : s.revision \in Nat /\ s.revision <= room.revision
  BY <1>2 DEF SavesKnown, RoomOK, IsRoom, Rooms
<1>9. row.revision \in Nat /\ row.revision <= room.revision
  BY <1>2 DEF RowKnown, RoomOK, IsRoom, Rooms
<1>10. SavesKnown'
  <2> SUFFICES \A s \in saves' : /\ s.revision <= room'.revision
                                 /\ s.revision = room'.revision => Durable(s) = Durable(room')
    BY DEF SavesKnown, Durable
  <2> TAKE s \in saves'
  <2>1. CASE s = latest
    BY <1>2, <1>3, <1>5, <2>1
  <2>2. CASE s \in saves
    <3>1. s.revision < room'.revision
      BY <1>2, <1>3, <1>8, <2>2
    <3> QED
      BY <1>2, <1>3, <1>8, <2>2, <3>1
  <2> QED
    BY <1>6, <2>1, <2>2
<1>11. RowKnown'
  <2>1. row'.revision <= room'.revision /\ row'.revision # room'.revision
    BY <1>1, <1>2, <1>3, <1>9
  <2> QED
    BY <2>1 DEF RowKnown
<1>12. LatestSaved'
  <2>1. latest \in saves' /\ latest.revision = room'.revision
    BY <1>5, <1>6
  <2> QED
    BY <2>1 DEF LatestSaved
<1>13. live'
  BY <1>1
<1>14. SavesInv'
  BY Zenon, <1>10, <1>11, <1>12, <1>13 DEF SavesInv
<1> QED
  BY <1>1, <1>3, <1>7, <1>13, <1>14

(* A step that changes the room without ending a game, or starting one,    *)
(* keeps everything else.                                                  *)
LEMMA KeepSafe ==
    ASSUME IInv, live, NEW r, IsRoom(r), r.revision = room.revision, Persist(r),
           r.phase = "Active" => room.phase = "Active",
           tasks' \subseteq [generation : Nat, due : Nat], wins' = wins, rewound' = rewound
    PROVE  IInv'
<1>1. RoomOK' /\ SavesInv' /\ live' /\ room'.phase = r.phase
  BY PersistSafe
<1>2. LedgerOK'
  BY TypeParts DEF IInv, LedgerOK
<1>3. WinsInv'
  BY <1>1 DEF IInv, WinsInv
<1> QED
  BY <1>1, <1>2, <1>3, TypeParts DEF IInv, TypeOK, RoomOK, LedgerOK, IsRoom

(* The end of a running game: it is won once, and no longer runs.          *)
LEMMA EndSafe ==
    ASSUME IInv, live, room.phase = "Active", NEW r, IsRoom(r), r.revision = room.revision,
           r.phase = "Finished", EndGame(r), tasks' \subseteq [generation : Nat, due : Nat]
    PROVE  IInv'
<1>1. /\ Persist(r) /\ rewound' = rewound
      /\ wins' = wins + IF r.result.winner = None THEN 0 ELSE 1
  BY DEF EndGame
<1>2. RoomOK' /\ SavesInv' /\ live' /\ room'.phase = "Finished"
  BY <1>1, PersistSafe
<1>3. wins \in Nat /\ rewound \in BOOLEAN
  BY DEF IInv, TypeOK
<1> DEFINE credit == IF r.result.winner = None THEN 0 ELSE 1
<1>4. wins' \in {wins, wins + 1}
  <2>1. wins' = wins + credit /\ credit \in {0, 1}
    BY <1>1
  <2> HIDE DEF credit
  <2> QED
    BY <1>3, <2>1
<1>5. LedgerOK'
  BY <1>1, <1>3, <1>4 DEF LedgerOK
<1>6. ~rewound => wins = 0
  BY DEF IInv, WinsInv
<1>7. WinsInv'
  BY <1>1, <1>2, <1>4, <1>6 DEF WinsInv
<1> QED
  BY <1>2, <1>5, <1>7, TypeParts DEF IInv, TypeOK, RoomOK, LedgerOK, IsRoom

(* The room changes under its revision, and nothing of it that lasts does. *)
LEMMA SettleSafe ==
    ASSUME IInv, live, room.phase = "Active", ~Flagged(room),
           room' = SettleActiveClock(room), tasks' \subseteq [generation : Nat, due : Nat],
           UNCHANGED <<mode, saves, live, row, history>>
    PROVE  IInv'
<1>1. IsRoom(room)
  BY DEF IInv, TypeOK, IsRoom
<1>2. /\ IsRoom(room') /\ room'.phase = "Active" /\ room'.revision = room.revision
      /\ Durable(room') = Durable(room)
  BY <1>1, SettleFacts DEF IsRoom
<1>3. TypeOK'
  BY <1>2 DEF IInv, TypeOK, IsRoom, history
<1>4. SavesInv'
  <2>1. /\ saves' = saves /\ row' = row
        /\ room'.revision = room.revision /\ Durable(room') = Durable(room)
    BY <1>2
  <2>2. /\ SavesKnown => SavesKnown'
        /\ RowKnown => RowKnown'
        /\ LatestSaved => LatestSaved'
    BY <2>1 DEF SavesKnown, RowKnown, LatestSaved, Durable
  <2>3. live /\ live' /\ (unsaved => unsaved')
    BY DEF history
  <2> QED
    BY Zenon, <2>1, <2>2, <2>3 DEF IInv, SavesInv
<1>5. WinsInv'
  BY <1>2 DEF IInv, WinsInv, history
<1> QED
  BY <1>3, <1>4, <1>5 DEF IInv

-------------------------------------------------------------------------------
(* The operations of players.                                              *)
LEMMA StateFacts ==
    ASSUME IInv
    PROVE  /\ IsRoom(room) /\ IsRoom(row) /\ \A s \in saves : IsRoom(s)
           /\ tasks \subseteq [generation : Nat, due : Nat]
           /\ wins \in Nat /\ rewound \in BOOLEAN
  BY DEF IInv, TypeOK, IsRoom

LEMMA SeatPhase ==
    ASSUME NEW r \in Rooms, r.since = None, r.deadline = None,
           (\E c \in Colors : r.ready[c]) => Full(r), ~\A c \in Colors : r.ready[c]
    PROVE  LET x == [r EXCEPT !.phase = PhaseOfSeats(r)]
           IN  IsRoom(x) /\ x.revision = r.revision /\ x.phase # "Active"
<1>1. PhaseOfSeats(r) \in {"Waiting", "Ready"}
  BY DEF PhaseOfSeats
<1> DEFINE x == [r EXCEPT !.phase = PhaseOfSeats(r)]
<1>2. /\ x \in Rooms /\ x.seats = r.seats /\ x.ready = r.ready /\ x.since = r.since
      /\ x.deadline = r.deadline /\ x.revision = r.revision /\ x.phase = PhaseOfSeats(r)
  BY <1>1 DEF Rooms, ChessPhases
<1> HIDE DEF x
<1>3. IsRoom(x)
  BY <1>1, <1>2 DEF IsRoom, ConsistentRoom, Full
<1> QED
  BY <1>1, <1>2, <1>3 DEF x

LEMMA SitSafe ==
    ASSUME IInv, NEW u \in Users, Sit(u)
    PROVE  IInv'
<1>1. PICK c \in Colors :
        /\ room.seats[c] = NoUser
        /\ LET r == [room EXCEPT !.seats[c] = u, !.ready[c] = FALSE]
           IN  Persist([r EXCEPT !.phase = PhaseOfSeats(r)])
  BY DEF Sit
<1> DEFINE r == [room EXCEPT !.seats[c] = u, !.ready[c] = FALSE]
           x == [r EXCEPT !.phase = PhaseOfSeats(r)]
<1>2. /\ live /\ room.phase # "Active" /\ tasks' = tasks /\ wins' = wins
      /\ rewound' = rewound
  BY DEF Sit, Keep
<1>3. room \in Rooms /\ room.since = None /\ room.deadline = None
  BY <1>2, StateFacts DEF IsRoom, ConsistentRoom
<1>4. ~Full(room) /\ \A d \in Colors : ~room.ready[d]
  BY <1>1, StateFacts DEF IsRoom, ConsistentRoom, Full
<1>5. /\ r.since = None /\ r.deadline = None /\ r.revision = room.revision
      /\ \A d \in Colors : ~r.ready[d]
  BY <1>3, <1>4 DEF Rooms
<1>6. r \in Rooms
  <2> DEFINE sat == [room EXCEPT !.seats = [@ EXCEPT ![c] = u]]
  <2>1. sat \in Rooms /\ sat.ready = room.ready
    BY <1>3 DEF Rooms
  <2>2. r = [sat EXCEPT !.ready = [@ EXCEPT ![c] = FALSE]]
    BY <1>3 DEF Rooms
  <2> HIDE DEF sat
  <2> QED
    BY <2>1, <2>2 DEF Rooms
<1> HIDE DEF r
<1>7. IsRoom(x) /\ x.revision = room.revision /\ x.phase # "Active"
  BY <1>5, <1>6, SeatPhase
<1>8. Persist(x)
  BY <1>1 DEF r
<1> HIDE DEF x
<1> QED
  BY <1>2, <1>7, <1>8, StateFacts, KeepSafe

LEMMA LeaveSafe ==
    ASSUME IInv, NEW u \in Users, Leave(u)
    PROVE  IInv'
<1> DEFINE left(c) == [room EXCEPT !.seats[c] = NoUser, !.ready[c] = FALSE]
<1>1. PICK c \in Colors :
        LET r == ResetBoard(left(c))
        IN  Persist([r EXCEPT !.phase = PhaseOfSeats(r)])
  BY DEF Leave, SeatsOf
<1> DEFINE r == ResetBoard(left(c))
           x == [r EXCEPT !.phase = PhaseOfSeats(r)]
<1>2. /\ live /\ room.phase # "Active" /\ tasks' = tasks /\ wins' = wins
      /\ rewound' = rewound
  BY DEF Leave, Keep
<1>3. room \in Rooms
  BY StateFacts DEF IsRoom
<1>4. left(c) \in Rooms /\ left(c).revision = room.revision
  <2> DEFINE empty == [room EXCEPT !.seats = [@ EXCEPT ![c] = NoUser]]
  <2>1. empty \in Rooms /\ empty.ready = room.ready /\ empty.revision = room.revision
    BY <1>3 DEF Rooms
  <2>2. left(c) = [empty EXCEPT !.ready = [@ EXCEPT ![c] = FALSE]]
    BY <1>3 DEF Rooms
  <2> DEFINE gone == left(c)
  <2>3. gone = [empty EXCEPT !.ready = [@ EXCEPT ![c] = FALSE]]
    BY <2>2
  <2> HIDE DEF empty, gone
  <2>4. gone \in Rooms /\ gone.revision = empty.revision
    BY <2>1, <2>3 DEF Rooms
  <2> QED
    BY <2>1, <2>4 DEF gone
<1> HIDE DEF left
<1>5. /\ r \in Rooms /\ r.since = None /\ r.deadline = None
      /\ r.ready = [d \in Colors |-> FALSE] /\ r.revision = room.revision
  BY <1>4, ResetFacts
<1> HIDE DEF r
<1>6. \A d \in Colors : ~r.ready[d]
  BY <1>5
<1>7. IsRoom(x) /\ x.revision = room.revision /\ x.phase # "Active"
  BY <1>5, <1>6, SeatPhase
<1>8. Persist(x)
  BY <1>1 DEF r
<1> HIDE DEF x
<1> QED
  BY <1>2, <1>7, <1>8, StateFacts, KeepSafe

LEMMA ResignSafe ==
    ASSUME IInv, NEW u \in Users, Resign(u)
    PROVE  IInv'
<1>1. PICK c \in Colors : EndGame(Finish(room, Result("Resignation", Other(c))))
  BY DEF Resign, SeatsOf
<1>2. live /\ room.phase = "Active" /\ tasks' = tasks
  BY DEF Resign
<1>3. Result("Resignation", Other(c)) \in Results
  BY DEF Results, Other
<1> DEFINE x == Finish(room, Result("Resignation", Other(c)))
<1>4. IsRoom(x) /\ x.phase = "Finished" /\ x.revision = room.revision
  BY <1>3, StateFacts, FinishFacts DEF IsRoom
<1>5. EndGame(x)
  BY <1>1
<1> HIDE DEF x
<1> QED
  BY <1>2, <1>4, <1>5, StateFacts, EndSafe

LEMMA GetReadySafe ==
    ASSUME IInv, NEW u \in Users, GetReady(u)
    PROVE  IInv'
<1>1. PICK c \in Colors :
        ~room.ready[c] /\ ~room.ready[Other(c)] /\ Persist([room EXCEPT !.ready[c] = TRUE])
  BY DEF GetReady, SeatsOf
<1> DEFINE x == [room EXCEPT !.ready[c] = TRUE]
<1>2. /\ live /\ room.phase # "Active" /\ Full(room) /\ tasks' = tasks /\ wins' = wins
      /\ rewound' = rewound
  BY DEF GetReady, Keep
<1>3. room \in Rooms /\ ConsistentRoom(room)
  BY StateFacts DEF IsRoom
<1>4. /\ x.seats = room.seats /\ x.phase = room.phase /\ x.since = room.since
      /\ x.deadline = room.deadline /\ x.result = room.result /\ x.revision = room.revision
      /\ x.ready = [room.ready EXCEPT ![c] = TRUE] /\ x \in Rooms
  BY <1>3 DEF Rooms
<1>5. Other(c) \in Colors /\ Other(c) # c
  BY DEF Other
<1>6. ~x.ready[Other(c)]
  BY <1>1, <1>3, <1>4, <1>5 DEF Rooms
<1> HIDE DEF x
<1>7. IsRoom(x)
  BY <1>2, <1>3, <1>4, <1>5, <1>6 DEF IsRoom, ConsistentRoom, Full
<1>8. Persist(x)
  BY <1>1 DEF x
<1> QED
  BY <1>2, <1>4, <1>7, <1>8, StateFacts, KeepSafe

(* The room in which start_game starts the clock. *)
Rematch == IF room.phase = "Finished" THEN SwapColors(room) ELSE room
NewGame == [ResetBoard(Rematch) EXCEPT !.phase = "Active"]

LEMMA NewGameFacts ==
    ASSUME IInv, Full(room)
    PROVE  /\ NewGame \in Rooms /\ NewGame.phase = "Active"
           /\ NewGame.revision = room.revision
           /\ Full(NewGame) /\ \A c \in Colors : ~NewGame.ready[c]
<1>1. room \in Rooms
  BY StateFacts DEF IsRoom
<1>2. Rematch \in Rooms /\ Rematch.revision = room.revision /\ Full(Rematch)
  <2>1. CASE room.phase = "Finished"
    <3> DEFINE swapped == [c \in Colors |-> room.seats[Other(c)]]
    <3>1. swapped \in [Colors -> Users \cup {NoUser}] /\ \A c \in Colors : swapped[c] # NoUser
      BY <1>1 DEF Rooms, Full, Other
    <3>2. Rematch = [room EXCEPT !.seats = swapped]
      BY <2>1 DEF Rematch, SwapColors
    <3> HIDE DEF swapped
    <3>3. Rematch \in Rooms /\ Rematch.revision = room.revision /\ Rematch.seats = swapped
      BY <1>1, <3>1, <3>2 DEF Rooms
    <3> QED
      BY <3>1, <3>3 DEF Full
  <2>2. CASE room.phase # "Finished"
    BY <1>1, <2>2 DEF Rematch
  <2> QED
    BY <2>1, <2>2
<1>3. /\ ResetBoard(Rematch) \in Rooms /\ ResetBoard(Rematch).seats = Rematch.seats
      /\ ResetBoard(Rematch).revision = room.revision
      /\ ResetBoard(Rematch).ready = [c \in Colors |-> FALSE]
  BY <1>2, ResetFacts
<1>4. /\ NewGame \in Rooms /\ NewGame.phase = "Active" /\ NewGame.revision = room.revision
      /\ NewGame.seats = Rematch.seats /\ NewGame.ready = [c \in Colors |-> FALSE]
  BY <1>3 DEF NewGame, Rooms, ChessPhases
<1> QED
  BY <1>2, <1>4 DEF Full

LEMMA StartGameSafe ==
    ASSUME IInv, NEW u \in Users, StartGame(u)
    PROVE  IInv'
<1> DEFINE x == StartTurnClock(NewGame)
<1>1. /\ live /\ Full(room) /\ Persist(x) /\ wins' = 0 /\ rewound' = FALSE
      /\ tasks' = tasks \cup {[generation |-> x.generation, due |-> x.deadline]}
  BY DEF StartGame, ScheduleDeadline, NewGame, Rematch
<1>2. /\ IsRoom(x) /\ x.revision = room.revision
      /\ x.generation \in Nat /\ x.deadline \in Nat
  BY <1>1, NewGameFacts, StartTurnFacts
<1> HIDE DEF x
<1>3. RoomOK' /\ SavesInv' /\ live'
  BY <1>1, <1>2, PersistSafe
<1>4. LedgerOK'
  <2>1. tasks' \subseteq [generation : Nat, due : Nat]
    BY <1>1, <1>2, StateFacts
  <2>2. rewound' \in BOOLEAN /\ wins' \in Nat
    BY <1>1
  <2> QED
    BY <2>1, <2>2 DEF LedgerOK
<1>5. WinsInv'
  BY <1>1, <1>3 DEF WinsInv
<1> QED
  BY <1>3, <1>4, <1>5, TypeParts DEF IInv, TypeOK, RoomOK, LedgerOK, IsRoom

(* A turn that is over, by a move or a late answer.                        *)
LEMMA MoveTooLateSafe ==
    ASSUME IInv, NEW u \in Users, MoveTooLate(u)
    PROVE  IInv'
<1>1. live /\ room.phase = "Active" /\ EndGame(FinishTimeout(room)) /\ tasks' = tasks
  BY DEF MoveTooLate, MayMove
<1> DEFINE x == FinishTimeout(room)
<1>2. IsRoom(x) /\ x.phase = "Finished" /\ x.revision = room.revision
  BY StateFacts, TimeoutFacts DEF IsRoom
<1>3. EndGame(x)
  BY <1>1
<1> HIDE DEF x
<1> QED
  BY <1>1, <1>2, <1>3, StateFacts, EndSafe

LEMMA IllegalMoveSafe ==
    ASSUME IInv, NEW u \in Users, IllegalMove(u)
    PROVE  IInv'
<1>1. /\ live /\ room.phase = "Active" /\ ~Flagged(room)
      /\ room' = SettleActiveClock(room) /\ tasks' = tasks
      /\ UNCHANGED <<mode, saves, live, row, history>>
  BY DEF IllegalMove, MayMove
<1> QED
  BY <1>1, StateFacts, SettleSafe

LEMMA MoveSafe ==
    ASSUME IInv, NEW u \in Users, Move(u)
    PROVE  IInv'
<1> DEFINE x == StartTurnClock(Played)
<1>1. /\ live /\ room.phase = "Active" /\ ~Flagged(room) /\ Persist(x)
      /\ tasks' = tasks \cup {[generation |-> x.generation, due |-> x.deadline]}
      /\ wins' = wins /\ rewound' = rewound
  BY DEF Move, MayMove, ScheduleDeadline
<1>2. /\ Played \in Rooms /\ Played.phase = "Active" /\ Full(Played)
      /\ Played.revision = room.revision /\ \A c \in Colors : ~Played.ready[c]
  BY <1>1, StateFacts, PlayedFacts
<1>3. /\ IsRoom(x) /\ x.revision = room.revision
      /\ x.generation \in Nat /\ x.deadline \in Nat
  BY <1>2, StartTurnFacts
<1> HIDE DEF x
<1>4. tasks' \subseteq [generation : Nat, due : Nat]
  BY <1>1, <1>3, StateFacts
<1> QED
  BY <1>1, <1>3, <1>4, KeepSafe

LEMMA LastMoveSafe ==
    ASSUME IInv, NEW u \in Users, LastMove(u)
    PROVE  IInv'
<1>1. live /\ room.phase = "Active" /\ ~Flagged(room) /\ tasks' = tasks
  BY DEF LastMove, MayMove
<1>2. PICK result \in {Result("Checkmate", room.turn), Result("Draw", None)} :
        EndGame(Finish(Played, result))
  BY DEF LastMove
<1>3. result \in Results
  BY <1>2, StateFacts DEF Results, IsRoom, Rooms
<1>4. Played \in Rooms /\ Played.revision = room.revision
  BY <1>1, StateFacts, PlayedFacts
<1> DEFINE x == Finish(Played, result)
<1>5. IsRoom(x) /\ x.phase = "Finished" /\ x.revision = room.revision
  BY <1>3, <1>4, FinishFacts
<1>6. EndGame(x)
  BY <1>2
<1> HIDE DEF x
<1> QED
  BY <1>1, <1>5, <1>6, StateFacts, EndSafe

-------------------------------------------------------------------------------
(* A deadline task: the game ends on time, or its clock runs on.           *)
LEMMA TimeoutSafe ==
    ASSUME IInv, NEW t \in tasks, TimeoutIfCurrent(t)
    PROVE  IInv'
<1>1. tasks' = tasks \ {t}
  BY DEF TimeoutIfCurrent
<1>2. tasks' \subseteq [generation : Nat, due : Nat]
  BY <1>1, StateFacts
<1>3. CASE IsCurrent(t) /\ Flagged(room) /\ EndGame(FinishTimeout(room))
  <2> DEFINE x == FinishTimeout(room)
  <2>1. IsRoom(x) /\ x.phase = "Finished" /\ x.revision = room.revision
    BY StateFacts, TimeoutFacts DEF IsRoom
  <2>2. EndGame(x)
    BY <1>3
  <2>3. live /\ room.phase = "Active"
    BY <1>3 DEF IsCurrent
  <2> HIDE DEF x
  <2> QED
    BY <1>2, <2>1, <2>2, <2>3, EndSafe
<1>4. CASE /\ IsCurrent(t) /\ ~Flagged(room)
           /\ room' = SettleActiveClock(room)
           /\ UNCHANGED <<mode, saves, live, row, history>>
  BY <1>2, <1>4, SettleSafe DEF IsCurrent
<1>5. CASE UNCHANGED <<mode, room, saves, live, row, history>>
  <2>1. TypeOK'
    BY <1>2, <1>5 DEF IInv, TypeOK, history
  <2>2. SavesInv' /\ WinsInv'
    BY <1>5 DEF IInv, SavesInv, SavesKnown, RowKnown, LatestSaved, WinsInv, history
  <2> QED
    BY <2>1, <2>2 DEF IInv
<1> QED
  BY <1>3, <1>4, <1>5 DEF TimeoutIfCurrent

(* The save tasks.                                                         *)
LEMMA WriteSaveSafe ==
    ASSUME IInv, NEW s \in saves, WriteSave(s)
    PROVE  IInv'
<1>1. /\ row' = IF row.revision <= s.revision THEN s ELSE row
      /\ saves' = saves \ {s}
      /\ room' = room /\ mode' = mode /\ tasks' = tasks /\ live' = live /\ restarts' = restarts
      /\ wins' = wins /\ unsaved' = unsaved /\ rewound' = rewound
  BY DEF WriteSave, history
<1>2. live /\ SavesKnown /\ RowKnown
  BY DEF IInv, SavesInv
<1>3. /\ s.revision \in Nat /\ row.revision \in Nat /\ room.revision \in Nat
      /\ s.revision <= room.revision
      /\ s.revision = room.revision => Durable(s) = Durable(room)
  BY <1>2, StateFacts DEF SavesKnown, IsRoom, Rooms
<1>4. row' \in {s, row} /\ row'.revision >= s.revision /\ row'.revision >= row.revision
  BY <1>1, <1>3
<1>5. TypeOK'
  <2>1. IsRoom(row') /\ (\A x \in saves' : IsRoom(x)) /\ IsRoom(room')
    BY <1>1, <1>4, StateFacts
  <2> QED
    BY <1>1, <2>1 DEF IInv, TypeOK, IsRoom
<1>6. SavesKnown' /\ RowKnown'
  <2>1. SavesKnown'
    BY <1>1, <1>2 DEF SavesKnown, Durable
  <2>2. row'.revision <= room.revision
        /\ (row'.revision = room.revision => Durable(row') = Durable(room))
    BY <1>2, <1>3, <1>4 DEF RowKnown
  <2> QED
    BY <1>1, <2>1, <2>2 DEF RowKnown, Durable
<1>7. LatestSaved => LatestSaved'
  <2> SUFFICES ASSUME LatestSaved, row'.revision # room.revision
               PROVE  \E x \in saves' : x.revision = room.revision
    BY <1>1 DEF LatestSaved
  <2>1. row.revision # room.revision /\ s.revision # room.revision
    BY <1>2, <1>3, <1>4, <1>6, <1>1 DEF RowKnown
  <2>2. PICK x \in saves : x.revision = room.revision
    BY <2>1 DEF LatestSaved
  <2> QED
    BY <1>1, <2>1, <2>2
<1>8. SavesInv'
  <2>1. live' /\ (unsaved => unsaved')
    BY <1>1, <1>2
  <2> QED
    BY Zenon, <1>2, <1>6, <1>7, <2>1 DEF IInv, SavesInv
<1>9. WinsInv'
  BY <1>1, <1>2 DEF IInv, WinsInv
<1> QED
  BY <1>5, <1>8, <1>9 DEF IInv

LEMMA FailSaveSafe ==
    ASSUME IInv, NEW s \in saves, FailSave(s)
    PROVE  IInv'
<1>1. /\ saves' = saves \ {s} /\ unsaved' = (unsaved \/ s.revision = room.revision)
      /\ row' = row /\ room' = room /\ mode' = mode /\ tasks' = tasks /\ live' = live
      /\ restarts' = restarts /\ wins' = wins /\ rewound' = rewound
  BY DEF FailSave
<1>2. live /\ SavesKnown /\ RowKnown
  BY DEF IInv, SavesInv
<1>3. TypeOK'
  <2>1. unsaved' \in BOOLEAN
    BY <1>1
  <2> QED
    BY <1>1, <2>1 DEF IInv, TypeOK
<1>4. SavesKnown' /\ RowKnown'
  BY <1>1, <1>2 DEF SavesKnown, RowKnown, Durable
<1>5. LatestSaved \/ unsaved => LatestSaved' \/ unsaved'
  <2>1. CASE unsaved \/ s.revision = room.revision
    BY <1>1, <2>1
  <2>2. CASE s.revision # room.revision
    BY <1>1, <2>2 DEF LatestSaved
  <2> QED
    BY <2>1, <2>2
<1>6. SavesInv'
  <2>1. live'
    BY <1>1, <1>2
  <2> QED
    BY Zenon, <1>2, <1>4, <1>5, <2>1 DEF IInv, SavesInv
<1>7. WinsInv'
  BY <1>1, <1>2 DEF IInv, WinsInv
<1> QED
  BY <1>3, <1>6, <1>7 DEF IInv

-------------------------------------------------------------------------------
(* The process stops, and the room is built again.                         *)
LEMMA StopSafe ==
    ASSUME IInv, Stop
    PROVE  IInv'
<1>1. /\ live /\ live' = FALSE /\ restarts' = restarts + 1 /\ room' = NewRoom
      /\ tasks' = {} /\ saves' = {} /\ unsaved' = FALSE
      /\ rewound' = (rewound \/ row.revision < room.revision)
      /\ mode' = mode /\ row' = row /\ wins' = wins
  BY DEF Stop
<1>2. TypeOK'
  <2>1. restarts' \in Nat /\ wins' \in Nat /\ mode' \in Modes /\ IsRoom(row')
    BY <1>1, StateFacts DEF IInv, TypeOK
  <2>2. rewound' \in BOOLEAN /\ live' \in BOOLEAN /\ unsaved' \in BOOLEAN
    BY <1>1
  <2>3. IsRoom(room') /\ tasks' = {} /\ saves' = {}
    BY <1>1, NewRoomFacts
  <2> QED
    BY <2>1, <2>2, <2>3 DEF TypeOK, IsRoom
<1>3. SavesInv'
  <2>1. SavesKnown'
    BY <1>1 DEF SavesKnown
  <2> QED
    BY <1>1, <2>1 DEF SavesInv
<1>4. ~rewound' => wins' <= 1 /\ (row'.phase = "Active" => wins' = 0)
  <2> SUFFICES ASSUME ~rewound, ~(row.revision < room.revision)
               PROVE  wins <= 1 /\ (row.phase = "Active" => wins = 0)
    BY <1>1
  <2>1. row.revision \in Nat /\ room.revision \in Nat
    BY StateFacts DEF IsRoom, Rooms
  <2>2. Durable(row) = Durable(room)
    BY <1>1, <2>1 DEF IInv, SavesInv, RowKnown
  <2>3. row.phase = room.phase
    BY <2>2 DEF Durable
  <2> QED
    BY <1>1, <2>3 DEF IInv, WinsInv
<1>5. WinsInv'
  BY <1>1, <1>4 DEF WinsInv
<1> QED
  BY <1>2, <1>3, <1>5 DEF IInv

LEMMA GetOrCreateSafe ==
    ASSUME IInv, GetOrCreate
    PROVE  IInv'
<1>1. /\ ~live /\ live' = TRUE /\ room' = Restored(row)
      /\ mode' = mode /\ saves' = saves /\ row' = row /\ restarts' = restarts
      /\ wins' = wins /\ unsaved' = unsaved /\ rewound' = rewound
  BY DEF GetOrCreate, history
<1>2. /\ IsRoom(room') /\ Durable(room') = Durable(row)
      /\ room'.revision = row.revision /\ room'.phase = row.phase
  BY <1>1, StateFacts, RestoredFacts
<1>3. tasks' \subseteq [generation : Nat, due : Nat]
  <2>1. CASE room'.phase = "Active"
    <3>1. tasks' = tasks \cup {[generation |-> room'.generation, due |-> room'.deadline]}
      BY <2>1 DEF GetOrCreate, ScheduleDeadline
    <3>2. room'.generation \in Nat /\ room'.deadline \in Nat
      BY <1>2, <2>1 DEF IsRoom, ConsistentRoom, Rooms
    <3> QED
      BY <3>1, <3>2, StateFacts
  <2>2. CASE room'.phase # "Active"
    BY <2>2 DEF GetOrCreate
  <2> QED
    BY <2>1, <2>2
<1>4. TypeOK'
  <2>1. /\ mode' \in Modes /\ live' \in BOOLEAN /\ unsaved' \in BOOLEAN
        /\ rewound' \in BOOLEAN /\ restarts' \in Nat /\ wins' \in Nat
    BY <1>1 DEF IInv, TypeOK
  <2>2. IsRoom(row') /\ \A x \in saves' : IsRoom(x)
    BY <1>1, StateFacts
  <2> QED
    BY <1>2, <1>3, <2>1, <2>2 DEF TypeOK, IsRoom
<1>5. saves' = {}
  BY <1>1 DEF IInv, SavesInv
<1>6. SavesKnown' /\ RowKnown' /\ LatestSaved'
  <2>1. SavesKnown'
    BY <1>5 DEF SavesKnown
  <2>2. row'.revision = room'.revision /\ Durable(row') = Durable(room')
    BY <1>1, <1>2
  <2>3. row'.revision \in Nat
    BY <1>1, StateFacts DEF IsRoom, Rooms
  <2> QED
    BY <2>1, <2>2, <2>3 DEF RowKnown, LatestSaved, Durable
<1>7. SavesInv'
  BY <1>1, <1>6 DEF SavesInv
<1>8. WinsInv'
  BY <1>1, <1>2 DEF IInv, WinsInv
<1> QED
  BY <1>4, <1>7, <1>8 DEF IInv

(* Time changes nothing that a save has to keep.                           *)
LEMMA TickSafe ==
    ASSUME IInv, Tick
    PROVE  IInv'
<1>1. /\ room' = IF room.since = None THEN Aged(room) ELSE [Aged(room) EXCEPT !.since = Later(room)]
      /\ tasks' = {[t EXCEPT !.due = Earlier(@)] : t \in tasks}
      /\ row' = Aged(row) /\ saves' = {Aged(s) : s \in saves}
      /\ mode' = mode /\ live' = live /\ restarts' = restarts /\ wins' = wins
      /\ unsaved' = unsaved /\ rewound' = rewound
  BY DEF Tick, history
<1>2. /\ IsRoom(room') /\ Durable(room') = Durable(room)
      /\ room'.revision = room.revision /\ room'.phase = room.phase
  <2>1. /\ IsRoom(Aged(room)) /\ Durable(Aged(room)) = Durable(room)
        /\ Aged(room).revision = room.revision /\ Aged(room).phase = room.phase
    BY StateFacts, AgedFacts
  <2>2. CASE room.since = None
    BY <1>1, <2>1, <2>2
  <2>3. CASE room.since # None
    <3>1. room.phase = "Active" /\ room.since \in Nat
      BY <2>3, StateFacts DEF IsRoom, ConsistentRoom, Rooms
    <3>2. SecondTicks * room.clocks[room.turn] \in Nat
      BY StateFacts, TickFacts DEF IsRoom, Rooms
    <3>3. Later(room) \in {room.since + 1, SecondTicks * room.clocks[room.turn]}
      <4> DEFINE next == room.since + 1
                 limit == SecondTicks * room.clocks[room.turn]
      <4>1. next \in Int /\ limit \in Int
        BY <3>1, <3>2
      <4>2. Later(room) = Min({next, limit})
        BY DEF Later
      <4> HIDE DEF next, limit
      <4>3. Later(room) \in {next, limit}
        BY <4>1, <4>2, ExtremeFacts
      <4> QED
        BY <4>3 DEF next, limit
    <3>4. Later(room) \in Nat
      BY <3>1, <3>2, <3>3
    <3>5. room' = [Aged(room) EXCEPT !.since = Later(room)]
      BY <1>1, <2>3
    <3>6. /\ IsRoom([Aged(room) EXCEPT !.since = Later(room)])
          /\ Durable([Aged(room) EXCEPT !.since = Later(room)]) = Durable(Aged(room))
          /\ [Aged(room) EXCEPT !.since = Later(room)].revision = Aged(room).revision
          /\ [Aged(room) EXCEPT !.since = Later(room)].phase = Aged(room).phase
      BY <2>1, <3>1, <3>4, SinceFacts
    <3> QED
      BY <2>1, <3>5, <3>6
  <2> QED
    BY <2>2, <2>3
<1>3. /\ IsRoom(row') /\ Durable(row') = Durable(row)
      /\ row'.revision = row.revision /\ row'.phase = row.phase
  BY <1>1, StateFacts, AgedFacts
<1>4. \A s \in saves : /\ IsRoom(Aged(s)) /\ Durable(Aged(s)) = Durable(s)
                       /\ Aged(s).revision = s.revision
  BY StateFacts, AgedFacts
<1>5. TypeOK'
  <2>1. tasks' \subseteq [generation : Nat, due : Nat]
    <3>1. \A t \in tasks : t.due \in Nat /\ t \in [generation : Nat, due : Nat]
      BY StateFacts
    <3>2. \A t \in tasks : Earlier(t.due) \in Nat
      BY <3>1, EarlierTyped
    <3>3. \A t \in tasks : [t EXCEPT !.due = Earlier(@)] \in [generation : Nat, due : Nat]
      BY <3>1, <3>2
    <3> QED
      BY <1>1, <3>3
  <2>2. \A x \in saves' : IsRoom(x)
    BY <1>1, <1>4
  <2>3. /\ mode' \in Modes /\ live' \in BOOLEAN /\ unsaved' \in BOOLEAN
        /\ rewound' \in BOOLEAN /\ restarts' \in Nat /\ wins' \in Nat
    BY <1>1 DEF IInv, TypeOK
  <2> QED
    BY <1>2, <1>3, <2>1, <2>2, <2>3 DEF TypeOK, IsRoom
<1>6. SavesKnown => SavesKnown'
  BY <1>1, <1>2, <1>4 DEF SavesKnown, Durable
<1>7. RowKnown => RowKnown'
  <2> SUFFICES ASSUME RowKnown PROVE RowKnown'
    OBVIOUS
  <2>1. row'.revision <= room'.revision
        /\ (row'.revision = room'.revision => Durable(row') = Durable(room'))
    BY <1>2, <1>3 DEF RowKnown
  <2> QED
    BY <2>1 DEF RowKnown, Durable
<1>8. LatestSaved => LatestSaved'
  BY <1>1, <1>2, <1>3, <1>4 DEF LatestSaved
<1>9. SavesInv'
  <2>1. CASE live
    <3>1. live' /\ (unsaved => unsaved')
      BY <1>1, <2>1
    <3> QED
      BY Zenon, <1>6, <1>7, <1>8, <2>1, <3>1 DEF IInv, SavesInv
  <2>2. CASE ~live
    <3>1. ~live' /\ saves' = {}
      BY <1>1, <2>2 DEF IInv, SavesInv
    <3> QED
      BY Zenon, <1>6, <3>1 DEF IInv, SavesInv
  <2> QED
    BY <2>1, <2>2
<1>10. WinsInv'
  BY <1>1, <1>2, <1>3 DEF IInv, WinsInv
<1> QED
  BY <1>5, <1>9, <1>10 DEF IInv

-------------------------------------------------------------------------------
LEMMA InitSafe ==
    ASSUME Init
    PROVE  IInv
<1>1. /\ room = NewRoom /\ row = NewRoom /\ tasks = {} /\ saves = {} /\ live = TRUE
      /\ restarts = 0 /\ wins = 0 /\ unsaved = FALSE /\ rewound = FALSE /\ mode \in Modes
  BY DEF Init
<1>2. TypeOK
  BY <1>1, NewRoomFacts DEF TypeOK, IsRoom
<1>3. SavesKnown /\ RowKnown /\ LatestSaved
  BY <1>1, NewRoomFacts DEF SavesKnown, RowKnown, LatestSaved
<1>4. SavesInv
  BY <1>1, <1>3 DEF SavesInv
<1>5. WinsInv
  BY <1>1, NewRoomFacts DEF WinsInv
<1> QED
  BY <1>2, <1>4, <1>5 DEF IInv

LEMMA StepSafe ==
    ASSUME IInv, [Next]_vars
    PROVE  IInv'
<1>1. CASE PlayerStep
  <2>1. PICK u \in Users :
          \/ Sit(u) \/ Leave(u) \/ Resign(u) \/ GetReady(u) \/ StartGame(u)
          \/ MoveTooLate(u) \/ IllegalMove(u) \/ Move(u) \/ LastMove(u)
    BY <1>1 DEF PlayerStep
  <2> QED
    BY <2>1, SitSafe, LeaveSafe, ResignSafe, GetReadySafe, StartGameSafe,
       MoveTooLateSafe, IllegalMoveSafe, MoveSafe, LastMoveSafe
<1>2. CASE TimerStep
  BY <1>2, TimeoutSafe DEF TimerStep
<1>3. CASE SaveStep
  BY <1>3, WriteSaveSafe, FailSaveSafe DEF SaveStep
<1>4. CASE Stop
  BY <1>4, StopSafe
<1>5. CASE GetOrCreate
  BY <1>5, GetOrCreateSafe
<1>6. CASE Tick
  BY <1>6, TickSafe
<1>7. CASE UNCHANGED vars
  <2>1. /\ mode' = mode /\ room' = room /\ tasks' = tasks /\ row' = row /\ saves' = saves
        /\ live' = live /\ restarts' = restarts /\ wins' = wins
        /\ unsaved' = unsaved /\ rewound' = rewound
    BY <1>7 DEF vars, process, history
  <2>2. TypeOK'
    BY <2>1 DEF IInv, TypeOK
  <2>3. SavesInv' /\ WinsInv'
    BY <2>1 DEF IInv, SavesInv, SavesKnown, RowKnown, LatestSaved, WinsInv
  <2> QED
    BY <2>2, <2>3 DEF IInv
<1> QED
  BY <1>1, <1>2, <1>3, <1>4, <1>5, <1>6, <1>7 DEF Next

LEMMA AlwaysIInv == Spec => []IInv
  BY InitSafe, StepSafe, PTL DEF Spec

(***************************************************************************)
(* Whatever is played, saved, lost and restored, the room, the row and     *)
(* every save on its way are rooms from_runtime_state brings back as they  *)
(* were: SharedState in chess/svc.rs.                                      *)
(***************************************************************************)
THEOREM ChessTypes == Spec => []TypeOK
<1>1. IInv => TypeOK
  BY DEF IInv
<1> QED
  BY <1>1, AlwaysIInv, PTL

(***************************************************************************)
(* The row never shows an older change over a newer one, and catches up,   *)
(* unless the save of the very latest change failed: for every number of   *)
(* saves in flight and of restarts.  save_runtime_state_task,              *)
(* update_runtime_state.                                                   *)
(***************************************************************************)
THEOREM RowIsNewest == Spec => []RowCatchesUp
<1>1. IInv => RowCatchesUp
  <2> SUFFICES ASSUME IInv, live PROVE RowCatchesUp
    BY DEF RowCatchesUp
  <2>1. RowKnown /\ (LatestSaved \/ unsaved)
    BY DEF IInv, SavesInv
  <2>2. saves = {} => row.revision = room.revision \/ unsaved
    BY <2>1 DEF LatestSaved
  <2> QED
    BY <2>1, <2>2 DEF RowKnown, RowCatchesUp
<1> QED
  BY <1>1, AlwaysIInv, PTL

(***************************************************************************)
(* A game is won once, also when the process stops after the win was paid: *)
(* the room that is built again shows the game as finished, unless the     *)
(* save of its end was lost.  publish_game_end, from_runtime_state.        *)
(***************************************************************************)
THEOREM GameWonOnce == Spec => []WinPaidOnce
<1>1. IInv => WinPaidOnce
  BY DEF IInv, WinsInv, WinPaidOnce
<1> QED
  BY <1>1, AlwaysIInv, PTL

------------------------------------------------------------------------------
(***************************************************************************)
(* Nobody loses a chess game on time before the deadline on the screens.   *)
(*                                                                         *)
(* The deadline task and a late move look at the clock, the players at the *)
(* deadline.  Both count down from the same number when a turn starts, but *)
(* settling takes whole seconds off the clock and forgets the rest, and a  *)
(* restart winds the clock to whole seconds of the deadline.  The first    *)
(* can only give time away; the second takes less than a second.           *)
(***************************************************************************)

(* What a restart can take from the player. *)
Slack == IF restarts > 0 THEN SecondTicks - 1 ELSE 0

(* The clock of the turn, in ticks. *)
ClockTicks(r) == SecondTicks * r.clocks[r.turn]

(* The time that the clock has run and the time that is left to the        *)
(* deadline are together no more than the clock shows.                     *)
ClockOf(r) ==
    /\ r.since \in Nat /\ r.since <= ClockTicks(r)
    /\ r.since + r.deadline <= ClockTicks(r) + Slack

ClockInv ==
    /\ ~live => room.phase # "Active" /\ restarts > 0
    /\ mode # "Daily" /\ room.phase = "Active" => ClockOf(room)

(* The smaller of two numbers is one of them, and at most each.             *)
LEMMA LeastFacts ==
    ASSUME NEW x \in Int, NEW y \in Int
    PROVE  Min({x, y}) \in {x, y} /\ Min({x, y}) <= x /\ Min({x, y}) <= y
<1>1. \E m \in {x, y} : \A z \in {x, y} : m =< z
  OBVIOUS
<1>2. Min({x, y}) \in {x, y} /\ \A z \in {x, y} : Min({x, y}) =< z
  BY <1>1 DEF Min
<1> QED
  BY <1>2


-------------------------------------------------------------------------------
(* Seconds and ticks. *)
LEMMA WholeSeconds ==
    ASSUME NEW n \in Nat
    PROVE  /\ n \div SecondTicks \in Nat
           /\ SecondTicks * (n \div SecondTicks) <= n
           /\ n < SecondTicks * (n \div SecondTicks) + SecondTicks
<1>1. SecondTicks \in Nat /\ SecondTicks > 0
  BY ChessAssumption
<1> QED
  BY <1>1, SMT

LEMMA MoreSeconds ==
    ASSUME NEW a \in Nat, NEW b \in Nat, a >= b
    PROVE  /\ SecondTicks * a \in Nat /\ SecondTicks * b \in Nat
           /\ SecondTicks * a >= SecondTicks * b
           /\ SecondTicks * (a - b) = SecondTicks * a - SecondTicks * b
<1>1. SecondTicks \in Nat /\ SecondTicks > 0
  BY ChessAssumption
<1> QED
  BY <1>1, SMT

LEMMA SlackTyped == Slack \in Nat /\ Slack < SecondTicks
<1>1. SecondTicks \in Nat /\ SecondTicks > 0
  BY ChessAssumption
<1> QED
  BY <1>1 DEF Slack

(* A running game, with its clock. *)
LEMMA RunningFacts ==
    ASSUME NEW r, IsRoom(r), r.phase = "Active"
    PROVE  /\ r.deadline \in Nat /\ r.clocks[r.turn] \in Nat /\ r.turn \in Colors
           /\ ClockTicks(r) \in Nat
<1>1. r.clocks[r.turn] \in Nat /\ r.turn \in Colors
  BY DEF IsRoom, Rooms
<1>2. r.deadline \in Nat
  BY DEF IsRoom, ConsistentRoom, Rooms
<1> QED
  BY <1>1, <1>2, MoreSeconds DEF ClockTicks

-------------------------------------------------------------------------------
(* A flag means that the deadline has come. *)
LEMMA FlagMeansDeadline ==
    ASSUME IInv, ClockInv, room.phase = "Active", Flagged(room)
    PROVE  room.deadline = 0 \/ (restarts > 0 /\ room.deadline < SecondTicks)
<1>1. CASE mode = "Daily"
  BY <1>1 DEF Flagged
<1>2. CASE mode # "Daily"
  <2>1. ClockOf(room) /\ room.since # None
    BY <1>2, ChessAssumption DEF ClockInv, ClockOf
  <2>2. room.since \div SecondTicks >= room.clocks[room.turn]
    BY <1>2, <2>1 DEF Flagged, ElapsedSecs
  <2>3. room.deadline \in Nat /\ room.clocks[room.turn] \in Nat /\ ClockTicks(room) \in Nat
    BY RunningFacts, StateFacts
  <2>4. /\ room.since \in Nat /\ room.since \div SecondTicks \in Nat
        /\ SecondTicks * (room.since \div SecondTicks) <= room.since
    BY <2>1, WholeSeconds DEF ClockOf
  <2>5. /\ SecondTicks * (room.since \div SecondTicks) \in Nat
        /\ SecondTicks * (room.since \div SecondTicks) >= ClockTicks(room)
    BY <2>2, <2>3, <2>4, MoreSeconds DEF ClockTicks
  <2>6. room.since >= ClockTicks(room)
    BY <2>3, <2>4, <2>5
  <2>7. room.deadline <= Slack
    BY <2>1, <2>3, <2>4, <2>6, SlackTyped DEF ClockOf
  <2>8. CASE restarts > 0
    BY <2>3, <2>7, <2>8, SlackTyped, ChessAssumption
  <2>9. CASE ~(restarts > 0)
    BY <2>3, <2>7, <2>9 DEF Slack
  <2> QED
    BY <2>8, <2>9
<1> QED
  BY <1>1, <1>2

(* A clock that is settled has run as much less as it shows less. *)
LEMMA SettledClock ==
    ASSUME IInv, ClockInv, room.phase = "Active", ~Flagged(room), mode # "Daily"
    PROVE  ClockOf(SettleActiveClock(room))
<1> DEFINE x == SettleActiveClock(room)
           used == room.since \div SecondTicks
           left == room.clocks[room.turn] - used
<1>1. ClockOf(room) /\ room.since # None
  BY ChessAssumption DEF ClockInv, ClockOf
<1>2. /\ room.deadline \in Nat /\ room.clocks[room.turn] \in Nat /\ room.turn \in Colors
      /\ ClockTicks(room) \in Nat
  BY RunningFacts, StateFacts
<1>3. room.since \in Nat /\ used \in Nat /\ SecondTicks * used <= room.since
  BY <1>1, WholeSeconds DEF ClockOf
<1>4. ElapsedSecs(room) = used
  BY <1>1 DEF ElapsedSecs
<1>5. room.clocks[room.turn] >= used
  BY <1>2, <1>3, <1>4 DEF Flagged
<1>6. x.since = 0 /\ x.deadline = room.deadline /\ x.turn = room.turn
  BY StateFacts DEF SettleActiveClock, IsRoom, Rooms
<1>7. x.clocks[room.turn] = left
  BY <1>2, <1>4, StateFacts DEF SettleActiveClock, IsRoom, Rooms
<1> HIDE DEF x, used
<1>8. /\ SecondTicks * used \in Nat
      /\ ClockTicks(x) = ClockTicks(room) - SecondTicks * used
      /\ ClockTicks(x) \in Nat
  <2>1. left \in Nat
    BY <1>2, <1>3, <1>5
  <2>2. ClockTicks(x) = SecondTicks * left
    BY <1>6, <1>7 DEF ClockTicks
  <2>3. SecondTicks * left \in Nat
    BY <2>1, MoreSeconds
  <2>4. /\ SecondTicks * used \in Nat
        /\ SecondTicks * left = ClockTicks(room) - SecondTicks * used
    BY <1>2, <1>3, <1>5, MoreSeconds DEF ClockTicks
  <2> QED
    BY <2>2, <2>3, <2>4
<1>9. room.since + room.deadline <= ClockTicks(room) + Slack
  BY <1>1 DEF ClockOf
<1>10. x.since + x.deadline <= ClockTicks(x) + Slack
  BY <1>2, <1>3, <1>6, <1>8, <1>9, SlackTyped
<1> QED
  BY <1>6, <1>8, <1>10 DEF ClockOf, x

(* A turn that starts has its clock and its deadline in step. *)
LEMMA StartedClock ==
    ASSUME NEW r \in Rooms, mode # "Daily"
    PROVE  ClockOf(StartTurnClock(r))
<1> DEFINE x == StartTurnClock(r)
<1>1. x.since = 0 /\ x.deadline = ClockTicks(r) /\ x.clocks = r.clocks /\ x.turn = r.turn
  BY DEF StartTurnClock, Allowance, ClockTicks, Rooms
<1>2. ClockTicks(r) \in Nat
  <2>1. r.clocks[r.turn] \in Nat
    BY DEF Rooms
  <2> QED
    BY <2>1, MoreSeconds DEF ClockTicks
<1>3. ClockTicks(x) = ClockTicks(r)
  BY <1>1 DEF ClockTicks
<1> HIDE DEF x
<1>4. ClockOf(x)
  BY <1>1, <1>2, <1>3, SlackTyped DEF ClockOf
<1> QED
  BY <1>4 DEF x

(* A room that is built again may have lost up to a second. *)
LEMMA RestoredClock ==
    ASSUME NEW r, IsRoom(r), r.phase = "Active", mode # "Daily", restarts > 0
    PROVE  ClockOf(Restored(r))
<1>1. /\ r.deadline \in Nat /\ r.clocks[r.turn] \in Nat /\ r.turn \in Colors
      /\ ClockTicks(r) \in Nat
  BY RunningFacts
<1>2. Restored(r) = RestoreActiveClock(r)
  BY DEF Restored, IsRoom, ConsistentRoom
<1>3. CASE r.deadline = 0
  <2> DEFINE x == Restored(r)
  <2>1. x = [r EXCEPT !.since = ClockTicks(r)]
    BY <1>2, <1>3 DEF RestoreActiveClock, ClockTicks
  <2>2. x.since = ClockTicks(r) /\ x.deadline = 0 /\ x.clocks = r.clocks /\ x.turn = r.turn
    BY <1>3, <2>1 DEF IsRoom, Rooms
  <2> HIDE DEF x
  <2>3. ClockTicks(x) = ClockTicks(r)
    BY <2>2 DEF ClockTicks
  <2>4. ClockOf(x)
    BY <1>1, <2>2, <2>3, SlackTyped DEF ClockOf
  <2> QED
    BY <2>4 DEF x
<1>4. CASE r.deadline # 0
  <2> DEFINE secs == Max({r.deadline \div SecondTicks, 1})
             x == Restored(r)
  <2>1. /\ r.deadline \div SecondTicks \in Nat
        /\ r.deadline < SecondTicks * (r.deadline \div SecondTicks) + SecondTicks
    BY <1>1, WholeSeconds
  <2>2. secs \in {r.deadline \div SecondTicks, 1} /\ secs >= r.deadline \div SecondTicks
    <3> DEFINE whole == r.deadline \div SecondTicks
    <3>1. whole \in Int
      BY <2>1
    <3> HIDE DEF whole
    <3>2. Max({whole, 1}) \in {whole, 1} /\ Max({whole, 1}) >= whole
      BY <3>1, ExtremeFacts
    <3> QED
      BY <3>2 DEF whole
  <2>3. secs \in Nat
    BY <2>1, <2>2
  <2> HIDE DEF secs
  <2>4. /\ SecondTicks * secs \in Nat /\ SecondTicks * (r.deadline \div SecondTicks) \in Nat
        /\ SecondTicks * secs >= SecondTicks * (r.deadline \div SecondTicks)
    BY <2>1, <2>2, <2>3, MoreSeconds
  <2>5. x = [r EXCEPT !.clocks = [@ EXCEPT ![r.turn] = secs], !.since = 0]
    BY <1>2, <1>4 DEF RestoreActiveClock, IsRoom, Rooms, secs
  <2>6. x.since = 0 /\ x.deadline = r.deadline /\ x.turn = r.turn /\ x.clocks[r.turn] = secs
    BY <1>1, <2>5 DEF IsRoom, Rooms
  <2> HIDE DEF x
  <2>7. ClockTicks(x) = SecondTicks * secs
    BY <2>6 DEF ClockTicks
  <2>8. Slack = SecondTicks - 1 /\ SecondTicks \in Nat
    BY ChessAssumption DEF Slack
  <2>9. ClockOf(x)
    BY <1>1, <2>1, <2>4, <2>6, <2>7, <2>8 DEF ClockOf
  <2> QED
    BY <2>9 DEF x
<1> QED
  BY <1>3, <1>4

-------------------------------------------------------------------------------
(* What a change leaves of the room it saves. *)
LEMMA PersistKeeps ==
    ASSUME NEW r \in Rooms, Persist(r)
    PROVE  /\ room'.phase = r.phase /\ room'.result = r.result /\ room'.turn = r.turn
           /\ room'.clocks = r.clocks /\ room'.since = r.since /\ room'.deadline = r.deadline
           /\ mode' = mode /\ live' = live /\ restarts' = restarts
  BY DEF Persist, Rooms

(* A step of a live room after which no game runs needs no clock. *)
LEMMA NoGame ==
    ASSUME live, live' = live, room'.phase # "Active"
    PROVE  ClockInv'
  BY DEF ClockInv

(* A step that keeps the clock, or has it in step with the deadline. *)
LEMMA ClockKept ==
    ASSUME live, live' = live, mode' = mode, restarts' = restarts,
           NEW r, room'.turn = r.turn, room'.clocks = r.clocks,
           room'.since = r.since, room'.deadline = r.deadline,
           mode # "Daily" => ClockOf(r)
    PROVE  ClockInv'
<1>1. mode # "Daily" => ClockOf(room)'
  BY DEF ClockOf, ClockTicks, Slack
<1> QED
  BY <1>1 DEF ClockInv

(* The steps of players who are between games. *)
LEMMA SeatedPhase ==
    ASSUME IInv, NEW u \in Users, Sit(u) \/ Leave(u) \/ GetReady(u)
    PROVE  live /\ live' = live /\ room.phase # "Active" /\ room'.phase # "Active"
<1>1. room \in Rooms
  BY StateFacts DEF IsRoom
<1>2. \A r : PhaseOfSeats(r) \in {"Waiting", "Ready"}
  BY DEF PhaseOfSeats
<1>3. CASE Sit(u)
  <2>1. PICK c \in Colors :
          LET r == [room EXCEPT !.seats[c] = u, !.ready[c] = FALSE]
          IN  Persist([r EXCEPT !.phase = PhaseOfSeats(r)])
    BY <1>3 DEF Sit
  <2> DEFINE r == [room EXCEPT !.seats[c] = u, !.ready[c] = FALSE]
  <2>2. "phase" \in DOMAIN r
    BY <1>1 DEF Rooms
  <2> HIDE DEF r
  <2>3. room' = [[r EXCEPT !.phase = PhaseOfSeats(r)] EXCEPT !.revision = @ + 1]
    BY <2>1 DEF Persist, r
  <2>4. room'.phase = PhaseOfSeats(r)
    BY <2>2, <2>3
  <2> QED
    BY <1>2, <1>3, <2>1, <2>4 DEF Sit, Persist
<1>4. CASE Leave(u)
  <2>1. PICK c \in Colors :
          LET r == ResetBoard([room EXCEPT !.seats[c] = NoUser, !.ready[c] = FALSE])
          IN  Persist([r EXCEPT !.phase = PhaseOfSeats(r)])
    BY <1>4 DEF Leave, SeatsOf
  <2> DEFINE r == ResetBoard([room EXCEPT !.seats[c] = NoUser, !.ready[c] = FALSE])
  <2>2. "phase" \in DOMAIN r
    BY <1>1 DEF Rooms, ResetBoard
  <2> HIDE DEF r
  <2>3. room' = [[r EXCEPT !.phase = PhaseOfSeats(r)] EXCEPT !.revision = @ + 1]
    BY <2>1 DEF Persist, r
  <2>4. room'.phase = PhaseOfSeats(r)
    BY <2>2, <2>3
  <2> QED
    BY <1>2, <1>4, <2>1, <2>4 DEF Leave, Persist
<1>5. CASE GetReady(u)
  <2>1. PICK c \in Colors : Persist([room EXCEPT !.ready[c] = TRUE])
    BY <1>5 DEF GetReady, SeatsOf
  <2>2. room'.phase = room.phase
    BY <1>1, <2>1 DEF Persist, Rooms
  <2> QED
    BY <1>5, <2>1, <2>2 DEF GetReady, Persist
<1> QED
  BY <1>3, <1>4, <1>5

(* The end of a game, and how it came. *)
LEMMA EndedPhase ==
    ASSUME NEW r \in Rooms, NEW result \in Results, EndGame(Finish(r, result))
    PROVE  room'.phase = "Finished" /\ room'.result = result /\ live' = live
<1>1. Persist(Finish(r, result)) /\ Finish(r, result) \in Rooms
  BY FinishFacts DEF EndGame, IsRoom
<1>2. Finish(r, result).phase = "Finished" /\ Finish(r, result).result = result
  BY DEF Finish, Rooms
<1> QED
  BY <1>1, <1>2, PersistKeeps

LEMMA FlaggedPhase ==
    ASSUME IInv, EndGame(FinishTimeout(room))
    PROVE  room'.phase = "Finished" /\ live' = live
<1>1. IsRoom(FinishTimeout(room)) /\ FinishTimeout(room).phase = "Finished"
  BY StateFacts, TimeoutFacts DEF IsRoom
<1> QED
  BY <1>1, PersistKeeps DEF EndGame, IsRoom

(* A settled clock, of a refused move or of a deadline task. *)
LEMMA SettledStep ==
    ASSUME IInv, ClockInv, live, live' = live, mode' = mode, restarts' = restarts,
           room.phase = "Active", ~Flagged(room), room' = SettleActiveClock(room)
    PROVE  ClockInv' /\ room'.phase = "Active"
<1>1. mode # "Daily" => ClockOf(SettleActiveClock(room))
  BY SettledClock
<1>2. ClockInv'
  BY <1>1, ClockKept
<1>3. SettleActiveClock(room).phase = "Active"
  BY StateFacts, SettleFacts DEF IsRoom
<1> QED
  BY <1>2, <1>3

(* A turn that starts. *)
LEMMA StartedStep ==
    ASSUME live, NEW r \in Rooms, StartTurnClock(r) \in Rooms, Persist(StartTurnClock(r)),
           r.phase = "Active"
    PROVE  ClockInv' /\ room'.phase = "Active"
<1> DEFINE x == StartTurnClock(r)
<1>1. /\ room'.phase = x.phase /\ room'.turn = x.turn
      /\ room'.clocks = x.clocks /\ room'.since = x.since /\ room'.deadline = x.deadline
      /\ mode' = mode /\ live' = live /\ restarts' = restarts
  BY PersistKeeps
<1>2. x.phase = "Active"
  BY DEF StartTurnClock, Rooms
<1>3. mode # "Daily" => ClockOf(x)
  BY StartedClock
<1> HIDE DEF x
<1>4. ClockInv'
  BY <1>1, <1>3, ClockKept
<1> QED
  BY <1>1, <1>2, <1>4

-------------------------------------------------------------------------------
(* A clock that runs on and a deadline that comes nearer stay in step.     *)
LEMMA TickClock ==
    ASSUME IInv, ClockInv, Tick
    PROVE  ClockInv' /\ room'.phase = room.phase
<1>1. /\ room' = IF room.since = None THEN Aged(room) ELSE [Aged(room) EXCEPT !.since = Later(room)]
      /\ mode' = mode /\ live' = live /\ restarts' = restarts
  BY DEF Tick, history
<1>2. /\ Aged(room) \in Rooms /\ Aged(room).phase = room.phase
      /\ Aged(room).since = room.since /\ Aged(room).clocks = room.clocks
  BY StateFacts, AgedFacts DEF IsRoom
<1>3. room'.phase = room.phase /\ room'.clocks = room.clocks
  BY <1>1, <1>2 DEF Rooms
<1>4. ASSUME mode # "Daily", room.phase = "Active"
      PROVE  ClockOf(room)'
  <2>1. ClockOf(room) /\ room.since # None
    BY <1>4, ChessAssumption DEF ClockInv, ClockOf
  <2>2. room.deadline \in Nat /\ ClockTicks(room) \in Nat /\ room.deadline # None
    BY <1>4, StateFacts, RunningFacts, ChessAssumption
  <2>3. Aged(room) = [room EXCEPT !.deadline = Earlier(room.deadline)]
    BY <2>2 DEF Aged
  <2>4. Aged(room).deadline = Earlier(room.deadline) /\ Aged(room).turn = room.turn
    BY <2>3, StateFacts DEF IsRoom, Rooms
  <2>5. room' = [Aged(room) EXCEPT !.since = Later(room)]
    BY <1>1, <2>1
  <2>6. /\ room'.since = Later(room) /\ room'.deadline = Earlier(room.deadline)
        /\ room'.turn = room.turn
    BY <1>2, <2>4, <2>5 DEF Rooms
  <2> DEFINE next == room.since + 1
             limit == ClockTicks(room)
             before == room.deadline - 1
  <2>7. /\ Later(room) \in {next, limit} /\ Later(room) <= next /\ Later(room) <= limit
    <3>1. next \in Int /\ limit \in Int
      BY <2>1, <2>2 DEF ClockOf
    <3>2. Later(room) = Min({next, limit})
      BY DEF Later, ClockTicks
    <3> HIDE DEF next, limit
    <3> QED
      BY <3>1, <3>2, LeastFacts
  <2>8. Earlier(room.deadline) \in {before, 0} /\ Earlier(room.deadline) >= 0
    <3>1. before \in Int
      BY <2>2
    <3>2. Earlier(room.deadline) = Max({before, 0})
      BY DEF Earlier
    <3> HIDE DEF before
    <3> QED
      BY <3>1, <3>2, ExtremeFacts
  <2>9. ClockTicks(room') = ClockTicks(room)
    BY <1>3, <2>6 DEF ClockTicks
  <2>10. /\ room'.since \in Nat /\ room'.since <= ClockTicks(room)
         /\ room'.since + room'.deadline <= ClockTicks(room) + Slack
    <3>1. room'.since \in Nat /\ room'.since <= ClockTicks(room)
      BY <2>1, <2>2, <2>6, <2>7 DEF ClockOf
    <3>2. CASE room'.deadline = 0
      BY <2>2, <3>1, <3>2, SlackTyped
    <3>3. CASE room'.deadline = room.deadline - 1
      BY <2>1, <2>2, <2>6, <2>7, <3>1, <3>3, SlackTyped DEF ClockOf
    <3> QED
      BY <2>6, <2>8, <3>1, <3>2, <3>3
  <2> QED
    BY <1>1, <2>9, <2>10 DEF ClockOf, ClockTicks, Slack
<1> QED
  BY <1>1, <1>3, <1>4 DEF ClockInv

(* Every step keeps the clock in step and flags in time.                   *)
Clocked == ClockInv' /\ FlagsInTime

LEMMA PlayerClocked ==
    ASSUME IInv, ClockInv, NEW u \in Users,
           \/ Sit(u) \/ Leave(u) \/ Resign(u) \/ GetReady(u) \/ StartGame(u)
           \/ MoveTooLate(u) \/ IllegalMove(u) \/ Move(u) \/ LastMove(u)
    PROVE  Clocked
<1>1. CASE Sit(u) \/ Leave(u) \/ GetReady(u)
  <2>1. live /\ live' = live /\ room.phase # "Active" /\ room'.phase # "Active"
    BY <1>1, SeatedPhase
  <2> QED
    BY <2>1, NoGame DEF Clocked, FlagsInTime
<1>2. CASE Resign(u)
  <2>1. PICK c \in Colors : EndGame(Finish(room, Result("Resignation", Other(c))))
    BY <1>2 DEF Resign, SeatsOf
  <2> DEFINE result == Result("Resignation", Other(c))
  <2>2. result \in Results /\ result.kind = "Resignation"
    <3>1. Other(c) \in Colors
      BY DEF Colors, White, Black, Other
    <3>2. result = [kind |-> "Resignation", winner |-> Other(c)]
      BY DEF Result
    <3> QED
      BY <3>1, <3>2 DEF Results, Result
  <2>3. EndGame(Finish(room, result)) /\ room \in Rooms /\ live
    BY <1>2, <2>1, StateFacts DEF IsRoom, Resign
  <2> HIDE DEF result
  <2>4. room'.phase = "Finished" /\ room'.result = result /\ live' = live
    BY <2>2, <2>3, EndedPhase
  <2> QED
    BY <2>2, <2>3, <2>4, NoGame DEF Clocked, FlagsInTime
<1>3. CASE StartGame(u)
  <2>1. live /\ room.phase # "Active" /\ Full(room) /\ Persist(StartTurnClock(NewGame))
    BY <1>3 DEF StartGame, NewGame, Rematch
  <2>2. NewGame \in Rooms /\ StartTurnClock(NewGame) \in Rooms /\ NewGame.phase = "Active"
    BY <2>1, NewGameFacts, StartTurnFacts DEF IsRoom
  <2> QED
    BY <2>1, <2>2, StartedStep DEF Clocked, FlagsInTime
<1>4. CASE MoveTooLate(u)
  <2>1. live /\ room.phase = "Active" /\ Flagged(room) /\ EndGame(FinishTimeout(room))
    BY <1>4 DEF MoveTooLate, MayMove
  <2>2. room'.phase = "Finished" /\ live' = live
    BY <2>1, FlaggedPhase
  <2> QED
    BY <2>1, <2>2, NoGame, FlagMeansDeadline DEF Clocked, FlagsInTime
<1>5. CASE IllegalMove(u)
  <2>1. /\ live /\ room.phase = "Active" /\ ~Flagged(room) /\ room' = SettleActiveClock(room)
        /\ live' = live /\ mode' = mode /\ restarts' = restarts
    BY <1>5 DEF IllegalMove, MayMove, history
  <2> QED
    BY <2>1, SettledStep DEF Clocked, FlagsInTime
<1>6. CASE Move(u)
  <2>1. live /\ room.phase = "Active" /\ ~Flagged(room) /\ Persist(StartTurnClock(Played))
    BY <1>6 DEF Move, MayMove
  <2>2. Played \in Rooms /\ StartTurnClock(Played) \in Rooms /\ Played.phase = "Active"
    BY <2>1, StateFacts, PlayedFacts, StartTurnFacts DEF IsRoom
  <2> QED
    BY <2>1, <2>2, StartedStep DEF Clocked, FlagsInTime
<1>7. CASE LastMove(u)
  <2>1. live /\ room.phase = "Active" /\ ~Flagged(room)
    BY <1>7 DEF LastMove, MayMove
  <2>2. PICK result \in {Result("Checkmate", room.turn), Result("Draw", None)} :
          EndGame(Finish(Played, result))
    BY <1>7 DEF LastMove
  <2>3. result \in Results /\ result.kind # "Timeout"
    BY <2>2, StateFacts DEF Results, Result, IsRoom, Rooms
  <2>4. Played \in Rooms
    BY <2>1, StateFacts, PlayedFacts
  <2>5. room'.phase = "Finished" /\ room'.result = result /\ live' = live
    BY <2>2, <2>3, <2>4, EndedPhase
  <2> QED
    BY <2>1, <2>3, <2>5, NoGame DEF Clocked, FlagsInTime
<1> QED
  BY <1>1, <1>2, <1>3, <1>4, <1>5, <1>6, <1>7

LEMMA TimerClocked ==
    ASSUME IInv, ClockInv, NEW t \in tasks, TimeoutIfCurrent(t)
    PROVE  Clocked
<1>1. CASE IsCurrent(t) /\ Flagged(room) /\ EndGame(FinishTimeout(room))
  <2>1. live /\ room.phase = "Active"
    BY <1>1 DEF IsCurrent
  <2>2. room'.phase = "Finished" /\ live' = live
    BY <1>1, FlaggedPhase
  <2> QED
    BY <1>1, <2>1, <2>2, NoGame, FlagMeansDeadline DEF Clocked, FlagsInTime
<1>2. CASE /\ IsCurrent(t) /\ ~Flagged(room) /\ room' = SettleActiveClock(room)
           /\ UNCHANGED <<mode, saves, live, row, history>>
  <2>1. live /\ room.phase = "Active" /\ live' = live /\ mode' = mode /\ restarts' = restarts
    BY <1>2 DEF IsCurrent, history
  <2> QED
    BY <1>2, <2>1, SettledStep DEF Clocked, FlagsInTime
<1>3. CASE UNCHANGED <<mode, room, saves, live, row, history>>
  BY <1>3 DEF Clocked, FlagsInTime, ClockInv, ClockOf, ClockTicks, Slack, history
<1> QED
  BY <1>1, <1>2, <1>3 DEF TimeoutIfCurrent

LEMMA StepClocked ==
    ASSUME IInv, ClockInv, [Next]_vars
    PROVE  Clocked
<1>1. CASE PlayerStep
  BY <1>1, PlayerClocked DEF PlayerStep
<1>2. CASE TimerStep
  BY <1>2, TimerClocked DEF TimerStep
<1>3. CASE SaveStep \/ UNCHANGED vars
  <2>1. room' = room /\ mode' = mode /\ live' = live /\ restarts' = restarts
    BY <1>3 DEF SaveStep, WriteSave, FailSave, vars, process, history
  <2> QED
    BY <2>1 DEF Clocked, FlagsInTime, ClockInv, ClockOf, ClockTicks, Slack
<1>4. CASE Stop
  <2>1. live' = FALSE /\ restarts' = restarts + 1 /\ room' = NewRoom
    BY <1>4 DEF Stop
  <2>2. room'.phase = "Waiting" /\ restarts' > 0
    BY <2>1, NewRoomFacts DEF IInv, TypeOK
  <2> QED
    BY <2>2 DEF Clocked, FlagsInTime, ClockInv
<1>5. CASE GetOrCreate
  <2>1. /\ ~live /\ live' = TRUE /\ room' = Restored(row) /\ mode' = mode /\ restarts' = restarts
    BY <1>5 DEF GetOrCreate, history
  <2>2. room.phase # "Active" /\ restarts > 0
    BY <2>1 DEF ClockInv
  <2>3. room'.phase = row.phase
    BY <2>1, StateFacts, RestoredFacts
  <2>4. mode # "Daily" /\ row.phase = "Active" => ClockOf(Restored(row))
    BY <2>2, StateFacts, RestoredClock
  <2>5. mode' # "Daily" /\ room'.phase = "Active" => ClockOf(room)'
    BY <2>1, <2>3, <2>4 DEF ClockOf, ClockTicks, Slack
  <2> QED
    BY <2>1, <2>2, <2>5 DEF Clocked, FlagsInTime, ClockInv
<1>6. CASE Tick
  <2>1. ClockInv' /\ room'.phase = room.phase
    BY <1>6, TickClock
  <2> QED
    BY <2>1 DEF Clocked, FlagsInTime
<1> QED
  BY <1>1, <1>2, <1>3, <1>4, <1>5, <1>6 DEF Next

LEMMA InitClocked == ASSUME Init PROVE ClockInv
  BY NewRoomFacts DEF Init, ClockInv

(***************************************************************************)
(* Nobody loses on time before the deadline that the screens show, or      *)
(* after a restart within its last second, for both time controls and      *)
(* whatever moves are refused: settle_active_clock, timeout_if_current,    *)
(* restore_active_clock.                                                   *)
(***************************************************************************)
THEOREM FlagsOnTime == Spec => NoEarlyFlag
<1>1. Init => ClockInv
  BY InitClocked
<1>2. IInv /\ ClockInv /\ [Next]_vars => ClockInv' /\ [FlagsInTime]_vars
  BY StepClocked DEF Clocked
<1> QED
  BY <1>1, <1>2, AlwaysIInv, PTL DEF Spec, NoEarlyFlag

==============================================================================
