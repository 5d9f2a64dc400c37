------------------------------ MODULE RoomStatus ------------------------------
(***************************************************************************)
(* How the status of a game room follows its table.  A table that starts   *)
(* or ends a round tells RoomsService, which spawns a task that writes the *)
(* new status to the room's row, and tries again until it succeeds or a    *)
(* newer status was asked for.  The cleanup deletes only open rooms, so a  *)
(* row that stays open under a running round is a round that can be lost.  *)
(***************************************************************************)
EXTENDS Naturals

CONSTANTS
    Rooms,
    DbCanFail,      \* whether the database may fail a status update
    MaxChanges,     \* bound: rounds that a room starts or ends
    MaxRestarts     \* bound: restarts of the server process

ASSUME RoomStatusAssumption ==
    DbCanFail \in BOOLEAN /\ MaxChanges \in Nat /\ MaxRestarts \in Nat

VARIABLES
    in_round,            \* what each table last published (room_in_round)
    status_generations,  \* the generation of each room's latest status
    writers,             \* the spawned status tasks
    status,              \* the status column of each room's row
    reconcile,           \* the start-up task that resets stale rows
    restarts,
    written, overtaken   \* history: last generation written; whether the
                         \* start-up task reset the row of a running round

process == <<in_round, status_generations, writers>>
vars == <<process, status, reconcile, restarts, written, overtaken>>

Statuses == {"open", "in_round"}

(* Mutant: a room whose round has ended is closed. *)
WantedClosed(r) == IF in_round[r] THEN "in_round" ELSE "closed"
Wanted(r) == IF in_round[r] THEN "in_round" ELSE "open"

(* Mutant: the generation is not compared. *)
AnyGeneration(w) == TRUE
Current(w) == w.generation = status_generations[w.room]

(* status_update_lock is held by the one task that is writing. *)
Locked == \E w \in writers : w.pc = "writing"

Init ==
    /\ in_round = [r \in Rooms |-> FALSE]
    /\ status_generations = [r \in Rooms |-> 0]
    /\ writers = {}
    /\ status = [r \in Rooms |-> "open"]
    /\ reconcile = "done"
    /\ restarts = 0
    /\ written = [r \in Rooms |-> 0]
    /\ overtaken = FALSE

(* Mutant: a new status does not get a new generation. *)
SyncWithoutGeneration(r) ==
    /\ in_round' = [in_round EXCEPT ![r] = ~@]
    /\ writers' = writers \cup
          {[room |-> r, status |-> Wanted(r)', pc |-> "waiting",
            generation |-> status_generations[r]]}
    /\ UNCHANGED <<status_generations, status, reconcile, restarts, written, overtaken>>

(* A table publishes a snapshot in which a round has started or ended.     *)
(* Tables publish under their own mutex, one change at a time.             *)
SyncRoomStatus(r) ==
    /\ status_generations[r] < MaxChanges
    /\ in_round' = [in_round EXCEPT ![r] = ~@]
    /\ status_generations' = [status_generations EXCEPT ![r] = @ + 1]
    /\ writers' = writers \cup
          {[room |-> r, status |-> Wanted(r)', pc |-> "waiting",
            generation |-> status_generations'[r]]}
    /\ UNCHANGED <<status, reconcile, restarts, written, overtaken>>

Becomes(w, pc) == writers' = (writers \ {w}) \cup {[w EXCEPT !.pc = pc]}

(* set_room_status_if_current takes the lock and looks at the generation. *)
TakeLock(w) ==
    /\ w.pc = "waiting" /\ ~Locked
    /\ IF Current(w) THEN Becomes(w, "writing") ELSE writers' = writers \ {w}
    /\ UNCHANGED <<in_round, status_generations, status, reconcile, restarts,
                   written, overtaken>>

(* GameRoom::update_status; no row is left of a room that was deleted. *)
UpdateStatus(w) ==
    /\ status' = [status EXCEPT ![w.room] = IF @ = "deleted" THEN @ ELSE w.status]
    /\ written' = [written EXCEPT ![w.room] = w.generation]

WriteStatus(w) ==
    /\ w.pc = "writing"
    /\ UpdateStatus(w)
    /\ writers' = writers \ {w}
    /\ UNCHANGED <<in_round, status_generations, reconcile, restarts, overtaken>>

(* An error: before the update, or after it, when its answer is lost or    *)
(* the room list cannot be published.                                      *)
FailToWrite(w) ==
    /\ w.pc = "writing" /\ DbCanFail
    /\ UpdateStatus(w) \/ UNCHANGED <<status, written>>
    /\ Becomes(w, "failed")
    /\ UNCHANGED <<in_round, status_generations, reconcile, restarts, overtaken>>

(* Mutant: the task gives up after a failure. *)
GiveUp(w) ==
    /\ w.pc = "failed"
    /\ writers' = writers \ {w}
    /\ UNCHANGED <<in_round, status_generations, status, reconcile, restarts,
                   written, overtaken>>

(* After a failure the task gives way to a newer status, or tries again. *)
Retry(w) ==
    /\ w.pc = "failed"
    /\ IF Current(w) THEN Becomes(w, "waiting") ELSE writers' = writers \ {w}
    /\ UNCHANGED <<in_round, status_generations, status, reconcile, restarts,
                   written, overtaken>>

(* The cleanup deletes a room left open; an admin deletes any room. *)
DeleteRoom(r) ==
    /\ status[r] # "deleted"
    /\ status' = [status EXCEPT ![r] = "deleted"]
    /\ UNCHANGED <<process, reconcile, restarts, written, overtaken>>

(* The process stops: tables, generations and tasks are gone. *)
Restart ==
    /\ restarts < MaxRestarts
    /\ restarts' = restarts + 1
    /\ in_round' = [r \in Rooms |-> FALSE]
    /\ status_generations' = [r \in Rooms |-> 0]
    /\ writers' = {}
    /\ reconcile' = "spawned"
    /\ written' = [r \in Rooms |-> 0]
    /\ overtaken' = FALSE
    /\ UNCHANGED status

(* reconcile_in_round_after_restart, for games that do not survive one. *)
ResetRows ==
    /\ status' = [r \in Rooms |-> IF status[r] = "in_round" THEN "open" ELSE status[r]]
    /\ overtaken' = (\E r \in Rooms : status[r] = "in_round" /\ in_round[r])

ReconcileRoundStatuses ==
    /\ reconcile = "spawned" /\ reconcile' = "done"
    /\ ResetRows
    /\ UNCHANGED <<process, restarts, written>>

(* The start-up task makes one attempt, and an error is only logged: it    *)
(* comes before the update, or after it, as for a status task.             *)
FailToReconcile ==
    /\ reconcile = "spawned" /\ DbCanFail /\ reconcile' = "failed"
    /\ ResetRows \/ UNCHANGED <<status, overtaken>>
    /\ UNCHANGED <<process, restarts, written>>

WriterStep ==
    \E w \in writers :
        TakeLock(w) \/ WriteStatus(w) \/ FailToWrite(w) \/ Retry(w)

Next ==
    \/ \E r \in Rooms : SyncRoomStatus(r) \/ DeleteRoom(r)
    \/ WriterStep
    \/ Restart \/ ReconcileRoundStatuses \/ FailToReconcile

Spec == Init /\ [][Next]_vars

(* The database answers a status task in the end, and tasks get their      *)
(* turn.  The start-up task ends, with its update or with an error.        *)
Fairness ==
    /\ WF_vars(\E w \in writers : TakeLock(w) \/ Retry(w))
    /\ SF_vars(\E w \in writers : WriteStatus(w))
    /\ WF_vars(ReconcileRoundStatuses \/ FailToReconcile)

FairSpec == Spec /\ Fairness

-------------------------------------------------------------------------------
(* The types of the variables. *)
TypeOK ==
    /\ in_round \in [Rooms -> BOOLEAN]
    /\ status_generations \in [Rooms -> Nat]
    /\ writers \subseteq [room : Rooms, status : Statuses, generation : Nat,
                          pc : {"waiting", "writing", "failed"}]
    /\ status \in [Rooms -> Statuses \cup {"deleted"}]
    /\ reconcile \in {"spawned", "done", "failed"}
    /\ restarts \in Nat
    /\ written \in [Rooms -> Nat]
    /\ overtaken \in BOOLEAN

(* A status write never lands after the write of a newer status, although  *)
(* the tasks run in any order and a newer status can be asked for between  *)
(* a task's check of the generation and its write.                         *)
WritesInOrder ==
    [][\A r \in Rooms : restarts' = restarts => written[r] <= written'[r]]_vars

(* A row can be relied on once the start-up task has reset the stale ones, *)
(* or its table has published since the start; but not if the start-up     *)
(* task has reset the row of a round that runs.                            *)
Reliable(r) == ~overtaken /\ (reconcile = "done" \/ status_generations[r] > 0)

(* A room with no status task left shows what its table last published,    *)
(* whatever order the tasks ran in and whatever failed: from the end of    *)
(* the start-up task on, and before it or after its failure from the first *)
(* change on.  set_room_status_task and reconcile_round_statuses.          *)
StatusFollowsTable ==
    \A r \in Rooms :
        (\A w \in writers : w.room # r) /\ Reliable(r) => status[r] \in {"deleted", Wanted(r)}

(* What a failed start-up task leaves to the tables.                       *)
LeftStale(r) == reconcile = "failed" /\ status_generations[r] = 0

(* Every room's row agrees with its table in the end, unless the start-up  *)
(* task reset the row of a round that runs, or has failed: then a row that *)
(* was left in_round stays so until its table publishes a round.           *)
StatusSettles ==
    <>[](\A r \in Rooms :
            overtaken \/ LeftStale(r) \/ status[r] \in {"deleted", Wanted(r)})
===============================================================================
