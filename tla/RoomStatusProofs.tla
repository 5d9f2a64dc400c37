--------------------------- MODULE RoomStatusProofs ---------------------------
(***************************************************************************)
(* The safety properties of RoomStatus, for every set of rooms, any number *)
(* of status changes and restarts, and a database that may fail.           *)
(*                                                                         *)
(* The generation check is made before the write and not with it, so the   *)
(* argument has two parts: a task that writes an outdated status was       *)
(* overtaken by a task that is still there to correct it (Corrected), and  *)
(* the lock keeps the two writes in the order of their generations         *)
(* (GenerationsInOrder).                                                   *)
(***************************************************************************)
EXTENDS RoomStatus, TLAPS

(* The tasks that still ask for the latest status of room r. *)
HasCurrentWriter(r) == \E w \in writers : w.room = r /\ Current(w)

(* A generation is written only while it is the latest one, or the lock is *)
(* held by its task; and the latest generation asks for what is wanted.  A *)
(* table that has published nothing runs no round.                         *)
GenerationsInOrder ==
    /\ \A r \in Rooms :
          written[r] <= status_generations[r] /\ (in_round[r] => status_generations[r] > 0)
    /\ \A w \in writers :
          /\ w.generation <= status_generations[w.room]
          /\ Current(w) => w.status = Wanted(w.room)
          /\ w.pc = "writing" => written[w.room] <= w.generation
    /\ \A v, w \in writers : v.pc = "writing" /\ w.pc = "writing" => v = w

(* A row that can be relied on, and yet is outdated, has a task that will  *)
(* correct it; and so has a task that is about to write.  Before its end,  *)
(* the start-up task has reset no row.                                     *)
Corrected ==
    /\ reconcile = "spawned" => ~overtaken
    /\ \A r \in Rooms :
          Reliable(r) /\ status[r] \notin {"deleted", Wanted(r)} => HasCurrentWriter(r)
    /\ \A w \in writers : w.pc = "writing" => HasCurrentWriter(w.room)

IInv == TypeOK /\ GenerationsInOrder /\ Corrected
-------------------------------------------------------------------------------
(* What a step of one task leaves behind of the tasks. *)
LEMMA BecomesType ==
    ASSUME TypeOK, NEW w \in writers, NEW pc \in {"waiting", "writing", "failed"}
    PROVE  (writers \ {w}) \cup {[w EXCEPT !.pc = pc]}
              \subseteq [room : Rooms, status : Statuses, generation : Nat,
                         pc : {"waiting", "writing", "failed"}]
  BY DEF TypeOK

(* The tables of a process that has just started run no round. *)
LEMMA NoRounds == [r \in Rooms |-> FALSE] \in [Rooms -> BOOLEAN]
  BY Zenon

(* Every variable of RoomStatus keeps its type. *)
THEOREM TypeCorrect == Spec => []TypeOK
<1>1. ASSUME Init PROVE TypeOK
  <2>1. in_round \in [Rooms -> BOOLEAN] /\ overtaken \in BOOLEAN
    BY <1>1, NoRounds, Zenon DEF Init
  <2>2. /\ status_generations \in [Rooms -> Nat]
        /\ written \in [Rooms -> Nat]
        /\ status \in [Rooms -> Statuses \cup {"deleted"}]
    BY <1>1 DEF Init, Statuses
  <2> QED
    BY <1>1, <2>1, <2>2 DEF Init, TypeOK
<1>2. TypeOK /\ [Next]_vars => TypeOK'
  <2> SUFFICES ASSUME TypeOK, [Next]_vars PROVE TypeOK'
    OBVIOUS
  <2>1. ASSUME NEW r \in Rooms, SyncRoomStatus(r) PROVE TypeOK'
    BY <2>1 DEF SyncRoomStatus, TypeOK, Wanted, Statuses
  <2>2. ASSUME NEW r \in Rooms, DeleteRoom(r) PROVE TypeOK'
    BY <2>2 DEF DeleteRoom, TypeOK, process
  <2>3. ASSUME NEW w \in writers, TakeLock(w) PROVE TypeOK'
    BY <2>3, BecomesType DEF TakeLock, Becomes, TypeOK
  <2>4. ASSUME NEW w \in writers, WriteStatus(w) PROVE TypeOK'
    BY <2>4 DEF WriteStatus, UpdateStatus, TypeOK
  <2>5. ASSUME NEW w \in writers, FailToWrite(w) PROVE TypeOK'
    BY <2>5, BecomesType DEF FailToWrite, UpdateStatus, Becomes, TypeOK
  <2>6. ASSUME NEW w \in writers, Retry(w) PROVE TypeOK'
    BY <2>6, BecomesType DEF Retry, Becomes, TypeOK
  <2>7. ASSUME Restart PROVE TypeOK'
    <3>1. in_round' \in [Rooms -> BOOLEAN] /\ overtaken' \in BOOLEAN
      BY <2>7, NoRounds, Zenon DEF Restart
    <3>2. status_generations' \in [Rooms -> Nat] /\ written' \in [Rooms -> Nat]
      BY <2>7 DEF Restart
    <3> QED
      BY <2>7, <3>1, <3>2 DEF Restart, TypeOK
  <2>8. ASSUME ReconcileRoundStatuses PROVE TypeOK'
    BY <2>8 DEF ReconcileRoundStatuses, ResetRows, TypeOK, process, Statuses
  <2>9. ASSUME FailToReconcile PROVE TypeOK'
    BY <2>9 DEF FailToReconcile, ResetRows, TypeOK, process, Statuses
  <2>10. CASE UNCHANGED vars
    BY <2>10 DEF vars, process, TypeOK
  <2> QED
    BY <2>1, <2>2, <2>3, <2>4, <2>5, <2>6, <2>7, <2>8, <2>9, <2>10 DEF Next, WriterStep
<1> QED
  BY <1>1, <1>2, PTL DEF Spec

-------------------------------------------------------------------------------
LEMMA InitIInv == Init => GenerationsInOrder /\ Corrected
  BY DEF Init, GenerationsInOrder, Corrected, Reliable, Wanted

(* The generations stay in order: a task writes only under the lock, which *)
(* it takes only while its generation is the latest.                       *)
LEMMA GenerationsStayInOrder ==
    TypeOK /\ GenerationsInOrder /\ [Next]_vars => GenerationsInOrder'
<1> SUFFICES ASSUME TypeOK, GenerationsInOrder, [Next]_vars PROVE GenerationsInOrder'
  OBVIOUS
<1>1. ASSUME NEW r \in Rooms, SyncRoomStatus(r) PROVE GenerationsInOrder'
  BY <1>1 DEF SyncRoomStatus, TypeOK, GenerationsInOrder, Current, Wanted
<1>2. ASSUME NEW r \in Rooms, DeleteRoom(r) PROVE GenerationsInOrder'
  BY <1>2 DEF DeleteRoom, process, GenerationsInOrder, Current, Wanted
<1>3. ASSUME NEW w \in writers, TakeLock(w) PROVE GenerationsInOrder'
  BY <1>3 DEF TakeLock, Locked, Becomes, TypeOK, GenerationsInOrder, Current, Wanted
<1>4. ASSUME NEW w \in writers, WriteStatus(w) PROVE GenerationsInOrder'
  BY <1>4 DEF WriteStatus, UpdateStatus, TypeOK, GenerationsInOrder, Current, Wanted
<1>5. ASSUME NEW w \in writers, FailToWrite(w) PROVE GenerationsInOrder'
  BY <1>5 DEF FailToWrite, UpdateStatus, Becomes, TypeOK, GenerationsInOrder, Current, Wanted
<1>6. ASSUME NEW w \in writers, Retry(w) PROVE GenerationsInOrder'
  BY <1>6 DEF Retry, Becomes, TypeOK, GenerationsInOrder, Current, Wanted
<1>7. ASSUME Restart PROVE GenerationsInOrder'
  BY <1>7 DEF Restart, GenerationsInOrder
<1>8. CASE ReconcileRoundStatuses \/ FailToReconcile
  BY <1>8 DEF ReconcileRoundStatuses, FailToReconcile, process, GenerationsInOrder,
              Current, Wanted
<1>9. CASE UNCHANGED vars
  BY <1>9 DEF vars, process, GenerationsInOrder, Current, Wanted
<1> QED
  BY <1>1, <1>2, <1>3, <1>4, <1>5, <1>6, <1>7, <1>8, <1>9 DEF Next, WriterStep

(* A task that goes on, or that ends because it is outdated, leaves a      *)
(* current task of every room that had one.                                *)
LEMMA BecomesKeeps ==
    ASSUME TypeOK, NEW w \in writers, NEW pc, NEW q,
           status_generations' = status_generations,
           Becomes(w, pc) \/ (~Current(w) /\ writers' = writers \ {w}),
           HasCurrentWriter(q)
    PROVE  HasCurrentWriter(q)'
<1>1. PICK v \in writers : v.room = q /\ Current(v)
  BY DEF HasCurrentWriter
<1>2. CASE v \in writers'
  BY <1>1, <1>2 DEF HasCurrentWriter, Current
<1>3. CASE v \notin writers'
  <2> DEFINE x == [w EXCEPT !.pc = pc]
  <2>1. v = w /\ Becomes(w, pc)
    BY <1>1, <1>3 DEF Becomes
  <2>2. x \in writers' /\ x.room = w.room /\ x.generation = w.generation
    BY <2>1 DEF Becomes, TypeOK
  <2> QED
    BY <1>1, <2>1, <2>2 DEF HasCurrentWriter, Current
<1> QED
  BY <1>2, <1>3

(* An outdated row or an outdated write always has a task to correct it.   *)
LEMMA StaysCorrected ==
    TypeOK /\ GenerationsInOrder /\ Corrected /\ [Next]_vars => Corrected'
<1> SUFFICES ASSUME TypeOK, GenerationsInOrder, Corrected, [Next]_vars
             PROVE  Corrected'
  OBVIOUS
<1>1. ASSUME NEW r \in Rooms, SyncRoomStatus(r) PROVE Corrected'
  <2> DEFINE new == [room |-> r, status |-> Wanted(r)', pc |-> "waiting",
                     generation |-> status_generations'[r]]
  <2>1. HasCurrentWriter(r)'
    BY <1>1, new \in writers' DEF SyncRoomStatus, HasCurrentWriter, Current
  <2>2. ASSUME NEW q \in Rooms, q # r
        PROVE  /\ HasCurrentWriter(q) => HasCurrentWriter(q)'
               /\ Wanted(q)' = Wanted(q) /\ Reliable(q)' = Reliable(q)
    BY <1>1, <2>2 DEF SyncRoomStatus, HasCurrentWriter, Current, Wanted, Reliable, TypeOK
  <2> QED
    BY <1>1, <2>1, <2>2 DEF SyncRoomStatus, Corrected, TypeOK
<1>2. ASSUME NEW r \in Rooms, DeleteRoom(r) PROVE Corrected'
  BY <1>2 DEF DeleteRoom, process, Corrected, HasCurrentWriter, Current, Wanted,
              Reliable, TypeOK
<1>3. ASSUME NEW w \in writers, TakeLock(w) PROVE Corrected'
  <2> DEFINE same(q) == HasCurrentWriter(q) => HasCurrentWriter(q)'
  <2>1. ASSUME NEW q \in Rooms PROVE same(q)
    BY <1>3, BecomesKeeps DEF TakeLock
  <2>2. w.room \in Rooms /\ (w.pc = "waiting" /\ Current(w) => HasCurrentWriter(w.room))
    BY DEF TypeOK, HasCurrentWriter
  <2>3. \A v \in writers' : v.pc = "writing" =>
           v \in writers \/ (v.room = w.room /\ Current(w))
    BY <1>3 DEF TakeLock, Becomes, TypeOK
  <2>4. \A v \in writers' : v.pc = "writing" => HasCurrentWriter(v.room)'
    BY <1>3, <2>1, <2>2, <2>3 DEF TakeLock, Corrected, TypeOK
  <2> QED
    BY <1>3, <2>1, <2>4 DEF TakeLock, Corrected, Wanted, Reliable
<1>4. ASSUME NEW w \in writers, WriteStatus(w) PROVE Corrected'
  BY <1>4 DEF WriteStatus, UpdateStatus, TypeOK, GenerationsInOrder, Corrected,
              HasCurrentWriter, Current, Wanted, Reliable
<1>5. ASSUME NEW w \in writers, FailToWrite(w) PROVE Corrected'
  <2> DEFINE same(q) == HasCurrentWriter(q) => HasCurrentWriter(q)'
  <2>1. ASSUME NEW q \in Rooms PROVE same(q)
    BY <1>5, BecomesKeeps DEF FailToWrite
  <2>2. \A v \in writers' : v.pc = "writing" => v \in writers
    BY <1>5 DEF FailToWrite, Becomes, TypeOK
  <2>3. HasCurrentWriter(w.room)'
    BY <1>5, <2>1 DEF FailToWrite, Corrected, TypeOK
  <2>4. ASSUME NEW q \in Rooms, q # w.room PROVE status'[q] = status[q]
    BY <1>5, <2>4 DEF FailToWrite, UpdateStatus, TypeOK
  <2> QED
    BY <1>5, <2>1, <2>2, <2>3, <2>4
       DEF FailToWrite, Corrected, Wanted, Reliable, TypeOK
<1>6. ASSUME NEW w \in writers, Retry(w) PROVE Corrected'
  <2>1. ASSUME NEW q \in Rooms, HasCurrentWriter(q) PROVE HasCurrentWriter(q)'
    BY <1>6, <2>1, BecomesKeeps DEF Retry
  <2> QED
    BY <1>6, <2>1 DEF Retry, Becomes, Corrected, Wanted, Reliable, TypeOK
<1>7. ASSUME Restart PROVE Corrected'
  BY <1>7 DEF Restart, Corrected, Reliable
<1>8. ASSUME ReconcileRoundStatuses \/ FailToReconcile PROVE Corrected'
  <2>1. /\ process' = process
        /\ reconcile = "spawned" /\ reconcile' \in {"done", "failed"}
        /\ ResetRows \/ (UNCHANGED <<status, overtaken>> /\ reconcile' = "failed")
    BY <1>8 DEF ReconcileRoundStatuses, FailToReconcile
  <2>2. \A q : HasCurrentWriter(q)' <=> HasCurrentWriter(q)
    BY <2>1 DEF process, HasCurrentWriter, Current
  <2>3. \A r \in Rooms : Wanted(r)' = Wanted(r)
    BY <2>1 DEF process, Wanted
  <2>4. CASE UNCHANGED <<status, overtaken>> /\ reconcile' = "failed"
    BY <2>1, <2>2, <2>3, <2>4 DEF process, Corrected, Reliable, TypeOK
  <2>5. CASE ResetRows
    <3>1. ASSUME NEW r \in Rooms, Reliable(r)', status'[r] \notin {"deleted", Wanted(r)'}
          PROVE  HasCurrentWriter(r)
      <4>1. ~(status[r] = "in_round" /\ in_round[r])
        BY <2>5, <3>1 DEF ResetRows, Reliable
      <4>2. status[r] = "open" /\ in_round[r]
        BY <2>1, <2>5, <3>1, <4>1 DEF process, ResetRows, TypeOK, Statuses, Wanted
      <4>3. Reliable(r)
        BY <2>1, <4>2 DEF Reliable, Corrected, GenerationsInOrder
      <4> QED
        BY <4>2, <4>3 DEF Corrected, Wanted
    <3> QED
      BY <2>1, <2>2, <3>1 DEF process, Corrected
  <2> QED
    BY <2>1, <2>4, <2>5
<1>9. CASE UNCHANGED vars
  BY <1>9 DEF vars, process, Corrected, HasCurrentWriter, Current, Wanted, Reliable
<1> QED
  BY <1>1, <1>2, <1>3, <1>4, <1>5, <1>6, <1>7, <1>8, <1>9 DEF Next, WriterStep

(* The inductive invariant holds of the specification. *)
THEOREM Invariance == Spec => []IInv
<1>1. TypeOK /\ GenerationsInOrder /\ Corrected /\ [Next]_vars
         => GenerationsInOrder' /\ Corrected'
  BY GenerationsStayInOrder, StaysCorrected
<1> QED
  BY <1>1, InitIInv, TypeCorrect, PTL DEF Spec, IInv

(* A room with no status task left shows what its table last published. *)
THEOREM FollowsTable == Spec => []StatusFollowsTable
<1>1. IInv => StatusFollowsTable
  BY DEF IInv, Corrected, HasCurrentWriter, Reliable, StatusFollowsTable
<1> QED
  BY <1>1, Invariance, PTL

(* A status write never lands after the write of a newer status. *)
THEOREM InOrder == Spec => WritesInOrder
<1>1. IInv /\ [Next]_vars
         => [\A r \in Rooms : restarts' = restarts => written[r] <= written'[r]]_vars
  <2> SUFFICES ASSUME IInv, Next, NEW r \in Rooms, restarts' = restarts
               PROVE  written[r] <= written'[r]
    BY DEF vars
  <2>1. ASSUME NEW w \in writers, w.pc = "writing", UpdateStatus(w)
        PROVE  written[r] <= written'[r]
    BY <2>1 DEF UpdateStatus, IInv, TypeOK, GenerationsInOrder
  <2>2. CASE written' = written
    BY <2>2 DEF IInv, TypeOK
  <2>3. CASE Restart
    BY <2>3 DEF Restart, IInv, TypeOK
  <2> QED
    BY <2>1, <2>2, <2>3 DEF Next, WriterStep, SyncRoomStatus, DeleteRoom, TakeLock,
          WriteStatus, FailToWrite, Retry, ReconcileRoundStatuses, FailToReconcile
<1> QED
  BY <1>1, Invariance, PTL DEF Spec, WritesInOrder
===============================================================================
