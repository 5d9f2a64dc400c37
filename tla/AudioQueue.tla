----------------------------- MODULE AudioQueue -----------------------------
(***************************************************************************)
(* The shared YouTube queue of late-ssh: the rows of media_queue_items,    *)
(* and the processes (two while a rollout overlaps) that each keep the     *)
(* current item in memory behind a mutex, with its timer and the votes to  *)
(* skip it.  An operation holds its process's mutex over several database  *)
(* statements; between them the other process runs, and any of them may    *)
(* fail, which ends the operation where it is.                             *)
(*                                                                         *)
(* Votes on queued items order the queue and are not kept: any queued item *)
(* may be the first.  A row that is read and then marked as failed or as   *)
(* played, if it still plays, is one step.  Publishing changes no state.   *)
(***************************************************************************)
EXTENDS Integers, FiniteSets, FiniteSetsExt

CONSTANTS
    Pods, Users, Items, None,
    PodOf,                \* the process that serves a user's session
    Legacy,               \* items queued before durations were demanded
    SkipVotePercent, SkipVoteMin,
    Instances             \* what is explored: each of these is one small instance

(* The processes, users and items of an instance; the users who may vote   *)
(* to skip, change to another source and go offline; the items that staff  *)
(* may lock, whether it may skip by force and set a fallback; and how many *)
(* statements may fail or processes stop.                                  *)
Instance ==
    [pods : SUBSET Pods, users : SUBSET Users, items : SUBSET Items,
     voters : SUBSET Users, movers : SUBSET Users, leavers : SUBSET Users,
     lockable : SUBSET Items, force : BOOLEAN, trusted : BOOLEAN, faults : Nat]

ASSUME AudioAssumption ==
    /\ None \notin Items /\ Items \subseteq Nat /\ Legacy \subseteq Items /\ PodOf \in [Users -> Pods]
    /\ IsFiniteSet(Items) /\ IsFiniteSet(Users)
    /\ SkipVotePercent \in Nat /\ SkipVoteMin \in Nat
    /\ \A x \in Instances : x \in Instance

VARIABLES
    rows,         \* media_queue_items
    source,       \* whether media_sources has a fallback
    pods,         \* QueueState of each process, and the operation it runs
    listeners,    \* active users whose source is YouTube
    asking,       \* skip votes past the check of the user's source
    switching,    \* source changes whose vote is yet to be dropped
    bounds,       \* the instance, with what is left of its faults
    finishLost    \* history: a failed statement has cost a playback timer

db == <<rows, source>>
users == <<listeners, asking, switching>>
vars == <<db, pods, users, bounds, finishLost>>

(* Played, failed and deleted items are alike: the queue has done with them. *)
Statuses == {"none", "queued", "playing", "skipped", "gone"}
Queued == {i \in Items : rows[i].status = "queued"}
Playing == {i \in Items : rows[i].status = "playing"}

(* current_item_id, mode, skip_votes, the two cancel handles, the task     *)
(* that sleeps until the item is over, and where the operation is that     *)
(* holds the mutex.  A vote carries the item it was cast for, as history,  *)
(* and a skip by votes the audience for which they were counted.           *)
Stopped ==
    [up |-> FALSE, resuming |-> FALSE, current |-> None, mode |-> "Icecast",
     votes |-> {}, handle |-> None, timer |-> None, fallback |-> FALSE,
     at |-> "idle", item |-> None, then |-> "bail", voter |-> None, audience |-> 0]

Idle(p) == pods[p].up /\ pods[p].at = "idle"

Set(p, q) == pods' = [pods EXCEPT ![p] = q]
Goto(q, at, item) == [q EXCEPT !.at = at, !.item = item]
Done(q) == [q EXCEPT !.at = "idle", !.item = None, !.then = "bail", !.voter = None, !.audience = 0]
Mark(i, status) == rows' = [rows EXCEPT ![i].status = status, ![i].over = FALSE]

-------------------------------------------------------------------------------
(* The methods on QueueState, from a process to a process.                 *)
CancelPlayback(q) == [q EXCEPT !.handle = None, !.timer = None]
CancelFallback(q) == [q EXCEPT !.fallback = FALSE]

(* Mutant: the timer of an item is not rebound to the one that replaced it. *)
KeepTimer(q, i) == IF q.handle # None THEN q ELSE [q EXCEPT !.handle = i, !.timer = i]

SchedulePlaybackTimer(q, i) == [q EXCEPT !.handle = i, !.timer = i]

ScheduleFallback(q) == IF q.mode = "Icecast" THEN q ELSE [q EXCEPT !.fallback = TRUE]

(* Mutant: an adopted item inherits the votes to skip the one before. *)
PlaysKeepingVotes(q, i) ==
    SchedulePlaybackTimer([CancelFallback(q) EXCEPT !.current = i, !.mode = "Youtube"], i)

(* The item is current from now on; votes were for the one before.         *)
Plays(q, i) ==
    SchedulePlaybackTimer(
        [CancelFallback(q) EXCEPT !.current = i, !.mode = "Youtube",
                                  !.votes = IF q.current = i THEN @ ELSE {}], i)

(* resume_from_db leaves a fall to Icecast armed.                          *)
Resumes(q, i) ==
    SchedulePlaybackTimer([q EXCEPT !.current = i, !.mode = "Youtube", !.votes = {}], i)

PlaysNothing(q) == CancelPlayback([q EXCEPT !.current = None, !.votes = {}])

(* adopt_playing_item: nothing to rebind if memory agrees with the row.    *)
AdoptItem(q, i) ==
    IF q.current = i /\ q.mode = "Youtube" /\ q.handle # None THEN q ELSE Plays(q, i)

Audience(p) == Cardinality({u \in listeners : PodOf[u] = p})

(* Mutant: the share of the audience is rounded down. *)
Floor(n, d) == n \div d
Ceil(n, d) == (n + d - 1) \div d
SkipThreshold(p) == Max({Ceil(Audience(p) * SkipVotePercent, 100), SkipVoteMin})

(* Mutant: a single vote is enough. *)
AnyVote(p, q) == q.votes # {}
EnoughVotes(p, q) == Cardinality(q.votes) >= SkipThreshold(p)

SkipByVotes(p, q, u) == [Goto(q, "skip", q.current) EXCEPT !.voter = u, !.audience = Audience(p)]

-------------------------------------------------------------------------------
(* Operations that take the mutex.  Each runs on to its next statement.    *)
Unchanged == UNCHANGED <<bounds, finishLost>>
SpendFault == bounds.faults > 0 /\ bounds' = [bounds EXCEPT !.faults = @ - 1]

(* submit_video and requeue_history_item: the row is inserted, and if      *)
(* nothing plays the queue advances.  Items are numbered in this order.    *)
Submit(p, i) ==
    /\ Idle(p) /\ i \in bounds.items /\ rows[i].status = "none"
    /\ \A j \in bounds.items : j < i => rows[j].status # "none"
    /\ Mark(i, "queued")
    /\ LET q == CancelFallback(pods[p])
       IN  Set(p, IF q.current = None THEN Goto(q, "advance", None) ELSE q)
    /\ UNCHANGED <<source, users>> /\ Unchanged

(* The playback timer wakes when the item is over, or would have been.     *)
Fire(p) ==
    /\ Idle(p)
    /\ \E i \in {pods[p].timer} \ {None} :
          /\ rows[i].over \/ rows[i].status # "playing"
          /\ LET q == [pods[p] EXCEPT !.timer = None]
             IN  Set(p, IF q.current = i THEN Goto(q, "finish", i) ELSE q)
    /\ UNCHANGED <<db, users>> /\ Unchanged

(* force_skip of the staff. *)
ForceSkip(p) ==
    /\ Idle(p) /\ bounds.force
    /\ LET q == pods[p]
       IN  Set(p, IF q.current = None THEN [Goto(q, "adopt", None) EXCEPT !.then = "skip"]
                  ELSE Goto(q, "skip", q.current))
    /\ UNCHANGED <<db, users>> /\ Unchanged

(* cast_skip_vote checks the user's source before it takes the mutex.      *)
AskVote(u) ==
    /\ u \in listeners \cap bounds.voters /\ pods[PodOf[u]].up
    /\ asking' = asking \cup {u}
    /\ UNCHANGED <<db, pods, listeners, switching>> /\ Unchanged

(* Mutant: the item that is voted on may be unskippable. *)
CountVoteAlways(p, q, u) ==
    LET v == [q EXCEPT !.votes = @ \cup {<<u, q.current>>}]
    IN  IF EnoughVotes(p, v) THEN SkipByVotes(p, v, u) ELSE Done(v)

(* A vote for the current item; with enough of them the item is skipped.   *)
CountVote(p, q, u) ==
    IF rows[q.current].locked THEN Done(q)
    ELSE LET v == IF \E w \in q.votes : w[1] = u THEN q
                  ELSE [q EXCEPT !.votes = @ \cup {<<u, q.current>>}]
         IN  IF EnoughVotes(p, v) THEN SkipByVotes(p, v, u) ELSE Done(v)

CastSkipVote(u) ==
    LET p == PodOf[u]
        q == pods[p]
    IN  /\ Idle(p) /\ u \in asking
        /\ asking' = asking \ {u}
        /\ Set(p, IF q.current = None
                  THEN [Goto(q, "adopt", None) EXCEPT !.then = "vote", !.voter = u]
                  ELSE CountVote(p, q, u))
        /\ UNCHANGED <<db, listeners, switching>> /\ Unchanged

(* persist_audio_source: away from YouTube, whose vote is dropped under    *)
(* the mutex, and the threshold looked at again under another lock of it.  *)
SwitchAway(u) ==
    /\ u \in listeners \cap bounds.movers /\ pods[PodOf[u]].up
    /\ listeners' = listeners \ {u}
    /\ switching' = switching \cup {<<u, "drop">>}
    /\ UNCHANGED <<db, pods, asking>> /\ Unchanged

DropVote(u) ==
    /\ Idle(PodOf[u]) /\ <<u, "drop">> \in switching
    /\ LET q == pods[PodOf[u]]
           cast == {w \in q.votes : w[1] = u}
       IN  /\ Set(PodOf[u], [q EXCEPT !.votes = @ \ cast])
           /\ switching' = (switching \ {<<u, "drop">>}) \cup
                               IF cast = {} THEN {} ELSE {<<u, "reevaluate">>}
    /\ UNCHANGED <<db, listeners, asking>> /\ Unchanged

ReevaluateSkipThreshold(u) ==
    LET p == PodOf[u]
        q == pods[p]
    IN  /\ Idle(p) /\ <<u, "reevaluate">> \in switching
        /\ switching' = switching \ {<<u, "reevaluate">>}
        /\ Set(p, IF /\ q.current # None /\ q.votes # {} /\ EnoughVotes(p, q)
                     /\ ~rows[q.current].locked
                  THEN SkipByVotes(p, q, u) ELSE q)
        /\ UNCHANGED <<db, listeners, asking>> /\ Unchanged

(* A user comes to YouTube, or goes offline, which drops no vote.          *)
Arrive(u) ==
    /\ u \in bounds.users \ listeners /\ pods[PodOf[u]].up /\ \A w \in switching : w[1] # u
    /\ listeners' = listeners \cup {u}
    /\ UNCHANGED <<db, pods, asking, switching>> /\ Unchanged

GoOffline(u) ==
    /\ u \in listeners \cap bounds.leavers
    /\ listeners' = listeners \ {u}
    /\ UNCHANGED <<db, pods, asking, switching>> /\ Unchanged

(* delete_queue_item and toggle_unskippable: one statement on a queued row. *)
DeleteQueueItem(i) ==
    /\ rows[i].status = "queued" /\ Mark(i, "gone")
    /\ UNCHANGED <<source, pods, users>> /\ Unchanged

ToggleUnskippable(i) ==
    /\ i \in bounds.lockable /\ rows[i].status = "queued"
    /\ rows' = [rows EXCEPT ![i].locked = ~@]
    /\ UNCHANGED <<source, pods, users>> /\ Unchanged

(* set_trusted_youtube_fallback plays it if nothing plays or waits. *)
SetFallback(p) ==
    /\ Idle(p) /\ bounds.trusted /\ source' = TRUE
    /\ LET q == pods[p]
       IN  Set(p, IF q.current = None THEN Goto(q, "trusted", None) ELSE q)
    /\ UNCHANGED <<rows, users>> /\ Unchanged

PeriodicReconcile(p) ==
    /\ Idle(p) /\ ~pods[p].resuming
    /\ Set(p, [Goto(pods[p], "adopt", None) EXCEPT !.then = "periodic"])
    /\ UNCHANGED <<db, users>> /\ Unchanged

(* finish_fallback_debounce: an error, as no fallback, leads to Icecast.   *)
FallbackDue(p) ==
    /\ Idle(p) /\ pods[p].fallback
    /\ LET q == CancelFallback(pods[p])
       IN  \/ Set(p, IF q.current # None THEN q
                     ELSE IF source THEN [CancelPlayback(q) EXCEPT !.mode = "Youtube"]
                     ELSE [q EXCEPT !.mode = "Icecast"]) /\ UNCHANGED bounds
          \/ /\ q.current = None /\ source /\ SpendFault
             /\ Set(p, [CancelPlayback(q) EXCEPT !.mode = "Icecast"])
    /\ UNCHANGED <<db, users, finishLost>>

-------------------------------------------------------------------------------
(* Statements of an operation that holds the mutex.                        *)
At(p, at) == pods[p].up /\ pods[p].at = at

(* mark_played or mark_skipped changes the row if it still plays; if it    *)
(* does not, memory was stale.                                             *)
EndItem(p, status) ==
    LET q == pods[p]
    IN  /\ IF q.item \in Playing
           THEN /\ Mark(q.item, status)
                /\ Set(p, Goto(Done(PlaysNothing(q)), "advance", None))
           ELSE /\ Set(p, [Goto(q, "adopt", None) EXCEPT !.then = "reconcile"])
                /\ UNCHANGED rows
        /\ UNCHANGED <<source, users>> /\ Unchanged

FinishItem(p) == At(p, "finish") /\ EndItem(p, "gone")
SkipItem(p) == At(p, "skip") /\ EndItem(p, "skipped")

(* Mutant: the reconciliation adopts what plays, and never advances. *)
NotAdoptedOnly(q) ==
    CASE q.then \in {"reconcile", "retry"} -> Goto(Done(PlaysNothing(q)), "advance", None)
      [] q.then = "periodic" /\ q.current # None ->
            [Goto(q, "adopt", None) EXCEPT !.then = "reconcile"]
      [] OTHER -> Done(q)

(* What becomes of an operation that has found no row to adopt.            *)
NotAdopted(q) ==
    CASE q.then = "reconcile" -> Goto(Done(PlaysNothing(q)), "advance", None)
      [] q.then = "periodic" /\ q.current # None ->
            [Goto(q, "adopt", None) EXCEPT !.then = "reconcile"]
      [] q.then = "periodic" /\ q.current = None ->
            IF Queued = {} THEN Done(q) ELSE Goto(Done(q), "advance", None)
      [] q.then = "lostRace" -> Done(ScheduleFallback(q))
      [] q.then = "retry" -> Goto(Done(q), "advance", None)
      [] q.then \in {"conflict", "skip", "vote"} -> Done(q)

Adopted(p, q) ==
    CASE q.then = "skip" -> Goto(q, "skip", q.current)
      [] q.then = "vote" -> CountVote(p, q, q.voter)
      [] OTHER -> Done(q)

(* adopt_current_playing_from_db: a row without a duration is failed.      *)
AdoptCurrent(p) ==
    /\ At(p, "adopt")
    /\ \/ /\ Playing = {}
          /\ Set(p, NotAdopted(pods[p])) /\ UNCHANGED rows
       \/ \E i \in Playing \cap Legacy :
             Mark(i, "gone") /\ Set(p, NotAdopted(pods[p]))
       \/ \E i \in Playing \ Legacy :
             Set(p, Adopted(p, AdoptItem(pods[p], i))) /\ UNCHANGED rows
    /\ UNCHANGED <<source, users>> /\ Unchanged

(* advance_to_next: first, whatever plays according to the database.       *)
AdoptOrAdvance(p) ==
    /\ At(p, "advance")
    /\ \/ /\ Playing = {}
          /\ Set(p, Goto(pods[p], "next", None)) /\ UNCHANGED rows
       \/ \E i \in Playing \cap Legacy : Mark(i, "gone") /\ UNCHANGED pods
       \/ \E i \in Playing \ Legacy :
             Set(p, Done(AdoptItem(pods[p], i))) /\ UNCHANGED rows
    /\ UNCHANGED <<source, users>> /\ Unchanged

FirstQueued(p) ==
    /\ At(p, "next")
    /\ \/ /\ Queued = {}
          /\ Set(p, Goto(PlaysNothing(pods[p]), "fallback", None))
       \/ \E i \in Queued : Set(p, Goto(CancelFallback(pods[p]), "promote", i))
    /\ UNCHANGED <<db, users>> /\ Unchanged

(* Mutant: nothing keeps a second row from playing. *)
MarkPlayingBesides(p) ==
    /\ At(p, "promote")
    /\ pods[p].item \in Queued /\ Mark(pods[p].item, "playing")
    /\ Set(p, Done(Plays(pods[p], pods[p].item)))
    /\ UNCHANGED <<source, users>> /\ Unchanged

(* mark_playing: no row if it is not queued any more, a conflict on the    *)
(* unique index if another plays.                                          *)
MarkPlaying(p) ==
    /\ At(p, "promote")
    /\ LET q == pods[p]
           i == q.item
       IN  \/ /\ i \notin Queued
              /\ Set(p, [Goto(q, "adopt", None) EXCEPT !.then = "lostRace"]) /\ UNCHANGED rows
           \/ /\ i \in Queued /\ Playing # {}
              /\ Set(p, [Goto(q, "adopt", None) EXCEPT !.then = "conflict"]) /\ UNCHANGED rows
           \/ /\ i \in Queued /\ Playing = {}
              /\ Mark(i, "playing")
              /\ Set(p, IF i \in Legacy THEN Goto(q, "reject", i) ELSE Done(Plays(q, i)))
    /\ UNCHANGED <<source, users>> /\ Unchanged

(* mark_failed of an item without a duration. *)
RejectItem(p) ==
    /\ At(p, "reject")
    /\ LET q == pods[p]
       IN  IF q.item \in Playing
           THEN Mark(q.item, "gone") /\ Set(p, Goto(q, "advance", None))
           ELSE /\ Set(p, [Goto(q, "adopt", None) EXCEPT !.then = "retry"])
                /\ UNCHANGED rows
    /\ UNCHANGED <<source, users>> /\ Unchanged

PlayTrusted(p) ==
    /\ At(p, "trusted")
    /\ LET q == pods[p]
       IN  Set(p, Done(IF Queued # {} THEN q
                       ELSE [CancelFallback(CancelPlayback(q)) EXCEPT !.mode = "Youtube"]))
    /\ UNCHANGED <<db, users>> /\ Unchanged

PublishFallback(p) ==
    /\ At(p, "fallback")
    /\ LET q == pods[p]
       IN  Set(p, Done(IF source THEN [CancelFallback(q) EXCEPT !.mode = "Youtube"]
                       ELSE ScheduleFallback(q)))
    /\ UNCHANGED <<db, users>> /\ Unchanged

(* A statement fails: the operation returns its error, and the task of a   *)
(* playback timer has ended.                                               *)
Fail(p) ==
    /\ pods[p].up /\ (pods[p].at # "idle" \/ pods[p].resuming)
    /\ SpendFault
    /\ finishLost' = (finishLost \/ At(p, "finish"))
    /\ Set(p, [Done(pods[p]) EXCEPT !.resuming = FALSE])
    /\ UNCHANGED <<db, users>>

-------------------------------------------------------------------------------
(* start_background_task: a row that has played for longer than any item   *)
(* may is failed, then the one that plays is resumed.                      *)
Start(p) ==
    /\ p \in bounds.pods /\ ~pods[p].up
    /\ Set(p, [Stopped EXCEPT !.up = TRUE, !.resuming = TRUE])
    /\ \/ \E i \in Playing : rows[i].over /\ Mark(i, "gone")
       \/ UNCHANGED rows
    /\ UNCHANGED <<source, users>> /\ Unchanged

ResumeFromDb(p) ==
    /\ Idle(p) /\ pods[p].resuming
    /\ LET q == [pods[p] EXCEPT !.resuming = FALSE]
       IN  \/ /\ Playing = {}
              /\ Set(p, Goto(q, "advance", None)) /\ UNCHANGED rows
           \/ \E i \in Playing \cap Legacy :
                 Mark(i, "gone") /\ Set(p, Goto(q, "advance", None))
           \/ \E i \in Playing \ Legacy :
                 IF rows[i].over
                 THEN Mark(i, "gone") /\ Set(p, Goto(q, "advance", None))
                 ELSE Set(p, Resumes(q, i)) /\ UNCHANGED rows
    /\ UNCHANGED <<source, users>> /\ Unchanged

(* A process stops, with the tasks of its users.                           *)
Stop(p) ==
    /\ pods[p].up /\ SpendFault
    /\ Set(p, Stopped)
    /\ LET there == {u \in Users : PodOf[u] = p}
       IN  /\ listeners' = listeners \ there /\ asking' = asking \ there
           /\ switching' = {w \in switching : w[1] \notin there}
    /\ UNCHANGED <<db, finishLost>>

ItemEnds ==
    /\ \E i \in Playing : ~rows[i].over /\ rows' = [rows EXCEPT ![i].over = TRUE]
    /\ UNCHANGED <<source, pods, users>> /\ Unchanged

-------------------------------------------------------------------------------
Init ==
    /\ bounds \in Instances
    /\ rows \in {r \in [Items -> [status : {"none", "queued", "playing"},
                                  over : {FALSE}, locked : {FALSE}]] :
                    /\ \A i \in Items : r[i].status = "none" <=> i \notin Legacy \cap bounds.items
                    /\ Cardinality({i \in Items : r[i].status = "playing"}) <= 1}
    /\ source = FALSE
    /\ pods = [p \in Pods |-> Stopped]
    /\ listeners = {} /\ asking = {} /\ switching = {}
    /\ finishLost = FALSE

Statement(p) ==
    FinishItem(p) \/ SkipItem(p) \/ AdoptCurrent(p) \/ AdoptOrAdvance(p) \/ FirstQueued(p)
        \/ MarkPlaying(p) \/ RejectItem(p) \/ PublishFallback(p)
        \/ PlayTrusted(p)

PodStep(p) ==
    \/ \E i \in Items : Submit(p, i)
    \/ Fire(p) \/ ForceSkip(p) \/ SetFallback(p) \/ PeriodicReconcile(p) \/ FallbackDue(p)
    \/ Statement(p) \/ Fail(p) \/ Start(p) \/ ResumeFromDb(p) \/ Stop(p)

UserStep(u) ==
    AskVote(u) \/ CastSkipVote(u) \/ SwitchAway(u) \/ DropVote(u)
        \/ ReevaluateSkipThreshold(u) \/ Arrive(u) \/ GoOffline(u)

Next ==
    \/ \E p \in Pods : PodStep(p)
    \/ \E u \in Users : UserStep(u)
    \/ \E i \in Items : DeleteQueueItem(i) \/ ToggleUnskippable(i)
    \/ ItemEnds

Spec == Init /\ [][Next]_vars

(***************************************************************************)
(* Items come to an end and stopped processes are started.  An operation   *)
(* that has the mutex goes on; timers and the reconciliation tick wait for *)
(* the mutex, which is first come, first served.                           *)
(***************************************************************************)
Fairness ==
    /\ WF_vars(ItemEnds)
    /\ \A p \in Pods :
          /\ WF_vars(Start(p)) /\ WF_vars(Statement(p))
          /\ SF_vars(ResumeFromDb(p)) /\ SF_vars(Fire(p)) /\ SF_vars(PeriodicReconcile(p))

FairSpec == Spec /\ Fairness

-------------------------------------------------------------------------------
QueueStates ==
    [up : BOOLEAN, resuming : BOOLEAN, current : Items \cup {None},
     mode : {"Icecast", "Youtube"}, votes : SUBSET (Users \X Items),
     handle : Items \cup {None}, timer : Items \cup {None}, fallback : BOOLEAN,
     at : {"idle", "finish", "skip", "adopt", "advance", "next", "promote", "reject", "fallback",
           "trusted"},
     item : Items \cup {None}, voter : Users \cup {None}, audience : Nat,
     then : {"bail", "skip", "vote", "reconcile", "periodic", "lostRace", "conflict", "retry"}]

(***************************************************************************)
(* Types of QueueState and of the rows, of which one plays at most.        *)
(***************************************************************************)
TypeOK ==
    /\ rows \in [Items -> [status : Statuses, over : BOOLEAN, locked : BOOLEAN]]
    /\ Cardinality(Playing) <= 1
    /\ source \in BOOLEAN /\ finishLost \in BOOLEAN
    /\ pods \in [Pods -> QueueStates]
    /\ listeners \subseteq Users /\ asking \subseteq Users
    /\ switching \subseteq Users \X {"drop", "reevaluate"}
    /\ bounds \in Instance

(***************************************************************************)
(* Whichever operation made the playing item current, here or behind this  *)
(* process's back, the process has a timer for it, none for any other, and *)
(* is in YouTube mode, even where a fall to Icecast is still armed; only a *)
(* statement that failed when the timer woke leaves the item without its   *)
(* timer.  schedule_playback_timer, finish_fallback_debounce and callers.  *)
(***************************************************************************)
CurrentIsTimed ==
    \A p \in Pods :
        LET q == pods[p]
        IN  /\ q.timer \in {None, q.handle}
            /\ Idle(p) /\ q.current \in Playing =>
                  /\ q.handle = q.current /\ q.mode = "Youtube"
                  /\ finishLost \/ q.timer = q.current

(***************************************************************************)
(* Listeners skip an item only with the votes of SkipVotePercent of those  *)
(* who listened when the votes were last counted, and of SkipVoteMin, all  *)
(* of them cast while that item was current, and never one the staff has   *)
(* made unskippable; whatever another process has done to the queue in the *)
(* meantime.  cast_skip_vote and reevaluate_skip_threshold.                *)
(***************************************************************************)
VotesSuffice(q) ==
    /\ 100 * Cardinality(q.votes) >= SkipVotePercent * q.audience
    /\ Cardinality(q.votes) >= SkipVoteMin

SkippedByVotes(p, i) ==
    LET q == pods[p]
    IN  /\ At(p, "skip") /\ q.item = i /\ ~rows[i].locked
        /\ VotesSuffice(q) /\ \A w \in q.votes : w[2] = i

SkippedByStaff(p, i) == At(p, "skip") /\ pods[p].item = i /\ pods[p].voter = None

SkipsAreVoted ==
    [][\A i \in Playing :
          rows'[i].status = "skipped" =>
              \E p \in Pods : SkippedByStaff(p, i) \/ SkippedByVotes(p, i)]_vars

(***************************************************************************)
(* What is queued is played, or refused, and what is over makes room, so   *)
(* the queue empties again and again, through overlapping processes,       *)
(* restarts and failed statements: the reconciliation takes up what an     *)
(* error has dropped.  The one error that it does not make good is that of *)
(* the timer's own mark_played.  periodic_reconcile and finish_item.       *)
(***************************************************************************)
QueueEmpties == []<>(finishLost \/ Queued \cup Playing = {})
===============================================================================
