--------------------------- MODULE AudioQueueProofs ---------------------------
(***************************************************************************)
(* The audio queue for any number of processes, users and items: its       *)
(* types, that the current item has its timer, and that listeners skip     *)
(* only what they have voted on.                                           *)
(*                                                                         *)
(* A process holds its mutex over several statements, between which the    *)
(* others change the rows.  What a process remembers stays right because a *)
(* row never goes back: an item that was once current is past the queue    *)
(* for good, and will not play again.                                      *)
(***************************************************************************)
EXTENDS AudioQueue, FiniteSetTheorems, TLAPS

Row == [status : Statuses, over : BOOLEAN, locked : BOOLEAN]
Waiting == {"none", "queued"}

(* What a process remembers of the item it has current, given the rows r,  *)
(* and of the operation that holds its mutex.                              *)
Bookkeeping(q, r) ==
    /\ q.timer \in {None, q.handle}
    /\ q.current # None => r[q.current].status \notin Waiting
    /\ \A w \in q.votes : w[2] = q.current
    /\ q.at = "idle" => q.voter = None
    /\ q.at = "adopt" =>
          /\ q.then # "bail"
          /\ q.then = "vote" => q.voter \in Users
          /\ q.then = "skip" => q.voter = None
    /\ q.at \in {"finish", "skip"} => q.item = q.current /\ q.current # None
    /\ q.at \in {"trusted", "fallback"} => q.current = None

(* An item is about to be skipped because of votes. *)
Voted(q, r) ==
    q.at = "skip" /\ q.voter # None =>
        ~r[q.current].locked /\ VotesSuffice(q)

(* The current item has its timer, or the timer is ending it. *)
Timed(q, r, lost) ==
    q.current # None /\ r[q.current].status = "playing" =>
        /\ q.handle = q.current /\ q.mode = "Youtube"
        /\ lost \/ q.timer = q.current \/ q.at = "finish"

PodOK(q, r, lost) ==
    q \in QueueStates /\ Bookkeeping(q, r) /\ Voted(q, r) /\ Timed(q, r, lost)

OnePlays(r) ==
    \A i, j \in Items : r[i].status = "playing" /\ r[j].status = "playing" => i = j

AudioInv ==
    /\ rows \in [Items -> Row] /\ OnePlays(rows)
    /\ source \in BOOLEAN /\ finishLost \in BOOLEAN
    /\ pods \in [Pods -> QueueStates]
    /\ \A p \in Pods : PodOK(pods[p], rows, finishLost)
    /\ listeners \subseteq Users /\ asking \subseteq Users
    /\ switching \subseteq Users \X {"drop", "reevaluate"}
    /\ bounds \in Instance

(* How rows may change: what has left the queue does not come back to it. *)
RowsMove ==
    /\ rows' \in [Items -> Row] /\ OnePlays(rows')
    /\ \A i \in Items : rows[i].status \notin Waiting =>
          /\ rows'[i].status \notin Waiting
          /\ rows'[i].status = "playing" => rows[i].status = "playing"
          /\ rows'[i].locked = rows[i].locked

(* A step of a process: its own state changes, and it keeps its books. *)
PodMove(p) ==
    /\ \A o \in Pods \ {p} : pods'[o] = pods[o]
    /\ PodOK(pods'[p], rows', finishLost')
    /\ pods' \in [Pods -> QueueStates]

-------------------------------------------------------------------------------
(* The rows and the lost timers of others leave a process right. *)
LEMMA OthersKept ==
    ASSUME NEW q, NEW lost \in BOOLEAN, PodOK(q, rows, lost), RowsMove,
           NEW found \in BOOLEAN, lost => found
    PROVE  PodOK(q, rows', found)
<1>1. q.current # None => q.current \in Items
  BY DEF PodOK, QueueStates
<1>2. q.at = "skip" => q.current # None
  BY DEF PodOK, Bookkeeping
<1> QED
  BY <1>1, <1>2 DEF PodOK, Bookkeeping, Voted, Timed, RowsMove

LEMMA PodsKept ==
    ASSUME AudioInv, NEW p, PodMove(p), RowsMove, finishLost' \in BOOLEAN,
           finishLost => finishLost'
    PROVE  \A o \in Pods : PodOK(pods'[o], rows', finishLost')
<1> SUFFICES ASSUME NEW o \in Pods PROVE PodOK(pods'[o], rows', finishLost')
  OBVIOUS
<1>1. CASE o = p
  BY <1>1 DEF PodMove
<1>2. CASE o # p
  <2>1. PodOK(pods[o], rows, finishLost) /\ pods'[o] = pods[o] /\ finishLost \in BOOLEAN
    BY <1>2 DEF AudioInv, PodMove
  <2>2. PodOK(pods[o], rows', finishLost')
    BY <2>1, OthersKept
  <2> QED
    BY <2>1, <2>2
<1> QED
  BY <1>1, <1>2

(* A row that is marked moves the rows on. *)
LEMMA MarkMoves ==
    ASSUME AudioInv, NEW i \in Items, NEW status \in Statuses, Mark(i, status),
           \/ status \in {"skipped", "gone"}
           \/ status = "queued" /\ rows[i].status = "none"
           \/ status = "playing" /\ rows[i].status = "queued" /\ Playing = {}
    PROVE  /\ RowsMove
           /\ rows'[i].status = status /\ ~rows'[i].over /\ rows'[i].locked = rows[i].locked
           /\ \A j \in Items : j # i => rows'[j] = rows[j]
<1>1. rows[i] \in Row
  BY DEF AudioInv
<1>2. rows' = [rows EXCEPT ![i] = [rows[i] EXCEPT !.status = status, !.over = FALSE]]
  BY DEF Mark
<1>3. rows'[i] = [rows[i] EXCEPT !.status = status, !.over = FALSE]
  BY <1>2 DEF AudioInv
<1>4. \A j \in Items : j # i => rows'[j] = rows[j]
  BY <1>2 DEF AudioInv
<1>5. /\ rows'[i] \in Row
      /\ rows'[i].status = status /\ ~rows'[i].over /\ rows'[i].locked = rows[i].locked
  BY <1>1, <1>3 DEF Row
<1>6. rows' \in [Items -> Row]
  BY <1>2, <1>3, <1>5 DEF AudioInv
<1>7. OnePlays(rows')
  BY <1>4, <1>5 DEF AudioInv, OnePlays, Playing
<1>8. ASSUME NEW j \in Items, rows[j].status \notin Waiting
      PROVE  /\ rows'[j].status \notin Waiting
             /\ rows'[j].status = "playing" => rows[j].status = "playing"
             /\ rows'[j].locked = rows[j].locked
  BY <1>4, <1>5, <1>8 DEF Waiting
<1> QED
  BY <1>4, <1>5, <1>6, <1>7, <1>8 DEF RowsMove

LEMMA RowsStay == ASSUME AudioInv, UNCHANGED rows PROVE RowsMove
  BY DEF AudioInv, RowsMove

(* What plays, once nothing does or it is done with. *)
LEMMA PlayingEnds ==
    ASSUME AudioInv, NEW i \in Playing, Mark(i, "gone") \/ Mark(i, "skipped")
    PROVE  RowsMove /\ \A j \in Items : rows'[j].status # "playing"
<1>1. i \in Items /\ rows[i].status = "playing"
  BY DEF Playing
<1>2. PICK status \in {"gone", "skipped"} : Mark(i, status)
  OBVIOUS
<1>3. /\ RowsMove /\ rows'[i].status = status
      /\ \A j \in Items : j # i => rows'[j] = rows[j]
  BY <1>1, <1>2, MarkMoves DEF Statuses
<1> QED
  BY <1>1, <1>2, <1>3 DEF AudioInv, OnePlays

-------------------------------------------------------------------------------
(***************************************************************************)
(* The methods on QueueState.  Core is what holds of a process wherever    *)
(* its operation is; the rest of PodOK is about that operation.            *)
(***************************************************************************)
Core(q, r, lost) ==
    /\ q \in QueueStates
    /\ q.timer \in {None, q.handle}
    /\ q.current # None => r[q.current].status \notin Waiting
    /\ \A w \in q.votes : w[2] = q.current
    /\ q.current # None /\ r[q.current].status = "playing" =>
          /\ q.handle = q.current /\ q.mode = "Youtube"
          /\ lost \/ q.timer = q.current

SameControl(a, b) ==
    a.at = b.at /\ a.item = b.item /\ a.then = b.then /\ a.voter = b.voter /\ a.up = b.up

LEMMA CoreOf ==
    ASSUME NEW q, NEW r, NEW lost, PodOK(q, r, lost),
           q.at = "finish" => q.current = None \/ r[q.current].status # "playing" \/ lost
    PROVE  Core(q, r, lost)
  BY DEF PodOK, Core, Bookkeeping, Timed

LEMMA PlaysCore ==
    ASSUME NEW r, NEW lost, NEW q \in QueueStates, \A w \in q.votes : w[2] = q.current,
           NEW i \in Items, r[i].status \notin Waiting
    PROVE  /\ Core(Plays(q, i), r, lost) /\ SameControl(Plays(q, i), q)
           /\ Plays(q, i).current = i
<1> DEFINE n == Plays(q, i)
<1>1. /\ n.current = i /\ n.mode = "Youtube" /\ n.handle = i /\ n.timer = i /\ ~n.fallback
      /\ n.votes = IF q.current = i THEN q.votes ELSE {}
      /\ SameControl(n, q) /\ n.resuming = q.resuming
  BY DEF Plays, SchedulePlaybackTimer, CancelFallback, SameControl, QueueStates
<1>2. n \in QueueStates
  <2> DEFINE v == IF q.current = i THEN q.votes ELSE {}
             a == [CancelFallback(q) EXCEPT !.current = i, !.mode = "Youtube", !.votes = v]
  <2>1. v \in SUBSET (Users \X Items) /\ q.fallback \in BOOLEAN
    BY DEF QueueStates
  <2>2. a \in QueueStates
    <3> HIDE DEF v
    <3> QED
      BY <2>1, ZenonT(30) DEF CancelFallback, QueueStates
  <2>3. n = [a EXCEPT !.handle = i, !.timer = i]
    BY DEF Plays, SchedulePlaybackTimer, CancelFallback, QueueStates
  <2> HIDE DEF a, n
  <2> QED
    BY <2>2, <2>3 DEF QueueStates
<1> HIDE DEF n
<1>3. \A w \in n.votes : w[2] = i
  BY <1>1
<1>4. Core(n, r, lost)
  BY <1>1, <1>2, <1>3, AudioAssumption DEF Core
<1> QED
  BY <1>1, <1>4 DEF n

(* A process that resumes an item has it current without any votes. *)
LEMMA ResumesCore ==
    ASSUME NEW r, NEW lost, NEW q \in QueueStates, NEW i \in Items, r[i].status \notin Waiting
    PROVE  Core(Resumes(q, i), r, lost) /\ SameControl(Resumes(q, i), q)
<1> DEFINE a == [q EXCEPT !.current = i, !.mode = "Youtube", !.votes = {}]
           n == Resumes(q, i)
<1>1. /\ n.current = i /\ n.mode = "Youtube" /\ n.handle = i /\ n.timer = i
      /\ n.votes = {} /\ SameControl(n, q)
  BY DEF Resumes, SchedulePlaybackTimer, SameControl, QueueStates
<1>2. a \in QueueStates
  BY ZenonT(30) DEF QueueStates
<1>3. n = [a EXCEPT !.handle = i, !.timer = i]
  BY DEF Resumes, SchedulePlaybackTimer
<1> HIDE DEF a, n
<1>4. n \in QueueStates
  BY <1>2, <1>3 DEF QueueStates
<1>5. Core(n, r, lost)
  BY <1>1, <1>4, AudioAssumption DEF Core
<1> QED
  BY <1>1, <1>5 DEF n

LEMMA PlaysNothingCore ==
    ASSUME NEW r, NEW lost, NEW q \in QueueStates
    PROVE  /\ Core(PlaysNothing(q), r, lost) /\ SameControl(PlaysNothing(q), q)
           /\ PlaysNothing(q).current = None
  BY DEF PlaysNothing, CancelPlayback, Core, SameControl, QueueStates

LEMMA AdoptCore ==
    ASSUME NEW r, NEW lost, NEW q, Core(q, r, lost), NEW i \in Items, r[i].status = "playing"
    PROVE  /\ Core(AdoptItem(q, i), r, lost) /\ SameControl(AdoptItem(q, i), q)
           /\ AdoptItem(q, i).current = i
<1>1. CASE q.current = i /\ q.mode = "Youtube" /\ q.handle # None
  BY <1>1 DEF AdoptItem, SameControl
<1>2. CASE ~(q.current = i /\ q.mode = "Youtube" /\ q.handle # None)
  <2>1. q \in QueueStates /\ (\A w \in q.votes : w[2] = q.current) /\ r[i].status \notin Waiting
    BY DEF Core, Waiting
  <2> QED
    BY <1>2, <2>1, PlaysCore DEF AdoptItem
<1> QED
  BY <1>1, <1>2

LEMMA CancelFallbackCore ==
    ASSUME NEW r, NEW lost, NEW q, Core(q, r, lost)
    PROVE  /\ Core(CancelFallback(q), r, lost) /\ SameControl(CancelFallback(q), q)
           /\ CancelFallback(q).current = q.current
<1> DEFINE n == CancelFallback(q)
<1>1. q \in QueueStates
  BY DEF Core
<1>2. n \in QueueStates
  BY <1>1, ZenonT(30) DEF CancelFallback, QueueStates
<1>3. /\ n.current = q.current /\ n.mode = q.mode /\ n.votes = q.votes /\ n.handle = q.handle
      /\ n.timer = q.timer /\ ~n.fallback /\ SameControl(n, q)
  BY <1>1 DEF CancelFallback, SameControl, QueueStates
<1> HIDE DEF n
<1>4. Core(n, r, lost)
  BY <1>2, <1>3 DEF Core
<1> QED
  BY <1>3, <1>4 DEF n

(* Nothing current plays: the mode and the fallback are free. *)
LEMMA ScheduleFallbackCore ==
    ASSUME NEW r, NEW lost, NEW q, Core(q, r, lost),
           q.current # None => r[q.current].status # "playing"
    PROVE  Core(ScheduleFallback(q), r, lost)
<1>1. CASE q.mode = "Icecast"
  BY <1>1 DEF ScheduleFallback
<1>2. CASE q.mode # "Icecast"
  <2> DEFINE n == [q EXCEPT !.fallback = TRUE]
  <2>1. n \in QueueStates /\ n.current = q.current /\ n.votes = q.votes
        /\ n.timer = q.timer /\ n.handle = q.handle
    BY DEF Core, QueueStates
  <2> HIDE DEF n
  <2>2. Core(n, r, lost)
    BY <2>1 DEF Core
  <2> QED
    BY <1>2, <2>2 DEF ScheduleFallback, n
<1> QED
  BY <1>1, <1>2

(* The steps of an operation leave what the process remembers alone. *)
SameMemory(a, b) ==
    /\ a.current = b.current /\ a.mode = b.mode /\ a.votes = b.votes /\ a.handle = b.handle
    /\ a.timer = b.timer /\ a.fallback = b.fallback

LEMMA CoreSame ==
    ASSUME NEW r, NEW lost, NEW q, Core(q, r, lost), NEW n \in QueueStates, SameMemory(n, q)
    PROVE  Core(n, r, lost)
  BY DEF Core, SameMemory

LEMMA CorePod ==
    ASSUME NEW r, NEW lost, NEW q, Core(q, r, lost),
           q.at = "idle" => q.voter = None,
           q.at = "adopt" => /\ q.then # "bail"
                             /\ q.then = "vote" => q.voter \in Users
                             /\ q.then = "skip" => q.voter = None,
           q.at \in {"finish", "skip"} => q.item = q.current /\ q.current # None,
           q.at \in {"trusted", "fallback"} => q.current = None,
           Voted(q, r)
    PROVE  PodOK(q, r, lost)
  BY DEF Core, PodOK, Bookkeeping, Timed

Ats == {"idle", "finish", "skip", "adopt", "advance", "next", "promote", "reject", "fallback",
        "trusted"}
Thens == {"bail", "skip", "vote", "reconcile", "periodic", "lostRace", "conflict", "retry"}

LEMMA GotoFields ==
    ASSUME NEW q \in QueueStates, NEW at \in Ats, NEW item \in Items \cup {None}
    PROVE  /\ Goto(q, at, item) \in QueueStates /\ SameMemory(Goto(q, at, item), q)
           /\ Goto(q, at, item).at = at /\ Goto(q, at, item).item = item
           /\ Goto(q, at, item).then = q.then /\ Goto(q, at, item).voter = q.voter
<1>1. Goto(q, at, item) \in QueueStates
  BY ZenonT(30) DEF Goto, QueueStates, Ats
<1> QED
  BY <1>1 DEF Goto, QueueStates, SameMemory

AdoptFor(q, t) == [Goto(q, "adopt", None) EXCEPT !.then = t]

LEMMA AdoptFields ==
    ASSUME NEW q \in QueueStates, NEW t \in Thens
    PROVE  /\ AdoptFor(q, t) \in QueueStates /\ SameMemory(AdoptFor(q, t), q)
           /\ AdoptFor(q, t).at = "adopt" /\ AdoptFor(q, t).then = t
           /\ AdoptFor(q, t).voter = q.voter
<1>1. AdoptFor(q, t) \in QueueStates
  BY ZenonT(30) DEF AdoptFor, Goto, QueueStates, Thens
<1> QED
  BY <1>1 DEF AdoptFor, Goto, QueueStates, SameMemory

LEMMA DoneFields ==
    ASSUME NEW q \in QueueStates
    PROVE  /\ Done(q) \in QueueStates /\ SameMemory(Done(q), q)
           /\ Done(q).at = "idle" /\ Done(q).voter = None
<1>1. Done(q) \in QueueStates
  BY ZenonT(30) DEF Done, QueueStates
<1> QED
  BY <1>1 DEF Done, QueueStates, SameMemory

LEMMA GotoOK ==
    ASSUME NEW r, NEW lost, NEW q, Core(q, r, lost),
           NEW at \in {"advance", "next", "promote", "reject", "trusted", "fallback"},
           at \in {"trusted", "fallback"} => q.current = None,
           NEW item \in Items \cup {None}
    PROVE  PodOK(Goto(q, at, item), r, lost)
<1> DEFINE n == Goto(q, at, item)
<1>0. q \in QueueStates /\ at \in Ats
  BY DEF Core, Ats
<1>1. n \in QueueStates /\ SameMemory(n, q) /\ n.at = at /\ n.current = q.current
  BY <1>0, GotoFields DEF SameMemory
<1> HIDE DEF n
<1>2. Core(n, r, lost) /\ Voted(n, r)
  BY <1>1, CoreSame DEF Voted
<1>3. PodOK(n, r, lost)
  BY <1>1, <1>2, CorePod
<1> QED
  BY <1>3 DEF n

LEMMA GotoAdoptOK ==
    ASSUME NEW r, NEW lost, NEW q, Core(q, r, lost), NEW t \in Thens \ {"bail"},
           t = "vote" => q.voter \in Users, t = "skip" => q.voter = None
    PROVE  PodOK(AdoptFor(q, t), r, lost)
<1> DEFINE n == AdoptFor(q, t)
<1>0. q \in QueueStates /\ t \in Thens
  BY DEF Core
<1>1. n \in QueueStates /\ SameMemory(n, q) /\ n.at = "adopt" /\ n.then = t /\ n.voter = q.voter
  BY <1>0, AdoptFields
<1> HIDE DEF n
<1>2. Core(n, r, lost) /\ Voted(n, r)
  BY <1>1, CoreSame DEF Voted
<1>3. PodOK(n, r, lost)
  BY <1>1, <1>2, CorePod
<1> QED
  BY <1>3 DEF n

LEMMA DoneOK ==
    ASSUME NEW r, NEW lost, NEW q, Core(q, r, lost)
    PROVE  PodOK(Done(q), r, lost) /\ Core(Done(q), r, lost) /\ Done(q).current = q.current
           /\ Done(q).voter = None
<1> DEFINE n == Done(q)
<1>1. n \in QueueStates /\ SameMemory(n, q) /\ n.at = "idle" /\ n.voter = None
      /\ n.current = q.current
  BY DoneFields DEF Core, SameMemory
<1> HIDE DEF n
<1>2. Core(n, r, lost) /\ Voted(n, r)
  BY <1>1, CoreSame DEF Voted
<1>3. PodOK(n, r, lost)
  BY <1>1, <1>2, CorePod
<1> QED
  BY <1>1, <1>2, <1>3 DEF n

(* Skipping for the staff, or for votes that are enough. *)
LEMMA GotoSkipOK ==
    ASSUME NEW r, NEW lost, NEW q, Core(q, r, lost), q.current # None,
           NEW v \in Users \cup {None},
           NEW n \in QueueStates, SameMemory(n, q), n.at = "skip", n.item = q.current, n.voter = v,
           v # None => ~r[q.current].locked /\ VotesSuffice(n)
    PROVE  PodOK(n, r, lost)
<1>1. Core(n, r, lost) /\ n.current = q.current /\ n.votes = q.votes
  BY CoreSame DEF SameMemory
<1>2. Voted(n, r)
  BY <1>1 DEF Voted
<1> QED
  BY <1>1, <1>2, CorePod

LEMMA IdleOK ==
    ASSUME NEW r, NEW lost, NEW q, Core(q, r, lost), q.at = "idle", q.voter = None
    PROVE  PodOK(q, r, lost)
  BY DEF Core, PodOK, Bookkeeping, Voted, Timed

-------------------------------------------------------------------------------
LEMMA VotesCount ==
    ASSUME NEW q \in QueueStates PROVE Cardinality(q.votes) \in Nat
<1>1. q.votes \subseteq Users \X Items
  BY DEF QueueStates
<1>2. IsFiniteSet(Users \X Items)
  BY AudioAssumption, FS_Product
<1> QED
  BY <1>1, <1>2, FS_Subset, FS_CardinalityType

LEMMA AudienceCount == ASSUME AudioInv, NEW p PROVE Audience(p) \in Nat
<1> DEFINE there == {u \in listeners : PodOf[u] = p}
<1>1. there \subseteq Users
  BY DEF AudioInv
<1>2. Audience(p) = Cardinality(there)
  BY DEF Audience
<1> HIDE DEF there
<1> QED
  BY <1>1, <1>2, AudioAssumption, FS_Subset, FS_CardinalityType

(* A number of votes that reaches a share rounded up reaches the share. *)
LEMMA CeilCovers ==
    ASSUME NEW n \in Nat
    PROVE  Ceil(n, 100) \in Int /\ 100 * Ceil(n, 100) >= n
  BY DEF Ceil

(* Votes that are counted as enough are SkipVotePercent of those who       *)
(* listen, and no fewer than the minimum.                                  *)
LEMMA EnoughAre ==
    ASSUME AudioInv, NEW p, NEW q \in QueueStates, EnoughVotes(p, q)
    PROVE  /\ 100 * Cardinality(q.votes) >= SkipVotePercent * Audience(p)
           /\ Cardinality(q.votes) >= SkipVoteMin
<1> DEFINE n == Audience(p) * SkipVotePercent
           share == Ceil(n, 100)
           count == Cardinality(q.votes)
<1>1. n \in Nat /\ SkipVotePercent * Audience(p) = n
  BY AudienceCount, AudioAssumption
<1>2. count >= Max({share, SkipVoteMin})
  BY DEF EnoughVotes, SkipThreshold
<1> HIDE DEF n
<1>3. share \in Int /\ 100 * share >= n
  BY <1>1, CeilCovers
<1>4. count \in Nat
  BY VotesCount
<1> HIDE DEF share, count
<1>5. /\ Max({share, SkipVoteMin}) \in {share, SkipVoteMin}
      /\ Max({share, SkipVoteMin}) >= SkipVoteMin
      /\ Max({share, SkipVoteMin}) >= share
  <2>1. SkipVoteMin \in Int
    BY AudioAssumption
  <2>2. \E x \in {share, SkipVoteMin} : \A y \in {share, SkipVoteMin} : x >= y
    BY <1>3, <2>1
  <2> QED
    BY <2>2 DEF Max
<1>6. count >= share /\ count >= SkipVoteMin
  BY <1>2, <1>3, <1>4, <1>5, AudioAssumption
<1>7. 100 * count >= n
  BY <1>1, <1>3, <1>4, <1>6
<1> QED
  BY <1>1, <1>6, <1>7 DEF count

(* The operation that goes on to a skip by votes. *)
LEMMA SkipByVotesFields ==
    ASSUME AudioInv, NEW p, NEW q \in QueueStates, NEW u \in Users
    PROVE  /\ SkipByVotes(p, q, u) \in QueueStates /\ SameMemory(SkipByVotes(p, q, u), q)
           /\ SkipByVotes(p, q, u).at = "skip" /\ SkipByVotes(p, q, u).item = q.current
           /\ SkipByVotes(p, q, u).voter = u
           /\ SkipByVotes(p, q, u).audience = Audience(p)
<1>1. Audience(p) \in Nat
  BY AudienceCount
<1>2. SkipByVotes(p, q, u) \in QueueStates
  BY <1>1, ZenonT(30) DEF SkipByVotes, Goto, QueueStates
<1> QED
  BY <1>2 DEF SkipByVotes, Goto, QueueStates, SameMemory

LEMMA SkipByVotesOK ==
    ASSUME AudioInv, NEW p, NEW lost, NEW q, Core(q, rows, lost), q.current # None,
           NEW u \in Users, ~rows[q.current].locked, EnoughVotes(p, q)
    PROVE  PodOK(SkipByVotes(p, q, u), rows, lost)
<1> DEFINE n == SkipByVotes(p, q, u)
<1>1. q \in QueueStates
  BY DEF Core
<1>2. /\ n \in QueueStates /\ SameMemory(n, q) /\ n.at = "skip" /\ n.item = q.current
      /\ n.voter = u /\ n.audience = Audience(p)
  BY <1>1, SkipByVotesFields
<1> HIDE DEF n
<1>3. VotesSuffice(n)
  BY <1>1, <1>2, EnoughAre DEF SameMemory, VotesSuffice
<1>4. PodOK(n, rows, lost)
  BY <1>2, <1>3, GotoSkipOK
<1> QED
  BY <1>4 DEF n

LEMMA CountVoteOK ==
    ASSUME AudioInv, NEW p, NEW lost, NEW q, Core(q, rows, lost), q.current # None,
           NEW u \in Users
    PROVE  PodOK(CountVote(p, q, u), rows, lost)
<1>1. CASE rows[q.current].locked
  BY <1>1, DoneOK DEF CountVote
<1>2. CASE ~rows[q.current].locked
  <2> DEFINE v == IF \E w \in q.votes : w[1] = u THEN q
                  ELSE [q EXCEPT !.votes = @ \cup {<<u, q.current>>}]
             n == SkipByVotes(p, v, u)
  <2>1. Core(v, rows, lost) /\ v.current = q.current
    <3>1. CASE \E w \in q.votes : w[1] = u
      BY <3>1
    <3>2. CASE ~\E w \in q.votes : w[1] = u
      <4> DEFINE m == [q EXCEPT !.votes = @ \cup {<<u, q.current>>}]
      <4>1. q \in QueueStates /\ q.current \in Items
        BY DEF Core, QueueStates
      <4>2. /\ m \in QueueStates /\ m.current = q.current
            /\ m.votes = q.votes \cup {<<u, q.current>>}
            /\ m.timer = q.timer /\ m.handle = q.handle /\ m.mode = q.mode
            /\ m.fallback = q.fallback
        BY <4>1 DEF QueueStates
      <4> HIDE DEF m
      <4>3. Core(m, rows, lost)
        BY <4>2 DEF Core
      <4>4. v = m
        BY <3>2 DEF m
      <4> HIDE DEF v
      <4> QED
        BY <4>2, <4>3, <4>4
    <3> QED
      BY <3>1, <3>2
  <2>2. CountVote(p, q, u) = IF EnoughVotes(p, v) THEN n ELSE Done(v)
    BY <1>2 DEF CountVote
  <2> HIDE DEF v
  <2>4. CASE EnoughVotes(p, v)
    <3>1. ~rows[v.current].locked /\ v.current # None
      BY <1>2, <2>1
    <3>2. PodOK(n, rows, lost)
      BY <2>1, <2>4, <3>1, SkipByVotesOK
    <3> QED
      BY <2>2, <2>4, <3>2
  <2>5. CASE ~EnoughVotes(p, v)
    BY <2>1, <2>2, <2>5, DoneOK
  <2> QED
    BY <2>4, <2>5
<1> QED
  BY <1>1, <1>2

(* An operation that found no row to adopt: nothing plays. *)
LEMMA NotAdoptedOK ==
    ASSUME NEW r, NEW lost, NEW q, PodOK(q, r, lost), q.at = "adopt",
           \A i \in Items : r[i].status # "playing"
    PROVE  PodOK(NotAdopted(q), r, lost)
<1>1. Core(q, r, lost) /\ q \in QueueStates
  BY CoreOf DEF PodOK
<1>2. q.then \in Thens \ {"bail"}
  BY DEF PodOK, Bookkeeping, QueueStates, Thens
<1>3. CASE q.then = "reconcile"
  <2> DEFINE n == Done(PlaysNothing(q))
  <2>1. Core(n, r, lost)
    BY <1>1, PlaysNothingCore, DoneOK
  <2>2. NotAdopted(q) = Goto(n, "advance", None)
    BY <1>3 DEF NotAdopted
  <2> HIDE DEF n
  <2> QED
    BY <2>1, <2>2, GotoOK
<1>4. CASE q.then = "periodic" /\ q.current # None
  <2>1. NotAdopted(q) = AdoptFor(q, "reconcile")
    BY <1>4 DEF NotAdopted, AdoptFor
  <2> QED
    BY <1>1, <2>1, GotoAdoptOK DEF Thens
<1>5. CASE q.then = "periodic" /\ q.current = None
  <2>1. NotAdopted(q) = IF Queued = {} THEN Done(q) ELSE Goto(Done(q), "advance", None)
    BY <1>5 DEF NotAdopted
  <2> QED
    BY <1>1, <2>1, DoneOK, GotoOK
<1>6. CASE q.then = "lostRace"
  <2>1. NotAdopted(q) = Done(ScheduleFallback(q))
    BY <1>6 DEF NotAdopted
  <2>2. q.current # None => r[q.current].status # "playing"
    BY <1>1 DEF QueueStates
  <2> QED
    BY <1>1, <2>1, <2>2, ScheduleFallbackCore, DoneOK
<1>7. CASE q.then = "retry"
  <2>1. NotAdopted(q) = Goto(Done(q), "advance", None)
    BY <1>7 DEF NotAdopted
  <2> QED
    BY <1>1, <2>1, DoneOK, GotoOK
<1>8. CASE q.then \in {"conflict", "skip", "vote"}
  <2>1. NotAdopted(q) = Done(q)
    BY <1>8 DEF NotAdopted
  <2> QED
    BY <1>1, <2>1, DoneOK
<1> QED
  BY <1>2, <1>3, <1>4, <1>5, <1>6, <1>7, <1>8 DEF Thens

(* An operation that has adopted the row that plays. *)
LEMMA SkipAts == "skip" \in Ats /\ "finish" \in Ats
  BY DEF Ats

LEMMA AdoptedOK ==
    ASSUME AudioInv, NEW p, NEW lost, NEW q, PodOK(q, rows, lost), q.at = "adopt",
           NEW i \in Items, rows[i].status = "playing"
    PROVE  PodOK(Adopted(p, AdoptItem(q, i)), rows, lost)
<1> DEFINE n == AdoptItem(q, i)
<1>1. Core(q, rows, lost)
  BY CoreOf
<1>2. Core(n, rows, lost) /\ SameControl(n, q) /\ n.current = i
  BY <1>1, AdoptCore
<1>3. n.current # None /\ n \in QueueStates
  BY <1>2, AudioAssumption DEF Core
<1> HIDE DEF n
<1>4. CASE n.then = "skip"
  <2>1. n.voter = None
    BY <1>2, <1>4 DEF SameControl, PodOK, Bookkeeping
  <2> DEFINE m == Goto(n, "skip", n.current)
  <2>2. m \in QueueStates /\ SameMemory(m, n) /\ m.at = "skip" /\ m.item = n.current
        /\ m.voter = None
    <3>1. n.current \in Items \cup {None}
      BY <1>2
    <3> QED
      BY <1>3, <2>1, <3>1, SkipAts, GotoFields
  <2>3. Adopted(p, n) = m
    BY <1>4 DEF Adopted
  <2> HIDE DEF m
  <2>4. PodOK(m, rows, lost)
    BY <1>2, <1>3, <2>2, GotoSkipOK
  <2> QED
    BY <2>3, <2>4 DEF n
<1>5. CASE n.then = "vote"
  <2>1. n.voter \in Users
    BY <1>2, <1>5 DEF SameControl, PodOK, Bookkeeping
  <2>2. PodOK(CountVote(p, n, n.voter), rows, lost)
    BY <1>2, <1>3, <2>1, CountVoteOK
  <2>3. Adopted(p, n) = CountVote(p, n, n.voter)
    BY <1>5 DEF Adopted
  <2> QED
    BY <2>2, <2>3 DEF n
<1>6. CASE n.then \notin {"skip", "vote"}
  <2>1. Adopted(p, n) = Done(n)
    BY <1>6 DEF Adopted
  <2>2. PodOK(Done(n), rows, lost)
    BY <1>2, DoneOK
  <2> QED
    BY <2>1, <2>2 DEF n
<1> QED
  BY <1>4, <1>5, <1>6

-------------------------------------------------------------------------------
LEMMA SetPod ==
    ASSUME AudioInv, NEW p \in Pods, NEW q, Set(p, q), PodOK(q, rows', finishLost')
    PROVE  PodMove(p)
<1>1. /\ pods' = [pods EXCEPT ![p] = q] /\ pods \in [Pods -> QueueStates] /\ q \in QueueStates
  BY DEF Set, AudioInv, PodOK
<1> QED
  BY <1>1 DEF PodMove

(* The process that takes the mutex. *)
LEMMA IdleCore ==
    ASSUME AudioInv, NEW p \in Pods, pods[p].at = "idle"
    PROVE  /\ Core(pods[p], rows, finishLost) /\ pods[p] \in QueueStates
           /\ pods[p].voter = None
           /\ PodOK(pods[p], rows, finishLost)
<1>1. PodOK(pods[p], rows, finishLost)
  BY DEF AudioInv
<1> QED
  BY <1>1, CoreOf DEF PodOK, Bookkeeping

(* What holds of a process holds of it after its step has moved the rows. *)
LEMMA CoreMoves ==
    ASSUME NEW q, NEW lost, Core(q, rows, lost), RowsMove
    PROVE  Core(q, rows', lost)
<1>1. q.current # None => q.current \in Items
  BY DEF Core, QueueStates
<1> QED
  BY <1>1 DEF Core, RowsMove

LEMMA SubmitOK ==
    ASSUME AudioInv, NEW p \in Pods, NEW i \in Items, Submit(p, i)
    PROVE  PodMove(p) /\ RowsMove
<1> DEFINE q == CancelFallback(pods[p])
<1>1. RowsMove
  BY MarkMoves DEF Submit, Statuses
<1>2. Core(q, rows', finishLost) /\ SameControl(q, pods[p])
  BY <1>1, IdleCore, CancelFallbackCore, CoreMoves DEF Submit, Idle
<1>3. q.at = "idle" /\ q.voter = None
  BY <1>2, IdleCore DEF Submit, Idle, SameControl
<1>4. Set(p, IF q.current = None THEN Goto(q, "advance", None) ELSE q) /\ finishLost' = finishLost
  BY DEF Submit, Unchanged
<1> HIDE DEF q
<1>5. PodOK(q, rows', finishLost) /\ PodOK(Goto(q, "advance", None), rows', finishLost)
  BY <1>2, <1>3, IdleOK, GotoOK
<1> QED
  BY <1>1, <1>4, <1>5, SetPod

LEMMA FireOK ==
    ASSUME AudioInv, NEW p \in Pods, Fire(p) PROVE PodMove(p) /\ RowsMove
<1>1. PICK i \in {pods[p].timer} \ {None} :
         LET q == [pods[p] EXCEPT !.timer = None]
         IN  Set(p, IF q.current = i THEN Goto(q, "finish", i) ELSE q)
  BY DEF Fire
<1>2. RowsMove /\ rows' = rows /\ finishLost' = finishLost
  BY RowsStay DEF Fire, db, Unchanged
<1>3. Core(pods[p], rows, finishLost) /\ pods[p].at = "idle" /\ pods[p].voter = None
  BY IdleCore DEF Fire, Idle
<1> DEFINE q == [pods[p] EXCEPT !.timer = None]
<1>4. /\ q \in QueueStates /\ q.current = pods[p].current /\ q.votes = pods[p].votes
      /\ q.handle = pods[p].handle /\ q.mode = pods[p].mode /\ q.fallback = pods[p].fallback
      /\ q.timer = None /\ q.at = "idle" /\ q.voter = None
  BY <1>3 DEF Core, QueueStates
<1>5. i \in Items /\ i = pods[p].handle /\ i # None
  BY <1>3 DEF Core, QueueStates
<1> HIDE DEF q
<1>6. CASE q.current = i
  <2> DEFINE n == Goto(q, "finish", i)
  <2>1. /\ n \in QueueStates /\ SameMemory(n, q) /\ n.at = "finish" /\ n.item = i
    BY <1>4, <1>5, SkipAts, GotoFields
  <2> HIDE DEF n
  <2>2. PodOK(n, rows, finishLost)
    BY <1>3, <1>4, <1>5, <1>6, <2>1 DEF Core, SameMemory, PodOK, Bookkeeping, Voted, Timed
  <2>3. Set(p, n)
    BY <1>1, <1>6 DEF q, n
  <2> QED
    BY <1>2, <2>2, <2>3, SetPod
<1>7. CASE q.current # i
  <2>1. Core(q, rows, finishLost)
    BY <1>3, <1>4, <1>5, <1>7 DEF Core
  <2>2. Set(p, q)
    BY <1>1, <1>7 DEF q
  <2> QED
    BY <1>2, <1>4, <2>1, <2>2, IdleOK, SetPod
<1> QED
  BY <1>6, <1>7

LEMMA StaffOK ==
    ASSUME AudioInv, NEW p \in Pods, ForceSkip(p) \/ SetFallback(p) \/ PeriodicReconcile(p)
    PROVE  PodMove(p) /\ RowsMove
<1> DEFINE q == pods[p]
<1>1. RowsMove /\ rows' = rows /\ finishLost' = finishLost
  BY RowsStay DEF ForceSkip, SetFallback, PeriodicReconcile, db, Unchanged
<1>2. Core(q, rows, finishLost) /\ q.voter = None /\ PodOK(q, rows, finishLost)
  BY IdleCore DEF ForceSkip, SetFallback, PeriodicReconcile, Idle
<1>3. CASE ForceSkip(p)
  <2>1. Set(p, IF q.current = None THEN AdoptFor(q, "skip") ELSE Goto(q, "skip", q.current))
    BY <1>3 DEF ForceSkip, AdoptFor
  <2> HIDE DEF q
  <2>2. PodOK(AdoptFor(q, "skip"), rows, finishLost)
    BY <1>2, GotoAdoptOK DEF Thens
  <2>3. ASSUME q.current # None PROVE PodOK(Goto(q, "skip", q.current), rows, finishLost)
    <3> DEFINE m == Goto(q, "skip", q.current)
    <3>1. q \in QueueStates /\ q.current \in Items \cup {None}
      BY <1>2 DEF Core, QueueStates
    <3>2. m \in QueueStates /\ SameMemory(m, q) /\ m.at = "skip" /\ m.item = q.current
          /\ m.voter = None
      BY <1>2, <3>1, SkipAts, GotoFields
    <3> HIDE DEF m
    <3>3. PodOK(m, rows, finishLost)
      BY <1>2, <2>3, <3>2, GotoSkipOK
    <3> QED
      BY <3>3 DEF m
  <2> QED
    BY <1>1, <2>1, <2>2, <2>3, SetPod
<1>4. CASE SetFallback(p)
  <2>1. Set(p, IF q.current = None THEN Goto(q, "trusted", None) ELSE q)
    BY <1>4 DEF SetFallback
  <2> HIDE DEF q
  <2>2. q.current = None => PodOK(Goto(q, "trusted", None), rows, finishLost)
    BY <1>2, GotoOK
  <2> QED
    BY <1>1, <1>2, <2>1, <2>2, SetPod
<1>5. CASE PeriodicReconcile(p)
  <2>1. Set(p, AdoptFor(q, "periodic"))
    BY <1>5 DEF PeriodicReconcile, AdoptFor
  <2> HIDE DEF q
  <2>2. PodOK(AdoptFor(q, "periodic"), rows, finishLost)
    BY <1>2, GotoAdoptOK DEF Thens
  <2> QED
    BY <1>1, <2>1, <2>2, SetPod
<1> QED
  BY <1>3, <1>4, <1>5

(* Without a current item, the mode and the timer are free. *)
LEMMA FreeCore ==
    ASSUME NEW r, NEW lost, NEW q \in QueueStates, q.current = None, q.votes = {},
           q.timer \in {None, q.handle}
    PROVE  Core(q, r, lost)
  BY DEF Core

LEMMA FallbackDueOK ==
    ASSUME AudioInv, NEW p \in Pods, FallbackDue(p) PROVE PodMove(p) /\ RowsMove
<1> DEFINE q == CancelFallback(pods[p])
<1>1. RowsMove /\ rows' = rows /\ finishLost' = finishLost
  BY RowsStay DEF FallbackDue, db
<1>2. Core(q, rows, finishLost) /\ SameControl(q, pods[p])
  BY IdleCore, CancelFallbackCore DEF FallbackDue, Idle
<1>3. q.at = "idle" /\ q.voter = None
  BY <1>2, IdleCore DEF FallbackDue, Idle, SameControl
<1>4. \/ q.current # None /\ Set(p, q)
      \/ /\ q.current = None
         /\ \/ \E mode \in {"Icecast", "Youtube"} : Set(p, [CancelPlayback(q) EXCEPT !.mode = mode])
            \/ Set(p, [q EXCEPT !.mode = "Icecast"])
  BY DEF FallbackDue
<1> HIDE DEF q
<1>5. CASE q.current # None /\ Set(p, q)
  BY <1>1, <1>2, <1>3, <1>5, IdleOK, SetPod
<1>6. q.current = None => q.votes = {}
  BY <1>2, AudioAssumption DEF Core, QueueStates
<1>7. ASSUME q.current = None, NEW mode \in {"Icecast", "Youtube"},
             NEW n, n \in {[CancelPlayback(q) EXCEPT !.mode = mode], [q EXCEPT !.mode = mode]}
      PROVE  PodOK(n, rows, finishLost)
  <2>1. q \in QueueStates /\ q.timer \in {None, q.handle}
    BY <1>2 DEF Core
  <2>2. /\ n \in QueueStates /\ n.current = None /\ n.votes = {} /\ n.timer \in {None, n.handle}
        /\ n.at = "idle" /\ n.voter = None
    <3>1. n = [CancelPlayback(q) EXCEPT !.mode = mode] \/ n = [q EXCEPT !.mode = mode]
      BY <1>7
    <3>2. CASE n = [CancelPlayback(q) EXCEPT !.mode = mode]
      BY <1>3, <1>6, <1>7, <2>1, <3>2 DEF CancelPlayback, QueueStates
    <3>3. CASE n = [q EXCEPT !.mode = mode]
      BY <1>3, <1>6, <1>7, <2>1, <3>3 DEF QueueStates
    <3> QED
      BY <3>1, <3>2, <3>3
  <2> QED
    BY <2>2, FreeCore, IdleOK
<1>8. CASE /\ q.current = None
           /\ \/ \E mode \in {"Icecast", "Youtube"} :
                     Set(p, [CancelPlayback(q) EXCEPT !.mode = mode])
              \/ Set(p, [q EXCEPT !.mode = "Icecast"])
  <2>1. PICK n : Set(p, n) /\ PodOK(n, rows, finishLost)
    BY <1>7, <1>8
  <2> QED
    BY <1>1, <2>1, SetPod
<1> QED
  BY <1>4, <1>5, <1>8

-------------------------------------------------------------------------------
(* Statements of an operation that holds the mutex. *)
LEMMA EndItemOK ==
    ASSUME AudioInv, NEW p \in Pods, pods[p].at \in {"finish", "skip"},
           NEW status \in {"gone", "skipped"}, EndItem(p, status)
    PROVE  PodMove(p) /\ RowsMove
<1> DEFINE q == pods[p]
<1>1. /\ PodOK(q, rows, finishLost) /\ q \in QueueStates
      /\ q.item = q.current /\ q.current \in Items
  BY DEF AudioInv, PodOK, Bookkeeping, QueueStates
<1>2. finishLost' = finishLost
  BY DEF EndItem, Unchanged
<1>3. CASE q.item \in Playing
  <2>1. Mark(q.item, status) /\ Set(p, Goto(Done(PlaysNothing(q)), "advance", None))
    BY <1>3 DEF EndItem
  <2>2. RowsMove
    BY <1>3, <2>1, PlayingEnds
  <2> HIDE DEF q
  <2>3. Core(PlaysNothing(q), rows', finishLost)
    BY <1>1, PlaysNothingCore
  <2>4. Core(Done(PlaysNothing(q)), rows', finishLost)
    BY <2>3, DoneOK
  <2>5. PodOK(Goto(Done(PlaysNothing(q)), "advance", None), rows', finishLost)
    BY <2>4, GotoOK
  <2> QED
    BY <1>2, <2>1, <2>2, <2>5, SetPod
<1>4. CASE q.item \notin Playing
  <2>1. rows' = rows /\ Set(p, AdoptFor(q, "reconcile"))
    BY <1>4 DEF EndItem, AdoptFor
  <2>2. RowsMove /\ rows[q.current].status # "playing"
    BY <1>1, <1>4, <2>1, RowsStay DEF Playing
  <2> HIDE DEF q
  <2>3. Core(q, rows, finishLost)
    BY <1>1, <2>2, CoreOf
  <2>4. PodOK(AdoptFor(q, "reconcile"), rows, finishLost)
    BY <2>3, GotoAdoptOK DEF Thens
  <2> QED
    BY <1>2, <2>1, <2>2, <2>4, SetPod
<1> QED
  BY <1>3, <1>4

LEMMA NonePlays == Playing = {} <=> \A i \in Items : rows[i].status # "playing"
  BY DEF Playing

(* The operation of a process that is not ending its item. *)
LEMMA BusyCore ==
    ASSUME AudioInv, NEW p \in Pods, pods[p].at # "finish"
    PROVE  /\ Core(pods[p], rows, finishLost) /\ pods[p] \in QueueStates
           /\ PodOK(pods[p], rows, finishLost)
<1>1. PodOK(pods[p], rows, finishLost)
  BY DEF AudioInv
<1> QED
  BY <1>1, CoreOf DEF PodOK

LEMMA AdoptCurrentOK ==
    ASSUME AudioInv, NEW p \in Pods, AdoptCurrent(p) PROVE PodMove(p) /\ RowsMove
<1> DEFINE q == pods[p]
<1>1. q.at = "adopt" /\ PodOK(q, rows, finishLost) /\ finishLost' = finishLost
  BY BusyCore DEF AdoptCurrent, At, Unchanged
<1>2. CASE Playing = {} /\ Set(p, NotAdopted(q)) /\ UNCHANGED rows
  <2>1. RowsMove /\ rows' = rows
    BY <1>2, RowsStay
  <2>2. \A i \in Items : rows[i].status # "playing"
    BY <1>2, NonePlays
  <2> HIDE DEF q
  <2>3. PodOK(NotAdopted(q), rows, finishLost)
    BY <1>1, <2>2, NotAdoptedOK
  <2> QED
    BY <1>1, <1>2, <2>1, <2>3, SetPod
<1>3. ASSUME NEW i \in Playing \cap Legacy, Mark(i, "gone"), Set(p, NotAdopted(q))
      PROVE  PodMove(p) /\ RowsMove
  <2>1. RowsMove /\ \A j \in Items : rows'[j].status # "playing"
    BY <1>3, PlayingEnds
  <2> HIDE DEF q
  <2>2. PodOK(q, rows', finishLost)
    BY <1>1, <2>1, OthersKept DEF AudioInv
  <2>3. PodOK(NotAdopted(q), rows', finishLost)
    BY <1>1, <2>1, <2>2, NotAdoptedOK
  <2> QED
    BY <1>1, <1>3, <2>1, <2>3, SetPod
<1>4. ASSUME NEW i \in Playing \ Legacy, Set(p, Adopted(p, AdoptItem(q, i))), UNCHANGED rows
      PROVE  PodMove(p) /\ RowsMove
  <2>1. RowsMove /\ rows' = rows /\ i \in Items /\ rows[i].status = "playing"
    BY <1>4, RowsStay DEF Playing
  <2> HIDE DEF q
  <2>2. PodOK(Adopted(p, AdoptItem(q, i)), rows, finishLost)
    BY <1>1, <2>1, AdoptedOK
  <2> QED
    BY <1>1, <1>4, <2>1, <2>2, SetPod
<1> QED
  BY <1>2, <1>3, <1>4 DEF AdoptCurrent

LEMMA AdoptOrAdvanceOK ==
    ASSUME AudioInv, NEW p \in Pods, AdoptOrAdvance(p) PROVE PodMove(p) /\ RowsMove
<1> DEFINE q == pods[p]
<1>1. /\ q.at = "advance" /\ PodOK(q, rows, finishLost) /\ finishLost' = finishLost
      /\ Core(q, rows, finishLost)
  BY BusyCore DEF AdoptOrAdvance, At, Unchanged
<1>2. CASE Set(p, Goto(q, "next", None)) /\ UNCHANGED rows
  <2>1. RowsMove /\ rows' = rows
    BY <1>2, RowsStay
  <2> HIDE DEF q
  <2>2. PodOK(Goto(q, "next", None), rows, finishLost)
    BY <1>1, GotoOK
  <2> QED
    BY <1>1, <1>2, <2>1, <2>2, SetPod
<1>3. ASSUME NEW i \in Playing \cap Legacy, Mark(i, "gone"), UNCHANGED pods
      PROVE  PodMove(p) /\ RowsMove
  <2>1. RowsMove
    BY <1>3, PlayingEnds
  <2>2. PodOK(q, rows', finishLost)
    BY <1>1, <2>1, OthersKept DEF AudioInv
  <2> QED
    BY <1>1, <1>3, <2>1, <2>2 DEF PodMove, AudioInv
<1>4. ASSUME NEW i \in Playing \ Legacy, Set(p, Done(AdoptItem(q, i))), UNCHANGED rows
      PROVE  PodMove(p) /\ RowsMove
  <2>1. RowsMove /\ rows' = rows /\ i \in Items /\ rows[i].status = "playing"
    BY <1>4, RowsStay DEF Playing
  <2> HIDE DEF q
  <2>2. PodOK(Done(AdoptItem(q, i)), rows, finishLost)
    BY <1>1, <2>1, AdoptCore, DoneOK
  <2> QED
    BY <1>1, <1>4, <2>1, <2>2, SetPod
<1> QED
  BY <1>2, <1>3, <1>4 DEF AdoptOrAdvance

LEMMA FirstQueuedOK ==
    ASSUME AudioInv, NEW p \in Pods, FirstQueued(p) PROVE PodMove(p) /\ RowsMove
<1> DEFINE q == pods[p]
<1>1. /\ Core(q, rows, finishLost) /\ q \in QueueStates
      /\ finishLost' = finishLost /\ rows' = rows /\ RowsMove
  BY BusyCore, RowsStay DEF FirstQueued, At, Unchanged, db
<1>2. CASE Set(p, Goto(PlaysNothing(q), "fallback", None))
  <2> HIDE DEF q
  <2>1. Core(PlaysNothing(q), rows, finishLost) /\ PlaysNothing(q).current = None
    BY <1>1, PlaysNothingCore
  <2>2. PodOK(Goto(PlaysNothing(q), "fallback", None), rows, finishLost)
    BY <2>1, GotoOK
  <2> QED
    BY <1>1, <1>2, <2>2, SetPod
<1>3. ASSUME NEW i \in Queued, Set(p, Goto(CancelFallback(q), "promote", i))
      PROVE  PodMove(p) /\ RowsMove
  <2> HIDE DEF q
  <2>1. Core(CancelFallback(q), rows, finishLost)
    BY <1>1, CancelFallbackCore
  <2>2. PodOK(Goto(CancelFallback(q), "promote", i), rows, finishLost)
    BY <2>1, GotoOK DEF Queued
  <2> QED
    BY <1>1, <1>3, <2>2, SetPod
<1> QED
  BY <1>2, <1>3 DEF FirstQueued

LEMMA MarkPlayingOK ==
    ASSUME AudioInv, NEW p \in Pods, MarkPlaying(p) PROVE PodMove(p) /\ RowsMove
<1> DEFINE q == pods[p]
<1>1. Core(q, rows, finishLost) /\ q \in QueueStates /\ finishLost' = finishLost
  BY BusyCore DEF MarkPlaying, At, Unchanged
<1>2. ASSUME NEW t \in {"lostRace", "conflict"}, Set(p, AdoptFor(q, t)), UNCHANGED rows
      PROVE  PodMove(p) /\ RowsMove
  <2>1. RowsMove /\ rows' = rows
    BY <1>2, RowsStay
  <2> HIDE DEF q
  <2>2. PodOK(AdoptFor(q, t), rows, finishLost)
    BY <1>1, GotoAdoptOK DEF Thens
  <2> QED
    BY <1>1, <1>2, <2>1, <2>2, SetPod
<1>3. ASSUME q.item \in Queued, Playing = {}, Mark(q.item, "playing"),
             Set(p, IF q.item \in Legacy THEN Goto(q, "reject", q.item)
                    ELSE Done(Plays(q, q.item)))
      PROVE  PodMove(p) /\ RowsMove
  <2>1. q.item \in Items /\ rows[q.item].status = "queued"
    BY <1>3 DEF Queued
  <2>2. RowsMove /\ rows'[q.item].status = "playing"
    BY <1>3, <2>1, MarkMoves DEF Statuses
  <2> HIDE DEF q
  <2>3. Core(q, rows', finishLost)
    BY <1>1, <2>2, CoreMoves
  <2>4. PodOK(Goto(q, "reject", q.item), rows', finishLost)
    BY <2>1, <2>3, GotoOK
  <2>5. Core(Plays(q, q.item), rows', finishLost)
    <3>1. (\A w \in q.votes : w[2] = q.current) /\ rows'[q.item].status \notin Waiting
      BY <1>1, <2>2 DEF Core, Waiting
    <3> QED
      BY <1>1, <2>1, <3>1, PlaysCore
  <2>6. PodOK(Done(Plays(q, q.item)), rows', finishLost)
    BY <2>5, DoneOK
  <2> QED
    BY <1>1, <1>3, <2>2, <2>4, <2>6, SetPod
<1> QED
  BY <1>2, <1>3 DEF MarkPlaying, AdoptFor

LEMMA RejectItemOK ==
    ASSUME AudioInv, NEW p \in Pods, RejectItem(p) PROVE PodMove(p) /\ RowsMove
<1> DEFINE q == pods[p]
<1>1. Core(q, rows, finishLost) /\ q \in QueueStates /\ finishLost' = finishLost
  BY BusyCore DEF RejectItem, At, Unchanged
<1>2. CASE q.item \in Playing /\ Mark(q.item, "gone") /\ Set(p, Goto(q, "advance", None))
  <2>1. RowsMove
    BY <1>2, PlayingEnds
  <2> HIDE DEF q
  <2>2. PodOK(Goto(q, "advance", None), rows', finishLost)
    BY <1>1, <2>1, CoreMoves, GotoOK
  <2> QED
    BY <1>1, <1>2, <2>1, <2>2, SetPod
<1>3. CASE Set(p, AdoptFor(q, "retry")) /\ UNCHANGED rows
  <2>1. RowsMove /\ rows' = rows
    BY <1>3, RowsStay
  <2> HIDE DEF q
  <2>2. PodOK(AdoptFor(q, "retry"), rows, finishLost)
    BY <1>1, GotoAdoptOK DEF Thens
  <2> QED
    BY <1>1, <1>3, <2>1, <2>2, SetPod
<1> QED
  BY <1>2, <1>3 DEF RejectItem, AdoptFor

LEMMA FallbackOK ==
    ASSUME AudioInv, NEW p \in Pods, PlayTrusted(p) \/ PublishFallback(p)
    PROVE  PodMove(p) /\ RowsMove
<1> DEFINE q == pods[p]
<1>1. /\ Core(q, rows, finishLost) /\ q \in QueueStates
      /\ finishLost' = finishLost /\ rows' = rows /\ RowsMove
  BY BusyCore, RowsStay DEF PlayTrusted, PublishFallback, At, Unchanged, db
<1>2. q.current = None
  BY BusyCore DEF PlayTrusted, PublishFallback, At, PodOK, Bookkeeping
<1>3. q.votes = {} /\ q.timer \in {None, q.handle}
  BY <1>1, <1>2, AudioAssumption DEF Core, QueueStates
<1>4. ASSUME NEW n, \/ n = q
                    \/ n = [CancelFallback(CancelPlayback(q)) EXCEPT !.mode = "Youtube"]
                    \/ n = [CancelFallback(q) EXCEPT !.mode = "Youtube"]
                    \/ n = ScheduleFallback(q)
      PROVE  PodOK(Done(n), rows, finishLost)
  <2> HIDE DEF q
  <2>1. n \in QueueStates /\ n.current = None /\ n.votes = {} /\ n.timer \in {None, n.handle}
    <3>1. CASE n = q
      BY <1>1, <1>2, <1>3, <3>1
    <3>2. CASE n = [CancelFallback(CancelPlayback(q)) EXCEPT !.mode = "Youtube"]
      BY <1>1, <1>2, <1>3, <3>2, ZenonT(30) DEF CancelFallback, CancelPlayback, QueueStates
    <3>3. CASE n = [CancelFallback(q) EXCEPT !.mode = "Youtube"]
      BY <1>1, <1>2, <1>3, <3>3 DEF CancelFallback, QueueStates
    <3>4. CASE n = ScheduleFallback(q)
      BY <1>1, <1>2, <1>3, <3>4, ZenonT(30) DEF ScheduleFallback, QueueStates
    <3> QED
      BY <1>4, <3>1, <3>2, <3>3, <3>4
  <2> QED
    BY <2>1, FreeCore, DoneOK
<1>5. PICK n : Set(p, Done(n)) /\ PodOK(Done(n), rows, finishLost)
  <2>1. CASE PlayTrusted(p)
    BY <1>4, <2>1 DEF PlayTrusted
  <2>2. CASE PublishFallback(p)
    BY <1>4, <2>2 DEF PublishFallback
  <2> QED
    BY <2>1, <2>2
<1> QED
  BY <1>1, <1>5, SetPod

-------------------------------------------------------------------------------
(* Failures, restarts and stops. *)
LEMMA FailOK ==
    ASSUME AudioInv, NEW p \in Pods, Fail(p)
    PROVE  PodMove(p) /\ RowsMove /\ finishLost' \in BOOLEAN /\ (finishLost => finishLost')
<1> DEFINE q == pods[p]
           n == [Done(q) EXCEPT !.resuming = FALSE]
<1>1. /\ rows' = rows /\ RowsMove /\ finishLost' \in BOOLEAN
      /\ finishLost => finishLost'
      /\ q.at = "finish" => finishLost'
      /\ Set(p, n) /\ PodOK(q, rows, finishLost) /\ q \in QueueStates
  BY RowsStay DEF Fail, db, At, AudioInv, PodOK
<1> HIDE DEF q
<1>2. Core(q, rows, finishLost')
  BY <1>1 DEF Core, PodOK, Bookkeeping, Timed
<1>3. /\ Done(q) \in QueueStates /\ SameMemory(Done(q), q) /\ Done(q).at = "idle"
      /\ Done(q).voter = None
  BY <1>1, DoneFields
<1>4. n \in QueueStates /\ SameMemory(n, Done(q)) /\ n.at = "idle" /\ n.voter = None
  BY <1>3 DEF QueueStates, SameMemory
<1> HIDE DEF n
<1>5. SameMemory(n, q)
  BY <1>3, <1>4 DEF SameMemory
<1>6. PodOK(n, rows, finishLost')
  BY <1>2, <1>4, <1>5, CoreSame, IdleOK
<1> QED
  BY <1>1, <1>6, SetPod

LEMMA StoppedOK ==
    ASSUME NEW r, NEW lost, NEW q, q \in {Stopped, [Stopped EXCEPT !.up = TRUE, !.resuming = TRUE]}
    PROVE  PodOK(q, r, lost)
<1>1. Stopped \in QueueStates
  <2>1. /\ None \in Items \cup {None} /\ None \in Users \cup {None}
        /\ {} \in SUBSET (Users \X Items)
    OBVIOUS
  <2> QED
    BY <2>1 DEF Stopped, QueueStates
<1>2. /\ Stopped.current = None /\ Stopped.votes = {} /\ Stopped.timer = None
      /\ Stopped.at = "idle" /\ Stopped.voter = None
  BY DEF Stopped
<1> DEFINE up == [Stopped EXCEPT !.up = TRUE, !.resuming = TRUE]
<1>3. /\ up \in QueueStates /\ up.current = None /\ up.votes = {} /\ up.timer = None
      /\ up.at = "idle" /\ up.voter = None
  BY <1>1, <1>2 DEF QueueStates
<1>4. q = Stopped \/ q = up
  OBVIOUS
<1> HIDE DEF up
<1>5. /\ q \in QueueStates /\ q.current = None /\ q.votes = {} /\ q.timer \in {None, q.handle}
      /\ q.at = "idle" /\ q.voter = None
  BY <1>1, <1>2, <1>3, <1>4
<1> QED
  BY <1>5, FreeCore, IdleOK

LEMMA StartOK ==
    ASSUME AudioInv, NEW p \in Pods, Start(p) \/ Stop(p) PROVE PodMove(p) /\ RowsMove
<1>1. RowsMove
  <2>1. CASE UNCHANGED rows
    BY <2>1, RowsStay
  <2>2. ASSUME NEW i \in Playing, Mark(i, "gone") PROVE RowsMove
    BY <2>2, PlayingEnds
  <2> QED
    BY <2>1, <2>2 DEF Start, Stop, db
<1>2. PICK q \in {Stopped, [Stopped EXCEPT !.up = TRUE, !.resuming = TRUE]} : Set(p, q)
  BY DEF Start, Stop
<1>3. PodOK(q, rows', finishLost')
  BY StoppedOK
<1> QED
  BY <1>1, <1>2, <1>3, SetPod

LEMMA ResumeOK ==
    ASSUME AudioInv, NEW p \in Pods, ResumeFromDb(p) PROVE PodMove(p) /\ RowsMove
<1> DEFINE q == [pods[p] EXCEPT !.resuming = FALSE]
<1>1. Core(pods[p], rows, finishLost) /\ pods[p] \in QueueStates /\ finishLost' = finishLost
  BY IdleCore DEF ResumeFromDb, Idle, Unchanged
<1>2. Core(q, rows, finishLost) /\ q \in QueueStates
  <2>1. q \in QueueStates /\ SameMemory(q, pods[p])
    BY <1>1 DEF QueueStates, SameMemory
  <2> HIDE DEF q
  <2> QED
    BY <1>1, <2>1, CoreSame
<1>3. CASE Set(p, Goto(q, "advance", None)) /\ UNCHANGED rows
  <2>1. RowsMove /\ rows' = rows
    BY <1>3, RowsStay
  <2> HIDE DEF q
  <2>2. PodOK(Goto(q, "advance", None), rows, finishLost)
    BY <1>2, GotoOK
  <2> QED
    BY <1>1, <1>3, <2>1, <2>2, SetPod
<1>4. ASSUME NEW i \in Playing, Mark(i, "gone"), Set(p, Goto(q, "advance", None))
      PROVE  PodMove(p) /\ RowsMove
  <2>1. RowsMove
    BY <1>4, PlayingEnds
  <2> HIDE DEF q
  <2>2. PodOK(Goto(q, "advance", None), rows', finishLost)
    BY <1>2, <2>1, CoreMoves, GotoOK
  <2> QED
    BY <1>1, <1>4, <2>1, <2>2, SetPod
<1>5. ASSUME NEW i \in Playing, Set(p, Resumes(q, i)), UNCHANGED rows
      PROVE  PodMove(p) /\ RowsMove
  <2> DEFINE n == Resumes(q, i)
  <2>1. RowsMove /\ rows' = rows /\ i \in Items /\ rows[i].status \notin Waiting
    BY <1>5, RowsStay DEF Playing, Waiting
  <2>2. q.at = "idle" /\ q.voter = None
    BY <1>1, IdleCore DEF ResumeFromDb, Idle, QueueStates
  <2>3. Set(p, n)
    BY <1>5
  <2> HIDE DEF q
  <2>4. Core(n, rows, finishLost) /\ SameControl(n, q)
    BY <1>2, <2>1, ResumesCore
  <2> HIDE DEF n
  <2>5. PodOK(n, rows, finishLost)
    BY <2>2, <2>4, IdleOK DEF SameControl
  <2> QED
    BY <1>1, <2>1, <2>3, <2>5, SetPod
<1> QED
  BY <1>3, <1>4, <1>5 DEF ResumeFromDb

-------------------------------------------------------------------------------
(* Users, whose votes the process counts. *)
LEMMA CastSkipVoteOK ==
    ASSUME AudioInv, NEW u \in Users, CastSkipVote(u)
    PROVE  PodMove(PodOf[u]) /\ RowsMove
<1>1. PICK p \in Pods : p = PodOf[u]
  BY AudioAssumption
<1> DEFINE q == pods[p]
<1>2. /\ rows' = rows /\ RowsMove /\ finishLost' = finishLost
      /\ Core(q, rows, finishLost) /\ q.voter = None
  BY <1>1, RowsStay, IdleCore DEF CastSkipVote, db, Unchanged, Idle
<1>3. CASE q.current = None
  <2> DEFINE n == [Goto(q, "adopt", None) EXCEPT !.then = "vote", !.voter = u]
  <2>1. q \in QueueStates
    BY <1>2 DEF Core
  <2>2. Set(p, n)
    BY <1>1, <1>3 DEF CastSkipVote
  <2> HIDE DEF q
  <2>3. n \in QueueStates /\ SameMemory(n, q) /\ n.at = "adopt" /\ n.then = "vote" /\ n.voter = u
    <3>1. n \in QueueStates
      BY <2>1, ZenonT(30) DEF Goto, QueueStates
    <3> QED
      BY <2>1, <3>1 DEF Goto, QueueStates, SameMemory
  <2> HIDE DEF n
  <2>4. Core(n, rows, finishLost)
    BY <1>2, <2>3, CoreSame
  <2>5. Voted(n, rows)
    BY <2>3 DEF Voted
  <2>6. PodOK(n, rows, finishLost)
    BY <2>3, <2>4, <2>5, CorePod
  <2> QED
    BY <1>1, <1>2, <2>2, <2>6, SetPod
<1>4. CASE q.current # None
  <2>1. Set(p, CountVote(p, q, u))
    BY <1>1, <1>4 DEF CastSkipVote
  <2> HIDE DEF q
  <2>2. PodOK(CountVote(p, q, u), rows, finishLost)
    BY <1>2, <1>4, CountVoteOK
  <2> QED
    BY <1>1, <1>2, <2>1, <2>2, SetPod
<1> QED
  BY <1>3, <1>4

LEMMA DropVoteOK ==
    ASSUME AudioInv, NEW u \in Users, DropVote(u)
    PROVE  PodMove(PodOf[u]) /\ RowsMove
<1>1. PICK p \in Pods : p = PodOf[u]
  BY AudioAssumption
<1> DEFINE q == pods[p]
           n == [q EXCEPT !.votes = @ \ {w \in q.votes : w[1] = u}]
<1>2. /\ rows' = rows /\ RowsMove /\ finishLost' = finishLost
      /\ Core(q, rows, finishLost) /\ q.at = "idle" /\ q.voter = None
  BY <1>1, RowsStay, IdleCore DEF DropVote, db, Unchanged, Idle
<1>3. Set(p, n)
  BY <1>1 DEF DropVote
<1> HIDE DEF q
<1>4. q \in QueueStates
  BY <1>2 DEF Core
<1>5. n \in QueueStates
  <2> DEFINE v == q.votes \ {w \in q.votes : w[1] = u}
  <2>1. v \in SUBSET (Users \X Items)
    BY <1>4 DEF QueueStates
  <2>2. n = [q EXCEPT !.votes = v]
    OBVIOUS
  <2> HIDE DEF v, n
  <2> QED
    BY <1>4, <2>1, <2>2 DEF QueueStates
<1>6. /\ n.current = q.current /\ n.mode = q.mode /\ n.handle = q.handle
      /\ n.timer = q.timer /\ n.fallback = q.fallback /\ n.at = "idle" /\ n.voter = None
      /\ \A w \in n.votes : w \in q.votes
  BY <1>2, <1>4 DEF QueueStates
<1> HIDE DEF n
<1>7. Core(n, rows, finishLost)
  BY <1>2, <1>5, <1>6 DEF Core
<1> QED
  BY <1>1, <1>2, <1>3, <1>6, <1>7, IdleOK, SetPod

LEMMA ReevaluateOK ==
    ASSUME AudioInv, NEW u \in Users, ReevaluateSkipThreshold(u)
    PROVE  PodMove(PodOf[u]) /\ RowsMove
<1>1. PICK p \in Pods : p = PodOf[u]
  BY AudioAssumption
<1> DEFINE q == pods[p]
           n == SkipByVotes(p, q, u)
<1>2. /\ rows' = rows /\ RowsMove /\ finishLost' = finishLost
      /\ Core(q, rows, finishLost) /\ q \in QueueStates /\ PodOK(q, rows, finishLost)
  BY <1>1, RowsStay, IdleCore DEF ReevaluateSkipThreshold, db, Unchanged, Idle
<1>3. \/ /\ q.current # None /\ EnoughVotes(p, q) /\ ~rows[q.current].locked /\ Set(p, n)
      \/ Set(p, q)
  BY <1>1 DEF ReevaluateSkipThreshold
<1> HIDE DEF q
<1>5. CASE q.current # None /\ EnoughVotes(p, q) /\ ~rows[q.current].locked /\ Set(p, n)
  <2>2. PodOK(n, rows, finishLost)
    BY <1>2, <1>5, SkipByVotesOK
  <2> QED
    BY <1>1, <1>2, <1>5, <2>2, SetPod
<1>6. CASE Set(p, q)
  BY <1>1, <1>2, <1>6, SetPod
<1> QED
  BY <1>3, <1>5, <1>6

(* What happens to the rows besides. *)
LEMMA ItemStepOK ==
    ASSUME AudioInv, ItemEnds \/ \E i \in Items : DeleteQueueItem(i) \/ ToggleUnskippable(i)
    PROVE  RowsMove
<1>1. ASSUME NEW i \in Items, DeleteQueueItem(i) PROVE RowsMove
  BY <1>1, MarkMoves DEF DeleteQueueItem, Statuses
<1>2. ASSUME NEW i \in Items, rows[i].status = "queued",
             rows' = [rows EXCEPT ![i].locked = ~@]
      PROVE  RowsMove
  <2>1. rows[i] \in Row /\ rows \in [Items -> Row]
    BY DEF AudioInv
  <2>2. /\ rows'[i] = [rows[i] EXCEPT !.locked = ~rows[i].locked]
        /\ \A j \in Items : j # i => rows'[j] = rows[j]
    BY <1>2, <2>1
  <2>3. rows'[i] \in Row /\ rows'[i].status = "queued"
    BY <1>2, <2>1, <2>2 DEF Row
  <2>4. rows' \in [Items -> Row]
    BY <1>2, <2>1, <2>2, <2>3
  <2>5. OnePlays(rows')
    BY <2>2, <2>3, ZenonT(30) DEF AudioInv, OnePlays
  <2>6. rows[i].status \in Waiting
    BY <1>2 DEF Waiting
  <2> QED
    BY <2>2, <2>4, <2>5, <2>6 DEF RowsMove
<1>3. ASSUME NEW i \in Items, rows' = [rows EXCEPT ![i].over = TRUE] PROVE RowsMove
  <2>1. rows[i] \in Row /\ rows \in [Items -> Row]
    BY DEF AudioInv
  <2>2. /\ rows'[i] = [rows[i] EXCEPT !.over = TRUE]
        /\ \A j \in Items : j # i => rows'[j] = rows[j]
    BY <1>3, <2>1
  <2>3. /\ rows'[i] \in Row /\ rows'[i].status = rows[i].status
        /\ rows'[i].locked = rows[i].locked
    BY <2>1, <2>2 DEF Row
  <2>4. rows' \in [Items -> Row]
    BY <1>3, <2>1, <2>2, <2>3
  <2>5. \A j \in Items : rows'[j].status = rows[j].status /\ rows'[j].locked = rows[j].locked
    BY <2>2, <2>3
  <2> QED
    BY <2>4, <2>5 DEF AudioInv, OnePlays, RowsMove
<1> QED
  BY <1>1, <1>2, <1>3 DEF ToggleUnskippable, ItemEnds, Playing

-------------------------------------------------------------------------------
THEOREM InitAudioInv == Init => AudioInv
<1> SUFFICES ASSUME Init PROVE AudioInv
  OBVIOUS
<1>1. rows \in [Items -> Row]
  BY DEF Init, Row, Statuses
<1>2. OnePlays(rows)
  <2> DEFINE P == {i \in Items : rows[i].status = "playing"}
  <2>1. P \subseteq Items /\ Cardinality(P) <= 1
    BY DEF Init
  <2>2. OnePlays(rows) <=> \A i, j \in P : i = j
    BY DEF OnePlays
  <2> HIDE DEF P
  <2>3. IsFiniteSet(P) /\ Cardinality(P) \in Nat
    BY <2>1, AudioAssumption, FS_Subset, FS_CardinalityType
  <2>4. ASSUME NEW i \in P, NEW j \in P, i # j PROVE FALSE
    <3>1. IsFiniteSet(P \ {i}) /\ Cardinality(P \ {i}) = Cardinality(P) - 1
      BY <2>3, FS_RemoveElement
    <3>2. Cardinality(P \ {i}) = 0
      BY <2>1, <2>3, <3>1, FS_CardinalityType
    <3>3. P \ {i} = {}
      BY <3>1, <3>2, FS_EmptySet
    <3> QED
      BY <2>4, <3>3
  <2> QED
    BY <2>2, <2>4
<1>3. \A p \in Pods : pods[p] = Stopped /\ PodOK(pods[p], rows, finishLost)
  BY StoppedOK DEF Init
<1>4. pods \in [Pods -> QueueStates]
  BY <1>3 DEF Init, PodOK
<1>5. bounds \in Instance
  BY AudioAssumption DEF Init
<1> QED
  BY <1>1, <1>2, <1>3, <1>4, <1>5 DEF AudioInv, Init

(* What a step leaves of the users and of the bounds. *)
LEMMA OthersTyped ==
    ASSUME AudioInv, [Next]_vars
    PROVE  /\ source' \in BOOLEAN
           /\ listeners' \subseteq Users /\ asking' \subseteq Users
           /\ switching' \subseteq Users \X {"drop", "reevaluate"}
           /\ bounds' \in Instance
<1>1. source \in BOOLEAN /\ bounds \in Instance
  BY DEF AudioInv
<1>2. /\ listeners \subseteq Users /\ asking \subseteq Users
      /\ switching \subseteq Users \X {"drop", "reevaluate"}
  BY DEF AudioInv
<1>3. SpendFault => bounds' \in Instance
  BY <1>1 DEF SpendFault, Instance
<1>4. ASSUME NEW p \in Pods, PodStep(p)
      PROVE  /\ source' \in BOOLEAN /\ bounds' \in Instance
             /\ listeners' \subseteq listeners /\ asking' \subseteq asking
             /\ switching' \subseteq switching
  <2>1. CASE \/ \E i \in Items : Submit(p, i)
             \/ Fire(p) \/ ForceSkip(p) \/ SetFallback(p) \/ PeriodicReconcile(p)
    BY <1>1, <2>1 DEF Submit, Fire, ForceSkip, SetFallback, PeriodicReconcile, Unchanged, db, users
  <2>2. CASE FallbackDue(p) \/ Fail(p) \/ Start(p) \/ ResumeFromDb(p) \/ Stop(p)
    BY <1>1, <1>3, <2>2 DEF FallbackDue, Fail, Start, ResumeFromDb, Stop, Unchanged, db, users
  <2>3. CASE Statement(p)
    BY <1>1, <2>3 DEF Statement, FinishItem, SkipItem, EndItem, AdoptCurrent, AdoptOrAdvance,
       FirstQueued, MarkPlaying, RejectItem, PublishFallback, PlayTrusted, Unchanged, db, users
  <2> QED
    BY <1>4, <2>1, <2>2, <2>3 DEF PodStep
<1>5. ASSUME NEW u \in Users, UserStep(u)
      PROVE  /\ source' = source /\ bounds' = bounds
             /\ listeners' \subseteq Users /\ asking' \subseteq Users
             /\ switching' \subseteq Users \X {"drop", "reevaluate"}
  BY <1>2, <1>5 DEF UserStep, AskVote, CastSkipVote, SwitchAway, DropVote, ReevaluateSkipThreshold,
     Arrive, GoOffline, Unchanged, db
<1>6. CASE \/ \E i \in Items : DeleteQueueItem(i) \/ ToggleUnskippable(i)
           \/ ItemEnds \/ UNCHANGED vars
  BY <1>1, <1>2, <1>6 DEF DeleteQueueItem, ToggleUnskippable, ItemEnds, Unchanged, vars, db, users
<1> QED
  BY <1>1, <1>2, <1>4, <1>5, <1>6 DEF Next

(* A step moves the rows, and is of one process or of none. *)
LEMMA EveryStep ==
    ASSUME AudioInv, [Next]_vars
    PROVE  /\ RowsMove
           /\ UNCHANGED pods \/ \E p \in Pods : PodMove(p)
           /\ finishLost' \in BOOLEAN /\ (finishLost => finishLost')
<1>1. finishLost \in BOOLEAN
  BY DEF AudioInv
<1>2. ASSUME NEW p \in Pods, PodStep(p), ~Fail(p)
      PROVE  PodMove(p) /\ RowsMove /\ finishLost' = finishLost
  <2>1. PodMove(p) /\ RowsMove
    <3>1. CASE Statement(p)
      BY <3>1, EndItemOK, AdoptCurrentOK, AdoptOrAdvanceOK, FirstQueuedOK, MarkPlayingOK,
         RejectItemOK, FallbackOK DEF Statement, FinishItem, SkipItem, At
    <3> QED
      BY <1>2, <3>1, SubmitOK, FireOK, StaffOK, FallbackDueOK, StartOK, ResumeOK DEF PodStep
  <2>2. CASE Statement(p)
    BY <2>1, <2>2 DEF Statement, FinishItem, SkipItem, EndItem, AdoptCurrent, AdoptOrAdvance,
       FirstQueued, MarkPlaying, RejectItem, PublishFallback, PlayTrusted, Unchanged
  <2>3. CASE ~Statement(p)
    BY <1>2, <2>1, <2>3 DEF PodStep, Submit, Fire, ForceSkip, SetFallback, PeriodicReconcile,
       FallbackDue, Start, ResumeFromDb, Stop, Unchanged
  <2> QED
    BY <2>2, <2>3
<1>3. ASSUME NEW u \in Users, UserStep(u)
      PROVE  /\ RowsMove /\ finishLost' = finishLost
             /\ UNCHANGED pods \/ PodMove(PodOf[u])
  <2>1. CASE CastSkipVote(u) \/ DropVote(u) \/ ReevaluateSkipThreshold(u)
    BY <2>1, CastSkipVoteOK, DropVoteOK, ReevaluateOK
       DEF CastSkipVote, DropVote, ReevaluateSkipThreshold, Unchanged
  <2>2. CASE AskVote(u) \/ SwitchAway(u) \/ Arrive(u) \/ GoOffline(u)
    BY <2>2, RowsStay DEF AskVote, SwitchAway, Arrive, GoOffline, Unchanged, db
  <2> QED
    BY <1>3, <2>1, <2>2 DEF UserStep
<1>4. CASE ItemEnds \/ \E i \in Items : DeleteQueueItem(i) \/ ToggleUnskippable(i)
  BY <1>1, <1>4, ItemStepOK DEF ItemEnds, DeleteQueueItem, ToggleUnskippable, Unchanged
<1>5. CASE UNCHANGED vars
  BY <1>1, <1>5, RowsStay DEF vars, db
<1>6. \A u \in Users : PodOf[u] \in Pods
  BY AudioAssumption
<1> QED
  BY <1>1, <1>2, <1>3, <1>4, <1>5, <1>6, FailOK DEF Next

THEOREM NextAudioInv == AudioInv /\ [Next]_vars => AudioInv'
<1> SUFFICES ASSUME AudioInv, [Next]_vars PROVE AudioInv'
  OBVIOUS
<1>1. /\ RowsMove /\ finishLost' \in BOOLEAN /\ (finishLost => finishLost')
      /\ UNCHANGED pods \/ \E p \in Pods : PodMove(p)
  BY EveryStep
<1>2. \A p \in Pods : PodOK(pods'[p], rows', finishLost')
  <2>1. CASE UNCHANGED pods
    <3>1. \A p \in Pods : PodOK(pods[p], rows, finishLost) /\ finishLost \in BOOLEAN
      BY DEF AudioInv
    <3> QED
      BY <1>1, <2>1, <3>1, OthersKept
  <2>2. ASSUME NEW p \in Pods, PodMove(p) PROVE \A o \in Pods : PodOK(pods'[o], rows', finishLost')
    BY <1>1, <2>2, PodsKept
  <2> QED
    BY <1>1, <2>1, <2>2
<1>3. pods' \in [Pods -> QueueStates]
  BY <1>1 DEF AudioInv, PodMove
<1>4. /\ source' \in BOOLEAN
      /\ listeners' \subseteq Users /\ asking' \subseteq Users
      /\ switching' \subseteq Users \X {"drop", "reevaluate"}
      /\ bounds' \in Instance
  BY OthersTyped
<1> QED
  BY <1>1, <1>2, <1>3, <1>4 DEF AudioInv, RowsMove

(***************************************************************************)
(* What every process remembers of the item it has current stays right,    *)
(* whatever the others do to the rows between its statements.              *)
(***************************************************************************)
THEOREM AudioInvariance == Spec => []AudioInv
  BY InitAudioInv, NextAudioInv, PTL DEF Spec

(***************************************************************************)
(* The queue keeps its types, and never plays two items, however many      *)
(* processes advance it.                                                   *)
(***************************************************************************)
THEOREM TypeCorrect == Spec => []TypeOK
<1>1. ASSUME AudioInv PROVE TypeOK
  <2>1. Cardinality(Playing) <= 1
    <3>1. CASE Playing = {}
      BY <3>1, FS_EmptySet
    <3>2. ASSUME NEW i \in Playing PROVE Cardinality(Playing) <= 1
      <4>1. Playing = {i}
        BY <1>1, <3>2 DEF AudioInv, OnePlays, Playing
      <4>2. Cardinality({i}) = 1
        BY FS_Singleton
      <4> QED
        BY <4>1, <4>2
    <3> QED
      BY <3>1, <3>2
  <2> QED
    BY <1>1, <2>1 DEF AudioInv, TypeOK, Row
<1> QED
  BY <1>1, AudioInvariance, PTL

(***************************************************************************)
(* Whoever made the playing item current, the process has its timer and no *)
(* other, unless the statement of that timer has failed.                   *)
(***************************************************************************)
THEOREM CurrentTimed == Spec => []CurrentIsTimed
<1>1. ASSUME AudioInv PROVE CurrentIsTimed
  <2> SUFFICES ASSUME NEW p \in Pods
               PROVE  /\ pods[p].timer \in {None, pods[p].handle}
                      /\ Idle(p) /\ pods[p].current \in Playing =>
                            /\ pods[p].handle = pods[p].current /\ pods[p].mode = "Youtube"
                            /\ finishLost \/ pods[p].timer = pods[p].current
    BY DEF CurrentIsTimed
  <2>1. PodOK(pods[p], rows, finishLost)
    BY <1>1 DEF AudioInv
  <2> QED
    BY <2>1, AudioAssumption DEF PodOK, Bookkeeping, Timed, Idle, Playing
<1> QED
  BY <1>1, AudioInvariance, PTL

(* Only the statement of a skip marks an item as skipped. *)
LEMMA SkipsAre ==
    ASSUME AudioInv, [Next]_vars, NEW i \in Playing, rows'[i].status = "skipped"
    PROVE  \E p \in Pods : SkipItem(p) /\ pods[p].item = i
<1>1. /\ rows \in [Items -> Row] /\ i \in Items /\ rows[i].status = "playing"
      /\ rows[i] \in Row
  BY DEF AudioInv, Playing
<1>2. ASSUME UNCHANGED rows PROVE FALSE
  BY <1>1, <1>2
<1>3. ASSUME NEW j \in Items, NEW status \in {"queued", "playing", "gone"}, Mark(j, status)
      PROVE  FALSE
  <2>1. rows' = [rows EXCEPT ![j] = [rows[j] EXCEPT !.status = status, !.over = FALSE]]
    BY <1>3 DEF Mark
  <2>2. rows'[i] = rows[i] \/ (i = j /\ rows'[i] = [rows[i] EXCEPT !.status = status, !.over = FALSE])
    BY <1>1, <2>1
  <2>3. rows'[i].status \in {"playing", status}
    BY <1>1, <2>2 DEF Row
  <2> QED
    BY <2>3
<1>4. ASSUME NEW p \in Pods, FinishItem(p) \/ SkipItem(p)
      PROVE  SkipItem(p) /\ pods[p].item = i
  <2>1. CASE UNCHANGED rows
    BY <1>2, <2>1
  <2>2. CASE FinishItem(p) /\ Mark(pods[p].item, "gone") /\ pods[p].item \in Items
    BY <1>3, <2>2
  <2>3. CASE SkipItem(p) /\ Mark(pods[p].item, "skipped") /\ pods[p].item \in Items
    <3>1. pods[p].item # i => rows'[i] = rows[i]
      BY <1>1, <2>3 DEF Mark
    <3> QED
      BY <1>1, <2>3, <3>1
  <2> QED
    BY <1>4, <2>1, <2>2, <2>3 DEF FinishItem, SkipItem, EndItem, Playing
<1>5. ASSUME NEW p \in Pods, PodStep(p), ~FinishItem(p), ~SkipItem(p) PROVE FALSE
  <2>1. CASE Statement(p)
    <3>1. ~UNCHANGED rows => \E j \in Items, status \in {"queued", "playing", "gone"} : Mark(j, status)
      BY <1>5, <2>1 DEF Statement, AdoptCurrent, AdoptOrAdvance, FirstQueued, MarkPlaying,
         RejectItem, PublishFallback, PlayTrusted, Playing, Queued, db
    <3> QED
      BY <1>2, <1>3, <3>1
  <2>2. CASE ~Statement(p)
    <3>1. ~UNCHANGED rows => \E j \in Items, status \in {"queued", "playing", "gone"} : Mark(j, status)
      BY <1>5, <2>2 DEF PodStep, Submit, Fire, ForceSkip, SetFallback, PeriodicReconcile,
         FallbackDue, Fail, Start, ResumeFromDb, Stop, Playing, db
    <3> QED
      BY <1>2, <1>3, <3>1
  <2> QED
    BY <2>1, <2>2
<1>6. ASSUME NEW u \in Users, UserStep(u) PROVE FALSE
  BY <1>2, <1>6 DEF UserStep, AskVote, CastSkipVote, SwitchAway, DropVote, ReevaluateSkipThreshold,
     Arrive, GoOffline, db
<1>7. ASSUME NEW j \in Items, DeleteQueueItem(j) PROVE FALSE
  BY <1>3, <1>7 DEF DeleteQueueItem
<1>8. ASSUME NEW j \in Items, ToggleUnskippable(j) PROVE FALSE
  <2>1. rows' = [rows EXCEPT ![j].locked = ~@] /\ rows[j].status = "queued"
    BY <1>8 DEF ToggleUnskippable
  <2>2. rows'[i] = rows[i]
    BY <1>1, <2>1
  <2> QED
    BY <1>1, <2>2
<1>9. ASSUME ItemEnds PROVE FALSE
  <2>1. PICK j \in Items : rows' = [rows EXCEPT ![j].over = TRUE]
    BY <1>9 DEF ItemEnds, Playing
  <2>2. rows'[i] = rows[i] \/ rows'[i] = [rows[i] EXCEPT !.over = TRUE]
    BY <1>1, <2>1
  <2>3. rows'[i].status = rows[i].status
    BY <1>1, <2>2 DEF Row
  <2> QED
    BY <1>1, <2>3
<1>10. CASE UNCHANGED vars
  BY <1>2, <1>10 DEF vars, db
<1> QED
  BY <1>4, <1>5, <1>6, <1>7, <1>8, <1>9, <1>10 DEF Next

(***************************************************************************)
(* Listeners skip an item only with enough votes for that item, and never  *)
(* one that the staff has made unskippable; whatever other processes do    *)
(* between the vote and the statement.                                     *)
(***************************************************************************)
THEOREM SkipsVoted == Spec => SkipsAreVoted
<1> DEFINE Skips == \A i \in Playing : rows'[i].status = "skipped" =>
                        \E p \in Pods : SkippedByStaff(p, i) \/ SkippedByVotes(p, i)
<1>1. ASSUME AudioInv, [Next]_vars PROVE Skips
  <2> SUFFICES ASSUME NEW i \in Playing, rows'[i].status = "skipped"
               PROVE  \E p \in Pods : SkippedByStaff(p, i) \/ SkippedByVotes(p, i)
    OBVIOUS
  <2>1. PICK p \in Pods : SkipItem(p) /\ pods[p].item = i
    BY <1>1, SkipsAre
  <2>2. PodOK(pods[p], rows, finishLost) /\ At(p, "skip") /\ pods[p].at = "skip"
    BY <1>1, <2>1 DEF AudioInv, SkipItem, At
  <2>3. pods[p].voter = None \/ SkippedByVotes(p, i)
    BY <2>1, <2>2 DEF PodOK, Bookkeeping, Voted, SkippedByVotes
  <2> QED
    BY <2>1, <2>2, <2>3 DEF SkippedByStaff
<1>2. AudioInv /\ [Next]_vars => [Skips]_vars
  BY <1>1
<1> QED
  BY <1>2, AudioInvariance, PTL DEF Spec, SkipsAreVoted
===============================================================================
