---------------------------- MODULE MCAudioQueue ----------------------------
(* Small instances of the audio queue: overlapping processes, listeners    *)
(* and their votes, rows from before durations were demanded, and faults.  *)
EXTENDS AudioQueue, TLC

CONSTANTS p1, p2, ann, ben, cyd, dan

OnFirst == [u \in Users |-> p1]

Overlap == [pods |-> {p1, p2}, users |-> {}, items |-> {1, 2},
            voters |-> Users, movers |-> {ben}, leavers |-> Users,
            lockable |-> {}, force |-> TRUE, trusted |-> FALSE, faults |-> 0]

Rollouts ==
    {Overlap,
     [Overlap EXCEPT !.users = {ann, ben}, !.movers = {}, !.leavers = {}, !.force = FALSE],
     [Overlap EXCEPT !.pods = {p1}, !.users = {ann, ben}, !.items = {1}, !.lockable = {1}],
     [Overlap EXCEPT !.pods = {p1}, !.users = Users, !.items = {1}, !.voters = {ann, ben, cyd},
                     !.leavers = {dan}],
     [Overlap EXCEPT !.items = {1}, !.trusted = TRUE, !.faults = 1],
     [Overlap EXCEPT !.items = {2, 3}]}
===============================================================================
