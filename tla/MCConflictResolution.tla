----------------------- MODULE MCConflictResolution -----------------------
(* Small instances of ConflictResolution: the revisions the devices start with. *)
EXTENDS ConflictResolution, TLC

CONSTANTS d1, d2

R(gen, mtime, from) == [gen |-> gen, mtime |-> mtime, from |-> from]

\* Two branches of equal length, written a moment apart (one comparison window).
CloseLeaves == <<R(2, 5, {1}), R(2, 4, {2})>>
\* Two branches, the loser of the tree being much newer.
FarLeaves == <<R(2, 6, {1}), R(1, 9, {2})>>
\* Three branches; the first two have the same content.
ThreeLeaves == <<R(1, 4, {1}), R(1, 5, {1}), R(2, 2, {3})>>
\* Three branches in a row: each is about as old as the next, the longest is the oldest.
ChainLeaves == <<R(1, 5, {1}), R(2, 4, {2}), R(3, 3, {3})>>

\* Two devices merge and choose, each having begun with a leaf of its own; the tree
\* does not change within a job, but does under a dialogue.
Shared == [start |-> FarLeaves, has |-> d1 :> {1} @@ d2 :> {2}, unreadable |-> {},
           policy |-> "manual", merging |-> TRUE, commands |-> {}, activeOnly |-> FALSE,
           timing |-> "quiet", faults |-> {"store"}, restarts |-> FALSE,
           behind |-> {}, edits |-> 3, revs |-> 4]

\* Nobody edits, deletions fail too, a clock is behind, and the tree changes at any time.
Failing == [Shared EXCEPT !.timing = "anytime", !.faults = {"store", "delete"},
                          !.behind = {d2}, !.edits = 2, !.revs = 3]

\* One device, a leaf that cannot be read, both unlocked commands, and a file that is
\* not active; writes fail, and the application is killed.
Unread == [Shared EXCEPT
    !.start = ThreeLeaves, !.has = d1 :> {1, 2, 3}, !.unreadable = {3},
    !.commands = {"newest", "discard"}, !.activeOnly = TRUE,
    !.timing = "anytime", !.faults = {"delete", "write"}, !.restarts = TRUE,
    !.edits = 4, !.revs = 5]

\* A newer-file policy, and two devices that see other pairs of three leaves.
Newer == [Shared EXCEPT
    !.start = ChainLeaves, !.has = d1 :> {2, 3} @@ d2 :> {1, 2},
    !.policy = "newer", !.merging = FALSE, !.timing = "anytime", !.faults = {},
    !.edits = 4, !.revs = 4]

Cases == {Shared, Failing, Unread, Newer}
===========================================================================
