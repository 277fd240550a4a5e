------------------------ MODULE MCCustomisationSync ------------------------
(* Customisation Sync of a plug-in of two files, for TLC: the circumstances  *)
(* to look at.                                                               *)
EXTENDS CustomisationSync

Quiet == [v2 |-> FALSE, sweep |-> FALSE, watch |-> FALSE, vault |-> TRUE, v1 |-> FALSE,
          same |-> FALSE, overlap |-> FALSE, edits |-> 1,
          deletions |-> 0, arrivals |-> 0, commands |-> 0, fails |-> 0, suspensions |-> 0,
          kills |-> 0]

\* One document for the plug-in, stored by the events alone, without and with a kill ...
Watched == [Quiet EXCEPT !.watch = TRUE, !.overlap = TRUE, !.edits = 2, !.deletions = 1]
Killed == [Watched EXCEPT !.deletions = 0, !.kills = 1]
\* ... or by scans: over each other, with faults, and with the dialogue.
Swept == [Quiet EXCEPT !.sweep = TRUE, !.overlap = TRUE, !.vault = FALSE, !.v1 = TRUE,
                       !.edits = 2, !.deletions = 1, !.fails = 1, !.kills = 1]
Chosen == [Quiet EXCEPT !.sweep = TRUE, !.vault = FALSE, !.v1 = TRUE,
                          !.arrivals = 1, !.commands = 1, !.fails = 1]
\* A document for each file: migrated with faults, migrated while the dialogue is used,
\* while documents arrive and events are missed, and an application that fails half-way.
Migrated == [Quiet EXCEPT !.v2 = TRUE, !.sweep = TRUE, !.v1 = TRUE, !.fails = 1, !.kills = 1]
Asked == [Migrated EXCEPT !.edits = 0, !.commands = 1, !.fails = 0, !.kills = 0]
Replicated == [Migrated EXCEPT !.v1 = FALSE, !.watch = TRUE, !.same = TRUE, !.arrivals = 1,
                               !.suspensions = 1, !.fails = 0, !.kills = 0]
Interrupted == [Asked EXCEPT !.vault = FALSE, !.fails = 1]

Cases == {Watched, Killed, Swept, Chosen, Migrated, Asked, Replicated, Interrupted}
=============================================================================
