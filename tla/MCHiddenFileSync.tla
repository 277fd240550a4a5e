-------------------------- MODULE MCHiddenFileSync --------------------------
(* Hidden File Sync of one file, for TLC: the circumstances to look at.      *)
EXTENDS HiddenFileSync

\* Two revisions may arrive, the one of the higher rank having the older mtime:
\* conflicts, and an operation that fails.
Conflicting == [remote |-> <<4, 2>>, directions |-> {}, edits |-> 1, fails |-> 1, kills |-> 0]
\* One arrives; two edits or initialisations, and a kill with unsaved keys ...
Killed == [remote |-> <<2>>, directions |-> {"pushForce", "pullForce", "safe"},
           edits |-> 2, fails |-> 0, kills |-> 1]
\* ... or one of them, and a failing operation too.
Failing == [Killed EXCEPT !.edits = 1, !.fails = 1]
\* One revision arrives, and one edit of the file.
Offline == [Killed EXCEPT !.directions = {}, !.edits = 1, !.kills = 0]

Cases == {Conflicting, Killed, Failing}
OneEdit == {Offline}
=============================================================================
