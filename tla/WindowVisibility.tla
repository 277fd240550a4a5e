-------------------------- MODULE WindowVisibility --------------------------
(***************************************************************************)
(* src/modules/essentialObsidian/ModuleObsidianEvents.ts: suspending the   *)
(* replication when the window is hidden and resuming it when the window   *)
(* is shown, deferred while a bounded activity (a finite replication, a    *)
(* rebuild, the application of downloaded documents) is under way.         *)
(*                                                                         *)
(* Events of the window arm a timer; when it fires,                        *)
(* watchWindowVisibilityAsync waits for the pending file events to be      *)
(* committed and then suspends, resumes or defers.  The module starts      *)
(* where the plug-in is configured and ready.                              *)
(***************************************************************************)
EXTENDS Integers, Sequences

CONSTANTS
    Setups,  \* the settings and circumstances to look at, one of which a behaviour has
    MaxCalls \* bound: calls of watchWindowVisibilityAsync at the same time

Setup == [keep : BOOLEAN,     \* the setting keepReplicationActiveInBackground
          sync : {"continuous", "periodic", "none"},
          mobile : BOOLEAN,
          rebuilds : BOOLEAN, \* rebuilds suspend the file watching
          activities : Nat]   \* bound: bounded activities at the same time

ASSUME VisibilityAssumption == Setups \subseteq Setup /\ MaxCalls \in Nat

VARIABLES
    setup,         \* what the behaviour is about; it does not change
    hidden, focus, \* the window
    timer,         \* the task watch-window-visibility is scheduled
    commits,       \* the calls that wait for commitPendingFileEvents, in order
    resumes,       \* the calls between onResuming and onResumed
    lastHidden,    \* isLastHidden
    deferred,      \* deferredBoundedLifecycle
    endHandler,    \* boundedActivityEndHandler is registered
    activities,    \* the two counts of bounded activities, added up
    watching,      \* not suspendFileWatching
    paused,        \* the user suspended everything: isSuspended
    channel,       \* the replication: what the last onSuspending or onResumed made of it
    outdated       \* history: a suspension was deferred by a call whose view was out of date

window   == <<hidden, focus>>
calls    == <<commits, resumes>>
deferral == <<deferred, endHandler>>
vars     == <<setup, window, timer, calls, lastHidden, deferral, activities, watching, paused, channel, outdated>>

Busy == activities > 0
LiveSync == setup.sync = "continuous"
KeepActive == setup.keep /\ setup.sync # "none" /\ ~setup.mobile

Init ==
    /\ setup \in Setups
    /\ hidden = FALSE /\ focus = TRUE /\ timer = FALSE
    /\ commits = <<>> /\ resumes = 0
    /\ lastHidden = FALSE /\ deferred = "none" /\ endHandler = FALSE
    /\ activities = 0 /\ watching = TRUE /\ paused = FALSE /\ channel = "open" /\ outdated = FALSE

Defer(what) == deferred' = what /\ endHandler' = TRUE

-----------------------------------------------------------------------------
(* The window. *)

VisibilityChanges ==
    /\ hidden' = ~hidden /\ timer' = TRUE
    /\ UNCHANGED <<focus, calls, lastHidden, deferral, activities, watching, paused, channel, outdated>>

SetHasFocus ==
    /\ focus' = ~focus /\ timer' = TRUE
    /\ UNCHANGED <<hidden, calls, lastHidden, deferral, activities, watching, paused, channel, outdated>>

-----------------------------------------------------------------------------
(* watchWindowVisibilityAsync, up to the first await. *)

\* While a rebuild suspends the file watching, the state of the window is
\* only recorded.
WatchRecords ==
    /\ timer /\ ~watching
    /\ timer' = FALSE
    /\ IF Busy THEN lastHidden' = hidden /\ Defer(IF hidden THEN "suspend" ELSE "none")
               ELSE UNCHANGED <<lastHidden, deferral>>
    /\ UNCHANGED <<window, calls, activities, watching, paused, channel, outdated>>

\* Nothing changed, or what is not focussed after it was hidden.
WatchIgnores ==
    /\ timer /\ watching
    /\ (lastHidden /\ ~focus) \/ lastHidden = hidden
    /\ timer' = FALSE
    /\ UNCHANGED <<window, calls, lastHidden, deferral, activities, watching, paused, channel, outdated>>

Cancelling == ~hidden /\ Busy /\ deferred = "suspend"

\* Variant: the suspension stays deferred.
WatchCancelsNot ==
    /\ timer /\ watching
    /\ ~(lastHidden /\ ~focus) /\ lastHidden # hidden
    /\ Cancelling
    /\ timer' = FALSE
    /\ lastHidden' = FALSE
    /\ UNCHANGED <<window, calls, deferral, activities, watching, paused, channel, outdated>>

\* The window is shown again before the suspension was due.
WatchCancels ==
    /\ timer /\ watching
    /\ ~(lastHidden /\ ~focus) /\ lastHidden # hidden
    /\ Cancelling
    /\ timer' = FALSE
    /\ lastHidden' = FALSE /\ deferred' = "none"
    /\ UNCHANGED <<window, calls, endHandler, activities, watching, paused, channel, outdated>>

\* The state of the window and of the activities is taken before the await.
WatchCommits ==
    /\ timer /\ watching /\ Len(commits) + resumes < MaxCalls
    /\ ~(lastHidden /\ ~focus) /\ lastHidden # hidden
    /\ ~Cancelling
    /\ timer' = FALSE
    /\ lastHidden' = hidden
    /\ commits' = Append(commits, [hidden |-> hidden, busy |-> Busy])
    /\ UNCHANGED <<window, resumes, deferral, activities, watching, paused, channel, outdated>>

-----------------------------------------------------------------------------
(* The rest of it, after the pending file events were committed. *)

Suspend == channel' = "closed" /\ UNCHANGED <<resumes, deferral>>

\* Variant: the continuous channel is not torn down.
ResumeOnly ==
    /\ resumes' = resumes + 1
    /\ UNCHANGED <<channel, deferral>>

\* onResuming follows; the continuous channel is torn down before.
Resume ==
    /\ resumes' = resumes + 1
    /\ channel' = IF KeepActive /\ LiveSync THEN "closed" ELSE channel
    /\ UNCHANGED deferral

\* Variant: the activity is not waited for.
HideAtOnce(c) ==
    /\ c.hidden
    /\ IF KeepActive THEN UNCHANGED <<resumes, deferral, channel>> ELSE Suspend
    /\ UNCHANGED outdated

\* A suspension is deferred: the activity the call saw is over, or another
\* call has begun since.
OutOfDate == ~Busy \/ Tail(commits) # <<>>

Hide(c) ==
    /\ c.hidden
    /\ IF KeepActive THEN UNCHANGED <<resumes, deferral, channel>>
       ELSE IF c.busy THEN Defer("suspend") /\ UNCHANGED <<resumes, channel>>
       ELSE Suspend
    /\ outdated' = (outdated \/ (c.busy /\ ~KeepActive /\ OutOfDate))

Show(c) ==
    /\ ~c.hidden
    /\ IF paused THEN UNCHANGED <<resumes, deferral, channel>>
       ELSE IF c.busy /\ KeepActive /\ LiveSync THEN Defer("restart") /\ UNCHANGED <<resumes, channel>>
       ELSE Resume
    /\ UNCHANGED outdated

Committed ==
    /\ commits # <<>>
    /\ commits' = Tail(commits)
    /\ Hide(Head(commits)) \/ Show(Head(commits))
    /\ UNCHANGED <<window, timer, lastHidden, activities, watching, paused>>

\* onResumed asks for the channel to be opened; one that is open, even stalled,
\* stays as it is.  The opening itself, which waits for the readiness of the
\* replication, is the replicator's.
Opened == IF paused \/ channel # "closed" THEN channel ELSE "open"

OnResumed ==
    /\ resumes > 0
    /\ resumes' = resumes - 1
    /\ channel' = Opened
    /\ outdated' = (outdated /\ (paused \/ deferred = "suspend" \/ commits # <<>>))
    /\ UNCHANGED <<window, timer, commits, lastHidden, deferral, activities, watching, paused>>

-----------------------------------------------------------------------------
(* Bounded activities. *)

ActivityStarts ==
    /\ activities < setup.activities
    /\ activities' = activities + 1
    /\ UNCHANGED <<window, timer, calls, lastHidden, deferral, watching, paused, channel, outdated>>

\* Variant: the deferred action is forgotten only when it runs.
ApplyDeferredOnce ==
    /\ endHandler' = FALSE
    /\ CASE deferred = "suspend" /\ hidden /\ ~KeepActive ->
               deferred' = "none" /\ channel' = "closed" /\ UNCHANGED resumes
         [] deferred = "restart" /\ ~hidden /\ KeepActive /\ LiveSync ->
               deferred' = "none" /\ channel' = "closed" /\ resumes' = resumes + 1
         [] OTHER -> UNCHANGED <<deferred, channel, resumes>>

\* applyDeferredBoundedActivityLifecycle.
ApplyDeferred ==
    /\ deferred' = "none" /\ endHandler' = FALSE
    /\ CASE deferred = "suspend" /\ hidden /\ ~KeepActive -> channel' = "closed" /\ UNCHANGED resumes
         [] deferred = "restart" /\ ~hidden /\ KeepActive /\ LiveSync ->
               channel' = "closed" /\ resumes' = resumes + 1
         [] OTHER -> UNCHANGED <<channel, resumes>>

\* Variant: an end that has no beginning is counted.
ActivityEndsTwice ==
    /\ (watching \/ activities > 1)
    /\ activities' = activities - 1
    /\ IF activities = 1 /\ endHandler THEN ApplyDeferred ELSE UNCHANGED <<deferral, channel, resumes>>
    /\ UNCHANGED <<window, timer, commits, lastHidden, watching, paused, outdated>>

\* The rebuild that suspended the file watching resumes it before it ends.
ActivityEnds ==
    /\ Busy /\ (watching \/ activities > 1)
    /\ activities' = activities - 1
    /\ IF activities = 1 /\ endHandler THEN ApplyDeferred ELSE UNCHANGED <<deferral, channel, resumes>>
    /\ UNCHANGED <<window, timer, commits, lastHidden, watching, paused, outdated>>

RebuildSuspendsWatching ==
    /\ setup.rebuilds /\ Busy /\ watching /\ ~hidden /\ ~lastHidden
    /\ watching' = FALSE
    /\ UNCHANGED <<window, timer, calls, lastHidden, deferral, activities, paused, channel, outdated>>

RebuildResumesWatching ==
    /\ ~watching
    /\ watching' = TRUE
    /\ UNCHANGED <<window, timer, calls, lastHidden, deferral, activities, paused, channel, outdated>>

-----------------------------------------------------------------------------
(* The user, in a window that is shown for longer than the timer, suspends *)
(* or resumes everything, which realises the settings.                     *)
Toggle ==
    /\ ~hidden /\ focus /\ ~timer
    /\ paused' = ~paused
    /\ channel' = IF paused' THEN "closed" ELSE "open"
    /\ UNCHANGED <<window, timer, calls, lastHidden, deferral, activities, watching, outdated>>

\* A continuous channel may stall while the window is hidden.
Stall ==
    /\ hidden /\ lastHidden /\ LiveSync /\ channel = "open"
    /\ channel' = "stalled"
    /\ UNCHANGED <<window, timer, calls, lastHidden, deferral, activities, watching, paused, outdated>>

Watch == WatchRecords \/ WatchIgnores \/ WatchCancels \/ WatchCommits

Next ==
    /\ \/ VisibilityChanges \/ SetHasFocus
       \/ Watch \/ Committed \/ OnResumed
       \/ ActivityStarts \/ ActivityEnds \/ RebuildSuspendsWatching \/ RebuildResumesWatching
       \/ Toggle \/ Stall
    /\ UNCHANGED setup

Spec == Init /\ [][Next]_vars

-----------------------------------------------------------------------------
(* Properties. *)

\* The types, and the steps each call of the handler can be at.
TypeOK ==
    /\ setup \in Setups
    /\ {hidden, focus, timer, lastHidden, endHandler, watching, paused, outdated} \subseteq BOOLEAN
    /\ commits \in Seq([hidden : BOOLEAN, busy : BOOLEAN]) /\ resumes \in Nat
    /\ deferred \in {"none", "suspend", "restart"}
    /\ activities \in 0..setup.activities
    /\ channel \in {"open", "stalled", "closed"}

Settled == ~timer /\ commits = <<>> /\ resumes = 0 /\ ~Busy

\* What is visible and focussed replicates, once events, calls and activities
\* are over, however they were interleaved, unless a suspension was deferred
\* by a call whose view was out of date.
OpenWhenVisible == Settled /\ ~hidden /\ focus /\ ~paused /\ ~outdated => channel # "closed"

\* "Becoming visible always re-establishes a fresh channel": nothing that
\* stalled while the window was hidden is left, where the replication is kept
\* active in the background and no bounded activity runs.
FreshWhenVisible ==
    KeepActive /\ setup.activities = 0 /\ Settled /\ ~hidden /\ focus => channel # "stalled"

\* A call of the handler that had seen an activity before its await.
SawActivity == commits # <<>> /\ commits' = Tail(commits) /\ Head(commits).busy

\* A deferred action waits for something that will happen: its handler is
\* registered and an activity is under way, unless the call that defers it had
\* seen one that is over.
DeferredIsAwaited ==
    [][deferred' # "none" => endHandler' /\ (Busy' \/ (deferred # "none" /\ ~Busy) \/ SawActivity)]_vars

\* A call of the handler that had seen no activity before its await.
SawNoActivity == commits # <<>> /\ commits' = Tail(commits) /\ ~Head(commits).busy

\* Only such a call interrupts a bounded activity: no deferred suspension or
\* restart does, nor a call that saw the activity.
SuspensionWaits ==
    [][channel # "closed" /\ channel' = "closed" /\ ~paused' => activities' = 0 \/ SawNoActivity]_vars

\* The three as they are meant, whatever the calls have seen.
WhatIsVisibleIsOpen == Settled /\ ~hidden /\ focus /\ ~paused => channel # "closed"
AnActivityIsAwaited == deferred # "none" => endHandler /\ Busy
NoActivityIsInterrupted == [][channel # "closed" /\ channel' = "closed" /\ ~paused' => activities' = 0]_vars

\* A hidden window does not replicate, unless the user wants it to.
ClosedWhenHidden == Settled /\ hidden /\ ~KeepActive => channel = "closed"

\* When the window is shown again, a suspension that was deferred is cancelled.
PendingIsCancelled == ~timer /\ commits = <<>> /\ ~hidden /\ focus => deferred # "suspend"

\* Without a suspension there is no resumption.
NoUnmatchedResume == [][resumes' > resumes /\ ~KeepActive => channel = "closed"]_vars
=============================================================================
