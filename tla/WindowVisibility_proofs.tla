------------------------ MODULE WindowVisibility_proofs ------------------------
(***************************************************************************)
(* Proofs about WindowVisibility, for any settings and circumstances and   *)
(* any number of overlapping calls.                                        *)
(***************************************************************************)
EXTENDS WindowVisibility, SequenceTheorems, TLAPS

Call == [hidden : BOOLEAN, busy : BOOLEAN]

-----------------------------------------------------------------------------
(* The invariant: what always holds, and what holds unless a suspension was *)
(* deferred by a call whose view was out of date.                           *)

WatchingStopsInActivity == ~watching => Busy

\* An action is deferred with the handler that will apply it.
DeferredHasHandler == deferred # "none" => endHandler

PausedIsClosed == paused => channel = "closed"

\* A window whose state is not the recorded one has an event to come.
ChangeIsTimed == lastHidden # hidden => timer \/ (lastHidden /\ ~focus)

\* A channel that is kept in the background is closed only to be opened again.
KeptIsOpened == KeepActive /\ channel = "closed" /\ ~paused => resumes > 0

\* Calls see only activities that can run.
SeenIsPossible ==
    (\E i \in 1..Len(commits) : commits[i].busy) \/ outdated => setup.activities > 0

AlwaysInv ==
    /\ TypeOK /\ WatchingStopsInActivity /\ DeferredHasHandler /\ PausedIsClosed
    /\ ChangeIsTimed /\ KeptIsOpened /\ SeenIsPossible

LastHides == commits # <<>> /\ commits[Len(commits)].hidden
SomeShows == \E i \in 1..Len(commits) : ~commits[i].hidden
ClosedOnly == channel = "closed" /\ ~paused

\* A window that is being hidden is recorded as hidden.
HidingIsRecorded == LastHides => lastHidden /\ watching

\* The window is shown between two calls that hide it.
HidingAlternates == \A i \in 1..Len(commits) : i > 1 /\ commits[i].hidden => ~commits[i - 1].hidden

\* A deferred suspension belongs to a window recorded as hidden, whose channel
\* is not closed for good.
DeferredIsRecorded ==
    deferred = "suspend" =>
        /\ Busy /\ lastHidden /\ ~LastHides
        /\ ClosedOnly => resumes > 0 \/ commits # <<>>

\* A window that is being hidden still has its channel, or a call opens it.
HidingIsOpen == ClosedOnly /\ LastHides => resumes > 0 \/ SomeShows

\* A channel is closed while its window is recorded as hidden, or something
\* is under way that opens it.
ClosedIsTemporary == ClosedOnly => (lastHidden /\ watching) \/ resumes > 0 \/ commits # <<>>

RecentInv ==
    /\ HidingIsRecorded /\ HidingAlternates /\ DeferredIsRecorded /\ HidingIsOpen /\ ClosedIsTemporary

\* A stalled channel has a window recorded as hidden, or is about to be replaced.
StallInv ==
    channel = "stalled" =>
        LiveSync /\ (KeepActive /\ setup.activities = 0 => lastHidden \/ commits # <<>>)

VisibilityInv == AlwaysInv /\ (~outdated => RecentInv) /\ StallInv

-----------------------------------------------------------------------------
(* Lemmas on the calls under way. *)

\* A call is added.
LEMMA CallAdded ==
    ASSUME NEW q \in Seq(Call), NEW c \in Call
    PROVE  /\ Append(q, c) \in Seq(Call) /\ Append(q, c) # <<>>
           /\ Len(Append(q, c)) = Len(q) + 1 /\ Append(q, c)[Len(q) + 1] = c
           /\ \A i \in 1..Len(q) : Append(q, c)[i] = q[i]
BY AppendProperties

\* The first call goes on: the last one stays the last, unless it was alone.
LEMMA CallRemoved ==
    ASSUME NEW q \in Seq(Call), q # <<>>
    PROVE  /\ Head(q) \in Call /\ Head(q) = q[1] /\ 1 \in 1..Len(q)
           /\ Tail(q) \in Seq(Call) /\ Len(Tail(q)) = Len(q) - 1
           /\ \A i \in 1..Len(Tail(q)) : Tail(q)[i] = q[i + 1] /\ i + 1 \in 1..Len(q)
           /\ Tail(q) # <<>> => Tail(q)[Len(Tail(q))] = q[Len(q)]
           /\ Tail(q) = <<>> => q[Len(q)] = Head(q)
<1>1. /\ Head(q) \in Call /\ Head(q) = q[1] /\ 1 \in 1..Len(q)
      /\ Tail(q) \in Seq(Call) /\ Len(Tail(q)) = Len(q) - 1
      /\ \A i \in 1..Len(Tail(q)) : Tail(q)[i] = q[i + 1] /\ i + 1 \in 1..Len(q)
  OBVIOUS
<1>2. CASE Tail(q) # <<>>
  <2>1. Len(Tail(q)) \in 1..Len(Tail(q))
    BY <1>1, <1>2
  <2> QED BY <1>1, <1>2, <2>1
<1>3. CASE Tail(q) = <<>>
  <2>0. Len(Tail(q)) = 0
    BY <1>3, EmptySeq
  <2>1. Len(q) = 1
    <3>1. Len(q) \in Nat
      BY LenProperties
    <3>2. Len(q) - 1 = 0
      BY <1>1, <2>0
    <3> QED BY <3>1, <3>2
  <2> QED BY <1>1, <1>3, <2>1
<1> QED BY <1>1, <1>2, <1>3

\* What the calls tell, when a call is added and when one goes on.
LEMMA AddedTells ==
    ASSUME commits \in Seq(Call), NEW c \in Call, commits' = Append(commits, c)
    PROVE  /\ commits' # <<>>
           /\ LastHides' <=> c.hidden
           /\ SomeShows => SomeShows'
           /\ commits # <<>> /\ ~LastHides => SomeShows
           /\ HidingAlternates /\ ~(c.hidden /\ LastHides) => HidingAlternates'
<1>1. /\ Len(commits) \in Nat /\ commits' # <<>> /\ Len(commits') = Len(commits) + 1
      /\ commits'[Len(commits) + 1] = c /\ \A i \in 1..Len(commits) : commits'[i] = commits[i]
      /\ commits # <<>> => Len(commits) \in 1..Len(commits)
  BY CallAdded, LenProperties, EmptySeq
<1>2. LastHides' <=> c.hidden
  BY <1>1 DEF LastHides
<1>3. SomeShows => SomeShows'
  BY <1>1 DEF SomeShows
<1>4. commits # <<>> /\ ~LastHides => SomeShows
  BY <1>1 DEF LastHides, SomeShows
<1>5. ASSUME HidingAlternates, ~(c.hidden /\ LastHides) PROVE HidingAlternates'
  <2> SUFFICES ASSUME NEW i \in 1..Len(commits'), i > 1, commits'[i].hidden
               PROVE  ~commits'[i - 1].hidden
    BY DEF HidingAlternates
  <2>1. i - 1 \in 1..Len(commits) /\ commits'[i - 1] = commits[i - 1]
    BY <1>1
  <2>2. CASE i \in 1..Len(commits)
    BY <1>1, <1>5, <2>1, <2>2 DEF HidingAlternates
  <2>3. CASE i = Len(commits) + 1
    <3>1. commits # <<>>
      BY <1>1, <2>1, EmptySeq
    <3> QED BY <1>1, <1>5, <2>1, <2>3, <3>1 DEF LastHides
  <2> QED BY <1>1, <2>2, <2>3
<1> QED BY <1>1, <1>2, <1>3, <1>4, <1>5

LEMMA RemovedTells ==
    ASSUME commits \in Seq(Call), commits # <<>>, commits' = Tail(commits)
    PROVE  /\ Head(commits).hidden \in BOOLEAN
           /\ LastHides <=> IF commits' = <<>> THEN Head(commits).hidden ELSE LastHides'
           /\ commits' = <<>> => ~LastHides'
           /\ HidingAlternates => HidingAlternates'
           /\ HidingAlternates /\ Head(commits).hidden /\ commits' # <<>> => SomeShows'
           /\ SomeShows /\ Head(commits).hidden => SomeShows'
           /\ SomeShows => commits' # <<>> \/ ~Head(commits).hidden
           /\ (\E i \in 1..Len(commits') : commits'[i].busy) => \E i \in 1..Len(commits) : commits[i].busy
           /\ Head(commits).busy => \E i \in 1..Len(commits) : commits[i].busy
<1>1. /\ Head(commits) \in Call /\ Head(commits) = commits[1] /\ 1 \in 1..Len(commits)
      /\ commits' \in Seq(Call) /\ Len(commits') = Len(commits) - 1
      /\ \A i \in 1..Len(commits') : commits'[i] = commits[i + 1] /\ i + 1 \in 1..Len(commits)
      /\ commits' # <<>> => commits'[Len(commits')] = commits[Len(commits)]
      /\ commits' = <<>> => commits[Len(commits)] = Head(commits)
      /\ Len(commits) \in Nat /\ Len(commits') \in Nat /\ (commits' = <<>> <=> Len(commits') = 0)
  BY CallRemoved, LenProperties, EmptySeq
<1>2. LastHides <=> IF commits' = <<>> THEN Head(commits).hidden ELSE LastHides'
  BY <1>1 DEF LastHides
<1>3. HidingAlternates => HidingAlternates'
  <2> SUFFICES ASSUME HidingAlternates, NEW i \in 1..Len(commits'), i > 1, commits'[i].hidden
               PROVE  ~commits'[i - 1].hidden
    BY DEF HidingAlternates
  <2>1. i + 1 \in 1..Len(commits) /\ commits'[i] = commits[i + 1] /\ i + 1 > 1
    BY <1>1
  <2>2. i - 1 \in 1..Len(commits') /\ commits'[i - 1] = commits[(i - 1) + 1] /\ (i - 1) + 1 = (i + 1) - 1
    BY <1>1
  <2> QED BY <2>1, <2>2 DEF HidingAlternates
<1>4. ASSUME HidingAlternates, Head(commits).hidden, commits' # <<>> PROVE SomeShows'
  <2>1. 1 \in 1..Len(commits') /\ commits'[1] = commits[2] /\ 2 \in 1..Len(commits)
    BY <1>1, <1>4
  <2>2. ~commits[2].hidden
    BY <1>1, <1>4, <2>1 DEF HidingAlternates
  <2> QED BY <2>1, <2>2 DEF SomeShows
<1>5. SomeShows => ~Head(commits).hidden \/ (SomeShows' /\ commits' # <<>>)
  <2> SUFFICES ASSUME NEW i \in 1..Len(commits), ~commits[i].hidden, Head(commits).hidden
               PROVE  SomeShows' /\ commits' # <<>>
    BY DEF SomeShows
  <2>1. i # 1 /\ i - 1 \in 1..Len(commits') /\ (i - 1) + 1 = i
    BY <1>1
  <2>2. commits'[i - 1] = commits[i]
    BY <1>1, <2>1
  <2>3. SomeShows'
    <3>1. ~commits'[i - 1].hidden
      BY <2>2
    <3> QED BY <2>1, <3>1 DEF SomeShows
  <2>4. Len(commits') # 0
    BY <1>1, <2>1
  <2> QED BY <1>1, <2>3, <2>4
<1>6. commits' = <<>> => ~LastHides'
  BY DEF LastHides
<1> QED BY <1>1, <1>2, <1>3, <1>4, <1>5, <1>6 DEF Call

LEMMA NoCallTells == commits = <<>> => ~LastHides /\ HidingAlternates
BY EmptySeq DEF LastHides, HidingAlternates

LEMMA SameCallsTell ==
    ASSUME commits' = commits
    PROVE  (LastHides' <=> LastHides) /\ (SomeShows' <=> SomeShows) /\ (HidingAlternates' <=> HidingAlternates)
BY DEF LastHides, SomeShows, HidingAlternates

LEMMA BusyMeansSome == TypeOK /\ Busy => setup.activities > 0
<1> SUFFICES ASSUME TypeOK, Busy PROVE setup.activities > 0
  OBVIOUS
<1>1. setup.activities \in Nat
  BY VisibilityAssumption DEF TypeOK, Setup
<1> QED BY <1>1 DEF TypeOK, Busy

-----------------------------------------------------------------------------
(* The invariant is inductive. *)

LEMMA InitVisibility == Init => VisibilityInv
<1> SUFFICES ASSUME Init PROVE VisibilityInv
  OBVIOUS
<1>1. setup.activities \in Nat
  BY VisibilityAssumption DEF Init, Setup
<1>2. commits \in Seq(Call) /\ commits = <<>> /\ Len(commits) = 0
  BY EmptySeq DEF Init
<1>3. TypeOK
  <2>1. {hidden, focus, timer, lastHidden, endHandler, watching, paused, outdated} \subseteq BOOLEAN
    BY DEF Init
  <2>2. activities \in 0..setup.activities /\ resumes \in Nat
    BY <1>1 DEF Init
  <2> QED BY <1>2, <2>1, <2>2 DEF Init, TypeOK, Call
<1>4. AlwaysInv
  <2>1. WatchingStopsInActivity /\ DeferredHasHandler /\ PausedIsClosed /\ ChangeIsTimed /\ KeptIsOpened
    BY DEF Init, WatchingStopsInActivity, DeferredHasHandler, PausedIsClosed, ChangeIsTimed, KeptIsOpened
  <2>2. SeenIsPossible
    BY <1>2 DEF Init, SeenIsPossible
  <2> QED BY <1>3, <2>1, <2>2 DEF AlwaysInv
<1>5. RecentInv
  BY <1>2, NoCallTells DEF Init, RecentInv, HidingIsRecorded, DeferredIsRecorded, HidingIsOpen,
     ClosedIsTemporary, ClosedOnly
<1>6. StallInv
  BY DEF Init, StallInv
<1> QED BY <1>4, <1>5, <1>6 DEF VisibilityInv

\* What the end of the last activity does.
LEMMA DeferredApplied ==
    ASSUME ApplyDeferred
    PROVE  /\ deferred' = "none" /\ endHandler' = FALSE
           /\ \/ deferred = "suspend" /\ hidden /\ ~KeepActive /\ channel' = "closed" /\ resumes' = resumes
              \/ KeepActive /\ LiveSync /\ channel' = "closed" /\ resumes' = resumes + 1
              \/ channel' = channel /\ resumes' = resumes
<1>1. CASE deferred = "suspend" /\ hidden /\ ~KeepActive
  BY <1>1 DEF ApplyDeferred
<1>2. CASE deferred = "restart" /\ ~hidden /\ KeepActive /\ LiveSync
  BY <1>2 DEF ApplyDeferred
<1>3. CASE ~(deferred = "suspend" /\ hidden /\ ~KeepActive)
           /\ ~(deferred = "restart" /\ ~hidden /\ KeepActive /\ LiveSync)
  BY <1>3 DEF ApplyDeferred
<1> QED BY <1>1, <1>2, <1>3

LEMMA TypeStep == TypeOK /\ [Next]_vars => TypeOK'
<1> SUFFICES ASSUME TypeOK, [Next]_vars PROVE TypeOK'
  OBVIOUS
<1>0. setup.activities \in Nat /\ commits \in Seq(Call) /\ setup' = setup
  BY VisibilityAssumption DEF TypeOK, Setup, Call, Next, vars
<1>1. CASE VisibilityChanges \/ SetHasFocus \/ RebuildSuspendsWatching \/ RebuildResumesWatching
           \/ Toggle \/ Stall
  BY <1>0, <1>1 DEF TypeOK, VisibilityChanges, SetHasFocus, RebuildSuspendsWatching, RebuildResumesWatching,
     Toggle, Stall, window, calls, deferral
<1>2. CASE WatchRecords \/ WatchIgnores \/ WatchCancels
  BY <1>0, <1>2 DEF TypeOK, WatchRecords, WatchIgnores, WatchCancels, Defer, window, calls, deferral
<1>3. CASE WatchCommits
  <2>1. [hidden |-> hidden, busy |-> Busy] \in Call
    BY DEF TypeOK, Call, Busy
  <2>2. commits' \in Seq(Call)
    BY <1>0, <1>3, <2>1, CallAdded DEF WatchCommits
  <2> QED BY <1>0, <1>3, <2>2 DEF TypeOK, WatchCommits, window, deferral, Call
<1>4. CASE Committed
  <2>1. commits' \in Seq(Call)
    BY <1>0, <1>4, CallRemoved DEF Committed
  <2>2. resumes' \in Nat /\ deferred' \in {"none", "suspend", "restart"} /\ endHandler' \in BOOLEAN
        /\ channel' \in {"open", "stalled", "closed"} /\ outdated' \in BOOLEAN
    <3>1. Hide(Head(commits)) \/ Show(Head(commits))
      BY <1>4 DEF Committed
    <3>2. /\ resumes' = resumes \/ resumes' = resumes + 1
          /\ (deferred' = deferred /\ endHandler' = endHandler)
               \/ (deferred' \in {"suspend", "restart"} /\ endHandler' = TRUE)
          /\ channel' = channel \/ channel' = "closed"
          /\ outdated' \in BOOLEAN
      BY <3>1 DEF TypeOK, Hide, Show, Suspend, Resume, Defer, deferral
    <3>3. resumes \in Nat /\ deferred \in {"none", "suspend", "restart"} /\ endHandler \in BOOLEAN
          /\ channel \in {"open", "stalled", "closed"}
      BY DEF TypeOK
    <3>4. endHandler' \in BOOLEAN
      BY <3>2, <3>3
    <3> QED BY <3>2, <3>3, <3>4
  <2> QED BY <1>0, <1>4, <2>1, <2>2 DEF TypeOK, Committed, window, Call
<1>5. CASE OnResumed
  BY <1>0, <1>5 DEF TypeOK, OnResumed, Opened, window, deferral
<1>6. CASE ActivityStarts
  BY <1>0, <1>6 DEF TypeOK, ActivityStarts, window, calls, deferral
<1>7. CASE ActivityEnds
  <2>1. resumes' \in Nat /\ deferred' \in {"none", "suspend", "restart"} /\ endHandler' \in BOOLEAN
        /\ channel' \in {"open", "stalled", "closed"}
    <3>1. ApplyDeferred \/ UNCHANGED <<deferral, channel, resumes>>
      BY <1>7 DEF ActivityEnds
    <3>2. CASE ApplyDeferred
      BY <3>2, DeferredApplied DEF TypeOK
    <3> QED BY <3>1, <3>2 DEF TypeOK, deferral
  <2>2. activities' \in 0..setup.activities
    BY <1>0, <1>7 DEF TypeOK, ActivityEnds, Busy
  <2> QED BY <1>0, <1>7, <2>1, <2>2 DEF TypeOK, ActivityEnds, window
<1>8. CASE UNCHANGED vars
  BY <1>8 DEF TypeOK, vars, window, calls, deferral
<1> QED BY <1>1, <1>2, <1>3, <1>4, <1>5, <1>6, <1>7, <1>8 DEF Next, Watch

-----------------------------------------------------------------------------
(* What always holds. *)

LEMMA AlwaysStep ==
    ASSUME AlwaysInv, Next
    PROVE  AlwaysInv'
<1> USE DEF WatchingStopsInActivity, DeferredHasHandler, PausedIsClosed, ChangeIsTimed, KeptIsOpened,
    KeepActive, LiveSync
<1>0. /\ TypeOK /\ TypeOK' /\ setup' = setup /\ commits \in Seq(Call)
      /\ (Busy => setup.activities > 0) /\ setup.activities \in Nat /\ activities \in Nat /\ hidden \in BOOLEAN
      /\ resumes \in Nat
      /\ WatchingStopsInActivity /\ DeferredHasHandler /\ PausedIsClosed /\ ChangeIsTimed /\ KeptIsOpened
      /\ SeenIsPossible
  BY TypeStep, BusyMeansSome, VisibilityAssumption DEF AlwaysInv, Next, TypeOK, Call, Setup
<1> DEFINE Rest == /\ WatchingStopsInActivity' /\ DeferredHasHandler' /\ PausedIsClosed'
                   /\ ChangeIsTimed' /\ KeptIsOpened' /\ SeenIsPossible'
<1>a. ASSUME commits' = commits, outdated' => outdated PROVE SeenIsPossible'
  BY <1>0, <1>a DEF SeenIsPossible
<1>1. CASE VisibilityChanges \/ SetHasFocus
  <2>1. timer' /\ UNCHANGED <<calls, lastHidden, deferral, activities, watching, paused, channel, outdated>>
    BY <1>1 DEF VisibilityChanges, SetHasFocus
  <2> QED BY <1>0, <1>a, <2>1 DEF AlwaysInv, calls, deferral, Busy
<1>2. CASE WatchRecords
  <2>1. ~watching /\ Busy
    BY <1>0, <1>2 DEF WatchRecords
  <2>2. /\ lastHidden' = hidden /\ endHandler' = TRUE
        /\ UNCHANGED <<hidden, focus, calls, activities, watching, paused, channel, outdated>>
    BY <1>2, <2>1 DEF WatchRecords, Defer, window
  <2> QED BY <1>0, <1>a, <2>1, <2>2 DEF AlwaysInv, calls, Busy
<1>3. CASE WatchIgnores
  <2>1. (lastHidden /\ ~focus) \/ lastHidden = hidden
    BY <1>3 DEF WatchIgnores
  <2>2. UNCHANGED <<window, calls, lastHidden, deferral, activities, watching, paused, channel, outdated>>
    BY <1>3 DEF WatchIgnores
  <2> QED BY <1>0, <1>a, <2>1, <2>2 DEF AlwaysInv, calls, deferral, window, Busy
<1>4. CASE WatchCancels
  <2>1. ~hidden
    BY <1>4 DEF WatchCancels, Cancelling
  <2>2. /\ lastHidden' = FALSE /\ deferred' = "none"
        /\ UNCHANGED <<hidden, focus, calls, activities, watching, paused, channel, outdated>>
    BY <1>4 DEF WatchCancels, window
  <2> QED BY <1>0, <1>a, <2>1, <2>2 DEF AlwaysInv, calls, Busy
<1>5. CASE WatchCommits
  <2> DEFINE c == [hidden |-> hidden, busy |-> Busy]
  <2>1. /\ commits' = Append(commits, c) /\ lastHidden' = hidden
        /\ UNCHANGED <<hidden, focus, resumes, deferral, activities, watching, paused, channel, outdated>>
    BY <1>5 DEF WatchCommits, window
  <2>2. c \in Call
    BY <1>0 DEF TypeOK, Call, Busy
  <2>3. SeenIsPossible'
    <3>1. \A i \in 1..Len(commits') : commits'[i] = c \/ (i \in 1..Len(commits) /\ commits'[i] = commits[i])
      <4>1. Len(commits') = Len(commits) + 1 /\ commits'[Len(commits) + 1] = c /\ Len(commits) \in Nat
            /\ \A i \in 1..Len(commits) : commits'[i] = commits[i]
        BY <1>0, <2>1, <2>2, CallAdded, LenProperties
      <4> HIDE DEF c
      <4> QED BY <4>1
    <3>2. c.busy => setup.activities > 0
      BY <1>0
    <3> HIDE DEF c
    <3> QED BY <1>0, <2>1, <3>1, <3>2 DEF SeenIsPossible
  <2> QED BY <1>0, <2>1, <2>3 DEF AlwaysInv, deferral, Busy
<1>6. CASE Committed
  <2> DEFINE c == Head(commits)
  <2>1. /\ commits # <<>> /\ commits' = Tail(commits)
        /\ UNCHANGED <<hidden, focus, timer, lastHidden, activities, watching, paused>>
    BY <1>6 DEF Committed, window
  <2>2. SeenIsPossible'
    <3>1. outdated' => outdated \/ c.busy
      BY <1>6 DEF Committed, Hide, Show
    <3> QED BY <1>0, <2>1, <3>1, RemovedTells DEF SeenIsPossible
  <2>3. CASE Hide(c)
    BY <1>0, <2>1, <2>2, <2>3 DEF AlwaysInv, Hide, Suspend, Defer, deferral, Busy
  <2>4. CASE Show(c)
    BY <1>0, <2>1, <2>2, <2>4 DEF AlwaysInv, Show, Resume, Defer, deferral, Busy
  <2> QED BY <1>6, <2>3, <2>4 DEF Committed
<1>7. CASE OnResumed
  <2>1. UNCHANGED <<window, timer, commits, lastHidden, deferral, activities, watching, paused>>
        /\ channel' = (IF paused \/ channel # "closed" THEN channel ELSE "open")
        /\ (outdated' => outdated)
    BY <1>7 DEF OnResumed, Opened
  <2>2. channel' = "closed" => paused
    BY <1>0, <2>1
  <2> QED BY <1>0, <1>a, <2>1, <2>2 DEF AlwaysInv, window, deferral, Busy
<1>8. CASE ActivityStarts
  <2>1. UNCHANGED <<window, timer, calls, lastHidden, deferral, watching, paused, channel, outdated>> /\ Busy'
    BY <1>0, <1>8 DEF ActivityStarts, Busy
  <2> QED BY <1>0, <1>a, <2>1 DEF AlwaysInv, window, calls, deferral
<1>9. CASE ActivityEnds
  <2>1. Busy /\ (watching \/ activities > 1)
        /\ UNCHANGED <<hidden, focus, timer, commits, lastHidden, watching, paused, outdated>>
        /\ activities' = activities - 1
    BY <1>9 DEF ActivityEnds, window
  <2>2. Busy' \/ watching
    BY <1>0, <2>1 DEF Busy
  <2>3. CASE ApplyDeferred
    BY <1>0, <1>a, <2>1, <2>2, <2>3, DeferredApplied DEF AlwaysInv
  <2>4. CASE UNCHANGED <<deferral, channel, resumes>>
    BY <1>0, <1>a, <2>1, <2>2, <2>4 DEF AlwaysInv, deferral
  <2> QED BY <1>9, <2>3, <2>4 DEF ActivityEnds
<1>10. CASE RebuildSuspendsWatching \/ RebuildResumesWatching
  <2>1. UNCHANGED <<window, timer, calls, lastHidden, deferral, activities, paused, channel, outdated>>
        /\ (~watching' => Busy)
    BY <1>10 DEF RebuildSuspendsWatching, RebuildResumesWatching
  <2> QED BY <1>0, <1>a, <2>1 DEF AlwaysInv, window, calls, deferral, Busy
<1>11. CASE Toggle
  <2>1. channel' = (IF paused' THEN "closed" ELSE "open")
        /\ UNCHANGED <<window, timer, calls, lastHidden, deferral, activities, watching, outdated>>
    BY <1>11 DEF Toggle
  <2> QED BY <1>0, <1>a, <2>1 DEF AlwaysInv, window, calls, deferral, Busy
<1>12. CASE Stall
  <2>1. channel = "open" /\ channel' = "stalled"
        /\ UNCHANGED <<window, timer, calls, lastHidden, deferral, activities, watching, paused, outdated>>
    BY <1>12 DEF Stall
  <2> QED BY <1>0, <1>a, <2>1 DEF AlwaysInv, window, calls, deferral, Busy
<1> QED BY <1>1, <1>2, <1>3, <1>4, <1>5, <1>6, <1>7, <1>8, <1>9, <1>10, <1>11, <1>12 DEF Next, Watch

-----------------------------------------------------------------------------
(* What holds unless a suspension was deferred by a call whose view was out *)
(* of date.                                                                 *)

LEMMA RecentStep ==
    ASSUME AlwaysInv, RecentInv, Next, ~outdated, ~outdated'
    PROVE  RecentInv'
<1> USE DEF RecentInv, HidingIsRecorded, DeferredIsRecorded, HidingIsOpen, ClosedIsTemporary, ClosedOnly
<1>0. /\ TypeOK /\ TypeOK' /\ setup' = setup /\ commits \in Seq(Call)
      /\ activities \in Nat /\ hidden \in BOOLEAN /\ lastHidden \in BOOLEAN /\ resumes \in Nat
      /\ WatchingStopsInActivity /\ KeptIsOpened /\ PausedIsClosed
  BY TypeStep, VisibilityAssumption DEF AlwaysInv, Next, TypeOK, Call, Setup
<1>c. commits = <<>> => ~LastHides
  BY NoCallTells
<1>1. CASE VisibilityChanges \/ SetHasFocus
  <2>1. UNCHANGED <<calls, lastHidden, deferral, activities, watching, paused, channel>>
    BY <1>1 DEF VisibilityChanges, SetHasFocus
  <2>2. (LastHides' <=> LastHides) /\ (SomeShows' <=> SomeShows) /\ (HidingAlternates' <=> HidingAlternates)
    BY <2>1, SameCallsTell DEF calls
  <2> QED BY <2>1, <2>2 DEF calls, deferral, Busy
<1>2. CASE WatchRecords
  <2>1. ~watching /\ Busy /\ ~LastHides
    BY <1>0, <1>2 DEF WatchRecords, WatchingStopsInActivity
  <2>2. /\ lastHidden' = hidden
        /\ deferred' = IF hidden THEN "suspend" ELSE "none"
        /\ UNCHANGED <<hidden, focus, calls, activities, watching, paused, channel>>
    BY <1>2, <2>1 DEF WatchRecords, Defer, window
  <2>3. (LastHides' <=> LastHides) /\ (SomeShows' <=> SomeShows) /\ (HidingAlternates' <=> HidingAlternates)
    BY <2>2, SameCallsTell DEF calls
  <2> QED BY <1>0, <2>1, <2>2, <2>3 DEF calls, Busy
<1>3. CASE WatchIgnores
  <2>1. UNCHANGED <<window, calls, lastHidden, deferral, activities, watching, paused, channel>>
    BY <1>3 DEF WatchIgnores
  <2>2. (LastHides' <=> LastHides) /\ (SomeShows' <=> SomeShows) /\ (HidingAlternates' <=> HidingAlternates)
    BY <2>1, SameCallsTell DEF calls
  <2> QED BY <2>1, <2>2 DEF calls, deferral, Busy
<1>4. CASE WatchCancels
  <2>1. ~hidden /\ Busy /\ deferred = "suspend" /\ ~LastHides
    BY <1>4 DEF WatchCancels, Cancelling
  <2>2. /\ lastHidden' = FALSE /\ deferred' = "none"
        /\ UNCHANGED <<calls, activities, watching, paused, channel>>
    BY <1>4 DEF WatchCancels
  <2>3. (LastHides' <=> LastHides) /\ (SomeShows' <=> SomeShows) /\ (HidingAlternates' <=> HidingAlternates)
    BY <2>2, SameCallsTell DEF calls
  <2> QED BY <2>1, <2>2, <2>3 DEF calls
<1>5. CASE WatchCommits
  <2> DEFINE c == [hidden |-> hidden, busy |-> Busy]
  <2>1. /\ commits' = Append(commits, c) /\ lastHidden' = hidden
        /\ UNCHANGED <<resumes, deferral, activities, watching, paused, channel>>
        /\ lastHidden # hidden /\ ~Cancelling /\ watching
    BY <1>5 DEF WatchCommits
  <2>2. c \in Call /\ c.hidden = hidden
    BY <1>0 DEF TypeOK, Call, Busy
  <2>3. deferred # "suspend"
    BY <1>0, <2>1 DEF Cancelling
  <2>4. /\ commits' # <<>>
        /\ LastHides' <=> hidden
        /\ SomeShows => SomeShows'
        /\ commits # <<>> /\ ~LastHides => SomeShows
        /\ HidingAlternates /\ ~(hidden /\ LastHides) => HidingAlternates'
    <3> HIDE DEF c
    <3> QED BY <1>0, <2>1, <2>2, AddedTells
  <2> QED BY <1>0, <1>c, <2>1, <2>3, <2>4 DEF deferral
<1>6. CASE Committed
  <2> DEFINE c == Head(commits)
  <2>1. /\ commits # <<>> /\ commits' = Tail(commits)
        /\ UNCHANGED <<hidden, focus, timer, lastHidden, activities, watching, paused>>
        /\ Busy' = Busy
    BY <1>6 DEF Committed, window, Busy
  <2>2. /\ LastHides <=> IF commits' = <<>> THEN c.hidden ELSE LastHides'
        /\ commits' = <<>> => ~LastHides'
        /\ HidingAlternates'
        /\ c.hidden /\ commits' # <<>> => SomeShows'
    BY <1>0, <2>1, RemovedTells
  <2>s. SomeShows /\ c.hidden => SomeShows' /\ commits' # <<>>
    BY <1>0, <2>1, RemovedTells
  <2>3. CASE Hide(c)
    <3>1. CASE KeepActive
      <4>1. UNCHANGED <<resumes, deferral, channel>> /\ (ClosedOnly => resumes > 0)
        BY <1>0, <2>3, <3>1 DEF Hide, KeptIsOpened
      <4> QED BY <1>0, <2>1, <2>2, <2>3, <4>1 DEF Hide, deferral
    <3>2. CASE ~KeepActive /\ c.busy
      <4>1. deferred' = "suspend" /\ UNCHANGED <<resumes, channel>> /\ Busy /\ commits' = <<>>
        BY <2>1, <2>3, <3>2 DEF Hide, Defer, OutOfDate
      <4>2. lastHidden /\ watching /\ ~LastHides'
        BY <2>2, <2>3, <4>1 DEF Hide
      <4>3. ClosedOnly => resumes > 0
        BY <2>2, <2>3, <2>s, <4>1 DEF Hide
      <4> QED BY <2>1, <2>2, <4>1, <4>2, <4>3
    <3>3. CASE ~KeepActive /\ ~c.busy
      <4>1. channel' = "closed" /\ UNCHANGED <<resumes, deferral>>
        BY <2>3, <3>3 DEF Hide, Suspend
      <4>2. commits' = <<>> => lastHidden /\ watching /\ deferred # "suspend"
        BY <2>2, <2>3 DEF Hide
      <4> QED BY <2>1, <2>2, <2>3, <4>1, <4>2 DEF Hide, deferral
    <3> QED BY <3>1, <3>2, <3>3
  <2>4. CASE Show(c)
    <3>1. CASE paused
      BY <2>1, <2>2, <2>4, <3>1 DEF Show, deferral
    <3>2. CASE ~paused /\ c.busy /\ KeepActive /\ LiveSync
      <4>1. deferred' = "restart" /\ resumes' = resumes /\ channel' = channel
        BY <2>4, <3>2 DEF Show, Defer
      <4>2. channel = "closed" => resumes > 0
        BY <1>0, <3>2 DEF KeptIsOpened
      <4> QED BY <2>1, <2>2, <2>4, <4>1, <4>2 DEF Show
    <3>3. CASE ~paused /\ ~(c.busy /\ KeepActive /\ LiveSync)
      <4>1. resumes' = resumes + 1 /\ UNCHANGED deferral
        BY <2>4, <3>3 DEF Show, Resume
      <4>2. resumes' > 0
        BY <1>0, <4>1
      <4> QED BY <2>1, <2>2, <2>4, <4>1, <4>2 DEF Show, deferral
    <3> QED BY <3>1, <3>2, <3>3
  <2> QED BY <1>6, <2>3, <2>4 DEF Committed
<1>7. CASE OnResumed
  <2>1. UNCHANGED <<window, timer, commits, lastHidden, deferral, activities, watching, paused>>
        /\ channel' = (IF paused \/ channel # "closed" THEN channel ELSE "open")
    BY <1>7 DEF OnResumed, Opened
  <2>2. channel' = "closed" => paused
    BY <2>1
  <2>3. (LastHides' <=> LastHides) /\ (SomeShows' <=> SomeShows) /\ (HidingAlternates' <=> HidingAlternates)
    BY <2>1, SameCallsTell
  <2> QED BY <2>1, <2>2, <2>3 DEF window, deferral, Busy
<1>8. CASE ActivityStarts
  <2>1. UNCHANGED <<window, timer, calls, lastHidden, deferral, watching, paused, channel>> /\ Busy'
    BY <1>0, <1>8 DEF ActivityStarts, Busy
  <2>2. (LastHides' <=> LastHides) /\ (SomeShows' <=> SomeShows) /\ (HidingAlternates' <=> HidingAlternates)
    BY <2>1, SameCallsTell DEF calls
  <2> QED BY <2>1, <2>2 DEF calls, deferral
<1>9. CASE ActivityEnds
  <2>1. Busy /\ (watching \/ activities > 1) /\ activities' = activities - 1
        /\ UNCHANGED <<commits, lastHidden, watching, paused>>
    BY <1>9 DEF ActivityEnds
  <2>2. (LastHides' <=> LastHides) /\ (SomeShows' <=> SomeShows) /\ (HidingAlternates' <=> HidingAlternates)
    BY <2>1, SameCallsTell
  <2>3. CASE activities = 1 /\ endHandler
    <3>1. watching /\ ApplyDeferred
      BY <1>9, <2>1, <2>3 DEF ActivityEnds
    <3> QED BY <1>0, <2>1, <2>2, <3>1, DeferredApplied
  <2>4. CASE ~(activities = 1 /\ endHandler)
    <3>1. UNCHANGED <<deferral, channel, resumes>>
      BY <1>9, <2>4 DEF ActivityEnds
    <3>2. Busy' \/ deferred = "none"
      BY <1>0, <2>1, <2>4 DEF AlwaysInv, DeferredHasHandler, Busy
    <3> QED BY <2>1, <2>2, <3>1, <3>2 DEF deferral
  <2> QED BY <2>3, <2>4
<1>10. CASE RebuildSuspendsWatching \/ RebuildResumesWatching
  <2>1. UNCHANGED <<window, timer, calls, lastHidden, deferral, activities, paused, channel>>
        /\ (watching' \/ ~lastHidden)
    BY <1>10 DEF RebuildSuspendsWatching, RebuildResumesWatching
  <2>2. (LastHides' <=> LastHides) /\ (SomeShows' <=> SomeShows) /\ (HidingAlternates' <=> HidingAlternates)
    BY <2>1, SameCallsTell DEF calls
  <2> QED BY <2>1, <2>2 DEF calls, deferral, Busy
<1>11. CASE Toggle
  <2>1. channel' = (IF paused' THEN "closed" ELSE "open")
        /\ UNCHANGED <<window, timer, calls, lastHidden, deferral, activities, watching>>
    BY <1>11 DEF Toggle
  <2>2. (LastHides' <=> LastHides) /\ (SomeShows' <=> SomeShows) /\ (HidingAlternates' <=> HidingAlternates)
    BY <2>1, SameCallsTell DEF calls
  <2>3. ~ClosedOnly'
    BY <2>1
  <2> QED BY <2>1, <2>2, <2>3 DEF calls, deferral, Busy
<1>12. CASE Stall
  <2>1. channel' = "stalled"
        /\ UNCHANGED <<window, timer, calls, lastHidden, deferral, activities, watching, paused>>
    BY <1>12 DEF Stall
  <2>2. (LastHides' <=> LastHides) /\ (SomeShows' <=> SomeShows) /\ (HidingAlternates' <=> HidingAlternates)
    BY <2>1, SameCallsTell DEF calls
  <2> QED BY <2>1, <2>2 DEF calls, deferral, Busy
<1> QED BY <1>1, <1>2, <1>3, <1>4, <1>5, <1>6, <1>7, <1>8, <1>9, <1>10, <1>11, <1>12 DEF Next, Watch

\* Resumed, with no call under way and no deferred suspension, everything is
\* as it was recorded again.
LEMMA RecentAgain ==
    ASSUME AlwaysInv, Next, outdated, ~outdated'
    PROVE  RecentInv'
<1>1. OnResumed
  BY DEF Next, VisibilityChanges, SetHasFocus, Watch, WatchRecords, WatchIgnores, WatchCancels, WatchCommits,
     Committed, Hide, Show, ActivityStarts, ActivityEnds, RebuildSuspendsWatching, RebuildResumesWatching,
     Toggle, Stall
<1>2. ~paused' /\ deferred' # "suspend" /\ commits' = <<>> /\ channel' # "closed"
  BY <1>1 DEF OnResumed, Opened, deferral
<1>3. ~LastHides' /\ HidingAlternates'
  BY <1>2, EmptySeq DEF LastHides, HidingAlternates
<1> QED
  BY <1>2, <1>3 DEF RecentInv, HidingIsRecorded, DeferredIsRecorded, HidingIsOpen, ClosedIsTemporary, ClosedOnly

-----------------------------------------------------------------------------
(* A channel that stalls does so in a hidden window, and only when nothing  *)
(* but it is synchronised continuously.                                     *)

LEMMA StallStep ==
    ASSUME VisibilityInv, Next
    PROVE  StallInv'
<1> SUFFICES ASSUME channel' = "stalled"
             PROVE  LiveSync /\ (KeepActive /\ setup.activities = 0 => lastHidden' \/ commits' # <<>>)
  BY DEF StallInv, LiveSync, KeepActive, Next
<1>0. AlwaysInv /\ TypeOK /\ StallInv /\ commits \in Seq(Call) /\ (Busy => setup.activities # 0)
      /\ (outdated => setup.activities # 0)
  BY BusyMeansSome, VisibilityAssumption DEF VisibilityInv, AlwaysInv, TypeOK, Setup, Call, SeenIsPossible
<1>1. CASE Stall
  BY <1>1 DEF Stall
<1>2. CASE Committed
  <2>1. commits # <<>> /\ commits' = Tail(commits) /\ lastHidden' = lastHidden
    BY <1>2 DEF Committed
  <2>2. /\ commits' = <<>> /\ Head(commits).hidden => LastHides
        /\ Head(commits).busy => setup.activities # 0
    BY <1>0, <2>1, RemovedTells, VisibilityAssumption DEF AlwaysInv, SeenIsPossible, TypeOK, Setup
  <2>3. channel = "stalled"
    BY <1>2 DEF Committed, Hide, Show, Suspend, Resume
  <2>4. CASE Hide(Head(commits))
    <3>1. setup.activities = 0 => ~LastHides \/ lastHidden
      BY <1>0 DEF VisibilityInv, RecentInv, HidingIsRecorded
    <3> QED BY <1>0, <2>1, <2>2, <2>3, <2>4, <3>1 DEF Hide, StallInv
  <2>5. CASE Show(Head(commits))
    <3>1. ~paused
      BY <1>0, <2>3 DEF AlwaysInv, PausedIsClosed
    <3>2. Head(commits).busy \/ ~(KeepActive /\ LiveSync)
      BY <2>5, <3>1 DEF Show, Resume
    <3> QED BY <1>0, <2>2, <2>3, <3>2 DEF StallInv
  <2> QED BY <1>2, <2>4, <2>5 DEF Committed
<1>3. CASE Watch
  <2>1. channel = "stalled" /\ (lastHidden' # lastHidden => Busy \/ commits' # <<>>)
        /\ (commits' # commits => commits' # <<>>)
    <3>1. CASE WatchRecords
      BY <1>3, <3>1 DEF WatchRecords, calls
    <3>2. CASE WatchIgnores
      BY <1>3, <3>2 DEF WatchIgnores, calls
    <3>3. CASE WatchCancels
      BY <1>3, <3>3 DEF WatchCancels, Cancelling, calls
    <3>4. CASE WatchCommits
      <4>1. [hidden |-> hidden, busy |-> Busy] \in Call
        BY <1>0 DEF TypeOK, Call, Busy
      <4>2. commits' # <<>>
        BY <1>0, <3>4, <4>1, CallAdded DEF WatchCommits
      <4> QED BY <3>4, <4>2 DEF WatchCommits
    <3> QED BY <1>3, <3>1, <3>2, <3>3, <3>4 DEF Watch
  <2> QED BY <1>0, <2>1 DEF StallInv
<1>4. CASE VisibilityChanges \/ SetHasFocus \/ OnResumed \/ ActivityStarts \/ ActivityEnds
           \/ RebuildSuspendsWatching \/ RebuildResumesWatching \/ Toggle
  <2>1. commits' = commits /\ lastHidden' = lastHidden
    BY <1>4 DEF VisibilityChanges, SetHasFocus, OnResumed, ActivityStarts, ActivityEnds,
       RebuildSuspendsWatching, RebuildResumesWatching, Toggle, calls
  <2>2. channel = "stalled"
    <3>1. CASE ActivityEnds
      BY <3>1, DeferredApplied DEF ActivityEnds
    <3> QED BY <1>4, <3>1 DEF VisibilityChanges, SetHasFocus, OnResumed, Opened, ActivityStarts,
               RebuildSuspendsWatching, RebuildResumesWatching, Toggle
  <2> QED BY <1>0, <2>1, <2>2 DEF StallInv
<1> QED BY <1>1, <1>2, <1>3, <1>4 DEF Next

LEMMA VisibilityStep == VisibilityInv /\ [Next]_vars => VisibilityInv'
<1> SUFFICES ASSUME VisibilityInv, [Next]_vars PROVE VisibilityInv'
  OBVIOUS
<1>1. CASE Next
  <2>1. AlwaysInv' /\ StallInv'
    BY <1>1, AlwaysStep, StallStep DEF VisibilityInv
  <2>2. ~outdated' => RecentInv'
    BY <1>1, RecentStep, RecentAgain DEF VisibilityInv
  <2> QED BY <2>1, <2>2 DEF VisibilityInv
<1>2. CASE UNCHANGED vars
  <2>1. TypeOK'
    BY TypeStep DEF VisibilityInv, AlwaysInv
  <2>2. AlwaysInv'
    BY <1>2, <2>1 DEF vars, window, calls, deferral, VisibilityInv, AlwaysInv, WatchingStopsInActivity,
       DeferredHasHandler, PausedIsClosed, ChangeIsTimed, KeptIsOpened, SeenIsPossible, KeepActive, Busy
  <2>3. ~outdated' => RecentInv'
    <3>1. (LastHides' <=> LastHides) /\ (SomeShows' <=> SomeShows) /\ (HidingAlternates' <=> HidingAlternates)
      BY <1>2, SameCallsTell DEF vars, calls
    <3> QED BY <1>2, <3>1 DEF vars, window, calls, deferral, VisibilityInv, RecentInv, HidingIsRecorded,
       DeferredIsRecorded, HidingIsOpen, ClosedIsTemporary, ClosedOnly, Busy
  <2>4. StallInv'
    BY <1>2 DEF vars, calls, VisibilityInv, StallInv, LiveSync, KeepActive
  <2> QED BY <2>2, <2>3, <2>4 DEF VisibilityInv
<1> QED BY <1>1, <1>2

-----------------------------------------------------------------------------
(* The theorems. *)

\* The types, for any settings and number of calls.
THEOREM TypeCorrect == Spec => []TypeOK
<1>1. Init => TypeOK
  BY InitVisibility DEF VisibilityInv, AlwaysInv
<1> QED BY <1>1, TypeStep, PTL DEF Spec

LEMMA Visible == Spec => []VisibilityInv
BY InitVisibility, VisibilityStep, PTL DEF Spec

\* What is visible and focussed replicates, once events, calls and activities
\* are over, unless a suspension was deferred by a call whose view was out of
\* date: whatever begins and ends during the awaits of the calls.
THEOREM Open == Spec => []OpenWhenVisible
<1>1. VisibilityInv => OpenWhenVisible
  <2> SUFFICES ASSUME VisibilityInv, Settled, ~hidden, focus, ~paused, ~outdated PROVE channel # "closed"
    BY DEF OpenWhenVisible
  <2>1. ClosedIsTemporary /\ ChangeIsTimed /\ TypeOK
    BY DEF VisibilityInv, AlwaysInv, RecentInv
  <2> QED BY <2>1 DEF Settled, ClosedIsTemporary, ClosedOnly, ChangeIsTimed, TypeOK
<1> QED BY <1>1, Visible, PTL

LEMMA AwaitedStep ==
    ASSUME AlwaysInv, Next, deferred' # "none"
    PROVE  endHandler' /\ (Busy' \/ (deferred # "none" /\ ~Busy) \/ SawActivity)
<1>0. AlwaysInv' /\ activities \in Nat
  BY AlwaysStep, VisibilityAssumption DEF AlwaysInv, TypeOK, Setup
<1>1. endHandler'
  BY <1>0 DEF AlwaysInv, DeferredHasHandler
<1>2. CASE WatchRecords
  BY <1>1, <1>2 DEF WatchRecords, Busy, deferral, AlwaysInv, WatchingStopsInActivity
<1>3. CASE Committed
  BY <1>1, <1>3 DEF Committed, Hide, Show, Suspend, Resume, SawActivity, deferral, Busy
<1>4. CASE ActivityEnds
  <2>1. ~ApplyDeferred
    BY DEF ApplyDeferred
  <2>2. activities # 1 /\ Busy
    BY <1>4, <2>1 DEF ActivityEnds, AlwaysInv, DeferredHasHandler, deferral
  <2> QED BY <1>0, <1>1, <1>4, <2>2 DEF ActivityEnds, Busy
<1>5. CASE ActivityStarts
  BY <1>0, <1>1, <1>5 DEF ActivityStarts, Busy
<1>6. CASE VisibilityChanges \/ SetHasFocus \/ WatchIgnores \/ WatchCancels \/ WatchCommits \/ OnResumed
           \/ RebuildSuspendsWatching \/ RebuildResumesWatching \/ Toggle \/ Stall
  BY <1>1, <1>6 DEF VisibilityChanges, SetHasFocus, WatchIgnores, WatchCancels, WatchCommits, OnResumed,
     RebuildSuspendsWatching, RebuildResumesWatching, Toggle, Stall, Busy, deferral
<1> QED BY <1>1, <1>2, <1>3, <1>4, <1>5, <1>6 DEF Next, Watch

\* A deferred action waits for an activity whose end will be noticed, unless
\* the call that defers it had seen one that ended during its await.
THEOREM Awaited == Spec => DeferredIsAwaited
<1>1. VisibilityInv /\ [Next]_vars
        => [deferred' # "none" => endHandler' /\ (Busy' \/ (deferred # "none" /\ ~Busy) \/ SawActivity)]_vars
  BY AwaitedStep DEF VisibilityInv
<1> QED BY <1>1, Visible, PTL DEF Spec, DeferredIsAwaited

\* Where the replication is kept active in the background and no activity
\* runs, a window that is shown never keeps a channel that stalled.
THEOREM Fresh == Spec => []FreshWhenVisible
<1>1. VisibilityInv => FreshWhenVisible
  BY DEF VisibilityInv, AlwaysInv, StallInv, FreshWhenVisible, Settled, ChangeIsTimed, TypeOK
<1> QED BY <1>1, Visible, PTL

LEMMA WaitsStep ==
    ASSUME AlwaysInv, Next, channel # "closed", channel' = "closed", ~paused'
    PROVE  activities' = 0 \/ SawNoActivity
<1>1. CASE Committed
  BY <1>1 DEF Committed, Hide, Show, Suspend, Resume, SawNoActivity
<1>2. CASE ActivityEnds
  BY <1>2 DEF ActivityEnds
<1>3. CASE Toggle
  BY <1>3 DEF Toggle
<1>4. CASE OnResumed
  BY <1>4 DEF OnResumed, Opened
<1>5. CASE VisibilityChanges \/ SetHasFocus \/ Watch \/ ActivityStarts \/ RebuildSuspendsWatching
           \/ RebuildResumesWatching \/ Stall
  BY <1>5 DEF VisibilityChanges, SetHasFocus, Watch, WatchRecords, WatchIgnores, WatchCancels,
     WatchCommits, ActivityStarts, RebuildSuspendsWatching, RebuildResumesWatching, Stall
<1> QED BY <1>1, <1>2, <1>3, <1>4, <1>5 DEF Next

\* Hiding the window does not interrupt a bounded activity, unless it began
\* during the await of the call.
THEOREM Waits == Spec => SuspensionWaits
<1>1. VisibilityInv /\ [Next]_vars
        => [channel # "closed" /\ channel' = "closed" /\ ~paused' => activities' = 0 \/ SawNoActivity]_vars
  BY WaitsStep DEF VisibilityInv
<1> QED BY <1>1, Visible, PTL DEF Spec, SuspensionWaits
=============================================================================
