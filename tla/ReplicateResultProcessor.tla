---------------------- MODULE ReplicateResultProcessor ----------------------
(***************************************************************************)
(* src/modules/core/ReplicateResultProcessor.ts: the queue between the     *)
(* local database, which replication fills, and the vault, to which the    *)
(* documents that arrived are reflected.                                   *)
(*                                                                         *)
(* A change is a document and a revision of it (1, 2, ...: the history of  *)
(* a document is linear unless the document is in Conflicting).  `pending' *)
(* holds the changes in memory, those of _queuedChanges (pc = "queued")    *)
(* and those of _processingChanges (the other pc's), each with the stamp   *)
(* `at' that orders them: stamps grow in arrival order, the queue is       *)
(* served in that order, so that processing ++ queued, the order of a      *)
(* snapshot, is the order of the stamps.  enqueueAll is a synchronous loop *)
(* over its argument: `inbox' holds what it has still to visit, and no     *)
(* other action runs while it is not empty.                                *)
(***************************************************************************)
EXTENDS Integers, Sequences, FiniteSets

CONSTANTS
    Docs,          \* the documents of the local database
    Deleted,       \* the <<document, revision>> pairs that are deletions
    Removed,       \* those of them with which the document itself is removed (_deleted)
    Ignored,       \* the documents the parsing phase returns early for
    Conflicting,   \* the documents that may have conflicts when they are read
    SemaphoreLimit,\* permits of _semaphore (10 in the code)
    BatchSize,     \* REPROCESS_BATCH_SIZE (100 in the code)
    PauseKinds,    \* the suspension switches the user may toggle
    Faults,        \* the operations that may fail
    MaxRev,        \* bound: revisions replicated, per document
    MaxCrashes,    \* bound: restarts
    MaxKvOps,      \* bound: key-value operations in flight when a snapshot is triggered
    MaxRefilters   \* bound: changes of the reflection filter

ASSUME ConstantsAssumption ==
    /\ Deleted \subseteq Docs \X (Nat \ {0}) /\ Removed \subseteq Deleted
    /\ Ignored \subseteq Docs
    /\ Conflicting \subseteq Docs
    /\ SemaphoreLimit \in Nat \ {0}
    /\ BatchSize \in Nat \ {0}
    /\ PauseKinds \subseteq {"setting", "app"}
    /\ Faults \subseteq {"get", "put", "read", "gather"}
    /\ MaxRev \in [Docs -> Nat]
    /\ MaxCrashes \in Nat /\ MaxKvOps \in Nat /\ MaxRefilters \in Nat

VARIABLES
    (* durable *)
    latest,      \* per document, the winning revision of the local database (0: none)
    delivered,   \* per document, the last revision replication handed to enqueueAll
    handed,      \* per document, the last revision given to processSynchroniseResult
    snapshot,    \* the value of the snapshot key in the key-value database
    (* memory *)
    inbox,       \* the changes enqueueAll has still to visit
    pending,     \* _queuedChanges and _processingChanges
    running,     \* _isRunningProcessQueue
    suspended,   \* _suspended
    paused,      \* settings.suspendParseReplicationResult and appLifecycle.isSuspended()
    saveDue,     \* a switch was toggled and EVENT_SETTING_SAVED has not been emitted yet
    activity,    \* _processingActivity: none, open, or resolved and not yet settled
    snapshotDue, \* the throttled triggerTakeSnapshot is armed
    kvOps,       \* the operations issued to the key-value database, in order
    restore,     \* _restoreFromSnapshot
    ready,       \* appLifecycle.isReady()
    unread,      \* the documents reprocessStoredDocuments has still to read
    batch,       \* the batch of reprocessStoredDocuments
    (* bookkeeping *)
    settled,     \* per document, the highest revision that left _processingChanges
    reached,     \* per document, the highest revision given to processSynchroniseResult
    crashes,     \* restarts so far
    refilters    \* changes of the reflection filter so far

db    == <<latest, delivered>>
pause == <<suspended, paused, saveDue>>
kv    == <<snapshot, kvOps, snapshotDue>>
boot  == <<restore, ready, crashes>>
scan  == <<unread, batch, refilters>>
vars  == <<db, handed, reached, inbox, pending, running, pause, activity, kv, boot, scan, settled>>

-----------------------------------------------------------------------------
Rev    == Nat \ {0}
Change == [id : Docs, rev : Rev, at : Nat \ {0}]
Phases == {"queued", "parsing", "permit", "lock", "check", "apply", "leave"}
Entry  == [id : Docs, rev : Rev, at : Nat \ {0}, pc : Phases]

First(S)  == CHOOSE c \in S : \A d \in S : c.at <= d.at
NextAt(S) == IF S = {} THEN 1 ELSE 1 + (CHOOSE c \in S : \A d \in S : d.at <= c.at).at

Queued(P)  == {e \in P : e.pc = "queued"}
Started(P) == P \ Queued(P)
Plain(P)   == {[id |-> e.id, rev |-> e.rev, at |-> e.at] : e \in P}
At(e, pc)  == [e EXCEPT !.pc = pc]
Move(e, pc) == pending' = (pending \ {e}) \cup {At(e, pc)}

\* isSuspended; appLifecycle.isReady is a method that is never called here, so
\* its negation is always false and readiness takes no part.
IsSuspendedWith(s, p) == s \/ p["setting"] \/ p["app"]
IsSuspended == IsSuspendedWith(suspended, paused)

\* Variant: runProcessQueue keeps its permit while applyToDatabase awaits another.
HoldersFromStart == Started(pending)

\* A permit of _semaphore is held from its acquisition to the end of applyToDatabase.
Holders == {e \in pending : e.pc \in {"lock", "check", "apply"}}
PermitFree == Cardinality(Holders) < SemaphoreLimit

\* updateProcessingActivity on the activity a.
UpdatedActivity(a, isSuspended, hasPending) ==
    IF isSuspended \/ ~hasPending
    THEN IF a = "open" THEN "closing" ELSE a
    ELSE IF a = "none" THEN "open" ELSE a

\* The synchronous part of runProcessQueue: the loop is entered or left alone.
LoopEntered(isSuspended, queue) == running \/ (~isSuspended /\ queue # {})

Get       == [op |-> "get", data |-> {}, final |-> FALSE]
Put(S, f) == [op |-> "put", data |-> Plain(S), final |-> f]

-----------------------------------------------------------------------------
Init ==
    /\ latest = [d \in Docs |-> 0] /\ delivered = [d \in Docs |-> 0]
    /\ handed = [d \in Docs |-> 0] /\ settled = [d \in Docs |-> 0] /\ reached = [d \in Docs |-> 0]
    /\ snapshot = {}
    /\ inbox = {} /\ pending = {} /\ running = FALSE
    /\ suspended = FALSE /\ paused = [k \in {"setting", "app"} |-> FALSE] /\ saveDue = FALSE
    /\ activity = "none"
    /\ snapshotDue = FALSE /\ kvOps = <<>>
    /\ restore = "none" /\ ready = FALSE
    /\ unread = {} /\ batch = {}
    /\ crashes = 0 /\ refilters = 0

-----------------------------------------------------------------------------
(* Start-up. *)

\* _everyOnDatabaseInitialized: restoreFromSnapshotOnce reads the snapshot.
OnDatabaseInitialized ==
    /\ restore = "none"
    /\ restore' = "issued"
    /\ kvOps' = Append(kvOps, Get)
    /\ UNCHANGED <<db, handed, reached, inbox, pending, running, pause, activity, snapshot, snapshotDue,
                   ready, crashes, scan, settled>>

OnReady ==
    /\ ~ready /\ restore # "none"
    /\ ready' = TRUE
    /\ UNCHANGED <<db, handed, reached, inbox, pending, running, pause, activity, kv, restore, crashes,
                   scan, settled>>

(* The key-value database completes its operations in the order they were issued. *)

\* Variant: the changes of the snapshot go to _processingChanges, where no job
\* has them.
RestoreAsProcessing ==
    /\ kvOps # <<>> /\ Head(kvOps).op = "get"
    /\ kvOps' = Tail(kvOps)
    /\ restore' = "done"
    /\ inbox' = Plain(Queued(pending))
    /\ pending' = {[id |-> c.id, rev |-> c.rev, at |-> c.at, pc |-> "processing"] : c \in snapshot}
    /\ UNCHANGED <<db, handed, reached, running, pause, activity, snapshot, snapshotDue, ready,
                   crashes, scan, settled>>

\* restoreFromSnapshot after its read: the queue becomes empty and
\* processing ++ queued of the snapshot, then the former queue, are enqueued.
RestoreFromSnapshot ==
    /\ kvOps # <<>> /\ Head(kvOps).op = "get"
    /\ kvOps' = Tail(kvOps)
    /\ restore' = "done"
    /\ inbox' = snapshot \cup {[c EXCEPT !.at = @ + NextAt(snapshot)] : c \in Plain(Queued(pending))}
    /\ pending' = Started(pending)
    /\ UNCHANGED <<db, handed, reached, running, pause, activity, snapshot, snapshotDue, ready, crashes,
                   scan, settled>>

\* A rejected read stays the value of _restoreFromSnapshot.
RestoreFails ==
    /\ "get" \in Faults
    /\ kvOps # <<>> /\ Head(kvOps).op = "get"
    /\ kvOps' = Tail(kvOps)
    /\ restore' = "failed"
    /\ UNCHANGED <<db, handed, reached, inbox, pending, running, pause, activity, snapshot, snapshotDue,
                   ready, crashes, scan, settled>>

\* Variant: a rejected final snapshot does not reach updateProcessingActivity.
SnapshotSettlesOnlyIfStored ==
    /\ kvOps # <<>> /\ Head(kvOps).op = "put"
    /\ kvOps' = Tail(kvOps)
    /\ \/ /\ snapshot' = Head(kvOps).data
          /\ activity' = IF Head(kvOps).final
                         THEN UpdatedActivity(activity, IsSuspended, pending # {}) ELSE activity
       \/ "put" \in Faults /\ UNCHANGED <<snapshot, activity>>
    /\ UNCHANGED <<db, handed, reached, inbox, pending, running, pause, snapshotDue, boot, scan, settled>>

\* A snapshot is stored, or the write is rejected: both end the final
\* snapshot of parseDocumentChange, which then updates the activity.
SnapshotSettles ==
    /\ kvOps # <<>> /\ Head(kvOps).op = "put"
    /\ kvOps' = Tail(kvOps)
    /\ \/ snapshot' = Head(kvOps).data
       \/ "put" \in Faults /\ snapshot' = snapshot
    /\ activity' = IF Head(kvOps).final
                   THEN UpdatedActivity(activity, IsSuspended, pending # {}) ELSE activity
    /\ UNCHANGED <<db, handed, reached, inbox, pending, running, pause, snapshotDue, boot, scan, settled>>

\* Variant: the changes being processed are left out of the snapshot.
TakeSnapshotOfQueue ==
    /\ snapshotDue /\ Len(kvOps) < MaxKvOps
    /\ snapshotDue' = FALSE
    /\ kvOps' = Append(kvOps, Put(Queued(pending), FALSE))
    /\ UNCHANGED <<db, handed, reached, inbox, pending, running, pause, activity, snapshot, boot, scan, settled>>

\* _takeSnapshot, when the throttle lets the trigger through.
TakeSnapshot ==
    /\ snapshotDue /\ Len(kvOps) < MaxKvOps
    /\ snapshotDue' = FALSE
    /\ kvOps' = Append(kvOps, Put(pending, FALSE))
    /\ UNCHANGED <<db, handed, reached, inbox, pending, running, pause, activity, snapshot, boot, scan, settled>>

-----------------------------------------------------------------------------
(* Arrival. *)

\* Replication (external) stores a revision in the local database ...
Replicate(d) ==
    /\ ready /\ restore = "done" /\ latest[d] < MaxRev[d]
    /\ latest' = [latest EXCEPT ![d] = @ + 1]
    /\ UNCHANGED <<delivered, handed, reached, inbox, pending, running, pause, activity, kv, boot, scan, settled>>

\* ... and _parseReplicationResult gives it to enqueueAll.
ParseReplicationResult(d) ==
    /\ ready /\ restore = "done" /\ delivered[d] < latest[d]
    /\ delivered' = [delivered EXCEPT ![d] = @ + 1]
    /\ inbox' = {[id |-> d, rev |-> delivered[d] + 1, at |-> 1]}
    /\ UNCHANGED <<latest, handed, reached, pending, running, pause, activity, kv, boot, scan, settled>>

IsDeletion(c) == <<c.id, c.rev>> \in Deleted

\* The queue after enqueueChange(c): the first queued change of the same
\* document decides; one of the same kind has all of them replaced.
QueueAfter(c, queue) ==
    LET same == {e \in queue : e.id = c.id}
        kept == IF same # {} /\ IsDeletion(First(same)) = IsDeletion(c) THEN queue \ same ELSE queue
    IN  kept \cup {[id |-> c.id, rev |-> c.rev, at |-> NextAt(pending), pc |-> "queued"]}

\* Variant: any queued change of the document counts, whatever its revision.
SameDocumentQueued(c) == \E e \in Queued(pending) : e.id = c.id

AlreadyQueued(c) ==
    LET same == {e \in Queued(pending) : e.id = c.id}
    IN  same # {} /\ First(same).rev = c.rev

\* One round of enqueueAll's loop: enqueueChange of the next change.
EnqueueChange ==
    /\ inbox # {}
    /\ LET c == First(inbox)
           queue == QueueAfter(c, Queued(pending))
       IN  /\ inbox' = inbox \ {c}
           /\ IF AlreadyQueued(c)
              THEN UNCHANGED <<pending, running, activity, snapshotDue>>
              ELSE /\ pending' = Started(pending) \cup queue
                   /\ activity' = UpdatedActivity(activity, IsSuspended, TRUE)
                   /\ snapshotDue' = TRUE
                   /\ running' = LoopEntered(IsSuspended, queue)
    /\ UNCHANGED <<db, handed, reached, pause, snapshot, kvOps, boot, scan, settled>>

-----------------------------------------------------------------------------
(* Processing. *)

\* A round of runProcessQueue: a permit is awaited and released at once, the
\* next change is started, and the loop goes on unless it has got suspended.
RunProcessQueue ==
    /\ running /\ PermitFree
    /\ LET queue == Queued(pending)
       IN  IF queue = {}
           THEN running' = FALSE /\ UNCHANGED pending
           ELSE /\ Move(First(queue), "parsing")
                /\ running' = (queue # {First(queue)} /\ ~IsSuspended)
    /\ snapshotDue' = TRUE
    /\ UNCHANGED <<db, handed, reached, inbox, pause, activity, snapshot, kvOps, boot, scan, settled>>

\* parseDocumentChange up to applyToDatabase.
ParseDocumentChange(e) ==
    /\ e.pc = "parsing"
    /\ Move(e, IF e.id \in Ignored THEN "leave" ELSE "permit")
    /\ UNCHANGED <<db, handed, reached, inbox, running, pause, activity, kv, boot, scan, settled>>

\* applyToDatabase: the permit.
AcquirePermit(e) ==
    /\ e.pc = "permit" /\ PermitFree
    /\ Move(e, "lock")
    /\ UNCHANGED <<db, handed, reached, inbox, running, pause, activity, kv, boot, scan, settled>>

\* Variant: not serialized.
AcquireNoLock(e) ==
    /\ e.pc = "lock"
    /\ Move(e, "check")
    /\ UNCHANGED <<db, handed, reached, inbox, running, pause, activity, kv, boot, scan, settled>>

\* _applyToDatabase: serialized per document.
AcquireLock(e) ==
    /\ e.pc = "lock"
    /\ \A f \in pending : f.id = e.id => f.pc \notin {"check", "apply"}
    /\ Move(e, "check")
    /\ UNCHANGED <<db, handed, reached, inbox, running, pause, activity, kv, boot, scan, settled>>

\* Variant: every change is required.
AlwaysRequired(e) == {TRUE}

\* The document is not found: its winning revision removes it.
NotFound(d) == <<d, latest[d]>> \in Removed

\* What checkIsChangeRequiredForDatabaseProcessing may answer.  A change of a
\* document that is not found is required, however old it is.  A revision
\* outside the list of the winner's is one of another branch: its document is
\* in Conflicting.
IsRequired(e) ==
    {e.rev >= latest[e.id] \/ NotFound(e.id)}
        \cup (IF e.id \in Conflicting THEN {TRUE} ELSE {})
        \cup (IF "read" \in Faults THEN {FALSE} ELSE {})

CheckIsChangeRequired(e) ==
    /\ e.pc = "check"
    /\ \E required \in IsRequired(e) : Move(e, IF required THEN "apply" ELSE "leave")
    /\ UNCHANGED <<db, handed, reached, inbox, running, pause, activity, kv, boot, scan, settled>>

\* The content is gathered and given to processSynchroniseResult; the lock
\* and the permit are released.  Failures are logged and swallowed.
ApplyToStorage(e) ==
    /\ e.pc = "apply"
    /\ Move(e, "leave")
    /\ \/ /\ handed' = [handed EXCEPT ![e.id] = e.rev]
          /\ reached' = [reached EXCEPT ![e.id] = IF @ < e.rev THEN e.rev ELSE @]
       \/ "gather" \in Faults /\ UNCHANGED <<handed, reached>>
    /\ UNCHANGED <<db, inbox, running, pause, activity, kv, boot, scan, settled>>

\* The finally block of parseDocumentChange.
LeaveProcessing(e) ==
    /\ e.pc = "leave"
    /\ pending' = pending \ {e}
    /\ settled' = [settled EXCEPT ![e.id] = IF @ < e.rev THEN e.rev ELSE @]
    /\ IF pending = {e}
       THEN kvOps' = Append(kvOps, Put({}, TRUE)) /\ UNCHANGED <<snapshotDue, activity>>
       ELSE /\ snapshotDue' = TRUE
            /\ activity' = UpdatedActivity(activity, IsSuspended, TRUE)
            /\ UNCHANGED kvOps
    /\ UNCHANGED <<db, handed, reached, inbox, running, pause, snapshot, boot, scan>>

\* Variant: the activity is not updated again after it was cleared.
ActivityClears ==
    /\ activity = "closing"
    /\ activity' = "none"
    /\ UNCHANGED <<db, handed, reached, inbox, pending, running, pause, kv, boot, scan, settled>>

\* The finally block of the activity's promise.
ActivitySettles ==
    /\ activity = "closing"
    /\ activity' = UpdatedActivity("none", IsSuspended, pending # {})
    /\ UNCHANGED <<db, handed, reached, inbox, pending, running, pause, kv, boot, scan, settled>>

-----------------------------------------------------------------------------
(* Suspension and the settings. *)

\* The user toggles a switch; the settings are saved afterwards.
Toggle(k) ==
    /\ paused' = [paused EXCEPT ![k] = ~@]
    /\ saveDue' = TRUE
    /\ UNCHANGED <<db, handed, reached, inbox, pending, running, suspended, activity, kv, boot, scan, settled>>

\* Variant: resume() does not run the queue.
SuspendOrResumeOnly ==
    /\ suspended' = paused["setting"]
    /\ activity' = UpdatedActivity(activity, IsSuspendedWith(suspended', paused), pending # {})
    /\ UNCHANGED running

\* suspend() or resume() on EVENT_SETTING_SAVED.
SuspendOrResume ==
    /\ suspended' = paused["setting"]
    /\ activity' = UpdatedActivity(activity, IsSuspendedWith(suspended', paused), pending # {})
    /\ running' = IF suspended' THEN running
                  ELSE LoopEntered(IsSuspendedWith(suspended', paused), Queued(pending))

SettingSaved ==
    /\ saveDue
    /\ saveDue' = FALSE
    /\ SuspendOrResume
    /\ UNCHANGED <<db, handed, reached, inbox, pending, paused, kv, boot, scan, settled>>

\* EVENT_SETTING_SAVED when the reflection filter differs from the previous
\* one: reprocessStoredDocuments is started as well.
FilterSaved ==
    /\ refilters < MaxRefilters /\ restore # "none" /\ unread = {} /\ batch = {}
    /\ refilters' = refilters + 1
    /\ unread' = {d \in Docs : latest[d] > 0}
    /\ SuspendOrResume
    /\ UNCHANGED <<db, handed, reached, inbox, pending, paused, saveDue, kv, boot, batch, settled>>

\* reprocessStoredDocuments reads the next document, a removed one is not
\* listed; a full batch is enqueued.
ReprocessRead(d) ==
    /\ d \in unread
    /\ unread' = unread \ {d}
    /\ LET grown == batch \cup {[id |-> d, rev |-> latest[d], at |-> NextAt(batch)]}
       IN  IF NotFound(d)
           THEN UNCHANGED <<batch, inbox>>
           ELSE IF Cardinality(grown) < BatchSize
           THEN batch' = grown /\ UNCHANGED inbox
           ELSE batch' = {} /\ inbox' = grown
    /\ UNCHANGED <<db, handed, reached, pending, running, pause, activity, kv, boot, refilters, settled>>

ReprocessRest ==
    /\ unread = {} /\ batch # {}
    /\ batch' = {} /\ inbox' = batch
    /\ UNCHANGED <<db, handed, reached, pending, running, pause, activity, kv, boot, unread, refilters, settled>>

-----------------------------------------------------------------------------
\* The application is killed and started again: memory is lost, and so are the
\* operations the key-value database has not completed.  A revision that was
\* stored but not handed over may not be announced by replication again.
Crash ==
    /\ crashes < MaxCrashes
    /\ crashes' = crashes + 1
    /\ delivered' \in {delivered, latest}
    /\ inbox' = {} /\ pending' = {} /\ running' = FALSE
    /\ \E stored \in {paused["setting"]}
                       \cup (IF saveDue /\ "setting" \in PauseKinds THEN BOOLEAN ELSE {}) :
          paused' = [k \in {"setting", "app"} |-> k = "setting" /\ stored]
    /\ suspended' = FALSE /\ saveDue' = FALSE
    /\ activity' = "none" /\ snapshotDue' = FALSE /\ kvOps' = <<>>
    /\ restore' = "none" /\ ready' = FALSE
    /\ unread' = {} /\ batch' = {}
    /\ UNCHANGED <<latest, handed, reached, snapshot, settled, refilters>>

-----------------------------------------------------------------------------
Document(e) ==
    \/ ParseDocumentChange(e)
    \/ AcquirePermit(e)
    \/ AcquireLock(e)
    \/ CheckIsChangeRequired(e)
    \/ ApplyToStorage(e)
    \/ LeaveProcessing(e)

Turn ==
    \/ OnDatabaseInitialized
    \/ OnReady
    \/ RestoreFromSnapshot
    \/ RestoreFails
    \/ SnapshotSettles
    \/ TakeSnapshot
    \/ \E d \in Docs : Replicate(d)
    \/ \E d \in Docs : ParseReplicationResult(d)
    \/ RunProcessQueue
    \/ \E e \in pending : Document(e)
    \/ ActivitySettles
    \/ \E k \in PauseKinds : Toggle(k)
    \/ SettingSaved
    \/ Crash

Refilter ==
    \/ FilterSaved
    \/ \E d \in unread : ReprocessRead(d)
    \/ ReprocessRest

\* The processor while the reflection filter stays the same ...
Next == EnqueueChange \/ (inbox = {} /\ Turn)
Spec == Init /\ [][Next]_vars

\* ... and with changes of it.
NextWithRefilter == Next \/ (inbox = {} /\ Refilter)
SpecWithRefilter == Init /\ [][NextWithRefilter]_vars

(***************************************************************************)
(* Fairness.  Every promise of the processor is resolved by the event      *)
(* loop, the key-value database answers what it was asked, and the save    *)
(* that follows a toggle is made.  Nobody has to replicate, to toggle a    *)
(* switch or to restart the application.                                   *)
(***************************************************************************)
Alone(A) == inbox = {} /\ A

Fairness ==
    /\ WF_vars(EnqueueChange)
    /\ WF_vars(Alone(OnDatabaseInitialized)) /\ WF_vars(Alone(OnReady))
    /\ WF_vars(Alone(RestoreFromSnapshot))
    /\ WF_vars(Alone(SnapshotSettles)) /\ WF_vars(Alone(TakeSnapshot))
    /\ \A d \in Docs : WF_vars(Alone(ParseReplicationResult(d)))
    /\ WF_vars(Alone(RunProcessQueue))
    /\ \A d \in Docs : WF_vars(Alone(\E e \in pending : e.id = d /\ Document(e)))
    /\ WF_vars(Alone(ActivitySettles))
    /\ WF_vars(Alone(SettingSaved))

FairSpec == Spec /\ Fairness

-----------------------------------------------------------------------------
(* Properties. *)

\* The types of the queue, the jobs, the snapshot and the vault.
TypeOK ==
    /\ latest \in [Docs -> Nat] /\ delivered \in [Docs -> Nat]
    /\ handed \in [Docs -> Nat] /\ settled \in [Docs -> Nat] /\ reached \in [Docs -> Nat]
    /\ snapshot \in SUBSET Change
    /\ inbox \in SUBSET Change
    /\ pending \in SUBSET Entry
    /\ running \in BOOLEAN /\ suspended \in BOOLEAN /\ saveDue \in BOOLEAN
    /\ paused \in [{"setting", "app"} -> BOOLEAN]
    /\ activity \in {"none", "open", "closing"}
    /\ snapshotDue \in BOOLEAN
    /\ kvOps \in Seq([op : {"get", "put"}, data : SUBSET Change, final : BOOLEAN])
    /\ restore \in {"none", "issued", "done", "failed"} /\ ready \in BOOLEAN
    /\ unread \in SUBSET Docs /\ batch \in SUBSET Change
    /\ crashes \in Nat /\ refilters \in Nat

\* No wake-up is lost: outside the moment between a toggle and the save that
\* announces it, queued changes of a processor that is not suspended have
\* their loop running, whoever enqueued, suspended or resumed in between.
NoLostWakeup ==
    inbox = {} /\ Queued(pending) # {} /\ ~IsSuspended /\ ~saveDue => running

\* The application stays active (the lifecycle defers its suspension) while
\* there are changes to apply and the processor may apply them.
ActivityCoversWork ==
    pending # {} /\ ~IsSuspended /\ ~saveDue => activity # "none"

\* The newest revision that replication handed over and that has not been
\* settled is somewhere in memory: replacing a queued change, the
\* "Already queued" skip and the restoration never drop it.
NewestIsPending ==
    \A d \in Docs : crashes = 0 /\ settled[d] < delivered[d] =>
        \E c \in inbox \cup pending : c.id = d /\ c.rev >= delivered[d]

\* A removal of d is at least as new as its revision rev.
RemovedSince(d, rev) == \E r \in rev..latest[d] : <<d, r>> \in Removed

\* The reflection of a document that has no conflicts goes back to an older
\* revision only past a removal that is as new as what was reflected,
\* whatever was suspended, restored or replayed.
HandedInOrder ==
    [][\A d \in Docs \ Conflicting : handed[d] <= handed'[d] \/ RemovedSince(d, handed[d])]_vars

\* c is in S, or a newer revision of its document is.
CoveredBy(c, S) == \E e \in S : e.id = c.id /\ e.rev >= c.rev

\* A change leaves the stored snapshot only once it is settled or replaced
\* there by a newer one; snapshots taken earlier but stored later, crashes
\* and restorations included.
SnapshotKeepsUnsettled ==
    [][\A c \in snapshot : CoveredBy(c, snapshot') \/ settled[c.id] >= c.rev]_vars

\* The promise the processor makes to the rest of the system.
Ledger == INSTANCE ReflectionLedger
    WITH ledger <- Plain(snapshot), Excluded <- Ignored, Branching <- Conflicting,
         MayFail <- Faults \cap {"read", "gather"} # {}
ImplementsLedger == Ledger!Spec

\* Once suspensions end, the newest revision of every document of the
\* database gets reflected; it stays what the vault shows, unless it removes
\* the document.
EventuallyReflected ==
    <>[](~IsSuspended) => \A d \in Docs \ Ignored :
        []<>(handed[d] = latest[d] \/ (NotFound(d) /\ reached[d] = latest[d]))

\* The activity ends when the work does, or when the processor is suspended.
ActivityIsReleased ==
    (IsSuspended \/ pending = {}) ~> (activity = "none" \/ (~IsSuspended /\ pending # {}))

\* What the comment on _semaphore says: no more documents than permits are
\* being processed at the same time.
AtMostLimitProcessing == Cardinality(Started(pending)) <= SemaphoreLimit

\* As it is meant: the reflection never goes back.
NeverGoesBack == [][\A d \in Docs \ Conflicting : handed[d] <= handed'[d]]_vars

\* What the guard in isSuspended says: nothing is processed before the
\* application is ready.
NothingStartsBeforeReady == Started(pending) # {} => ready
=============================================================================
