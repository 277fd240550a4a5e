# A verification model of OsyC

OsyC is an Obsidian plug-in: a fork of Self-hosted LiveSync, which synchronises a
vault through a database, with an AI agent added. This directory holds TLA+
models of the parts of it in which several things happen at once, the instances
TLC checks, and theorems the TLA+ proof system checks. Paths below are relative to
the repository (the code is in `src/src`, the documentation in `src/docs`).

Two libraries the plug-in is built on, `@vrtmrz/livesync-commonlib` and
`octagonal-wheels`, are not in the repository. What they do is modelled from how
the code uses them, and marked external in the map.

## 1. The system

### Components, state, operations

| component | state it keeps | operations that change it | module |
| --- | --- | --- | --- |
| Reflection of replicated documents (`core/ReplicateResultProcessor.ts`, `core/ModuleReplicator.ts`) | queue and set of changes being processed, suspension, application activity, snapshot in the key-value database | enqueue, run the queue, parse, apply, take and restore a snapshot, suspend, resume, reprocess stored documents | `ReplicateResultProcessor`, `ReflectionLedger` |
| Tasks of the AI agent (`CmdAIAgent.ts`, `useAIAgentUI.ts`, `aiAgentPersistence.ts`) | tasks, polling set, account, generation, configuration file | send, poll, confirm, deliver, retry, activate, deactivate, persist, restore, resume | `AIAgentTask` |
| Window visibility (`ModuleObsidianEvents.ts`) | last seen visibility, deferred action, registered end handler, timer | window events, the visibility handler, the end of an activity | `WindowVisibility` |
| Conflict resolution (`ModuleConflictResolver.ts`, `ModuleConflictChecker.ts`, `ModuleInteractiveConflictResolver.ts`, `ConflictResolveModal.ts`, `fileRepair.ts`) | revision tree, vault file, conflict queue, postponed episodes | merge, ask, drop, store, delete, write, resolve by newest, discard | `ConflictResolution` |
| Hidden file synchronisation (`CmdHiddenFileSync.ts`) | hidden files, their documents, three maps of processed keys and their saved copies, pending conflict checks | track a change of either side, scan, initialise in one direction or safely, check and resolve conflicts, save the maps | `HiddenFileSync` |
| Start-up recovery (`serviceFeatures/redFlag*.ts`, `ModuleLiveSyncMain.ts`) | flag files, suspension settings, remembered fetch mode | fetch, rebuild, suspend, cancel, clean up, unlock | `RedFlagRecovery` |
| Tweak mismatch (`ModuleResolveMismatchedTweaks.ts`, `tweakAlignment.ts`, `useAIAgentUI.ts`) | local settings, the preferred values of the remote, a cache of them, the local database | check, ask, adopt, publish, register, rebuild, overwrite | `TweakAgreement` |
| Customisation synchronisation (`CmdConfigSync.ts`) | files of plug-ins, their documents in two forms, the list of the dialogue | handle an event, store, scan, load the list, migrate, apply, delete | `CustomisationSync` |
| Replicator selection, activation of the synchronisation service, plug-in identity migration, compatibility review, database maintenance, key-value database, adapters, life cycle, dialogues, applications, themes | | | not modelled, reasons in section 7 and `PROJECT.json` |

### How they interact

    replication (external) --_parseReplicationResult--> ReplicateResultProcessor
      ReplicateResultProcessor --processSynchroniseResult--> vault
      ReplicateResultProcessor --bounded activity--> WindowVisibility
      ReplicateResultProcessor --queueCheckFor(IfOpen)--> conflict queue
    conflict queue --_resolveConflict--> database, dialogue, vault
    window events --timer--> WindowVisibility --onSuspending/onResumed--> replicator
    settings (EVENT_SETTING_SAVED) --> suspension and reprocessing of the processor
    AI agent --requests--> server (external);  --vault API--> vault;  --saveData--> configuration
    AI agent panel --repair, before each start and pull--> settings, preferred values of the remote
    settings and mismatches --scheduled rebuild or fetch--> flag file --start-up--> local database
    hidden files, plug-ins --raw events, scans--> documents "i:", "ix:" --processor--> files, list

The modules meet in few places. The activity a change holds open is one of the
activities `WindowVisibility` waits for (there it is a counter). The conflict check an
incoming document triggers is `Reflect` of `ConflictResolution`. The two switches that
`RedFlagRecovery` saves are the ones that suspend the processor and the storage events:
while both are set, none of the other modules takes a step that moves content. The
overwrite and the fetch that end a flow of `TweakAgreement` are scheduled as flag files,
which is where `RedFlagRecovery` begins. Hidden files and customisations go through the
same processor to handlers of their own (`DatabaseEvent`, `Arrive`). They share no other
state, so each is checked alone against the most general behaviour of the others.

### What is hard

JavaScript runs one piece of code at a time, so everything between two `await`s is
one step, and everything across one may be interleaved with window events, user
commands, replication, timers and other calls of the same function. The hard
behaviours are therefore: values read before an await and used after it; several
calls of one handler under way; throttled and debounced writes that a kill of the
application (usual on phones) cuts off; requests and answers lost or late;
promises that must end although a step failed; revision trees that change below a
dialogue or on another device. `PROJECT.json` lists them at their lines.

### What makes each component correct

- Reflection: no document that arrived is forgotten, the vault goes back only past a removal,
  the snapshot holds what is not settled, the queue wakes up, the activity ends.
- Agent tasks: the screen does not claim what the server did not do, a file is
  acknowledged only when it is stored, no task stays unfinished unwatched.
- Visibility: a visible window replicates on a fresh channel, a hidden one does
  not, an activity is not interrupted, a deferred action is not forgotten.
- Conflicts: no content vanishes undecided, no resolution deletes the file, the
  vault shows the result, what cannot be read is not taken for obsolete, devices
  with a policy agree.
- Hidden files: a difference between a file and its document is never recorded as
  processed, and what is not recorded is removed by the next scan.
- Start-up: a local database that was reset and not filled is never used, the flag stays
  until the operation is complete, start-up comes to an end.
- Tweaks: what cannot be changed without a rebuild is not changed without one, nor
  without the user's consent; devices come to agree.
- Customisation: the stored copy is a state the plug-in had and catches up with its
  files; the list shows every stored copy.

## 2. Modules

`MC<module>.tla` extends the module, declares its model values and defines its
instances; the `.cfg` files give the constants their values. `<module>_proofs.tla` extends
the module with its inductive invariant, its lemmas and theorems (section 5); every module
but the abstract `ReflectionLedger` has one. Definitions called a
*variant*, named `<definition>_<mistake>` in the younger modules, restate one definition
with a plausible mistake. Nothing refers to them: they are there to be put in the place of
the original, to see that the property notices.

A constant `Setups` is a set of *circumstances*: records that say which settings hold,
which faults may occur, and how often the environment may act. The variable `setup` takes
one of them in `Init` and keeps it, so that one run covers several small instances that
would be too large together. A property that needs some circumstance says so in its
premise.

### ReplicateResultProcessor

One action is one piece of code between awaits. `pending` is both
`_queuedChanges` and `_processingChanges`; each change has a `pc` (queued, parsing,
permit, lock, check, apply, leave) that says at which await of
`parseDocumentChange` and `_applyToDatabase` it stands, and a stamp for its place.
Stamps are needed because the order of a snapshot (processing, then queued) is what
a restoration enqueues again. `enqueueAll` is a synchronous loop: `inbox` is what it
has left, and everything else waits. `kvOps` is the sequence of operations given to
the key-value database: a snapshot taken earlier may be stored later than the next
change, and a crash loses what is on its way. `Crash` loses the memory and keeps
`latest`, `snapshot` and the vault; it leaves open whether replication announces
what was stored but not delivered, because its checkpoint is external.

`IsRequired` is the decision of `checkIsChangeRequiredForDatabaseProcessing`. It compares
with the winner of the tree; when the winner removes the document (`_deleted`, the constant
`Removed`), reading it fails with not found and every change is required, however old. A
revision outside the winner's list is one of another branch (`Conflicting`). `reached` is
a history variable, the newest revision the vault was ever given.

`ReflectionLedger` is the abstract specification: documents arrive, are reflected in
order except past a removal and for documents with branches, are settled, and are kept in a
durable ledger that forgets only what is settled. The processor implements it with
`ledger <- Plain(snapshot)`; queue, jobs, permits, locks and throttles are stuttering. This
is the property `ImplementsLedger`.

Abstracted: the contents of documents, chunks and version documents
(`processIfNonDocumentChange`), the failure dialogues of `ModuleReplicator`. A change
that fails is settled, as in the code, which logs and goes on.

### AIAgentTask

`srv` is the server as the plug-in can see it. A request is in flight, then
answered, and either may be lost. A poller is one call of `pollTask`: asleep,
asking, or holding an answer. It looks at `stopped` and the generation only when it
wakes, as the code does. A delivery is one call of `deliverArtifacts` with the
separate steps of the writer. `disk` is the configuration file; `phase` follows
`onInitialise` through its awaits. `Kill` loses the memory at any point; unloading
the plug-in is the same, because it clears the save timer without saving.

A server that answers the poll of the empty task_id refuses it. A task that the answer to
its confirmation sets running is polled by nobody before the next start: `confirmed`, a
history variable, holds these tasks since the last start, and the two properties about
unfinished tasks leave them, and no others, out. Abstracted: the mock mode,
schedules, billing, e-mail and the cloud vault; `/retry-push` for tasks without
files; the retry button is shown in more situations than in the code (there it needs
a mark in the progress text); interrupted counts as failed; a write of the
configuration is atomic.

### WindowVisibility

The handler is split at its two awaits, `commitPendingFileEvents` and `onResuming`.
`commits` and `resumes` are the calls that stand there; commits complete in call
order. A call keeps what it saw of the window and of the activities before its await.
`activities` adds up the two counts of bounded activities. `outdated` is a history
variable: a call deferred a suspension although the activity it saw was over, or although
a later call waited behind it; it is forgotten when a resumption finds nothing deferred.
The module starts configured and ready. The user
toggles suspension only in a settled, visible window. `Stall` is a continuous
replication that the operating system froze: it looks open and transfers nothing. That
`onResumed` opens the channel is one step; that it does so only when the replicator can
replicate is left to the replicator.

Not modelled: the save command, online and file-open events, and the scheduled
reload.

### ConflictResolution

One file, with its revision tree on several devices. A revision is a number;
`info[r].from` is the set of versions (user edits) whose content it holds, which is
what it means to lose something. `job[d][w]` is where one of three programs stands:
the queue (under the lock of the file), the bulk command and the repair card
(neither takes it). Each deletion goes through `Delete`, `CountLeft`, `Write`, the
three awaits of `_resolveConflictByDeletingRev`.

External, and taken from use: leaves and their deterministic winner, replication as
the union of trees, `storeContent` (extends the current winner: the code passes no
base revision), deletion that fails for a revision that is no leaf, `compareMTime`
(rounds both times down to its window). The event of an incoming document closes
dialogues and queues the file. `refreshConflictState` runs within the step that
emits its event. The queue and the processing queue behind it are one flag. Edits
extend the revision the vault shows.

Three history variables remember what the code itself does not make up for. `overwritten`
are the versions of a winner over which a text was stored that had been merged without
them. `backdated` says that a revision was written in an earlier comparison window than one
it replaces, as happens on a device whose clock is behind. `unwritten` says of a device that
a program ended there without the write that was due: it failed, was cut off, could not
read the body, or the rival of a stored text was gone. The properties leave these, and
nothing else, out, and two of them also say where they cannot happen at all: while only
the queue works on a tree that does not change within a job.

### HiddenFileSync

One hidden file of one device. `seen`, `known` and `dseen` are the entries of
`_fileInfoLastProcessed`, `_fileInfoLastKnown` and `_databaseInfoLastProcessed`; `saved`
is what the key-value database holds of them, because `autosaveCache` writes the maps
some time after they change, and a kill falls back to it. A key of a file is its mtime
(its size follows from the content here), a key of a document its revision. `op` is the
tracking operation that holds the lock `hidden-file-event` (`TrackStorage` to `Store` or
`Delete`, `BeginDatabase` to `WriteFile` and `StatWritten`); `scan` is the program of steps
a scan or an initialisation still has to make, with the document as it was when the scan
listed it; `checks` are the conflict checks, which hold only `file-<path>` while they store
or extract. A check that writes the surviving revision reads its key in a second step
(`FlushStat`), as a tracking operation does, and holds the lock between the two
(`Flushing`); a store or a write of a check may fail, and the check goes on as if it had
not (`FailResolved`). The five initialisations are the programs `offline`, `periodic`,
`pushForce`, `pullForce` and `safe`.

`lapse` is a history variable. It takes the name of the first way in which the code itself
records a difference as processed; the ways are in section 4. The safety and liveness
properties are about behaviours without a lapse, which says that there is no further way.
Whether something that differs is recorded as processed is judged by `Agree`: the content of
the file against that of the leaf the recorded revision names. That leaf need not be the
winner; it may become the winner later, when the others are resolved away.

External: the winning leaf (the highest revision), `putDBEntry`, `removeRevision` (fails on
a revision that is no leaf), `compareMTime` (rounds down to its window). Simplified: one
scan at a time, the three maps are saved together, the stat, the read and the recording of
a key are one step, so are the comparison and the put of a store; events come in any
order. Not modelled: selection of files by patterns and ignore files, several files,
notices, the repair commands for one internal file.

### RedFlagRecovery

`pc` is the step of the start-up: the three handlers in the order of their priorities, the
fast set-up and the detailed dialogue of the fetch, `processVaultInitialisation` around the
operation, the deletion of the flag, and the question of the main module. `held` are
`suspendFileWatching` and `suspendParseReplicationResult` as they are saved. `begun` is the
operation that reset the local database and did not complete: it is what the other modules
must never see in use. `Cleanup` may fail to delete either of the two names of a flag
(`deleteFlagFile` only logs); `Throw` stands for any rejected step of the operation.
`Place`, `RemoveByHand` and `Resume` are the user. A kill keeps the files and the settings.

External: the rebuilder (a reset, a load, `finishRebuild`). `finishRebuild` may return false:
the fast set-up ignores it. Not modelled: a settings save that fails; the automatic
synchronisation modes that `suspendAllSync` switches off; the retries of
`adjustSettingToRemote`, which return to the same question; the variants for peer-to-peer
and object storage, which differ in the load.

### TweakAgreement

Two flows of a device read and write the preferred values without a lock: the resolution of
a mismatch that the replicator reports (`Handshake`, `Check`, the dialogue's `UseRemote`,
`UseMine`, `Dismiss`), and the repair of the OsyC panel (`Repair`, `Prompt`,
`AlignToRemote`), which also runs at start-up and before each pull. `job` is the step each
is at, with the values it read. `Register`, `FetchLocal` and `OverwriteRemote` are what
follows a decision. The values that must match are three: `encrypt`, whose change needs the
local database to be rebuilt; `chunk`, which only makes chunks less shareable; and
`tweakModified`, which `saveSettingData` sets whenever the others change, whoever chose
them. `built` is the encryption the local database was built with. `cache` is the panel's
copy of the remote's values, which is up to fifteen seconds old.

Simplified: a device runs one repair at a time. Not modelled: the patch of
`planProvisionedReplicationRepair`, reads of the remote that fail, `applySettings`,
`askUseRemoteConfiguration` at set-up, the lock of the remote. `tweakBaselineGuard` is
referred to by tests only.

### CustomisationSync

One plug-in of a few files on one device, and the documents of another device. A number
stands for a file: it is its mtime, and modulo 100 its content. `v1[t]` is the document of
the whole plug-in of a device, `v2[t][f]` the one of a file (with `usePluginSyncV2`). Events
wait in `events`, are passed over if `recent` holds their second, rejected while everything
is suspended (`RejectEvent`), and otherwise schedule the one `task` of the plug-in (100 ms);
`stores` are the calls of `storeCustomizationFiles` with what each has read so far, and
stores of one document wait for each other (`Locked`). A whole plug-in is stored unless the
document has the average mtime of its files, or their content (`Skipped`); applying one
gives its files the current mtime, which they may share (`Written`). `scan` is
`scanAllConfigFiles`, which stores what it found and deletes documents without files.
`list`, `shown` and `loading` are `pluginList`, the entries the dialogue shows and the
loads that fill them: a load takes its entry before an await and puts it back after, so
that entries need identities (`gen`); a document of the mtime its entry has is not loaded
again. `migrating`, `applying` and `deleting` are the migration of an old document to those
of files, of which one may fail or throw, and the two commands of the dialogue.

Simplified: the reads of a store are in any order; the listing of a scan is one step; a
load reads its document at its end; there is one migration of a document at a time (the
processor runs ten). The guard on readiness in `watchVaultRawEventsAsync` tests the method
`_isMainReady` and not its answer, and so rejects no event. Not modelled: comparing and
merging in the dialogue, duplicates under another name, manifests, the reload of plug-ins,
and documents of single files while `usePluginSyncV2` is off.

## 3. What is checked

Deadlock is checked in `rrp_live`, `vis_window`, `cr_conflicts`, `hfs_hidden` and
`twk_agree`. The others say `CHECK_DEADLOCK FALSE` because they may stop: everything has
arrived, every task has ended, start-up is over, or, without sweeps, no store is due.

| run | instance | properties | what it shows |
| --- | --- | --- | --- |
| `rrp_recovery` | two documents (one ignored by the parser), one with three revisions of which the second removes it; one crash; rejected snapshot writes | `TypeOK`, `SnapshotKeepsUnsettled`, `ImplementsLedger` | the snapshot never forgets an unsettled change, although it is written late; the processor implements the ledger |
| `rrp_order` | one document with three revisions, one crash, one change of the reflection filter; failing reads, gathers, restorations | `HandedInOrder` | the vault goes back only past a removal |
| `rrp_live` | three revisions, both suspension switches, rejected writes; fairness | `NoLostWakeup`, `ActivityCoversWork`, `NewestIsPending`, `EventuallyReflected`, `ActivityIsReleased` | suspension and resumption at any moment lose nothing, and everything ends |
| `aia_safe` | one task that needs a confirmation and produces a file at a path others write to; all faults, a kill, a deactivation | `TypeOK`, `ShownIsServed`, `DeliveredIsStored` | the screen and the acknowledgements claim only what is true |
| `aia_live` | one task, losses and errors, a kill, a deactivation; fairness | `UnfinishedIsWatched`, `OnePollerEach`, `EventuallySettled` | an unfinished task is watched once, and ends |
| `vis_window` | five settings: replication kept active or not, periodic, on a phone, and kept active without activities; both awaits slow in all of them | `TypeOK`, `OpenWhenVisible`, `DeferredIsAwaited`, `FreshWhenVisible`, `SuspensionWaits` | whatever begins or ends between the awaits: a visible window replicates, a deferred action is noticed, an activity is interrupted only by a call that began before it, and a stalled channel does not survive the return of the window |
| `cr_conflicts` | two devices with a branch each, manual policy with automatic merge (twice: with edits; and with failing deletions, a clock behind and a tree that changes at any time); one device with three leaves of which one cannot be read, both commands and restarts; two devices with three leaves and the newer-file policy; fairness | `TypeOK`, `NothingLost`, `VaultShowsResult`, `SomeVersionSurvives`, `UnreadableIsKept`, `Converges` | nothing undecided is lost, vaults show the result, a policy never deletes the last leaf, devices agree, and the queue never deletes what it cannot read |
| `hfs_hidden` | two revisions arrive and conflict, an edit, a failure; or one arrives, with two edits or initialisations and a kill; or one of them and a failure too; fairness | `TypeOK`, `DifferenceIsSeen`, `CatchesUp` | outside the lapses no difference is recorded as processed, and every difference seen is removed |
| `hfs_newer` | one revision, one edit while the plug-in is off | `NewerLocalIsApplied` | **violated**, see below |
| `red_start` | both names of the fetch flag, one of the rebuild and the emergency stop; four acts of the user, two failures, two kills; fairness | `PartIsIsolated`, `FlagOutlivesFailure`, `Ends` | after any failures and kills a partly filled database is guarded, and start-up ends |
| `twk_agree` | two devices, one of which aligns compatible values without asking; one decision, one overlap, one fault, one cached read; fairness | `TypeOK`, `UnrebuiltIsExplained`, `EncryptionNeedsConsent`, `Agreement` | flows that overlap and stale values never leave an unexplained database, and the devices agree |
| `csy_sync` | a plug-in of two files in eight circumstances; fairness | `TypeOK`, `EventsSuffice`, `CatchesUp`, `ListCatchesUp` | events alone keep whole documents right, up to one of the same average mtime; with sweeps, documents and list catch up with whatever was missed |

### Bounds, and why they are enough

- Three revisions of one document are the least with which one is being applied, one
  waits for the lock and one is queued; two permits the least with which two changes
  meet. A second document matters only through the shared permits, the snapshot and
  the ignored kind: a second document with one revision has them. One crash is
  followed by a whole restoration under new arrivals.
- A task interacts with others only through the empty task_id; the run with one task
  has the two calls of `pollTask`, deliveries and confirmations that can meet. One
  retry is the least that separates "again" from "given up". One kill and one
  deactivation, in either order, also meet in the middle of a start.
- Two activities separate "one ended" from "the last ended"; three calls of the
  handler are one more than can disagree about a pair of events.
- Two devices with a leaf each, and a third leaf from an edit, give the pair that is
  shown, and one that is not. `revs` stops further stores of merged text; in the
  circumstances that store, a store the bound stops can still fail or be cut off by a
  restart, so that no state is stuck on it.
- Two contents and two revisions of a hidden file give a conflict whose winner is the
  older one, and equal contents under different keys. A window of two ticks gives times
  that are even, and times that are not. Two edits are the least with which one is
  recorded and one races it.
- Two names of the fetch flag show a deletion of which only one succeeded. Two failures
  and two kills let an operation fail, be repeated, fail again and be given up.
- Two devices are the least that can disagree with the remote in turn. One overlap lets
  any two flows interleave at all their steps, which is where a stale value is used.
  Two cached reads multiply the states and add none of a new kind.
- Two files show a document that is half-written, migrated or applied. Every circumstance
  of `csy_sync` allows few of the acts; each pair of acts that touch the same state is
  together in one of them.
- The bounds are `MaxKvOps`, `MaxCalls`, `MaxStarts`, `MaxStops`, `MaxCrashes`,
  `MaxRefilters`, `MaxUser`, `MaxFails`, `MaxKills`, `MaxChoices`, `MaxOverlaps`,
  `MaxFaults`, `CacheReads`, and the fields `edits`, `revs`, `activities`, `deletions`,
  `arrivals`, `commands`, `fails`, `suspensions` and `kills` of the circumstances; each appears in the
  guard of what it bounds.

### Fairness

- `ReplicateResultProcessor`: promises are resolved by the event loop, the key-value
  database answers, an armed throttle fires, a toggle is followed by its save. A job of a
  document that may go on does. Nobody has to replicate, toggle or restart. Weak fairness
  per document is enough because permits and locks are released by jobs that are
  themselves fair.
- `AIAgentTask`: timers fire; a request is answered or fails (the host has timeouts); the
  server ends what it runs. The user has to do nothing. Pollers of a stopped account are
  not assumed to run.
- `ConflictResolution`: asynchronous functions go on, replication runs periodically, what
  it brings is processed. The user has to do nothing: with the newer-file policy nobody
  is asked.
- `HiddenFileSync`: tracking operations, the steps of a scan and the checks are promises
  that end. The offline scan is strongly fair: it runs at every start and at every
  resume, and another scan that is under way may only delay it.
- `RedFlagRecovery`: start-up is one chain of promises, in which the user answers the
  dialogues and starts the application again. Nothing is assumed of failures and kills
  but their bounds.
- `TweakAgreement`: a flow that began goes on; a dialogue times out after a minute; the
  cache expires after fifteen seconds; a device replicates and repairs again and again.
  The last two are strongly fair because the bound on overlaps lets a flow begin only
  when no other runs; in the code nothing holds it back.
- `CustomisationSync`: every program under way goes on, and with `autoSweepPlugins`
  scans come again. The user, the network, failures and kills owe nothing.

## 4. Deviations

The models were written from the code; promises were taken from its comments,
documentation and tests. Where these differ, the property stays in the module, and TLC
finds a counterexample with the constants given here. One is a run of the project,
`hfs_newer`.

| property | source | instance | what happens |
| --- | --- | --- | --- |
| `NothingStartsBeforeReady` | `ReplicateResultProcessor.ts:92` | one crash | `appLifecycle.isReady` is a method and is not called: its negation is never true, restored changes are applied before readiness |
| `AtMostLimitProcessing` | `ReplicateResultProcessor.ts:369` | two documents, `SemaphoreLimit = 1` | the permit is released before the change is started, so that parsing is not limited as the comment says |
| `NeverGoesBack` | `ReplicateResultProcessor.ts:549` | `RRP_order.cfg` | the newest revision removes the document, which is then not found: an older change that waited for the lock is required and recreates the file |
| `NewestIsPending` | `ReplicateResultProcessor.ts:318` | `SpecWithRefilter`, `TwoOfA`, `BatchSize = 2`, `MaxRefilters = 1` | a batch read before a newer revision arrived replaces it in the queue and is then skipped |
| `EventuallySettled` | `CmdAIAgent.ts:1851` | `Faults = {"garbled"}` | an answer that is no report throws out of the loop: the task runs on the screen for ever |
| `OthersAreKept` | `useAIAgentUI.ts:550` | a touched path | a file found empty is filled, and then overwritten |
| `DeactivatedIsCleared` | `CmdAIAgent.ts:1897` | `MaxStops = 1` | a late report sets the state that was cleared |
| `SendingIsNotFailed` | `CmdAIAgent.ts:2189` | `MaxStarts = 1` | the empty task_id is polled, and its refusal fails every task without one |
| `StoredStaysStored` | `useAIAgentUI.ts:1530` | `MaxStarts = 1` | `configure` persists the empty list before `restore` reads the stored one in |
| `AwaitingIsRestored` | `aiAgentPersistence.ts:27` | a task that needs confirmation | the stored status is not accepted when it is read |
| `AccountStaysStored` | `useAIAgentUI.ts:1203` | `Faults = {"slow start"}` | the defaults are persisted over the stored account |
| `AnActivityIsAwaited` | `ModuleObsidianEvents.ts:241` | `Default` | the activity ended during the await: the suspension waits for an end that was |
| `NoActivityIsInterrupted` | `ModuleObsidianEvents.ts:245` | `Default` | an activity that began during the await is interrupted |
| `WhatIsVisibleIsOpen` | `ModuleObsidianEvents.ts:242` | `Default` | a call for a hidden window defers the suspension after a call for the shown window looked: the end of the activity in a short moment of hiding then closes the channel, and the next event finds nothing to resume |
| `NoUnmatchedResume` | `ModuleObsidianEvents.ts:145` | `Default` | shown and ended within the 100 ms of the timer: a resumption without suspension |
| `ClosedWhenHidden` | `ModuleObsidianEvents.ts:272` and `:145` | `Default` | hidden during `onResuming`; or the deferred suspension was dropped in a moment of visibility |
| `PendingIsCancelled` | `ModuleObsidianEvents.ts:224` | `Default` | two calls overlap, the later one looks first |
| `NothingLost`, without `overwritten` | `ModuleConflictResolver.ts:72` | `Shared`, `timing = "anytime"` | the merged text replaces an edit or branch that came after the pair was read |
| `VaultShowsResult`, without `unwritten` | `ModuleConflictResolver.ts:31` | `Shared`, `timing = "anytime"` | the rival is gone before it is deleted: nobody writes the merged text to the vault |
| `NothingLost`, without its premise | `ModuleConflictResolver.ts:97` | newer-file policy with merging, quiet, `behind = {d1}`; a branch `R(1, 4, {1})` and two equal ones `R(2, 5, {1, 2})`, `R(3, 5, {1, 2})`, of which the second device lacks the first | a merged text dated before what it was merged from loses to a copy of one side |
| `NothingLost`, without `overwritten` | `fileRepair.ts:130` | `ChainLeaves` on one device, merging, `commands = {"discard"}` | the other leaf is discarded while the text merged from it is being stored |
| `VaultShowsResult`, without `unwritten` | `ModuleConflictResolver.ts:90` | `Shared`, `ChainLeaves` on both devices, no merging, `unreadable = {2}` | two users keep different sides, and the leaf that is left cannot be read: the file goes on showing a deleted one |
| `EventsSufficeExactly` | `CmdConfigSync.ts:1433` | `csy_sync` | one of two files with one mtime is removed: the average mtime stays, and the document keeps the file; no sweep stores it either |
| `EventsSuffice`, with a removal of the only file | `CmdConfigSync.ts:1551` | `File = {f1}`, the premise of `EventsAreSeen` on files dropped | a scan that found no file deletes what the event of a new file has stored meanwhile |
| `DifferenceIsSeen`, with equal mtimes | `CmdHiddenFileSync.ts:606` | `remote = <<2, 2, 2>>`, `kills = 1`, no edits, rule "ask" | a file is read for a store, a resolution replaces it by another with the same mtime, and the store then records that mtime |
| `SomeVersionSurvives`, without the premise on commands | `ModuleConflictResolver.ts:167` | `commands = {"newest"}` | the queue and the command order versions of one window differently, and delete both |
| the same | `fileRepair.ts:130` | `commands = {"discard"}` | the other leaf goes between the check and the deletion |
| `SomeVersionSurvives`, without `~Manual` | `ModuleInteractiveConflictResolver.ts:171` | manual policy, two devices | two users keep different sides, and replication unites the deletions |
| `SomeVersionSurvives`, without `~backdated` | `ModuleConflictResolver.ts:113` | `behind = {d2}` | a clock that is behind makes an edit older than what its parent had beaten |
| `NewestIsKept` | `ModuleConflictResolver.ts:173` | `commands = {"newest"}`, replication | the winner changes between the two reads, and is listed twice or not at all |
| `LaterConflictIsAsked` | `fileRepair.ts:130` | `commands = {"discard"}` | the postponement outlives the conflict it was given for |
| `NewerLocalIsApplied` (run `hfs_newer`) | `CmdHiddenFileSync.ts:622` | `OneEdit` | the file that is newer than its unprocessed document is recorded as processed and never stored |
| `FreshChoice` | `redFlag.ts:151` | `red_start` | cancelling at the choice of a remote keeps the remembered mode, and the next fetch uses it without asking (`redFlag.simpleFetch.ts:91`; `redFlag.unit.spec.ts:845` remembers it while the fetch is pending) |
| `SameIsRebuilt` | `useAIAgentUI.ts:396` | `twk_agree` | the settings were saved and the rebuild failed: the next repair finds no difference and reports the configuration as the same |

`DifferenceIsSeen` and `CatchesUp` of `HiddenFileSync` leave out these lapses, in each of
which a difference is recorded as processed and only another change of the file or
document, or an initialisation, removes it:

| lapse | source in `CmdHiddenFileSync.ts` | what happens |
| --- | --- | --- |
| store, killed | 606 | the key of the file is recorded before its document is stored, and the store fails or is killed |
| newer | 622 | see `NewerLocalIsApplied` |
| even | 1131, 1782 | times within one window of two seconds count as the same content |
| unknown | 608, 1395 | a file that is absent and has no key is taken for a folder; a forced push forgets the key of a file that is absent |
| raced | 404 | an edit between the write and the stat of what was written, by a tracking operation or by a check, is recorded as processed |
| adopted | 456, 463 | adopting everything as processed after an initialisation includes what failed or changed meanwhile |
| lost | 659, 708 | every leaf of the document is deleted: by two checks of one file under its two spellings, by a check and a local deletion, or because the dialogue deletes both revisions before its result is stored, and the result is removed before it is |

Further observations, made while modelling, that no stated promise contradicts:

- Hidden files: scans pass a document without its `_conflicts`; `resolveByNewerEntry` tests
  `_conflicts?.length === 0`, which is undefined without conflicts, and so never extracts
  the survivor (the next scan does). A forced push with a deleted file never propagates
  the deletion. An unprocessed local edit is overwritten by a replicated document.
- Start-up: the fast set-up ignores that `finishRebuild` returned false
  (`redFlag.simpleFetch.ts:247`); the remembered mode cannot be changed while a fetch keeps
  failing; a flag that cannot be deleted repeats its operation at each start.
- Tweaks: the repair's patch overwrites a newer local compatible value, where
  `docs/settings.md:1034` lets the newer side win, and aligns incompatible values of an
  official remote without asking; accepting a value stamps it as newer than its source.
- Customisation: with `usePluginSyncV2` the one scheduled store of a plug-in stores only
  the file of the last event (`CmdConfigSync.ts:1517`), a second edit within a second is
  passed over (`:1508`), so is a second deletion, and only sweeps make up for these; the
  document of a removed file is never deleted (`:1551`); the migration deletes the old
  document after its first file (`:861`), and a migration of stale content overwrites newer
  documents; deleted documents stay in the list until it is reloaded; apply and delete act
  on the files shown, which may not be all; stores and deletions of a document take
  different locks, so that a scan that listed no files deletes what an event stored;
  documents of this device that the user deletes are stored again by the next sweep.

## 5. What is proved

Every safety invariant and every action property of the passing runs is a theorem, and so
is the refinement. A run shows it on a small instance; the theorem holds for every value of
the constants that satisfies the named assumption of the module: any number of documents,
devices, files and tasks, any setups, and no bound is assumed finite. Where a theorem needs
more, the hypothesis is part of its statement. TLC refutes each of these properties on an
instance without the hypothesis (section 4 or the paragraph of the module has it), and the
constants of the runs satisfy the hypothesis.

| module | theorem | hypothesis |
| --- | --- | --- |
| `AIAgentTask_proofs` | `Watched` | `ReadableReports` |
| `HiddenFileSync_proofs` | `Seen` | `DistinctTimes` |

All other theorems have none. The proofs are hierarchical: each invariant is a conjunction
of named parts, each action has its lemma or its step, and the lemmas on finite sets, stamps,
sequences and the order of revisions stand before the invariants they serve.

### ReplicateResultProcessor_proofs

From `ConstantsAssumption` (the constants are of their types), for all documents,
revisions, permits, batch sizes, switches, faults and crashes; those of `SpecWithRefilter`
for changes of the reflection filter too:

- `TypeCorrect`: `SpecWithRefilter => []TypeOK`.
- `ReflectionMovesForward`: `SpecWithRefilter => HandedInOrder` (the revision of a document
  without conflicts that was given to the vault goes back only past a removal).
- `SnapshotsForgetNothing`: `Spec => SnapshotKeepsUnsettled`.
- `NewestIsKept`: `Spec => []NewestIsPending`.
- `LoopIsAwake`, `ActivityIsHeld`: `SpecWithRefilter => []NoLostWakeup` and
  `[]ActivityCoversWork`.
- `Implementation`: `Spec => ImplementsLedger`.

*The argument for types.* `TypeOK` is not inductive. New stamps are `NextAt(S)`, one
more than the greatest of S, and a set of naturals has a greatest element only if it is
finite. `TypeInv` adds that `pending`, `inbox`, `snapshot`, `batch` and the data of the
operations under way are finite, and that the documents still to be read have a
revision; `FiniteHasLast` and `FiniteHasFirst` give the greatest and the least stamp,
and the lemmas on `NextAt` and on the sets the actions build carry the rest.

*The argument for order.* Giving revision `r` to the vault after `r + 1` would need a
change that passed its check when `r` was newest and was overtaken before it was
applied. `OrderInv` rules that out with four conjuncts:

1. `RevisionsKnown`: what is queued, stored, read in a batch or on its way is a revision
   the database has had;
2. `HandedKnown`: so is what the vault was given;
3. `OneLockHolder`: of one document, at most one change is between its check and its
   application;
4. `AppliedIsNewest`: a change past its check, of a document without conflicts, is at
   least as new as what the vault was given last, or a removal is.

The fourth is what a step of `ApplyToStorage` uses. It is inductive because of the
third: between check and application of one change no other change of the document can
give anything to the vault. That `latest` may grow in between does no harm: the vault
gets an old revision, and the new one later.

*The argument for the snapshots.* A write under way may be stored after later changes, so
what is in the key-value database says nothing of the memory. `SnapshotsChain` orders what
was and will be stored: the stored snapshot, the operations under way in their order, and
the memory at the end; each keeps what every earlier one kept, unless it is settled
meanwhile. A new snapshot joins at the end with all of the memory, a rejected write drops
out of the middle, a crash keeps the first, and what leaves the memory is settled.
`QueueInv` supplies the rest: revisions are queued in the order of the history
(`QueueIsOrdered`), nothing is newer than what replication delivered (`DeliveredBounds`), and
nothing is in memory or written before the one restoration (`RestoredFirst`, `ReadOnce`). It
does not survive a change of the filter, which is the deviation of `NewestIsPending`.

*The argument for the refinement.* A step that adds to the snapshot, settles or hands over
is one of the ledger's, all others stutter. The ledger settles only what was reflected,
superseded, ignored, or given up where reading or gathering may fail: `LeavesForReason`
says so of every job that leaves. `reached` is needed because the vault may go back past a
removal after the removal was settled.

*The argument for the wake-up.* `LoopFollowsQueue` is `NoLostWakeup` without the premise
that no round of `enqueueAll` is under way: whatever adds to the queue or lifts a suspension
starts the loop in the same piece of code, or in the save that follows it, and the loop
ends only on an empty queue or a suspension.

### RedFlagRecovery_proofs

From `FlagAssumption` (the names of the flags are different), for all names and any number
of acts, failures and kills:

- `TypeCorrect`: `Spec => []TypeOK`.
- `GuardKept`: `Spec => []IsolationInv`, the inductive invariant.
- `Isolated`: `Spec => []PartIsIsolated`.
- `FlagKept`: `Spec => FlagOutlivesFailure`.

*The argument.* `PartIsIsolated` speaks of the last step of a start-up only. What holds
at every step is `Guarded`: once an operation has reset the local database, a flag exists
or both switches are set. To keep it, a start-up must not pass a handler without its guard:
`Passed` says that behind the fetch handler only the rebuild flag or the switches count, and
behind both only the switches. `Scheduled` says that the flag exists while its operation
runs, `Completed` that the flag is deleted only after the database was filled, `Dropped`
that a cancellation has set both switches before it deletes anything, and `QuickMode` that
the fast set-up is what asks for a mode. `IsolationInv` is their conjunction with `TypeOK`;
`FlagKept` follows from `Completed` and `Dropped` at the one action that deletes flags.

### TweakAgreement_proofs

From `TweakAssumption`, for all devices, values and bounds:

- `TypeCorrect`: `Spec => []TypeOK`.
- `Explained`: `Spec => []UnrebuiltIsExplained`.
- `Consent`: `Spec => EncryptionNeedsConsent`.

*The argument.* The invariant is `TypeOK /\ UnrebuiltIsExplained`. A flow changes `encrypt`
only through `Assign`, which leaves it at a registration that a rebuild follows (`Assigned`);
the flow can then only go on to the rebuild, which sets `built`, or be stopped by a fault or
a kill, which excuses the device. The flows of one device overlap, but each keeps its own
step: what the others do to `job` leaves it where it is (`Kept`). The only rebuild that
does not happen is the one the user declines, which excuses too. Consent then needs no
invariant but the types: the only steps without a decision that assign remote values are
those of `Check` and of `Prompt`, and both compare `encrypt` first, unless the remote is an
official one.

### AIAgentTask_proofs

From `TasksAssumption`, for all tasks, faults, retries, kills and deactivations:

- `AgentIsTrue`: `Spec => []AgentInv`, and from it `TypeCorrect` (`TypeOK`), `Shown`
  (`ShownIsServed`) and `Delivered` (`DeliveredIsStored`).
- `PolledOnce`: `Spec => []OnePollerEach`.
- `Watched`: `Spec => []UnfinishedIsWatched` under `ReadableReports` (no garbled answer: one
  ends the polling, and TLC refutes the property with `Faults = {"garbled"}`).

*The argument.* What the screen claims may come from memory, from the disk of an earlier
life, or from a configuration that was just read; what it will claim is in answers that
wait. `AgentInv` says of all of them that they are true: `RecordsAreTrue` of the three
copies of a record, `ReportsAreTrue` and `AnswersAreTrue` of polls and confirmations,
`SentOnce` of requests, `StoredIsThere` and `AckedIsThere` of deliveries. The server never
takes back an end, so that late answers and stale copies stay true. For `Watched`,
`TasksHaveAccount` and `StartIsQuiet` say that nothing is listed or polled before an account
is there, and `FormerIsForgotten` that what a poller of an earlier account polled is no
longer listed, so that its end leaves nobody unwatched.

### WindowVisibility_proofs

From `VisibilityAssumption`, for all settings, any number of activities and of overlapping
calls, with both awaits slow:

- `TypeCorrect`: `Spec => []TypeOK`.
- `Open`, `Fresh`: `Spec => []OpenWhenVisible` and `[]FreshWhenVisible`.
- `Awaited`, `Waits`: `Spec => DeferredIsAwaited` and `Spec => SuspensionWaits`.

*The argument.* A call looks at the window and the activities and acts after an await, when
both may be different. `AlwaysInv` holds nevertheless: a deferred action has its handler
(`DeferredHasHandler`), a window that differs from its record has an event to come
(`ChangeIsTimed`), a channel that is kept in the background is closed only while a
resumption is under way (`KeptIsOpened`). `Awaited` and `Waits` follow from it, step by step.
`RecentInv` holds while no suspension was deferred out of date: the calls under way for a
hidden window alternate with those for a shown one (`HidingAlternates`) and the last one
agrees with the record (`HidingIsRecorded`), so that a channel is closed only in a window
recorded as hidden or with something under way that opens it (`HidingIsOpen`,
`ClosedIsTemporary`), and a deferred suspension belongs to a window recorded as hidden
(`DeferredIsRecorded`). A resumption that finds nothing deferred and nothing under way
restores all of it (`RecentAgain`), which is why `outdated` ends there. `StallInv` adds that
a stalled channel has a window that is recorded as hidden or a call under way, which will
replace it.

### ConflictResolution_proofs

From `ConflictAssumption`, for all devices, first revisions, window widths and bounds:

- `TreesAreSound`: `Spec => []TreeInv`, and from it `TypeCorrect` (`TypeOK`) and `Kept`
  (`Spec => UnreadableIsKept`).
- `VersionsAreKept`, `VersionSurvives`, `ResultIsShown`: `Spec => []NothingLost`,
  `[]SomeVersionSurvives` and `[]VaultShowsResult`, next to commands, failures, restarts and
  trees that change at any time.

*The argument.* Each device sees another tree, and what one deletes another may still
need. The key is one order for all of them, `Over`: the later comparison window, then the
longer branch, then the greater identifier. A comparison of the queue deletes the lesser of
its two leaves (in one window it keeps the winner of the tree, which is the longer branch or
the greater identifier), and a child is over its parent until a revision is backdated.
`VersionsMove` says that what a dead revision held was given up, overwritten, or is held by
a known revision over it; `RevisionsMove` says that, with a policy, every dead revision has
a known one over it. Replication unites trees and preserves both. A finite set has a greatest
element of the order (`FiniteHasTop`), which is therefore alive: this is the version that
survives, and the one that holds the content. `JobsKeep` and `JobsSpare` carry the same
through the awaits between the choice of a revision and its deletion. `JobsHold` says that,
while only the queue works on an unchanging tree (`Alone`), the text being stored replaces
what it was made from and what is to be deleted is a leaf; this is why nothing is
overwritten then (`MergesKnow`) and every write that is due happens (`WritesHappen`).
`VaultFollows` says that a file that does not show the only leaf is about to be written, or
that a write was missed.

### CustomisationSync_proofs

From `CustomisationAssumption`, for all files, circumstances and bounds:

- `TypeCorrect`: `Spec => []TypeOK`, which includes that the list and the loads name
  entries that are there, whatever is reloaded below them.
- `EventsGather`: `Spec => []EventsSuffice`.

*The argument.* `Gathered` says what is true between the reads of a store: either
something is still to begin that will read the files again (`Pending`), or what the one
store that has the lock has read so far is what the files contain, or nothing runs and the
document is right, or passes for it by its average mtime. An edit always makes `Pending`
true, since `Heard` says that its event is not passed over. A store gives the lock to the
next one, which has read nothing yet, so that a stale result is never the last. A removal
must leave a file, because a scan that finds none deletes the document.

### HiddenFileSync_proofs

From `HiddenAssumption`, for any contents, arrivals, rules, window width and bounds:

- `TypeCorrect`: `Spec => []TypeOK`.
- `Seen`: `Spec => []DifferenceIsSeen` under `DistinctTimes`: no two revisions that arrive
  have the same mtime.

*The argument.* A key of a file is its mtime, so that the recorded keys say something only
if one mtime means one content. `TimeInv` establishes it for the file, the leaves and what
operations remember: the mtimes of edits and of arrivals differ, and no two of a kind are
equal. `KeyInv` then says of the recorded pair of keys: a file with the first key has no
other content than the leaf with the second (`Honest`), and where no file is recorded the
leaf has no content (`Gone`). `Gone` is said of the pair the key-value database holds too,
because a kill goes back to it, and lapses only while a deletion is under way; `Honest` is
broken while a store or a write is under way (`Flushing` for the write of a check) and
restored by its end. `EmptyInv` says that a document without leaves never existed, or is
about to be stored by the dialogue. When nothing is under way, a file and a winner whose
keys are both the recorded ones therefore have one content, which is `DifferenceIsSeen`.

### Only model-checked

The liveness properties: `EventuallyReflected`, `ActivityIsReleased`, `EventuallySettled`,
`Converges`, `CatchesUp` (twice), `ListCatchesUp`, `Ends` and `Agreement`. Liveness under
fairness, and everything that needs `ENABLED`, is beyond the proof system. The deviations of
section 4 are counterexamples and need no proof. No module has a `RECURSIVE` operator, and
no property needs induction over data.

## 6. Plan

1. Composition: `ReplicateResultProcessor` with `WindowVisibility`, so that the activity of
   the one is what the other waits for; `TweakAgreement` with `RedFlagRecovery`, through the
   flag a rebuild schedules.
2. Garbage collection (`gcv3`): the devices it waits for, and a device that returns.
3. Abstract specifications of conflict resolution and of hidden file synchronisation, whose
   invariants (`Over`, `KeyInv`) suggest them, with the refinement proved.

## 7. Not modelled

- In the common library, and so not in the repository: replication, chunks, encryption, the
  event queue of the storage, start-up scans, the rebuilder, object storage and
  peer-to-peer transports. What the modelled code needs of them is external in the map.
- The choice of a replicator is a table; its failures are messages (`ModuleReplicator.ts`).
- The activation of the synchronisation service is one chain of requests and one patch of
  the settings; what happens to these settings afterwards is in `TweakAgreement`.
- The migration of the plug-in's identity copies one `data.json`, if the present one does
  not exist and the former one does, before anything else runs. A write that a kill cuts
  off would count as existing; whether a write can be cut off is up to the host.
- `ModuleMigration` and the compatibility review: dialogues that set one setting each, and
  one flag that pauses synchronisation until a review is acknowledged.
- Database maintenance: `gcv3` and `compactDatabase` are one long operation behind a
  dialogue; `performGC` and the operations around it are called nowhere (their buttons are
  commented out in `PaneMaintenance.ts`).
- The key-value database is a wrapper of IndexedDB; the order of its operations is in
  `ReplicateResultProcessor`.
- Adapters of the host, the sequence of registrations at start, dialogues, panes, themes,
  translations and logs: no state another part depends on. The two catalogues of messages
  are a sixth of the code.
- The command line, web and peer applications host the same library.
- Of the server of the AI agent only what the client can observe is modelled; that it
  answers truthfully is an assumption of `ShownIsServed`.

## 8. Running

    tlc -workers 2 -config RRP_live.cfg MCReplicateResultProcessor.tla
    tlapm RedFlagRecovery_proofs.tla

The proofs of a module take from some seconds to a few minutes. The largest runs,
`hfs_hidden`, `cr_conflicts` and `csy_sync`, take one to two and a half minutes with two
workers; the others less than one.
