--------------------------- MODULE HiddenFileSync ---------------------------
(***************************************************************************)
(* Hidden File Sync for ONE hidden file of one device.                     *)
(*                                                                         *)
(* The file in the storage and the document in the local database are      *)
(* compared through keys recorded when each was last processed: the key of *)
(* the file (its mtime and size), the last mtime the file was known with,  *)
(* and the key of the document (its revision).  The keys live in maps that *)
(* are saved some time after they change.  Three kinds of program move     *)
(* content: tracking operations, one at a time for a file (the lock        *)
(* hidden-file-event), scans that start tracking operations, and the       *)
(* conflict checks, which hold only the lock file-<path> while they store  *)
(* or extract.  The user, replication and kills interleave with all.       *)
(***************************************************************************)
EXTENDS Integers, Sequences, FiniteSets, FiniteSetsExt

CONSTANTS
    Body,         \* the contents the file may have
    Resolution,   \* compareMTime compares times rounded down to this many ticks
    Rules,        \* how a conflict may be resolved: "newer", "merge", "ask"
    CheckKeys,    \* the spellings of the path the conflict checks are keyed by
    Setups        \* the circumstances to look at, one of which a behaviour has

\* remote: the mtime of the revision of each rank that may arrive (even); directions:
\* the initialisations the user may run; and the bounds: edits (merges and
\* initialisations by the user included), failing operations, and kills.
IsSetup(s) ==
    /\ s.remote \in Seq(Nat \ {0}) /\ s.remote # <<>>
    /\ \A r \in DOMAIN s.remote : s.remote[r] % 2 = 0
    /\ s.directions \subseteq {"pushForce", "pullForce", "safe"}
    /\ {s.edits, s.fails, s.kills} \subseteq Nat

NoBody == "none"

ASSUME HiddenAssumption ==
    /\ Resolution \in Nat \ {0} /\ Rules # {} /\ Rules \subseteq {"newer", "merge", "ask"}
    /\ CheckKeys \subseteq {"path", "i:path"} /\ "path" \in CheckKeys /\ NoBody \notin Body
    /\ \A s \in Setups : IsSetup(s)

None == 0 - 1                               \* no key is recorded
Absent == [mtime |-> 0, body |-> NoBody]    \* statHidden and statToKey(null)
NoLeaf == [rev |-> 0, mtime |-> 0, body |-> NoBody, del |-> TRUE]

VARIABLES
    setup,   \* the circumstances of the behaviour; they do not change
    file,    \* the file in the storage
    docs,    \* the live leaves of the document
    used,    \* revisions that exist or existed
    seen,    \* _fileInfoLastProcessed
    known,   \* _fileInfoLastKnown
    dseen,   \* _databaseInfoLastProcessed
    saved,   \* what the key-value database holds of the three maps
    op,      \* the tracking operation that holds the lock hidden-file-event
    ev,      \* events that wait for it: "storage", "database"
    scan,    \* the steps a running scan still has to make, and what it listed
    checks,  \* pendingConflictChecks and what each check is doing
    lapse,   \* history: how the first difference went unrecorded
    edits, fails, kills

vars == <<setup, file, docs, used, seen, known, dseen, saved, op, ev, scan, checks,
          lapse, edits, fails, kills>>
keys == <<seen, known, dseen>>
bounds == <<edits, fails, kills>>

(* ------------------------- files and revisions ------------------------- *)

Winner == IF docs = {} THEN NoLeaf ELSE CHOOSE l \in docs : \A m \in docs : l.rev >= m.rev
Conflicted == Cardinality(docs) > 1
LiveMTime(l) == IF l.del THEN 0 ELSE l.mtime        \* getComparingMTime
FileOf(l) == IF l.del THEN Absent ELSE [mtime |-> l.mtime, body |-> l.body]

Compare(base, target) ==
    LET b == base \div Resolution
        t == target \div Resolution
    IN  IF b = t THEN "even" ELSE IF b > t THEN "base" ELSE "target"

\* putDBEntry: a new revision on the current winner, which outranks all
NextRev == Max(used \cup {0}) + 1
Put(c) == /\ docs' = (docs \ {Winner}) \cup {[rev |-> NextRev, mtime |-> c.mtime,
                                              body |-> c.body, del |-> c.body = NoBody]}
          /\ used' = used \cup {NextRev}

InSync == file.body = Winner.body
\* Nothing is hidden when a file c and revision r are recorded as processed together
Agree(c, r) == IF docs = {} THEN c = Absent ELSE \A l \in docs : l.rev = r => l.body = c.body
\* A scan starts from the names that exist or have a key
Seeable == \/ seen # file.mtime /\ ~(seen = None /\ file = Absent)
           \/ docs # {} /\ dseen # Winner.rev

(* --------------------------- recorded keys ----------------------------- *)

\* A variant: a deletion also clears the key the file was last known with.
RecordFile_Forgets(t) == seen' = t /\ known' = IF t = 0 THEN None ELSE t

RecordFile(t) == /\ seen' = t
                 /\ known' = IF t = 0 THEN known ELSE t
RecordBoth(t, r) == RecordFile(t) /\ dseen' = r
Lapsed(how, unless) == lapse' = IF lapse # "no" \/ unless THEN lapse ELSE how

\* autosaveCache commits the maps some time after they changed
Save ==
    /\ kills < setup.kills
    /\ saved' = [seen |-> seen, known |-> known, dseen |-> dseen] /\ saved' # saved
    /\ UNCHANGED <<file, docs, used, keys, op, ev, scan, checks, lapse, bounds>>

(* ----------------- tracking a change of the storage -------------------- *)

Idle == [pc |-> "idle", force |-> FALSE, cache |-> Absent, meta |-> NoLeaf]
\* Inside the lock file-<path>: a file was written, its key not yet read
Flushing == \E k \in CheckKeys : checks[k].pc = "flushStat"
Locked == op.pc = "stat" \/ Flushing

\* trackStorageFileModification: unless the file has the last key it is read and
\* its key recorded; with onlyNew the file is then left as processed or processed;
\* a file that is absent and has no last key is taken for a folder
TrackStorage(onlyNew, force, last, dlast) ==
    LET c == file
        t == IF c = Absent THEN known ELSE c.mtime
        order == Compare(t, LiveMTime(Winner))
        skip == onlyNew /\ order # "target"
        unknown == last = None /\ c = Absent
    IN  IF last = c.mtime THEN UNCHANGED <<keys, op, lapse>>
        ELSE /\ RecordFile(c.mtime)
             /\ dseen' = IF skip /\ ~Winner.del /\ c # Absent THEN Winner.rev ELSE dlast
             /\ op' = IF skip \/ unknown THEN Idle
                      ELSE [Idle EXCEPT !.pc = IF c = Absent THEN "delete" ELSE "store",
                                        !.cache = c, !.force = force]
             /\ Lapsed(CASE unknown -> "unknown"
                          [] skip /\ c # Absent /\ order = "base" -> "newer"
                          [] OTHER -> "even",
                       Agree(c, dseen') \/ ~(skip \/ unknown))

StorageEvent ==
    /\ op = Idle /\ "storage" \in ev
    /\ ev' = ev \ {"storage"}
    /\ TrackStorage(FALSE, FALSE, seen, dseen)
    /\ UNCHANGED <<file, docs, used, saved, scan, checks, bounds>>

\* storeInternalFileToDatabase: the same content is only recorded
Store ==
    /\ op.pc = "store" /\ ~Locked /\ op' = Idle
    /\ IF ~Winner.del /\ Winner.body = op.cache.body /\ ~op.force
       THEN RecordBoth(op.cache.mtime, Winner.rev) /\ UNCHANGED <<docs, used>>
       ELSE RecordBoth(op.cache.mtime, NextRev) /\ Put(op.cache)
    /\ UNCHANGED <<file, saved, ev, scan, checks, lapse, bounds>>

\* deleteInternalFileOnDatabase removes the conflicted revisions first
Delete ==
    /\ op.pc = "delete" /\ ~Locked
    /\ IF docs # {} /\ Winner.del
       THEN docs' = {Winner} /\ RecordBoth(0, Winner.rev) /\ UNCHANGED used
       ELSE /\ docs' = {[rev |-> NextRev, mtime |-> 2 * edits + 1, body |-> NoBody, del |-> TRUE]}
            /\ used' = used \cup {NextRev}
            /\ RecordBoth(0, NextRev)
    /\ op' = Idle
    /\ UNCHANGED <<file, saved, ev, scan, checks, lapse, bounds>>

\* A storage track whose database write fails: the key stays recorded
FailStored ==
    /\ op.pc \in {"store", "delete"} /\ ~Locked /\ fails < setup.fails
    /\ fails' = fails + 1
    /\ docs' = IF op.pc = "delete" /\ docs # {} THEN {Winner} ELSE docs
    /\ op' = Idle
    /\ lapse' = IF lapse = "no" THEN "store" ELSE lapse
    /\ UNCHANGED <<file, used, keys, saved, ev, scan, checks, edits, kills>>

(* ----------------- tracking a change of the database ------------------- *)

Queue(k) == checks' = IF checks[k].pc = "none" THEN [checks EXCEPT ![k].pc = "queued"] ELSE checks

\* A variant: the revision is recorded when the operation begins, not when it is written.
BeginDatabase_Early(onlyNew, once, meta) ==
    /\ op' = IF once /\ dseen = meta.rev THEN Idle ELSE [Idle EXCEPT !.pc = "write", !.meta = meta]
    /\ dseen' = meta.rev /\ UNCHANGED <<seen, known, lapse>>

\* extractInternalFileFromDatabase up to the decision to write
BeginDatabase(onlyNew, once, meta) ==
    LET t == IF file = Absent THEN known ELSE file.mtime
    IN  IF once /\ dseen = meta.rev
        THEN op' = Idle /\ UNCHANGED <<keys, lapse>>
        ELSE IF onlyNew /\ Compare(t, meta.mtime) # "target"
        THEN /\ dseen' = meta.rev
             /\ IF file = Absent THEN UNCHANGED <<seen, known>> ELSE RecordFile(file.mtime)
             /\ op' = Idle /\ Lapsed("even", Agree(file, meta.rev))
        ELSE /\ op' = [Idle EXCEPT !.pc = "write", !.meta = meta]
             /\ UNCHANGED <<keys, lapse>>

DatabaseEvent ==
    /\ op = Idle /\ "database" \in ev
    /\ ev' = ev \ {"database"}
    /\ IF Conflicted THEN Queue("path") /\ UNCHANGED <<op, keys, lapse>>
       ELSE /\ UNCHANGED checks
            /\ IF docs = {} THEN UNCHANGED <<op, keys, lapse>>
               ELSE BeginDatabase(FALSE, FALSE, Winner)
    /\ UNCHANGED <<file, docs, used, saved, scan, bounds>>

WriteFile ==
    /\ op.pc = "write" /\ ~Locked
    /\ IF op.meta.del
       THEN /\ file' = Absent /\ dseen' = op.meta.rev /\ op' = Idle
            /\ IF file = Absent THEN UNCHANGED <<seen, known>> ELSE RecordFile(0)
       ELSE IF file.body = op.meta.body
       THEN RecordBoth(file.mtime, op.meta.rev) /\ op' = Idle /\ UNCHANGED file
       ELSE file' = FileOf(op.meta) /\ op' = [op EXCEPT !.pc = "stat"] /\ UNCHANGED keys
    /\ UNCHANGED <<docs, used, saved, ev, scan, checks, lapse, bounds>>

\* The key recorded for the file is read after it was written
StatWritten ==
    /\ op.pc = "stat"
    /\ IF file = Absent THEN UNCHANGED <<keys, lapse>>
       ELSE RecordBoth(file.mtime, op.meta.rev) /\ Lapsed("raced", Agree(file, op.meta.rev))
    /\ op' = Idle
    /\ UNCHANGED <<file, docs, used, saved, ev, scan, checks, bounds>>

FailWritten ==
    /\ op.pc = "write" /\ ~Locked /\ fails < setup.fails
    /\ fails' = fails + 1 /\ op' = Idle
    /\ UNCHANGED <<file, docs, used, keys, saved, ev, scan, checks, lapse, edits, kills>>

(* ------------------------------- scans --------------------------------- *)

\* Variants: the scan at start-up looks at one side only.
Program_NoDatabase(p) == IF p = "periodic" THEN <<"storage">> ELSE <<"list", "both", "storage">>
Program_NoStorage(p) ==
    CASE p \in {"offline", "periodic"} -> <<"list", "both", "database">>
      [] p = "pushForce" -> <<"fromStorage", "adopt">>
      [] OTHER -> <<"list", "fromDatabase", "adopt">>

Program(p) ==
    CASE p = "offline"   -> <<"list", "both", "storage", "list", "database">>
      [] p = "periodic"  -> <<"storage">>
      [] p = "pushForce" -> <<"fromStorage", "adopt", "storageNew", "list", "databaseNew">>
      [] p = "pullForce" -> <<"list", "fromDatabase", "adopt", "list", "databaseNew", "storageNew">>
      [] p = "safe"      -> <<"list", "merge", "adopt", "storageNew", "list", "databaseNew">>

Quiet == [todo |-> <<>>, snap |-> NoLeaf, did |-> FALSE]

\* The scan at start-up or resume, the periodic one, and the commands
StartScan(p) ==
    /\ scan.todo = <<>>
    /\ scan' = [Quiet EXCEPT !.todo = Program(p)]
    /\ IF p \in setup.directions THEN edits < setup.edits /\ edits' = edits + 1 ELSE UNCHANGED edits
    /\ UNCHANGED <<file, docs, used, keys, saved, op, ev, checks, lapse, fails, kills>>

Step(s) ==
    /\ scan.todo # <<>> /\ Head(scan.todo) = s /\ op = Idle
    /\ scan' = IF Len(scan.todo) = 1 THEN Quiet
               ELSE [todo |-> Tail(scan.todo),
                     snap |-> IF s = "list" THEN Winner ELSE scan.snap,
                     did  |-> CASE s = "fromStorage" -> file # Absent
                                [] s = "fromDatabase" -> scan.snap # NoLeaf
                                [] s = "merge" -> scan.snap # NoLeaf \/ file # Absent
                                [] OTHER -> scan.did]
    /\ UNCHANGED <<file, docs, used, saved, ev, checks, bounds>>

\* getAllDatabaseFiles: the winner, without its conflicts
List == Step("list") /\ UNCHANGED <<keys, op, lapse>>

\* applyOfflineChanges: both sides exist and neither was ever processed
ScanBoth ==
    LET m == scan.snap
        both == file # Absent /\ seen = None /\ m # NoLeaf /\ dseen = 0 /\ ~m.del
    IN  /\ Step("both")
        /\ \/ ~both /\ UNCHANGED <<keys, op, lapse>>
           \/ /\ both /\ Compare(file.mtime, m.mtime) = "base"
              /\ TrackStorage(TRUE, FALSE, seen, dseen)
           \/ /\ both /\ Compare(file.mtime, m.mtime) = "target"
              /\ BeginDatabase(TRUE, TRUE, m)
           \/ /\ both /\ Compare(file.mtime, m.mtime) = "even"
              /\ RecordBoth(file.mtime, m.rev) /\ Lapsed("even", Agree(file, m.rev))
              /\ UNCHANGED op

\* scanAllStorageChanges and scanAllDatabaseChanges
ScanStorage ==
    \E s \in {"storage", "storageNew"} :
        /\ Step(s)
        /\ IF seen = None /\ file = Absent THEN UNCHANGED <<keys, op, lapse>>
           ELSE TrackStorage(s = "storageNew", FALSE, seen, dseen)

ScanDatabase ==
    \E s \in {"database", "databaseNew"} :
        /\ Step(s)
        /\ IF scan.snap = NoLeaf THEN UNCHANGED <<keys, op, lapse>>
           ELSE BeginDatabase(s = "databaseNew", TRUE, scan.snap)

\* rebuildFromStorage and rebuildFromDatabase forget the keys of one side and
\* process that side; rebuildMerging forgets both and compares the times
Rebuild ==
    LET m == scan.snap
        order == Compare(file.mtime, LiveMTime(m))
    IN  \/ /\ Step("fromStorage")
           /\ IF file # Absent THEN TrackStorage(FALSE, TRUE, None, dseen)
              ELSE /\ seen' = None /\ UNCHANGED <<known, dseen, op>>
                   /\ Lapsed("unknown", Agree(file, dseen))
        \/ /\ Step("fromDatabase") /\ UNCHANGED <<seen, known, lapse>>
           /\ dseen' = 0
           /\ op' = IF m = NoLeaf THEN Idle ELSE [Idle EXCEPT !.pc = "write", !.meta = m]
        \/ /\ Step("merge")
           /\ IF order # "target" THEN TrackStorage(FALSE, TRUE, None, 0)
              ELSE /\ seen' = None /\ dseen' = 0 /\ UNCHANGED <<known, lapse>>
                   /\ op' = [Idle EXCEPT !.pc = "write", !.meta = m]

\* A variant: everything is adopted whether or not it was initialised.
Adopt_Everything ==
    /\ Step("adopt") /\ UNCHANGED <<known, op>>
    /\ seen' = file.mtime /\ dseen' = Winner.rev
    /\ Lapsed("adopted", InSync \/ ~scan.did)

\* adoptCurrentStorageFilesAsProcessed, adoptCurrentDatabaseFilesAsProcessed
Adopt ==
    /\ Step("adopt") /\ UNCHANGED <<known, op>>
    /\ seen' = IF scan.did /\ file # Absent THEN file.mtime ELSE seen
    /\ dseen' = IF scan.did /\ docs # {} THEN Winner.rev ELSE dseen
    /\ Lapsed("adopted", InSync \/ ~scan.did)

(* --------------------------- conflict checks --------------------------- *)

NoCheck == [pc |-> "none", a |-> NoLeaf, b |-> NoLeaf]
Oldest == CHOOSE l \in docs \ {Winner} : \A m \in docs \ {Winner} : l.rev <= m.rev
Live(l) == l.rev \in {m.rev : m \in docs}
Without(r) == {l \in docs : l.rev # r}     \* removeRevision: only a leaf can be removed
Goto(k, pc) == checks' = [checks EXCEPT ![k].pc = pc]
Requeue(k) == checks' = [checks EXCEPT ![k] = [NoCheck EXCEPT !.pc = "queued"]]

\* _anyGetOptionalConflictCheckMethod queues the prefixed spelling
QueueChecked(k) ==
    /\ Conflicted /\ checks[k].pc = "none" /\ Queue(k)
    /\ UNCHANGED <<file, docs, used, keys, saved, op, ev, scan, lapse, bounds>>

\* conflictResolutionProcessor: the winner and the conflict of the lowest rank
Check(k) ==
    /\ checks[k].pc = "queued"
    /\ IF ~Conflicted THEN checks' = [checks EXCEPT ![k] = NoCheck]
       ELSE \E pc \in IF Winner.del \/ Oldest.del THEN {"newer"} ELSE Rules :
              checks' = [checks EXCEPT ![k] = [pc |-> pc, a |-> Winner, b |-> Oldest]]
    /\ UNCHANGED <<file, docs, used, keys, saved, op, ev, scan, lapse, bounds>>

\* resolveByNewerEntry; what remains is checked again and nothing is extracted
ResolveByNewer(k) ==
    /\ checks[k].pc = "newer"
    /\ docs' = Without(IF checks[k].a.mtime < checks[k].b.mtime
                       THEN checks[k].a.rev ELSE checks[k].b.rev)
    /\ Lapsed("lost", docs' # {})
    /\ Requeue(k)
    /\ UNCHANGED <<file, used, keys, saved, op, ev, scan, bounds>>

\* mergeObject found a result: it is written to the storage
WriteMerged(k) ==
    /\ checks[k].pc = "merge" /\ edits < setup.edits
    /\ edits' = edits + 1
    /\ \E b \in Body : file' = [mtime |-> 2 * edits + 3, body |-> b]
    /\ Goto(k, "mergeStore")
    /\ UNCHANGED <<docs, used, keys, saved, op, ev, scan, lapse, fails, kills>>

\* showJSONMergeDialogAndMerge: the revisions that are not kept are deleted, which
\* throws once one is no leaf; a result is written only after that; or the user cancels
Answer(k) ==
    LET a == checks[k].a
        b == checks[k].b
    IN  /\ checks[k].pc = "ask"
        /\ \/ \E gone \in {a, b} :
                /\ docs' = Without(gone.rev)
                /\ IF Live(gone) THEN Goto(k, "flush") ELSE checks' = [checks EXCEPT ![k] = NoCheck]
                /\ UNCHANGED <<file, edits>>
           \/ /\ edits < setup.edits /\ edits' = edits + 1
              /\ docs' = IF Live(a) THEN docs \ {a, b} ELSE docs
              /\ IF Live(a) /\ Live(b)
                 THEN /\ \E c \in Body : file' = [mtime |-> 2 * edits + 3, body |-> c]
                      /\ Goto(k, "askStore")
                 ELSE UNCHANGED file /\ checks' = [checks EXCEPT ![k] = NoCheck]
           \/ checks' = [checks EXCEPT ![k] = NoCheck] /\ UNCHANGED <<docs, file, edits>>
        /\ Lapsed("lost", docs' # {} \/ checks'[k].pc = "askStore")
        /\ UNCHANGED <<used, keys, saved, op, ev, scan, fails, kills>>

\* The merged file is stored as any change of the storage is
StoreMerged(k) ==
    LET same == ~Winner.del /\ Winner.body = file.body
    IN  /\ checks[k].pc \in {"mergeStore", "askStore"} /\ ~Locked
        /\ IF file = Absent THEN UNCHANGED <<docs, used, keys>>
           ELSE IF checks[k].pc = "mergeStore" /\ same
           THEN RecordBoth(file.mtime, Winner.rev) /\ UNCHANGED <<docs, used>>
           ELSE Put(file) /\ RecordBoth(file.mtime, NextRev)
        /\ Lapsed("lost", docs' # {})
        /\ Goto(k, IF checks[k].pc = "mergeStore" THEN "drop" ELSE "flush")
        /\ UNCHANGED <<file, saved, op, ev, scan, bounds>>

DropMerged(k) ==
    /\ checks[k].pc = "drop"
    /\ docs' = Without(checks[k].b.rev)
    /\ Lapsed("lost", docs' # {})
    /\ Requeue(k)
    /\ UNCHANGED <<file, used, keys, saved, op, ev, scan, bounds>>

\* The surviving revision is written unless a conflict remains or it was processed
Flush(k) ==
    LET skip == Conflicted \/ docs = {} \/ dseen = Winner.rev
        writes == ~skip /\ ~Winner.del /\ file.body # Winner.body
    IN  /\ checks[k].pc = "flush" /\ ~Locked
        /\ file' = IF skip \/ file.body = Winner.body THEN file ELSE FileOf(Winner)
        /\ IF skip \/ writes THEN UNCHANGED keys
           ELSE IF file = Absent THEN dseen' = Winner.rev /\ UNCHANGED <<seen, known>>
           ELSE RecordBoth(file'.mtime, Winner.rev)
        /\ IF writes THEN checks' = [checks EXCEPT ![k] = [@ EXCEPT !.pc = "flushStat", !.a = Winner]]
           ELSE Requeue(k)
        /\ UNCHANGED <<docs, used, saved, op, ev, scan, lapse, bounds>>

\* As in StatWritten
FlushStat(k) ==
    /\ checks[k].pc = "flushStat"
    /\ IF file = Absent THEN UNCHANGED <<keys, lapse>>
       ELSE /\ RecordBoth(file.mtime, checks[k].a.rev)
            /\ Lapsed("raced", Agree(file, checks[k].a.rev))
    /\ Requeue(k)
    /\ UNCHANGED <<file, docs, used, saved, op, ev, scan, bounds>>

\* The store of a merged file or the write of the survivor fails: the check goes on
FailResolved(k) ==
    /\ ~Locked /\ fails < setup.fails /\ fails' = fails + 1
    /\ \/ /\ checks[k].pc \in {"mergeStore", "askStore"} /\ Lapsed("lost", docs # {})
          /\ Goto(k, IF checks[k].pc = "mergeStore" THEN "drop" ELSE "flush")
       \/ checks[k].pc = "flush" /\ Requeue(k) /\ UNCHANGED lapse
    /\ UNCHANGED <<file, docs, used, keys, saved, op, ev, scan, edits, kills>>

(* -------------------- the user, replication, kills --------------------- *)

\* An edit; the storage event that follows may be missed
Edit ==
    /\ edits < setup.edits /\ edits' = edits + 1
    /\ \/ \E b \in Body : file' = [mtime |-> 2 * edits + 3, body |-> b]
       \/ file # Absent /\ file' = Absent
    /\ \/ ev' = ev \cup {"storage"} \/ UNCHANGED ev
    /\ UNCHANGED <<docs, used, keys, saved, op, scan, checks, lapse, fails, kills>>

\* A revision arrives: a child of a leaf, or a branch of its own
Replicate ==
    /\ \E r \in DOMAIN setup.remote \ used, b \in Body \cup {NoBody}, parent \in docs \cup {NoLeaf} :
         /\ r > parent.rev
         /\ docs' = (docs \ {parent}) \cup
                       {[rev |-> r, mtime |-> setup.remote[r], body |-> b, del |-> b = NoBody]}
         /\ used' = used \cup {r}
    /\ ev' = ev \cup {"database"}
    /\ UNCHANGED <<file, keys, saved, op, scan, checks, lapse, bounds>>

\* A kill loses what runs and the keys that were not saved; the start scans
Kill ==
    /\ kills < setup.kills /\ kills' = kills + 1
    /\ seen' = saved.seen /\ known' = saved.known /\ dseen' = saved.dseen
    /\ op' = Idle /\ ev' = {} /\ checks' = [k \in CheckKeys |-> NoCheck]
    /\ scan' = [Quiet EXCEPT !.todo = Program("offline")]
    /\ Lapsed("killed", ~\/ op.pc \in {"store", "delete"}
                         \/ \E k \in CheckKeys : checks[k].pc = "askStore"
                         \/ saved.seen = file.mtime /\ ~Agree(file, saved.dseen))
    /\ UNCHANGED <<file, docs, used, saved, edits, fails>>

Init ==
    /\ setup \in Setups
    /\ \/ file = Absent
       \/ \E b \in Body : file = [mtime |-> 1, body |-> b]
    /\ \/ docs = {}
       \/ \E b \in Body : docs = {[rev |-> 1, mtime |-> setup.remote[1], body |-> b, del |-> FALSE]}
    /\ used = {l.rev : l \in docs}
    /\ seen = None /\ known = 0 /\ dseen = 0
    /\ saved = [seen |-> None, known |-> 0, dseen |-> 0]
    /\ op = Idle /\ ev = {} /\ scan = [Quiet EXCEPT !.todo = Program("offline")]
    /\ checks = [k \in CheckKeys |-> NoCheck]
    /\ lapse = "no" /\ edits = 0 /\ fails = 0 /\ kills = 0

Track == \/ StorageEvent \/ Store \/ Delete
         \/ DatabaseEvent \/ WriteFile \/ StatWritten
ScanStep == List \/ ScanBoth \/ ScanStorage \/ ScanDatabase \/ Rebuild \/ Adopt
Resolve(k) == \/ Check(k) \/ ResolveByNewer(k) \/ WriteMerged(k) \/ Answer(k)
              \/ StoreMerged(k) \/ DropMerged(k) \/ Flush(k) \/ FlushStat(k)

Next ==
    /\ \/ Track \/ ScanStep \/ FailStored \/ FailWritten
       \/ \E k \in CheckKeys : Resolve(k) \/ QueueChecked(k) \/ FailResolved(k)
       \/ \E p \in setup.directions \cup {"offline", "periodic"} : StartScan(p)
       \/ Edit \/ Replicate \/ Save \/ Kill
    /\ UNCHANGED setup

Spec == Init /\ [][Next]_vars

(* Tracking operations, the steps of a running scan and the checks are     *)
(* promises that end; a resume or a start makes another offline scan.      *)
Same(A) == A /\ UNCHANGED setup
FairSpec == /\ Spec
            /\ WF_vars(Same(Track)) /\ WF_vars(Same(ScanStep))
            /\ SF_vars(Same(StartScan("offline")))
            /\ \A k \in CheckKeys : WF_vars(Same(Resolve(k)))

(***************************************************************************)
(* Properties                                                              *)
(***************************************************************************)

\* Every part of the state keeps its type.
TypeOK ==
    /\ file \in [mtime : Nat, body : Body \cup {NoBody}]
    /\ docs \subseteq [rev : Nat, mtime : Nat, body : Body \cup {NoBody}, del : BOOLEAN]
    /\ used \subseteq Nat /\ {l.rev : l \in docs} \subseteq used
    /\ seen \in Nat \cup {None} /\ known \in Nat /\ dseen \in Nat
    /\ op.pc \in {"idle", "store", "delete", "write", "stat"}
    /\ ev \subseteq {"storage", "database"}

AtRest == op = Idle /\ scan.todo = <<>> /\ ev = {}
          /\ \A k \in CheckKeys : checks[k].pc \in {"none", "queued", "newer", "ask"}

\* When nothing is under way and the storage and the winning revision differ,
\* a recorded key is out of date, so that the next scan sees the difference;
\* the only exceptions are the lapses the README lists.
DifferenceIsSeen == AtRest /\ lapse = "no" => InSync \/ Seeable

\* Every difference that is seen is removed: the storage ends with the content
\* of the winning revision.
CatchesUp == <>[](InSync \/ lapse # "no")

\* A local file that is newer than the database is never left as processed
\* while the database holds another content.
NewerLocalIsApplied == lapse # "newer"

=============================================================================
