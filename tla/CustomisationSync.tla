------------------------- MODULE CustomisationSync -------------------------
(***************************************************************************)
(* Customisation Sync for ONE plug-in of a few files, on one device.       *)
(*                                                                         *)
(* The customisations of each device are kept in documents under its name: *)
(* one document for the whole plug-in, or, with usePluginSyncV2, one for   *)
(* each file.  Files are stored by events of the vault, gathered for       *)
(* 100 ms, and by scans.  The dialogue shows a list built in memory from   *)
(* the documents of all devices, applies the files of another device, and  *)
(* deletes the documents of one.  With usePluginSyncV2 the documents of    *)
(* whole plug-ins found on the way are migrated.  The user, replication,   *)
(* failures and kills interleave with all.                                 *)
(*                                                                         *)
(* A number stands for a file: its mtime and, modulo 100, its content;     *)
(* 0 for none.                                                             *)
(***************************************************************************)
EXTENDS Integers, FiniteSets, Functions

CONSTANTS
    File,      \* the files of the plug-in
    Setups     \* the circumstances to look at, one of which a behaviour has

Mine == "mine"            \* getDeviceAndVaultName, and the name of another device
Theirs == "theirs"
Term == {Mine, Theirs}
Whole == "whole"          \* the document of the whole plug-in, beside those of its files
None == "none"           \* no task, no device
NoEntry == <<>>
WholeEntry == <<Whole, 0>>

\* v2: usePluginSyncV2; sweep: autoSweepPlugins; watch: watchInternalFileChanges;
\* vault, v1: whether files, and documents of whole plug-ins, exist at the start;
\* same: whether edits may fall into the second of the one before; overlap: whether a
\* scan may begin while the list is still loading or migrating; and the bounds.
Bounds == {"edits", "deletions", "arrivals", "commands", "fails", "suspensions", "kills"}
IsSetup(s) ==
    /\ {s.v2, s.sweep, s.watch, s.vault, s.v1, s.same, s.overlap} \subseteq BOOLEAN
    /\ \A b \in Bounds : s[b] \in Nat

ASSUME CustomisationAssumption ==
    File # {} /\ File \cap {Whole, None} = {} /\ \A s \in Setups : IsSetup(s)

VARIABLES
    setup,      \* the circumstances of the behaviour; they do not change
    left,       \* what is left of each bound
    vault,      \* the files
    v1, v2,     \* the documents of whole plug-ins, and of files, by device
    events,     \* files with a raw event of the vault still to be handled
    recent,     \* recentProcessedInternalFiles: the latest second of a file, or its absence
    task,       \* the store scheduled for the plug-in, if any, and its file
    stores,     \* storeCustomizationFiles under way, and what each has read
    scan,       \* the running scan, the files it found and the documents it deletes
    list,       \* pluginList: the entry shown for a device
    shown,      \* what each entry in use shows
    gen,        \* how often the list was cleared; names entries apart
    loading,    \* updatePluginListV2 under way, each with the entry it began with
    queue,      \* pluginScanProcessor: devices whose document waits to be processed
    migrating,  \* migrateV1ToV2 under way
    applying, deleting   \* applyData and deleteData under way

outside == <<left, vault>>
docs == <<v1, v2>>
input == <<events, recent, task>>
display == <<list, shown, gen, loading, queue>>
commands == <<applying, deleting>>
vars == <<setup, outside, docs, input, stores, scan, display, migrating, commands>>

Nothing == [f \in File |-> 0]
Present(d) == {f \in File : d[f] # 0}
Live(d) == Present(d) # {}
\* The contents are the same, file by file
Content(n) == n % 100
Same(c, d) == Present(c) = Present(d) /\ \A f \in File : Content(c[f]) = Content(d[f])
\* The mtime of the document of a plug-in: each file of fileTargets, in an order that does
\* not change, is averaged with those before it (times four, for up to three files)
Mtime(d) == FoldFunction(LAMBDA n, m : IF n = 0 THEN m
                                       ELSE IF m = 0 THEN 4 * n ELSE (4 * n + m) \div 2, 0, d)
\* The function f with n for each member of S
With(f, S, n) == [x \in DOMAIN f \cup S |-> IF x \in S THEN n ELSE f[x]]
Spend(b) == left[b] > 0 /\ left' = [left EXCEPT ![b] = @ - 1]
NoScan == [at |-> "idle", found |-> {}, drop |-> {}]
NoMigration == [copy |-> Nothing, todo |-> {}, drop |-> FALSE]
NoApply == [copy |-> Nothing, todo |-> {}]
NoDelete == [term |-> None, todo |-> {}]

Init ==
    /\ setup \in Setups
    /\ left = [b \in Bounds |-> setup[b]]
    /\ vault = [f \in File |-> IF setup.vault THEN 1 ELSE 0]
    /\ v1 = [t \in Term |-> IF setup.v1 THEN [f \in File |-> IF t = Mine THEN 1 ELSE 2]
                            ELSE Nothing]
    /\ v2 = [t \in Term |-> Nothing]
    /\ events = {} /\ recent = {} /\ task = None /\ stores = {}
    /\ scan = [NoScan EXCEPT !.at = "due"]
    /\ list = [t \in Term |-> NoEntry] /\ shown = [t \in Term |-> <<>>] /\ gen = 0
    /\ loading = {} /\ queue = {}
    /\ migrating = [t \in Term |-> NoMigration] /\ applying = NoApply /\ deleting = NoDelete

(* -------------------------- the list of the dialogue ------------------- *)

Load(t, f, e) == [term |-> t, file |-> f, entry |-> e]

\* Only the entries in the list, or held by a load, still exist
Held(l, ld, sh) ==
    [t \in Term |-> Restrict(sh[t], {e \in DOMAIN sh[t] :
                        l[t] = e \/ \E r \in ld : r.term = t /\ r.entry = e})]

\* updatePluginListV2 of each document <<t, f>>, until it awaits the document: the
\* entry of the device is taken from the list, or a new one made for this call
EntryFor(l, g, p) == IF l[p[1]] # NoEntry THEN l[p[1]] ELSE <<p[2], g>>
\* A variant: every call makes an entry of its own.
Begun_New(l, g, set) == {Load(p[1], p[2], <<p[2], g>>) : p \in set}
Begun(l, g, set) == {Load(p[1], p[2], EntryFor(l, g, p)) : p \in set}
Loads(l, g, set) ==
    LET ld == loading \cup Begun(l, g, set)
        new == [t \in Term |-> {r.entry : r \in {q \in ld : q.term = t}} \ DOMAIN shown[t]]
    IN  /\ loading' = ld
        /\ shown' = Held(l, ld, [t \in Term |-> With(shown[t], new[t], Nothing)])

\* updatePluginList(showMessage): every document that is not deleted
LiveFiles == {p \in Term \X File : v2[p[1]][p[2]] # 0}
LiveWholes == {t \in Term : Live(v1[t])}
UpdatePluginList == /\ Loads(list, gen, LiveFiles) /\ queue' = queue \cup LiveWholes
                    /\ UNCHANGED <<list, gen>>

\* reloadPluginList
ReloadPluginList == /\ gen' = gen + 1 /\ list' = [t \in Term |-> NoEntry]
                    /\ Loads(list', gen', LiveFiles) /\ queue' = queue \cup LiveWholes

\* updatePluginList(showMessage, path) of a document that was put; of a deleted one it
\* does nothing
Updated(t, k) ==
    IF k = Whole THEN /\ queue' = IF Live(v1'[t]) THEN queue \cup {t} ELSE queue
                      /\ UNCHANGED <<list, shown, gen, loading>>
    ELSE /\ IF v2'[t][k] # 0 THEN Loads(list, gen, {<<t, k>>}) ELSE UNCHANGED <<loading, shown>>
         /\ UNCHANGED <<list, gen, queue>>

\* The document is loaded: the entry shows it and takes the place of whatever entry the
\* list has.  A document that is gone is NOT taken out of the entry: deleteFile gets
\* the path of the document and compares it with the names of the files.
Loaded(r) ==
    LET c == v2[r.term][r.file]
        l == [list EXCEPT ![r.term] = r.entry]
        ld == loading \ {r}
    IN  /\ list' = l /\ loading' = ld
        /\ shown' = Held(l, ld, IF c = 0 THEN shown
                                ELSE [shown EXCEPT ![r.term][r.entry][r.file] = c])
        /\ UNCHANGED <<outside, docs, input, stores, scan, gen, queue, migrating, commands>>

Shown(t) == IF list[t] = NoEntry THEN Nothing ELSE shown[t][list[t]]

\* pluginScanProcessor without usePluginSyncV2: loadPluginData, and the list, unless the
\* entry of the list has the mtime of the document
ListWhole(t) ==
    /\ t \in queue /\ ~setup.v2
    /\ queue' = queue \ {t}
    /\ IF Live(v1[t]) /\ Mtime(Shown(t)) # Mtime(v1[t])
       THEN /\ list' = [list EXCEPT ![t] = WholeEntry]
            /\ shown' = Held(list', loading, [shown EXCEPT ![t] = With(@, {WholeEntry}, v1[t])])
       ELSE UNCHANGED <<list, shown>>
    /\ UNCHANGED <<outside, docs, input, stores, scan, gen, loading, migrating, commands>>


(* ------------------------------ documents ------------------------------ *)

\* deleteConfigOnDatabase; the list is left alone, as the document is deleted
DeleteConfig(t, k) ==
    IF k = Whole THEN v1' = [v1 EXCEPT ![t] = Nothing] /\ UNCHANGED v2
    ELSE v2' = [v2 EXCEPT ![t][k] = 0] /\ UNCHANGED v1
\* or it fails, which is only logged
DeleteOrFail(t, k) == \/ DeleteConfig(t, k) /\ UNCHANGED left
                      \/ Spend("fails") /\ UNCHANGED docs

(* ---------------------- storing the files of the vault ----------------- *)

Store(by, f) == [by |-> by, file |-> f, got |-> <<>>]
Targets(r) == IF setup.v2 THEN {r.file} ELSE File

\* A variant: the lock is always the one of the file.
Locked_ByFile(r) == \E q \in stores \ {r} : q.got # <<>> /\ q.file = r.file

\* serialized("plugin-<document>"): another store has the lock of the document
Locked(r) == \E q \in stores \ {r} : q.got # <<>> /\ (setup.v2 => q.file = r.file)

\* makeEntryFromFile of one file more; storeCustomisationFileV2 returns without a file
Read(r, f) ==
    /\ f \in Targets(r) \ DOMAIN r.got
    /\ r.got = <<>> => ~Locked(r)
    /\ stores' = (stores \ {r}) \cup
                 IF setup.v2 /\ vault[f] = 0 THEN {}
                 ELSE {[r EXCEPT !.got = With(@, {f}, vault[f])]}
    /\ UNCHANGED <<outside, docs, input, scan, display, migrating, commands>>

\* The document of the plug-in is not put: one of the same mtime, or content, is there
Skipped(d) == Live(d) /\ Live(v1[Mine]) /\ (Mtime(v1[Mine]) = Mtime(d) \/ Same(v1[Mine], d))

\* Everything is read: the document is put unless it has the same content, or deleted
\* when no file is left
Put(r) ==
    /\ DOMAIN r.got = Targets(r)
    /\ stores' = stores \ {r}
    /\ IF setup.v2
       THEN /\ v2' = [v2 EXCEPT ![Mine][r.file] = r.got[r.file]] /\ UNCHANGED v1
            /\ IF v2' = v2 THEN UNCHANGED display ELSE Updated(Mine, r.file)
       ELSE /\ v1' = IF Skipped(r.got) THEN v1 ELSE [v1 EXCEPT ![Mine] = r.got]
            /\ UNCHANGED v2
            /\ IF v1' = v1 THEN UNCHANGED display ELSE Updated(Mine, Whole)
    /\ UNCHANGED <<outside, input, scan, migrating, commands>>

\* A read throws, which ends a scan of whole plug-ins; a failing put is only logged
FailStore(r) ==
    /\ Spend("fails") /\ stores' = stores \ {r}
    /\ scan' = IF r.by = "scan" /\ ~setup.v2 /\ DOMAIN r.got # Targets(r) THEN NoScan ELSE scan
    /\ UNCHANGED <<vault, docs, input, display, migrating, commands>>

\* watchVaultRawEventsAsync: an event of the second last handled is passed over; the
\* store is scheduled under the name of the plug-in, so a later event replaces it
WatchVaultRawEvents(f) ==
    LET key == <<f, vault[f] # 0>>
    IN  /\ f \in events /\ events' = events \ {f}
        /\ recent' = recent \cup {key}
        /\ task' = IF key \in recent THEN task ELSE f
        /\ UNCHANGED <<outside, docs, stores, scan, display, migrating, commands>>

\* While the user has suspended everything an event is rejected.  (The guard before it
\* tests the method _isMainReady, not its answer, and rejects none.)
RejectEvent(f) ==
    /\ f \in events /\ Spend("suspensions")
    /\ events' = events \ {f}
    /\ UNCHANGED <<vault, docs, recent, task, stores, scan, display, migrating, commands>>

TaskFires ==
    /\ task # None /\ task' = None
    /\ stores' = stores \cup {Store("event", task)}
    /\ UNCHANGED <<outside, docs, events, recent, scan, display, migrating, commands>>

(* ------------------------------- the scan ------------------------------ *)

ScanStores == {r \in stores : r.by = "scan"}

\* scanAllConfigFiles: when the database is initialised, and with autoSweepPlugins
\* before each replication and at resuming; a request while one runs shares it
BeginScan ==
    /\ scan.at = "due" \/ (scan.at = "idle" /\ setup.sweep)
    /\ \/ setup.overlap
       \/ loading = {} /\ queue = {} /\ \A t \in Term : migrating[t] = NoMigration
    /\ scan' = [NoScan EXCEPT !.at = "list", !.found = Present(vault)]
    /\ UNCHANGED <<outside, docs, input, stores, display, migrating, commands>>

\* The own documents are listed.  With usePluginSyncV2 those of files are passed over
\* and the one of the plug-in deleted; without it the one of the plug-in is stored
\* if any of its files was found, and the others are deleted.
ListDocuments ==
    /\ scan.at = "list"
    /\ LET whole == IF Live(v1[Mine]) /\ (setup.v2 \/ scan.found = {}) THEN {Whole} ELSE {}
           files == IF setup.v2 THEN {} ELSE Present(v2[Mine])
       IN  scan' = [scan EXCEPT !.at = IF setup.v2 THEN "delete" ELSE "store",
                                !.drop = whole \cup files]
    /\ stores' = IF setup.v2 \/ scan.found = {} THEN stores
                 ELSE stores \cup {Store("scan", CHOOSE f \in scan.found : TRUE)}
    /\ UNCHANGED <<outside, docs, input, display, migrating, commands>>

ScanDeletes(k) ==
    /\ scan.at = "delete" /\ k \in scan.drop
    /\ scan' = [scan EXCEPT !.drop = @ \ {k}]
    /\ DeleteOrFail(Mine, k)
    /\ UNCHANGED <<vault, input, stores, display, migrating, commands>>

\* A variant: only the files that have no document.
ScanStoresFiles_New ==
    /\ scan.at = "delete" /\ scan.drop = {} /\ setup.v2
    /\ scan' = [scan EXCEPT !.at = "store"]
    /\ stores' = stores \cup {Store("scan", f) : f \in {g \in scan.found : v2[Mine][g] = 0}}
    /\ UNCHANGED <<outside, docs, input, display, migrating, commands>>

\* With usePluginSyncV2 every file that was found is stored
ScanStoresFiles ==
    /\ scan.at = "delete" /\ scan.drop = {} /\ setup.v2
    /\ scan' = [scan EXCEPT !.at = "store"]
    /\ stores' = stores \cup {Store("scan", f) : f \in scan.found}
    /\ UNCHANGED <<outside, docs, input, display, migrating, commands>>

ScanStored ==
    /\ scan.at = "store" /\ ScanStores = {} /\ ~setup.v2
    /\ scan' = [scan EXCEPT !.at = "delete"]
    /\ UNCHANGED <<outside, docs, input, stores, display, migrating, commands>>

EndScan ==
    /\ \/ scan.at = "store" /\ ScanStores = {} /\ setup.v2
       \/ scan.at = "delete" /\ scan.drop = {} /\ ~setup.v2
    /\ scan' = NoScan
    /\ UpdatePluginList
    /\ UNCHANGED <<outside, docs, input, stores, migrating, commands>>

(* ---------------- migrating documents of whole plug-ins ---------------- *)

\* migrateV1ToV2, by pluginScanProcessor: the document is loaded
Migrate(t) ==
    /\ t \in queue /\ setup.v2 /\ migrating[t] = NoMigration
    /\ queue' = queue \ {t}
    /\ migrating' = [migrating EXCEPT ![t] =
           [copy |-> v1[t], todo |-> Present(v1[t]), drop |-> FALSE]]
    /\ UNCHANGED <<outside, docs, input, stores, scan, list, shown, gen, loading, commands>>

\* A variant: the migration is never over.
Onward_Endless(t, todo, drop) ==
    migrating' = [migrating EXCEPT ![t] = [@ EXCEPT !.todo = todo, !.drop = drop]]
Onward(t, todo, drop) ==
    migrating' = [migrating EXCEPT ![t] = IF todo = {} /\ ~drop THEN NoMigration
                                          ELSE [@ EXCEPT !.todo = todo, !.drop = drop]]

\* One file more: its document is put, or that fails and the next file follows, or it
\* throws, which ends the migration
MigrateFile(t, f) ==
    /\ f \in migrating[t].todo /\ ~migrating[t].drop
    /\ LET todo == migrating[t].todo \ {f}
       IN  \/ /\ v2' = [v2 EXCEPT ![t][f] = migrating[t].copy[f]] /\ UNCHANGED <<v1, left>>
              /\ Onward(t, todo, TRUE)
           \/ Spend("fails") /\ UNCHANGED docs /\ Onward(t, todo, FALSE)
           \/ Spend("fails") /\ UNCHANGED docs /\ Onward(t, {}, FALSE)
    /\ UNCHANGED <<vault, input, stores, scan, display, commands>>

\* The document of the plug-in is deleted after the FIRST file, and after each
MigrateDrops(t) ==
    /\ migrating[t].drop
    /\ DeleteOrFail(t, Whole)
    /\ Onward(t, migrating[t].todo, FALSE)
    /\ UNCHANGED <<vault, input, stores, scan, display, commands>>

(* --------------------------- the dialogue ------------------------------ *)

\* applyData of another device: with usePluginSyncV2 the files its entry shows,
\* otherwise those of its document
Apply ==
    /\ applying = NoApply /\ list[Theirs] # NoEntry /\ Spend("commands")
    /\ LET copy == IF setup.v2 THEN Shown(Theirs) ELSE v1[Theirs]
       IN  applying' = [copy |-> copy, todo |-> Present(copy)]
    /\ UNCHANGED <<vault, docs, input, stores, scan, display, migrating, deleting>>

Raise(f) == events' = IF setup.watch THEN events \cup {f} ELSE events
Touched(f) == Raise(f) /\ recent' = recent \ {<<f, TRUE>>}
Applied == {r \in stores : r.by = "apply"}

\* A file as it is written: with usePluginSyncV2 it gets the mtime of the copy, otherwise
\* the current one, which the files of one application may share
Written(n, tick) == IF setup.v2 THEN n ELSE Content(n) + 100 * (2 * left.commands + tick + 1)

\* One file more is written, and with usePluginSyncV2 stored, unless it is the same
ApplyFile(f) ==
    /\ f \in applying.todo /\ Applied = {}
    /\ applying' = [applying EXCEPT !.todo = @ \ {f}]
    /\ \E tick \in {0, 1} : vault' = [vault EXCEPT ![f] = Written(applying.copy[f], tick)]
    /\ IF setup.v2 /\ vault' = vault THEN UNCHANGED <<stores, input>>
       ELSE /\ stores' = IF setup.v2 THEN stores \cup {Store("apply", f)} ELSE stores
            /\ Touched(f) /\ UNCHANGED task
    /\ UNCHANGED <<left, docs, scan, display, migrating, deleting>>

\* The write fails: with usePluginSyncV2 the rest is left, otherwise only this file
FailApply(f) ==
    /\ f \in applying.todo /\ Applied = {} /\ Spend("fails")
    /\ applying' = IF setup.v2 THEN NoApply ELSE [applying EXCEPT !.todo = @ \ {f}]
    /\ UNCHANGED <<vault, docs, input, stores, scan, display, migrating, deleting>>

\* Without usePluginSyncV2 the plug-in is stored at the end
EndApply ==
    /\ applying # NoApply /\ applying.todo = {} /\ Applied = {}
    /\ applying' = NoApply
    /\ stores' = IF setup.v2 THEN stores
                 ELSE stores \cup {Store("apply", CHOOSE f \in Present(applying.copy) : TRUE)}
    /\ UNCHANGED <<outside, docs, input, scan, display, migrating, deleting>>

\* deleteData of one device: the document of the plug-in and, with usePluginSyncV2,
\* those of the files its entry shows
Delete(t) ==
    /\ deleting = NoDelete /\ list[t] # NoEntry /\ Spend("commands")
    /\ deleting' = [term |-> t,
                    todo |-> {Whole} \cup IF setup.v2 THEN Present(Shown(t)) ELSE {}]
    /\ UNCHANGED <<vault, docs, input, stores, scan, display, migrating, applying>>

DeleteDocument(k) ==
    /\ k \in deleting.todo
    /\ deleting' = [deleting EXCEPT !.todo = @ \ {k}]
    /\ DeleteOrFail(deleting.term, k)
    /\ UNCHANGED <<vault, input, stores, scan, display, migrating, applying>>

\* The dialogue reloads the list after it
EndDelete ==
    /\ deleting # NoDelete /\ deleting.todo = {}
    /\ deleting' = NoDelete
    /\ ReloadPluginList
    /\ UNCHANGED <<outside, docs, input, stores, scan, migrating, applying>>

(* ----------------------- the world around it --------------------------- *)

\* The user or the plug-in itself writes or removes a file
Edit(f) ==
    /\ Spend("edits")
    /\ vault' = [vault EXCEPT ![f] = 11 + setup.edits - left.edits]
    /\ Touched(f) \/ (setup.same /\ Raise(f) /\ UNCHANGED recent)
    /\ UNCHANGED <<docs, task, stores, scan, display, migrating, commands>>
Remove(f) ==
    /\ Spend("deletions") /\ vault[f] # 0
    /\ vault' = [vault EXCEPT ![f] = 0] /\ Touched(f)
    /\ UNCHANGED <<docs, task, stores, scan, display, migrating, commands>>

\* A document of the other device arrives, or the deletion of any by another device,
\* and _anyModuleParsedReplicationResultItem lists it
Arrive(t, k) ==
    LET n == 21 + setup.arrivals - left.arrivals
    IN  /\ Spend("arrivals")
        /\ \E live \in BOOLEAN :
              /\ live => t = Theirs /\ (k = Whole \/ setup.v2)
              /\ IF ~live THEN DeleteConfig(t, k)
                 ELSE IF k # Whole THEN v2' = [v2 EXCEPT ![t][k] = n] /\ UNCHANGED v1
                 ELSE v1' = [v1 EXCEPT ![t] = [f \in File |-> n]] /\ UNCHANGED v2
        /\ docs' # docs /\ Updated(t, k)
        /\ UNCHANGED <<vault, input, stores, scan, migrating, commands>>

Kill ==
    /\ Spend("kills")
    /\ events' = {} /\ recent' = {} /\ task' = None /\ stores' = {}
    /\ scan' = [NoScan EXCEPT !.at = "due"]
    /\ list' = [t \in Term |-> NoEntry] /\ shown' = [t \in Term |-> <<>>] /\ gen' = 0
    /\ loading' = {} /\ queue' = {}
    /\ migrating' = [t \in Term |-> NoMigration] /\ applying' = NoApply /\ deleting' = NoDelete
    /\ UNCHANGED <<vault, docs>>

Key == File \cup {Whole}

Loading == \E r \in loading : Loaded(r)
Storing == \/ \E r \in stores : Put(r) \/ \E f \in File : Read(r, f)
           \/ TaskFires \/ \E f \in File : WatchVaultRawEvents(f)
Scanning == \/ ListDocuments \/ ScanStoresFiles \/ ScanStored \/ EndScan
            \/ \E k \in Key : ScanDeletes(k)
Migrating == \E t \in Term : Migrate(t) \/ MigrateDrops(t) \/ \E f \in File : MigrateFile(t, f)
Dialogue == \/ EndApply \/ \E f \in File : ApplyFile(f)
            \/ EndDelete \/ \E k \in Key : DeleteDocument(k)
World == \/ Kill \/ Apply
         \/ \E f \in File : Edit(f) \/ Remove(f) \/ FailApply(f) \/ RejectEvent(f)
         \/ \E t \in Term : Delete(t) \/ \E k \in Key : Arrive(t, k)
         \/ \E r \in stores : FailStore(r)

Program == \/ BeginScan \/ Loading \/ Storing \/ Scanning \/ Migrating \/ Dialogue
           \/ \E t \in Term : ListWhole(t)
Next == (Program \/ World) /\ UNCHANGED setup
Spec == Init /\ [][Next]_vars

\* Every program that runs goes on, and scans come again; the user, the network, the
\* failures and the kills owe nothing.
FairSpec ==
    /\ Spec
    /\ WF_vars(BeginScan /\ UNCHANGED setup) /\ WF_vars(Loading /\ UNCHANGED setup)
    /\ \A t \in Term : WF_vars(ListWhole(t) /\ UNCHANGED setup)
    /\ WF_vars(Storing /\ UNCHANGED setup) /\ WF_vars(Scanning /\ UNCHANGED setup)
    /\ WF_vars(Migrating /\ UNCHANGED setup) /\ WF_vars(Dialogue /\ UNCHANGED setup)

(* ------------------------------ properties ----------------------------- *)

Contents == [File -> Nat]
\* Every part of the state keeps its type.
TypeOK ==
    /\ setup \in Setups /\ left \in [Bounds -> Nat] /\ vault \in Contents
    /\ v1 \in [Term -> Contents] /\ v2 \in [Term -> Contents]
    /\ events \subseteq File /\ recent \subseteq File \X BOOLEAN /\ task \in File \cup {None}
    /\ \A r \in stores : r.by \in {"event", "scan", "apply"}
                         /\ r.file \in File /\ DOMAIN r.got \subseteq Targets(r)
    /\ scan.at \in {"idle", "due", "list", "delete", "store"}
    /\ scan.found \subseteq File /\ scan.drop \subseteq Key
    /\ \A t \in Term : list[t] # NoEntry => list[t] \in DOMAIN shown[t]
    /\ \A r \in loading : r.entry \in DOMAIN shown[r.term]
    /\ \A t \in Term : \A e \in DOMAIN shown[t] : shown[t][e] \in Contents
    /\ queue \subseteq Term
    /\ \A t \in Term : migrating[t] = NoMigration \/ migrating[t].todo # {} \/ migrating[t].drop
    /\ applying.todo \subseteq Present(applying.copy) /\ deleting.todo \subseteq Key

Settled == events = {} /\ task = None /\ stores = {} /\ scan.at = "idle" /\ applying = NoApply

\* The document of the plug-in holds what its files do, or passes for it: a store tells
\* them apart by their average mtimes
Stored == Same(v1[Mine], vault) \/ Mtime(v1[Mine]) = Mtime(vault)

\* Events are handled, of edits of different seconds and of at most one removal, which
\* leaves a file; nothing fails, and nobody else changes the document.
EventsAreSeen ==
    /\ setup.watch /\ ~setup.v2 /\ ~setup.same /\ setup.vault
    /\ \/ setup.deletions = 0
       \/ setup.deletions = 1 /\ \E f, g \in File : f # g
    /\ setup.fails = 0 /\ setup.arrivals = 0 /\ setup.commands = 0 /\ setup.suspensions = 0

\* Without per-file documents the events alone keep the document of the plug-in in step with
\* its files: however edits fall between the reads of a store, between stores that wait
\* for each other and the first scan, nothing half-collected stays ("To prevent saving
\* half-collected file sets"), unless its average mtime hides it.
EventsSuffice == EventsAreSeen => (Settled => Stored)

\* Fails: a document of the same average mtime is not replaced (README, deviations).
EventsSufficeExactly == EventsAreSeen => (Settled => Same(v1[Mine], vault))

\* With autoSweepPlugins the documents catch up with the files whatever was missed: events
\* dropped or replaced, failing puts, kills, stale content written by a migration, and
\* documents deleted by the user or by another device.  Without per-file documents they
\* become equal, or pass for it by their average mtime; with them every file there is has
\* its content stored.
CatchesUp ==
    setup.sweep => <>[](IF setup.v2 THEN \A f \in Present(vault) : v2[Mine][f] = vault[f]
                        ELSE Stored)

\* With autoSweepPlugins the list of the dialogue comes to show every document there is,
\* though loads that begin before the first entry exists replace each other's.  A document
\* of a whole plug-in may be shown as an earlier one of the same average mtime.
ListCatchesUp ==
    setup.sweep => <>[](\A t \in Term :
        /\ setup.v2 => \A f \in Present(v2[t]) : Shown(t)[f] = v2[t][f]
        /\ ~setup.v2 /\ Live(v1[t]) => Mtime(Shown(t)) = Mtime(v1[t]))
=============================================================================
