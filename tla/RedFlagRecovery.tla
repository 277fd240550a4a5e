--------------------------- MODULE RedFlagRecovery ---------------------------
(***************************************************************************)
(* Start-up with flag files at the root of the vault.                      *)
(*                                                                         *)
(* Three handlers run in the order of their priorities before anything     *)
(* else: the emergency stop, the fetch of everything from the remote and   *)
(* the overwrite of the remote.  The two operations first reset the local  *)
(* database; one that fails, or is killed, leaves it partly filled.  What  *)
(* then keeps the vault and that database apart is the flag file, which    *)
(* stops the next start-up in the handler, and the two switches that       *)
(* suspend the reflection of files and of replicated documents, which are  *)
(* part of the saved settings.                                             *)
(***************************************************************************)
EXTENDS Naturals

CONSTANTS
    Fetch,      \* the flag files of the fetch, under their two names
    Rebuild,    \* the flag files of the overwrite of the remote
    Scram,      \* the flag file of the emergency stop
    MaxUser,    \* bound: times the user places or removes a flag, aborts or reruns
    MaxFails,   \* bound: steps that fail
    MaxKills    \* bound: times the application is killed

ASSUME FlagAssumption ==
    /\ Fetch \cap Rebuild = {} /\ Scram \notin Fetch \cup Rebuild
    /\ MaxUser \in Nat /\ MaxFails \in Nat /\ MaxKills \in Nat

VARIABLES
    flags,     \* the flag files at the root of the vault
    held,      \* suspendFileWatching and suspendParseReplicationResult, as saved
    chosen,    \* the remembered mode: "no", of the pending fetch ("now"), of an earlier ("before")
    begun,     \* the operation that reset the local database and did not complete
    excused,   \* history: the user resumed, released or removed a flag since then
    pc,        \* where the start-up is
    job,       \* the operation that runs
    ok,        \* what the operation returns to processVaultInitialisation
    lax,       \* doNotSuspendOnFetching
    user, fails, kills

vars == <<flags, held, chosen, begun, excused, pc, job, ok, lax, user, fails, kills>>
bounds == <<user, fails, kills>>

Files(j) == IF j = "rebuild" THEN Rebuild ELSE Fetch
Pending(j) == Files(j) \cap flags # {}
Operation(j) == IF j = "rebuild" THEN "rebuild" ELSE "fetch"
Both(b) == [watch |-> b, parse |-> b]

FlagFiles == Fetch \cup Rebuild \cup {Scram}
Places == {"off", "suspend", "fetch", "mode", "dialog", "adjust", "begin", "load", "loading", "scan",
           "problems", "finish", "clean", "forget", "final", "unlock", "rebuild", "drop", "main",
           "ready", "stopped"}

Goto(p) == pc' = p
MayFail == fails < MaxFails /\ fails' = fails + 1 /\ UNCHANGED <<user, kills>>
ByUser == user < MaxUser /\ user' = user + 1 /\ UNCHANGED <<fails, kills>>

(* ------------------------------ handlers ------------------------------- *)

\* performRestart, or the user starts Obsidian after start-up stopped
Start ==
    /\ pc \in {"off", "stopped"} /\ Goto("suspend") /\ job' = "none" /\ ok' = FALSE
    /\ UNCHANGED <<flags, held, chosen, begun, excused, lax, bounds>>

\* A variant: a cancellation suspends the reflection of files only.
Cancel_FilesOnly(j, mode) ==
    /\ held' = [held EXCEPT !.watch = TRUE] /\ chosen' = mode /\ job' = j /\ Goto("drop")
    /\ UNCHANGED <<flags, begun, excused, ok, lax, bounds>>

\* cancelScheduledInitialisation: both switches are saved, then the flag is dropped
Cancel(j, mode) ==
    /\ held' = Both(TRUE) /\ chosen' = mode /\ job' = j /\ Goto("drop")
    /\ UNCHANGED <<flags, begun, excused, ok, lax, bounds>>

\* A variant: only one of the two names is deleted.
Cleanup_OneName(next) ==
    /\ flags' = flags \ {CHOOSE f \in Files(job) : TRUE} /\ Goto(next)
    /\ UNCHANGED <<held, chosen, begun, excused, job, ok, lax, bounds>>

\* cleanupFlag: deleteFlagFile only logs a deletion that fails
Cleanup(next) ==
    /\ \E stay \in SUBSET (Files(job) \cap flags) :
         /\ flags' = (flags \ Files(job)) \cup stay
         /\ IF stay = {} THEN UNCHANGED bounds ELSE MayFail
    /\ Goto(next)
    /\ UNCHANGED <<held, chosen, begun, excused, job, ok, lax>>

Drop == pc = "drop" /\ Cleanup("off")

\* The emergency stop suspends the reflection of files and ends the start-up
HandleSuspend ==
    /\ pc = "suspend"
    /\ IF Scram \in flags THEN held' = [held EXCEPT !.watch = TRUE] /\ Goto("stopped")
                          ELSE Goto("fetch") /\ UNCHANGED held
    /\ UNCHANGED <<flags, chosen, begun, excused, job, ok, lax, bounds>>

\* With several remotes the user selects one or cancels
HandleFetch ==
    /\ pc = "fetch"
    /\ \/ /\ job' = "quick" /\ Goto(IF Pending("fetch") THEN "mode" ELSE "rebuild")
          /\ UNCHANGED <<flags, held, chosen, begun, excused, ok, lax, bounds>>
       \/ Pending("fetch") /\ Cancel("quick", chosen)

\* askSimpleFetchMode: a remembered mode is not asked for again
AskMode ==
    /\ pc = "mode"
    /\ \/ /\ \/ chosen # "no" /\ chosen' = chosen
             \/ chosen = "no" /\ chosen' = "now"
          /\ Goto("adjust")
          /\ UNCHANGED <<flags, held, begun, excused, job, ok, lax, bounds>>
       \/ /\ chosen = "no" /\ job' = "detailed" /\ Goto("dialog")
          /\ UNCHANGED <<flags, held, chosen, begun, excused, ok, lax, bounds>>
       \/ chosen = "no" /\ Cancel("quick", "no")
       \/ /\ chosen = "no" /\ ByUser /\ Goto("off")
          /\ UNCHANGED <<flags, held, chosen, begun, excused, job, ok, lax>>

HandleRebuild ==
    /\ pc = "rebuild"
    /\ IF Pending("rebuild") THEN job' = "rebuild" /\ Goto("dialog")
                             ELSE Goto("main") /\ UNCHANGED job
    /\ UNCHANGED <<flags, held, chosen, begun, excused, ok, lax, bounds>>

\* The dialogues of the detailed fetch and of the overwrite
AskDetails ==
    /\ pc = "dialog"
    /\ \/ /\ \E next \in {"adjust", "begin"} : Goto(next)
          /\ UNCHANGED <<flags, held, chosen, begun, excused, job, ok, lax, bounds>>
       \/ Cancel(job, chosen)

\* adjustSettingToRemote: the settings of the remote are applied, or not used, or the user cancels
Adjust ==
    /\ pc = "adjust"
    /\ \/ /\ Goto("begin")
          /\ UNCHANGED <<flags, held, chosen, begun, excused, job, ok, lax, bounds>>
       \/ Cancel(job, IF job = "quick" THEN "no" ELSE chosen)

(* --------------------- processVaultInitialisation ---------------------- *)

Begin ==
    /\ pc = "begin" /\ Goto("load")
    /\ held' = IF job = "quick" THEN Both(TRUE) ELSE [held EXCEPT !.watch = TRUE]
    /\ UNCHANGED <<flags, chosen, begun, excused, job, ok, lax, bounds>>

\* The operation resets the local database; a fetch first suspends the reflection
Reset ==
    /\ pc = "load" /\ Goto("loading")
    /\ begun' = Operation(job) /\ excused' = ~Pending(job)
    /\ held' = IF job # "rebuild" /\ ~lax THEN Both(TRUE) ELSE held
    /\ UNCHANGED <<flags, chosen, job, ok, lax, bounds>>

\* It has filled the database; the overwrite has uploaded it as well
Load ==
    /\ pc = "loading"
    /\ Goto(IF job = "quick" THEN "scan" ELSE IF job = "rebuild" THEN "clean" ELSE "finish")
    /\ begun' = IF job = "rebuild" THEN "none" ELSE begun
    /\ UNCHANGED <<flags, held, chosen, excused, job, ok, lax, bounds>>

\* Any of these may throw, and the operation has not completed
Throw ==
    /\ pc \in {"load", "loading", "scan", "finish"} /\ MayFail
    /\ ok' = FALSE /\ Goto("final")
    /\ UNCHANGED <<flags, held, chosen, begun, excused, job, lax>>

\* The quick fetch reflects the database in the vault
Scan ==
    /\ pc = "scan"
    /\ \/ Goto("finish") /\ UNCHANGED bounds
       \/ Goto("problems") /\ MayFail
    /\ UNCHANGED <<flags, held, chosen, begun, excused, job, ok, lax>>

AskProblems ==
    /\ pc = "problems"
    /\ \/ ByUser /\ ok' = FALSE /\ Goto("final") /\ UNCHANGED excused
       \/ UNCHANGED bounds /\ excused' = TRUE /\ Goto("finish") /\ UNCHANGED ok
    /\ UNCHANGED <<flags, held, chosen, begun, job, lax>>

\* finishRebuild resumes the reflection; the quick fetch ignores that it returned false
Finish ==
    /\ pc = "finish" /\ Goto("clean") /\ begun' = "none"
    /\ \/ held' = (IF lax THEN held ELSE Both(FALSE)) /\ UNCHANGED bounds
       \/ job = "quick" /\ MayFail /\ UNCHANGED held
    /\ UNCHANGED <<flags, chosen, excused, job, ok, lax>>

Clean == pc = "clean" /\ Cleanup("forget")

Forget ==
    /\ pc = "forget" /\ Goto("final") /\ ok' = TRUE
    /\ chosen' = IF job = "quick" THEN "no" ELSE chosen
    /\ UNCHANGED <<flags, held, begun, excused, job, lax, bounds>>

\* A variant: the last block also deletes the flag.
Final_Cleans ==
    /\ pc = "final" /\ Goto(IF ok THEN "unlock" ELSE "stopped")
    /\ held' = IF job = "quick" THEN Both(~ok) ELSE [held EXCEPT !.watch = FALSE]
    /\ flags' = flags \ Files(job)
    /\ UNCHANGED <<chosen, begun, excused, job, ok, lax, bounds>>

\* The last block: the quick fetch owns both switches, the others resume the files
Final ==
    /\ pc = "final" /\ Goto(IF ok THEN "unlock" ELSE "stopped")
    /\ held' = IF job = "quick" THEN Both(~ok) ELSE [held EXCEPT !.watch = FALSE]
    /\ UNCHANGED <<flags, chosen, begun, excused, job, ok, lax, bounds>>

\* verifyAndUnlockSuspension asks nothing when the files are not suspended
Unlock ==
    /\ pc = "unlock"
    /\ \/ Goto(IF job = "rebuild" THEN "main" ELSE "rebuild") /\ UNCHANGED <<held, excused>>
       \/ held.watch /\ held' = [held EXCEPT !.watch = FALSE] /\ excused' = TRUE /\ Goto("off")
    /\ UNCHANGED <<flags, chosen, begun, job, ok, lax, bounds>>

(* ------------------------ the rest of start-up ------------------------- *)

\* A switch that is on is asked about: it is kept, or both are released
Main ==
    /\ pc = "main"
    /\ \/ Goto("ready") /\ UNCHANGED <<held, excused, bounds>>
       \/ /\ held.watch \/ held.parse
          /\ held' = Both(FALSE) /\ excused' = TRUE /\ Goto("off") /\ UNCHANGED bounds
       \/ MayFail /\ Goto("stopped") /\ UNCHANGED <<held, excused>>
    /\ UNCHANGED <<flags, chosen, begun, job, ok, lax>>

\* scheduleFetch, scheduleRebuild, or a file put there by hand
Place(f) ==
    /\ ByUser /\ flags' = flags \cup {f}
    /\ \/ f \notin flags /\ UNCHANGED pc
       \/ pc \in {"ready", "stopped"} /\ f # Scram /\ Goto("off")
    /\ chosen' = IF f \in Fetch /\ ~Pending("fetch") /\ chosen = "now" THEN "before" ELSE chosen
    /\ UNCHANGED <<held, begun, excused, job, ok, lax>>

RemoveByHand(f) ==
    /\ ByUser /\ f \in flags /\ flags' = flags \ {f}
    /\ excused' = (excused \/ f # Scram)
    /\ UNCHANGED <<held, chosen, begun, pc, job, ok, lax>>

Kill ==
    /\ pc # "off" /\ kills < MaxKills /\ kills' = kills + 1 /\ Goto("off")
    /\ UNCHANGED <<flags, held, chosen, begun, excused, job, ok, lax, user, fails>>

Init ==
    /\ flags = {} /\ held = Both(FALSE) /\ chosen = "no" /\ begun = "none"
    /\ excused = FALSE /\ pc = "ready" /\ job = "none" /\ ok = FALSE
    /\ lax \in BOOLEAN /\ user = 0 /\ fails = 0 /\ kills = 0

StartUp == \/ Start \/ HandleSuspend \/ HandleFetch \/ AskMode \/ HandleRebuild \/ AskDetails
           \/ Adjust \/ Drop \/ Begin \/ Reset \/ Load \/ Throw \/ Scan \/ AskProblems
           \/ Finish \/ Clean \/ Forget \/ Final \/ Unlock \/ Main

Next == \/ StartUp \/ Kill
        \/ \E f \in FlagFiles : Place(f) \/ RemoveByHand(f)

Spec == Init /\ [][Next]_vars

(* A start-up is a chain of promises, and the user answers its dialogues   *)
(* and starts the application again when it stopped.                       *)
FairSpec == Spec /\ WF_vars(StartUp)

(***************************************************************************)
(* Properties                                                              *)
(***************************************************************************)

\* The types, and what each step of the start-up can hold.
TypeOK ==
    /\ flags \subseteq FlagFiles
    /\ held \in [watch : BOOLEAN, parse : BOOLEAN]
    /\ chosen \in {"no", "now", "before"} /\ begun \in {"none", "fetch", "rebuild"}
    /\ excused \in BOOLEAN /\ ok \in BOOLEAN /\ lax \in BOOLEAN
    /\ pc \in Places /\ job \in {"none", "quick", "detailed", "rebuild"}
    /\ user \in Nat /\ fails \in Nat /\ kills \in Nat

\* Start-up never ends in normal operation on a local database that a fetch or
\* an overwrite left partly filled, after any failures, kills and restarts, unless
\* the user resumed, released or removed a flag: both directions stay suspended.
PartIsIsolated ==
    pc = "ready" /\ begun # "none" /\ ~excused => held = Both(TRUE)

\* The flag of an operation disappears only when the local database is complete,
\* when both directions were suspended first, or by the user's hand: a failure,
\* or a kill at any step, keeps it for the next start-up.
FlagOutlivesFailure ==
    [][\A j \in {"fetch", "rebuild"} : Pending(j) /\ ~Pending(j)' =>
         begun = "none" \/ held = Both(TRUE) \/ excused']_vars

\* Start-up comes to its end, whatever was scheduled, failed or was killed,
\* unless the emergency stop remains.
Ends == <>[](pc = "ready" \/ Scram \in flags)

\* What PartIsIsolated rests on: from its reset on, an operation that did not
\* complete is guarded by a flag or by both switches, whatever happens next.
Excusable == begun = "none" \/ excused
Guarded == Excusable \/ Pending("fetch") \/ Pending("rebuild") \/ held = Both(TRUE)
Passed == /\ pc = "rebuild" => Excusable \/ Pending("rebuild") \/ held = Both(TRUE)
          /\ pc \in {"main", "ready"} => Excusable \/ held = Both(TRUE)
Scheduled == pc \in {"mode", "dialog", "adjust", "begin", "load", "loading", "scan", "problems", "finish"}
                \/ (pc = "final" /\ ~ok) => excused \/ Pending(job)
Completed == pc \in {"clean", "forget", "unlock"} \/ (pc = "final" /\ ok) => begun = "none"
Dropped == pc = "drop" => held = Both(TRUE)
QuickMode == pc = "mode" => job = "quick"

IsolationInv == TypeOK /\ Guarded /\ Passed /\ Scheduled /\ Completed /\ Dropped /\ QuickMode

\* A fetch without questions uses a mode that was chosen for that fetch.
FreshChoice == pc = "load" /\ job = "quick" => chosen = "now"

=============================================================================
