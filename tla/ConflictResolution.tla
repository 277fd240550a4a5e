------------------------- MODULE ConflictResolution -------------------------
(***************************************************************************)
(* The resolution of the conflicts of ONE file, on several devices.        *)
(*                                                                         *)
(* The local database keeps a revision tree: a device knows a set of       *)
(* revisions, those that were extended or logically deleted are dead, and  *)
(* the others are its current leaves.  With more than one leaf the file is *)
(* conflicted.  Three programs of one device delete leaves of the tree:    *)
(*                                                                         *)
(*   "queue"    the conflict queue: _resolveConflict merges a pair, drops  *)
(*              the older one, or asks in a dialogue; one run per file     *)
(*   "newest"   the Hatch command: _anyResolveConflictByNewest             *)
(*   "discard"  the repair card: discardLiveBranch                         *)
(*                                                                         *)
(* Only the first holds the lock conflict-resolve:<path>.  Each awaits the *)
(* database between what it reads and what it deletes, so the three, the   *)
(* user and replication interleave.                                        *)
(***************************************************************************)
EXTENDS Integers, Sequences, FiniteSets

CONSTANTS
    Devices,   \* the devices there may be
    Setups,    \* the circumstances to look at, one of which a behaviour has
    Resolution \* compareMTime compares times rounded down to this many ticks

RevisionRecord == [gen : Nat, mtime : Nat, from : SUBSET Nat]

\* start: the revisions written before the model starts; has: which of them each
\* device holds; unreadable: revisions whose body misses chunks on every device;
\* policy: "newer" (resolveConflictsByNewerFile, or a binary) or "manual"; merging:
\* a text file for which automatic merge is enabled; commands: the unlocked commands
\* the user may run; activeOnly: conflicts of a file that is not active wait until it
\* is opened; timing: "anytime", or "quiet" (no edit and no arrival within a job);
\* faults: the operations that may fail; restarts: the application may be killed;
\* behind: devices whose clock is far behind; edits, revs (bounds): no edit once so
\* many revisions exist, and no revision at all.
IsSetup(s) ==
    /\ s.start \in Seq(RevisionRecord)
    /\ DOMAIN s.has \subseteq Devices
    /\ s.has \in [DOMAIN s.has -> (SUBSET (1 .. Len(s.start))) \ {{}}]
    /\ s.unreadable \subseteq 1 .. Len(s.start)
    /\ s.policy \in {"newer", "manual"}
    /\ {s.merging, s.activeOnly, s.restarts} \subseteq BOOLEAN
    /\ s.commands \subseteq {"newest", "discard"}
    /\ s.timing \in {"anytime", "quiet"}
    /\ s.faults \subseteq {"store", "delete", "write"}
    /\ s.behind \subseteq Devices
    /\ s.edits \in Nat /\ s.revs \in Nat

ASSUME ConflictAssumption == Resolution \in Nat \ {0} /\ \A s \in Setups : IsSetup(s)

VARIABLES
    setup,        \* the circumstances of the behaviour; they do not change
    info,         \* every revision ever written: generation, time, versions it holds
    known,        \* the revisions each device has in its tree
    dead,         \* those of them that were extended or deleted
    vault,        \* the revision the file of the vault shows, 0 when it is absent
    unreflected,  \* the tree changed by replication and the file was not looked at
    queued,       \* the file is in the conflict queue
    postponed,    \* postponedConflictEpisodes has the file
    job,          \* what each program of each device is doing
    \* What has happened so far, for the properties only:
    givenUp,      \* versions that a user or a policy decided to drop
    overwritten,  \* versions under a merged text that was made without them
    backdated,    \* a revision was dated in an earlier window than one it replaces
    unwritten     \* a program of the device ended without the write that was due

file == <<vault, unwritten>>
lost == <<givenUp, overwritten, backdated>>
vars == <<setup, info, known, dead, unreflected, queued, postponed, job, file, lost>>

Device == DOMAIN setup.has
Unreadable == setup.unreadable
Manual == setup.policy = "manual"
Quietly == setup.timing = "quiet"

Worker == {"queue", "newest", "discard"}
Idle == [pc |-> "idle", left |-> 0, right |-> 0, doomed |-> <<>>, how |-> "none"]

----------------------------------------------------------------------------
(* The revision tree.                                                      *)

Leaves(d) == known[d] \ dead[d]

Above(r, s) == \/ info[r].gen > info[s].gen
               \/ info[r].gen = info[s].gen /\ r > s

\* PouchDB's deterministic winner: the longest branch, then the greater identifier.
Winner(d) == CHOOSE r \in Leaves(d) : \A s \in Leaves(d) \ {r} : Above(r, s)

Before(r, s) ==
    \/ info[r].gen < info[s].gen
    \/ info[r].gen = info[s].gen /\ info[r].mtime < info[s].mtime
    \/ info[r].gen = info[s].gen /\ info[r].mtime = info[s].mtime /\ r < s

\* The leaf the winner is compared with next.
Rival(d) == LET rest == Leaves(d) \ {Winner(d)}
            IN CHOOSE r \in rest : \A s \in rest \ {r} : Before(r, s)

Conflicted(d) == Cardinality(Leaves(d)) > 1

\* compareMTime: EVEN within the comparison window.
Class(r) == info[r].mtime \div Resolution
\* Variant: times are even when they are less than the window apart.
Loser_Window(left, right) ==
    IF info[right].mtime - info[left].mtime >= Resolution THEN left ELSE right
Loser(left, right) == IF Class(left) < Class(right) THEN left ELSE right

Latest == LET times == {info[r].mtime : r \in DOMAIN info}
          IN CHOOSE t \in times : \A u \in times : u <= t

\* A revision written now on device d, as a child of `parent` (none when 0), in the
\* place of some leaves.
Put(d, parent, from, replaced) ==
    LET new == Len(info) + 1
        gen == IF parent = 0 THEN 1 ELSE info[parent].gen + 1
        time == IF d \in setup.behind THEN 0 ELSE Latest + 1
    IN /\ info' = Append(info, [gen |-> gen, mtime |-> time, from |-> from])
       /\ known' = [known EXCEPT ![d] = @ \cup {new}]
       /\ dead' = [dead EXCEPT ![d] = @ \cup ({parent} \ {0})]
       /\ backdated' = (backdated \/ \E r \in replaced : time \div Resolution < Class(r))

----------------------------------------------------------------------------
Init ==
    /\ setup \in Setups
    /\ info = setup.start
    /\ known = setup.has
    /\ dead = [d \in Device |-> {}]
    /\ vault = [d \in Device |-> Winner(d)]
    /\ unreflected = [d \in Device |-> TRUE]
    /\ queued = [d \in Device |-> FALSE]
    /\ postponed = [d \in Device |-> FALSE]
    /\ job = [d \in Device |-> [w \in Worker |-> Idle]]
    /\ givenUp = {} /\ overwritten = {} /\ backdated = FALSE
    /\ unwritten = [d \in Device |-> FALSE]

\* EVENT_CONFLICT_CANCELLED closes an open dialogue of the file ...
Cancel(j) == IF j.pc = "asking" THEN Idle ELSE j
\* ... and refreshConflictState forgets the postponement of a resolved file.
Refreshed(d, leaves) == postponed' = [postponed EXCEPT ![d] = @ /\ Cardinality(leaves) > 1]

----------------------------------------------------------------------------
(* _resolveConflict: one run at a time for a file.                         *)

Take(d) == /\ job[d]["queue"].pc = "idle"
           /\ queued[d]
           /\ queued' = [queued EXCEPT ![d] = FALSE]

QueueBecomes(d, j) == job' = [job EXCEPT ![d]["queue"] = j]

\* NOT_CONFLICTED.
NotConflicted(d) ==
    /\ Take(d)
    /\ ~Conflicted(d)
    /\ postponed' = [postponed EXCEPT ![d] = FALSE]
    /\ UNCHANGED <<info, known, dead, file, unreflected, job, lost>>

\* A leaf of the pair cannot be read: MISSING_OR_ERROR, nothing is deleted.
LeaveUnreadable(d) ==
    /\ Take(d)
    /\ Conflicted(d)
    /\ {Winner(d), Rival(d)} \cap Unreadable # {}
    /\ UNCHANGED <<info, known, dead, file, unreflected, postponed, job, lost>>

\* Variant: only the rival is looked at.
Readable_RightOnly(d) == Conflicted(d) /\ Rival(d) \notin Unreadable
Readable(d) == Conflicted(d) /\ {Winner(d), Rival(d)} \cap Unreadable = {}
Same(d) == info[Winner(d)].from = info[Rival(d)].from

\* tryAutoMerge has a merged text: it will be stored, then the rival deleted.
MergeSensibly(d) ==
    /\ Take(d)
    /\ setup.merging /\ Readable(d) /\ ~Same(d)
    /\ QueueBecomes(d, [pc |-> "store", left |-> Winner(d), right |-> Rival(d),
                        doomed |-> <<>>, how |-> "sensible"])
    /\ UNCHANGED <<info, known, dead, file, unreflected, postponed, lost>>

\* The leaves have the same content, or the newer file wins: the loser will be deleted.
DropOlder(d) ==
    /\ Take(d)
    /\ Readable(d)
    /\ Same(d) \/ ~Manual
    /\ QueueBecomes(d, [pc |-> "delete", left |-> Winner(d), right |-> Rival(d),
                        doomed |-> <<Loser(Winner(d), Rival(d))>>,
                        how |-> IF Same(d) THEN "same" ELSE "newer"])
    /\ UNCHANGED <<info, known, dead, file, unreflected, postponed, lost>>

\* showMergeDialogOnlyOnActive, and another file is active.
LeaveUntilOpened(d) ==
    /\ Take(d)
    /\ setup.activeOnly /\ Readable(d) /\ ~Same(d) /\ Manual
    /\ UNCHANGED <<info, known, dead, file, unreflected, postponed, job, lost>>

\* Manual merge: a dialogue opens, unless the user said "Not now" before.
Ask(d) ==
    /\ Take(d)
    /\ Readable(d) /\ ~Same(d) /\ Manual
    /\ IF postponed[d]
       THEN UNCHANGED job
       ELSE QueueBecomes(d, [pc |-> "asking", left |-> Winner(d), right |-> Rival(d),
                             doomed |-> <<>>, how |-> "none"])
    /\ UNCHANGED <<info, known, dead, file, unreflected, postponed, lost>>

\* The user answers: which of the two shown revisions goes, or both are concatenated.
Answer(d, how) ==
    /\ job[d]["queue"].pc = "asking"
    /\ QueueBecomes(d, [job[d]["queue"] EXCEPT !.pc = "recheck", !.how = how])
    /\ UNCHANGED <<info, known, dead, file, unreflected, queued, postponed, lost>>

\* "Not now", or the dialogue is closed.
AnswerLater(d) ==
    /\ job[d]["queue"].pc = "asking"
    /\ QueueBecomes(d, Idle)
    /\ \E later \in BOOLEAN : postponed' = [postponed EXCEPT ![d] = @ \/ later]
    /\ UNCHANGED <<info, known, dead, file, unreflected, queued, lost>>

\* The tree is read again: is the compared pair still the current one?
\* Variant: the compared winner may have changed.
StillShown_RightOnly(d, j) == j.right \in Leaves(d)
StillShown(d, j) == j.left = Winner(d) /\ j.right \in Leaves(d)

Recheck(d) ==
    LET j == job[d]["queue"] IN
    /\ j.pc = "recheck"
    /\ Conflicted(d) /\ StillShown(d, j)
    /\ QueueBecomes(d,
         IF j.how = "concat" THEN [j EXCEPT !.pc = "store"]
         ELSE [j EXCEPT !.pc = "delete", !.how = "choice",
                        !.doomed = <<IF j.how = "left" THEN j.left ELSE j.right>>])
    /\ UNCHANGED <<info, known, dead, file, unreflected, queued, postponed, lost>>

\* It is not: the answer is dropped, and a file that is still conflicted checked again.
DropAnswer(d) ==
    LET j == job[d]["queue"] IN
    /\ j.pc = "recheck"
    /\ ~(Conflicted(d) /\ StillShown(d, j))
    /\ QueueBecomes(d, Idle)
    /\ LET unread == Leaves(d) = {} \/ Winner(d) \in Unreadable IN
       /\ queued' = [queued EXCEPT ![d] = @ \/ (Conflicted(d) /\ ~unread)]
       /\ postponed' = [postponed EXCEPT ![d] = @ /\ (Conflicted(d) \/ unread)]
    /\ UNCHANGED <<info, known, dead, file, unreflected, lost>>

\* storeContent(path, text): the text becomes a child of the CURRENT winner.
Store(d) ==
    LET j == job[d]["queue"]
        parent == IF Leaves(d) = {} THEN 0 ELSE Winner(d)
        text == info[j.left].from \cup info[j.right].from
    IN /\ j.pc = "store"
       /\ Len(info) < setup.revs
       /\ Put(d, parent, text, {parent, j.right} \cap Leaves(d))
       /\ overwritten' = overwritten \cup IF parent = 0 THEN {} ELSE info[parent].from \ text
       /\ QueueBecomes(d, [j EXCEPT !.pc = "delete", !.doomed = <<j.right>>])
       /\ UNCHANGED <<file, unreflected, queued, postponed, givenUp>>

StoreFails(d) ==
    /\ "store" \in setup.faults
    /\ job[d]["queue"].pc = "store"
    /\ QueueBecomes(d, Idle)
    /\ UNCHANGED <<info, known, dead, file, unreflected, queued, postponed, lost>>

----------------------------------------------------------------------------
(* _anyResolveConflictByNewest and discardLiveBranch: no lock.             *)

\* fetchEntryMeta: the current revision is read first ...
NewestReads(d) ==
    /\ "newest" \in setup.commands
    /\ job[d]["newest"].pc = "idle"
    /\ Leaves(d) # {}
    /\ job' = [job EXCEPT ![d]["newest"] = [Idle EXCEPT !.pc = "list", !.left = Winner(d)]]
    /\ UNCHANGED <<info, known, dead, file, unreflected, queued, postponed, lost>>

\* Newest first by exact time; the identifiers order revisions of the same time.
Ordered(s) ==
    \A i, k \in DOMAIN s : i < k =>
        \/ info[s[i]].mtime > info[s[k]].mtime
        \/ info[s[i]].mtime = info[s[k]].mtime /\ s[i] <= s[k]

\* ... then the conflicting ones: all but the first of the sorted list will be deleted.
NewestLists(d) ==
    LET j == job[d]["newest"]
        rivals == IF Leaves(d) = {} THEN {} ELSE Leaves(d) \ {Winner(d)}
    IN /\ j.pc = "list"
       /\ \E s \in [1 .. Cardinality(rivals) + 1 -> rivals \cup {j.left}] :
            /\ Ordered(s)
            /\ \A r \in rivals \cup {j.left} :
                 Cardinality({i \in DOMAIN s : s[i] = r})
                     = (IF r \in rivals THEN 1 ELSE 0) + (IF r = j.left THEN 1 ELSE 0)
            /\ job' = [job EXCEPT ![d]["newest"] =
                   IF rivals = {} THEN Idle
                   ELSE [j EXCEPT !.pc = "delete", !.doomed = Tail(s), !.how = "newest"]]
       /\ UNCHANGED <<info, known, dead, file, unreflected, queued, postponed, lost>>

\* The card inspects the file: it refuses the only current leaf if it can be read.
Inspect(d, r) ==
    /\ "discard" \in setup.commands
    /\ job[d]["discard"].pc = "idle"
    /\ r \in Leaves(d)
    /\ Conflicted(d) \/ r \in Unreadable
    /\ job' = [job EXCEPT ![d]["discard"] =
                 [Idle EXCEPT !.pc = "delete", !.doomed = <<r>>, !.how = "discard"]]
    /\ UNCHANGED <<info, known, dead, file, unreflected, queued, postponed, lost>>

----------------------------------------------------------------------------
(* _resolveConflictByDeletingRev, and deleteRevisionFromDB of the card.    *)

\* Variant: the end of the list is not noticed.
Next1_Endless(w, j) == [j EXCEPT !.pc = "delete", !.doomed = Tail(j.doomed)]
\* What a program does after one deletion: the bulk command goes on with the next.
Next1(w, j) == IF w = "newest" /\ Len(j.doomed) > 1
               THEN [j EXCEPT !.pc = "delete", !.doomed = Tail(j.doomed)]
               ELSE Idle

Delete(d, w) ==
    LET j == job[d][w]  r == Head(j.doomed) IN
    /\ j.pc = "delete"
    /\ r \in Leaves(d)
    /\ dead' = [dead EXCEPT ![d] = @ \cup {r}]
    /\ givenUp' = IF j.how \in {"same", "sensible", "concat"} THEN givenUp
                  ELSE givenUp \cup info[r].from
    /\ IF w = "discard"
       THEN /\ job' = [job EXCEPT ![d][w] = Idle]
            /\ unwritten' = [unwritten EXCEPT ![d] = TRUE]
            /\ UNCHANGED postponed
       ELSE /\ job' = [job EXCEPT ![d] = [u \in Worker |->
                         IF u = w THEN [j EXCEPT !.pc = "count"] ELSE Cancel(@[u])]]
            /\ Refreshed(d, Leaves(d) \ {r})
            /\ UNCHANGED unwritten
    /\ UNCHANGED <<info, known, vault, unreflected, queued, overwritten, backdated>>

\* The revision is no longer a leaf, or the database failed: MISSING_OR_ERROR.
DeleteFails(d, w) ==
    LET j == job[d][w] IN
    /\ j.pc = "delete"
    /\ "delete" \in setup.faults \/ Head(j.doomed) \notin Leaves(d)
    /\ job' = [job EXCEPT ![d][w] = Next1(w, j)]
    /\ unwritten' = [unwritten EXCEPT ![d] =
           @ \/ (j.how \in {"sensible", "concat"} /\ Head(j.doomed) \notin Leaves(d))]
    /\ UNCHANGED <<info, known, dead, vault, unreflected, queued, postponed, lost>>

\* Variant: after a deletion the file is not checked again.
Merged_NoRecheck(d, w) ==
    /\ job' = [job EXCEPT ![d][w] = Next1(w, job[d][w])]
    /\ UNCHANGED queued
\* AUTO_MERGED: the queue checks the file again.
Merged(d, w) ==
    /\ job' = [job EXCEPT ![d][w] = Next1(w, job[d][w])]
    /\ queued' = [queued EXCEPT ![d] = @ \/ w = "queue"]

\* Variant: the vault is left to the next scan.
CountLeft_NoWrite(d, w) ==
    /\ job[d][w].pc = "count"
    /\ Merged(d, w)
    /\ UNCHANGED <<info, known, dead, file, unreflected, postponed, lost>>
\* getConflictedRevs: while conflicts are left, nothing is written to the vault.
CountLeft(d, w) ==
    /\ job[d][w].pc = "count"
    /\ IF Conflicted(d)
       THEN Merged(d, w)
       ELSE /\ job' = [job EXCEPT ![d][w].pc = "write"]
            /\ UNCHANGED queued
    /\ UNCHANGED <<info, known, dead, file, unreflected, postponed, lost>>

\* dbToStorage: the current winner is written; without a leaf the file goes.
Write(d, w) ==
    /\ job[d][w].pc = "write"
    /\ Leaves(d) # {} => Winner(d) \notin Unreadable
    /\ vault' = [vault EXCEPT ![d] = IF Leaves(d) = {} THEN 0 ELSE Winner(d)]
    /\ unwritten' = [unwritten EXCEPT ![d] = FALSE]
    /\ Merged(d, w)
    /\ UNCHANGED <<info, known, dead, unreflected, postponed, lost>>

WriteFails(d, w) ==
    /\ job[d][w].pc = "write"
    /\ "write" \in setup.faults \/ (Leaves(d) # {} /\ Winner(d) \in Unreadable)
    /\ job' = [job EXCEPT ![d][w] = Next1(w, job[d][w])]
    /\ unwritten' = [unwritten EXCEPT ![d] = TRUE]
    /\ UNCHANGED <<info, known, dead, vault, unreflected, queued, postponed, lost>>

----------------------------------------------------------------------------
(* The user, replication and the operating system.                         *)

\* With the timing "quiet", the tree changes only between jobs or under a dialogue.
Quiet(d) == \A w \in Worker : job[d][w].pc \in {"idle", "asking"}

\* An edit extends the revision the vault shows.
Edit(d) ==
    /\ Quietly => Quiet(d)
    /\ Len(info) < setup.edits
    /\ vault[d] # 0
    /\ Put(d, vault[d], info[vault[d]].from \cup {Len(info) + 1}, {vault[d]})
    /\ vault' = [vault EXCEPT ![d] = Len(info) + 1]
    /\ UNCHANGED <<unreflected, queued, postponed, job, givenUp, overwritten, unwritten>>

\* One device's tree reaches another.
Replicate(d, e) ==
    /\ Quietly => Quiet(e)
    /\ ~(known[d] \subseteq known[e] /\ dead[d] \subseteq dead[e])
    /\ known' = [known EXCEPT ![e] = @ \cup known[d]]
    /\ dead' = [dead EXCEPT ![e] = @ \cup dead[d]]
    /\ unreflected' = [unreflected EXCEPT ![e] = TRUE]
    /\ UNCHANGED <<info, file, queued, postponed, job, lost>>

\* The incoming document is processed: an open dialogue closes; a resolved file
\* is written, a conflicted one queued (queueCheckForIfOpen).
Reflect(d) ==
    /\ unreflected[d]
    /\ unreflected' = [unreflected EXCEPT ![d] = FALSE]
    /\ QueueBecomes(d, Cancel(job[d]["queue"]))
    /\ IF Conflicted(d)
       THEN /\ \E active \in {TRUE, ~setup.activeOnly} :
                 queued' = [queued EXCEPT ![d] = @ \/ active]
            /\ UNCHANGED <<file, postponed>>
       ELSE /\ LET unread == Leaves(d) # {} /\ Winner(d) \in Unreadable IN
               /\ vault' = [vault EXCEPT ![d] = IF Leaves(d) = {} THEN 0
                                                ELSE IF unread THEN @ ELSE Winner(d)]
               /\ unwritten' = [unwritten EXCEPT ![d] = unread]
            /\ postponed' = [postponed EXCEPT ![d] = FALSE]
            /\ UNCHANGED queued
    /\ UNCHANGED <<info, known, dead, lost>>

\* watchWorkspaceOpenAsync: the file is opened.
OpenFile(d) ==
    /\ ~queued[d]
    /\ queued' = [queued EXCEPT ![d] = TRUE]
    /\ UNCHANGED <<info, known, dead, file, unreflected, postponed, job, lost>>

\* "Resolve if conflicted": requestConflictResolution.
RequestResolution(d) ==
    /\ postponed[d]
    /\ postponed' = [postponed EXCEPT ![d] = FALSE]
    /\ queued' = [queued EXCEPT ![d] = TRUE]
    /\ UNCHANGED <<info, known, dead, file, unreflected, job, lost>>

\* The status display of the active file: getActiveConflictMessages.
ShowStatus(d) ==
    /\ postponed[d] /\ ~Conflicted(d)
    /\ postponed' = [postponed EXCEPT ![d] = FALSE]
    /\ UNCHANGED <<info, known, dead, file, unreflected, queued, job, lost>>

\* The application is killed and started again: only databases and vault survive.
Restart(d) ==
    /\ setup.restarts
    /\ queued' = [queued EXCEPT ![d] = FALSE]
    /\ postponed' = [postponed EXCEPT ![d] = FALSE]
    /\ job' = [job EXCEPT ![d] = [w \in Worker |-> Idle]]
    /\ unwritten' = [unwritten EXCEPT ![d] =
           @ \/ \E w \in Worker : job[d][w].pc \in {"delete", "count", "write"}]
    /\ UNCHANGED <<info, known, dead, vault, unreflected, lost>>

QueueStep(d) ==
    \/ NotConflicted(d) \/ LeaveUnreadable(d) \/ MergeSensibly(d) \/ DropOlder(d)
    \/ LeaveUntilOpened(d) \/ Ask(d) \/ Recheck(d) \/ DropAnswer(d)
    \/ Store(d) \/ StoreFails(d)

DeletingStep(d, w) ==
    \/ Delete(d, w) \/ DeleteFails(d, w) \/ CountLeft(d, w) \/ Write(d, w) \/ WriteFails(d, w)

CommandStep(d) ==
    \/ NewestReads(d) \/ NewestLists(d) \/ \E r \in Leaves(d) : Inspect(d, r)

UserStep(d) ==
    \/ \E how \in {"left", "right", "concat"} : Answer(d, how)
    \/ AnswerLater(d) \/ Edit(d) \/ OpenFile(d) \/ RequestResolution(d) \/ ShowStatus(d)

Next ==
    /\ \E d \in Device :
        \/ QueueStep(d)
        \/ \E w \in Worker : DeletingStep(d, w)
        \/ CommandStep(d)
        \/ UserStep(d)
        \/ Reflect(d)
        \/ Restart(d)
        \/ \E e \in Device \ {d} : Replicate(d, e)
    /\ UNCHANGED setup

Spec == Init /\ [][Next]_vars

(***************************************************************************)
(* Fairness: an asynchronous function that was started goes on to its next *)
(* step, the queue takes what is in it, replication runs periodically and  *)
(* what it brings is processed.  Nothing is assumed of the user.           *)
(***************************************************************************)
On(d, A) == d \in Device /\ A /\ UNCHANGED setup

FairSpec ==
    /\ Spec
    /\ \A d \in Devices :
        /\ WF_vars(On(d, QueueStep(d)))
        /\ \A w \in Worker : WF_vars(On(d, DeletingStep(d, w)))
        /\ WF_vars(On(d, Reflect(d)))
        /\ \A e \in Devices \ {d} : WF_vars(On(d, e \in Device /\ Replicate(d, e)))

----------------------------------------------------------------------------
(* Properties.                                                             *)

\* The types of the variables; a leaf is never invented: dead and shown
\* revisions are known ones, and a program at work has a job to do.
TypeOK ==
    /\ setup \in Setups
    /\ info \in Seq(RevisionRecord)
    /\ known \in [Device -> SUBSET DOMAIN info]
    /\ \A d \in Device :
        /\ dead[d] \subseteq known[d]
        /\ vault[d] \in known[d] \cup {0}
        /\ \A w \in Worker :
            /\ job[d][w].pc \in {"idle", "asking", "recheck", "store", "list",
                                 "delete", "count", "write"}
            /\ job[d][w].pc \in {"delete", "count", "write"} =>
                 job[d][w].doomed \in Seq(known[d]) \ {<<>>}
    /\ {unreflected, queued, postponed} \subseteq [Device -> BOOLEAN]
    /\ givenUp \subseteq Nat /\ overwritten \subseteq Nat
    /\ backdated \in BOOLEAN /\ unwritten \in [Device -> BOOLEAN]

\* Only the queue works on the tree, which nobody else changes meanwhile.
Alone == Quietly /\ setup.commands = {}

\* No content vanishes: each version a device ever had is part of one of its
\* current leaves, unless a user or a policy decided to drop it.  Merging,
\* concatenating and collapsing duplicates lose nothing, as long as clocks go forward,
\* but for a version that becomes the winner while a text is merged without it; and
\* that does not happen where nobody else changes the tree.
NothingLost ==
    /\ ~backdated => \A d \in Device : \A v \in UNION {info[r].from : r \in known[d]} :
           v \in givenUp \cup overwritten \/ \E r \in Leaves(d) : v \in info[r].from
    /\ Alone => overwritten = {}

\* Resolving conflicts never deletes the file: every resolution keeps one side, so
\* a current leaf is always left, whoever else is resolving at the same time.
SomeVersionSurvives ==
    setup.commands = {} /\ ~Manual /\ ~backdated => \A d \in Device : Leaves(d) # {}

Settled(d) == /\ ~unreflected[d] /\ ~queued[d]
              /\ \A w \in Worker : job[d][w].pc = "idle"

\* Once nothing is going on, the file of a resolved conflict shows the resolution:
\* "if there are no conflicts, write the resolved content to the storage".  The write
\* that is due is missing only where it fails or is cut off, the body cannot be read,
\* the card discarded a leaf, or the rival of a stored text was gone; and never where
\* none of these can happen.
VaultShowsResult ==
    /\ \A d \in Device : Settled(d) /\ Cardinality(Leaves(d)) = 1 /\ ~unwritten[d] =>
           vault[d] \in Leaves(d)
    /\ Alone /\ ~setup.restarts /\ "write" \notin setup.faults /\ Unreadable = {} =>
           \A d \in Device : ~unwritten[d]

\* The Hatch command deletes a revision only while one at least as new is left.
NewestIsKept ==
    [][\A d \in Device :
         LET j == job[d]["newest"] IN
         j.pc = "delete" /\ job'[d]["newest"].pc = "count" =>
             \E s \in Leaves(d)' : info[s].mtime >= info[Head(j.doomed)].mtime]_vars

\* "Not now" holds for one uninterrupted conflict episode: when a later conflict
\* begins, it is not already postponed, so that the user is asked.
LaterConflictIsAsked ==
    [][\A d \in Device : ~Conflicted(d) /\ Conflicted(d)' => ~postponed'[d]]_vars

\* Missing chunks are no evidence that a branch is obsolete: whatever else happens
\* to the file, the queue never deletes a leaf it cannot read.
UnreadableIsKept ==
    [][\A d \in Device :
         LET j == job[d]["queue"] IN
         j.pc = "delete" /\ job'[d]["queue"].pc = "count" => Head(j.doomed) \notin Unreadable]_vars

\* With a newer-file policy the devices agree: in the end each has one and the
\* same leaf, and its file shows it.
Converges ==
    ~Manual => <>[](\A d, e \in Device :
           /\ Cardinality(Leaves(d)) = 1 /\ Leaves(d) = Leaves(e)
           /\ vault[d] \in Leaves(d))

=============================================================================
