---------------------------- MODULE TweakAgreement ----------------------------
(***************************************************************************)
(* How the devices of one vault agree on the values that must match.       *)
(*                                                                         *)
(* The remote keeps one preferred set of values.  Two flows of a device    *)
(* read it and write it without a lock between them: the resolution of a   *)
(* mismatch that the replicator reports, and the repair of the OsyC panel, *)
(* which also runs at start-up and before a pull.  Of the values we keep   *)
(* one whose change needs the local database to be rebuilt (encrypt), one  *)
(* that only makes chunks less shareable (chunk), and the time of the last *)
(* change (tweakModified).                                                 *)
(***************************************************************************)
EXTENDS Naturals

CONSTANTS
    Device,
    AutoAccept,   \* devices that align compatible values without asking
    Chunk,        \* values of the compatible setting
    First,        \* the values the remote may start with
    CacheReads,   \* bound: reads of the remote that 15 seconds can answer
    MaxChoices,   \* bound: changes and decisions of the users
    MaxOverlaps,  \* bound: flows that start while another one runs
    MaxFaults     \* bound: steps that fail and times a device is killed

ASSUME TweakAssumption ==
    /\ AutoAccept \subseteq Device
    /\ First \subseteq [encrypt : BOOLEAN, chunk : Chunk, tweakModified : {0}]
    /\ CacheReads \in Nat /\ MaxChoices \in Nat /\ MaxOverlaps \in Nat /\ MaxFaults \in Nat

VARIABLES
    official,  \* the remote is one that OsyC provisions
    remote,    \* the preferred values in the milestone of the remote
    mine,      \* device -> its settings, in memory and saved
    built,     \* device -> the encryption its local database was built with
    job,       \* device -> flow -> the step it is at and what it holds
    cache,     \* device -> the values read from the remote and the reads left
    excused,   \* history: devices where a step failed or was killed, or whose user took no rebuild
    clock, choices, overlaps, faults

vars == <<official, remote, mine, built, job, cache, excused,
          clock, choices, overlaps, faults>>
bounds == <<choices, overlaps, faults>>

Flow == {"sync", "repair", "align"}
Value == [encrypt : BOOLEAN, chunk : Chunk, tweakModified : Nat]
Unrecorded == [encrypt : BOOLEAN, chunk : Chunk, tweakModified : {0}]
Idle == [at |-> "idle"]
Unread == [left |-> 0]

\* planTweakAlignment and _collectMismatchedTweakKeys look at the values that must match
Incompatible(a, b) == a.encrypt # b.encrypt
Lossy(a, b) == a.chunk # b.chunk
Differ(a, b) == Incompatible(a, b) \/ Lossy(a, b)

Choosing == choices < MaxChoices /\ choices' = choices + 1 /\ UNCHANGED <<overlaps, faults>>
Failing == faults < MaxFaults /\ faults' = faults + 1 /\ UNCHANGED <<choices, overlaps>>

\* A flow starts: alone, or within the bound on overlaps
Starting(d, f) ==
    /\ job[d][f] = Idle
    /\ \/ (\A e \in Device, g \in Flow : job[e][g] = Idle) /\ UNCHANGED bounds
       \/ /\ \E e \in Device, g \in Flow : job[e][g] # Idle
          /\ overlaps < MaxOverlaps /\ overlaps' = overlaps + 1
          /\ UNCHANGED <<choices, faults>>

Goto(d, f, j) == job' = [job EXCEPT ![d][f] = j]

\* saveSettingData: a changed value gets the time of this change, whoever chose the value
Save(d, v) ==
    IF Differ(v, mine[d])
    THEN /\ mine' = [mine EXCEPT ![d] = [v EXCEPT !.tweakModified = clock + 1]]
         /\ clock' = clock + 1
    ELSE mine' = [mine EXCEPT ![d] = v] /\ UNCHANGED clock

\* Object.assign and saveSettingData, then the values are registered and perhaps rebuilt
Assign(d, f, v, rebuild) ==
    /\ Save(d, v)
    /\ Goto(d, f, [at |-> "register", then |-> IF rebuild THEN "fetch" ELSE "end"])

(* ------------------- resolution of a reported mismatch ------------------ *)

\* ensureRemoteIsCompatible reports the preferred values to the replicator, which keeps them
Handshake(d) ==
    /\ Starting(d, "sync") /\ Differ(mine[d], remote)
    /\ Goto(d, "sync", [at |-> "check", with |-> remote])
    /\ UNCHANGED <<official, remote, mine, built, cache, excused, clock>>

\* _selectNewerTweakSide: zero stands for no recorded time
RemoteIsNewer(m, p) ==
    \/ m.tweakModified = 0
    \/ p.tweakModified # 0 /\ p.tweakModified >= m.tweakModified

\* _shouldAutoAcceptCompatibleLossy
Automatic(d, p) == d \in AutoAccept /\ Lossy(mine[d], p) /\ ~Incompatible(mine[d], p)

\* checkAndAskResolvingMismatched, up to its dialogue
Check(d) ==
    LET p == job[d]["sync"].with IN
    /\ job[d]["sync"].at = "check"
    /\ \/ Automatic(d, p) /\ RemoteIsNewer(mine[d], p) /\ Assign(d, "sync", p, FALSE)
       \/ /\ Automatic(d, p) /\ ~RemoteIsNewer(mine[d], p)
          /\ Goto(d, "sync", [at |-> "register", then |-> "end"]) /\ UNCHANGED <<mine, clock>>
       \/ /\ ~Automatic(d, p)
          /\ Goto(d, "sync", [at |-> "ask", with |-> p, offer |-> Differ(mine[d], p)])
          /\ UNCHANGED <<mine, clock>>
    /\ UNCHANGED <<official, remote, built, cache, excused, bounds>>

\* The user accepts the values that the dialogue showed
UseRemote(d) ==
    /\ job[d]["sync"].at = "ask" /\ Choosing
    /\ \E rebuild \in {FALSE, job[d]["sync"].offer} :
         /\ Assign(d, "sync", job[d]["sync"].with, rebuild)
         /\ excused' = IF rebuild THEN excused ELSE excused \cup {d}
    /\ UNCHANGED <<official, remote, built, cache>>

\* The user keeps the values of this device
UseMine(d) ==
    /\ job[d]["sync"].at = "ask" /\ Choosing
    /\ \E rebuild \in {FALSE, job[d]["sync"].offer} :
         Goto(d, "sync", [at |-> "register", then |-> IF rebuild THEN "overwrite" ELSE "end"])
    /\ UNCHANGED <<official, remote, mine, built, cache, excused, clock>>

\* The user dismisses the dialogue, or it times out
Dismiss(d) ==
    /\ job[d]["sync"].at = "ask" /\ Goto(d, "sync", Idle)
    /\ UNCHANGED <<official, remote, mine, built, cache, excused, clock, bounds>>

(* ------------------- repair, and the confirmed alignment ----------------- *)

\* readRemotePreferredTweakValues: what the last 15 seconds hold, or what the remote has now
Read(d, force) ==
    IF ~force /\ cache[d].left > 0 THEN [cache[d] EXCEPT !.left = @ - 1]
    ELSE [value |-> remote, left |-> CacheReads]

Remembering(d, r) == cache' = [cache EXCEPT ![d] = IF r.left = 0 THEN Unread ELSE r]

\* autoAlignOfficialRemoteTweaks may change any value, of a remote that OsyC provisions in plain text
Managed(p) == official /\ ~p.encrypt

\* runReplicationRepair: the automatic alignment reads, compares and assigns
Repair(d) ==
    LET r == Read(d, FALSE)  p == r.value IN
    /\ Starting(d, "repair") /\ Remembering(d, r)
    /\ \/ /\ Managed(p) /\ ~Differ(mine[d], p)
          /\ Goto(d, "repair", Idle) /\ UNCHANGED <<mine, clock>>
       \/ /\ Managed(p) /\ Differ(mine[d], p)
          /\ Assign(d, "repair", p, Incompatible(mine[d], p))
       \/ /\ ~Managed(p) /\ UNCHANGED <<mine, clock>>
          /\ Goto(d, "repair", [at |-> "prompt"])
    /\ UNCHANGED <<official, remote, built, excused>>

\* A variant: the patch holds every value that differs.
Prompt_AlignsAll(d) ==
    LET r == Read(d, FALSE)  p == r.value IN
    /\ job[d]["repair"].at = "prompt" /\ Remembering(d, r)
    /\ IF Differ(mine[d], p)
       THEN Save(d, [p EXCEPT !.tweakModified = mine[d].tweakModified]) /\ Goto(d, "repair", Idle)
       ELSE Goto(d, "repair", Idle) /\ UNCHANGED <<mine, clock>>
    /\ UNCHANGED <<official, remote, built, excused, bounds>>

\* A variant: differences are shown, and never settled.
Prompt_Shows(d) ==
    /\ job[d]["repair"].at = "prompt" /\ Goto(d, "repair", Idle)
    /\ Remembering(d, Read(d, FALSE))
    /\ UNCHANGED <<official, remote, mine, built, excused, clock, bounds>>

\* The rest of runReplicationRepair: other remotes, and an automatic alignment that failed
Prompt(d) ==
    LET r == Read(d, FALSE)  p == r.value IN
    /\ job[d]["repair"].at = "prompt" /\ Remembering(d, r)
    /\ \/ Incompatible(mine[d], p) /\ Goto(d, "repair", Idle) /\ UNCHANGED <<mine, clock>>
       \/ /\ ~Incompatible(mine[d], p) /\ Lossy(mine[d], p)
          /\ Save(d, [mine[d] EXCEPT !.chunk = p.chunk]) /\ Goto(d, "repair", Idle)
       \/ ~Differ(mine[d], p) /\ Goto(d, "repair", Idle) /\ UNCHANGED <<mine, clock>>
    /\ UNCHANGED <<official, remote, built, excused, bounds>>

\* alignTweaksToRemote, after the user confirmed the list of differences
AlignToRemote(d) ==
    LET r == Read(d, TRUE)  p == r.value IN
    /\ job[d]["align"] = Idle /\ Choosing /\ Remembering(d, r)
    /\ \/ Differ(mine[d], p) /\ Assign(d, "align", p, Incompatible(mine[d], p))
       \/ ~Differ(mine[d], p) /\ Goto(d, "align", Idle) /\ UNCHANGED <<mine, clock>>
    /\ UNCHANGED <<official, remote, built, excused>>

(* ------------------- writing the remote, rebuilding ----------------------- *)

\* A variant: values are registered, and the database is left as it was.
Register_NoRebuild(d, f) ==
    /\ job[d][f].at = "register" /\ remote' = mine[d] /\ Goto(d, f, Idle)
    /\ UNCHANGED <<official, mine, built, cache, excused, clock, bounds>>

\* setPreferredRemoteTweakSettings registers the settings as they are when it is called
Register(d, f) ==
    /\ job[d][f].at = "register" /\ remote' = mine[d]
    /\ \/ job[d][f].then = "end" /\ Goto(d, f, Idle)
       \/ job[d][f].then # "end" /\ Goto(d, f, [at |-> job[d][f].then])
    /\ UNCHANGED <<official, mine, built, cache, excused, clock, bounds>>

\* A remote that cannot be reached is logged, and the flow goes on as if it had been written
Unreached(d, f) ==
    /\ job[d][f].at = "register" /\ Failing
    /\ \/ job[d][f].then = "end" /\ Goto(d, f, Idle)
       \/ job[d][f].then # "end" /\ Goto(d, f, [at |-> job[d][f].then])
    /\ UNCHANGED <<official, remote, mine, built, cache, excused, clock>>

\* $fetchLocal rebuilds the local database with the settings of now
FetchLocal(d, f) ==
    /\ job[d][f].at = "fetch" /\ built' = [built EXCEPT ![d] = mine[d].encrypt] /\ Goto(d, f, Idle)
    /\ UNCHANGED <<official, remote, mine, cache, excused, clock, bounds>>

\* $rebuildRemote resets the remote, whose first handshake then records this device's values
OverwriteRemote(d) ==
    /\ job[d]["sync"].at = "overwrite" /\ remote' = mine[d] /\ Goto(d, "sync", Idle)
    /\ UNCHANGED <<official, mine, built, cache, excused, clock, bounds>>

\* A variant: every flow goes on to the prompt of the repair.
Throw_Prompts(d, f) ==
    /\ job[d][f].at \in {"register", "fetch", "overwrite"} /\ Failing
    /\ Goto(d, f, [at |-> "prompt"]) /\ excused' = excused \cup {d}
    /\ UNCHANGED <<official, remote, mine, built, cache, clock>>

\* A step throws: the repair goes on to its prompt, the other flows end
Throw(d, f) ==
    /\ job[d][f].at \in {"register", "fetch", "overwrite"} /\ Failing
    /\ Goto(d, f, IF f = "repair" THEN [at |-> "prompt"] ELSE Idle)
    /\ excused' = excused \cup {d}
    /\ UNCHANGED <<official, remote, mine, built, cache, clock>>

(* ------------------- users, time, crashes ---------------------------------- *)

\* A user changes a compatible setting; it is saved, the remote hears of it at a handshake
Edit(d) ==
    /\ Choosing
    /\ \E c \in Chunk \ {mine[d].chunk} : Save(d, [mine[d] EXCEPT !.chunk = c])
    /\ UNCHANGED <<official, remote, built, job, cache, excused>>

Expire(d) ==
    /\ cache[d].left > 0 /\ Remembering(d, Unread)
    /\ UNCHANGED <<official, remote, mine, built, job, excused, clock, bounds>>

\* The application is killed: what it held in memory is gone
Kill(d) ==
    /\ Failing
    /\ job' = [job EXCEPT ![d] = [f \in Flow |-> Idle]]
    /\ Remembering(d, Unread)
    /\ excused' = excused \cup {d}
    /\ UNCHANGED <<official, remote, mine, built, clock>>

Init ==
    /\ official \in BOOLEAN /\ remote \in First /\ mine \in [Device -> Unrecorded]
    /\ official => ~remote.encrypt
    /\ built = [d \in Device |-> mine[d].encrypt]
    /\ job = [d \in Device |-> [f \in Flow |-> Idle]]
    /\ cache = [d \in Device |-> Unread]
    /\ excused = {}
    /\ clock = 0 /\ choices = 0 /\ overlaps = 0 /\ faults = 0

Flows(d) ==
    \/ Check(d) \/ Prompt(d) \/ OverwriteRemote(d)
    \/ \E f \in Flow : Register(d, f) \/ FetchLocal(d, f)

Next ==
    \E d \in Device :
        \/ Handshake(d) \/ UseRemote(d) \/ UseMine(d) \/ Dismiss(d) \/ Repair(d) \/ AlignToRemote(d)
        \/ Flows(d) \/ Edit(d) \/ Expire(d) \/ Kill(d)
        \/ \E f \in Flow : Unreached(d, f) \/ Throw(d, f)

Spec == Init /\ [][Next]_vars

(***************************************************************************)
(* A flow that began goes on, a dialogue times out after a minute, and the  *)
(* cache is good for 15 seconds.  A device replicates and repairs again and *)
(* again (periodic replication, every start-up, every pull); the strong     *)
(* form makes up for the bound on overlaps, which lets a flow begin only    *)
(* at the moments when no other one runs.                                   *)
(***************************************************************************)
FairSpec ==
    /\ Spec
    /\ \A d \in Device :
         /\ WF_vars(Flows(d)) /\ WF_vars(Dismiss(d)) /\ WF_vars(Expire(d))
         /\ SF_vars(Handshake(d)) /\ SF_vars(Repair(d))

(* ------------------------------ properties ------------------------------- *)

Jobs ==
    {Idle}
    \cup [at : {"check"}, with : Value]
    \cup [at : {"ask"}, with : Value, offer : BOOLEAN]
    \cup [at : {"register"}, then : {"end", "fetch", "overwrite"}]
    \cup [at : {"prompt", "fetch", "overwrite"}]

JobOK ==
    /\ job \in [Device -> [Flow -> Jobs]]
    /\ \A d \in Device, f \in Flow :
         /\ job[d][f].at \in {"check", "ask", "overwrite"} => f = "sync"
         /\ job[d][f].at = "prompt" => f = "repair"
         /\ job[d][f].at = "register" /\ job[d][f].then = "overwrite" => f = "sync"

BoundsOK ==
    choices \in 0..MaxChoices /\ overlaps \in 0..MaxOverlaps /\ faults \in 0..MaxFaults

\* The types, and which flow can be at which step.
TypeOK ==
    /\ official \in BOOLEAN /\ remote \in Value /\ mine \in [Device -> Value]
    /\ built \in [Device -> BOOLEAN] /\ JobOK
    /\ cache \in [Device -> {Unread} \cup [value : Value, left : 1..CacheReads]]
    /\ excused \subseteq Device /\ clock \in Nat /\ BoundsOK

Rebuilding(d) ==
    \E f \in Flow :
        job[d][f].at = "fetch" \/ (job[d][f].at = "register" /\ job[d][f].then = "fetch")

\* Whichever flows overlap and however old the values are that they act on, a local database
\* that was built with another encryption than the settings say is about to be rebuilt, unless
\* a step failed or the user chose to go without (_askResolvingMismatchedTweaks,
\* autoAlignOfficialRemoteTweaks, alignTweaksToRemote).
UnrebuiltIsExplained ==
    \A d \in Device : built[d] # mine[d].encrypt => Rebuilding(d) \/ d \in excused

\* On a remote that OsyC did not provision nothing changes the encryption of a device but its
\* user, in the dialogue or by confirming the list of differences (runReplicationRepair).
EncryptionNeedsConsent ==
    [][~official => \A d \in Device : mine'[d].encrypt # mine[d].encrypt =>
          choices' # choices]_vars

\* The devices come to agree with the remote on every value that must match; what may remain
\* is a difference that only a user can settle: one in encryption, unless the remote is a
\* plain-text one that OsyC provisions.
Agreement ==
    <>[](\A d \in Device : Differ(mine[d], remote) => Incompatible(mine[d], remote) /\ ~Managed(remote))

\* The last step of a repair that found no difference, and says so
SaysSame(d) == Prompt(d) /\ ~Differ(mine[d], Read(d, FALSE).value)

\* A repair that says both sides are the same leaves no local database that was built with
\* another encryption ("never pretend to be aligned", useAIAgentUI.ts:396).
SameIsRebuilt == [][\A d \in Device : SaysSame(d) => built[d] = mine[d].encrypt]_vars
=============================================================================
