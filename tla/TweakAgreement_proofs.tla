------------------------ MODULE TweakAgreement_proofs ------------------------
(***************************************************************************)
(* Proofs about the agreement on the values that must match, for every set *)
(* of devices, every set of chunk values and every bound.                  *)
(***************************************************************************)
EXTENDS TweakAgreement, TLAPS

(* ------------------------------- types --------------------------------- *)

\* A flow goes to a step it can be at; the jobs of all other flows stay.
LEMMA GotoType ==
    ASSUME JobOK, NEW d \in Device, NEW f \in Flow, NEW j \in Jobs, Goto(d, f, j),
           j.at \in {"check", "ask", "overwrite"} => f = "sync", j.at = "prompt" => f = "repair",
           j.at = "register" /\ j.then = "overwrite" => f = "sync"
    PROVE  JobOK'
BY DEF JobOK, Goto

\* What a flow leaves and what it goes to.
LEMMA GotoEffect ==
    ASSUME JobOK, NEW d \in Device, NEW f \in Flow, NEW j, Goto(d, f, j)
    PROVE  /\ job'[d][f] = j
           /\ \A e \in Device, g \in Flow : (e # d \/ g # f) => job'[e][g] = job[e][g]
BY DEF JobOK, Goto

\* A choice, a fault, a start and any other step stay within the bounds.
LEMMA BoundsType ==
    ASSUME BoundsOK, NEW d \in Device, NEW f \in Flow,
           Choosing \/ Failing \/ Starting(d, f) \/ UNCHANGED bounds
    PROVE  BoundsOK'
BY TweakAssumption DEF BoundsOK, Choosing, Failing, Starting, bounds

\* Saved settings are typed, and carry the values they were given.
LEMMA SaveType ==
    ASSUME mine \in [Device -> Value], clock \in Nat, NEW d \in Device, NEW v \in Value, Save(d, v)
    PROVE  /\ mine' \in [Device -> Value] /\ clock' \in Nat
           /\ mine'[d].encrypt = v.encrypt
           /\ \A e \in Device : e # d => mine'[e] = mine[e]
BY DEF Save, Value, Differ

\* A read returns a value of the remote, now or at most 15 seconds ago.
LEMMA ReadType ==
    ASSUME TypeOK, NEW d \in Device, NEW force \in BOOLEAN
    PROVE  /\ Read(d, force).value \in Value
           /\ Read(d, force) \in [value : Value, left : 0..CacheReads]
BY TweakAssumption DEF TypeOK, Read, Unread

\* What is remembered of a read.
LEMMA RememberType ==
    ASSUME TypeOK, NEW d \in Device, NEW r \in [value : Value, left : 0..CacheReads], Remembering(d, r)
    PROVE  cache' \in [Device -> {Unread} \cup [value : Value, left : 1..CacheReads]]
BY TweakAssumption DEF TypeOK, Remembering

\* The assignment of values: settings and jobs stay typed, the values are assigned, and the
\* flow goes on to write the remote.
LEMMA AssignEffect ==
    ASSUME TypeOK, NEW d \in Device, NEW f \in Flow, NEW v \in Value, NEW rebuild \in BOOLEAN,
           Assign(d, f, v, rebuild)
    PROVE  /\ mine' \in [Device -> Value] /\ clock' \in Nat /\ JobOK'
           /\ mine'[d].encrypt = v.encrypt
           /\ \A e \in Device : e # d => mine'[e] = mine[e]
           /\ job'[d][f] = [at |-> "register", then |-> IF rebuild THEN "fetch" ELSE "end"]
           /\ \A e \in Device, g \in Flow : (e # d \/ g # f) => job'[e][g] = job[e][g]
<1> DEFINE j == [at |-> "register", then |-> IF rebuild THEN "fetch" ELSE "end"]
<1>1. Save(d, v) /\ Goto(d, f, j)
  BY DEF Assign
<1>2. j \in Jobs
  BY DEF Jobs
<1>3. j.at = "register" /\ j.then # "overwrite"
  OBVIOUS
<1>4. JobOK' /\ job'[d][f] = j /\ \A e \in Device, g \in Flow : (e # d \/ g # f) => job'[e][g] = job[e][g]
  <2> HIDE DEF j
  <2> QED
    BY <1>1, <1>2, <1>3, GotoType, GotoEffect DEF TypeOK
<1>5. QED
  BY <1>1, <1>4, SaveType DEF TypeOK

(***************************************************************************)
(* Every step keeps the types and, with them, the explanation of a local    *)
(* database built with another encryption.  An action either assigns values *)
(* (AssignEffect), or leaves the encryption of every device and sends one   *)
(* flow to another step (Kept): then the explanation stays unless that flow *)
(* was the one about to rebuild.                                            *)
(***************************************************************************)

\* The flows that are about to rebuild the local database.
RebuildsNext(j) == j.at = "fetch" \/ (j.at = "register" /\ j.then = "fetch")

\* A step that leaves every encryption and sends one flow from j to k, where k is about to
\* rebuild if j was, keeps the explanation.
LEMMA Kept ==
    ASSUME TypeOK, UnrebuiltIsExplained, NEW d \in Device, NEW f \in Flow, NEW k \in Jobs,
           Goto(d, f, k), RebuildsNext(job[d][f]) => RebuildsNext(k) \/ d \in excused',
           excused \subseteq excused', built' = built,
           \A e \in Device : mine'[e].encrypt = mine[e].encrypt
    PROVE  UnrebuiltIsExplained'
<1> SUFFICES ASSUME NEW e \in Device, built'[e] # mine'[e].encrypt
             PROVE  Rebuilding(e)' \/ e \in excused'
  BY DEF UnrebuiltIsExplained
<1>1. Rebuilding(e) \/ e \in excused
  BY DEF UnrebuiltIsExplained
<1>2. CASE e \in excused
  BY <1>2
<1>3. CASE Rebuilding(e)
  <2>1. PICK g \in Flow : RebuildsNext(job[e][g])
    BY <1>3 DEF Rebuilding, RebuildsNext
  <2>2. job'[d][f] = k /\ \A h \in Flow : (e # d \/ h # f) => job'[e][h] = job[e][h]
    BY GotoEffect DEF TypeOK
  <2>3. RebuildsNext(job'[e][g]) \/ e \in excused'
    BY <2>1, <2>2
  <2>4. QED
    BY <2>3 DEF Rebuilding, RebuildsNext
<1>4. QED
  BY <1>1, <1>2, <1>3

\* An assignment explains itself: the flow rebuilds, or the encryption is the one of before, or
\* the user took no rebuild.
LEMMA Assigned ==
    ASSUME TypeOK, UnrebuiltIsExplained, NEW d \in Device, NEW f \in Flow, NEW v \in Value,
           NEW rebuild \in BOOLEAN, Assign(d, f, v, rebuild),
           built' = built, excused \subseteq excused', ~RebuildsNext(job[d][f]),
           rebuild \/ v.encrypt = mine[d].encrypt \/ d \in excused'
    PROVE  UnrebuiltIsExplained'
<1> SUFFICES ASSUME NEW e \in Device, built'[e] # mine'[e].encrypt
             PROVE  Rebuilding(e)' \/ e \in excused'
  BY DEF UnrebuiltIsExplained
<1>1. /\ mine'[d].encrypt = v.encrypt /\ (e # d => mine'[e] = mine[e])
      /\ job'[d][f] = [at |-> "register", then |-> IF rebuild THEN "fetch" ELSE "end"]
      /\ \A g \in Flow : (e # d \/ g # f) => job'[e][g] = job[e][g]
  BY AssignEffect
<1>2. CASE e = d /\ rebuild
  <2>1. job'[e][f].at = "register" /\ job'[e][f].then = "fetch"
    BY <1>1, <1>2
  <2>2. QED
    BY <2>1 DEF Rebuilding
<1>3. CASE d \in excused' /\ e = d
  BY <1>3
<1>4. CASE e # d \/ (~rebuild /\ v.encrypt = mine[d].encrypt)
  <2>1. Rebuilding(e) \/ e \in excused
    BY <1>1, <1>4 DEF UnrebuiltIsExplained
  <2>2. ASSUME NEW g \in Flow, RebuildsNext(job[e][g]) PROVE Rebuilding(e)'
    <3>1. job'[e][g] = job[e][g]
      BY <1>1, <2>2
    <3>2. QED
      BY <2>2, <3>1 DEF Rebuilding, RebuildsNext
  <2>3. QED
    BY <2>1, <2>2 DEF Rebuilding, RebuildsNext
<1>5. QED
  BY <1>2, <1>3, <1>4

(* --------------------------- the invariant ------------------------------ *)

IInv == TypeOK /\ UnrebuiltIsExplained

\* Every device starts with a database that its settings built.
LEMMA InitInv == Init => IInv
<1>1. Init => TypeOK
  <2>1. Init => BoundsOK
    BY TweakAssumption DEF Init, BoundsOK
  <2>2. Init => remote \in Value /\ mine \in [Device -> Value]
    <3>1. Unrecorded \subseteq Value
      BY DEF Value, Unrecorded
    <3>2. First \subseteq Unrecorded
      BY TweakAssumption DEF Unrecorded
    <3>3. QED
      BY <3>1, <3>2 DEF Init
  <2>3. Init => built \in [Device -> BOOLEAN]
    BY <2>2 DEF Init, Value
  <2>4. Init => JobOK
    BY DEF Init, JobOK, Jobs, Idle
  <2>5. Init => cache \in [Device -> {Unread} \cup [value : Value, left : 1..CacheReads]]
    BY DEF Init
  <2>6. Init => official \in BOOLEAN /\ excused \subseteq Device /\ clock \in Nat
    BY DEF Init
  <2>7. QED
    BY <2>1, <2>2, <2>3, <2>4, <2>5, <2>6 DEF TypeOK
<1>2. Init => UnrebuiltIsExplained
  BY DEF Init, UnrebuiltIsExplained
<1>3. QED
  BY <1>1, <1>2 DEF IInv

\* The values a job holds are values of some remote.
LEMMA HeldType ==
    ASSUME JobOK, NEW d \in Device, job[d]["sync"].at \in {"check", "ask"}
    PROVE  /\ job[d]["sync"].with \in Value
           /\ job[d]["sync"].at = "ask" => job[d]["sync"].offer \in BOOLEAN
<1>1. job[d]["sync"] \in Jobs
  BY DEF JobOK, Flow
<1>2. QED
  BY <1>1 DEF Jobs, Idle

\* The resolution of a mismatch, up to the values it assigns.
LEMMA ResolutionInv ==
    ASSUME IInv, NEW d \in Device,
           Handshake(d) \/ Check(d) \/ UseRemote(d) \/ UseMine(d) \/ Dismiss(d)
    PROVE  IInv'
<1> USE DEF IInv
<1> "sync" \in Flow
  BY DEF Flow
<1>1. CASE Handshake(d)
  <2> DEFINE k == [at |-> "check", with |-> remote]
  <2>1. k \in Jobs /\ k.at = "check"
    BY DEF Jobs, TypeOK
  <2>2. BoundsOK'
    BY <1>1, BoundsType DEF TypeOK, Handshake
  <2>3. Goto(d, "sync", k) /\ job[d]["sync"] = Idle
    BY <1>1 DEF Handshake, Starting
  <2>4. ~RebuildsNext(job[d]["sync"])
    BY <2>3 DEF RebuildsNext, Idle
  <2> HIDE DEF k
  <2>5. JobOK'
    BY <2>1, <2>3, GotoType DEF TypeOK
  <2>6. UnrebuiltIsExplained'
    BY <1>1, <2>1, <2>3, <2>4, Kept DEF Handshake
  <2>7. QED
    BY <1>1, <2>2, <2>5, <2>6 DEF TypeOK, Handshake
<1>2. CASE Check(d)
  <2> DEFINE p == job[d]["sync"].with
             k1 == [at |-> "register", then |-> "end"]
             k2 == [at |-> "ask", with |-> p, offer |-> Differ(mine[d], p)]
  <2>1. p \in Value /\ ~RebuildsNext(job[d]["sync"]) /\ job[d]["sync"].at = "check"
    BY <1>2, HeldType DEF TypeOK, Check, RebuildsNext
  <2>2. BoundsOK'
    BY <1>2, BoundsType DEF TypeOK, Check
  <2>3. CASE Assign(d, "sync", p, FALSE) /\ Automatic(d, p)
    <3>1. p.encrypt = mine[d].encrypt
      BY <2>3 DEF Automatic, Incompatible
    <3>2. UnrebuiltIsExplained'
      BY <1>2, <2>1, <2>3, <3>1, Assigned DEF Check
    <3>3. mine' \in [Device -> Value] /\ clock' \in Nat /\ JobOK'
      BY <2>1, <2>3, AssignEffect
    <3>4. QED
      BY <1>2, <2>2, <3>2, <3>3 DEF TypeOK, Check
  <2>4. ASSUME NEW k \in {k1, k2}, Goto(d, "sync", k), UNCHANGED <<mine, clock>> PROVE IInv'
    <3>1. k \in Jobs /\ (k.at = "ask" \/ (k.at = "register" /\ k.then = "end"))
      <4>1. Differ(mine[d], p) \in BOOLEAN
        BY DEF Differ, Incompatible, Lossy
      <4>2. k2 \in Jobs /\ k2.at = "ask"
        BY <2>1, <4>1 DEF Jobs
      <4>3. k1 \in Jobs /\ k1.at = "register" /\ k1.then = "end"
        BY DEF Jobs
      <4>4. QED
        BY <2>4, <4>2, <4>3
    <3> HIDE DEF k1, k2, p
    <3>2. JobOK'
      BY <2>4, <3>1, GotoType DEF TypeOK
    <3>3. UnrebuiltIsExplained'
      BY <1>2, <2>1, <2>4, <3>1, Kept DEF Check
    <3>4. QED
      BY <1>2, <2>2, <2>4, <3>2, <3>3 DEF TypeOK, Check
  <2>5. QED
    BY <1>2, <2>3, <2>4 DEF Check
<1>3. CASE UseRemote(d)
  <2>1. PICK rebuild \in {FALSE, job[d]["sync"].offer} :
           /\ Assign(d, "sync", job[d]["sync"].with, rebuild)
           /\ excused' = IF rebuild THEN excused ELSE excused \cup {d}
    BY <1>3 DEF UseRemote
  <2>2. job[d]["sync"].with \in Value /\ rebuild \in BOOLEAN /\ ~RebuildsNext(job[d]["sync"])
    BY <1>3, HeldType DEF TypeOK, UseRemote, RebuildsNext
  <2>3. BoundsOK'
    BY <1>3, BoundsType DEF TypeOK, UseRemote
  <2>4. mine' \in [Device -> Value] /\ clock' \in Nat /\ JobOK'
    BY <2>1, <2>2, AssignEffect
  <2>5. UnrebuiltIsExplained'
    <3>1. built' = built /\ excused \subseteq excused' /\ (rebuild \/ d \in excused')
      BY <1>3, <2>1, <2>2 DEF UseRemote
    <3>2. QED
      BY <2>1, <2>2, <3>1, Assigned
  <2>6. excused' \subseteq Device
    BY <2>1, <2>2 DEF TypeOK
  <2>7. QED
    BY <1>3, <2>3, <2>4, <2>5, <2>6 DEF TypeOK, UseRemote
<1>4. CASE UseMine(d)
  <2>1. PICK rebuild \in {FALSE, job[d]["sync"].offer} :
           Goto(d, "sync", [at |-> "register", then |-> IF rebuild THEN "overwrite" ELSE "end"])
    BY <1>4 DEF UseMine
  <2> DEFINE k == [at |-> "register", then |-> IF rebuild THEN "overwrite" ELSE "end"]
  <2>2. k \in Jobs /\ k.at = "register" /\ ~RebuildsNext(job[d]["sync"])
    BY <1>4 DEF Jobs, UseMine, RebuildsNext
  <2>3. BoundsOK'
    BY <1>4, BoundsType DEF TypeOK, UseMine
  <2>4. Goto(d, "sync", k)
    BY <2>1
  <2> HIDE DEF k
  <2>5. JobOK'
    BY <2>2, <2>4, GotoType DEF TypeOK
  <2>6. UnrebuiltIsExplained'
    BY <1>4, <2>2, <2>4, Kept DEF UseMine
  <2>7. QED
    BY <1>4, <2>3, <2>5, <2>6 DEF TypeOK, UseMine
<1>5. CASE Dismiss(d)
  <2>1. Idle \in Jobs /\ Idle.at = "idle" /\ ~RebuildsNext(job[d]["sync"])
    BY <1>5 DEF Jobs, Idle, Dismiss, RebuildsNext
  <2>2. BoundsOK'
    BY <1>5, BoundsType DEF TypeOK, Dismiss
  <2>3. JobOK'
    BY <1>5, <2>1, GotoType DEF TypeOK, Dismiss
  <2>4. UnrebuiltIsExplained'
    BY <1>5, <2>1, Kept DEF Dismiss
  <2>5. QED
    BY <1>5, <2>2, <2>3, <2>4 DEF TypeOK, Dismiss
<1>6. QED
  BY <1>1, <1>2, <1>3, <1>4, <1>5

\* The repair and the confirmed alignment, up to the values they assign.
LEMMA RepairInv ==
    ASSUME IInv, NEW d \in Device, Repair(d) \/ Prompt(d) \/ AlignToRemote(d)
    PROVE  IInv'
<1> USE DEF IInv
<1> "repair" \in Flow /\ "align" \in Flow
  BY DEF Flow
<1> DEFINE r == Read(d, FALSE)  p == r.value
           q == Read(d, TRUE)
           prompt == [at |-> "prompt"]
<1>1. /\ p \in Value /\ r \in [value : Value, left : 0..CacheReads]
      /\ q.value \in Value /\ q \in [value : Value, left : 0..CacheReads]
  BY ReadType
<1>2. Idle \in Jobs /\ Idle.at = "idle" /\ prompt \in Jobs /\ prompt.at = "prompt"
  BY DEF Jobs, Idle
<1>3. Differ(mine[d], p) \in BOOLEAN /\ Incompatible(mine[d], p) \in BOOLEAN
      /\ Incompatible(mine[d], q.value) \in BOOLEAN
  BY DEF Differ, Incompatible, Lossy
<1> HIDE DEF r, q, prompt
<1>4. CASE Repair(d)
  <2>1. /\ Starting(d, "repair") /\ Remembering(d, r) /\ UNCHANGED <<official, remote, built, excused>>
        /\ \/ Goto(d, "repair", Idle) /\ UNCHANGED <<mine, clock>>
           \/ Assign(d, "repair", p, Incompatible(mine[d], p))
           \/ Goto(d, "repair", prompt) /\ UNCHANGED <<mine, clock>>
    BY <1>4 DEF Repair, r, prompt
  <2>2. BoundsOK' /\ ~RebuildsNext(job[d]["repair"])
    BY <2>1, BoundsType DEF TypeOK, Starting, RebuildsNext, Idle
  <2>3. cache' \in [Device -> {Unread} \cup [value : Value, left : 1..CacheReads]]
    BY <1>1, <2>1, RememberType
  <2>4. ASSUME NEW k \in {Idle, prompt}, Goto(d, "repair", k), UNCHANGED <<mine, clock>>
        PROVE  JobOK' /\ UnrebuiltIsExplained'
    <3>1. k \in Jobs /\ (k.at = "idle" \/ k.at = "prompt")
      BY <1>2, <2>4
    <3>2. JobOK'
      BY <2>4, <3>1, GotoType DEF TypeOK
    <3>3. UnrebuiltIsExplained'
      BY <2>1, <2>2, <2>4, <3>1, Kept
    <3>4. QED
      BY <3>2, <3>3
  <2>5. CASE Assign(d, "repair", p, Incompatible(mine[d], p))
    <3>1. Incompatible(mine[d], p) \/ p.encrypt = mine[d].encrypt
      BY DEF Incompatible
    <3>2. UnrebuiltIsExplained'
      BY <1>1, <1>3, <2>1, <2>2, <2>5, <3>1, Assigned
    <3>3. mine' \in [Device -> Value] /\ clock' \in Nat /\ JobOK'
      BY <1>1, <1>3, <2>5, AssignEffect
    <3>4. QED
      BY <2>1, <2>2, <2>3, <3>2, <3>3 DEF TypeOK
  <2>6. CASE UNCHANGED <<mine, clock>> /\ (Goto(d, "repair", Idle) \/ Goto(d, "repair", prompt))
    BY <2>1, <2>2, <2>3, <2>4, <2>6 DEF TypeOK
  <2>7. QED
    BY <2>1, <2>5, <2>6
<1>5. CASE Prompt(d)
  <2>1. /\ job[d]["repair"].at = "prompt" /\ Remembering(d, r) /\ Goto(d, "repair", Idle)
        /\ UNCHANGED <<official, remote, built, excused, bounds>>
        /\ (UNCHANGED <<mine, clock>> \/ Save(d, [mine[d] EXCEPT !.chunk = p.chunk]))
    BY <1>5 DEF Prompt, r
  <2>2. BoundsOK'
    BY <2>1, BoundsType DEF TypeOK
  <2>3. cache' \in [Device -> {Unread} \cup [value : Value, left : 1..CacheReads]]
    BY <1>1, <2>1, RememberType
  <2>4. /\ mine' \in [Device -> Value] /\ clock' \in Nat
        /\ \A e \in Device : mine'[e].encrypt = mine[e].encrypt
    <3> DEFINE v == [mine[d] EXCEPT !.chunk = p.chunk]
    <3>1. v \in Value /\ v.encrypt = mine[d].encrypt
      BY <1>1 DEF TypeOK, Value
    <3> HIDE DEF v
    <3>2. CASE Save(d, v)
      BY <3>1, <3>2, SaveType DEF TypeOK
    <3>3. CASE UNCHANGED <<mine, clock>>
      BY <3>3 DEF TypeOK
    <3>4. QED
      BY <2>1, <3>2, <3>3 DEF v
  <2>5. JobOK'
    BY <1>2, <2>1, GotoType DEF TypeOK
  <2>6. UnrebuiltIsExplained'
    <3>1. ~RebuildsNext(job[d]["repair"])
      BY <2>1 DEF RebuildsNext
    <3>2. QED
      BY <1>2, <2>1, <2>4, <3>1, Kept
  <2>7. QED
    BY <2>1, <2>2, <2>3, <2>4, <2>5, <2>6 DEF TypeOK
<1>6. CASE AlignToRemote(d)
  <2>1. /\ job[d]["align"] = Idle /\ Choosing /\ Remembering(d, q)
        /\ UNCHANGED <<official, remote, built, excused>>
        /\ \/ Assign(d, "align", q.value, Incompatible(mine[d], q.value))
           \/ Goto(d, "align", Idle) /\ UNCHANGED <<mine, clock>>
    BY <1>6 DEF AlignToRemote, q
  <2>2. BoundsOK' /\ ~RebuildsNext(job[d]["align"])
    BY <2>1, BoundsType DEF TypeOK, RebuildsNext, Idle
  <2>3. cache' \in [Device -> {Unread} \cup [value : Value, left : 1..CacheReads]]
    BY <1>1, <2>1, RememberType
  <2>4. CASE Assign(d, "align", q.value, Incompatible(mine[d], q.value))
    <3>1. Incompatible(mine[d], q.value) \/ q.value.encrypt = mine[d].encrypt
      BY DEF Incompatible
    <3>2. UnrebuiltIsExplained'
      BY <1>1, <1>3, <2>1, <2>2, <2>4, <3>1, Assigned
    <3>3. mine' \in [Device -> Value] /\ clock' \in Nat /\ JobOK'
      BY <1>1, <1>3, <2>4, AssignEffect
    <3>4. QED
      BY <2>1, <2>2, <2>3, <3>2, <3>3 DEF TypeOK
  <2>5. CASE Goto(d, "align", Idle) /\ UNCHANGED <<mine, clock>>
    <3>1. JobOK'
      BY <1>2, <2>5, GotoType DEF TypeOK
    <3>2. UnrebuiltIsExplained'
      BY <1>2, <2>1, <2>2, <2>5, Kept
    <3>3. QED
      BY <2>1, <2>2, <2>3, <2>5, <3>1, <3>2 DEF TypeOK
  <2>6. QED
    BY <2>1, <2>4, <2>5
<1>7. QED
  BY <1>4, <1>5, <1>6

\* The steps that write the remote or rebuild, and those that fail.
LEMMA WritingInv ==
    ASSUME IInv, NEW d \in Device, NEW f \in Flow,
           Register(d, f) \/ Unreached(d, f) \/ FetchLocal(d, f) \/ OverwriteRemote(d) \/ Throw(d, f)
    PROVE  IInv'
<1> USE DEF IInv
<1> "sync" \in Flow
  BY DEF Flow
<1>1. /\ Idle \in Jobs /\ Idle.at = "idle"
      /\ [at |-> "prompt"] \in Jobs /\ [at |-> "fetch"] \in Jobs /\ [at |-> "overwrite"] \in Jobs
  BY DEF Jobs, Idle
<1>2. CASE Register(d, f) \/ Unreached(d, f)
  <2>1. /\ job[d][f].at = "register" /\ remote' \in Value
        /\ UNCHANGED <<official, mine, built, cache, excused, clock>>
        /\ \/ job[d][f].then = "end" /\ Goto(d, f, Idle)
           \/ job[d][f].then # "end" /\ Goto(d, f, [at |-> job[d][f].then])
    BY <1>2 DEF TypeOK, Register, Unreached
  <2>2. BoundsOK'
    BY <1>2, BoundsType DEF TypeOK, Register, Unreached
  <2>3. job[d][f].then \in {"end", "fetch", "overwrite"}
    BY <2>1 DEF TypeOK, JobOK, Jobs, Idle
  <2>4. JobOK' /\ UnrebuiltIsExplained'
    <3>1. CASE job[d][f].then = "end"
      <4>1. Goto(d, f, Idle) /\ ~RebuildsNext(job[d][f])
        BY <2>1, <3>1 DEF RebuildsNext
      <4>2. QED
        BY <1>1, <2>1, <4>1, GotoType, Kept DEF TypeOK
    <3>2. CASE job[d][f].then = "fetch"
      <4> DEFINE k == [at |-> "fetch"]
      <4>1. Goto(d, f, k) /\ k \in Jobs /\ k.at = "fetch" /\ RebuildsNext(k)
        BY <1>1, <2>1, <3>2 DEF RebuildsNext
      <4> HIDE DEF k
      <4>2. QED
        BY <2>1, <4>1, GotoType, Kept DEF TypeOK
    <3>3. CASE job[d][f].then = "overwrite"
      <4> DEFINE k == [at |-> "overwrite"]
      <4>1. Goto(d, f, k) /\ k \in Jobs /\ k.at = "overwrite" /\ ~RebuildsNext(job[d][f])
        BY <1>1, <2>1, <3>3 DEF RebuildsNext
      <4>2. f = "sync"
        BY <2>1, <3>3 DEF TypeOK, JobOK
      <4> HIDE DEF k
      <4>3. QED
        BY <2>1, <4>1, <4>2, GotoType, Kept DEF TypeOK
    <3>4. QED
      BY <2>3, <3>1, <3>2, <3>3
  <2>5. QED
    BY <2>1, <2>2, <2>4 DEF TypeOK
<1>3. CASE FetchLocal(d, f)
  <2>1. /\ Goto(d, f, Idle) /\ built' = [built EXCEPT ![d] = mine[d].encrypt]
        /\ UNCHANGED <<official, remote, mine, cache, excused, clock, bounds>>
    BY <1>3 DEF FetchLocal
  <2>2. JobOK' /\ BoundsOK' /\ built' \in [Device -> BOOLEAN]
    BY <1>1, <2>1, GotoType, BoundsType DEF TypeOK, Value
  <2>3. UnrebuiltIsExplained'
    <3> SUFFICES ASSUME NEW e \in Device, built'[e] # mine'[e].encrypt
                 PROVE  Rebuilding(e)' \/ e \in excused'
      BY DEF UnrebuiltIsExplained
    <3>1. e # d /\ built'[e] = built[e]
      BY <2>1 DEF TypeOK
    <3>2. \A g \in Flow : job'[e][g] = job[e][g]
      BY <2>1, <3>1, GotoEffect DEF TypeOK
    <3>3. QED
      BY <2>1, <3>1, <3>2 DEF UnrebuiltIsExplained, Rebuilding
  <2>4. QED
    BY <2>1, <2>2, <2>3 DEF TypeOK
<1>4. CASE OverwriteRemote(d)
  <2>1. /\ Goto(d, "sync", Idle) /\ ~RebuildsNext(job[d]["sync"]) /\ remote' \in Value
        /\ UNCHANGED <<official, mine, built, cache, excused, clock, bounds>>
    BY <1>4 DEF TypeOK, OverwriteRemote, RebuildsNext
  <2>2. JobOK' /\ BoundsOK'
    BY <1>1, <2>1, GotoType, BoundsType DEF TypeOK
  <2>3. UnrebuiltIsExplained'
    BY <1>1, <2>1, Kept
  <2>4. QED
    BY <2>1, <2>2, <2>3 DEF TypeOK
<1>5. CASE Throw(d, f)
  <2>1. /\ excused' = excused \cup {d}
        /\ UNCHANGED <<official, remote, mine, built, cache, clock>>
    BY <1>5 DEF Throw
  <2>2. BoundsOK'
    BY <1>5, BoundsType DEF TypeOK, Throw
  <2>3. ASSUME NEW k \in Jobs, Goto(d, f, k), k.at \in {"idle", "prompt"}, k.at = "prompt" => f = "repair"
        PROVE  JobOK' /\ UnrebuiltIsExplained'
    <3>1. JobOK'
      BY <2>3, GotoType DEF TypeOK
    <3>2. UnrebuiltIsExplained'
      BY <2>1, <2>3, Kept
    <3>3. QED
      BY <3>1, <3>2
  <2>4. JobOK' /\ UnrebuiltIsExplained'
    <3>1. CASE f = "repair"
      <4> DEFINE k == [at |-> "prompt"]
      <4>1. Goto(d, f, k) /\ k \in Jobs /\ k.at = "prompt"
        BY <1>1, <1>5, <3>1 DEF Throw
      <4> HIDE DEF k
      <4>2. QED
        BY <2>3, <3>1, <4>1
    <3>2. CASE f # "repair"
      BY <1>1, <1>5, <2>3, <3>2 DEF Throw
    <3>3. QED
      BY <3>1, <3>2
  <2>5. QED
    BY <2>1, <2>2, <2>4 DEF TypeOK
<1>6. QED
  BY <1>2, <1>3, <1>4, <1>5

\* The steps of users, of time, and of crashes.
LEMMA OutsideInv ==
    ASSUME IInv, NEW d \in Device, Edit(d) \/ Expire(d) \/ Kill(d)
    PROVE  IInv'
<1> USE DEF IInv
<1> "sync" \in Flow
  BY DEF Flow
<1>1. CASE Edit(d)
  <2>1. PICK c \in Chunk : Save(d, [mine[d] EXCEPT !.chunk = c])
    BY <1>1 DEF Edit
  <2> DEFINE v == [mine[d] EXCEPT !.chunk = c]
  <2>2. v \in Value /\ v.encrypt = mine[d].encrypt
    BY DEF TypeOK, Value
  <2>3. Save(d, v)
    BY <2>1
  <2> HIDE DEF v
  <2>4. /\ mine' \in [Device -> Value] /\ clock' \in Nat
        /\ \A e \in Device : mine'[e].encrypt = mine[e].encrypt
    BY <2>2, <2>3, SaveType DEF TypeOK
  <2>5. BoundsOK'
    BY <1>1, BoundsType DEF TypeOK, Edit
  <2>6. JobOK' /\ UnrebuiltIsExplained'
    BY <1>1, <2>4 DEF Edit, TypeOK, JobOK, UnrebuiltIsExplained, Rebuilding
  <2>7. QED
    BY <1>1, <2>4, <2>5, <2>6 DEF TypeOK, Edit
<1>2. CASE Expire(d)
  <2>1. BoundsOK' /\ JobOK' /\ UnrebuiltIsExplained'
    BY <1>2, BoundsType DEF Expire, TypeOK, JobOK, UnrebuiltIsExplained, Rebuilding
  <2>2. cache' \in [Device -> {Unread} \cup [value : Value, left : 1..CacheReads]]
    BY <1>2 DEF Expire, Remembering, TypeOK, Unread
  <2>3. QED
    BY <1>2, <2>1, <2>2 DEF Expire, TypeOK
<1>3. CASE Kill(d)
  <2>1. /\ job' = [job EXCEPT ![d] = [f \in Flow |-> Idle]] /\ excused' = excused \cup {d}
        /\ UNCHANGED <<official, remote, mine, built, clock>>
    BY <1>3 DEF Kill
  <2>2. JobOK'
    <3>1. Idle \in Jobs /\ Idle.at = "idle"
      BY DEF Jobs, Idle
    <3>2. QED
      BY <2>1, <3>1 DEF TypeOK, JobOK
  <2>3. BoundsOK'
    BY <1>3, BoundsType DEF TypeOK, Kill
  <2>4. cache' \in [Device -> {Unread} \cup [value : Value, left : 1..CacheReads]]
    BY <1>3 DEF Kill, Remembering, TypeOK, Unread
  <2>5. UnrebuiltIsExplained'
    BY <2>1 DEF TypeOK, JobOK, UnrebuiltIsExplained, Rebuilding
  <2>6. QED
    BY <2>1, <2>2, <2>3, <2>4, <2>5 DEF TypeOK
<1>4. QED
  BY <1>1, <1>2, <1>3

\* Every step keeps the invariant.
LEMMA StepInv == IInv /\ [Next]_vars => IInv'
<1> SUFFICES ASSUME IInv, [Next]_vars PROVE IInv'
  OBVIOUS
<1>1. CASE UNCHANGED vars
  BY <1>1 DEF vars, bounds, IInv, TypeOK, JobOK, BoundsOK, UnrebuiltIsExplained, Rebuilding
<1>2. CASE Next
  <2>1. PICK d \in Device :
          \/ Handshake(d) \/ UseRemote(d) \/ UseMine(d) \/ Dismiss(d) \/ Repair(d) \/ AlignToRemote(d)
          \/ Flows(d) \/ Edit(d) \/ Expire(d) \/ Kill(d)
          \/ \E f \in Flow : Unreached(d, f) \/ Throw(d, f)
    BY <1>2 DEF Next
  <2>2. "sync" \in Flow
    BY DEF Flow
  <2>3. QED
    BY <2>1, <2>2, ResolutionInv, RepairInv, WritingInv, OutsideInv DEF Flows
<1>3. QED
  BY <1>1, <1>2

(* ------------------------------ theorems --------------------------------- *)

\* Settings, jobs and the remote keep their types, and every flow keeps to its own steps.
THEOREM TypeCorrect == Spec => []TypeOK
<1>1. IInv => TypeOK
  BY DEF IInv
<1>2. QED
  BY <1>1, InitInv, StepInv, PTL DEF Spec

\* For any number of devices and any overlap of their flows, a local database that was built
\* with another encryption than the settings say is about to be rebuilt, unless a step failed
\* or the user went without.
THEOREM Explained == Spec => []UnrebuiltIsExplained
<1>1. IInv => UnrebuiltIsExplained
  BY DEF IInv
<1>2. QED
  BY <1>1, InitInv, StepInv, PTL DEF Spec

\* On a remote that OsyC did not provision only a choice of a user changes the encryption of a
\* device.
THEOREM Consent == Spec => EncryptionNeedsConsent
<1> DEFINE Consented == ~official => \A d \in Device : mine'[d].encrypt # mine[d].encrypt => choices' # choices
<1>1. ASSUME IInv, [Next]_vars PROVE Consented
  <2> SUFFICES ASSUME ~official, NEW e \in Device, mine'[e].encrypt # mine[e].encrypt
               PROVE  choices' # choices
    OBVIOUS
  <2>1. TypeOK /\ choices \in Nat /\ (Choosing => choices' # choices)
    BY <1>1, TweakAssumption DEF IInv, TypeOK, BoundsOK, Choosing
  <2>2. CASE UNCHANGED mine
    BY <2>2
  <2>3. ASSUME NEW d \in Device, Check(d) PROVE FALSE
    <3> DEFINE p == job[d]["sync"].with
    <3>1. Assign(d, "sync", p, FALSE) /\ Automatic(d, p)
      BY <2>3 DEF Check
    <3>2. p \in Value /\ p.encrypt = mine[d].encrypt /\ "sync" \in Flow
      BY <2>1, <2>3, <3>1, HeldType DEF TypeOK, Check, Automatic, Incompatible, Flow
    <3> HIDE DEF p
    <3>3. mine'[e].encrypt = mine[e].encrypt
      BY <2>1, <3>1, <3>2, AssignEffect
    <3>4. QED
      BY <3>3
  <2>4. ASSUME NEW d \in Device, Prompt(d) PROVE FALSE
    <3> DEFINE v == [mine[d] EXCEPT !.chunk = Read(d, FALSE).value.chunk]
    <3>1. v \in Value /\ v.encrypt = mine[d].encrypt
      BY <2>1, ReadType DEF TypeOK, Value
    <3>2. Save(d, v)
      BY <2>4 DEF Prompt
    <3> HIDE DEF v
    <3>3. mine'[e].encrypt = mine[e].encrypt
      BY <2>1, <3>1, <3>2, SaveType DEF TypeOK
    <3>4. QED
      BY <3>3
  <2>5. ASSUME NEW d \in Device, Repair(d) PROVE FALSE
    BY <2>5 DEF Repair, Managed
  <2>6. CASE Next
    <3>1. PICK d \in Device :
            \/ Handshake(d) \/ UseRemote(d) \/ UseMine(d) \/ Dismiss(d) \/ Repair(d) \/ AlignToRemote(d)
            \/ Flows(d) \/ Edit(d) \/ Expire(d) \/ Kill(d)
            \/ \E f \in Flow : Unreached(d, f) \/ Throw(d, f)
      BY <2>6 DEF Next
    <3>2. CASE Choosing
      BY <2>1, <3>2
    <3>3. CASE Repair(d) \/ Check(d) \/ Prompt(d)
      BY <2>3, <2>4, <2>5, <3>3
    <3>4. QED
      BY <3>1, <3>2, <3>3 DEF Handshake, UseRemote, UseMine, Dismiss, AlignToRemote, Flows, Register,
         FetchLocal, OverwriteRemote, Edit, Expire, Kill, Unreached, Throw
  <2>7. QED
    BY <1>1, <2>6 DEF vars
<1>2. QED
  BY <1>1, InitInv, StepInv, PTL DEF Spec, EncryptionNeedsConsent
=============================================================================
