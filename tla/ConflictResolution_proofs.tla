---------------------- MODULE ConflictResolution_proofs ----------------------
(***************************************************************************)
(* Proofs about ConflictResolution, for any devices, any revisions they    *)
(* start with, any width of the comparison window and any of the bounds.   *)
(***************************************************************************)
EXTENDS ConflictResolution, FiniteSetTheorems, SequenceTheorems, TLAPS

USE DEF file, lost

-----------------------------------------------------------------------------
(* Finite sets of revisions. *)

TotalOn(R, S) ==
    /\ \A x, y \in S : <<x, y>> \in R \/ <<y, x>> \in R
    /\ \A x, y, z \in S : <<x, y>> \in R /\ <<y, z>> \in R => <<x, z>> \in R

\* What is ordered and finite has a greatest element.
LEMMA FiniteHasTop ==
    ASSUME NEW S, NEW R, IsFiniteSet(S), S # {}, TotalOn(R, S)
    PROVE  \E m \in S : \A x \in S : <<x, m>> \in R
<1> DEFINE Bad == {T \in FiniteSubsetsOf(S) : T # {} /\ ~\E m \in T : \A x \in T : <<x, m>> \in R}
<1>1. SUFFICES ASSUME Bad # {} PROVE FALSE
  <2>1. S \in FiniteSubsetsOf(S)
    BY DEF FiniteSubsetsOf
  <2> QED BY <2>1
<1>2. PICK M \in Bad : \A T \in Bad : <<T, M>> \notin StrictSubsetOrdering(S)
  <2>1. Bad \subseteq FiniteSubsetsOf(S)
    OBVIOUS
  <2>2. IsWellFoundedOn(StrictSubsetOrdering(S), FiniteSubsetsOf(S))
    BY FS_StrictSubsetOrderingWellFounded
  <2> QED BY <1>1, <2>1, <2>2, WFMin, Zenon
<1>3. M \subseteq S /\ IsFiniteSet(M) /\ M # {} /\ ~\E m \in M : \A x \in M : <<x, m>> \in R
  BY DEF FiniteSubsetsOf
<1>4. PICK y \in M : TRUE
  BY <1>3
<1>5. M \ {y} \in FiniteSubsetsOf(S)
  BY <1>3, FS_RemoveElement DEF FiniteSubsetsOf
<1>6. M \ {y} \notin Bad
  BY <1>2, <1>3, <1>4, <1>5 DEF StrictSubsetOrdering, FiniteSubsetsOf
<1>7. CASE M \ {y} = {}
  <2>1. M = {y}
    BY <1>4, <1>7
  <2> QED BY <1>3, <2>1 DEF TotalOn
<1>8. CASE M \ {y} # {}
  <2>1. PICK m \in M \ {y} : \A x \in M \ {y} : <<x, m>> \in R
    BY <1>5, <1>6, <1>8
  <2>2. CASE <<y, m>> \in R
    BY <1>3, <2>1, <2>2
  <2>3. CASE <<m, y>> \in R
    <3>1. <<y, y>> \in R
      BY <1>3 DEF TotalOn
    <3>2. \A x \in M : <<x, y>> \in R
      BY <1>3, <2>1, <2>3, <3>1 DEF TotalOn
    <3> QED BY <1>3, <3>2
  <2> QED BY <1>3, <2>1, <2>2, <2>3 DEF TotalOn
<1> QED BY <1>7, <1>8

\* More than one, and exactly one.
LEMMA SizeFacts ==
    ASSUME NEW S, IsFiniteSet(S)
    PROVE  /\ Cardinality(S) > 1 <=> \E x, y \in S : x # y
           /\ Cardinality(S) = 1 <=> \E x : S = {x}
           /\ Cardinality(S) \in Nat
<1>1. Cardinality(S) \in Nat
  BY FS_CardinalityType
<1>2. Cardinality(S) = 1 <=> \E x : S = {x}
  BY FS_Singleton
<1>3. Cardinality(S) = 0 <=> S = {}
  BY FS_EmptySet
<1>4. (\E x, y \in S : x # y) <=> S # {} /\ ~\E x : S = {x}
  OBVIOUS
<1>5. Cardinality(S) > 1 <=> Cardinality(S) # 0 /\ Cardinality(S) # 1
  BY <1>1
<1> QED BY <1>1, <1>2, <1>3, <1>4, <1>5

LEMMA WindowPositive == Resolution \in Nat /\ Resolution > 0
BY ConflictAssumption

LEMMA DivMonotone ==
    ASSUME NEW a \in Nat, NEW b \in Nat, a <= b
    PROVE  a \div Resolution <= b \div Resolution /\ a \div Resolution \in Nat
<1>1. Resolution \in Nat /\ Resolution > 0
  BY WindowPositive
<1> QED BY <1>1

-----------------------------------------------------------------------------
(* The invariant. *)

Steps == {"idle", "asking", "recheck", "store", "list", "delete", "count", "write"}
Ways == {"none", "left", "right", "concat", "sensible", "same", "newer", "choice", "newest", "discard"}
Job == [pc : Steps, left : Nat, right : Nat, doomed : Seq(Nat), how : Ways]

TreeType ==
    /\ setup \in Setups /\ info \in Seq(RevisionRecord)
    /\ known \in [Device -> SUBSET DOMAIN info] /\ dead \in [Device -> SUBSET DOMAIN info]
    /\ vault \in [Device -> Nat]
    /\ \A d \in Device : dead[d] \subseteq known[d] /\ known[d] # {} /\ vault[d] \in known[d] \cup {0}
    /\ unreflected \in [Device -> BOOLEAN] /\ queued \in [Device -> BOOLEAN] /\ postponed \in [Device -> BOOLEAN]
    /\ job \in [Device -> [Worker -> Job]]
    /\ givenUp \subseteq Nat /\ overwritten \subseteq Nat
    /\ backdated \in BOOLEAN /\ unwritten \in [Device -> BOOLEAN]

\* What a program works on are revisions its device knows (k); s: the setup.
JobKnows(w, j, k, s) ==
    /\ j.pc \in {"delete", "count", "write"} => j.doomed \in Seq(k) \ {<<>>}
    /\ j.pc \in {"asking", "recheck", "store"} => /\ w = "queue" /\ j.left # j.right
                                                  /\ j.left \in k /\ j.right \in k
    /\ j.pc = "list" => w = "newest" /\ j.left \in k
    /\ w = "newest" => "newest" \in s.commands \/ j.pc = "idle"
    /\ w = "discard" => "discard" \in s.commands \/ j.pc = "idle"
    /\ j.pc \in {"asking", "recheck"} => s.policy = "manual"
    /\ w # "queue" /\ j.pc \in {"delete", "count", "write"} => j.how \in {"newest", "discard"}
    /\ j.pc = "store" => j.how \in {"sensible", "concat"}

JobsKnow == \A d \in Device : \A w \in Worker : JobKnows(w, job[d][w], known[d], setup)

\* The queue compares and deletes what it can read.
JobReads(j, unreadable) ==
    /\ j.pc \in {"asking", "recheck", "store"} => j.left \notin unreadable /\ j.right \notin unreadable
    /\ j.pc = "delete" => Head(j.doomed) \notin unreadable

JobsRead == \A d \in Device : JobReads(job[d]["queue"], Unreadable)

\* The order in which revisions outlive each other: the later window, then the
\* longer branch and the greater identifier.
Over(s, r) ==
    \/ Class(s) > Class(r)
    \/ Class(s) = Class(r) /\ Above(s, r)

\* Undisturbed, the text that is stored will replace the winner it was made from, and
\* what is to be deleted is a leaf.
JobsHold ==
    Alone => \A d \in Device :
        LET j == job[d]["queue"] IN
        /\ j.pc = "store" => j.left = Winner(d) /\ j.right \in Leaves(d)
        /\ j.pc = "delete" => Head(j.doomed) \in Leaves(d)

TreeInv == TreeType /\ JobsKnow /\ JobsRead /\ JobsHold

Lossless == {"same", "sensible", "concat"}

\* What a dead revision held is given up, overwritten, or held by one that outlives it.
VersionsMove ==
    ~backdated => \A d \in Device : \A r \in dead[d] : \A v \in info[r].from :
        v \in givenUp \cup overwritten \/ \E s \in known[d] : Over(s, r) /\ v \in info[s].from

\* What is deleted as a copy or after a merge is in a revision that outlives it.
JobsKeep ==
    ~backdated => \A d \in Device :
        LET j == job[d]["queue"]  r == Head(j.doomed) IN
        j.pc = "delete" /\ j.how \in Lossless =>
             r \in dead[d] \/ \E s \in known[d] : Over(s, r) /\ info[r].from \subseteq info[s].from

\* Where nothing disturbs, a text is never stored over a version it was made without.
MergesKnow == Alone => overwritten = {}

KeepInv == VersionsMove /\ JobsKeep /\ MergesKnow

\* Nobody chooses: the queue alone deletes, by the policy, and clocks went forward.
ByPolicy == setup.commands = {} /\ ~Manual /\ ~backdated

RevisionsMove ==
    ByPolicy => \A d \in Device : \A r \in dead[d] : \E s \in known[d] : Over(s, r)

JobsSpare ==
    ByPolicy => \A d \in Device :
        LET j == job[d]["queue"] IN
        j.pc = "delete" => Head(j.doomed) \in dead[d] \/ \E s \in known[d] : Over(s, Head(j.doomed))

SpareInv == RevisionsMove /\ JobsSpare

\* Some program of the device is about to write, or to miss the write that is due.
Awaited(d) ==
    \/ \E w \in Worker : job[d][w].pc \in {"count", "write"}
    \/ LET j == job[d]["queue"] IN
       j.pc = "delete" /\ j.how \in {"sensible", "concat"} /\ Head(j.doomed) \notin Leaves(d)

\* A file that does not show the only leaf is about to be written, or a write failed.
VaultFollows ==
    \A d \in Device : Cardinality(Leaves(d)) = 1 =>
        vault[d] \in Leaves(d) \/ unreflected[d] \/ unwritten[d] \/ Awaited(d)

\* Nothing can go wrong with a write.
Sure == Alone /\ ~setup.restarts /\ "write" \notin setup.faults /\ Unreadable = {}

WritesHappen == Sure => \A d \in Device : ~unwritten[d]

ShowInv == VaultFollows /\ WritesHappen

-----------------------------------------------------------------------------
(* The order of revisions, for any book of revisions. *)

AboveIn(inf, r, s) == inf[r].gen > inf[s].gen \/ (inf[r].gen = inf[s].gen /\ r > s)
TopIn(inf, L) == CHOOSE r \in L : \A s \in L \ {r} : AboveIn(inf, r, s)
Numbered(inf, L) == L \subseteq Nat /\ \A r \in L : inf[r].gen \in Nat

LEMMA TopExists ==
    ASSUME NEW inf, NEW L, Numbered(inf, L), IsFiniteSet(L), L # {}
    PROVE  TopIn(inf, L) \in L /\ \A s \in L \ {TopIn(inf, L)} : AboveIn(inf, TopIn(inf, L), s)
<1> DEFINE R == {p \in L \X L : p[1] = p[2] \/ AboveIn(inf, p[2], p[1])}
<1>1. TotalOn(R, L)
  <2>1. \A x, y \in L : <<x, y>> \in R <=> x = y \/ AboveIn(inf, y, x)
    OBVIOUS
  <2>2. \A x, y \in L : x = y \/ AboveIn(inf, y, x) \/ AboveIn(inf, x, y)
    BY DEF AboveIn, Numbered
  <2>3. \A x, y, z \in L : AboveIn(inf, y, x) /\ AboveIn(inf, z, y) => AboveIn(inf, z, x)
    BY DEF AboveIn, Numbered
  <2> HIDE DEF R
  <2> QED BY <2>1, <2>2, <2>3 DEF TotalOn
<1>2. PICK m \in L : \A x \in L : <<x, m>> \in R
  <2> HIDE DEF R
  <2> QED BY <1>1, FiniteHasTop
<1>3. \A s \in L \ {m} : AboveIn(inf, m, s)
  BY <1>2
<1> QED BY <1>3 DEF TopIn

LEMMA TopUnique ==
    ASSUME NEW inf, NEW L, Numbered(inf, L), NEW w \in L, \A s \in L \ {w} : AboveIn(inf, w, s)
    PROVE  TopIn(inf, L) = w
<1>1. TopIn(inf, L) \in L /\ \A s \in L \ {TopIn(inf, L)} : AboveIn(inf, TopIn(inf, L), s)
  BY DEF TopIn
<1>2. SUFFICES ASSUME TopIn(inf, L) # w PROVE FALSE
  OBVIOUS
<1>3. AboveIn(inf, TopIn(inf, L), w) /\ AboveIn(inf, w, TopIn(inf, L))
  BY <1>1, <1>2
<1>4. PICK t \in L : t # w /\ AboveIn(inf, t, w) /\ AboveIn(inf, w, t)
  BY <1>1, <1>2, <1>3
<1>5. t \in Nat /\ w \in Nat /\ inf[t].gen \in Nat /\ inf[w].gen \in Nat
  BY DEF Numbered
<1> QED BY <1>4, <1>5 DEF AboveIn

-----------------------------------------------------------------------------
(* The tree of a device. *)

LEMMA InfoFacts ==
    ASSUME TreeType
    PROVE  /\ DOMAIN info = 1 .. Len(info) /\ Len(info) \in Nat /\ IsFiniteSet(DOMAIN info)
           /\ \A r \in DOMAIN info : /\ r \in Nat \ {0} /\ info[r] \in RevisionRecord
                                     /\ info[r].gen \in Nat /\ info[r].mtime \in Nat /\ info[r].from \subseteq Nat
<1>1. info \in Seq(RevisionRecord)
  BY DEF TreeType
<1>2. DOMAIN info = 1 .. Len(info) /\ Len(info) \in Nat /\ \A r \in DOMAIN info : info[r] \in RevisionRecord
  BY <1>1
<1>3. IsFiniteSet(DOMAIN info)
  BY <1>2, FS_Interval
<1> QED BY <1>2, <1>3 DEF RevisionRecord

LEMMA LeavesFacts ==
    ASSUME TreeType, NEW d \in Device
    PROVE  /\ Leaves(d) \subseteq known[d] /\ known[d] \subseteq DOMAIN info /\ dead[d] \subseteq known[d]
           /\ IsFiniteSet(Leaves(d)) /\ Numbered(info, Leaves(d)) /\ IsFiniteSet(known[d])
<1>1. known[d] \subseteq DOMAIN info /\ Leaves(d) \subseteq known[d] /\ dead[d] \subseteq known[d]
  BY DEF TreeType, Leaves
<1> QED BY <1>1, InfoFacts, FS_Subset DEF Numbered

LEMMA WinnerIsTop == ASSUME NEW d PROVE Winner(d) = TopIn(info, Leaves(d))
BY DEF Winner, Above, TopIn, AboveIn

LEMMA WinnerPrimedIsTop == ASSUME NEW d PROVE Winner(d)' = TopIn(info', Leaves(d)')
BY DEF Winner, Above, TopIn, AboveIn

LEMMA WinnerFacts ==
    ASSUME TreeType, NEW d \in Device, Leaves(d) # {}
    PROVE  /\ Winner(d) \in Leaves(d) /\ Winner(d) \in known[d]
           /\ \A s \in Leaves(d) \ {Winner(d)} : Above(Winner(d), s)
<1>1. /\ TopIn(info, Leaves(d)) \in Leaves(d)
      /\ \A s \in Leaves(d) \ {TopIn(info, Leaves(d))} : AboveIn(info, TopIn(info, Leaves(d)), s)
  BY LeavesFacts, TopExists
<1> QED BY <1>1, WinnerIsTop, LeavesFacts DEF Above, AboveIn

\* The winner stays while the leaves and what is written of them do.
LEMMA WinnerStays ==
    ASSUME TreeType, NEW d \in Device, Leaves(d) # {}, Leaves(d)' = Leaves(d),
           \A r \in DOMAIN info : info'[r] = info[r]
    PROVE  Winner(d)' = Winner(d)
<1>1. /\ Winner(d) \in Leaves(d) /\ \A s \in Leaves(d) \ {Winner(d)} : AboveIn(info, Winner(d), s)
  BY WinnerFacts DEF Above, AboveIn
<1>2. Numbered(info, Leaves(d)) /\ \A r \in Leaves(d) : info'[r] = info[r]
  BY LeavesFacts
<1>3. Numbered(info', Leaves(d)) /\ \A s \in Leaves(d) \ {Winner(d)} : AboveIn(info', Winner(d), s)
  BY <1>1, <1>2 DEF Numbered, AboveIn
<1>4. TopIn(info', Leaves(d)) = Winner(d)
  BY <1>1, <1>3, TopUnique
<1> QED BY <1>4, WinnerPrimedIsTop

LEMMA ConflictedFacts ==
    ASSUME TreeType, NEW d \in Device
    PROVE  /\ Conflicted(d) <=> \E x, y \in Leaves(d) : x # y
           /\ Cardinality(Leaves(d)) = 1 <=> \E x : Leaves(d) = {x}
BY LeavesFacts, SizeFacts DEF Conflicted

LEMMA RivalFacts ==
    ASSUME TreeType, NEW d \in Device, Conflicted(d)
    PROVE  /\ Winner(d) \in Leaves(d) /\ Rival(d) \in Leaves(d) /\ Rival(d) # Winner(d)
           /\ Above(Winner(d), Rival(d)) /\ {Winner(d), Rival(d)} \subseteq known[d]
<1> DEFINE L == Leaves(d) \ {Winner(d)}
           R == {p \in L \X L : p[1] = p[2] \/ Before(p[2], p[1])}
<1>1. Leaves(d) # {} /\ L # {}
  BY ConflictedFacts
<1>2. Winner(d) \in Leaves(d) /\ \A s \in L : Above(Winner(d), s)
  BY <1>1, WinnerFacts
<1>3. IsFiniteSet(L) /\ L \subseteq DOMAIN info
  BY LeavesFacts, FS_Subset
<1>4. \A r \in L : r \in Nat /\ info[r].gen \in Nat /\ info[r].mtime \in Nat
  BY <1>3, InfoFacts
<1>5. TotalOn(R, L)
  <2>1. \A x, y \in L : <<x, y>> \in R <=> x = y \/ Before(y, x)
    OBVIOUS
  <2>2. \A x, y \in L : x = y \/ Before(y, x) \/ Before(x, y)
    BY <1>4 DEF Before
  <2>3. \A x, y, z \in L : Before(y, x) /\ Before(z, y) => Before(z, x)
    BY <1>4 DEF Before
  <2> HIDE DEF R, L
  <2> QED BY <2>1, <2>2, <2>3 DEF TotalOn
<1>6. PICK m \in L : \A x \in L : <<x, m>> \in R
  <2> HIDE DEF R, L
  <2> QED BY <1>1, <1>3, <1>5, FiniteHasTop
<1>7. m \in L /\ \A s \in L \ {m} : Before(m, s)
  BY <1>6
<1>8. Rival(d) = CHOOSE r \in L : \A s \in L \ {r} : Before(r, s)
  BY DEF Rival
<1> HIDE DEF R, L
<1>9. Rival(d) \in L
  BY <1>7, <1>8
<1> USE DEF L
<1>10. Rival(d) \in Leaves(d) /\ Rival(d) # Winner(d)
  BY <1>9
<1> HIDE DEF L
<1> QED BY <1>2, <1>9, <1>10, LeavesFacts
-----------------------------------------------------------------------------
(* What is written. *)

LEMMA LatestFacts ==
    ASSUME TreeType, NEW d \in Device
    PROVE  Latest \in Nat /\ \A r \in DOMAIN info : info[r].mtime <= Latest
<1> DEFINE T == {info[r].mtime : r \in DOMAIN info}
           R == {p \in T \X T : p[1] <= p[2]}
<1>1. T \subseteq Nat /\ IsFiniteSet(T)
  <2>1. IsFiniteSet(DOMAIN info) /\ \A r \in DOMAIN info : info[r].mtime \in Nat
    BY InfoFacts
  <2>2. IsFiniteSet({info[r].mtime : r \in DOMAIN info})
    <3> DEFINE f == [r \in DOMAIN info |-> info[r].mtime]
    <3>1. f \in Surjection(DOMAIN info, {info[r].mtime : r \in DOMAIN info})
      BY DEF Surjection
    <3> QED BY <2>1, <3>1, FS_Surjection
  <2> QED BY <2>1, <2>2
<1>2. T # {}
  <2>1. PICK r \in known[d] : r \in DOMAIN info
    BY LeavesFacts DEF TreeType
  <2> QED BY <2>1
<1>3. TotalOn(R, T)
  <2>1. \A x, y \in T : <<x, y>> \in R <=> x <= y
    OBVIOUS
  <2> HIDE DEF R, T
  <2> QED BY <1>1, <2>1 DEF TotalOn
<1>4. PICK m \in T : \A x \in T : <<x, m>> \in R
  <2> HIDE DEF R, T
  <2> QED BY <1>1, <1>2, <1>3, FiniteHasTop
<1>5. m \in T /\ \A x \in T : x <= m
  BY <1>4
<1>6. Latest = CHOOSE t \in T : \A u \in T : u <= t
  BY DEF Latest
<1>7. Latest \in T /\ \A u \in T : u <= Latest
  <2> HIDE DEF T
  <2> QED BY <1>5, <1>6
<1> QED BY <1>1, <1>7

\* What is known and written only grows.
Grows ==
    /\ setup' = setup
    /\ DOMAIN info \subseteq DOMAIN info' /\ \A r \in DOMAIN info : info'[r] = info[r]
    /\ \A e \in Device : known[e] \subseteq known'[e] /\ dead[e] \subseteq dead'[e]
    /\ givenUp \subseteq givenUp' /\ overwritten \subseteq overwritten' /\ (backdated => backdated')

\* The book of revisions after one more was written.
LEMMA PutFacts ==
    ASSUME TreeType, NEW d \in Device, NEW parent \in known[d] \cup {0}, NEW from \in SUBSET Nat,
           NEW replaced, Put(d, parent, from, replaced), setup' = setup, givenUp' = givenUp,
           overwritten \subseteq overwritten'
    PROVE  LET n == Len(info) + 1 IN
           /\ info' \in Seq(RevisionRecord) /\ DOMAIN info' = DOMAIN info \cup {n} /\ n \notin DOMAIN info
           /\ n \in Nat \ {0}
           /\ known' \in [Device -> SUBSET DOMAIN info'] /\ dead' \in [Device -> SUBSET DOMAIN info']
           /\ \A e \in Device : dead'[e] \subseteq known'[e] /\ known'[e] # {}
           /\ \A r \in DOMAIN info : info'[r] = info[r]
           /\ info'[n].from = from
           /\ parent # 0 => info'[n].gen = info[parent].gen + 1
           /\ info'[n].mtime \in Nat /\ backdated' \in BOOLEAN
           /\ ~backdated' => \A r \in replaced : ~(info'[n].mtime \div Resolution < Class(r))
           /\ known'[d] = known[d] \cup {n} /\ dead'[d] = dead[d] \cup ({parent} \ {0})
           /\ \A e \in Device \ {d} : known'[e] = known[e] /\ dead'[e] = dead[e]
           /\ Grows
<1> DEFINE n == Len(info) + 1
           gen == IF parent = 0 THEN 1 ELSE info[parent].gen + 1
           time == IF d \in setup.behind THEN 0 ELSE Latest + 1
           rec == [gen |-> gen, mtime |-> time, from |-> from]
<1>1. info' = Append(info, rec) /\ known' = [known EXCEPT ![d] = @ \cup {n}]
      /\ dead' = [dead EXCEPT ![d] = @ \cup ({parent} \ {0})]
  BY DEF Put
<1>2. /\ DOMAIN info = 1 .. Len(info) /\ Len(info) \in Nat /\ info \in Seq(RevisionRecord)
      /\ \A r \in DOMAIN info : info[r].gen \in Nat /\ info[r].mtime \in Nat
  BY InfoFacts DEF TreeType
<1>3. Latest \in Nat /\ \A r \in DOMAIN info : info[r].mtime <= Latest
  BY LatestFacts
<1>4. known[d] \subseteq DOMAIN info /\ dead[d] \subseteq known[d]
  BY LeavesFacts
<1>5. gen \in Nat /\ time \in Nat
  BY <1>2, <1>3, <1>4
<1>6. rec \in RevisionRecord /\ rec.from = from /\ rec.gen = gen /\ rec.mtime = time
  BY <1>5 DEF RevisionRecord
<1>7. backdated' = (backdated \/ \E r \in replaced : time \div Resolution < Class(r))
  BY DEF Put
<1>8. parent # 0 => gen = info[parent].gen + 1
  OBVIOUS
<1> HIDE DEF rec, gen, time
<1>9. /\ info' \in Seq(RevisionRecord) /\ Len(info') = Len(info) + 1 /\ DOMAIN info' = 1 .. Len(info')
      /\ \A r \in 1 .. Len(info) : info'[r] = info[r]
      /\ info'[n] = rec
  BY <1>1, <1>2, <1>6
<1>10. DOMAIN info' = DOMAIN info \cup {n} /\ n \notin DOMAIN info /\ n \in Nat \ {0}
  BY <1>2, <1>9
<1>11. \A r \in DOMAIN info : info'[r] = info[r]
  BY <1>2, <1>9
<1> HIDE DEF n
<1>12. /\ known \in [Device -> SUBSET DOMAIN info] /\ dead \in [Device -> SUBSET DOMAIN info]
       /\ \A e \in Device : dead[e] \subseteq known[e] /\ known[e] # {}
  BY DEF TreeType
<1>13. /\ known'[d] = known[d] \cup {n} /\ dead'[d] = dead[d] \cup ({parent} \ {0})
       /\ \A e \in Device \ {d} : known'[e] = known[e] /\ dead'[e] = dead[e]
  BY <1>1, <1>12
<1>14. \A e \in Device : known'[e] \subseteq DOMAIN info' /\ dead'[e] \subseteq known'[e] /\ known'[e] # {}
  BY <1>4, <1>10, <1>12, <1>13
<1>15. known' \in [Device -> SUBSET DOMAIN info'] /\ dead' \in [Device -> SUBSET DOMAIN info']
  <2>1. \A e \in Device : dead'[e] \subseteq DOMAIN info'
    BY <1>14
  <2>2. DOMAIN known' = Device /\ DOMAIN dead' = Device
    BY <1>1, <1>12
  <2>3. known' = [e \in Device |-> known'[e]] /\ dead' = [e \in Device |-> dead'[e]]
    BY <1>1, <1>12, <2>2
  <2> QED BY <1>14, <2>1, <2>3
<1>16. Grows
  BY <1>7, <1>10, <1>11, <1>12, <1>13 DEF Grows, TreeType
<1> USE DEF n
<1> QED BY <1>5, <1>6, <1>7, <1>8, <1>9, <1>10, <1>11, <1>13, <1>14, <1>15, <1>16

-----------------------------------------------------------------------------
(* What the programs do. *)

LEMMA JobSet ==
    ASSUME job \in [Device -> [Worker -> Job]], NEW d \in Device, NEW w \in Worker, NEW j \in Job,
           job' = [job EXCEPT ![d][w] = j]
    PROVE  /\ job' \in [Device -> [Worker -> Job]]
           /\ job'[d][w] = j
           /\ \A e \in Device, u \in Worker : e # d \/ u # w => job'[e][u] = job[e][u]
<1>1. job[d] \in [Worker -> Job] /\ [job[d] EXCEPT ![w] = j] \in [Worker -> Job]
  OBVIOUS
<1>2. job' = [job EXCEPT ![d] = [job[d] EXCEPT ![w] = j]]
  OBVIOUS
<1> QED BY <1>1, <1>2

LEMMA IdleFacts ==
    /\ Idle \in Job /\ Idle.pc = "idle"
    /\ \A w \in Worker : \A k, s : JobKnows(w, Idle, k, s)
    /\ \A unreadable : JobReads(Idle, unreadable)
<1>1. <<>> \in Seq(Nat)
  OBVIOUS
<1>2. Idle \in Job /\ Idle.pc = "idle"
  BY <1>1 DEF Idle, Job, Steps, Ways
<1> QED BY <1>2 DEF JobKnows, JobReads

LEMMA JobFacts ==
    ASSUME TreeType, NEW d \in Device, NEW w \in Worker
    PROVE  /\ job[d][w] \in Job /\ job[d][w].pc \in Steps /\ job[d][w].how \in Ways
           /\ job[d][w].left \in Nat /\ job[d][w].right \in Nat /\ job[d][w].doomed \in Seq(Nat)
<1>1. job[d][w] \in Job
  BY DEF TreeType
<1> QED BY <1>1 DEF Job

LEMMA KnowsGrow ==
    ASSUME NEW w, NEW j, NEW k, NEW k2, NEW s, k \subseteq k2, JobKnows(w, j, k, s)
    PROVE  JobKnows(w, j, k2, s)
BY DEF JobKnows
-----------------------------------------------------------------------------
(* The types, step by step. *)

Flags == unreflected \in [Device -> BOOLEAN] /\ queued \in [Device -> BOOLEAN] /\ postponed \in [Device -> BOOLEAN]
Shows == /\ vault \in [Device -> Nat] /\ unwritten \in [Device -> BOOLEAN]
         /\ \A e \in Device : vault[e] \in known[e] \cup {0}
Programs == job \in [Device -> [Worker -> Job]]
Still == UNCHANGED <<info, known, dead, lost>>

LEMMA StillType ==
    ASSUME TreeType, setup' = setup, Still, Flags', Shows', Programs'
    PROVE  TreeType' /\ Grows
<1>1. Device' = Device
  BY DEF Device
<1> QED BY <1>1 DEF TreeType, Grows, Still, Flags, Shows, Programs

\* The tree is written to.
LEMMA PutType ==
    ASSUME TreeType, NEW d \in Device, NEW parent \in known[d] \cup {0}, NEW from \in SUBSET Nat,
           NEW replaced, Put(d, parent, from, replaced), setup' = setup, givenUp' = givenUp,
           overwritten \subseteq overwritten', overwritten' \subseteq Nat, Flags', Programs', Shows'
    PROVE  TreeType' /\ Grows
<1>1. /\ info' \in Seq(RevisionRecord)
      /\ known' \in [Device -> SUBSET DOMAIN info'] /\ dead' \in [Device -> SUBSET DOMAIN info']
      /\ \A e \in Device : dead'[e] \subseteq known'[e] /\ known'[e] # {}
      /\ backdated' \in BOOLEAN /\ Grows
  BY PutFacts
<1>2. Device' = Device
  BY DEF Device
<1> QED BY <1>1, <1>2 DEF TreeType, Flags, Programs, Shows

LEMMA QueueType ==
    ASSUME TreeType, JobsKnow, NEW d \in Device, QueueStep(d), setup' = setup
    PROVE  TreeType' /\ Grows
<1> DEFINE j == job[d]["queue"]
<1>1. Flags /\ Shows /\ Programs /\ "queue" \in Worker /\ Device' = Device
  BY DEF Device, TreeType, Flags, Shows, Programs, Worker
<1>2. j \in Job /\ j.left \in Nat /\ j.right \in Nat /\ j.doomed \in Seq(Nat) /\ j.how \in Ways /\ j.pc \in Steps
  BY <1>1, JobFacts
<1>3. Conflicted(d) => Winner(d) \in Nat /\ Rival(d) \in Nat
  BY RivalFacts, LeavesFacts, InfoFacts
<1>4. Take(d) => queued' \in [Device -> BOOLEAN]
  BY <1>1 DEF Take, Flags
<1>5. \A k \in Job : QueueBecomes(d, k) => Programs'
  BY <1>1, JobSet DEF QueueBecomes, Programs
<1>6. CASE NotConflicted(d)
  <2>1. Flags'
    BY <1>1, <1>4, <1>6 DEF NotConflicted, Flags
  <2> QED BY <1>1, <1>6, <2>1, StillType DEF NotConflicted, Still, Shows, Programs
<1>7. CASE LeaveUnreadable(d) \/ LeaveUntilOpened(d)
  <2>1. Flags'
    BY <1>1, <1>4, <1>7 DEF LeaveUnreadable, LeaveUntilOpened, Flags
  <2> QED BY <1>1, <1>7, <2>1, StillType DEF LeaveUnreadable, LeaveUntilOpened, Still, Shows, Programs
<1>8. CASE MergeSensibly(d)
  <2>1. Flags' /\ Shows' /\ Still
    BY <1>1, <1>4, <1>8 DEF MergeSensibly, Flags, Shows, Still
  <2>2. [pc |-> "store", left |-> Winner(d), right |-> Rival(d), doomed |-> <<>>, how |-> "sensible"] \in Job
    BY <1>3, <1>8 DEF MergeSensibly, Readable, Job, Steps, Ways
  <2>3. Programs'
    BY <1>5, <1>8, <2>2 DEF MergeSensibly
  <2> QED BY <2>1, <2>3, StillType
<1>9. CASE DropOlder(d)
  <2>1. Flags' /\ Shows' /\ Still
    BY <1>1, <1>4, <1>9 DEF DropOlder, Flags, Shows, Still
  <2>2. Winner(d) \in Nat /\ Rival(d) \in Nat /\ Loser(Winner(d), Rival(d)) \in Nat
    BY <1>3, <1>9 DEF DropOlder, Readable, Loser
  <2>3. <<Loser(Winner(d), Rival(d))>> \in Seq(Nat)
    BY <2>2
  <2>4. [pc |-> "delete", left |-> Winner(d), right |-> Rival(d),
         doomed |-> <<Loser(Winner(d), Rival(d))>>, how |-> IF Same(d) THEN "same" ELSE "newer"] \in Job
    BY <2>2, <2>3 DEF Job, Steps, Ways
  <2>5. Programs'
    BY <1>5, <1>9, <2>4 DEF DropOlder
  <2> QED BY <2>1, <2>5, StillType
<1>10. CASE Ask(d)
  <2>1. Flags' /\ Shows' /\ Still
    BY <1>1, <1>4, <1>10 DEF Ask, Flags, Shows, Still
  <2>2. [pc |-> "asking", left |-> Winner(d), right |-> Rival(d), doomed |-> <<>>, how |-> "none"] \in Job
    BY <1>3, <1>10 DEF Ask, Readable, Job, Steps, Ways
  <2>3. Programs'
    BY <1>1, <1>5, <1>10, <2>2 DEF Ask, Programs
  <2> QED BY <2>1, <2>3, StillType
<1>11. CASE Recheck(d)
  <2>1. Flags' /\ Shows' /\ Still
    BY <1>1, <1>11 DEF Recheck, Flags, Shows, Still
  <2>2. [j EXCEPT !.pc = "store"] \in Job
    BY <1>2 DEF Job, Steps
  <2>3. <<IF j.how = "left" THEN j.left ELSE j.right>> \in Seq(Nat)
    BY <1>2
  <2>4. [j EXCEPT !.pc = "delete", !.how = "choice",
                  !.doomed = <<IF j.how = "left" THEN j.left ELSE j.right>>] \in Job
    BY <1>2, <2>3 DEF Job, Steps, Ways
  <2>5. Programs'
    BY <1>5, <1>11, <2>2, <2>4 DEF Recheck
  <2> QED BY <2>1, <2>5, StillType
<1>12. CASE DropAnswer(d)
  <2>1. Flags' /\ Shows' /\ Still
    BY <1>1, <1>12 DEF DropAnswer, Flags, Shows, Still
  <2>2. Programs'
    BY <1>5, <1>12, IdleFacts DEF DropAnswer
  <2> QED BY <2>1, <2>2, StillType
<1>13. CASE Store(d)
  <2> DEFINE parent == IF Leaves(d) = {} THEN 0 ELSE Winner(d)
             from == info[j.left].from \cup info[j.right].from
  <2>1. parent \in known[d] \cup {0}
    BY WinnerFacts
  <2>2. j.left \in known[d] /\ j.right \in known[d]
    BY <1>1, <1>13 DEF Store, JobsKnow, JobKnows
  <2>3. from \in SUBSET Nat
    BY <2>2, LeavesFacts, InfoFacts
  <2>4. /\ Put(d, parent, from, {parent, j.right} \cap Leaves(d)) /\ givenUp' = givenUp /\ Flags'
        /\ overwritten' = overwritten \cup IF parent = 0 THEN {} ELSE info[parent].from \ from
    BY <1>1, <1>13 DEF Store, Flags
  <2>5. <<j.right>> \in Seq(Nat)
    BY <1>2
  <2>6. [j EXCEPT !.pc = "delete", !.doomed = <<j.right>>] \in Job
    BY <1>2, <2>5 DEF Job, Steps
  <2>7. Programs'
    BY <1>5, <1>13, <2>6 DEF Store
  <2> DEFINE replaced == {parent, j.right} \cap Leaves(d)
  <2>8. overwritten \subseteq overwritten' /\ overwritten' \subseteq Nat
    <3>1. parent # 0 => parent \in DOMAIN info
      BY <2>1, LeavesFacts
    <3> HIDE DEF parent, from
    <3> QED BY <2>4, <3>1, InfoFacts DEF TreeType
  <2> HIDE DEF parent, from, replaced
  <2>9. vault' = vault /\ unwritten' = unwritten
    BY <1>13 DEF Store
  <2>10. Put(d, parent, from, replaced)
    BY <2>4 DEF replaced
  <2>11. \A e \in Device : known[e] \subseteq known'[e]
    BY <2>1, <2>3, <2>4, <2>8, <2>10, PutFacts DEF Grows
  <2>12. Shows'
    BY <1>1, <2>9, <2>11 DEF Shows
  <2> QED BY <2>1, <2>3, <2>4, <2>7, <2>8, <2>10, <2>12, PutType
<1>14. CASE StoreFails(d)
  <2>1. Flags' /\ Shows' /\ Still
    BY <1>1, <1>14 DEF StoreFails, Flags, Shows, Still
  <2>2. Programs'
    BY <1>5, <1>14, IdleFacts DEF StoreFails
  <2> QED BY <2>1, <2>2, StillType
<1> QED BY <1>6, <1>7, <1>8, <1>9, <1>10, <1>11, <1>12, <1>13, <1>14 DEF QueueStep

LEMMA NextOneFacts ==
    ASSUME NEW w, NEW j \in Job, NEW k \in SUBSET Nat, NEW s, JobKnows(w, j, k, s),
           j.pc \in {"delete", "count", "write"}
    PROVE  Next1(w, j) \in Job /\ (w = "queue" => Next1(w, j) = Idle) /\ JobKnows(w, Next1(w, j), k, s)
<1>1. j.doomed \in Seq(k) /\ j.doomed \in Seq(Nat)
  BY DEF JobKnows, Job
<1>2. CASE w = "newest" /\ Len(j.doomed) > 1
  <2>1. Tail(j.doomed) \in Seq(k) /\ Tail(j.doomed) # <<>> /\ Tail(j.doomed) \in Seq(Nat)
    <3>1. j.doomed # <<>> /\ Len(j.doomed) \in Nat
      BY <1>1, <1>2
    <3>2. Tail(j.doomed) \in Seq(k) /\ Tail(j.doomed) \in Seq(Nat) /\ Len(Tail(j.doomed)) = Len(j.doomed) - 1
      BY <1>1, <3>1
    <3> DEFINE n == Len(j.doomed)
    <3>3. n \in Nat /\ n > 1 /\ Len(Tail(j.doomed)) = n - 1
      BY <1>2, <3>1, <3>2
    <3>4. n - 1 # 0
      <4> HIDE DEF n
      <4> QED BY <3>3
    <3> DEFINE t == Tail(j.doomed)
    <3>5. t # <<>>
      <4> HIDE DEF t
      <4>1. t = <<>> => Len(t) = 0
        OBVIOUS
      <4>2. Len(t) = n - 1
        BY <3>3 DEF t
      <4> HIDE DEF n
      <4> QED BY <3>4, <4>1, <4>2
    <3> QED BY <3>2, <3>5
  <2> DEFINE n == [j EXCEPT !.pc = "delete", !.doomed = Tail(j.doomed)]
  <2>2. n \in Job /\ n.pc = "delete" /\ n.doomed = Tail(j.doomed) /\ n.how = j.how
    BY <2>1 DEF Job, Steps
  <2>3. Next1(w, j) = n
    BY <1>2 DEF Next1
  <2> HIDE DEF n
  <2> QED BY <1>2, <2>1, <2>2, <2>3 DEF JobKnows
<1>3. CASE ~(w = "newest" /\ Len(j.doomed) > 1)
  <2>1. Next1(w, j) = Idle
    BY <1>3 DEF Next1
  <2>2. JobKnows(w, Idle, k, s)
    BY DEF JobKnows, Idle
  <2> QED BY <2>1, <2>2, IdleFacts
<1> QED BY <1>2, <1>3

LEMMA DeletingType ==
    ASSUME TreeType, JobsKnow, NEW d \in Device, NEW w \in Worker, DeletingStep(d, w), setup' = setup
    PROVE  TreeType' /\ Grows
<1> DEFINE j == job[d][w]
<1>1. Flags /\ Shows /\ Programs /\ Device' = Device
  BY DEF Device, TreeType, Flags, Shows, Programs
<1>2. j \in Job /\ j.pc \in Steps
  BY <1>1, JobFacts
<1>3. JobKnows(w, j, known[d], setup) /\ known[d] \in SUBSET Nat
  BY LeavesFacts, InfoFacts DEF JobsKnow
<1>5. j.pc \in {"delete", "count", "write"} => Next1(w, j) \in Job
  BY <1>2, <1>3, NextOneFacts
<1>6. \A k \in Job : job' = [job EXCEPT ![d][w] = k] => Programs'
  BY <1>1, JobSet DEF Programs
<1>7. CASE Delete(d, w)
  <2> DEFINE r == Head(j.doomed)
  <2>1. r \in Leaves(d) /\ dead' = [dead EXCEPT ![d] = @ \cup {r}] /\ UNCHANGED <<info, known, vault, unreflected, queued, overwritten, backdated>>
    BY <1>7 DEF Delete
  <2>2. r \in known[d] /\ info[r].from \subseteq Nat
    BY <2>1, LeavesFacts, InfoFacts
  <2>3. givenUp \subseteq givenUp' /\ givenUp' \subseteq Nat
    BY <1>7, <2>2 DEF Delete, TreeType
  <2>4. Programs'
    <3>1. CASE w = "discard"
      BY <1>6, <1>7, <3>1, IdleFacts DEF Delete
    <3>2. CASE w # "discard"
      <4>1. [j EXCEPT !.pc = "count"] \in Job /\ \A u \in Worker : Cancel(job[d][u]) \in Job
        BY <1>1, <1>2, IdleFacts DEF Programs, Job, Steps, Cancel
      <4>2. job' = [job EXCEPT ![d] = [u \in Worker |->
                         IF u = w THEN [j EXCEPT !.pc = "count"] ELSE Cancel(job[d][u])]]
        BY <1>7, <3>2 DEF Delete
      <4> HIDE DEF j
      <4> QED BY <1>1, <4>1, <4>2 DEF Programs
    <3> QED BY <3>1, <3>2
  <2>5. Flags' /\ unwritten' \in [Device -> BOOLEAN]
    BY <1>1, <1>7 DEF Delete, Refreshed, Flags, Shows
  <2>6. dead' \in [Device -> SUBSET DOMAIN info] /\ \A e \in Device : dead[e] \subseteq dead'[e] /\ dead'[e] \subseteq known[e]
    BY <2>1, <2>2, LeavesFacts DEF TreeType
  <2> HIDE DEF r, j
  <2> QED BY <1>1, <2>1, <2>3, <2>4, <2>5, <2>6 DEF TreeType, Grows, Flags, Programs
<1>8. CASE DeleteFails(d, w)
  <2>1. Flags' /\ Shows' /\ Still /\ Programs'
    BY <1>1, <1>5, <1>6, <1>8 DEF DeleteFails, Flags, Shows, Still
  <2> QED BY <2>1, StillType
<1>9. CASE CountLeft(d, w)
  <2>1. Shows' /\ Still /\ Flags'
    BY <1>1, <1>9 DEF CountLeft, Merged, Flags, Shows, Still
  <2>2. [j EXCEPT !.pc = "write"] \in Job
    BY <1>2 DEF Job, Steps
  <2>3. job' = [job EXCEPT ![d][w] = [j EXCEPT !.pc = "write"]] \/ job' = [job EXCEPT ![d][w] = Next1(w, j)]
    BY <1>9 DEF CountLeft, Merged
  <2>4. Programs'
    BY <1>5, <1>6, <1>9, <2>2, <2>3 DEF CountLeft
  <2> QED BY <2>1, <2>4, StillType
<1>10. CASE Write(d, w)
  <2>1. Still /\ Flags' /\ Programs'
    BY <1>1, <1>5, <1>6, <1>10 DEF Write, Merged, Flags, Still
  <2>2. (IF Leaves(d) = {} THEN 0 ELSE Winner(d)) \in known[d] \cup {0}
    BY WinnerFacts
  <2>3. Shows'
    BY <1>1, <1>3, <1>10, <2>2 DEF Write, Shows
  <2> QED BY <2>1, <2>3, StillType
<1>11. CASE WriteFails(d, w)
  <2>1. Flags' /\ Shows' /\ Still /\ Programs'
    BY <1>1, <1>5, <1>6, <1>11 DEF WriteFails, Flags, Shows, Still
  <2> QED BY <2>1, StillType
<1> QED BY <1>7, <1>8, <1>9, <1>10, <1>11 DEF DeletingStep

LEMMA CommandType ==
    ASSUME TreeType, JobsKnow, NEW d \in Device, CommandStep(d), setup' = setup
    PROVE  TreeType' /\ Grows
<1>1. /\ Flags /\ Shows /\ Programs /\ Device' = Device
      /\ {"newest", "discard"} \subseteq Worker
  BY DEF Device, TreeType, Flags, Shows, Programs, Worker
<1>2. \A w \in Worker, k \in Job : job' = [job EXCEPT ![d][w] = k] => Programs'
  BY <1>1, JobSet DEF Programs
<1>3. known[d] \in SUBSET Nat /\ Leaves(d) \subseteq known[d] /\ IsFiniteSet(Leaves(d))
  BY LeavesFacts, InfoFacts
<1>4. CASE NewestReads(d)
  <2>1. Flags' /\ Shows' /\ Still
    BY <1>1, <1>4 DEF NewestReads, Flags, Shows, Still
  <2>2. Winner(d) \in Nat
    BY <1>3, <1>4, WinnerFacts DEF NewestReads
  <2>3. [Idle EXCEPT !.pc = "list", !.left = Winner(d)] \in Job
    BY <2>2, IdleFacts DEF Job, Steps
  <2>4. Programs'
    BY <1>1, <1>2, <1>4, <2>3 DEF NewestReads
  <2> QED BY <2>1, <2>4, StillType
<1>5. CASE NewestLists(d)
  <2> DEFINE j == job[d]["newest"]
             rivals == IF Leaves(d) = {} THEN {} ELSE Leaves(d) \ {Winner(d)}
  <2>1. Flags' /\ Shows' /\ Still
    BY <1>1, <1>5 DEF NewestLists, Flags, Shows, Still
  <2>2. PICK s \in [1 .. Cardinality(rivals) + 1 -> rivals \cup {j.left}] :
            job' = [job EXCEPT ![d]["newest"] =
                   IF rivals = {} THEN Idle
                   ELSE [j EXCEPT !.pc = "delete", !.doomed = Tail(s), !.how = "newest"]]
    BY <1>5 DEF NewestLists
  <2>3. j \in Job /\ j.left \in Nat /\ Cardinality(rivals) \in Nat /\ rivals \subseteq Nat
    BY <1>1, <1>3, JobFacts, FS_Subset, FS_EmptySet, FS_CardinalityType
  <2>4. s \in Seq(Nat) /\ Len(s) = Cardinality(rivals) + 1
    <3> HIDE DEF rivals, j
    <3>1. rivals \cup {j.left} \subseteq Nat
      BY <2>3
    <3> DEFINE n == Cardinality(rivals) + 1
    <3>2. n \in Nat /\ s \in [1 .. n -> Nat]
      BY <2>3, <3>1
    <3>3. s \in Seq(Nat) /\ Len(s) = n
      <4> HIDE DEF n
      <4> QED BY <3>2
    <3> QED BY <3>3
  <2>5. Tail(s) \in Seq(Nat)
    BY <2>3, <2>4
  <2>6. [j EXCEPT !.pc = "delete", !.doomed = Tail(s), !.how = "newest"] \in Job
    BY <2>3, <2>5 DEF Job, Steps, Ways
  <2>7. Programs'
    BY <1>1, <1>2, <2>2, <2>6, IdleFacts
  <2> QED BY <2>1, <2>7, StillType
<1>6. ASSUME NEW r \in Leaves(d), Inspect(d, r) PROVE TreeType' /\ Grows
  <2>1. Flags' /\ Shows' /\ Still
    BY <1>1, <1>6 DEF Inspect, Flags, Shows, Still
  <2>2. <<r>> \in Seq(Nat)
    BY <1>3
  <2>3. [Idle EXCEPT !.pc = "delete", !.doomed = <<r>>, !.how = "discard"] \in Job
    BY <2>2, IdleFacts DEF Job, Steps, Ways
  <2>4. Programs'
    BY <1>1, <1>2, <1>6, <2>3 DEF Inspect
  <2> QED BY <2>1, <2>4, StillType
<1> QED BY <1>4, <1>5, <1>6 DEF CommandStep

LEMMA UserType ==
    ASSUME TreeType, JobsKnow, NEW d \in Device, UserStep(d), setup' = setup
    PROVE  TreeType' /\ Grows
<1> DEFINE j == job[d]["queue"]
<1>1. Flags /\ Shows /\ Programs /\ Device' = Device /\ "queue" \in Worker
  BY DEF Device, TreeType, Flags, Shows, Programs, Worker
<1>2. j \in Job
  BY <1>1, JobFacts
<1>3. \A k \in Job : QueueBecomes(d, k) => Programs'
  BY <1>1, JobSet DEF QueueBecomes, Programs
<1>4. ASSUME NEW how \in {"left", "right", "concat"}, Answer(d, how) PROVE TreeType' /\ Grows
  <2>1. Flags' /\ Shows' /\ Still
    BY <1>1, <1>4 DEF Answer, Flags, Shows, Still
  <2>2. [j EXCEPT !.pc = "recheck", !.how = how] \in Job
    BY <1>2 DEF Job, Steps, Ways
  <2>3. Programs'
    BY <1>3, <1>4, <2>2 DEF Answer
  <2> QED BY <2>1, <2>3, StillType
<1>5. CASE AnswerLater(d)
  <2>1. Flags' /\ Shows' /\ Still
    BY <1>1, <1>5 DEF AnswerLater, Flags, Shows, Still
  <2>2. Programs'
    BY <1>3, <1>5, IdleFacts DEF AnswerLater
  <2> QED BY <2>1, <2>2, StillType
<1>6. CASE Edit(d)
  <2> DEFINE from == info[vault[d]].from \cup {Len(info) + 1}
  <2>1. vault[d] \in known[d] /\ vault[d] # 0
    BY <1>1, <1>6 DEF Edit, Shows
  <2>2. from \in SUBSET Nat
    BY <2>1, LeavesFacts, InfoFacts
  <2>3. /\ Put(d, vault[d], from, {vault[d]}) /\ givenUp' = givenUp /\ overwritten' = overwritten
        /\ Flags' /\ Programs' /\ overwritten \subseteq overwritten'
    BY <1>1, <1>6 DEF Edit, Flags, Programs
  <2>4. vault' = [vault EXCEPT ![d] = Len(info) + 1] /\ unwritten' = unwritten
    BY <1>6 DEF Edit
  <2> DEFINE replaced == {vault[d]}
             n == Len(info) + 1
  <2> HIDE DEF from, replaced
  <2>7. Put(d, vault[d], from, replaced) /\ vault[d] \in known[d] \cup {0}
    BY <2>1, <2>3 DEF replaced
  <2>8. Grows /\ known'[d] = known[d] \cup {n} /\ n \in Nat \ {0}
    BY <2>2, <2>3, <2>7, PutFacts
  <2>5. /\ \A e \in Device : known[e] \subseteq known'[e]
        /\ n \in known'[d] /\ n \in Nat
    BY <2>8 DEF Grows
  <2>6. Shows' /\ overwritten' \subseteq Nat
    BY <1>1, <2>3, <2>4, <2>5 DEF Shows, TreeType
  <2> QED BY <2>1, <2>2, <2>3, <2>6, PutType
<1>7. CASE OpenFile(d) \/ RequestResolution(d) \/ ShowStatus(d)
  <2>1. Flags' /\ Shows' /\ Still /\ Programs'
    BY <1>1, <1>7 DEF OpenFile, RequestResolution, ShowStatus, Flags, Shows, Still, Programs
  <2> QED BY <2>1, StillType
<1> QED BY <1>4, <1>5, <1>6, <1>7 DEF UserStep

LEMMA OutsideType ==
    ASSUME TreeType, NEW d \in Device, setup' = setup,
           Reflect(d) \/ Restart(d) \/ \E e \in Device \ {d} : Replicate(d, e)
    PROVE  TreeType' /\ Grows
<1>1. Flags /\ Shows /\ Programs /\ Device' = Device /\ "queue" \in Worker
  BY DEF Device, TreeType, Flags, Shows, Programs, Worker
<1>2. CASE Reflect(d)
  <2>1. Flags' /\ Still
    BY <1>1, <1>2 DEF Reflect, Flags, Still
  <2>2. Cancel(job[d]["queue"]) \in Job
    BY <1>1, JobFacts, IdleFacts DEF Cancel
  <2>3. Programs'
    BY <1>1, <1>2, <2>2, JobSet DEF Reflect, QueueBecomes, Programs
  <2>4. Leaves(d) # {} => Winner(d) \in known[d] /\ Winner(d) \in Nat
    BY WinnerFacts, LeavesFacts, InfoFacts
  <2>5. Shows'
    <3>1. CASE Conflicted(d)
      BY <1>1, <1>2, <3>1 DEF Reflect, Shows
    <3>2. CASE ~Conflicted(d)
      <4> DEFINE v == IF Leaves(d) = {} THEN 0
                      ELSE IF Winner(d) \in Unreadable THEN vault[d] ELSE Winner(d)
      <4>1. /\ vault' = [vault EXCEPT ![d] = v] /\ known' = known
            /\ \E b \in BOOLEAN : unwritten' = [unwritten EXCEPT ![d] = b]
        BY <1>2, <3>2 DEF Reflect
      <4>2. v \in known[d] \cup {0} /\ v \in Nat
        BY <1>1, <2>4 DEF Shows
      <4> HIDE DEF v
      <4> QED BY <1>1, <4>1, <4>2 DEF Shows
    <3> QED BY <3>1, <3>2
  <2> QED BY <2>1, <2>3, <2>5, StillType
<1>3. CASE Restart(d)
  <2>1. Flags' /\ Shows' /\ Still
    BY <1>1, <1>3 DEF Restart, Flags, Shows, Still
  <2>2. Programs'
    BY <1>1, <1>3, IdleFacts DEF Restart, Programs
  <2> QED BY <2>1, <2>2, StillType
<1>4. ASSUME NEW e \in Device \ {d}, Replicate(d, e) PROVE TreeType' /\ Grows
  <2>1. /\ known' = [known EXCEPT ![e] = known[e] \cup known[d]]
        /\ dead' = [dead EXCEPT ![e] = dead[e] \cup dead[d]]
        /\ UNCHANGED <<info, file, job, lost>>
    BY <1>4 DEF Replicate
  <2>2. Flags' /\ Programs'
    BY <1>1, <1>4 DEF Replicate, Flags, Programs
  <2>3. \A x \in Device : known[x] \subseteq DOMAIN info /\ dead[x] \subseteq known[x]
    BY LeavesFacts
  <2>4. /\ known' \in [Device -> SUBSET DOMAIN info] /\ dead' \in [Device -> SUBSET DOMAIN info]
        /\ \A x \in Device : dead'[x] \subseteq known'[x] /\ known[x] \subseteq known'[x] /\ dead[x] \subseteq dead'[x]
    BY <2>1, <2>3 DEF TreeType
  <2> QED BY <1>1, <2>1, <2>2, <2>4 DEF TreeType, Grows, Flags, Programs
<1> QED BY <1>2, <1>3, <1>4

LEMMA TypeStep ==
    ASSUME TreeType, JobsKnow, Next
    PROVE  TreeType' /\ Grows
BY QueueType, DeletingType, CommandType, UserType, OutsideType DEF Next
-----------------------------------------------------------------------------
(* What the programs work on, step by step. *)

LEMMA OneLong ==
    ASSUME NEW S, NEW r \in S
    PROVE  <<r>> \in Seq(S) \ {<<>>} /\ Head(<<r>>) = r
<1>1. <<r>> \in Seq(S)
  OBVIOUS
<1>2. Len(<<r>>) = 1 /\ <<r>>[1] = r /\ Len(<<>>) = 0
  OBVIOUS
<1>3. <<r>> # <<>>
  BY <1>2
<1> QED BY <1>1, <1>2, <1>3

Good(w, j, d) == JobKnows(w, j, known[d], setup) /\ (w = "queue" => JobReads(j, Unreadable))

LEMMA GoodNow ==
    ASSUME JobsKnow, JobsRead, NEW d \in Device, NEW w \in Worker
    PROVE  Good(w, job[d][w], d)
BY DEF JobsKnow, JobsRead, Good

LEMMA GoodIdle ==
    ASSUME NEW d, NEW w \in Worker
    PROVE  Good(w, Idle, d)
BY IdleFacts DEF Good

LEMMA JobsAll ==
    ASSUME TreeType, Grows, \A d \in Device, w \in Worker : Good(w, job'[d][w], d)
    PROVE  JobsKnow' /\ JobsRead'
<1>1. Device' = Device /\ Unreadable' = Unreadable /\ setup' = setup /\ \A d \in Device : known[d] \subseteq known'[d]
  BY DEF Grows, Device, Unreadable
<1>2. \A d \in Device, w \in Worker : JobKnows(w, job'[d][w], known'[d], setup)
  BY <1>1, KnowsGrow DEF Good
<1>3. \A d \in Device : JobReads(job'[d]["queue"], Unreadable)
  BY DEF Good, Worker
<1> QED BY <1>1, <1>2, <1>3 DEF JobsKnow, JobsRead

\* One program goes on, or none.
LEMMA JobsOne ==
    ASSUME TreeType, JobsKnow, JobsRead, Grows, NEW d \in Device, NEW w \in Worker, NEW j \in Job,
           job' = [job EXCEPT ![d][w] = j], Good(w, j, d)
    PROVE  JobsKnow' /\ JobsRead'
<1>1. job'[d][w] = j /\ \A e \in Device, u \in Worker : e # d \/ u # w => job'[e][u] = job[e][u]
  BY JobSet DEF TreeType
<1>2. \A e \in Device, u \in Worker : Good(u, job'[e][u], e)
  BY <1>1, GoodNow
<1> QED BY <1>2, JobsAll

LEMMA JobsSame ==
    ASSUME TreeType, JobsKnow, JobsRead, Grows, job' = job
    PROVE  JobsKnow' /\ JobsRead'
<1>1. \A e \in Device, u \in Worker : Good(u, job'[e][u], e)
  BY GoodNow
<1> QED BY <1>1, JobsAll

LEMMA QueueJobs ==
    ASSUME TreeType, JobsKnow, JobsRead, NEW d \in Device, QueueStep(d), Grows
    PROVE  JobsKnow' /\ JobsRead'
<1> DEFINE j == job[d]["queue"]
<1>1. "queue" \in Worker /\ j \in Job /\ j.left \in Nat /\ j.right \in Nat /\ j.how \in Ways
  BY JobFacts DEF Worker
<1>2. Good("queue", j, d)
  BY <1>1, GoodNow
<1>3. \A k \in Job : QueueBecomes(d, k) /\ Good("queue", k, d) => JobsKnow' /\ JobsRead'
  BY <1>1, JobsOne DEF QueueBecomes
<1>4. Readable(d) =>
        /\ Winner(d) \in known[d] /\ Rival(d) \in known[d] /\ Winner(d) # Rival(d)
        /\ Winner(d) \notin Unreadable /\ Rival(d) \notin Unreadable
        /\ Winner(d) \in Nat /\ Rival(d) \in Nat
  BY RivalFacts, LeavesFacts, InfoFacts DEF Readable
<1>5. CASE NotConflicted(d) \/ LeaveUnreadable(d) \/ LeaveUntilOpened(d)
  BY <1>5, JobsSame DEF NotConflicted, LeaveUnreadable, LeaveUntilOpened
<1>6. CASE MergeSensibly(d)
  <2> DEFINE k == [pc |-> "store", left |-> Winner(d), right |-> Rival(d), doomed |-> <<>>, how |-> "sensible"]
  <2>1. Readable(d) /\ setup.merging /\ QueueBecomes(d, k)
    BY <1>6 DEF MergeSensibly
  <2>2. k \in Job /\ k.pc = "store" /\ k.left = Winner(d) /\ k.right = Rival(d) /\ k.how = "sensible"
    BY <1>4, <2>1 DEF Job, Steps, Ways
  <2> HIDE DEF k
  <2>3. Good("queue", k, d)
    BY <1>4, <2>1, <2>2 DEF Good, JobKnows, JobReads
  <2> QED BY <1>3, <2>1, <2>2, <2>3
<1>7. CASE DropOlder(d)
  <2> DEFINE r == Loser(Winner(d), Rival(d))
             k == [pc |-> "delete", left |-> Winner(d), right |-> Rival(d), doomed |-> <<r>>,
                   how |-> IF Same(d) THEN "same" ELSE "newer"]
  <2>1. Readable(d) /\ QueueBecomes(d, k)
    BY <1>7 DEF DropOlder
  <2>2. r \in known[d] /\ r \notin Unreadable /\ r \in Nat
    BY <1>4, <2>1 DEF Loser
  <2> HIDE DEF r
  <2>3. <<r>> \in Seq(known[d]) \ {<<>>} /\ Head(<<r>>) = r /\ <<r>> \in Seq(Nat)
    BY <2>2, OneLong
  <2>4. k \in Job /\ k.pc = "delete" /\ k.doomed = <<r>>
    BY <1>4, <2>1, <2>3 DEF Job, Steps, Ways
  <2> HIDE DEF k
  <2>5. Good("queue", k, d)
    BY <2>2, <2>3, <2>4 DEF Good, JobKnows, JobReads
  <2> QED BY <1>3, <2>1, <2>4, <2>5
<1>8. CASE Ask(d)
  <2> DEFINE k == [pc |-> "asking", left |-> Winner(d), right |-> Rival(d), doomed |-> <<>>, how |-> "none"]
  <2>1. Readable(d) /\ Manual /\ (job' = job \/ QueueBecomes(d, k))
    BY <1>8 DEF Ask
  <2>2. k \in Job /\ k.pc = "asking" /\ k.left = Winner(d) /\ k.right = Rival(d)
    BY <1>4, <2>1 DEF Job, Steps, Ways
  <2> HIDE DEF k
  <2>3. Good("queue", k, d)
    BY <1>4, <2>1, <2>2 DEF Good, JobKnows, JobReads, Manual
  <2> QED BY <1>3, <2>1, <2>2, <2>3, JobsSame
<1>9. CASE Recheck(d)
  <2> DEFINE k == [j EXCEPT !.pc = "store"]
             r == IF j.how = "left" THEN j.left ELSE j.right
             m == [j EXCEPT !.pc = "delete", !.how = "choice", !.doomed = <<r>>]
  <2>1. j.pc = "recheck" /\ ((j.how = "concat" /\ QueueBecomes(d, k)) \/ QueueBecomes(d, m))
    BY <1>9 DEF Recheck
  <2>2. /\ j.left \in known[d] /\ j.right \in known[d] /\ j.left # j.right
        /\ j.left \notin Unreadable /\ j.right \notin Unreadable /\ setup.policy = "manual"
    BY <1>2, <2>1 DEF Good, JobKnows, JobReads
  <2>3. k \in Job /\ k.pc = "store" /\ k.left = j.left /\ k.right = j.right /\ k.how = j.how
    BY <1>1 DEF Job, Steps
  <2>4. r \in known[d] /\ r \notin Unreadable /\ r \in Nat
    BY <1>1, <2>2
  <2>5. <<r>> \in Seq(known[d]) \ {<<>>} /\ Head(<<r>>) = r /\ <<r>> \in Seq(Nat)
    <3> HIDE DEF r
    <3> QED BY <2>4, OneLong
  <2>6. m \in Job /\ m.pc = "delete" /\ m.doomed = <<r>>
    <3> HIDE DEF r
    <3> QED BY <1>1, <2>5 DEF Job, Steps, Ways
  <2> HIDE DEF k, m, r
  <2>7. j.how = "concat" => Good("queue", k, d)
    BY <2>2, <2>3 DEF Good, JobKnows, JobReads
  <2>8. Good("queue", m, d)
    BY <2>4, <2>5, <2>6 DEF Good, JobKnows, JobReads
  <2> QED BY <1>3, <2>1, <2>3, <2>6, <2>7, <2>8
<1>10. CASE DropAnswer(d) \/ StoreFails(d)
  <2>1. QueueBecomes(d, Idle)
    BY <1>10 DEF DropAnswer, StoreFails
  <2> QED BY <1>1, <1>3, <2>1, IdleFacts, GoodIdle
<1>11. CASE Store(d)
  <2> DEFINE k == [j EXCEPT !.pc = "delete", !.doomed = <<j.right>>]
  <2>1. j.pc = "store" /\ QueueBecomes(d, k)
    BY <1>11 DEF Store
  <2>2. j.right \in known[d] /\ j.right \notin Unreadable
    BY <1>2, <2>1 DEF Good, JobKnows, JobReads
  <2>3. <<j.right>> \in Seq(known[d]) \ {<<>>} /\ Head(<<j.right>>) = j.right /\ <<j.right>> \in Seq(Nat)
    BY <1>1, <2>2, OneLong
  <2>4. k \in Job /\ k.pc = "delete" /\ k.doomed = <<j.right>>
    BY <1>1, <2>3 DEF Job, Steps
  <2> HIDE DEF k
  <2>5. Good("queue", k, d)
    BY <2>2, <2>3, <2>4 DEF Good, JobKnows, JobReads
  <2> QED BY <1>3, <2>1, <2>4, <2>5
<1> QED BY <1>5, <1>6, <1>7, <1>8, <1>9, <1>10, <1>11 DEF QueueStep

LEMMA GoodCancel ==
    ASSUME NEW d, NEW w \in Worker, NEW j \in Job, Good(w, j, d)
    PROVE  Cancel(j) \in Job /\ Good(w, Cancel(j), d)
BY IdleFacts, GoodIdle DEF Cancel

LEMMA DeletingJobs ==
    ASSUME TreeType, JobsKnow, JobsRead, NEW d \in Device, NEW w \in Worker, DeletingStep(d, w), Grows
    PROVE  JobsKnow' /\ JobsRead'
<1> DEFINE j == job[d][w]
           n == Next1(w, j)
           wr == [j EXCEPT !.pc = "write"]
           co == [j EXCEPT !.pc = "count"]
<1>1. j \in Job /\ Good(w, j, d) /\ known[d] \in SUBSET Nat
  BY JobFacts, GoodNow, LeavesFacts, InfoFacts
<1>2. \A k \in Job : job' = [job EXCEPT ![d][w] = k] /\ Good(w, k, d) => JobsKnow' /\ JobsRead'
  BY JobsOne
<1>3. j.pc \in {"delete", "count", "write"} => n \in Job /\ Good(w, n, d)
  <2>1. ASSUME j.pc \in {"delete", "count", "write"}
        PROVE  n \in Job /\ (w = "queue" => n = Idle) /\ JobKnows(w, n, known[d], setup)
    <3>1. JobKnows(w, j, known[d], setup)
      BY <1>1 DEF Good
    <3> QED BY <1>1, <2>1, <3>1, NextOneFacts
  <2> QED BY <2>1, IdleFacts DEF Good
<1>4. ASSUME NEW p \in {"count", "write"}, j.pc \in {"delete", "count", "write"}
      PROVE  [j EXCEPT !.pc = p] \in Job /\ Good(w, [j EXCEPT !.pc = p], d)
  <2> DEFINE k == [j EXCEPT !.pc = p]
  <2>1. k \in Job /\ k.pc = p /\ k.doomed = j.doomed /\ k.how = j.how
    BY <1>1 DEF Job, Steps
  <2> HIDE DEF k
  <2>2. Good(w, k, d)
    BY <1>1, <1>4, <2>1 DEF Good, JobKnows, JobReads
  <2> QED BY <2>1, <2>2 DEF k
<1> HIDE DEF n
<1>5. CASE Delete(d, w)
  <2>1. j.pc = "delete"
    BY <1>5 DEF Delete
  <2>2. CASE w = "discard"
    BY <1>2, <1>5, <2>2, IdleFacts, GoodIdle DEF Delete
  <2>3. CASE w # "discard"
    <3>1. job' = [job EXCEPT ![d] = [u \in Worker |-> IF u = w THEN co ELSE Cancel(job[d][u])]]
      BY <1>5, <2>3 DEF Delete
    <3>2. co \in Job /\ Good(w, co, d)
      BY <1>4, <2>1
    <3> HIDE DEF co
    <3>3. /\ \A e \in Device \ {d} : job'[e] = job[e]
          /\ \A u \in Worker \ {w} : job'[d][u] = Cancel(job[d][u])
          /\ job'[d][w] = co
      BY <3>1 DEF TreeType
    <3>4. \A u \in Worker : job[d][u] \in Job /\ Good(u, job[d][u], d)
      BY JobFacts, GoodNow
    <3>5. \A u \in Worker : Good(u, Cancel(job[d][u]), d)
      BY <3>4, GoodCancel
    <3>6. \A u \in Worker : Good(u, job'[d][u], d)
      BY <3>2, <3>3, <3>5
    <3>7. \A e \in Device \ {d} : \A u \in Worker : Good(u, job'[e][u], e)
      BY <3>3, GoodNow
    <3>8. \A e \in Device, u \in Worker : Good(u, job'[e][u], e)
      BY <3>6, <3>7
    <3> QED BY <3>8, JobsAll
  <2> QED BY <2>2, <2>3
<1>6. CASE DeleteFails(d, w) \/ Write(d, w) \/ WriteFails(d, w)
  <2>1. job' = [job EXCEPT ![d][w] = n] /\ j.pc \in {"delete", "count", "write"}
    BY <1>6 DEF DeleteFails, Write, WriteFails, Merged, n
  <2> QED BY <1>2, <1>3, <2>1
<1>7. CASE CountLeft(d, w)
  <2>1. j.pc = "count" /\ (job' = [job EXCEPT ![d][w] = n] \/ job' = [job EXCEPT ![d][w] = wr])
    BY <1>7 DEF CountLeft, Merged, n
  <2>2. wr \in Job /\ Good(w, wr, d)
    BY <1>4, <2>1
  <2> HIDE DEF wr
  <2> QED BY <1>2, <1>3, <2>1, <2>2
<1> QED BY <1>5, <1>6, <1>7 DEF DeletingStep

LEMMA CommandJobs ==
    ASSUME TreeType, JobsKnow, JobsRead, NEW d \in Device, CommandStep(d), Grows
    PROVE  JobsKnow' /\ JobsRead'
<1>1. \A w \in Worker, k \in Job : job' = [job EXCEPT ![d][w] = k] /\ Good(w, k, d) => JobsKnow' /\ JobsRead'
  BY JobsOne
<1>2. known[d] \in SUBSET Nat /\ Leaves(d) \subseteq known[d] /\ IsFiniteSet(Leaves(d))
  BY LeavesFacts, InfoFacts
<1>3. "newest" \in Worker /\ "discard" \in Worker /\ "newest" # "queue" /\ "discard" # "queue"
  BY DEF Worker
<1>4. CASE NewestReads(d)
  <2> DEFINE k == [Idle EXCEPT !.pc = "list", !.left = Winner(d)]
  <2>1. job' = [job EXCEPT ![d]["newest"] = k] /\ "newest" \in setup.commands /\ Leaves(d) # {}
    BY <1>4 DEF NewestReads
  <2>2. Winner(d) \in known[d] /\ Winner(d) \in Nat
    BY <1>2, <2>1, WinnerFacts
  <2>3. k \in Job /\ k.pc = "list" /\ k.left = Winner(d)
    BY <2>2, IdleFacts DEF Job, Steps
  <2> HIDE DEF k
  <2>4. Good("newest", k, d)
    BY <1>3, <2>1, <2>2, <2>3 DEF Good, JobKnows
  <2> QED BY <1>1, <1>3, <2>1, <2>3, <2>4
<1>5. CASE NewestLists(d)
  <2> DEFINE j == job[d]["newest"]
             rivals == IF Leaves(d) = {} THEN {} ELSE Leaves(d) \ {Winner(d)}
             n == Cardinality(rivals)
  <2>1. PICK s \in [1 .. n + 1 -> rivals \cup {j.left}] :
            job' = [job EXCEPT ![d]["newest"] =
                   IF rivals = {} THEN Idle
                   ELSE [j EXCEPT !.pc = "delete", !.doomed = Tail(s), !.how = "newest"]]
    BY <1>5 DEF NewestLists
  <2>2. j \in Job /\ JobKnows("newest", j, known[d], setup) /\ j.pc = "list"
    BY <1>3, <1>5, JobFacts, GoodNow DEF NewestLists, Good
  <2>3. j.left \in known[d] /\ "newest" \in setup.commands
    BY <2>2 DEF JobKnows
  <2>4. rivals \subseteq known[d] /\ IsFiniteSet(rivals)
    BY <1>2, FS_Subset, FS_EmptySet
  <2> DEFINE k == [j EXCEPT !.pc = "delete", !.doomed = Tail(s), !.how = "newest"]
  <2>5. CASE rivals = {}
    <3>1. job' = [job EXCEPT ![d]["newest"] = Idle]
      BY <2>1, <2>5
    <3> QED BY <1>1, <1>3, <3>1, IdleFacts, GoodIdle
  <2>6. CASE rivals # {}
    <3>1. job' = [job EXCEPT ![d]["newest"] = k]
      BY <2>1, <2>6
    <3>2. n \in Nat /\ n # 0
      BY <2>4, <2>6, FS_CardinalityType, FS_EmptySet
    <3>3. s \in [1 .. n + 1 -> known[d]]
      BY <2>3, <2>4
    <3> HIDE DEF n, rivals, j
    <3>4. s \in Seq(known[d]) /\ Len(s) = n + 1
      BY <3>2, <3>3
    <3>5. s # <<>>
      <4>1. n + 1 # 0
        BY <3>2
      <4>2. s = <<>> => Len(s) = 0
        OBVIOUS
      <4> QED BY <3>4, <4>1, <4>2
    <3>6. Tail(s) \in Seq(known[d]) /\ Len(Tail(s)) = Len(s) - 1
      BY <3>4, <3>5, HeadTailProperties
    <3>7. Len(Tail(s)) # 0
      BY <3>2, <3>4, <3>6
    <3>8. Tail(s) # <<>> /\ Tail(s) \in Seq(Nat)
      <4>1. \A t : t = <<>> => Len(t) = 0
        OBVIOUS
      <4>2. Tail(s) \in Seq(Nat)
        BY <1>2, <3>6
      <4> QED BY <3>7, <4>1, <4>2
    <3>9. k \in Job /\ k.pc = "delete" /\ k.doomed = Tail(s) /\ k.how = "newest"
      BY <2>2, <3>8 DEF Job, Steps, Ways
    <3> HIDE DEF k
    <3>10. Good("newest", k, d)
      BY <1>3, <2>3, <3>6, <3>8, <3>9 DEF Good, JobKnows
    <3> QED BY <1>1, <1>3, <3>1, <3>9, <3>10
  <2> QED BY <2>5, <2>6
<1>6. ASSUME NEW r \in Leaves(d), Inspect(d, r) PROVE JobsKnow' /\ JobsRead'
  <2> DEFINE k == [Idle EXCEPT !.pc = "delete", !.doomed = <<r>>, !.how = "discard"]
  <2>1. job' = [job EXCEPT ![d]["discard"] = k] /\ "discard" \in setup.commands
    BY <1>6 DEF Inspect
  <2>2. <<r>> \in Seq(known[d]) \ {<<>>} /\ <<r>> \in Seq(Nat)
    BY <1>2, OneLong
  <2>3. k \in Job /\ k.pc = "delete" /\ k.doomed = <<r>> /\ k.how = "discard"
    BY <2>2, IdleFacts DEF Job, Steps, Ways
  <2> HIDE DEF k
  <2>4. Good("discard", k, d)
    BY <1>3, <2>1, <2>2, <2>3 DEF Good, JobKnows
  <2> QED BY <1>1, <1>3, <2>1, <2>3, <2>4
<1> QED BY <1>4, <1>5, <1>6 DEF CommandStep

LEMMA UserJobs ==
    ASSUME TreeType, JobsKnow, JobsRead, NEW d \in Device, UserStep(d), Grows
    PROVE  JobsKnow' /\ JobsRead'
<1> DEFINE j == job[d]["queue"]
<1>1. "queue" \in Worker /\ j \in Job /\ Good("queue", j, d)
  BY JobFacts, GoodNow DEF Worker
<1>2. \A k \in Job : QueueBecomes(d, k) /\ Good("queue", k, d) => JobsKnow' /\ JobsRead'
  BY <1>1, JobsOne DEF QueueBecomes
<1>3. ASSUME NEW how \in {"left", "right", "concat"}, Answer(d, how) PROVE JobsKnow' /\ JobsRead'
  <2> DEFINE k == [j EXCEPT !.pc = "recheck", !.how = how]
  <2>1. QueueBecomes(d, k) /\ j.pc = "asking"
    BY <1>3 DEF Answer
  <2>2. k \in Job /\ k.pc = "recheck" /\ k.left = j.left /\ k.right = j.right
    BY <1>1 DEF Job, Steps, Ways
  <2> HIDE DEF k
  <2>3. Good("queue", k, d)
    BY <1>1, <2>1, <2>2 DEF Good, JobKnows, JobReads
  <2> QED BY <1>2, <2>1, <2>2, <2>3
<1>4. CASE AnswerLater(d)
  BY <1>1, <1>2, <1>4, IdleFacts, GoodIdle DEF AnswerLater
<1>5. CASE Edit(d) \/ OpenFile(d) \/ RequestResolution(d) \/ ShowStatus(d)
  BY <1>5, JobsSame DEF Edit, OpenFile, RequestResolution, ShowStatus
<1> QED BY <1>3, <1>4, <1>5 DEF UserStep

LEMMA OutsideJobs ==
    ASSUME TreeType, JobsKnow, JobsRead, NEW d \in Device, Grows,
           Reflect(d) \/ Restart(d) \/ \E e \in Device \ {d} : Replicate(d, e)
    PROVE  JobsKnow' /\ JobsRead'
<1>1. CASE Reflect(d)
  <2>1. "queue" \in Worker /\ job[d]["queue"] \in Job /\ Good("queue", job[d]["queue"], d)
    BY JobFacts, GoodNow DEF Worker
  <2>2. Cancel(job[d]["queue"]) \in Job /\ Good("queue", Cancel(job[d]["queue"]), d)
    BY <2>1, GoodCancel
  <2>3. job' = [job EXCEPT ![d]["queue"] = Cancel(job[d]["queue"])]
    BY <1>1 DEF Reflect, QueueBecomes
  <2> QED BY <2>1, <2>2, <2>3, JobsOne
<1>2. CASE Restart(d)
  <2>1. /\ \A e \in Device \ {d} : job'[e] = job[e]
        /\ \A u \in Worker : job'[d][u] = Idle
    BY <1>2 DEF Restart, TreeType
  <2>2. \A e \in Device, u \in Worker : Good(u, job'[e][u], e)
    BY <2>1, GoodNow, GoodIdle
  <2> QED BY <2>2, JobsAll
<1>3. ASSUME NEW e \in Device \ {d}, Replicate(d, e) PROVE JobsKnow' /\ JobsRead'
  BY <1>3, JobsSame DEF Replicate
<1> QED BY <1>1, <1>2, <1>3

LEMMA JobsStep ==
    ASSUME TreeType, JobsKnow, JobsRead, Next, Grows
    PROVE  JobsKnow' /\ JobsRead'
BY QueueJobs, DeletingJobs, CommandJobs, UserJobs, OutsideJobs DEF Next
-----------------------------------------------------------------------------
(* Who changes the tree of a device, and where a job of its queue comes from. *)

LEMMA StorePuts ==
    ASSUME TreeType, JobsKnow, NEW d \in Device, Store(d)
    PROVE  LET j == job[d]["queue"]
               parent == IF Leaves(d) = {} THEN 0 ELSE Winner(d)
               from == info[j.left].from \cup info[j.right].from
           IN /\ parent \in known[d] \cup {0} /\ from \in SUBSET Nat
              /\ Put(d, parent, from, {parent, j.right} \cap Leaves(d))
              /\ overwritten' = overwritten \cup IF parent = 0 THEN {} ELSE info[parent].from \ from
              /\ givenUp' = givenUp /\ j.left \in known[d] /\ j.right \in known[d] /\ j.left # j.right
<1> DEFINE j == job[d]["queue"]
<1>1. j.left \in known[d] /\ j.right \in known[d] /\ j.left # j.right
  BY DEF Store, JobsKnow, JobKnows, Worker
<1>2. info[j.left].from \cup info[j.right].from \in SUBSET Nat
  BY <1>1, LeavesFacts, InfoFacts
<1> QED BY <1>1, <1>2, WinnerFacts DEF Store

LEMMA EditPuts ==
    ASSUME TreeType, NEW d \in Device, Edit(d)
    PROVE  LET from == info[vault[d]].from \cup {Len(info) + 1}
           IN /\ vault[d] \in known[d] /\ vault[d] # 0 /\ from \in SUBSET Nat
              /\ Put(d, vault[d], from, {vault[d]}) /\ givenUp' = givenUp /\ overwritten' = overwritten
<1>1. vault[d] \in known[d] /\ vault[d] # 0
  BY DEF Edit, TreeType
<1> QED BY <1>1, LeavesFacts, InfoFacts DEF Edit

LEMMA TreeMoves ==
    ASSUME TreeType, JobsKnow, Next, NEW e \in Device
    PROVE  \/ known'[e] = known[e] /\ dead'[e] = dead[e]
           \/ Store(e) \/ Edit(e)
           \/ \E w \in Worker : Delete(e, w)
           \/ \E d \in Device \ {e} : Replicate(d, e)
<1>1. PICK d \in Device :
        \/ QueueStep(d) \/ CommandStep(d) \/ UserStep(d) \/ Reflect(d) \/ Restart(d)
        \/ \E w \in Worker : DeletingStep(d, w)
        \/ \E x \in Device \ {d} : Replicate(d, x)
  BY DEF Next
<1>2. setup' = setup
  BY DEF Next
<1>3. CASE Store(d)
  <2> DEFINE parent == IF Leaves(d) = {} THEN 0 ELSE Winner(d)
             from == info[job[d]["queue"].left].from \cup info[job[d]["queue"].right].from
             replaced == {parent, job[d]["queue"].right} \cap Leaves(d)
  <2>2. /\ parent \in known[d] \cup {0} /\ from \in SUBSET Nat /\ Put(d, parent, from, replaced)
        /\ givenUp' = givenUp /\ overwritten \subseteq overwritten'
    BY <1>3, StorePuts
  <2> HIDE DEF parent, from, replaced
  <2>1. d # e => known'[e] = known[e] /\ dead'[e] = dead[e]
    BY <1>2, <2>2, PutFacts
  <2> QED BY <1>3, <2>1
<1>4. CASE Edit(d)
  <2> DEFINE from == info[vault[d]].from \cup {Len(info) + 1}
  <2>2. /\ vault[d] \in known[d] \cup {0} /\ from \in SUBSET Nat /\ Put(d, vault[d], from, {vault[d]})
        /\ givenUp' = givenUp /\ overwritten \subseteq overwritten'
    BY <1>4, EditPuts
  <2> HIDE DEF from
  <2>1. d # e => known'[e] = known[e] /\ dead'[e] = dead[e]
    BY <1>2, <2>2, PutFacts
  <2> QED BY <1>4, <2>1
<1>5. ASSUME NEW w \in Worker, Delete(d, w)
      PROVE  d # e => known'[e] = known[e] /\ dead'[e] = dead[e]
  BY <1>5 DEF Delete, TreeType
<1>6. ASSUME NEW x \in Device \ {d}, Replicate(d, x)
      PROVE  x # e => known'[e] = known[e] /\ dead'[e] = dead[e]
  BY <1>6 DEF Replicate, TreeType
<1>7. CASE QueueStep(d) /\ ~Store(d)
  BY <1>7 DEF QueueStep, NotConflicted, LeaveUnreadable, MergeSensibly, DropOlder, LeaveUntilOpened,
              Ask, Recheck, DropAnswer, StoreFails
<1>8. ASSUME NEW w \in Worker, DeletingStep(d, w), ~Delete(d, w)
      PROVE  known'[e] = known[e] /\ dead'[e] = dead[e]
  BY <1>8 DEF DeletingStep, DeleteFails, CountLeft, Write, WriteFails
<1>9. CASE CommandStep(d) \/ Reflect(d) \/ Restart(d)
  BY <1>9 DEF CommandStep, NewestReads, NewestLists, Inspect, Reflect, Restart
<1>10. CASE UserStep(d) /\ ~Edit(d)
  BY <1>10 DEF UserStep, Answer, AnswerLater, OpenFile, RequestResolution, ShowStatus
<1> QED
  <2>1. CASE QueueStep(d) \/ CommandStep(d) \/ UserStep(d) \/ Reflect(d) \/ Restart(d)
    BY <1>3, <1>4, <1>7, <1>9, <1>10, <2>1
  <2>2. ASSUME NEW w \in Worker, DeletingStep(d, w)
        PROVE  (known'[e] = known[e] /\ dead'[e] = dead[e]) \/ \E u \in Worker : Delete(e, u)
    BY <1>5, <1>8, <2>2
  <2>3. ASSUME NEW x \in Device \ {d}, Replicate(d, x)
        PROVE  (known'[e] = known[e] /\ dead'[e] = dead[e]) \/ \E y \in Device \ {e} : Replicate(y, e)
    BY <1>6, <2>3
  <2> QED BY <1>1, <2>1, <2>2, <2>3

\* Versions are overwritten by a stored text only.
LEMMA OnlyStored ==
    ASSUME Next
    PROVE  overwritten' = overwritten \/ \E d \in Device : Store(d)
<1>1. PICK d \in Device :
        \/ QueueStep(d) \/ CommandStep(d) \/ UserStep(d) \/ Reflect(d) \/ Restart(d)
        \/ \E w \in Worker : DeletingStep(d, w)
        \/ \E x \in Device \ {d} : Replicate(d, x)
  BY DEF Next
<1>2. CASE QueueStep(d)
  BY <1>2 DEF QueueStep, NotConflicted, LeaveUnreadable, MergeSensibly, DropOlder, LeaveUntilOpened,
              Ask, Recheck, DropAnswer, StoreFails
<1>3. CASE CommandStep(d)
  BY <1>3 DEF CommandStep, NewestReads, NewestLists, Inspect
<1>4. CASE UserStep(d)
  BY <1>4 DEF UserStep, Answer, AnswerLater, Edit, OpenFile, RequestResolution, ShowStatus
<1>5. CASE Reflect(d) \/ Restart(d) \/ \E x \in Device \ {d} : Replicate(d, x)
  BY <1>5 DEF Reflect, Restart, Replicate
<1>6. ASSUME NEW w \in Worker, DeletingStep(d, w) PROVE overwritten' = overwritten
  BY <1>6 DEF DeletingStep, Delete, DeleteFails, CountLeft, Write, WriteFails
<1> QED BY <1>1, <1>2, <1>3, <1>4, <1>5, <1>6

\* The steps of a device concern its own programs.
LEMMA OthersRest ==
    ASSUME TreeType, NEW d \in Device, NEW e \in Device \ {d},
        \/ QueueStep(d) \/ CommandStep(d) \/ UserStep(d) \/ Reflect(d) \/ Restart(d)
        \/ \E w \in Worker : DeletingStep(d, w)
        \/ \E x \in Device \ {d} : Replicate(d, x)
    PROVE  job'[e] = job[e]
<1>1. job \in [Device -> [Worker -> Job]]
  BY DEF TreeType
<1>2. CASE QueueStep(d)
  BY <1>1, <1>2 DEF QueueStep, NotConflicted, LeaveUnreadable, MergeSensibly, DropOlder, LeaveUntilOpened,
              Ask, Recheck, DropAnswer, Store, StoreFails, QueueBecomes
<1>3. CASE CommandStep(d)
  BY <1>1, <1>3 DEF CommandStep, NewestReads, NewestLists, Inspect
<1>4. CASE UserStep(d) \/ Reflect(d) \/ Restart(d) \/ \E x \in Device \ {d} : Replicate(d, x)
  BY <1>1, <1>4 DEF UserStep, Answer, AnswerLater, Edit, OpenFile, RequestResolution, ShowStatus, Reflect,
              Restart, Replicate, QueueBecomes
<1>5. ASSUME NEW w \in Worker, DeletingStep(d, w) PROVE job'[e] = job[e]
  BY <1>1, <1>5 DEF DeletingStep, Delete, DeleteFails, CountLeft, Merged, Write, WriteFails
<1> QED BY <1>2, <1>3, <1>4, <1>5

\* What the queue of a device is about to store or to delete.
Comes(e) ==
    LET j == job[e]["queue"]  k == job'[e]["queue"] IN
    /\ k.pc = "store" => k = j \/ MergeSensibly(e) \/ Recheck(e)
    /\ k.pc = "delete" => k = j \/ DropOlder(e) \/ Recheck(e) \/ Store(e)

LEMMA QueueMoves ==
    ASSUME TreeType, JobsKnow, Next, NEW e \in Device
    PROVE  Comes(e)
<1>1. PICK d \in Device :
        \/ QueueStep(d) \/ CommandStep(d) \/ UserStep(d) \/ Reflect(d) \/ Restart(d)
        \/ \E w \in Worker : DeletingStep(d, w)
        \/ \E x \in Device \ {d} : Replicate(d, x)
  BY DEF Next
<1>2. CASE d # e
  BY <1>1, <1>2, OthersRest DEF Comes
<1>3. CASE d = e
  <2> DEFINE j == job[e]["queue"]
             k == job'[e]["queue"]
  <2>1. job \in [Device -> [Worker -> Job]] /\ "queue" \in Worker /\ j \in Job
    BY JobFacts DEF TreeType, Worker
  <2>2. Idle.pc = "idle"
    BY IdleFacts
  <2>3. \A n : QueueBecomes(e, n) => k = n
    BY <2>1 DEF QueueBecomes
  <2> HIDE DEF j, k
  <2>4. k = j => Comes(e)
    BY DEF Comes, j, k
  <2>5. CASE NotConflicted(e) \/ LeaveUnreadable(e) \/ LeaveUntilOpened(e)
    BY <2>4, <2>5 DEF NotConflicted, LeaveUnreadable, LeaveUntilOpened, j, k
  <2>6. CASE MergeSensibly(e)
    <3>1. k.pc = "store" /\ j.pc = "idle"
      BY <2>3, <2>6 DEF MergeSensibly, Take, j
    <3> QED BY <2>6, <3>1 DEF Comes, j, k
  <2>7. CASE DropOlder(e)
    <3>1. k.pc = "delete" /\ j.pc = "idle"
      BY <2>3, <2>7 DEF DropOlder, Take, j
    <3> QED BY <2>7, <3>1 DEF Comes, j, k
  <2>8. CASE Ask(e)
    <3>1. k = j \/ (k.pc = "asking" /\ j.pc = "idle")
      BY <2>3, <2>8 DEF Ask, Take, j, k
    <3> QED BY <2>4, <3>1 DEF Comes, j, k
  <2>9. CASE Recheck(e)
    <3>1. j.pc = "recheck"
      BY <2>9 DEF Recheck, j
    <3> QED BY <2>9, <3>1 DEF Comes, j
  <2>10. CASE DropAnswer(e) \/ StoreFails(e) \/ AnswerLater(e)
    <3>1. k.pc = "idle" /\ j.pc \in {"recheck", "store", "asking"}
      BY <2>2, <2>3, <2>10 DEF DropAnswer, StoreFails, AnswerLater, j
    <3> QED BY <3>1 DEF Comes, j, k
  <2>11. CASE Store(e)
    <3>1. k.pc = "delete" /\ j.pc = "store"
      <4>1. j.pc = "store" /\ k = [j EXCEPT !.pc = "delete", !.doomed = <<j.right>>]
        BY <2>3, <2>11 DEF Store, j
      <4> QED BY <2>1, <4>1 DEF Job
    <3> QED BY <2>11, <3>1 DEF Comes, j, k
  <2>12. CASE CommandStep(e)
    <3>1. k = j
      BY <2>1, <2>12 DEF CommandStep, NewestReads, NewestLists, Inspect, j, k
    <3> QED BY <2>4, <3>1
  <2>13. ASSUME NEW how \in {"left", "right", "concat"}, Answer(e, how) PROVE Comes(e)
    <3>1. j.pc = "asking" /\ k = [j EXCEPT !.pc = "recheck", !.how = how]
      BY <2>3, <2>13 DEF Answer, j
    <3>2. k.pc = "recheck"
      BY <2>1, <3>1 DEF Job
    <3> QED BY <3>1, <3>2 DEF Comes, j, k
  <2>14. CASE \/ Edit(e) \/ OpenFile(e) \/ RequestResolution(e) \/ ShowStatus(e)
              \/ \E x \in Device \ {e} : Replicate(e, x)
    BY <2>4, <2>14 DEF Edit, OpenFile, RequestResolution, ShowStatus, Replicate, j, k
  <2>15. CASE Reflect(e)
    <3>1. k = Cancel(j)
      BY <2>3, <2>15 DEF Reflect, j
    <3>2. k = j \/ (k.pc = "idle" /\ j.pc = "asking")
      BY <2>2, <3>1 DEF Cancel
    <3> QED BY <2>4, <3>2 DEF Comes, j, k
  <2>16. CASE Restart(e)
    <3>1. k = Idle
      BY <2>1, <2>16 DEF Restart, k
    <3> QED BY <2>2, <2>16, <3>1 DEF Comes, j, k
  <2>17. ASSUME NEW w \in Worker, DeletingStep(e, w) PROVE Comes(e)
    <3>1. ASSUME w # "queue" PROVE k = j \/ k = Cancel(j)
      BY <2>1, <2>17, <3>1 DEF DeletingStep, Delete, DeleteFails, CountLeft, Merged, Write, WriteFails, j, k
    <3>2. ASSUME w # "queue" PROVE Comes(e)
      <4>1. k = j \/ (k.pc = "idle" /\ j.pc = "asking")
        BY <2>2, <3>1, <3>2 DEF Cancel
      <4> QED BY <2>4, <4>1 DEF Comes, j, k
    <3>3. CASE w = "queue"
      <4>1. Next1(w, j) = Idle
        BY <3>3 DEF Next1
      <4>2. CASE Delete(e, w)
        <5>1. job' = [job EXCEPT ![e] = [u \in Worker |->
                         IF u = w THEN [j EXCEPT !.pc = "count"] ELSE Cancel(job[e][u])]]
          BY <3>3, <4>2 DEF Delete, j
        <5>2. k = [j EXCEPT !.pc = "count"]
          BY <2>1, <3>3, <5>1 DEF k
        <5>3. k.pc = "count"
          BY <2>1, <5>2 DEF Job
        <5> QED BY <5>3 DEF Comes, j, k
      <4>3. CASE DeleteFails(e, w) \/ CountLeft(e, w) \/ Write(e, w) \/ WriteFails(e, w)
        <5>1. k = Next1(w, j) \/ k = [j EXCEPT !.pc = "write"]
          BY <2>1, <3>3, <4>3 DEF DeleteFails, CountLeft, Write, WriteFails, Merged, j, k
        <5>2. k.pc \in {"idle", "write"}
          BY <2>1, <2>2, <4>1, <5>1 DEF Job
        <5> QED BY <5>2 DEF Comes, j, k
      <4> QED BY <2>17, <4>2, <4>3 DEF DeletingStep
    <3> QED BY <3>2, <3>3
  <2> QED
    BY <1>1, <1>3, <2>5, <2>6, <2>7, <2>8, <2>9, <2>10, <2>11, <2>12, <2>13, <2>14, <2>15, <2>16, <2>17
       DEF QueueStep, UserStep
<1> QED BY <1>2, <1>3

\* How a program goes on from a deletion, a count or a write.
Goes(e, w) ==
    LET j == job[e][w]  k == job'[e][w] IN
    /\ j.pc = "delete" => k = j \/ Delete(e, w) \/ DeleteFails(e, w) \/ Restart(e)
    /\ j.pc \in {"count", "write"} =>
         \/ k = j \/ k.pc = "write"
         \/ Conflicted(e) /\ UNCHANGED <<info, known, dead>>
         \/ Write(e, w) \/ WriteFails(e, w) \/ Restart(e)

LEMMA WorkerMoves ==
    ASSUME TreeType, JobsKnow, Next, NEW e \in Device, NEW w \in Worker
    PROVE  Goes(e, w)
<1>1. PICK d \in Device :
        \/ QueueStep(d) \/ CommandStep(d) \/ UserStep(d) \/ Reflect(d) \/ Restart(d)
        \/ \E u \in Worker : DeletingStep(d, u)
        \/ \E x \in Device \ {d} : Replicate(d, x)
  BY DEF Next
<1>2. CASE d # e
  BY <1>1, <1>2, OthersRest DEF Goes
<1>3. CASE d = e
  <2> DEFINE j == job[e][w]
             k == job'[e][w]
  <2>1. job \in [Device -> [Worker -> Job]] /\ j \in Job /\ "queue" \in Worker
    BY JobFacts DEF TreeType, Worker
  <2> HIDE DEF j, k
  <2>2. k = j => Goes(e, w)
    BY DEF Goes, j, k
  <2>3. SUFFICES ASSUME j.pc \in {"delete", "count", "write"} PROVE Goes(e, w)
    BY DEF Goes, j
  <2>4. CASE QueueStep(e)
    <3>1. CASE w = "queue"
      BY <2>2, <2>3, <2>4, <3>1
         DEF QueueStep, NotConflicted, LeaveUnreadable, MergeSensibly, DropOlder, LeaveUntilOpened,
             Ask, Recheck, DropAnswer, Store, StoreFails, Take, j, k
    <3>2. CASE w # "queue"
      <4>1. job' = job \/ \E n : QueueBecomes(e, n)
        BY <2>4 DEF QueueStep, NotConflicted, LeaveUnreadable, MergeSensibly, DropOlder, LeaveUntilOpened,
             Ask, Recheck, DropAnswer, Store, StoreFails
      <4>2. k = j
        BY <2>1, <3>2, <4>1 DEF QueueBecomes, j, k
      <4> QED BY <2>2, <4>2
    <3> QED BY <3>1, <3>2
  <2>5. CASE CommandStep(e)
    <3>1. k = j
      BY <2>1, <2>3, <2>5 DEF CommandStep, NewestReads, NewestLists, Inspect, j, k
    <3> QED BY <2>2, <3>1
  <2>6. CASE UserStep(e)
    <3>1. k = j
      BY <2>1, <2>3, <2>6 DEF UserStep, Answer, AnswerLater, Edit, OpenFile, RequestResolution, ShowStatus,
                               QueueBecomes, j, k
    <3> QED BY <2>2, <3>1
  <2>7. CASE Reflect(e) \/ \E x \in Device \ {e} : Replicate(e, x)
    <3>1. k = j
      BY <2>1, <2>3, <2>7 DEF Reflect, Replicate, Cancel, QueueBecomes, j, k
    <3> QED BY <2>2, <3>1
  <2>8. CASE Restart(e)
    BY <2>8 DEF Goes
  <2>9. ASSUME NEW u \in Worker, DeletingStep(e, u) PROVE Goes(e, w)
    <3>1. CASE u # w
      <4>1. k = j \/ k = Cancel(j)
        BY <2>1, <2>9, <3>1 DEF DeletingStep, Delete, DeleteFails, CountLeft, Merged, Write, WriteFails, j, k
      <4>2. k = j
        BY <2>3, <4>1 DEF Cancel
      <4> QED BY <2>2, <4>2
    <3>2. CASE u = w
      <4>1. CASE Delete(e, w) \/ DeleteFails(e, w)
        <5>1. j.pc = "delete"
          BY <4>1 DEF Delete, DeleteFails, j
        <5> QED BY <4>1, <5>1 DEF Goes, j
      <4>2. CASE CountLeft(e, w)
        <5>1. j.pc = "count"
          BY <4>2 DEF CountLeft, j
        <5>2. CASE Conflicted(e)
          <6>1. UNCHANGED <<info, known, dead>>
            BY <4>2 DEF CountLeft
          <6> QED BY <5>1, <5>2, <6>1 DEF Goes, j
        <5>3. CASE ~Conflicted(e)
          <6>1. k = [j EXCEPT !.pc = "write"]
            BY <2>1, <4>2, <5>3 DEF CountLeft, j, k
          <6>2. k.pc = "write"
            BY <2>1, <6>1 DEF Job
          <6> QED BY <5>1, <6>2 DEF Goes, j, k
        <5> QED BY <5>2, <5>3
      <4>3. CASE Write(e, w) \/ WriteFails(e, w)
        <5>1. j.pc = "write"
          BY <4>3 DEF Write, WriteFails, j
        <5> QED BY <4>3, <5>1 DEF Goes, j
      <4> QED BY <2>9, <3>2, <4>1, <4>2, <4>3 DEF DeletingStep
    <3> QED BY <3>1, <3>2
  <2> QED BY <1>1, <1>3, <2>4, <2>5, <2>6, <2>7, <2>8, <2>9
<1> QED BY <1>2, <1>3
-----------------------------------------------------------------------------
(* The tree under a program of a quiet device. *)

LEMMA QuietTree ==
    ASSUME TreeType, JobsKnow, Next, Alone, NEW e \in Device,
           job'[e]["queue"] = job[e]["queue"], job[e]["queue"].pc \notin {"idle", "asking"}
    PROVE  known'[e] = known[e] /\ dead'[e] = dead[e]
<1> DEFINE j == job[e]["queue"]
<1>1. "queue" \in Worker /\ job \in [Device -> [Worker -> Job]] /\ j \in Job
  BY JobFacts DEF TreeType, Worker
<1>2. ~Quiet(e) /\ Quietly /\ setup.commands = {}
  BY <1>1 DEF Quiet, Alone
<1>3. ~Store(e)
  <2>1. SUFFICES ASSUME Store(e) PROVE FALSE
    OBVIOUS
  <2>2. j.pc = "store" /\ job'[e]["queue"] = [j EXCEPT !.pc = "delete", !.doomed = <<j.right>>]
    BY <1>1, <2>1 DEF Store, QueueBecomes
  <2>3. job'[e]["queue"].pc = "delete"
    BY <1>1, <2>2 DEF Job
  <2> QED BY <2>2, <2>3
<1>4. ~Edit(e) /\ \A d \in Device : ~Replicate(d, e)
  BY <1>2 DEF Edit, Replicate
<1>5. ASSUME NEW w \in Worker, Delete(e, w) PROVE FALSE
  <2>1. job[e][w].pc = "delete"
    BY <1>5 DEF Delete
  <2>2. w = "queue"
    BY <1>2, <2>1 DEF JobsKnow, JobKnows, Worker
  <2>3. job' = [job EXCEPT ![e] = [u \in Worker |-> IF u = w THEN [j EXCEPT !.pc = "count"] ELSE Cancel(job[e][u])]]
    BY <1>5, <2>2 DEF Delete
  <2>4. job'[e]["queue"] = [j EXCEPT !.pc = "count"]
    BY <1>1, <2>2, <2>3
  <2>5. job'[e]["queue"].pc = "count"
    BY <1>1, <2>4 DEF Job
  <2> QED BY <2>1, <2>2, <2>5
<1> QED BY <1>3, <1>4, <1>5, TreeMoves

\* Where a job of the queue comes from.

LEMMA DropJob ==
    ASSUME TreeInv, NEW e \in Device, DropOlder(e)
    PROVE  LET k == job'[e]["queue"] IN
           /\ Head(k.doomed) = Loser(Winner(e), Rival(e)) /\ Conflicted(e) /\ known'[e] = known[e]
           /\ k.how \in {"same", "sensible", "concat"} => Same(e)
<1> DEFINE l == Loser(Winner(e), Rival(e))
           how == IF Same(e) THEN "same" ELSE "newer"
<1>1. job'[e]["queue"] = [pc |-> "delete", left |-> Winner(e), right |-> Rival(e), doomed |-> <<l>>, how |-> how]
  BY DEF DropOlder, QueueBecomes, TreeInv, TreeType, Worker
<1>2. Head(<<l>>) = l
  BY OneLong
<1>3. Conflicted(e) /\ known'[e] = known[e]
  BY DEF DropOlder, Readable
<1>4. how \in {"same", "sensible", "concat"} => Same(e)
  OBVIOUS
<1> HIDE DEF l, how
<1> QED BY <1>1, <1>2, <1>3, <1>4 DEF l

LEMMA RecheckJob ==
    ASSUME TreeInv, NEW e \in Device, Recheck(e), job'[e]["queue"].pc = "delete"
    PROVE  job'[e]["queue"].how = "choice" /\ Manual /\ Head(job'[e]["queue"].doomed) \in Leaves(e)
<1> DEFINE j == job[e]["queue"]
           r == IF j.how = "left" THEN j.left ELSE j.right
<1>1. j \in Job /\ "queue" \in Worker /\ j.pc = "recheck" /\ JobKnows("queue", j, known[e], setup)
  BY JobFacts DEF TreeInv, Worker, Recheck, JobsKnow
<1>2. job'[e]["queue"] = IF j.how = "concat" THEN [j EXCEPT !.pc = "store"]
         ELSE [j EXCEPT !.pc = "delete", !.how = "choice", !.doomed = <<r>>]
  BY <1>1 DEF Recheck, QueueBecomes, TreeInv, TreeType
<1>3. job'[e]["queue"].how = "choice" /\ job'[e]["queue"].doomed = <<r>>
  <2> HIDE DEF r
  <2> QED BY <1>1, <1>2 DEF Job
<1>4. r \in Leaves(e)
  BY RivalFacts DEF Recheck, StillShown, TreeInv
<1>5. Head(<<r>>) = r
  BY <1>4, OneLong
<1> QED BY <1>1, <1>3, <1>4, <1>5 DEF JobKnows, Manual

LEMMA StoreJob ==
    ASSUME TreeInv, NEW e \in Device, Store(e)
    PROVE  LET j == job[e]["queue"]  k == job'[e]["queue"] IN
           /\ j.pc = "store" /\ JobKnows("queue", j, known[e], setup)
           /\ k.pc = "delete" /\ Head(k.doomed) = j.right /\ k.how \in {"sensible", "concat"}
<1> DEFINE j == job[e]["queue"]
           k == job'[e]["queue"]
<1>1. j \in Job /\ "queue" \in Worker /\ j.pc = "store" /\ JobKnows("queue", j, known[e], setup)
  BY JobFacts DEF TreeInv, Worker, Store, JobsKnow
<1>2. k = [j EXCEPT !.pc = "delete", !.doomed = <<j.right>>]
  BY <1>1 DEF Store, QueueBecomes, TreeInv, TreeType
<1>3. k.pc = "delete" /\ k.doomed = <<j.right>> /\ k.how = j.how
  BY <1>1, <1>2 DEF Job
<1>4. k.how \in {"sensible", "concat"}
  BY <1>1, <1>3 DEF JobKnows
<1> HIDE DEF j, k
<1>5. Head(<<j.right>>) = j.right
  BY OneLong
<1> QED BY <1>1, <1>3, <1>4, <1>5 DEF j, k

\* What storing does to the leaves: the parent is one no longer.
LEMMA StoreLeaves ==
    ASSUME TreeType, JobsKnow, NEW e \in Device, Store(e), setup' = setup, Leaves(e) # {}
    PROVE  /\ job[e]["queue"].left # job[e]["queue"].right
           /\ dead'[e] = dead[e] \cup {Winner(e)} /\ known[e] \subseteq known'[e]
<1> DEFINE parent == Winner(e)
           from == info[job[e]["queue"].left].from \cup info[job[e]["queue"].right].from
           replaced == {parent, job[e]["queue"].right} \cap Leaves(e)
<1>1. /\ parent \in known[e] \cup {0} /\ from \in SUBSET Nat /\ Put(e, parent, from, replaced)
      /\ givenUp' = givenUp /\ overwritten \subseteq overwritten'
      /\ job[e]["queue"].left # job[e]["queue"].right
  BY StorePuts
<1>2. parent # 0
  BY WinnerFacts, LeavesFacts, InfoFacts
<1> HIDE DEF parent, from, replaced
<1>3. known'[e] = known[e] \cup {Len(info) + 1} /\ dead'[e] = dead[e] \cup ({parent} \ {0})
  BY <1>1, PutFacts
<1> QED BY <1>1, <1>2, <1>3 DEF parent

LEMMA DoomedHolds ==
    ASSUME TreeInv, Next, Alone, NEW e \in Device, job'[e]["queue"].pc = "delete"
    PROVE  Head(job'[e]["queue"].doomed) \in Leaves(e)'
<1> DEFINE j == job[e]["queue"]
           k == job'[e]["queue"]
<1>1. TreeType /\ JobsKnow /\ JobsHold /\ setup' = setup
  BY DEF TreeInv, Next
<1>2. k = j \/ DropOlder(e) \/ Recheck(e) \/ Store(e)
  BY <1>1, QueueMoves DEF Comes
<1>3. CASE k = j
  <2>1. known'[e] = known[e] /\ dead'[e] = dead[e]
    BY <1>1, <1>3, QuietTree
  <2> QED BY <1>1, <1>3, <2>1 DEF JobsHold, Leaves
<1>4. CASE DropOlder(e)
  <2>1. Head(k.doomed) = Loser(Winner(e), Rival(e)) /\ Conflicted(e)
    BY <1>4, DropJob
  <2>2. Winner(e) \in Leaves(e) /\ Rival(e) \in Leaves(e)
    BY <1>1, <2>1, RivalFacts
  <2>3. Leaves(e)' = Leaves(e)
    BY <1>4 DEF DropOlder, Leaves
  <2> QED BY <2>1, <2>2, <2>3 DEF Loser
<1>5. CASE Recheck(e)
  <2>1. Head(k.doomed) \in Leaves(e)
    BY <1>5, RecheckJob
  <2>2. Leaves(e)' = Leaves(e)
    BY <1>5 DEF Recheck, Leaves
  <2> QED BY <2>1, <2>2
<1>6. CASE Store(e)
  <2>1. j.pc = "store" /\ Head(k.doomed) = j.right
    BY <1>6, StoreJob
  <2>2. j.left = Winner(e) /\ j.right \in Leaves(e)
    BY <1>1, <2>1 DEF JobsHold
  <2>3. j.left # j.right /\ dead'[e] = dead[e] \cup {Winner(e)} /\ known[e] \subseteq known'[e]
    BY <1>1, <1>6, <2>2, StoreLeaves
  <2> QED BY <2>1, <2>2, <2>3 DEF Leaves
<1> QED BY <1>2, <1>3, <1>4, <1>5, <1>6

LEMMA HoldStep ==
    ASSUME TreeInv, Next, Grows
    PROVE  JobsHold'
<1>1. Device' = Device /\ (Alone' <=> Alone)
  BY DEF Grows, Device, Alone, Quietly
<1>2. SUFFICES ASSUME Alone, NEW e \in Device
               PROVE  /\ job'[e]["queue"].pc = "store" =>
                           job'[e]["queue"].left = Winner(e)' /\ job'[e]["queue"].right \in Leaves(e)'
                      /\ job'[e]["queue"].pc = "delete" => Head(job'[e]["queue"].doomed) \in Leaves(e)'
  BY <1>1 DEF JobsHold
<1> DEFINE j == job[e]["queue"]
           k == job'[e]["queue"]
<1>3. /\ job \in [Device -> [Worker -> Job]] /\ "queue" \in Worker /\ j \in Job
      /\ TreeType /\ JobsKnow /\ JobsHold
  BY JobFacts DEF TreeInv, TreeType, Worker
<1>4. k.pc = "delete" => Head(k.doomed) \in Leaves(e)'
  BY <1>2, DoomedHolds
<1>5. SUFFICES ASSUME k.pc = "store"
               PROVE  k.left = Winner(e) /\ k.right \in Leaves(e) /\ Leaves(e)' = Leaves(e)
  <2>1. ASSUME k.left = Winner(e), k.right \in Leaves(e), Leaves(e)' = Leaves(e)
        PROVE  Winner(e)' = Winner(e)
    BY <1>3, <2>1, WinnerStays DEF Grows
  <2> QED BY <1>4, <2>1
<1>6. k = j \/ MergeSensibly(e) \/ Recheck(e)
  BY <1>3, <1>5, QueueMoves DEF Comes
<1>7. CASE k = j
  <2>1. known'[e] = known[e] /\ dead'[e] = dead[e]
    BY <1>2, <1>3, <1>5, <1>7, QuietTree
  <2>2. Leaves(e)' = Leaves(e)
    BY <2>1 DEF Leaves
  <2> QED BY <1>2, <1>3, <1>5, <1>7, <2>2 DEF JobsHold
<1>8. CASE MergeSensibly(e)
  <2>1. /\ k = [pc |-> "store", left |-> Winner(e), right |-> Rival(e), doomed |-> <<>>, how |-> "sensible"]
        /\ UNCHANGED <<info, known, dead>> /\ Conflicted(e)
    BY <1>3, <1>8 DEF MergeSensibly, QueueBecomes, Readable
  <2>2. k.left = Winner(e) /\ k.right = Rival(e)
    BY <2>1
  <2> QED BY <1>3, <2>1, <2>2, RivalFacts DEF Leaves
<1>9. CASE Recheck(e)
  <2>1. /\ k = (IF j.how = "concat" THEN [j EXCEPT !.pc = "store"]
                ELSE [j EXCEPT !.pc = "delete", !.how = "choice",
                               !.doomed = <<IF j.how = "left" THEN j.left ELSE j.right>>])
        /\ UNCHANGED <<info, known, dead>> /\ j.left = Winner(e) /\ j.right \in Leaves(e)
    BY <1>3, <1>9 DEF Recheck, QueueBecomes, StillShown
  <2>2. k.left = j.left /\ k.right = j.right
    BY <1>3, <2>1 DEF Job
  <2> QED BY <2>1, <2>2 DEF Leaves
<1> QED BY <1>6, <1>7, <1>8, <1>9

-----------------------------------------------------------------------------
(* The invariant holds. *)

LEMMA TreeInit ==
    ASSUME Init
    PROVE  TreeInv
<1>1. setup \in Setups /\ IsSetup(setup)
  BY ConflictAssumption DEF Init
<1>2. /\ setup.start \in Seq(RevisionRecord)
      /\ setup.has \in [DOMAIN setup.has -> (SUBSET (1 .. Len(setup.start))) \ {{}}]
  BY <1>1 DEF IsSetup
<1>3. info = setup.start /\ info \in Seq(RevisionRecord) /\ DOMAIN info = 1 .. Len(info) /\ Len(info) \in Nat
  BY <1>2 DEF Init
<1>4. known \in [Device -> SUBSET DOMAIN info] /\ \A d \in Device : known[d] # {}
  <2> DEFINE P == SUBSET DOMAIN info
  <2>1. known = setup.has /\ known \in [Device -> P \ {{}}]
    <3>1. known = setup.has /\ Device = DOMAIN setup.has
      BY DEF Init, Device
    <3>2. 1 .. Len(setup.start) = DOMAIN info
      BY <1>3
    <3>3. setup.has \in [DOMAIN setup.has -> P \ {{}}]
      <4> HIDE DEF P
      <4>1. P = SUBSET (1 .. Len(setup.start))
        BY <3>2 DEF P
      <4> QED BY <1>2, <4>1
    <3> HIDE DEF P
    <3> QED BY <3>1, <3>3
  <2>2. known \in [Device -> P] /\ \A d \in Device : known[d] # {}
    <3> HIDE DEF P
    <3> QED BY <2>1
  <2> QED BY <2>2
<1>5. dead = [d \in Device |-> {}] /\ \A d \in Device : Leaves(d) = known[d]
  BY DEF Init, Leaves
<1>6. \A d \in Device : Winner(d) \in known[d] /\ Winner(d) \in Nat
  <2>1. IsFiniteSet(DOMAIN info)
    BY <1>3, FS_Interval
  <2>2. \A r \in DOMAIN info : r \in Nat /\ info[r].gen \in Nat
    <3>1. \A r \in DOMAIN info : info[r] \in RevisionRecord
      BY <1>3
    <3> QED BY <1>3, <3>1 DEF RevisionRecord
  <2>3. ASSUME NEW d \in Device PROVE Winner(d) \in known[d] /\ Winner(d) \in Nat
    <3>1. known[d] \subseteq DOMAIN info
      BY <1>4
    <3>2. Numbered(info, known[d]) /\ IsFiniteSet(known[d]) /\ known[d] # {}
      BY <1>4, <2>1, <2>2, <3>1, FS_Subset DEF Numbered
    <3>3. TopIn(info, known[d]) \in known[d]
      BY <3>2, TopExists
    <3> QED BY <1>5, <2>2, <3>1, <3>3, WinnerIsTop
  <2> QED BY <2>3
<1>7. vault \in [Device -> Nat] /\ \A d \in Device : vault[d] \in known[d]
  BY <1>6 DEF Init
<1>8. job \in [Device -> [Worker -> Job]] /\ \A d \in Device, w \in Worker : job[d][w] = Idle
  BY IdleFacts DEF Init
<1>9. TreeType
  BY <1>1, <1>3, <1>4, <1>5, <1>7, <1>8 DEF TreeType, Init
<1>10. JobsKnow /\ JobsRead
  <2>1. "queue" \in Worker
    BY DEF Worker
  <2> QED BY <1>8, <2>1, IdleFacts DEF JobsKnow, JobsRead
<1>11. JobsHold
  BY <1>8, IdleFacts DEF JobsHold, Worker
<1> QED BY <1>9, <1>10, <1>11 DEF TreeInv

LEMMA TreeStep ==
    ASSUME TreeInv, [Next]_vars
    PROVE  TreeInv' /\ Grows
<1>1. CASE Next
  <2>1. TreeType' /\ Grows
    BY <1>1, TypeStep DEF TreeInv
  <2>2. JobsKnow' /\ JobsRead'
    BY <1>1, <2>1, JobsStep DEF TreeInv
  <2>3. JobsHold'
    BY <1>1, <2>1, HoldStep
  <2> QED BY <2>1, <2>2, <2>3 DEF TreeInv
<1>2. CASE vars' = vars
  <2>1. UNCHANGED <<setup, info, known, dead, unreflected, queued, postponed, job, file, lost>>
    BY <1>2 DEF vars
  <2>2. TreeType'
    BY <2>1 DEF TreeInv, TreeType, Device
  <2>3. JobsKnow' /\ JobsRead'
    BY <2>1 DEF TreeInv, JobsKnow, JobsRead, Device, Unreadable
  <2>4. JobsHold'
    BY <2>1 DEF TreeInv, JobsHold, Device, Alone, Quietly, Winner, Leaves, Above
  <2>5. Grows
    BY <2>1 DEF Grows
  <2> QED BY <2>2, <2>3, <2>4, <2>5 DEF TreeInv
<1> QED BY <1>1, <1>2

\* The trees, the jobs and what the file shows are well formed, and while a text is
\* being stored on a quiet device, what it was made from is still what is current.
THEOREM TreesAreSound == Spec => []TreeInv
<1>1. TreeInv /\ [Next]_vars => TreeInv'
  BY TreeStep
<1> QED BY <1>1, TreeInit, PTL DEF Spec

\* Every variable has its type; a revision is invented by nobody, and a program at
\* work has something to do.
THEOREM TypeCorrect == Spec => []TypeOK
<1>1. TreeInv => TypeOK
  <2>1. ASSUME TreeInv PROVE TypeOK
    <3>1. TreeType /\ JobsKnow
      BY <2>1 DEF TreeInv
    <3>2. \A d \in Device, w \in Worker :
            /\ job[d][w].pc \in Steps
            /\ job[d][w].pc \in {"delete", "count", "write"} => job[d][w].doomed \in Seq(known[d]) \ {<<>>}
      BY <3>1, JobFacts DEF JobsKnow, JobKnows
    <3> QED BY <3>1, <3>2 DEF TypeOK, TreeType, Steps
  <2> QED BY <2>1
<1> QED BY <1>1, TreesAreSound, PTL

\* The queue never deletes a leaf it cannot read, whatever else happens to the file.
THEOREM Kept == Spec => UnreadableIsKept
<1>1. TreeInv /\ [Next]_vars =>
        [\A d \in Device :
           LET j == job[d]["queue"] IN
           j.pc = "delete" /\ job'[d]["queue"].pc = "count" => Head(j.doomed) \notin Unreadable]_vars
  <2>1. TreeInv => \A d \in Device : job[d]["queue"].pc = "delete" => Head(job[d]["queue"].doomed) \notin Unreadable
    BY DEF TreeInv, JobsRead, JobReads
  <2> QED BY <2>1
<1> QED BY <1>1, TreesAreSound, PTL DEF Spec, UnreadableIsKept
-----------------------------------------------------------------------------
(* The order in which revisions outlive each other. *)

LEMMA OverFacts ==
    ASSUME TreeType
    PROVE  /\ \A r \in DOMAIN info : Class(r) \in Nat /\ ~Over(r, r)
           /\ \A r, s \in DOMAIN info : r = s \/ Over(r, s) \/ Over(s, r)
           /\ \A r, s \in DOMAIN info : ~(Over(r, s) /\ Over(s, r))
           /\ \A r, s, t \in DOMAIN info : Over(t, s) /\ Over(s, r) => Over(t, r)
<1>1. \A r \in DOMAIN info : r \in Nat /\ info[r].gen \in Nat /\ info[r].mtime \in Nat
  BY InfoFacts
<1>2. \A r \in DOMAIN info : Class(r) \in Nat
  BY <1>1, DivMonotone DEF Class
<1>3. \A r, s \in DOMAIN info : r = s \/ Above(r, s) \/ Above(s, r)
  BY <1>1 DEF Above
<1>4. \A r, s \in DOMAIN info : ~(Above(r, s) /\ Above(s, r)) /\ ~Above(r, r)
  BY <1>1 DEF Above
<1>5. \A r, s, t \in DOMAIN info : Above(t, s) /\ Above(s, r) => Above(t, r)
  BY <1>1 DEF Above
<1> QED
  <2>1. \A r \in DOMAIN info : ~Over(r, r)
    BY <1>2, <1>4 DEF Over
  <2>2. \A r, s \in DOMAIN info : r = s \/ Over(r, s) \/ Over(s, r)
    BY <1>2, <1>3 DEF Over
  <2>3. \A r, s \in DOMAIN info : ~(Over(r, s) /\ Over(s, r))
    BY <1>2, <1>4 DEF Over
  <2>4. \A r, s, t \in DOMAIN info : Over(t, s) /\ Over(s, r) => Over(t, r)
    BY <1>2, <1>5 DEF Over
  <2> QED BY <1>2, <2>1, <2>2, <2>3, <2>4

\* Of some revisions, one is outlived by none of them.
LEMMA OverTop ==
    ASSUME TreeType, NEW T, T \subseteq DOMAIN info, T # {}
    PROVE  \E m \in T : \A s \in T : ~Over(s, m)
<1> DEFINE R == {p \in T \X T : p[1] = p[2] \/ Over(p[2], p[1])}
<1>1. IsFiniteSet(T)
  BY InfoFacts, FS_Subset
<1>2. \A x, y \in T : <<x, y>> \in R <=> x = y \/ Over(y, x)
  OBVIOUS
<1>3. TotalOn(R, T)
  <2> HIDE DEF R
  <2>1. \A x, y \in T : x = y \/ Over(y, x) \/ Over(x, y)
    BY OverFacts
  <2>2. \A x, y, z \in T : Over(y, x) /\ Over(z, y) => Over(z, x)
    BY OverFacts
  <2> QED BY <1>2, <2>1, <2>2 DEF TotalOn
<1>4. PICK m \in T : \A x \in T : <<x, m>> \in R
  <2> HIDE DEF R
  <2> QED BY <1>1, <1>3, FiniteHasTop
<1>5. \A s \in T : s = m \/ Over(m, s)
  BY <1>2, <1>4
<1>6. \A s \in T : ~Over(s, m)
  BY <1>5, OverFacts
<1> QED BY <1>6

\* What is written once stays in its place.
LEMMA OverGrows ==
    ASSUME Grows, NEW r \in DOMAIN info, NEW s \in DOMAIN info
    PROVE  Over(s, r)' <=> Over(s, r)
<1>1. info'[r] = info[r] /\ info'[s] = info[s]
  BY DEF Grows
<1> QED BY <1>1 DEF Over, Class, Above

\* A revision written now outlives what it replaces and is not shorter than, if the
\* clock went forward.
LEMMA PutOver ==
    ASSUME TreeType, NEW d \in Device, NEW parent \in known[d], NEW from \in SUBSET Nat, NEW replaced,
           Put(d, parent, from, replaced), setup' = setup, givenUp' = givenUp,
           overwritten \subseteq overwritten', ~backdated',
           TreeType', NEW r \in DOMAIN info, r \in replaced, info[r].gen <= info[parent].gen,
           NEW n, n = Len(info) + 1
    PROVE  Over(n, r)'
<1>1. parent \in DOMAIN info /\ parent \in known[d] \cup {0} /\ parent # 0
  BY LeavesFacts, InfoFacts
<1>2. /\ info'[r] = info[r] /\ info'[n].gen = info[parent].gen + 1 /\ info'[n].mtime \in Nat
      /\ ~(info'[n].mtime \div Resolution < Class(r))
  BY <1>1, PutFacts
<1>3. info[r].gen \in Nat /\ info[r].mtime \in Nat /\ info[parent].gen \in Nat
  BY <1>1, InfoFacts
<1>4. Class(r)' = Class(r) /\ Class(r) \in Nat /\ Class(n)' \in Nat /\ Class(n)' >= Class(r)
  <2>1. info[r].mtime \div Resolution \in Nat /\ info'[n].mtime \div Resolution \in Nat
    <3>1. \A a \in Nat : a \div Resolution \in Nat
      BY DivMonotone
    <3> QED BY <1>2, <1>3, <3>1
  <2>2. Class(r) = info[r].mtime \div Resolution /\ Class(n)' = info'[n].mtime \div Resolution
        /\ Class(r)' = info[r].mtime \div Resolution
    BY <1>2 DEF Class
  <2>3. PICK a \in Nat, b \in Nat : /\ a = info[r].mtime \div Resolution /\ b = info'[n].mtime \div Resolution
                                  /\ ~(b < a)
    BY <1>2, <2>1, <2>2
  <2> QED BY <2>2, <2>3
<1>5. Above(n, r)'
  <2>1. info'[n].gen > info'[r].gen
    BY <1>2, <1>3
  <2> QED BY <2>1 DEF Above
<1> QED BY <1>4, <1>5 DEF Over

\* The one of two revisions that is not dropped outlives the other.
LEMMA LoserIsOutlived ==
    ASSUME TreeType, NEW d \in Device, Conflicted(d)
    PROVE  LET l == Loser(Winner(d), Rival(d)) IN
           \E s \in {Winner(d), Rival(d)} : l \in {Winner(d), Rival(d)} /\ Over(s, l)
<1>1. Winner(d) \in known[d] /\ Rival(d) \in known[d] /\ Above(Winner(d), Rival(d))
  BY RivalFacts
<1>2. Class(Winner(d)) \in Nat /\ Class(Rival(d)) \in Nat
  BY <1>1, LeavesFacts, OverFacts
<1> QED BY <1>1, <1>2 DEF Loser, Over
\* What storing and editing write into the tree.
LEMMA StoreWrites ==
    ASSUME TreeInv, TreeType', NEW e \in Device, Store(e), setup' = setup
    PROVE  LET j == job[e]["queue"]
               text == info[j.left].from \cup info[j.right].from
           IN \E n \in known'[e] :
              /\ n \notin DOMAIN info /\ known'[e] = known[e] \cup {n}
              /\ j.left \in known[e] /\ j.right \in known[e] /\ j.left # j.right
              /\ info'[n].from = text
              /\ ~backdated' => \A r \in {j.right} \cap Leaves(e) : Over(n, r)'
              /\ Leaves(e) = {} => dead'[e] = dead[e] /\ overwritten' = overwritten
              /\ Leaves(e) # {} =>
                   /\ dead'[e] = dead[e] \cup {Winner(e)}
                   /\ overwritten' = overwritten \cup (info[Winner(e)].from \ text)
                   /\ ~backdated' => \A x \in known[e] : x = Winner(e) => Over(n, x)'
<1> DEFINE j == job[e]["queue"]
           parent == IF Leaves(e) = {} THEN 0 ELSE Winner(e)
           from == info[j.left].from \cup info[j.right].from
           replaced == {parent, j.right} \cap Leaves(e)
<1>1. TreeType /\ JobsKnow
  BY DEF TreeInv
<1>2. /\ parent \in known[e] \cup {0} /\ from \in SUBSET Nat /\ Put(e, parent, from, replaced)
      /\ overwritten' = overwritten \cup IF parent = 0 THEN {} ELSE info[parent].from \ from
      /\ givenUp' = givenUp
      /\ j.left \in known[e] /\ j.right \in known[e] /\ j.left # j.right
  BY <1>1, StorePuts
<1>3. Leaves(e) # {} =>
        parent = Winner(e) /\ parent \in Leaves(e) /\ parent \in known[e] /\ parent \in Nat \ {0}
        /\ \A s \in Leaves(e) \ {parent} : Above(parent, s)
  BY <1>1, WinnerFacts, LeavesFacts, InfoFacts
<1>4. Leaves(e) = {} => parent = 0
  OBVIOUS
<1>5. PICK n : n = Len(info) + 1
  OBVIOUS
<1>6. parent \in Leaves(e) => parent \in replaced
  OBVIOUS
<1>7. j.right \in Leaves(e) => j.right \in replaced
  OBVIOUS
<1> HIDE DEF parent, from, j, replaced
<1>8. /\ parent \in known[e] \cup {0} /\ from \in SUBSET Nat /\ Put(e, parent, from, replaced)
      /\ overwritten \subseteq overwritten' /\ givenUp' = givenUp
  BY <1>2
<1>9. /\ n \notin DOMAIN info /\ known'[e] = known[e] \cup {n} /\ dead'[e] = dead[e] \cup ({parent} \ {0})
      /\ info'[n].from = from
  BY <1>1, <1>5, <1>8, PutFacts
<1>10. ASSUME ~backdated', NEW r \in Leaves(e), r \in replaced PROVE Over(n, r)'
  <2>1. r \in DOMAIN info /\ info[r].gen \in Nat /\ info[parent].gen \in Nat /\ Leaves(e) # {}
    BY <1>1, <1>3, <1>10, LeavesFacts, InfoFacts
  <2>2. info[r].gen <= info[parent].gen
    BY <1>3, <2>1 DEF Above
  <2> QED BY <1>1, <1>2, <1>3, <1>5, <1>8, <1>10, <2>1, <2>2, PutOver
<1>11. ~backdated' => \A r \in {j.right} \cap Leaves(e) : Over(n, r)'
  BY <1>7, <1>10
<1>12. Leaves(e) # {} /\ ~backdated' => \A x \in known[e] : x = parent => Over(n, x)'
  BY <1>3, <1>6, <1>10
<1>13. Leaves(e) # {} => parent = Winner(e) /\ dead'[e] = dead[e] \cup {parent}
                        /\ overwritten' = overwritten \cup (info[parent].from \ from)
  BY <1>2, <1>3, <1>9
<1>14. Leaves(e) # {} => /\ dead'[e] = dead[e] \cup {Winner(e)}
                         /\ overwritten' = overwritten \cup (info[Winner(e)].from \ from)
                         /\ ~backdated' => \A x \in known[e] : x = Winner(e) => Over(n, x)'
  BY <1>12, <1>13
<1>15. Leaves(e) = {} => dead'[e] = dead[e] /\ overwritten' = overwritten
  BY <1>2, <1>4, <1>9
<1> QED BY <1>2, <1>9, <1>11, <1>14, <1>15 DEF from, j

LEMMA EditWrites ==
    ASSUME TreeInv, TreeType', NEW e \in Device, Edit(e), setup' = setup
    PROVE  \E n \in known'[e] :
              /\ n \notin DOMAIN info /\ known'[e] = known[e] \cup {n} /\ dead'[e] = dead[e] \cup {vault[e]}
              /\ vault[e] \in known[e] /\ vault'[e] = n /\ info[vault[e]].from \subseteq info'[n].from
              /\ ~backdated' => \A p \in known[e] : p = vault[e] => Over(n, p)'
<1> DEFINE parent == vault[e]
           from == info[parent].from \cup {Len(info) + 1}
           replaced == {parent}
<1>1. TreeType
  BY DEF TreeInv
<1>2. /\ parent \in known[e] \cup {0} /\ parent # 0 /\ from \in SUBSET Nat /\ Put(e, parent, from, replaced)
      /\ givenUp' = givenUp /\ overwritten \subseteq overwritten'
  BY <1>1, EditPuts
<1>3. parent \in known[e] /\ parent \in DOMAIN info /\ info[parent].gen \in Nat
  BY <1>1, <1>2, LeavesFacts, InfoFacts
<1>4. PICK n : n = Len(info) + 1
  OBVIOUS
<1>5. vault'[e] = n
  BY <1>1, <1>4 DEF Edit, TreeType
<1>6. info[parent].from \subseteq from
  OBVIOUS
<1>7. \A r \in DOMAIN info : r = parent => info[r].gen <= info[parent].gen /\ r \in replaced
  BY <1>3
<1> HIDE DEF parent, from, replaced
<1>8. /\ n \notin DOMAIN info /\ known'[e] = known[e] \cup {n} /\ dead'[e] = dead[e] \cup ({parent} \ {0})
      /\ info'[n].from = from
  BY <1>1, <1>2, <1>4, PutFacts
<1>9. ~backdated' => \A r \in DOMAIN info : r = parent => Over(n, r)'
  BY <1>1, <1>2, <1>3, <1>4, <1>7, PutOver
<1>10. ~backdated' => \A p \in known[e] : p = parent => Over(n, p)'
  BY <1>1, <1>9, LeavesFacts
<1> QED BY <1>2, <1>3, <1>5, <1>6, <1>8, <1>10 DEF parent
-----------------------------------------------------------------------------
(* The deletions of the queue. *)

LEMMA DeleteJob ==
    ASSUME TreeInv, NEW e \in Device, NEW w \in Worker, Delete(e, w)
    PROVE  LET j == job[e][w]  r == Head(j.doomed) IN
           /\ j.pc = "delete" /\ r \in Leaves(e)
           /\ known'[e] = known[e] /\ dead'[e] = dead[e] \cup {r} /\ info' = info
           /\ overwritten' = overwritten
           /\ w # "queue" \/ j.how \notin Lossless => info[r].from \subseteq givenUp'
           /\ IF w = "discard" THEN unwritten'[e] ELSE job'[e][w].pc = "count"
           /\ setup.commands = {} => w = "queue"
<1> DEFINE j == job[e][w]
           r == Head(j.doomed)
<1>1. j.pc = "delete" /\ j \in Job /\ JobKnows(w, j, known[e], setup)
  BY JobFacts DEF Delete, TreeInv, JobsKnow
<1>2. setup.commands = {} => w = "queue"
  BY <1>1 DEF JobKnows, Worker
<1>3. w # "queue" => j.how \notin Lossless
  BY <1>1 DEF JobKnows, Lossless
<1>4. IF w = "discard" THEN unwritten'[e] ELSE job'[e][w].pc = "count"
  <2>1. CASE w = "discard"
    BY <2>1 DEF Delete, TreeInv, TreeType
  <2>2. CASE w # "discard"
    <3>1. job' = [job EXCEPT ![e] = [u \in Worker |-> IF u = w THEN [j EXCEPT !.pc = "count"] ELSE Cancel(job[e][u])]]
      BY <2>2 DEF Delete
    <3>2. job'[e][w] = [j EXCEPT !.pc = "count"]
      BY <3>1 DEF TreeInv, TreeType
    <3>3. job'[e][w].pc = "count"
      BY <1>1, <3>2 DEF Job
    <3> QED BY <2>2, <3>3
  <2> QED BY <2>1, <2>2
<1>5. /\ r \in Leaves(e) /\ known'[e] = known[e] /\ dead'[e] = dead[e] \cup {r} /\ info' = info
      /\ overwritten' = overwritten
      /\ givenUp' = IF j.how \in Lossless THEN givenUp ELSE givenUp \cup info[r].from
  BY DEF Delete, TreeInv, TreeType, Lossless
<1> HIDE DEF j, r
<1>6. w # "queue" \/ j.how \notin Lossless => info[r].from \subseteq givenUp'
  BY <1>3, <1>5
<1> QED BY <1>1, <1>2, <1>4, <1>5, <1>6 DEF j, r

-----------------------------------------------------------------------------
(* Nothing is lost: what dies is outlived by what holds its content. *)

LEMMA VersionsStep ==
    ASSUME TreeInv, TreeInv', VersionsMove, JobsKeep, Next, Grows
    PROVE  VersionsMove'
<1>1. /\ TreeType /\ TreeType' /\ JobsKnow /\ JobsHold
      /\ Device' = Device /\ setup' = setup
  BY DEF TreeInv, Grows, Device
<1>2. SUFFICES ASSUME ~backdated', NEW e \in Device, NEW r \in dead'[e], NEW v \in info'[r].from,
                      v \notin givenUp' \cup overwritten'
               PROVE  \E s \in known'[e] : Over(s, r)' /\ v \in info'[s].from
  BY <1>1 DEF VersionsMove
<1>3. ~backdated /\ "queue" \in Worker
  BY <1>2 DEF Grows, Worker
<1>4. v \notin givenUp \cup overwritten /\ \A d \in Device : known[d] \subseteq known'[d] /\ known[d] \subseteq DOMAIN info
                                            /\ dead[d] \subseteq DOMAIN info
  BY <1>1, <1>2, LeavesFacts DEF Grows
\* What was outlived before still is.
<1>5. ASSUME NEW d \in Device, known[d] \subseteq known'[e], r \in DOMAIN info,
             \E s \in known[d] : Over(s, r) /\ v \in info[s].from
      PROVE  \E s \in known'[e] : Over(s, r)' /\ v \in info'[s].from
  <2>1. PICK s \in known[d] : Over(s, r) /\ v \in info[s].from
    BY <1>5
  <2>2. s \in DOMAIN info /\ info'[s] = info[s]
    BY <1>4 DEF Grows
  <2>3. Over(s, r)'
    BY <1>5, <2>1, <2>2, OverGrows
  <2> QED BY <1>5, <2>1, <2>2, <2>3
<1>6. r \in DOMAIN info => info'[r] = info[r]
  BY DEF Grows
<1>7. ASSUME NEW d \in Device, known[d] \subseteq known'[e], r \in dead[d]
      PROVE  \E s \in known'[e] : Over(s, r)' /\ v \in info'[s].from
  <2>1. r \in DOMAIN info /\ v \in info[r].from
    BY <1>2, <1>4, <1>6, <1>7
  <2>2. \E s \in known[d] : Over(s, r) /\ v \in info[s].from
    BY <1>3, <1>4, <1>7, <2>1 DEF VersionsMove
  <2> QED BY <1>5, <1>7, <2>1, <2>2
<1>8. CASE r \in dead[e]
  BY <1>4, <1>7, <1>8
<1>9. CASE r \notin dead[e]
  <2>1. CASE known'[e] = known[e] /\ dead'[e] = dead[e]
    BY <1>9, <2>1
  <2>2. CASE Store(e)
    <3> DEFINE j == job[e]["queue"]
    <3> DEFINE text == info[j.left].from \cup info[j.right].from
    <3>1. PICK n \in known'[e] :
            /\ info'[n].from = text
            /\ Leaves(e) = {} => dead'[e] = dead[e]
            /\ Leaves(e) # {} =>
                   /\ dead'[e] = dead[e] \cup {Winner(e)}
                   /\ overwritten' = overwritten \cup (info[Winner(e)].from \ text)
                   /\ ~backdated' => \A x \in known[e] : x = Winner(e) => Over(n, x)'
      BY <1>1, <2>2, StoreWrites
    <3> HIDE DEF text
    <3>2. r = Winner(e) /\ Leaves(e) # {}
      BY <1>9, <3>1
    <3>3. r \in DOMAIN info /\ r \in known[e]
      BY <1>1, <3>2, WinnerFacts, LeavesFacts
    <3>4. v \in info'[n].from
      BY <1>2, <1>6, <3>1, <3>2, <3>3
    <3>5. Over(n, r)'
      BY <1>2, <3>1, <3>2, <3>3
    <3> QED BY <3>4, <3>5
  <2>3. CASE Edit(e)
    <3>1. PICK n \in known'[e] :
            /\ dead'[e] = dead[e] \cup {vault[e]} /\ vault[e] \in known[e]
            /\ info[vault[e]].from \subseteq info'[n].from
            /\ ~backdated' => \A p \in known[e] : p = vault[e] => Over(n, p)'
      BY <1>1, <2>3, EditWrites
    <3>2. r = vault[e] /\ r \in known[e] /\ r \in DOMAIN info
      BY <1>4, <1>9, <3>1
    <3>3. v \in info'[n].from
      BY <1>6, <3>1, <3>2
    <3>4. Over(n, r)'
      BY <1>2, <3>1, <3>2
    <3> QED BY <3>3, <3>4
  <2>4. ASSUME NEW w \in Worker, Delete(e, w)
        PROVE  \E s \in known'[e] : Over(s, r)' /\ v \in info'[s].from
    <3> DEFINE j == job[e][w]
    <3>1. /\ j.pc = "delete" /\ Head(j.doomed) \in Leaves(e) /\ known'[e] = known[e]
          /\ dead'[e] = dead[e] \cup {Head(j.doomed)}
          /\ w # "queue" \/ j.how \notin Lossless => info[Head(j.doomed)].from \subseteq givenUp'
      BY <1>1, <2>4, DeleteJob
    <3>2. r = Head(j.doomed) /\ r \in DOMAIN info
      BY <1>1, <1>9, <3>1, LeavesFacts
    <3>3. v \in info[r].from /\ w = "queue" /\ j.how \in Lossless
      BY <1>2, <1>6, <3>1, <3>2
    <3>4. \E s \in known[e] : Over(s, r) /\ info[r].from \subseteq info[s].from
      BY <1>3, <1>9, <3>1, <3>2, <3>3 DEF JobsKeep
    <3>5. \E s \in known[e] : Over(s, r) /\ v \in info[s].from
      BY <3>3, <3>4
    <3> QED BY <1>5, <3>1, <3>2, <3>5
  <2>5. ASSUME NEW d \in Device \ {e}, Replicate(d, e)
        PROVE  \E s \in known'[e] : Over(s, r)' /\ v \in info'[s].from
    <3>1. known[d] \subseteq known'[e] /\ dead'[e] = dead[e] \cup dead[d]
      BY <1>1, <2>5 DEF Replicate, TreeType
    <3>2. r \in dead[d]
      BY <1>9, <3>1
    <3> QED BY <1>7, <3>1, <3>2
  <2> QED BY <1>1, <2>1, <2>2, <2>3, <2>4, <2>5, TreeMoves
<1> QED BY <1>8, <1>9

LEMMA CopiesStep ==
    ASSUME TreeInv, TreeInv', JobsKeep, Next, Grows
    PROVE  JobsKeep'
<1>1. /\ TreeType /\ TreeType' /\ JobsKnow /\ JobsHold
      /\ Device' = Device /\ setup' = setup
  BY DEF TreeInv, Grows, Device
<1>2. SUFFICES ASSUME ~backdated', NEW e \in Device, job'[e]["queue"].pc = "delete",
                      job'[e]["queue"].how \in Lossless, NEW r, r = Head(job'[e]["queue"].doomed), r \notin dead'[e]
               PROVE  \E s \in known'[e] : Over(s, r)' /\ info'[r].from \subseteq info'[s].from
  BY <1>1 DEF JobsKeep
<1> DEFINE j == job[e]["queue"]
           k == job'[e]["queue"]
<1>3. ~backdated /\ r \notin dead[e] /\ "queue" \in Worker
  BY <1>1, <1>2 DEF Grows, Worker
<1>4. known[e] \subseteq known'[e] /\ known[e] \subseteq DOMAIN info /\ Leaves(e) \subseteq known[e]
  BY <1>1, LeavesFacts DEF Grows
<1>5. ASSUME r \in DOMAIN info, \E s \in known[e] : Over(s, r) /\ info[r].from \subseteq info[s].from
      PROVE  \E s \in known'[e] : Over(s, r)' /\ info'[r].from \subseteq info'[s].from
  <2>1. PICK s \in known[e] : Over(s, r) /\ info[r].from \subseteq info[s].from
    BY <1>5
  <2>2. s \in DOMAIN info /\ info'[s] = info[s] /\ info'[r] = info[r]
    BY <1>4, <1>5 DEF Grows
  <2>3. Over(s, r)'
    BY <1>5, <2>1, <2>2, OverGrows
  <2> QED BY <1>4, <2>1, <2>2, <2>3
<1>6. k = j \/ DropOlder(e) \/ Recheck(e) \/ Store(e)
  BY <1>1, <1>2, QueueMoves DEF Comes
<1>7. CASE k = j
  <2>1. j.doomed \in Seq(known[e]) \ {<<>>}
    BY <1>1, <1>2, <1>3, <1>7 DEF JobsKnow, JobKnows
  <2>2. r \in known[e]
    BY <1>2, <1>7, <2>1, HeadTailProperties
  <2>3. \E s \in known[e] : Over(s, r) /\ info[r].from \subseteq info[s].from
    BY <1>2, <1>3, <1>7 DEF JobsKeep
  <2> QED BY <1>4, <1>5, <2>2, <2>3
<1>8. CASE DropOlder(e)
  <2>1. r = Loser(Winner(e), Rival(e)) /\ Conflicted(e) /\ info[Winner(e)].from = info[Rival(e)].from
    BY <1>2, <1>8, DropJob DEF Same, Lossless
  <2>2. PICK s \in {Winner(e), Rival(e)} : r \in {Winner(e), Rival(e)} /\ Over(s, r)
    BY <1>1, <2>1, LoserIsOutlived
  <2>3. s \in known[e] /\ r \in known[e]
    BY <1>1, <2>1, <2>2, RivalFacts
  <2> QED BY <1>4, <1>5, <2>1, <2>2, <2>3
<1>9. CASE Recheck(e)
  BY <1>2, <1>9, RecheckJob DEF Lossless
<1>10. CASE Store(e)
  <2>1. r = j.right /\ j.pc = "store"
    BY <1>2, <1>10, StoreJob
  <2>2. PICK n \in known'[e] :
          /\ j.right \in known[e]
          /\ info'[n].from = info[j.left].from \cup info[j.right].from
          /\ ~backdated' => \A x \in {j.right} \cap Leaves(e) : Over(n, x)'
    BY <1>1, <1>10, StoreWrites
  <2>3. r \in Leaves(e)
    BY <1>3, <2>1, <2>2 DEF Leaves
  <2>4. Over(n, r)'
    BY <1>2, <2>1, <2>2, <2>3
  <2>5. info'[r] = info[r]
    BY <1>4, <2>3 DEF Grows
  <2> QED BY <2>1, <2>2, <2>4, <2>5
<1> QED BY <1>6, <1>7, <1>8, <1>9, <1>10

\* Undisturbed, the text that is stored was made from what it replaces.
LEMMA MergesStep ==
    ASSUME TreeInv, TreeInv', MergesKnow, Next, Grows
    PROVE  MergesKnow'
<1>1. TreeType /\ TreeType' /\ JobsHold /\ setup' = setup /\ (Alone' <=> Alone)
  BY DEF TreeInv, Grows, Alone, Quietly
<1>2. SUFFICES ASSUME Alone PROVE overwritten' = overwritten
  BY <1>1 DEF MergesKnow
<1>3. ASSUME NEW e \in Device, Store(e) PROVE overwritten' = overwritten
  <2> DEFINE j == job[e]["queue"]
             text == info[j.left].from \cup info[j.right].from
  <2>1. j.left = Winner(e)
    BY <1>1, <1>2, <1>3, StoreJob DEF JobsHold
  <2>2. /\ Leaves(e) = {} => overwritten' = overwritten
        /\ Leaves(e) # {} => overwritten' = overwritten \cup (info[Winner(e)].from \ text)
    BY <1>1, <1>3, StoreWrites
  <2>3. info[Winner(e)].from \ text = {}
    BY <2>1
  <2> HIDE DEF text, j
  <2> QED BY <2>2, <2>3
<1> QED BY <1>3, OnlyStored DEF TreeInv

LEMMA KeepInit == ASSUME Init PROVE KeepInv
<1>1. \A d \in Device : dead[d] = {} /\ job[d]["queue"].pc = "idle"
  BY IdleFacts DEF Init, Worker
<1> QED BY <1>1 DEF KeepInv, VersionsMove, JobsKeep, MergesKnow, Init

LEMMA KeepStep ==
    ASSUME TreeInv, TreeInv', KeepInv, [Next]_vars
    PROVE  KeepInv'
<1>1. CASE Next
  BY <1>1, TreeStep, VersionsStep, CopiesStep, MergesStep DEF KeepInv
<1>2. CASE vars' = vars
  <2>1. UNCHANGED <<setup, info, known, dead, unreflected, queued, postponed, job, file, lost>>
    BY <1>2 DEF vars
  <2>2. Device' = Device /\ (Alone' <=> Alone)
    BY <2>1 DEF Device, Alone, Quietly
  <2>3. VersionsMove'
    BY <2>1, <2>2 DEF KeepInv, VersionsMove, Over, Class, Above
  <2>4. JobsKeep'
    BY <2>1, <2>2 DEF KeepInv, JobsKeep, Over, Class, Above
  <2>5. MergesKnow'
    BY <2>1, <2>2 DEF KeepInv, MergesKnow
  <2> QED BY <2>3, <2>4, <2>5 DEF KeepInv
<1> QED BY <1>1, <1>2

\* No content vanishes: each version a device ever had is part of one of its current
\* leaves, unless a user or a policy decided to drop it, a clock went back, or a text
\* was stored over it that was merged without it; which never happens undisturbed.
THEOREM VersionsAreKept == Spec => []NothingLost
<1>1. KeepInv /\ TreeInv /\ TreeInv' /\ [Next]_vars => KeepInv'
  BY KeepStep
<1>2. TreeInv /\ KeepInv => NothingLost
  <2>1. SUFFICES ASSUME TreeInv, KeepInv, ~backdated, NEW d \in Device, NEW r \in known[d], NEW v \in info[r].from,
                        v \notin givenUp \cup overwritten
                 PROVE  \E s \in Leaves(d) : v \in info[s].from
    BY DEF NothingLost, KeepInv, MergesKnow
  <2>2. TreeType /\ known[d] \subseteq DOMAIN info
    BY <2>1, LeavesFacts DEF TreeInv
  <2> DEFINE T == {s \in known[d] : v \in info[s].from}
  <2>3. PICK m \in T : \A s \in T : ~Over(s, m)
    <3>1. T \subseteq DOMAIN info /\ T # {}
      BY <2>1, <2>2
    <3> HIDE DEF T
    <3> QED BY <2>2, <3>1, OverTop
  <2>4. m \notin dead[d]
    BY <2>1, <2>2, <2>3 DEF KeepInv, VersionsMove
  <2> QED BY <2>3, <2>4 DEF Leaves
<1> QED BY <1>1, <1>2, KeepInit, TreesAreSound, PTL DEF Spec

-----------------------------------------------------------------------------
(* A version survives: with a newer-file policy every deletion spares a revision. *)

LEMMA RevisionsStep ==
    ASSUME TreeInv, TreeInv', RevisionsMove, JobsSpare, Next, Grows
    PROVE  RevisionsMove'
<1>1. /\ TreeType /\ TreeType' /\ JobsKnow
      /\ Device' = Device /\ (ByPolicy' => ByPolicy) /\ setup' = setup
  BY DEF TreeInv, Grows, Device, ByPolicy, Manual
<1>2. SUFFICES ASSUME ByPolicy, ~backdated', NEW e \in Device, NEW r \in dead'[e]
               PROVE  \E s \in known'[e] : Over(s, r)'
  BY <1>1 DEF RevisionsMove, ByPolicy
<1>3. setup.commands = {}
  BY <1>2 DEF ByPolicy
<1>4. \A d \in Device : known[d] \subseteq known'[d] /\ known[d] \subseteq DOMAIN info /\ dead[d] \subseteq DOMAIN info
  BY <1>1, LeavesFacts DEF Grows
<1>5. ASSUME NEW d \in Device, known[d] \subseteq known'[e], r \in DOMAIN info, \E s \in known[d] : Over(s, r)
      PROVE  \E s \in known'[e] : Over(s, r)'
  BY <1>4, <1>5, OverGrows
<1>6. ASSUME NEW d \in Device, known[d] \subseteq known'[e], r \in dead[d]
      PROVE  \E s \in known'[e] : Over(s, r)'
  BY <1>2, <1>4, <1>5, <1>6 DEF RevisionsMove
<1>7. CASE r \in dead[e]
  BY <1>4, <1>6, <1>7
<1>8. CASE r \notin dead[e]
  <2>1. CASE known'[e] = known[e] /\ dead'[e] = dead[e]
    BY <1>8, <2>1
  <2>2. CASE Store(e)
    <3>1. PICK n \in known'[e] :
            /\ Leaves(e) = {} => dead'[e] = dead[e]
            /\ Leaves(e) # {} =>
                   /\ dead'[e] = dead[e] \cup {Winner(e)}
                   /\ ~backdated' => \A x \in known[e] : x = Winner(e) => Over(n, x)'
      BY <1>1, <2>2, StoreWrites
    <3>2. r = Winner(e) /\ Leaves(e) # {}
      BY <1>8, <3>1
    <3>3. r \in known[e]
      BY <1>1, <3>2, WinnerFacts
    <3> QED BY <1>2, <3>1, <3>2, <3>3
  <2>3. CASE Edit(e)
    <3>1. PICK n \in known'[e] :
            /\ dead'[e] = dead[e] \cup {vault[e]} /\ vault[e] \in known[e]
            /\ ~backdated' => \A p \in known[e] : p = vault[e] => Over(n, p)'
      BY <1>1, <2>3, EditWrites
    <3>2. r = vault[e] /\ r \in known[e]
      BY <1>8, <3>1
    <3> QED BY <1>2, <3>1, <3>2
  <2>4. ASSUME NEW w \in Worker, Delete(e, w)
        PROVE  \E s \in known'[e] : Over(s, r)'
    <3> DEFINE j == job[e]["queue"]
    <3>1. /\ j.pc = "delete" /\ Head(j.doomed) \in Leaves(e) /\ known'[e] = known[e]
          /\ dead'[e] = dead[e] \cup {Head(j.doomed)}
      BY <1>3, <2>4, DeleteJob
    <3>2. r = Head(j.doomed) /\ r \in DOMAIN info
      BY <1>1, <1>8, <3>1, LeavesFacts
    <3>3. \E s \in known[e] : Over(s, r)
      BY <1>2, <1>8, <3>1, <3>2 DEF JobsSpare
    <3> QED BY <1>5, <3>1, <3>2, <3>3
  <2>5. ASSUME NEW d \in Device \ {e}, Replicate(d, e)
        PROVE  \E s \in known'[e] : Over(s, r)'
    <3>1. known[d] \subseteq known'[e] /\ dead'[e] = dead[e] \cup dead[d]
      BY <1>1, <2>5 DEF Replicate, TreeType
    <3>2. r \in dead[d]
      BY <1>8, <3>1
    <3> QED BY <1>6, <3>1, <3>2
  <2> QED BY <1>1, <2>1, <2>2, <2>3, <2>4, <2>5, TreeMoves
<1> QED BY <1>7, <1>8

LEMMA DoomedStep ==
    ASSUME TreeInv, TreeInv', JobsSpare, Next, Grows
    PROVE  JobsSpare'
<1>1. /\ TreeType /\ TreeType' /\ JobsKnow
      /\ Device' = Device /\ (ByPolicy' => ByPolicy) /\ setup' = setup
  BY DEF TreeInv, Grows, Device, ByPolicy, Manual
<1>2. SUFFICES ASSUME ByPolicy, ~backdated', NEW e \in Device, job'[e]["queue"].pc = "delete",
                      NEW r, r = Head(job'[e]["queue"].doomed)
               PROVE  r \in dead'[e] \/ \E s \in known'[e] : Over(s, r)'
  BY <1>1 DEF JobsSpare, ByPolicy
<1> DEFINE j == job[e]["queue"]
           k == job'[e]["queue"]
<1>3. setup.commands = {} /\ ~Manual /\ "queue" \in Worker
  BY <1>2 DEF ByPolicy, Worker
<1>4. known[e] \subseteq known'[e] /\ dead[e] \subseteq dead'[e] /\ known[e] \subseteq DOMAIN info
  BY <1>1, LeavesFacts DEF Grows
<1>5. ASSUME r \in known[e], \E s \in known[e] : Over(s, r)
      PROVE  \E s \in known'[e] : Over(s, r)'
  BY <1>4, <1>5, OverGrows
<1>6. k = j \/ DropOlder(e) \/ Recheck(e) \/ Store(e)
  BY <1>1, <1>2, QueueMoves DEF Comes
<1>7. CASE k = j
  <2>1. j.doomed \in Seq(known[e]) \ {<<>>}
    BY <1>1, <1>2, <1>3, <1>7 DEF JobsKnow, JobKnows
  <2>2. r \in known[e]
    BY <1>2, <1>7, <2>1, HeadTailProperties
  <2>3. r \in dead[e] \/ \E s \in known[e] : Over(s, r)
    BY <1>2, <1>7 DEF JobsSpare
  <2> QED BY <1>4, <1>5, <2>2, <2>3
<1>8. CASE DropOlder(e)
  <2>1. r = Loser(Winner(e), Rival(e)) /\ Conflicted(e)
    BY <1>2, <1>8, DropJob
  <2>2. PICK s \in {Winner(e), Rival(e)} : r \in {Winner(e), Rival(e)} /\ Over(s, r)
    BY <1>1, <2>1, LoserIsOutlived
  <2>3. s \in known[e] /\ r \in known[e]
    BY <1>1, <2>1, <2>2, RivalFacts
  <2> QED BY <1>5, <2>2, <2>3
<1>9. CASE Recheck(e)
  BY <1>2, <1>3, <1>9, RecheckJob
<1>10. CASE Store(e)
  <2>1. r = j.right
    BY <1>2, <1>10, StoreJob
  <2>2. PICK n \in known'[e] :
          /\ j.right \in known[e]
          /\ ~backdated' => \A x \in {j.right} \cap Leaves(e) : Over(n, x)'
    BY <1>1, <1>10, StoreWrites
  <2>3. CASE r \in dead[e]
    BY <1>4, <2>3
  <2>4. CASE r \notin dead[e]
    <3>1. r \in Leaves(e)
      BY <2>1, <2>2, <2>4 DEF Leaves
    <3> QED BY <1>2, <2>1, <2>2, <3>1
  <2> QED BY <2>3, <2>4
<1> QED BY <1>6, <1>7, <1>8, <1>9, <1>10

LEMMA SpareInit == ASSUME Init PROVE SpareInv
<1>1. \A d \in Device : dead[d] = {} /\ job[d]["queue"].pc = "idle"
  BY IdleFacts DEF Init, Worker
<1> QED BY <1>1 DEF SpareInv, RevisionsMove, JobsSpare

LEMMA SpareStep ==
    ASSUME TreeInv, TreeInv', SpareInv, [Next]_vars
    PROVE  SpareInv'
<1>1. CASE Next
  BY <1>1, TreeStep, RevisionsStep, DoomedStep DEF SpareInv
<1>2. CASE vars' = vars
  <2>1. UNCHANGED <<setup, info, known, dead, unreflected, queued, postponed, job, file, lost>>
    BY <1>2 DEF vars
  <2>2. Device' = Device /\ (ByPolicy' <=> ByPolicy)
    BY <2>1 DEF Device, ByPolicy, Manual
  <2> QED BY <2>1, <2>2 DEF SpareInv, RevisionsMove, JobsSpare, Over, Class, Above
<1> QED BY <1>1, <1>2

\* Resolving conflicts by the newer file never deletes the file, on any device, in
\* any order of edits, arrivals, failures and restarts, while clocks go forward.
THEOREM VersionSurvives == Spec => []SomeVersionSurvives
<1>1. SpareInv /\ TreeInv /\ TreeInv' /\ [Next]_vars => SpareInv'
  BY SpareStep
<1>2. TreeInv /\ SpareInv => SomeVersionSurvives
  <2>1. SUFFICES ASSUME TreeInv, SpareInv, ByPolicy, NEW d \in Device
                 PROVE  Leaves(d) # {}
    BY DEF SomeVersionSurvives, ByPolicy
  <2>2. TreeType /\ known[d] \subseteq DOMAIN info /\ known[d] # {}
    BY <2>1, LeavesFacts DEF TreeInv, TreeType
  <2>3. PICK m \in known[d] : \A s \in known[d] : ~Over(s, m)
    BY <2>2, OverTop
  <2>4. m \notin dead[d]
    BY <2>1, <2>3 DEF SpareInv, RevisionsMove
  <2> QED BY <2>3, <2>4 DEF Leaves
<1> QED BY <1>1, <1>2, SpareInit, TreesAreSound, PTL DEF Spec
-----------------------------------------------------------------------------
(* The vault follows the tree. *)

LEMMA VaultMoves ==
    ASSUME TreeType, Next, NEW e \in Device
    PROVE  /\ vault'[e] = vault[e] \/ Edit(e) \/ Reflect(e) \/ \E w \in Worker : Write(e, w)
           /\ unreflected[e] => unreflected'[e] \/ Reflect(e)
           /\ unwritten[e] => unwritten'[e] \/ Reflect(e) \/ \E w \in Worker : Write(e, w)
<1>1. vault \in [Device -> Nat] /\ unreflected \in [Device -> BOOLEAN] /\ unwritten \in [Device -> BOOLEAN]
  BY DEF TreeType
<1>2. PICK d \in Device :
        \/ QueueStep(d) \/ CommandStep(d) \/ UserStep(d) \/ Reflect(d) \/ Restart(d)
        \/ \E w \in Worker : DeletingStep(d, w)
        \/ \E x \in Device \ {d} : Replicate(d, x)
  BY DEF Next
<1>3. CASE QueueStep(d)
  BY <1>3 DEF QueueStep, NotConflicted, LeaveUnreadable, MergeSensibly, DropOlder, LeaveUntilOpened,
              Ask, Recheck, DropAnswer, Store, StoreFails
<1>4. CASE CommandStep(d)
  BY <1>4 DEF CommandStep, NewestReads, NewestLists, Inspect
<1>5. CASE UserStep(d)
  BY <1>1, <1>5 DEF UserStep, Answer, AnswerLater, Edit, OpenFile, RequestResolution, ShowStatus
<1>6. CASE Restart(d)
  BY <1>1, <1>6 DEF Restart
<1>7. CASE Reflect(d)
  BY <1>1, <1>7 DEF Reflect
<1>8. ASSUME NEW w \in Worker, DeletingStep(d, w)
      PROVE  /\ vault'[e] = vault[e] \/ Write(e, w)
             /\ unreflected' = unreflected
             /\ unwritten[e] => unwritten'[e] \/ Write(e, w)
  BY <1>1, <1>8 DEF DeletingStep, Delete, DeleteFails, CountLeft, Write, WriteFails
<1>9. ASSUME NEW x \in Device \ {d}, Replicate(d, x)
      PROVE  vault' = vault /\ unwritten' = unwritten /\ (unreflected[e] => unreflected'[e])
  BY <1>1, <1>9 DEF Replicate
<1> QED BY <1>2, <1>3, <1>4, <1>5, <1>6, <1>7, <1>8, <1>9

\* What leaves a write out, and nothing else does.
LEMMA Misses ==
    ASSUME TreeType, NEW e \in Device
    PROVE  /\ \A w \in Worker : WriteFails(e, w) => unwritten'[e]
           /\ \A w \in Worker : /\ DeleteFails(e, w) /\ job[e][w].how \in {"sensible", "concat"}
                               /\ Head(job[e][w].doomed) \notin Leaves(e)
                => unwritten'[e]
           /\ \A w \in Worker : Restart(e) /\ job[e][w].pc \in {"delete", "count", "write"} => unwritten'[e]
           /\ Next /\ unwritten'[e] =>
                \/ unwritten[e] \/ Restart(e) \/ Delete(e, "discard")
                \/ Reflect(e) /\ Winner(e) \in Unreadable
                \/ \E w \in Worker : WriteFails(e, w)
                \/ \E w \in Worker : DeleteFails(e, w) /\ Head(job[e][w].doomed) \notin Leaves(e)
<1>1. unwritten \in [Device -> BOOLEAN]
  BY DEF TreeType
<1>2. /\ \A w \in Worker : WriteFails(e, w) => unwritten'[e]
      /\ \A w \in Worker : Restart(e) /\ job[e][w].pc \in {"delete", "count", "write"} => unwritten'[e]
  BY <1>1 DEF WriteFails, Restart
<1>3. ASSUME NEW w \in Worker, DeleteFails(e, w), job[e][w].how \in {"sensible", "concat"},
             Head(job[e][w].doomed) \notin Leaves(e)
      PROVE  unwritten'[e]
  BY <1>1, <1>3 DEF DeleteFails
<1>4. ASSUME Next, unwritten'[e], ~unwritten[e]
      PROVE  \/ Restart(e) \/ Delete(e, "discard")
             \/ Reflect(e) /\ Winner(e) \in Unreadable
             \/ \E w \in Worker : WriteFails(e, w)
             \/ \E w \in Worker : DeleteFails(e, w) /\ Head(job[e][w].doomed) \notin Leaves(e)
  <2>1. PICK d \in Device :
          \/ QueueStep(d) \/ CommandStep(d) \/ UserStep(d) \/ Reflect(d) \/ Restart(d)
          \/ \E w \in Worker : DeletingStep(d, w)
          \/ \E x \in Device \ {d} : Replicate(d, x)
    BY <1>4 DEF Next
  <2>2. CASE QueueStep(d)
    BY <1>4, <2>2 DEF QueueStep, NotConflicted, LeaveUnreadable, MergeSensibly, DropOlder, LeaveUntilOpened,
                Ask, Recheck, DropAnswer, Store, StoreFails
  <2>3. CASE CommandStep(d) \/ \E x \in Device \ {d} : Replicate(d, x)
    BY <1>4, <2>3 DEF CommandStep, NewestReads, NewestLists, Inspect, Replicate
  <2>4. CASE UserStep(d)
    BY <1>4, <2>4 DEF UserStep, Answer, AnswerLater, Edit, OpenFile, RequestResolution, ShowStatus
  <2>5. CASE Reflect(d) \/ Restart(d)
    BY <1>1, <1>4, <2>5 DEF Reflect, Restart
  <2>6. ASSUME NEW w \in Worker, DeletingStep(d, w)
        PROVE  \/ Delete(e, "discard")
               \/ WriteFails(e, w)
               \/ DeleteFails(e, w) /\ Head(job[e][w].doomed) \notin Leaves(e)
    <3>1. CASE Delete(d, w)
      <4>1. w = "discard" /\ d = e
        BY <1>1, <1>4, <3>1 DEF Delete
      <4> QED BY <3>1, <4>1
    <3>2. CASE DeleteFails(d, w)
      <4>1. d = e
        BY <1>1, <1>4, <3>2 DEF DeleteFails
      <4>2. Head(job[e][w].doomed) \notin Leaves(e)
        BY <1>1, <1>4, <3>2, <4>1 DEF DeleteFails
      <4> QED BY <3>2, <4>1, <4>2
    <3>3. CASE CountLeft(d, w) \/ Write(d, w)
      BY <1>1, <1>4, <3>3 DEF CountLeft, Write
    <3>4. CASE WriteFails(d, w)
      <4>1. d = e
        BY <1>1, <1>4, <3>4 DEF WriteFails
      <4> QED BY <3>4, <4>1
    <3> QED BY <2>6, <3>1, <3>2, <3>3, <3>4 DEF DeletingStep
  <2> QED BY <2>1, <2>2, <2>3, <2>4, <2>5, <2>6
<1> QED BY <1>2, <1>3, <1>4

LEMMA StoreFollows ==
    ASSUME TreeInv, TreeInv', NEW e \in Device, Store(e), setup' = setup, Cardinality(Leaves(e)') = 1
    PROVE  Awaited(e)'
<1> DEFINE j == job[e]["queue"]
           k == job'[e]["queue"]
<1>1. TreeType /\ TreeType'
  BY DEF TreeInv
<1>2. k.pc = "delete" /\ Head(k.doomed) = j.right /\ k.how \in {"sensible", "concat"}
  BY StoreJob
<1>3. PICK n \in known'[e] :
        /\ n \notin DOMAIN info /\ j.right \in known[e]
        /\ Leaves(e) = {} => dead'[e] = dead[e]
        /\ Leaves(e) # {} => dead'[e] = dead[e] \cup {Winner(e)}
  BY <1>1, StoreWrites
<1>4. dead[e] \subseteq DOMAIN info /\ known[e] \subseteq DOMAIN info /\ (Leaves(e) # {} => Winner(e) \in DOMAIN info)
  BY <1>1, LeavesFacts, WinnerFacts
<1>5. n \in Leaves(e)' /\ n # j.right
  BY <1>3, <1>4 DEF Leaves
<1>6. \E x : Leaves(e)' = {x}
  <2>1. IsFiniteSet(Leaves(e)')
    <3>1. known'[e] \subseteq DOMAIN info' /\ Leaves(e)' \subseteq known'[e]
      BY <1>1 DEF TreeType, Leaves, Device
    <3>2. IsFiniteSet(DOMAIN info')
      <4>1. info' \in Seq(RevisionRecord)
        BY <1>1 DEF TreeType
      <4>2. DOMAIN info' = 1 .. Len(info') /\ Len(info') \in Nat
        BY <4>1
      <4> QED BY <4>2, FS_Interval
    <3> QED BY <3>1, <3>2, FS_Subset
  <2> QED BY <2>1, SizeFacts
<1>7. Head(k.doomed) \notin Leaves(e)'
  BY <1>2, <1>5, <1>6
<1> QED BY <1>2, <1>7 DEF Awaited

LEMMA FollowNext ==
    ASSUME TreeInv, TreeInv', VaultFollows, Next, Grows
    PROVE  VaultFollows'
<1>1. TreeType /\ TreeType' /\ JobsKnow /\ Device' = Device /\ setup' = setup
  BY DEF TreeInv, Grows, Device
<1>2. SUFFICES ASSUME NEW e \in Device, Cardinality(Leaves(e)') = 1
               PROVE  vault'[e] \in Leaves(e)' \/ unreflected'[e] \/ unwritten'[e] \/ Awaited(e)'
  BY <1>1 DEF VaultFollows
<1>3. "queue" \in Worker
  BY DEF Worker
<1>4. CASE Store(e)
  BY <1>1, <1>2, <1>4, StoreFollows
<1>5. CASE Edit(e)
  <2>1. PICK n \in known'[e] :
          /\ n \notin DOMAIN info /\ dead'[e] = dead[e] \cup {vault[e]} /\ vault[e] \in known[e] /\ vault'[e] = n
    BY <1>1, <1>5, EditWrites
  <2>2. dead[e] \subseteq DOMAIN info /\ known[e] \subseteq DOMAIN info
    BY <1>1, LeavesFacts
  <2>3. vault'[e] \in Leaves(e)'
    BY <2>1, <2>2 DEF Leaves
  <2> QED BY <2>3
<1>6. ASSUME NEW w \in Worker, Delete(e, w) PROVE unwritten'[e] \/ Awaited(e)'
  <2>1. unwritten'[e] \/ job'[e][w].pc = "count"
    BY <1>6, DeleteJob
  <2> QED BY <2>1 DEF Awaited
<1>7. ASSUME NEW d \in Device \ {e}, Replicate(d, e) PROVE unreflected'[e]
  BY <1>7 DEF Replicate, TreeInv, TreeType
<1>8. CASE known'[e] = known[e] /\ dead'[e] = dead[e] /\ ~Edit(e)
  <2>1. Leaves(e)' = Leaves(e) /\ Cardinality(Leaves(e)) = 1
    BY <1>2, <1>8 DEF Leaves
  <2>2. Leaves(e) # {} /\ ~Conflicted(e) /\ Winner(e) \in Leaves(e)
    <3>1. \E x : Leaves(e) = {x}
      BY <1>1, <2>1, ConflictedFacts
    <3>2. ~Conflicted(e)
      BY <2>1 DEF Conflicted
    <3> QED BY <1>1, <3>1, <3>2, WinnerFacts
  <2>3. CASE Reflect(e)
    <3>1. CASE Winner(e) \in Unreadable
      BY <1>1, <2>2, <2>3, <3>1 DEF Reflect, TreeType
    <3>2. CASE Winner(e) \notin Unreadable
      BY <1>1, <2>1, <2>2, <2>3, <3>2 DEF Reflect, TreeType
    <3> QED BY <3>1, <3>2
  <2>4. ASSUME NEW w \in Worker, Write(e, w) PROVE vault'[e] \in Leaves(e)'
    BY <2>1, <2>2, <2>4 DEF Write, TreeInv, TreeType
  <2>5. CASE ~Reflect(e) /\ \A w \in Worker : ~Write(e, w)
    <3>1. vault'[e] = vault[e] /\ (unreflected[e] => unreflected'[e]) /\ (unwritten[e] => unwritten'[e])
      BY <1>1, <1>8, <2>5, VaultMoves
    <3>2. vault[e] \in Leaves(e) \/ unreflected[e] \/ unwritten[e] \/ Awaited(e)
      BY <2>1 DEF VaultFollows
    <3>3. ASSUME NEW w \in Worker, job[e][w].pc \in {"count", "write"} PROVE unwritten'[e] \/ Awaited(e)'
      <4>1. \/ job'[e][w] = job[e][w] \/ job'[e][w].pc = "write"
            \/ WriteFails(e, w) \/ Restart(e)
        BY <1>1, <2>2, <2>5, <3>3, WorkerMoves DEF Goes
      <4>2. CASE job'[e][w] = job[e][w] \/ job'[e][w].pc = "write"
        BY <3>3, <4>2 DEF Awaited
      <4>3. CASE WriteFails(e, w) \/ Restart(e)
        BY <1>1, <3>3, <4>3, Misses
      <4> QED BY <4>1, <4>2, <4>3
    <3>4. ASSUME job[e]["queue"].pc = "delete", job[e]["queue"].how \in {"sensible", "concat"},
                 Head(job[e]["queue"].doomed) \notin Leaves(e)
          PROVE  unwritten'[e] \/ Awaited(e)'
      <4>1. ~Delete(e, "queue")
        BY <3>4 DEF Delete
      <4>2. \/ job'[e]["queue"] = job[e]["queue"]
            \/ DeleteFails(e, "queue") \/ Restart(e)
        BY <1>1, <1>3, <3>4, <4>1, WorkerMoves DEF Goes
      <4>3. CASE job'[e]["queue"] = job[e]["queue"]
        BY <2>1, <3>4, <4>3 DEF Awaited
      <4>4. CASE DeleteFails(e, "queue") \/ Restart(e)
        BY <1>1, <1>3, <3>4, <4>4, Misses
      <4> QED BY <4>2, <4>3, <4>4
    <3>5. Awaited(e) => unwritten'[e] \/ Awaited(e)'
      BY <3>3, <3>4 DEF Awaited
    <3>6. CASE vault[e] \in Leaves(e)
      BY <2>1, <3>1, <3>6
    <3> QED BY <3>1, <3>2, <3>5, <3>6
  <2> QED BY <2>3, <2>4, <2>5
<1> QED BY <1>1, <1>4, <1>5, <1>6, <1>7, <1>8, TreeMoves

LEMMA WritesNext ==
    ASSUME TreeInv, TreeInv', WritesHappen, Next, Grows
    PROVE  WritesHappen'
<1>1. TreeType /\ JobsHold /\ Device' = Device /\ (Sure' <=> Sure)
  BY DEF TreeInv, Grows, Device, Sure, Alone, Quietly, Unreadable
<1>2. SUFFICES ASSUME Sure, NEW e \in Device, unwritten'[e] PROVE FALSE
  BY <1>1 DEF WritesHappen
<1>3. /\ Alone /\ setup.commands = {} /\ ~setup.restarts /\ "write" \notin setup.faults
      /\ Unreadable = {} /\ ~unwritten[e] /\ "discard" \in Worker /\ "discard" # "queue"
  BY <1>2 DEF Sure, Alone, WritesHappen, Worker
<1>4. ~Restart(e) /\ \A w \in Worker : ~WriteFails(e, w)
  BY <1>3 DEF Restart, WriteFails
<1>5. ~Delete(e, "discard")
  BY <1>3, DeleteJob
<1>6. ASSUME NEW w \in Worker, DeleteFails(e, w) PROVE Head(job[e][w].doomed) \in Leaves(e)
  <2>1. job[e][w].pc = "delete"
    BY <1>6 DEF DeleteFails
  <2>2. w = "queue"
    BY <1>3, <2>1 DEF TreeInv, JobsKnow, JobKnows, Worker
  <2> QED BY <1>1, <1>3, <2>1, <2>2 DEF JobsHold
<1> QED BY <1>1, <1>2, <1>3, <1>4, <1>5, <1>6, Misses

LEMMA ShowStep ==
    ASSUME TreeInv, TreeInv', ShowInv, [Next]_vars
    PROVE  ShowInv'
<1>1. CASE Next
  BY <1>1, TreeStep, FollowNext, WritesNext DEF ShowInv
<1>2. CASE vars' = vars
  <2>1. UNCHANGED <<setup, info, known, dead, unreflected, queued, postponed, job, file, lost>>
    BY <1>2 DEF vars
  <2>2. Device' = Device /\ (Sure' <=> Sure) /\ \A d : Leaves(d)' = Leaves(d)
    BY <2>1 DEF Device, Sure, Alone, Quietly, Unreadable, Leaves
  <2>3. \A d : Awaited(d)' <=> Awaited(d)
    BY <2>1, <2>2 DEF Awaited
  <2> QED BY <2>1, <2>2, <2>3 DEF ShowInv, VaultFollows, WritesHappen
<1> QED BY <1>1, <1>2

\* Once nothing is going on, the file of a resolved conflict shows the resolution,
\* unless a write that was due did not happen; and where nothing disturbs, every write
\* that is due happens.
THEOREM ResultIsShown == Spec => []VaultShowsResult
<1>1. ShowInv /\ TreeInv /\ TreeInv' /\ [Next]_vars => ShowInv'
  BY ShowStep
<1>2. Init => ShowInv
  BY DEF Init, ShowInv, VaultFollows, WritesHappen
<1>3. TreeInv /\ ShowInv => VaultShowsResult
  <2>1. SUFFICES ASSUME ShowInv PROVE VaultShowsResult
    OBVIOUS
  <2>2. ASSUME NEW d \in Device, Settled(d), Cardinality(Leaves(d)) = 1, ~unwritten[d]
        PROVE  vault[d] \in Leaves(d)
    <3>1. ~Awaited(d) /\ ~unreflected[d]
      BY <2>2 DEF Settled, Awaited, Worker
    <3> QED BY <2>1, <2>2, <3>1 DEF ShowInv, VaultFollows
  <2> QED BY <2>1, <2>2 DEF ShowInv, WritesHappen, Sure, VaultShowsResult
<1> QED BY <1>1, <1>2, <1>3, TreesAreSound, PTL DEF Spec

=============================================================================
