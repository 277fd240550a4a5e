------------------------- MODULE HiddenFileSync_proofs -------------------------
(***************************************************************************)
(* Proofs about HiddenFileSync, for any contents, any revisions that may   *)
(* arrive, any rules, any width of the comparison window and any bounds.   *)
(***************************************************************************)
EXTENDS HiddenFileSync, FiniteSetTheorems, TLAPS

-----------------------------------------------------------------------------
(* The types. *)

Content == Body \cup {NoBody}
FileRecord == [mtime : Nat, body : Content]
IsFile(f) == f \in FileRecord /\ (f = Absent \/ (f.mtime # 0 /\ f.body # NoBody))
LeafRecord == [rev : Nat, mtime : Nat, body : Content, del : BOOLEAN]
IsLeaf(l) == l \in LeafRecord /\ l.rev # 0 /\ l.mtime # 0 /\ (l.del <=> l.body = NoBody)
Pcs == {"idle", "store", "delete", "write", "stat"}
CheckPcs == {"none", "queued", "newer", "merge", "ask", "mergeStore", "askStore", "drop", "flush", "flushStat"}
Key == Nat \cup {None}
OpRecord == [pc : Pcs, force : BOOLEAN, cache : FileRecord, meta : LeafRecord]

\* A revision x that a program remembers: if it still is a leaf, it is the same.
Remembered(x, D, U) == IsLeaf(x) /\ x.rev \in U /\ \A l \in D : l.rev = x.rev => l = x

TreeType(D, U) ==
    /\ U \subseteq Nat \ {0} /\ IsFiniteSet(U) /\ IsFiniteSet(D)
    /\ \A l \in D : Remembered(l, D, U)
KeyType == /\ seen \in Key /\ known \in Nat /\ dseen \in used \cup {0}
           /\ saved \in [seen : Key, known : Nat, dseen : Nat] /\ saved.dseen \in used \cup {0}
OpType == /\ op \in OpRecord
          /\ op.pc = "store" => IsFile(op.cache) /\ op.cache # Absent
          /\ op.pc \in {"write", "stat"} => Remembered(op.meta, docs, used)
ScanType == scan.snap = NoLeaf \/ Remembered(scan.snap, docs, used)
CheckType == checks \in [CheckKeys -> [pc : CheckPcs, a : LeafRecord, b : LeafRecord]]
FlushType == \A k \in CheckKeys : checks[k].pc = "flushStat" => Remembered(checks[k].a, docs, used)
TypeInv ==
    /\ setup \in Setups /\ edits \in Nat /\ fails \in Nat /\ kills \in Nat
    /\ ev \subseteq {"storage", "database"}
    /\ IsFile(file) /\ TreeType(docs, used) /\ KeyType /\ OpType /\ ScanType /\ CheckType /\ FlushType

(* What has the same mtime has the same content.  An mtime is that of an edit made     *)
(* here, or that of a revision that arrived, and arrivals have mtimes of their own.    *)

DistinctTimes == \A s \in Setups : \A q, r \in DOMAIN s.remote : s.remote[q] = s.remote[r] => q = r

Items == {file} \cup {FileOf(l) : l \in docs}
         \cup (IF op.pc = "store" THEN {op.cache} ELSE {})
         \cup (IF op.pc \in {"write", "stat"} THEN {FileOf(op.meta)} ELSE {})
         \cup {Absent, FileOf(scan.snap)}
Given(t) == \/ t = 0
            \/ \E e \in 0 .. edits : t = 2 * e + 1
            \/ \E r \in used \cap DOMAIN setup.remote : t = setup.remote[r]
TimeInv == /\ \A x \in Items : Given(x.mtime)
           /\ \A x, y \in Items : x.mtime = y.mtime => x = y

(* What the keys (s, d) say. *)

\* A file with key s is no other content than leaf d.
Honest(s, d, f, D) == s = f.mtime => \A l \in D : l.rev = d => l.body = f.body
\* No file, or no key of it, goes with a leaf without content.
Gone(s, d, D) == s \in {0, None} => \A l \in D : l.rev = d => l.body = NoBody

KeyInv ==
    /\ op.pc # "delete" => Gone(seen, dseen, docs) /\ Gone(saved.seen, saved.dseen, docs)
    /\ op.pc \notin {"store", "delete", "stat"} /\ ~Flushing => Honest(seen, dseen, file, docs)

Storing == \E k \in CheckKeys : checks[k].pc = "askStore"
\* A document without leaves never existed, or the dialogue is about to store its result.
EmptyInv ==
    /\ docs = {} => used = {} \/ Storing
    /\ used = {} => /\ op.pc \in {"idle", "store", "delete"} /\ scan.snap = NoLeaf
                    /\ \A k \in CheckKeys : checks[k].pc \in {"none", "queued"}
                    /\ op.pc # "store" => {seen, saved.seen} \subseteq {0, None}

SeenInv == lapse = "no" => KeyInv /\ EmptyInv
-----------------------------------------------------------------------------
(* The tree. *)

LEMMA Facts ==
    /\ Resolution \in Nat /\ Resolution > 0 /\ NoBody \notin Body /\ "path" \in CheckKeys
    /\ Absent \in FileRecord /\ IsFile(Absent) /\ NoLeaf \in LeafRecord /\ ~IsLeaf(NoLeaf)
    /\ \A f : IsFile(f) => (f = Absent <=> f.mtime = 0) /\ (f = Absent <=> f.body = NoBody)
    /\ \A l : IsLeaf(l) => IsFile(FileOf(l)) /\ FileOf(l).body = l.body
BY HiddenAssumption DEF Absent, FileRecord, Content, IsFile, NoLeaf, LeafRecord, IsLeaf, FileOf

\* A finite set of naturals has a greatest.
LEMMA FiniteHasMax ==
    ASSUME NEW S \in SUBSET Nat, IsFiniteSet(S), S # {}
    PROVE  \E m \in S : \A x \in S : x <= m
<1> DEFINE Bad == {T \in FiniteSubsetsOf(S) : T # {} /\ ~\E m \in T : \A x \in T : x <= m}
<1>1. SUFFICES ASSUME Bad # {} PROVE FALSE
  <2>1. S \in FiniteSubsetsOf(S)
    BY DEF FiniteSubsetsOf
  <2> QED BY <2>1
<1>2. PICK M \in Bad : \A T \in Bad : <<T, M>> \notin StrictSubsetOrdering(S)
  <2>1. Bad \subseteq FiniteSubsetsOf(S)
    OBVIOUS
  <2>2. IsWellFoundedOn(StrictSubsetOrdering(S), FiniteSubsetsOf(S))
    BY FS_StrictSubsetOrderingWellFounded
  <2> QED BY <1>1, <2>1, <2>2, WFMin, Zenon
<1>3. M \subseteq S /\ IsFiniteSet(M) /\ M # {} /\ ~\E m \in M : \A x \in M : x <= m
  BY DEF FiniteSubsetsOf
<1>4. PICK y \in M : TRUE
  BY <1>3
<1>5. M \ {y} \in FiniteSubsetsOf(S)
  BY <1>3, FS_RemoveElement DEF FiniteSubsetsOf
<1>6. M \ {y} \notin Bad
  BY <1>2, <1>3, <1>4, <1>5 DEF StrictSubsetOrdering, FiniteSubsetsOf
<1>7. CASE M \ {y} = {}
  <2>1. M = {y} /\ y \in Nat
    BY <1>3, <1>4, <1>7
  <2> QED BY <1>3, <2>1
<1>8. CASE M \ {y} # {}
  <2>1. PICK m \in M \ {y} : \A x \in M \ {y} : x <= m
    BY <1>5, <1>6, <1>8
  <2>2. y \in Nat /\ m \in Nat /\ \A x \in M : x \in Nat
    BY <1>3, <1>4, <2>1
  <2>3. CASE y <= m
    BY <1>3, <2>1, <2>3
  <2>4. CASE m <= y
    <3>1. \A x \in M : x <= y
      BY <2>1, <2>2, <2>4
    <3> QED BY <1>3, <1>4, <3>1
  <2> QED BY <2>2, <2>3, <2>4
<1> QED BY <1>7, <1>8

\* A set of naturals has a least.
LEMMA NatHasMin ==
    ASSUME NEW S \in SUBSET Nat, S # {}
    PROVE  \E m \in S : \A x \in S : m <= x
<1>1. PICK m \in S : \A x \in S : <<x, m>> \notin OpToRel(<, Nat)
  <2>1. IsWellFoundedOn(OpToRel(<, Nat), Nat)
    BY NatLessThanWellFounded
  <2> QED BY <2>1, WFMin, Zenon
<1>2. \A x \in S : x \in Nat /\ m \in Nat /\ ~(x < m)
  BY <1>1 DEF OpToRel
<1> QED BY <1>2

LEMMA NextRevFacts ==
    ASSUME TypeInv
    PROVE  NextRev \in Nat \ {0} /\ NextRev \notin used
<1> DEFINE S == used \cup {0}
<1>1. S \in SUBSET Nat /\ IsFiniteSet(S) /\ S # {}
  BY FS_AddElement DEF TypeInv, TreeType
<1>2. PICK m \in S : \A x \in S : x <= m
  BY <1>1, FiniteHasMax
<1>3. \E x \in S : \A y \in S : x >= y
  BY <1>1, <1>2
<1>4. Max(S) \in S /\ \A y \in S : Max(S) >= y
  BY <1>3 DEF Max
<1> HIDE DEF S
<1>5. Max(S) \in Nat /\ \A y \in S : y \in Nat /\ y <= Max(S)
  BY <1>1, <1>4
<1>6. NextRev = Max(S) + 1
  BY DEF NextRev, S
<1>7. NextRev \in Nat \ {0} /\ NextRev \notin S
  BY <1>5, <1>6
<1> QED BY <1>7 DEF S

LEMMA WinnerFacts ==
    ASSUME TypeInv
    PROVE  /\ docs = {} => Winner = NoLeaf
           /\ docs # {} => Winner \in docs /\ Remembered(Winner, docs, used)
           /\ Winner = NoLeaf \/ Remembered(Winner, docs, used)
           /\ Winner \in LeafRecord
<1>1. CASE docs = {}
  BY <1>1, Facts DEF Winner
<1>2. CASE docs # {}
  <2> DEFINE S == {l.rev : l \in docs}
  <2>1. S \subseteq used /\ used \subseteq Nat /\ IsFiniteSet(used)
    BY DEF TypeInv, TreeType, Remembered
  <2>2. S \in SUBSET Nat /\ IsFiniteSet(S) /\ S # {}
    <3>1. S # {}
      BY <1>2
    <3>2. S \in SUBSET used /\ S \in SUBSET Nat
      BY <2>1
    <3>3. IsFiniteSet(S)
      BY <2>1, <3>2, FS_Subset
    <3> QED BY <3>1, <3>2, <3>3
  <2>3. PICK m \in S : \A x \in S : x <= m
    BY <2>2, FiniteHasMax
  <2>4. PICK w \in docs : w.rev = m
    BY <2>3
  <2>5. \A l \in docs : l.rev \in Nat /\ w.rev \in Nat /\ l.rev <= w.rev
    BY <2>2, <2>3, <2>4
  <2>6. \A l \in docs : w.rev >= l.rev
    BY <2>5
  <2>7. Winner \in docs
    BY <1>2, <2>6 DEF Winner
  <2> QED BY <1>2, <2>7 DEF TypeInv, TreeType, Remembered, IsLeaf
<1> QED BY <1>1, <1>2

\* The leaf that a conflict check compares with the winner.
LEMMA OldestFacts ==
    ASSUME TypeInv, Conflicted
    PROVE  Oldest \in docs \ {Winner}
<1> DEFINE S == {l.rev : l \in docs \ {Winner}}
<1>1. docs \ {Winner} # {}
  <2>1. IsFiniteSet(docs)
    BY DEF TypeInv, TreeType
  <2>2. CASE docs \ {Winner} = {}
    <3>1. docs = {} \/ docs = {Winner}
      BY <2>2
    <3>2. Cardinality({}) = 0 /\ Cardinality({Winner}) = 1
      BY FS_EmptySet, FS_Singleton
    <3>3. Cardinality(docs) = 0 \/ Cardinality(docs) = 1
      BY <3>1, <3>2
    <3> QED BY <3>3 DEF Conflicted
  <2> QED BY <2>2
<1>2. S \in SUBSET Nat /\ S # {}
  BY <1>1 DEF TypeInv, TreeType, Remembered, IsLeaf, LeafRecord
<1>3. PICK m \in S : \A x \in S : m <= x
  BY <1>2, NatHasMin
<1>4. \E l \in docs \ {Winner} : \A x \in docs \ {Winner} : l.rev <= x.rev
  BY <1>3
<1> QED BY <1>4 DEF Oldest

\* How the tree moves: leaves go, and at most one new revision comes.
Moves == \/ docs' \subseteq docs /\ used' = used
         \/ \E n : /\ IsLeaf(n) /\ n.rev \notin used
                   /\ docs' \subseteq docs \cup {n} /\ used' = used \cup {n.rev}

LEMMA MovesFacts ==
    ASSUME TypeInv, Moves
    PROVE  /\ TreeType(docs', used') /\ used \subseteq used'
           /\ \A x : Remembered(x, docs, used) => Remembered(x, docs', used')
           /\ \A l \in docs' : l \in docs \/ l.rev \notin used \cup {0}
<1>1. TreeType(docs, used)
  BY DEF TypeInv
<1>2. CASE docs' \subseteq docs /\ used' = used
  <2>1. IsFiniteSet(docs')
    BY <1>1, <1>2, FS_Subset DEF TreeType
  <2> QED BY <1>1, <1>2, <2>1 DEF TreeType, Remembered
<1>3. ASSUME NEW n, IsLeaf(n), n.rev \notin used, docs' \subseteq docs \cup {n}, used' = used \cup {n.rev}
      PROVE  /\ TreeType(docs', used') /\ used \subseteq used'
             /\ \A x : Remembered(x, docs, used) => Remembered(x, docs', used')
             /\ \A l \in docs' : l \in docs \/ l.rev \notin used \cup {0}
  <2>1. IsFiniteSet(docs') /\ IsFiniteSet(used')
    <3>1. IsFiniteSet(docs \cup {n}) /\ IsFiniteSet(used \cup {n.rev})
      BY <1>1, FS_AddElement DEF TreeType
    <3> QED BY <1>3, <3>1, FS_Subset
  <2>2. n.rev \in Nat \ {0}
    BY <1>3 DEF IsLeaf, LeafRecord
  <2>3. \A l \in docs : l.rev \in used
    BY <1>1 DEF TreeType, Remembered
  <2>4. \A x : Remembered(x, docs, used) => Remembered(x, docs', used')
    BY <1>3 DEF Remembered
  <2>5. Remembered(n, docs', used')
    BY <1>3, <2>3 DEF Remembered
  <2>6. \A l \in docs' : Remembered(l, docs', used')
    BY <1>1, <1>3, <2>4, <2>5 DEF TreeType
  <2>7. used' \subseteq Nat \ {0}
    BY <1>1, <1>3, <2>2 DEF TreeType
  <2> QED BY <1>3, <2>1, <2>2, <2>4, <2>6, <2>7 DEF TreeType
<1> QED BY <1>2, <1>3 DEF Moves

\* The leaf that a file c becomes.
LEMMA PutFacts ==
    ASSUME TypeInv, NEW c, IsFile(c), c # Absent, Put(c)
    PROVE  \E n : /\ IsLeaf(n) /\ n.rev = NextRev /\ n.body = c.body /\ FileOf(n) = c
                  /\ docs' = (docs \ {Winner}) \cup {n} /\ used' = used \cup {NextRev}
<1> DEFINE n == [rev |-> NextRev, mtime |-> c.mtime, body |-> c.body, del |-> c.body = NoBody]
<1>1. c \in FileRecord /\ c.mtime # 0 /\ c.body # NoBody
  BY DEF IsFile
<1>2. c = [mtime |-> c.mtime, body |-> c.body] /\ c.mtime \in Nat /\ c.body \in Content
  BY <1>1 DEF FileRecord
<1>3. n = [rev |-> NextRev, mtime |-> c.mtime, body |-> c.body, del |-> FALSE]
  BY <1>1
<1>4. docs' = (docs \ {Winner}) \cup {n} /\ used' = used \cup {NextRev}
  BY DEF Put
<1> HIDE DEF n
<1>5. n \in LeafRecord /\ n.rev = NextRev /\ n.mtime = c.mtime /\ n.body = c.body /\ n.del = FALSE
  BY <1>2, <1>3, NextRevFacts DEF LeafRecord
<1>6. IsLeaf(n) /\ FileOf(n) = c
  BY <1>1, <1>2, <1>5, NextRevFacts DEF IsLeaf, FileOf
<1> QED BY <1>4, <1>5, <1>6

LEMMA PutMoves ==
    ASSUME TypeInv, NEW c, IsFile(c), c # Absent, Put(c)
    PROVE  Moves
<1>1. PICK n : /\ IsLeaf(n) /\ n.rev = NextRev
               /\ docs' = (docs \ {Winner}) \cup {n} /\ used' = used \cup {NextRev}
  BY PutFacts
<1>2. docs' \subseteq docs \cup {n}
  BY <1>1
<1> QED BY <1>1, <1>2, NextRevFacts DEF Moves

\* The deletion of the file.
Tombstone == [rev |-> NextRev, mtime |-> 2 * edits + 1, body |-> NoBody, del |-> TRUE]
LEMMA TombstoneFacts == TypeInv => IsLeaf(Tombstone) /\ Tombstone.rev \notin used
BY NextRevFacts DEF TypeInv, Tombstone, IsLeaf, LeafRecord, Content

LEMMA WinnerMoves ==
    ASSUME TypeInv, docs # {}, docs' = {Winner}, used' = used
    PROVE  Moves
BY WinnerFacts DEF Moves

\* Every action moves the tree so.
LEMMA NextMoves ==
    ASSUME TypeInv, Next
    PROVE  Moves \/ UNCHANGED <<docs, used>>
<1>1. CASE Store
  BY <1>1, PutMoves DEF Store, TypeInv, OpType
<1>2. CASE Delete
  <2>1. CASE docs # {} /\ Winner.del
    BY <1>2, <2>1, WinnerMoves DEF Delete
  <2>2. CASE ~(docs # {} /\ Winner.del)
    <3>1. docs' = {Tombstone} /\ used' = used \cup {Tombstone.rev}
      BY <1>2, <2>2 DEF Delete, Tombstone
    <3>2. docs' \subseteq docs \cup {Tombstone}
      BY <3>1
    <3> QED BY <3>1, <3>2, TombstoneFacts DEF Moves
  <2> QED BY <2>1, <2>2
<1>3. CASE FailStored
  <2>1. used' = used /\ (docs' = docs \/ (docs # {} /\ docs' = {Winner}))
    BY <1>3 DEF FailStored
  <2> QED BY <2>1, WinnerMoves
<1>4. ASSUME NEW k \in CheckKeys, Resolve(k) PROVE Moves \/ UNCHANGED <<docs, used>>
  <2>1. CASE Check(k) \/ WriteMerged(k) \/ Flush(k) \/ FlushStat(k)
    BY <2>1 DEF Check, WriteMerged, Flush, FlushStat
  <2>2. CASE ResolveByNewer(k) \/ DropMerged(k)
    <3>1. used' = used /\ docs' \subseteq docs
      BY <2>2 DEF ResolveByNewer, DropMerged, Without
    <3> QED BY <3>1 DEF Moves
  <2>3. CASE Answer(k)
    <3>1. used' = used /\ docs' \subseteq docs
      BY <2>3 DEF Answer, Without
    <3> QED BY <3>1 DEF Moves
  <2>4. CASE StoreMerged(k)
    <3>1. UNCHANGED <<docs, used>> \/ (file # Absent /\ Put(file))
      BY <2>4 DEF StoreMerged
    <3> QED BY <3>1, PutMoves DEF TypeInv
  <2> QED BY <1>4, <2>1, <2>2, <2>3, <2>4 DEF Resolve
<1>5. CASE Replicate
  <2>1. PICK r \in DOMAIN setup.remote \ used, b \in Body \cup {NoBody}, parent \in docs \cup {NoLeaf} :
           /\ r > parent.rev
           /\ docs' = (docs \ {parent}) \cup
                         {[rev |-> r, mtime |-> setup.remote[r], body |-> b, del |-> b = NoBody]}
           /\ used' = used \cup {r}
    BY <1>5 DEF Replicate
  <2> DEFINE n == [rev |-> r, mtime |-> setup.remote[r], body |-> b, del |-> b = NoBody]
  <2>2. setup.remote \in Seq(Nat \ {0}) /\ r \in DOMAIN setup.remote
    BY HiddenAssumption DEF TypeInv, IsSetup
  <2>3. setup.remote[r] \in Nat \ {0} /\ r \in Nat \ {0}
    BY <2>2
  <2>4. (b = NoBody) \in BOOLEAN
    OBVIOUS
  <2>5. n \in LeafRecord /\ (n.del <=> n.body = NoBody)
    BY <2>3 DEF LeafRecord, Content
  <2>6. IsLeaf(n) /\ n.rev = r
    BY <2>3, <2>5 DEF IsLeaf
  <2>7. docs' \subseteq docs \cup {n} /\ used' = used \cup {r} /\ r \notin used
    BY <2>1
  <2> HIDE DEF n
  <2> QED BY <2>6, <2>7 DEF Moves
<1>6. CASE StorageEvent \/ DatabaseEvent \/ WriteFile \/ StatWritten \/ FailWritten \/ Edit \/ Save \/ Kill
  BY <1>6 DEF StorageEvent, DatabaseEvent, WriteFile, StatWritten, FailWritten, Edit, Save, Kill
<1>7. ScanStep => UNCHANGED <<docs, used>>
  BY DEF ScanStep, List, ScanBoth, ScanStorage, ScanDatabase, Rebuild, Adopt, Step
<1>8. (\E k \in CheckKeys : QueueChecked(k) \/ FailResolved(k))
         \/ (\E p \in setup.directions \cup {"offline", "periodic"} : StartScan(p))
      => UNCHANGED <<docs, used>>
  BY DEF QueueChecked, FailResolved, StartScan
<1> QED BY <1>1, <1>2, <1>3, <1>4, <1>5, <1>6, <1>7, <1>8 DEF Next, Track
-----------------------------------------------------------------------------
(* What the operations record, in one form. *)

LEMMA CompareFacts ==
    ASSUME NEW a \in Nat, Compare(a, 0) = "target"
    PROVE  FALSE
<1>1. 0 \div Resolution = 0 /\ a \div Resolution \in Nat
  BY Facts
<1> DEFINE b == a \div Resolution
           t == 0 \div Resolution
<1>2. (IF b = t THEN "even" ELSE IF b > t THEN "base" ELSE "target") = "target"
  BY DEF Compare
<1>3. b = t \/ b > t
  BY <1>1
<1> HIDE DEF b, t
<1> QED BY <1>2, <1>3

StoreOp(force) == [pc |-> "store", force |-> force, cache |-> file, meta |-> NoLeaf]
DeleteOp(force) == [pc |-> "delete", force |-> force, cache |-> file, meta |-> NoLeaf]
WriteOp(m) == [pc |-> "write", force |-> FALSE, cache |-> Absent, meta |-> m]

LEMMA IdleFacts ==
    ASSUME NEW c \in FileRecord, NEW f \in BOOLEAN, NEW m \in LeafRecord
    PROVE  /\ Idle \in OpRecord /\ Idle.pc = "idle"
           /\ \A pc \in {"store", "delete"} :
                 [Idle EXCEPT !.pc = pc, !.cache = c, !.force = f]
                 = [pc |-> pc, force |-> f, cache |-> c, meta |-> NoLeaf]
           /\ [Idle EXCEPT !.pc = "write", !.meta = m]
              = [pc |-> "write", force |-> FALSE, cache |-> Absent, meta |-> m]
<1>1. Idle \in OpRecord /\ Idle.pc = "idle" /\ Idle.force = FALSE /\ Idle.cache = Absent /\ Idle.meta = NoLeaf
  BY Facts DEF Idle, OpRecord, Pcs
<1>2. \A x, y \in OpRecord : x.pc = y.pc /\ x.force = y.force /\ x.cache = y.cache /\ x.meta = y.meta => x = y
  BY DEF OpRecord
<1>3. ASSUME NEW pc \in {"store", "delete"}
      PROVE  [Idle EXCEPT !.pc = pc, !.cache = c, !.force = f]
             = [pc |-> pc, force |-> f, cache |-> c, meta |-> NoLeaf]
  <2> DEFINE x == [Idle EXCEPT !.pc = pc, !.cache = c, !.force = f]
             y == [pc |-> pc, force |-> f, cache |-> c, meta |-> NoLeaf]
  <2>1. x \in OpRecord /\ x.pc = pc /\ x.cache = c /\ x.force = f /\ x.meta = NoLeaf
    BY <1>1 DEF OpRecord, Pcs
  <2>2. y \in OpRecord /\ y.pc = pc /\ y.cache = c /\ y.force = f /\ y.meta = NoLeaf
    BY Facts DEF OpRecord, Pcs
  <2> HIDE DEF x, y
  <2>3. x = y
    BY <1>2, <2>1, <2>2
  <2> QED BY <2>3 DEF x, y
<1>4. [Idle EXCEPT !.pc = "write", !.meta = m]
      = [pc |-> "write", force |-> FALSE, cache |-> Absent, meta |-> m]
  <2> DEFINE x == [Idle EXCEPT !.pc = "write", !.meta = m]
             y == [pc |-> "write", force |-> FALSE, cache |-> Absent, meta |-> m]
  <2>1. x \in OpRecord /\ x.pc = "write" /\ x.cache = Absent /\ x.force = FALSE /\ x.meta = m
    BY <1>1 DEF OpRecord, Pcs
  <2>2. y \in OpRecord /\ y.pc = "write" /\ y.cache = Absent /\ y.force = FALSE /\ y.meta = m
    BY Facts DEF OpRecord, Pcs
  <2> HIDE DEF x, y
  <2>3. x = y
    BY <1>2, <2>1, <2>2
  <2> QED BY <2>3 DEF x, y
<1> QED BY <1>1, <1>3, <1>4

\* A file that was tracked is being stored or deleted, or what its keys say is true.
Tracked(force, dlast) ==
    /\ seen' = file.mtime /\ known' \in Nat
    /\ dseen' = dlast \/ (docs # {} /\ dseen' = Winner.rev)
    /\ \/ op' = Idle /\ (lapse' = "no" => lapse = "no" /\ Agree(file, dseen'))
       \/ op' = StoreOp(force) /\ file # Absent /\ (lapse' = "no" => lapse = "no")
       \/ op' = DeleteOp(force) /\ file = Absent /\ (lapse' = "no" => lapse = "no")

LEMMA TrackFacts ==
    ASSUME TypeInv, NEW onlyNew \in BOOLEAN, NEW force \in BOOLEAN, NEW last, NEW dlast,
           TrackStorage(onlyNew, force, last, dlast)
    PROVE  UNCHANGED <<keys, op, lapse>> \/ Tracked(force, dlast)
<1> SUFFICES ASSUME last # file.mtime PROVE Tracked(force, dlast)
  BY DEF TrackStorage
<1> DEFINE t == IF file = Absent THEN known ELSE file.mtime
           order == Compare(t, LiveMTime(Winner))
           skip == onlyNew /\ order # "target"
           unknown == last = None /\ file = Absent
           how == CASE unknown -> "unknown"
                    [] skip /\ file # Absent /\ order = "base" -> "newer"
                    [] OTHER -> "even"
<1>1. /\ RecordFile(file.mtime)
      /\ dseen' = IF skip /\ ~Winner.del /\ file # Absent THEN Winner.rev ELSE dlast
      /\ op' = IF skip \/ unknown THEN Idle
               ELSE [Idle EXCEPT !.pc = IF file = Absent THEN "delete" ELSE "store",
                                 !.cache = file, !.force = force]
      /\ Lapsed(how, Agree(file, dseen') \/ ~(skip \/ unknown))
  BY DEF TrackStorage
<1>2. how # "no"
  OBVIOUS
<1>3. skip \in BOOLEAN /\ unknown \in BOOLEAN
  OBVIOUS
<1> HIDE DEF how, skip, unknown
<1>4. seen' = file.mtime /\ known' \in Nat
  <2>1. file.mtime \in Nat /\ known \in Nat
    BY DEF TypeInv, IsFile, FileRecord, KeyType
  <2> QED BY <1>1, <2>1 DEF RecordFile
<1>5. dseen' = dlast \/ (docs # {} /\ dseen' = Winner.rev)
  <2>1. ~Winner.del => docs # {}
    BY WinnerFacts DEF NoLeaf
  <2> QED BY <1>1, <2>1
<1>6. lapse' = "no" => lapse = "no" /\ (Agree(file, dseen') \/ ~(skip \/ unknown))
  BY <1>1, <1>2 DEF Lapsed
<1>7. CASE skip \/ unknown
  BY <1>1, <1>4, <1>5, <1>6, <1>7 DEF Tracked
<1>8. CASE ~(skip \/ unknown)
  <2>1. file \in FileRecord
    BY DEF TypeInv, IsFile
  <2>2. op' = IF file = Absent THEN DeleteOp(force) ELSE StoreOp(force)
    BY <1>1, <1>8, <2>1, IdleFacts, Facts DEF StoreOp, DeleteOp
  <2> QED BY <1>4, <1>5, <1>6, <1>8, <2>2 DEF Tracked
<1> QED BY <1>7, <1>8

\* A revision is being written, was processed, or is recorded as the file is.
Begun(meta) ==
    \/ op' = Idle /\ UNCHANGED <<keys, lapse>>
    \/ op' = WriteOp(meta) /\ UNCHANGED <<keys, lapse>>
    \/ /\ op' = Idle /\ dseen' = meta.rev /\ known' \in Nat
       /\ seen' = IF file = Absent THEN seen ELSE file.mtime
       /\ lapse' = "no" => lapse = "no" /\ Agree(file, meta.rev)

LEMMA BeginFacts ==
    ASSUME TypeInv, NEW onlyNew \in BOOLEAN, NEW once \in BOOLEAN, NEW meta \in LeafRecord,
           BeginDatabase(onlyNew, once, meta)
    PROVE  Begun(meta)
<1> DEFINE t == IF file = Absent THEN known ELSE file.mtime
           order == Compare(t, meta.mtime)
<1>1. CASE once /\ dseen = meta.rev
  BY <1>1 DEF BeginDatabase, Begun
<1>2. CASE ~(once /\ dseen = meta.rev) /\ onlyNew /\ order # "target"
  <2>1. /\ dseen' = meta.rev /\ op' = Idle /\ Lapsed("even", Agree(file, meta.rev))
        /\ IF file = Absent THEN UNCHANGED <<seen, known>> ELSE RecordFile(file.mtime)
    BY <1>2 DEF BeginDatabase
  <2>2. file.mtime \in Nat /\ known \in Nat
    BY DEF TypeInv, IsFile, FileRecord, KeyType
  <2>3. known' \in Nat /\ seen' = IF file = Absent THEN seen ELSE file.mtime
    BY <2>1, <2>2 DEF RecordFile
  <2>4. lapse' = "no" => lapse = "no" /\ Agree(file, meta.rev)
    BY <2>1 DEF Lapsed
  <2> QED BY <2>1, <2>3, <2>4 DEF Begun
<1>3. CASE ~(once /\ dseen = meta.rev) /\ ~(onlyNew /\ order # "target")
  <2>1. op' = WriteOp(meta)
    BY <1>3, IdleFacts, Facts DEF BeginDatabase, WriteOp
  <2> QED BY <1>3, <2>1 DEF BeginDatabase, Begun
<1> QED BY <1>1, <1>2, <1>3
-----------------------------------------------------------------------------
(* Events and the steps of a scan: what they record and which operation they start. *)

Told == /\ \A l \in docs : l.rev = dseen' => /\ l.body = file.body
                                             /\ file # Absent => seen' = file.mtime
        /\ used = {} => seen' \in {seen, 0, None}
Recording ==
    /\ op = Idle /\ UNCHANGED <<file, docs, used, saved, bounds>>
    /\ seen' \in Key /\ known' \in Nat /\ dseen' \in used \cup {0}
    /\ seen' \in {seen, None, file.mtime}
    /\ lapse' = "no" => lapse = "no"
    /\ \/ UNCHANGED <<keys, op>>
       \/ op' = Idle /\ (lapse' = "no" => Told)
       \/ \E f \in BOOLEAN : op' = StoreOp(f) /\ file # Absent /\ seen' = file.mtime
       \/ \E f \in BOOLEAN : op' = DeleteOp(f) /\ file = Absent /\ seen' = 0
       \/ \E m \in docs \cup {scan.snap} : /\ Remembered(m, docs, used) /\ op' = WriteOp(m)
                                           /\ UNCHANGED <<seen, dseen>> \/ dseen' = 0
Frame == op = Idle /\ UNCHANGED <<file, docs, used, saved, bounds>>

LEMMA BaseFacts ==
    ASSUME TypeInv
    PROVE  /\ file \in FileRecord /\ IsFile(file) /\ file.mtime \in Nat
           /\ seen \in Key /\ known \in Nat /\ dseen \in used \cup {0} /\ used \subseteq Nat \ {0}
           /\ \A l \in docs : l.rev \in used /\ l.rev # 0
           /\ used = {} => docs = {}
BY DEF TypeInv, IsFile, FileRecord, KeyType, TreeType, Remembered, IsLeaf

LEMMA UnchangedRecords ==
    ASSUME TypeInv, Frame, UNCHANGED <<keys, op, lapse>>
    PROVE  Recording
BY BaseFacts DEF Frame, Recording, keys

LEMMA TrackRecords ==
    ASSUME TypeInv, Frame, NEW onlyNew \in BOOLEAN, NEW force \in BOOLEAN, NEW last,
           NEW dlast \in {dseen, 0}, TrackStorage(onlyNew, force, last, dlast)
    PROVE  Recording
<1>1. CASE UNCHANGED <<keys, op, lapse>>
  BY <1>1, UnchangedRecords
<1>2. CASE Tracked(force, dlast)
  <2>1. seen' \in Key /\ known' \in Nat /\ seen' = file.mtime
    BY <1>2, BaseFacts DEF Tracked, Key
  <2>2. dseen' \in used \cup {0}
    BY <1>2, BaseFacts, WinnerFacts DEF Tracked, Remembered
  <2>3. lapse' = "no" => lapse = "no"
    BY <1>2 DEF Tracked
  <2>4. CASE op' = Idle /\ (lapse' = "no" => lapse = "no" /\ Agree(file, dseen'))
    <3>1. Agree(file, dseen') => Told
      BY <2>1, BaseFacts, Facts DEF Agree, Told
    <3> QED BY <2>1, <2>2, <2>3, <2>4, <3>1 DEF Frame, Recording
  <2>5. CASE op' = StoreOp(force) /\ file # Absent
    BY <2>1, <2>2, <2>3, <2>5 DEF Frame, Recording
  <2>6. CASE op' = DeleteOp(force) /\ file = Absent
    <3>1. seen' = 0
      BY <2>1, <2>6 DEF Absent
    <3> QED BY <2>1, <2>2, <2>3, <2>6, <3>1 DEF Frame, Recording
  <2> QED BY <1>2, <2>4, <2>5, <2>6 DEF Tracked
<1> QED BY <1>1, <1>2, TrackFacts

LEMMA BeginRecords ==
    ASSUME TypeInv, Frame, NEW m \in docs \cup {scan.snap}, Remembered(m, docs, used), Begun(m)
    PROVE  Recording
<1>1. m.rev \in used
  BY DEF Remembered
<1>2. CASE op' = Idle /\ UNCHANGED <<keys, lapse>>
  BY <1>2, UnchangedRecords DEF Frame
<1>3. CASE op' = WriteOp(m) /\ UNCHANGED <<keys, lapse>>
  BY <1>3, BaseFacts DEF Frame, Recording, keys
<1>4. CASE /\ op' = Idle /\ dseen' = m.rev /\ known' \in Nat
           /\ seen' = IF file = Absent THEN seen ELSE file.mtime
           /\ lapse' = "no" => lapse = "no" /\ Agree(file, m.rev)
  <2>1. seen' \in Key
    BY <1>4, BaseFacts DEF Key
  <2>2. Agree(file, m.rev) => Told
    BY <1>1, <1>4, BaseFacts, Facts DEF Agree, Told
  <2> QED BY <1>1, <1>4, <2>1, <2>2 DEF Frame, Recording
<1> QED BY <1>2, <1>3, <1>4 DEF Begun

LEMMA StepFrame == \A s : Step(s) => Frame
BY DEF Step, Frame

LEMMA SnapFacts ==
    ASSUME TypeInv
    PROVE  /\ scan.snap # NoLeaf => Remembered(scan.snap, docs, used)
           /\ scan.snap \in LeafRecord
BY Facts DEF TypeInv, ScanType, Remembered, IsLeaf

LEMMA EventRecords == TypeInv /\ (StorageEvent \/ DatabaseEvent) => Recording
<1> SUFFICES ASSUME TypeInv, StorageEvent \/ DatabaseEvent PROVE Recording
  OBVIOUS
<1>1. Frame
  BY DEF StorageEvent, DatabaseEvent, Frame
<1>2. CASE StorageEvent
  BY <1>1, <1>2, TrackRecords DEF StorageEvent
<1>3. CASE DatabaseEvent
  <2>1. CASE Conflicted \/ docs = {}
    BY <1>1, <1>3, <2>1, UnchangedRecords DEF DatabaseEvent, Frame
  <2>2. CASE ~(Conflicted \/ docs = {})
    <3>1. BeginDatabase(FALSE, FALSE, Winner)
      BY <1>3, <2>2 DEF DatabaseEvent
    <3>2. Remembered(Winner, docs, used) /\ Winner \in LeafRecord /\ Winner \in docs
      BY <2>2, WinnerFacts
    <3>3. Begun(Winner)
      BY <3>1, <3>2, BeginFacts
    <3> QED BY <1>1, <3>2, <3>3, BeginRecords
  <2> QED BY <2>1, <2>2
<1> QED BY <1>2, <1>3

LEMMA ScanRecords == TypeInv /\ ScanStep => Recording
<1> SUFFICES ASSUME TypeInv, ScanStep PROVE Recording
  OBVIOUS
<1> DEFINE m == scan.snap
<1>1. m # NoLeaf => Remembered(m, docs, used)
  BY SnapFacts
<1>2. m \in LeafRecord
  BY SnapFacts
<1>3. CASE List
  BY <1>3, StepFrame, UnchangedRecords DEF List
<1>4. CASE ScanBoth
  <2>1. Frame
    BY <1>4, StepFrame DEF ScanBoth
  <2>2. CASE UNCHANGED <<keys, op, lapse>>
    BY <2>1, <2>2, UnchangedRecords
  <2>3. CASE TrackStorage(TRUE, FALSE, seen, dseen)
    BY <2>1, <2>3, TrackRecords
  <2>4. CASE m # NoLeaf /\ BeginDatabase(TRUE, TRUE, m)
    <3>1. Begun(m)
      BY <1>2, <2>4, BeginFacts
    <3> QED BY <1>1, <2>1, <2>4, <3>1, BeginRecords
  <2>5. CASE /\ file # Absent /\ m # NoLeaf
             /\ RecordBoth(file.mtime, m.rev) /\ Lapsed("even", Agree(file, m.rev)) /\ UNCHANGED op
    <3>1. known' \in Nat /\ seen' = file.mtime /\ dseen' = m.rev
      BY <2>5, BaseFacts DEF RecordBoth, RecordFile
    <3>2. lapse' = "no" => lapse = "no" /\ Agree(file, m.rev)
      BY <2>5 DEF Lapsed
    <3>3. op' = Idle
      BY <2>1, <2>5 DEF Frame
    <3>4. Begun(m)
      BY <2>5, <3>1, <3>2, <3>3 DEF Begun
    <3> QED BY <1>1, <2>1, <2>5, <3>4, BeginRecords
  <2> QED BY <1>4, <2>2, <2>3, <2>4, <2>5 DEF ScanBoth
<1>5. CASE ScanStorage
  <2>1. PICK s \in {"storage", "storageNew"} :
           /\ Step(s)
           /\ IF seen = None /\ file = Absent THEN UNCHANGED <<keys, op, lapse>>
              ELSE TrackStorage(s = "storageNew", FALSE, seen, dseen)
    BY <1>5 DEF ScanStorage
  <2> DEFINE n == s = "storageNew"
  <2>2. n \in BOOLEAN
    OBVIOUS
  <2>3. UNCHANGED <<keys, op, lapse>> \/ TrackStorage(n, FALSE, seen, dseen)
    BY <2>1
  <2> HIDE DEF n
  <2> QED BY <2>1, <2>2, <2>3, StepFrame, UnchangedRecords, TrackRecords
<1>6. CASE ScanDatabase
  <2>1. PICK s \in {"database", "databaseNew"} :
           /\ Step(s)
           /\ IF m = NoLeaf THEN UNCHANGED <<keys, op, lapse>>
              ELSE BeginDatabase(s = "databaseNew", TRUE, m)
    BY <1>6 DEF ScanDatabase
  <2> DEFINE n == s = "databaseNew"
  <2>2. n \in BOOLEAN
    OBVIOUS
  <2>3. UNCHANGED <<keys, op, lapse>> \/ (m # NoLeaf /\ BeginDatabase(n, TRUE, m))
    BY <2>1
  <2> HIDE DEF n
  <2>4. CASE m # NoLeaf /\ BeginDatabase(n, TRUE, m)
    <3>1. Begun(m)
      BY <1>2, <2>2, <2>4, BeginFacts
    <3> QED BY <1>1, <2>1, <2>4, <3>1, StepFrame, BeginRecords
  <2> QED BY <2>1, <2>3, <2>4, StepFrame, UnchangedRecords
<1>7. CASE Rebuild
  <2>1. Frame
    BY <1>7, StepFrame DEF Rebuild
  <2>2. CASE TrackStorage(FALSE, TRUE, None, dseen) \/ TrackStorage(FALSE, TRUE, None, 0)
    BY <2>1, <2>2, TrackRecords
  <2>3. CASE /\ file = Absent /\ seen' = None /\ UNCHANGED <<known, dseen, op>>
             /\ Lapsed("unknown", Agree(file, dseen))
    <3>1. lapse' = "no" => lapse = "no" /\ Agree(file, dseen)
      BY <2>3 DEF Lapsed
    <3>2. Agree(file, dseen) => Told
      BY <2>3 DEF Agree, Told
    <3>3. op' = Idle
      BY <2>1, <2>3 DEF Frame
    <3> QED BY <2>1, <2>3, <3>1, <3>2, <3>3, BaseFacts DEF Frame, Recording, Key
  <2>4. CASE /\ UNCHANGED <<seen, known, lapse>> /\ dseen' = 0
             /\ op' = IF m = NoLeaf THEN Idle ELSE [Idle EXCEPT !.pc = "write", !.meta = m]
    <3>1. CASE m = NoLeaf
      <4>1. Told
        BY <2>4, BaseFacts DEF Told
      <4> QED BY <2>1, <2>4, <3>1, <4>1, BaseFacts DEF Frame, Recording
    <3>2. CASE m # NoLeaf
      <4>1. op' = WriteOp(m)
        BY <1>2, <2>4, <3>2, IdleFacts, Facts DEF WriteOp
      <4> QED BY <1>1, <2>1, <2>4, <3>2, <4>1, BaseFacts DEF Frame, Recording
    <3> QED BY <3>1, <3>2
  <2>5. CASE /\ Compare(file.mtime, LiveMTime(m)) = "target"
             /\ seen' = None /\ dseen' = 0 /\ UNCHANGED <<known, lapse>>
             /\ op' = [Idle EXCEPT !.pc = "write", !.meta = m]
    <3>1. m # NoLeaf
      BY <2>5, BaseFacts, CompareFacts DEF LiveMTime, NoLeaf
    <3>2. op' = WriteOp(m)
      BY <1>2, <2>5, IdleFacts, Facts DEF WriteOp
    <3> QED BY <1>1, <2>1, <2>5, <3>1, <3>2, BaseFacts DEF Frame, Recording, Key
  <2> QED BY <1>7, <2>2, <2>3, <2>4, <2>5 DEF Rebuild
<1>8. CASE Adopt
  <2>1. Frame
    BY <1>8, StepFrame DEF Adopt
  <2>2. /\ UNCHANGED <<known, op>>
        /\ seen' = IF scan.did /\ file # Absent THEN file.mtime ELSE seen
        /\ dseen' = IF scan.did /\ docs # {} THEN Winner.rev ELSE dseen
        /\ Lapsed("adopted", InSync \/ ~scan.did)
    BY <1>8 DEF Adopt
  <2>3. lapse' = "no" => lapse = "no" /\ (InSync \/ ~scan.did)
    BY <2>2 DEF Lapsed
  <2>4. seen' \in Key /\ dseen' \in used \cup {0} /\ op' = Idle
    BY <2>1, <2>2, BaseFacts, WinnerFacts DEF Frame, Key, Remembered
  <2>5. CASE ~scan.did
    BY <2>1, <2>2, <2>3, <2>4, <2>5, BaseFacts DEF Frame, Recording, keys
  <2>6. CASE scan.did
    <3>1. InSync => Told
      <4>1. InSync => \A l \in docs : l.rev = dseen' => l.body = file.body /\ (file # Absent => seen' = file.mtime)
        BY <2>2, <2>6, WinnerFacts DEF InSync, Remembered
      <4>2. InSync /\ docs = {} => file = Absent
        BY Facts, BaseFacts, WinnerFacts DEF InSync, NoLeaf
      <4> QED BY <2>2, <2>6, <4>1, <4>2, BaseFacts DEF Told
    <3> QED BY <2>1, <2>2, <2>3, <2>4, <2>6, <3>1, BaseFacts DEF Frame, Recording
  <2> QED BY <2>5, <2>6
<1> QED BY <1>3, <1>4, <1>5, <1>6, <1>7, <1>8 DEF ScanStep
-----------------------------------------------------------------------------
(* Every action keeps the types. *)

CheckRecord == [pc : CheckPcs, a : LeafRecord, b : LeafRecord]

LEMMA ChecksKept ==
    ASSUME CheckType, NEW k \in CheckKeys
    PROVE  /\ NoCheck \in CheckRecord
           /\ \A pc \in CheckPcs : Goto(k, pc) => CheckType'
           /\ checks' = [checks EXCEPT ![k] = NoCheck] => CheckType'
           /\ Requeue(k) => CheckType'
           /\ Queue(k) => CheckType'
           /\ checks' = checks => CheckType'
           /\ checks[k] \in CheckRecord
<1>1. NoCheck \in CheckRecord
  BY Facts DEF NoCheck, CheckRecord, CheckPcs
<1>2. checks \in [CheckKeys -> CheckRecord]
  BY DEF CheckType, CheckRecord
<1>3. ASSUME NEW pc \in CheckPcs PROVE [checks EXCEPT ![k].pc = pc] \in [CheckKeys -> CheckRecord]
  BY <1>2, <1>3 DEF CheckRecord
<1>4. [NoCheck EXCEPT !.pc = "queued"] \in CheckRecord
  BY <1>1 DEF CheckRecord, CheckPcs
<1>5. ASSUME NEW r \in CheckRecord PROVE [checks EXCEPT ![k] = r] \in [CheckKeys -> CheckRecord]
  BY <1>2
<1>6. "queued" \in CheckPcs
  BY DEF CheckPcs
<1>7. Queue(k) => checks' = checks \/ checks' = [checks EXCEPT ![k].pc = "queued"]
  BY DEF Queue
<1> QED BY <1>1, <1>2, <1>3, <1>4, <1>5, <1>6, <1>7 DEF CheckType, CheckRecord, Goto, Requeue

LEMMA CheckStep == TypeInv /\ Next => CheckType'
<1> SUFFICES ASSUME TypeInv, Next PROVE CheckType'
  OBVIOUS
<1>1. CheckType
  BY DEF TypeInv
<1>2. CASE StorageEvent \/ Store \/ Delete \/ WriteFile \/ StatWritten \/ FailStored \/ FailWritten
           \/ Edit \/ Replicate \/ Save
  BY <1>1, <1>2 DEF StorageEvent, Store, Delete, WriteFile, StatWritten, FailStored, FailWritten,
                    Edit, Replicate, Save, CheckType
<1>3. CASE DatabaseEvent
  <2>1. Queue("path") \/ checks' = checks
    BY <1>3 DEF DatabaseEvent
  <2> QED BY <1>1, <2>1, Facts, ChecksKept
<1>4. CASE ScanStep
  BY <1>1, <1>4 DEF ScanStep, List, ScanBoth, ScanStorage, ScanDatabase, Rebuild, Adopt, Step, CheckType
<1>5. ASSUME NEW k \in CheckKeys, Resolve(k) \/ QueueChecked(k) \/ FailResolved(k) PROVE CheckType'
  <2>1. CASE Check(k)
    <3>1. CASE ~Conflicted
      BY <1>1, <2>1, <3>1, ChecksKept DEF Check
    <3>2. CASE Conflicted
      <4>1. PICK pc \in IF Winner.del \/ Oldest.del THEN {"newer"} ELSE Rules :
               checks' = [checks EXCEPT ![k] = [pc |-> pc, a |-> Winner, b |-> Oldest]]
        BY <2>1, <3>2 DEF Check
      <4>2. pc \in CheckPcs
        BY HiddenAssumption DEF CheckPcs
      <4>3. Winner \in LeafRecord /\ Oldest \in LeafRecord
        BY <3>2, WinnerFacts, OldestFacts DEF TypeInv, TreeType, Remembered, IsLeaf
      <4>4. [pc |-> pc, a |-> Winner, b |-> Oldest] \in CheckRecord
        BY <4>2, <4>3 DEF CheckRecord
      <4> QED BY <1>1, <4>1, <4>4 DEF CheckType, CheckRecord
    <3> QED BY <3>1, <3>2
  <2>2. CASE QueueChecked(k)
    BY <1>1, <2>2, ChecksKept DEF QueueChecked
  <2>3. CASE ResolveByNewer(k) \/ DropMerged(k) \/ FlushStat(k)
    BY <1>1, <2>3, ChecksKept DEF ResolveByNewer, DropMerged, FlushStat
  <2>4. CASE WriteMerged(k) \/ StoreMerged(k) \/ Answer(k) \/ FailResolved(k)
    <3>1. (\E pc \in CheckPcs : Goto(k, pc)) \/ checks' = [checks EXCEPT ![k] = NoCheck] \/ Requeue(k)
      BY <2>4 DEF WriteMerged, StoreMerged, Answer, FailResolved, CheckPcs
    <3> QED BY <1>1, <3>1, ChecksKept
  <2>5. CASE Flush(k)
    <3>1. CASE Requeue(k)
      BY <1>1, <3>1, ChecksKept
    <3>2. CASE checks' = [checks EXCEPT ![k] = [@ EXCEPT !.pc = "flushStat", !.a = Winner]]
      <4>1. checks[k] \in CheckRecord /\ "flushStat" \in CheckPcs
        BY <1>1 DEF CheckType, CheckRecord, CheckPcs
      <4>2. [checks[k] EXCEPT !.pc = "flushStat", !.a = Winner] \in CheckRecord
        BY <4>1, WinnerFacts DEF CheckRecord
      <4> QED BY <1>1, <3>2, <4>2 DEF CheckType, CheckRecord
    <3> QED BY <2>5, <3>1, <3>2 DEF Flush
  <2> QED BY <1>5, <2>1, <2>2, <2>3, <2>4, <2>5 DEF Resolve
<1>6. CASE \E p \in setup.directions \cup {"offline", "periodic"} : StartScan(p)
  BY <1>1, <1>6 DEF StartScan, CheckType
<1>7. CASE Kill
  BY <1>1, <1>7, Facts, ChecksKept DEF Kill, CheckType, CheckRecord
<1> QED BY <1>2, <1>3, <1>4, <1>5, <1>6, <1>7 DEF Next, Track

\* A revision that a check has written is remembered as it is.
Flushed == \A k \in CheckKeys : checks'[k].pc = "flushStat" =>
              \/ checks[k].pc = "flushStat" /\ checks'[k].a = checks[k].a
              \/ docs # {} /\ checks'[k].a = Winner

LEMMA FlushMove == TypeInv /\ Next => Flushed
<1> SUFFICES ASSUME TypeInv, Next PROVE Flushed
  OBVIOUS
<1>1. checks \in [CheckKeys -> CheckRecord]
  BY DEF TypeInv, CheckType, CheckRecord
<1>2. checks' = checks => Flushed
  BY DEF Flushed
<1>3. ASSUME NEW k \in CheckKeys, NEW r, checks' = [checks EXCEPT ![k] = r],
             r.pc # "flushStat" \/ (docs # {} /\ r.a = Winner)
      PROVE  Flushed
  BY <1>1, <1>3 DEF Flushed
<1>4. ASSUME NEW k \in CheckKeys, NEW pc, pc # "flushStat", checks' = [checks EXCEPT ![k].pc = pc] PROVE Flushed
  BY <1>1, <1>4 DEF Flushed, CheckRecord
<1>5. /\ \A k \in CheckKeys : Requeue(k) => Flushed
      /\ \A k \in CheckKeys : Queue(k) => Flushed
      /\ \A k \in CheckKeys : checks' = [checks EXCEPT ![k] = NoCheck] => Flushed
  BY <1>2, <1>3, <1>4 DEF Requeue, Queue, NoCheck
<1>6. CASE StorageEvent \/ Store \/ Delete \/ WriteFile \/ StatWritten \/ FailStored \/ FailWritten
           \/ Edit \/ Replicate \/ Save
  BY <1>2, <1>6 DEF StorageEvent, Store, Delete, WriteFile, StatWritten, FailStored, FailWritten,
                    Edit, Replicate, Save
<1>7. CASE DatabaseEvent
  BY <1>2, <1>5, <1>7, Facts DEF DatabaseEvent
<1>8. CASE ScanStep \/ \E p \in setup.directions \cup {"offline", "periodic"} : StartScan(p)
  BY <1>2, <1>8 DEF ScanStep, List, ScanBoth, ScanStorage, ScanDatabase, Rebuild, Adopt, Step, StartScan
<1>9. ASSUME NEW k \in CheckKeys, Resolve(k) \/ QueueChecked(k) \/ FailResolved(k) PROVE Flushed
  <2>1. CASE Check(k)
    <3>1. "newer" # "flushStat" /\ \A pc \in Rules : pc # "flushStat"
      BY HiddenAssumption
    <3> QED BY <1>3, <1>5, <2>1, <3>1 DEF Check
  <2>2. CASE QueueChecked(k) \/ ResolveByNewer(k) \/ DropMerged(k) \/ FlushStat(k)
    BY <1>5, <2>2 DEF QueueChecked, ResolveByNewer, DropMerged, FlushStat
  <2>3. CASE WriteMerged(k) \/ StoreMerged(k) \/ Answer(k) \/ FailResolved(k)
    BY <1>4, <1>5, <2>3 DEF WriteMerged, StoreMerged, Answer, FailResolved, Goto
  <2>4. CASE Flush(k)
    <3>1. CASE checks' = [checks EXCEPT ![k] = [@ EXCEPT !.pc = "flushStat", !.a = Winner]] /\ docs # {}
      BY <1>1, <1>3, <3>1 DEF CheckRecord
    <3> QED BY <1>5, <2>4, <3>1 DEF Flush
  <2> QED BY <1>9, <2>1, <2>2, <2>3, <2>4 DEF Resolve
<1>10. CASE Kill
  BY <1>10 DEF Kill, Flushed, NoCheck
<1> QED BY <1>6, <1>7, <1>8, <1>9, <1>10 DEF Next, Track

LEMMA BoundsStep ==
    ASSUME TypeInv, Next
    PROVE  /\ setup' \in Setups /\ setup' = setup
           /\ edits' \in Nat /\ fails' \in Nat /\ kills' \in Nat /\ edits <= edits'
           /\ ev' \subseteq {"storage", "database"}
<1>1. setup' = setup /\ setup \in Setups /\ edits \in Nat /\ fails \in Nat /\ kills \in Nat
      /\ ev \subseteq {"storage", "database"}
  BY DEF TypeInv, Next
<1> DEFINE Counted == /\ edits' = edits \/ edits' = edits + 1
                      /\ fails' = fails \/ fails' = fails + 1
                      /\ kills' = kills \/ kills' = kills + 1
                      /\ ev' \subseteq {"storage", "database"}
<1>2. StorageEvent \/ DatabaseEvent \/ ScanStep => Counted
  <2> SUFFICES ASSUME StorageEvent \/ DatabaseEvent \/ ScanStep PROVE Counted
    OBVIOUS
  <2>1. UNCHANGED bounds
    BY EventRecords, ScanRecords DEF Recording
  <2>2. ev' \subseteq ev
    BY DEF StorageEvent, DatabaseEvent, ScanStep, List, ScanBoth, ScanStorage, ScanDatabase,
           Rebuild, Adopt, Step
  <2> QED BY <1>1, <2>1, <2>2 DEF bounds
<1>3. Store \/ Delete \/ WriteFile \/ StatWritten \/ FailStored \/ FailWritten \/ Save => Counted
  BY <1>1 DEF Store, Delete, WriteFile, StatWritten, FailStored, FailWritten, Save, bounds
<1>4. (\E k \in CheckKeys : Resolve(k) \/ QueueChecked(k) \/ FailResolved(k)) => Counted
  BY <1>1 DEF Resolve, QueueChecked, Check, ResolveByNewer, WriteMerged, Answer, StoreMerged,
              DropMerged, Flush, FlushStat, FailResolved, Requeue, bounds
<1>5. (\E p \in setup.directions \cup {"offline", "periodic"} : StartScan(p)) => Counted
  BY <1>1 DEF StartScan
<1>6. Edit \/ Replicate \/ Kill => Counted
  BY <1>1 DEF Edit, Replicate, Kill, bounds
<1> HIDE DEF Counted
<1>7. Counted
  BY <1>2, <1>3, <1>4, <1>5, <1>6 DEF Next, Track
<1> QED BY <1>1, <1>7 DEF Counted

\* Where the content of the file comes from.
Edited(b) == [mtime |-> 2 * edits + 3, body |-> b]
FileMoves == \/ file' = file \/ file' = Absent
             \/ edits' = edits + 1 /\ \E b \in Body : file' = Edited(b)
             \/ \E l : Remembered(l, docs, used) /\ file' = FileOf(l)
                       /\ (l \in docs \/ (op.pc = "write" /\ l = op.meta))

LEMMA FileMove == TypeInv /\ Next => FileMoves
<1> SUFFICES ASSUME TypeInv, Next PROVE FileMoves
  OBVIOUS
<1>1. CASE StorageEvent \/ DatabaseEvent \/ ScanStep
  BY <1>1, EventRecords, ScanRecords DEF Recording, FileMoves
<1>2. CASE Store \/ Delete \/ StatWritten \/ FailStored \/ FailWritten \/ Replicate \/ Save \/ Kill
  BY <1>2 DEF Store, Delete, StatWritten, FailStored, FailWritten, Replicate, Save, Kill, FileMoves
<1>3. CASE WriteFile
  BY <1>3 DEF WriteFile, TypeInv, OpType, FileMoves
<1>4. ASSUME NEW k \in CheckKeys, Resolve(k) \/ QueueChecked(k) \/ FailResolved(k) PROVE FileMoves
  <2>1. CASE Flush(k)
    <3>1. file' = file \/ (docs # {} /\ file' = FileOf(Winner))
      BY <2>1 DEF Flush
    <3> QED BY <3>1, WinnerFacts DEF FileMoves
  <2>2. CASE WriteMerged(k) \/ Answer(k)
    BY <2>2 DEF WriteMerged, Answer, FileMoves, Edited
  <2>3. CASE \/ Check(k) \/ ResolveByNewer(k) \/ StoreMerged(k) \/ DropMerged(k)
             \/ FlushStat(k) \/ FailResolved(k) \/ QueueChecked(k)
    BY <2>3 DEF Check, ResolveByNewer, StoreMerged, DropMerged, FlushStat, FailResolved, QueueChecked,
                FileMoves
  <2> QED BY <1>4, <2>1, <2>2, <2>3 DEF Resolve
<1>5. CASE Edit
  BY <1>5 DEF Edit, FileMoves, Edited
<1>6. CASE \E p \in setup.directions \cup {"offline", "periodic"} : StartScan(p)
  BY <1>6 DEF StartScan, FileMoves
<1> QED BY <1>1, <1>2, <1>3, <1>4, <1>5, <1>6 DEF Next, Track

LEMMA EditedFacts == \A b \in Body : edits \in Nat => /\ IsFile(Edited(b)) /\ Edited(b) # Absent
                                                      /\ Edited(b).mtime = 2 * edits + 3
<1> SUFFICES ASSUME NEW b \in Body, edits \in Nat
             PROVE  IsFile(Edited(b)) /\ Edited(b) # Absent /\ Edited(b).mtime = 2 * edits + 3
  OBVIOUS
<1>1. 2 * edits + 3 \in Nat /\ 2 * edits + 3 # 0
  OBVIOUS
<1> DEFINE t == 2 * edits + 3
<1>2. Edited(b).mtime = t /\ Edited(b).body = b /\ Edited(b) = [mtime |-> t, body |-> b]
  BY DEF Edited
<1> HIDE DEF t
<1>3. t \in Nat /\ t # 0
  BY <1>1 DEF t
<1>4. Edited(b) \in FileRecord
  BY <1>2, <1>3 DEF FileRecord, Content
<1>5. IsFile(Edited(b))
  BY <1>2, <1>3, <1>4, Facts DEF IsFile
<1> QED BY <1>2, <1>3, <1>5, Facts DEF t

LEMMA FileStep == TypeInv /\ Next => IsFile(file')
BY FileMove, EditedFacts, Facts DEF FileMoves, Remembered, TypeInv

LEMMA TreeStep ==
    ASSUME TypeInv, Next
    PROVE  /\ TreeType(docs', used') /\ used \subseteq used'
           /\ \A x : Remembered(x, docs, used) => Remembered(x, docs', used')
           /\ \A l \in docs' : l \in docs \/ l.rev \notin used \cup {0}
<1>1. CASE Moves
  BY <1>1, MovesFacts
<1>2. CASE UNCHANGED <<docs, used>>
  BY <1>2 DEF TypeInv
<1> QED BY <1>1, <1>2, NextMoves

SavedRecord == [seen : Key, known : Nat, dseen : Nat]

LEMMA KeyStep == TypeInv /\ Next => KeyType'
<1> SUFFICES ASSUME TypeInv, Next PROVE KeyType'
  OBVIOUS
<1> DEFINE Kept == /\ seen' \in Key /\ known' \in Nat /\ dseen' \in used' \cup {0}
                   /\ saved' = saved
<1>1. used \subseteq used' /\ KeyType
  BY TreeStep DEF TypeInv
<1>2. Kept => KeyType'
  BY <1>1 DEF KeyType
<1>3. CASE StorageEvent \/ DatabaseEvent \/ ScanStep
  BY <1>1, <1>2, <1>3, EventRecords, ScanRecords DEF Recording
<1>4. ASSUME NEW c, IsFile(c), NEW r \in used' \cup {0}, saved' = saved, RecordBoth(c.mtime, r)
      PROVE  KeyType'
  <2>1. c.mtime \in Nat
    BY <1>4 DEF IsFile, FileRecord
  <2> QED BY <1>1, <1>2, <1>4, <2>1, BaseFacts DEF RecordBoth, RecordFile, Key
<1>5. saved' = saved /\ UNCHANGED keys => KeyType'
  BY <1>1, <1>2, BaseFacts DEF keys
<1>6. CASE Store
  <2>1. IsFile(op.cache) /\ saved' = saved
    BY <1>6 DEF Store, TypeInv, OpType
  <2>2. CASE ~Winner.del /\ RecordBoth(op.cache.mtime, Winner.rev)
    <3>1. Winner.rev \in used \cup {0}
      BY WinnerFacts DEF NoLeaf, Remembered
    <3> QED BY <1>1, <1>4, <2>1, <2>2, <3>1
  <2>3. CASE RecordBoth(op.cache.mtime, NextRev) /\ Put(op.cache)
    <3>1. NextRev \in used'
      BY <2>3 DEF Put
    <3> QED BY <1>4, <2>1, <2>3, <3>1
  <2> QED BY <1>6, <2>2, <2>3 DEF Store
<1>7. CASE Delete
  <2>1. saved' = saved /\ Absent.mtime = 0
    BY <1>7 DEF Delete, Absent
  <2>2. CASE docs # {} /\ RecordBoth(0, Winner.rev)
    BY <1>1, <1>4, <2>1, <2>2, WinnerFacts, Facts DEF Remembered
  <2>3. CASE RecordBoth(0, NextRev) /\ used' = used \cup {NextRev}
    <3>1. NextRev \in used'
      BY <2>3
    <3> QED BY <1>4, <2>1, <2>3, <3>1, Facts
  <2> QED BY <1>7, <2>2, <2>3 DEF Delete
<1>8. CASE FailStored \/ FailWritten \/ Edit \/ Replicate
  BY <1>5, <1>8 DEF FailStored, FailWritten, Edit, Replicate
<1>9. CASE WriteFile \/ StatWritten
  <2>1. op.pc \in {"write", "stat"} /\ saved' = saved
    BY <1>9 DEF WriteFile, StatWritten
  <2>2. op.meta.rev \in used
    BY <2>1 DEF TypeInv, OpType, Remembered
  <2>3. CASE UNCHANGED keys \/ RecordBoth(file.mtime, op.meta.rev)
    BY <1>1, <1>4, <1>5, <2>1, <2>2, <2>3, BaseFacts
  <2>4. CASE dseen' = op.meta.rev /\ (UNCHANGED <<seen, known>> \/ RecordFile(0))
    BY <1>1, <1>2, <2>1, <2>2, <2>4, BaseFacts DEF RecordFile, Key
  <2> QED BY <1>9, <2>3, <2>4 DEF WriteFile, StatWritten
<1>10. ASSUME NEW k \in CheckKeys, Resolve(k) \/ QueueChecked(k) \/ FailResolved(k) PROVE KeyType'
  <2>1. CASE \/ Check(k) \/ ResolveByNewer(k) \/ WriteMerged(k) \/ Answer(k) \/ DropMerged(k)
             \/ QueueChecked(k) \/ FailResolved(k)
    BY <1>5, <2>1 DEF Check, ResolveByNewer, WriteMerged, Answer, DropMerged, QueueChecked, FailResolved
  <2>2. CASE StoreMerged(k)
    <3>1. saved' = saved
      BY <2>2 DEF StoreMerged
    <3>2. CASE UNCHANGED keys
      BY <1>5, <3>1, <3>2
    <3>3. CASE RecordBoth(file.mtime, Winner.rev) /\ ~Winner.del
      <4>1. Winner.rev \in used
        BY <3>3, WinnerFacts DEF NoLeaf, Remembered
      <4> QED BY <1>1, <1>4, <3>1, <3>3, <4>1, BaseFacts
    <3>4. CASE Put(file) /\ RecordBoth(file.mtime, NextRev)
      <4>1. NextRev \in used'
        BY <3>4 DEF Put
      <4> QED BY <1>4, <3>1, <3>4, <4>1, BaseFacts
    <3> QED BY <2>2, <3>2, <3>3, <3>4 DEF StoreMerged
  <2>3. CASE Flush(k)
    <3>1. saved' = saved
      BY <2>3 DEF Flush
    <3>2. CASE UNCHANGED keys
      BY <1>5, <3>1, <3>2
    <3>3. CASE RecordBoth(file'.mtime, Winner.rev)
      <4> DEFINE f == file'
      <4>1. IsFile(f)
        BY FileStep
      <4>2. Winner.rev \in used \cup {0}
        BY WinnerFacts DEF NoLeaf, Remembered
      <4>3. RecordBoth(f.mtime, Winner.rev)
        BY <3>3
      <4> HIDE DEF f
      <4> QED BY <1>1, <1>4, <3>1, <4>1, <4>2, <4>3
    <3>4. CASE dseen' = Winner.rev /\ UNCHANGED <<seen, known>> /\ docs # {}
      <4>1. Winner.rev \in used
        BY <3>4, WinnerFacts DEF Remembered
      <4> QED BY <1>1, <1>2, <3>1, <3>4, <4>1, BaseFacts
    <3> QED BY <2>3, <3>2, <3>3, <3>4 DEF Flush
  <2>4. CASE FlushStat(k)
    <3>1. checks[k].a.rev \in used /\ saved' = saved
      BY <2>4 DEF FlushStat, TypeInv, FlushType, Remembered
    <3> QED BY <1>1, <1>4, <1>5, <2>4, <3>1, BaseFacts DEF FlushStat
  <2> QED BY <1>10, <2>1, <2>2, <2>3, <2>4 DEF Resolve
<1>11. CASE \E p \in setup.directions \cup {"offline", "periodic"} : StartScan(p)
  BY <1>5, <1>11 DEF StartScan
<1>12. CASE Save
  <2>1. saved' = [seen |-> seen, known |-> known, dseen |-> dseen] /\ UNCHANGED keys
    BY <1>12 DEF Save
  <2>2. dseen \in Nat
    BY BaseFacts
  <2>3. saved' \in SavedRecord /\ saved'.dseen = dseen
    BY <2>1, <2>2, BaseFacts DEF SavedRecord
  <2> QED BY <1>1, <2>1, <2>3, BaseFacts DEF KeyType, keys, SavedRecord
<1>13. CASE Kill
  <2>1. saved' = saved /\ seen' = saved.seen /\ known' = saved.known /\ dseen' = saved.dseen
    BY <1>13 DEF Kill
  <2> QED BY <1>1, <2>1 DEF KeyType
<1> QED BY <1>3, <1>6, <1>7, <1>8, <1>9, <1>10, <1>11, <1>12, <1>13 DEF Next, Track

\* How the tracking operation goes on.
OpMoves == \/ op' = op \/ op' = Idle
           \/ op = Idle /\ \E f \in BOOLEAN : op' = StoreOp(f) /\ file # Absent
           \/ op = Idle /\ \E f \in BOOLEAN : op' = DeleteOp(f)
           \/ op = Idle /\ \E m \in docs \cup {scan.snap} : Remembered(m, docs, used) /\ op' = WriteOp(m)
           \/ op.pc = "write" /\ op' = [op EXCEPT !.pc = "stat"]

LEMMA OpMove == TypeInv /\ Next => OpMoves
<1> SUFFICES ASSUME TypeInv, Next PROVE OpMoves
  OBVIOUS
<1>1. CASE StorageEvent \/ DatabaseEvent \/ ScanStep
  BY <1>1, EventRecords, ScanRecords DEF Recording, OpMoves
<1>2. CASE Store \/ Delete \/ FailStored \/ FailWritten \/ WriteFile \/ StatWritten
           \/ Edit \/ Replicate \/ Save \/ Kill
  BY <1>2 DEF Store, Delete, FailStored, FailWritten, WriteFile, StatWritten, Edit, Replicate, Save, Kill,
              OpMoves
<1>3. ASSUME NEW k \in CheckKeys, Resolve(k) \/ QueueChecked(k) \/ FailResolved(k) PROVE OpMoves
  BY <1>3 DEF Resolve, QueueChecked, Check, ResolveByNewer, WriteMerged, Answer, StoreMerged,
              DropMerged, Flush, FlushStat, FailResolved, Requeue, OpMoves
<1>4. CASE \E p \in setup.directions \cup {"offline", "periodic"} : StartScan(p)
  BY <1>4 DEF StartScan, OpMoves
<1> QED BY <1>1, <1>2, <1>3, <1>4 DEF Next, Track

LEMMA OpStep == TypeInv /\ Next => OpType'
<1> SUFFICES ASSUME TypeInv, Next PROVE OpType'
  OBVIOUS
<1>1. \A x : Remembered(x, docs, used) => Remembered(x, docs', used')
  BY TreeStep
<1>2. OpType /\ IsFile(file) /\ file \in FileRecord
  BY BaseFacts DEF TypeInv
<1>3. CASE op' = op
  BY <1>1, <1>2, <1>3 DEF OpType
<1>4. CASE op' = Idle
  BY <1>4, IdleFacts, Facts DEF OpType
<1>5. ASSUME NEW f \in BOOLEAN, op' = StoreOp(f), file # Absent PROVE OpType'
  <2>1. StoreOp(f) \in OpRecord /\ StoreOp(f).pc = "store" /\ StoreOp(f).cache = file
    BY <1>2, Facts DEF StoreOp, OpRecord, Pcs
  <2> QED BY <1>2, <1>5, <2>1 DEF OpType
<1>6. ASSUME NEW f \in BOOLEAN, op' = DeleteOp(f) PROVE OpType'
  <2>1. DeleteOp(f) \in OpRecord /\ DeleteOp(f).pc = "delete"
    BY <1>2, Facts DEF DeleteOp, OpRecord, Pcs
  <2> QED BY <1>6, <2>1 DEF OpType
<1>7. ASSUME NEW m, Remembered(m, docs, used), op' = WriteOp(m) PROVE OpType'
  <2>1. m \in LeafRecord
    BY <1>7 DEF Remembered, IsLeaf
  <2>2. WriteOp(m) \in OpRecord /\ WriteOp(m).pc = "write" /\ WriteOp(m).meta = m
    BY <2>1, Facts DEF WriteOp, OpRecord, Pcs
  <2> QED BY <1>1, <1>7, <2>2 DEF OpType
<1>8. CASE op.pc = "write" /\ op' = [op EXCEPT !.pc = "stat"]
  <2>1. op \in OpRecord /\ Remembered(op.meta, docs, used)
    BY <1>2, <1>8 DEF OpType
  <2>2. op' \in OpRecord /\ op'.pc = "stat" /\ op'.meta = op.meta
    BY <1>8, <2>1 DEF OpRecord, Pcs
  <2> QED BY <1>1, <2>1, <2>2 DEF OpType
<1> QED BY <1>3, <1>4, <1>5, <1>6, <1>7, <1>8, OpMove DEF OpMoves

\* What a scan remembers of the document.
ScanMoves == scan'.snap = scan.snap \/ scan'.snap = NoLeaf \/ scan'.snap = Winner

LEMMA ScanMove == TypeInv /\ Next => ScanMoves
<1> SUFFICES ASSUME TypeInv, Next PROVE ScanMoves
  OBVIOUS
<1>1. Quiet.snap = NoLeaf /\ \A s : [Quiet EXCEPT !.todo = s].snap = NoLeaf
  BY DEF Quiet
<1>2. \A s : Step(s) => ScanMoves
  BY <1>1 DEF Step, ScanMoves
<1>3. CASE ScanStep
  BY <1>2, <1>3 DEF ScanStep, List, ScanBoth, ScanStorage, ScanDatabase, Rebuild, Adopt
<1>4. CASE StorageEvent \/ DatabaseEvent \/ Store \/ Delete \/ FailStored \/ FailWritten \/ WriteFile
           \/ StatWritten \/ Edit \/ Replicate \/ Save
  BY <1>4 DEF StorageEvent, DatabaseEvent, Store, Delete, FailStored, FailWritten, WriteFile, StatWritten,
              Edit, Replicate, Save, ScanMoves
<1>5. CASE Kill \/ \E p \in setup.directions \cup {"offline", "periodic"} : StartScan(p)
  BY <1>1, <1>5 DEF Kill, StartScan, ScanMoves
<1>6. ASSUME NEW k \in CheckKeys, Resolve(k) \/ QueueChecked(k) \/ FailResolved(k) PROVE ScanMoves
  BY <1>6 DEF Resolve, QueueChecked, Check, ResolveByNewer, WriteMerged, Answer, StoreMerged,
              DropMerged, Flush, FlushStat, FailResolved, Requeue, ScanMoves
<1> QED BY <1>3, <1>4, <1>5, <1>6 DEF Next, Track

LEMMA ScanTypeStep == TypeInv /\ Next => ScanType'
BY ScanMove, TreeStep, WinnerFacts DEF ScanMoves, ScanType, TypeInv

LEMMA FlushStep == TypeInv /\ Next => FlushType'
BY FlushMove, TreeStep, WinnerFacts DEF Flushed, FlushType, TypeInv

LEMMA TypeStep == TypeInv /\ Next => TypeInv'
BY BoundsStep, FileStep, TreeStep, KeyStep, OpStep, ScanTypeStep, CheckStep, FlushStep DEF TypeInv

LEMMA TypeStutter == TypeInv /\ UNCHANGED vars => TypeInv'
BY DEF vars, TypeInv, KeyType, OpType, ScanType, CheckType, FlushType

LEMMA TypeInit == Init => TypeInv
<1> SUFFICES ASSUME Init PROVE TypeInv
  OBVIOUS
<1>1. setup \in Setups /\ edits \in Nat /\ fails \in Nat /\ kills \in Nat /\ ev \subseteq {"storage", "database"}
  BY DEF Init
<1>2. IsFile(file)
  <2>1. ASSUME NEW b \in Body PROVE IsFile([mtime |-> 1, body |-> b])
    BY Facts DEF IsFile, FileRecord, Content
  <2> QED BY <2>1, Facts DEF Init
<1>3. TreeType(docs, used)
  <2>1. CASE docs = {}
    <3>1. used = {}
      BY <2>1 DEF Init
    <3> QED BY <2>1, <3>1, FS_EmptySet DEF TreeType
  <2>2. ASSUME NEW b \in Body,
               docs = {[rev |-> 1, mtime |-> setup.remote[1], body |-> b, del |-> FALSE]}
        PROVE  TreeType(docs, used)
    <3> DEFINE n == [rev |-> 1, mtime |-> setup.remote[1], body |-> b, del |-> FALSE]
    <3>1. setup.remote \in Seq(Nat \ {0}) /\ setup.remote # <<>>
      BY <1>1, HiddenAssumption DEF IsSetup
    <3>2. setup.remote[1] \in Nat \ {0}
      BY <3>1
    <3>3. n \in LeafRecord /\ n.rev = 1 /\ n.mtime # 0 /\ n.del = FALSE /\ n.body = b
      BY <3>2 DEF LeafRecord, Content
    <3>4. IsLeaf(n)
      BY <3>3, Facts DEF IsLeaf
    <3> HIDE DEF n
    <3>5. docs = {n} /\ used = {1}
      <4>1. docs = {n}
        BY <2>2 DEF n
      <4> QED BY <3>3, <4>1 DEF Init
    <3>6. IsFiniteSet(docs) /\ IsFiniteSet(used)
      BY <3>5, FS_Singleton
    <3> QED BY <3>3, <3>4, <3>5, <3>6 DEF TreeType, Remembered
  <2> QED BY <2>1, <2>2 DEF Init
<1>4. KeyType
  <2>1. saved = [seen |-> None, known |-> 0, dseen |-> 0] /\ seen = None /\ known = 0 /\ dseen = 0
    BY DEF Init
  <2> QED BY <2>1 DEF KeyType, Key
<1>5. OpType /\ ScanType
  <2>1. op = Idle /\ scan = [Quiet EXCEPT !.todo = Program("offline")]
    BY DEF Init
  <2>2. scan.snap = NoLeaf
    BY <2>1 DEF Quiet
  <2> QED BY <2>1, <2>2, IdleFacts, Facts DEF OpType, ScanType
<1>6. CheckType /\ FlushType
  <2>1. NoCheck \in CheckRecord /\ NoCheck.pc = "none"
    BY Facts DEF NoCheck, CheckRecord, CheckPcs
  <2>2. checks = [k \in CheckKeys |-> NoCheck]
    BY DEF Init
  <2> QED BY <2>1, <2>2 DEF CheckType, FlushType, CheckRecord
<1> QED BY <1>1, <1>2, <1>3, <1>4, <1>5, <1>6 DEF TypeInv

LEMMA TypeInvImpliesTypeOK == TypeInv => TypeOK
<1> SUFFICES ASSUME TypeInv PROVE TypeOK
  OBVIOUS
<1>1. file \in [mtime : Nat, body : Body \cup {NoBody}]
  BY BaseFacts DEF FileRecord, Content
<1>2. docs \subseteq LeafRecord /\ {l.rev : l \in docs} \subseteq used /\ used \subseteq Nat
  BY DEF TypeInv, TreeType, Remembered, IsLeaf
<1>3. seen \in Nat \cup {None} /\ known \in Nat /\ dseen \in Nat
  BY BaseFacts DEF Key
<1>4. op.pc \in {"idle", "store", "delete", "write", "stat"} /\ ev \subseteq {"storage", "database"}
  BY DEF TypeInv, OpType, OpRecord, Pcs
<1> QED BY <1>1, <1>2, <1>3, <1>4 DEF TypeOK, LeafRecord, Content

\* Every part of the state keeps its type: the file is absent or has a content, a key
\* names a revision that exists or existed, and an operation or scan that remembers a
\* revision remembers it as it is.
THEOREM TypeCorrect == Spec => []TypeOK
<1>1. Init => TypeInv
  BY TypeInit
<1>2. TypeInv /\ [Next]_vars => TypeInv'
  BY TypeStep, TypeStutter
<1>3. TypeInv => TypeOK
  BY TypeInvImpliesTypeOK
<1> QED BY <1>1, <1>2, <1>3, PTL DEF Spec
-----------------------------------------------------------------------------
(* What has the same mtime has the same content. *)

\* What an action makes anew: an edit, or a revision that arrives.
Fresh(n) == \/ edits' = edits + 1 /\ n.mtime = 2 * edits + 3
            \/ \E r \in (DOMAIN setup.remote \cap used') \ used : n.mtime = setup.remote[r]

LEMMA ItemFacts ==
    /\ file \in Items /\ Absent \in Items /\ FileOf(scan.snap) \in Items
    /\ \A l \in docs : FileOf(l) \in Items
    /\ op.pc = "store" => op.cache \in Items
    /\ op.pc \in {"write", "stat"} => FileOf(op.meta) \in Items
    /\ \A x \in Items : \/ x = file \/ x = Absent \/ x = FileOf(scan.snap)
                        \/ \E l \in docs : x = FileOf(l)
                        \/ op.pc = "store" /\ x = op.cache
                        \/ op.pc \in {"write", "stat"} /\ x = FileOf(op.meta)
BY DEF Items

LEMMA LeafMove ==
    ASSUME TypeInv, Next
    PROVE  \/ \A l \in docs' : FileOf(l) \in Items
           \/ edits' = edits /\ \E n : Fresh(n) /\ \A l \in docs' : FileOf(l) \in Items \cup {n}
<1>1. docs' \subseteq docs => \A l \in docs' : FileOf(l) \in Items
  BY ItemFacts
<1>2. ASSUME NEW c \in Items, IsFile(c), c # Absent, Put(c) PROVE \A l \in docs' : FileOf(l) \in Items
  <2>1. PICK n : FileOf(n) = c /\ docs' = (docs \ {Winner}) \cup {n}
    BY <1>2, PutFacts
  <2> QED BY <2>1, ItemFacts
<1>3. CASE Store
  <2>1. UNCHANGED docs \/ Put(op.cache)
    BY <1>3 DEF Store
  <2>2. op.cache \in Items /\ IsFile(op.cache) /\ op.cache # Absent
    BY <1>3, ItemFacts DEF Store, TypeInv, OpType
  <2> QED BY <1>1, <1>2, <2>1, <2>2
<1>4. CASE Delete
  <2>1. docs' \subseteq docs \/ docs' = {Tombstone}
    BY <1>4, WinnerFacts DEF Delete, Tombstone
  <2>2. FileOf(Tombstone) = Absent
    BY DEF FileOf, Tombstone
  <2> QED BY <1>1, <2>1, <2>2, ItemFacts
<1>5. ASSUME NEW k \in CheckKeys, Resolve(k) \/ QueueChecked(k) \/ FailResolved(k)
      PROVE  \A l \in docs' : FileOf(l) \in Items
  <2>1. CASE StoreMerged(k)
    <3>1. UNCHANGED docs \/ (file # Absent /\ Put(file))
      BY <2>1 DEF StoreMerged
    <3> QED BY <1>1, <1>2, <3>1, ItemFacts, BaseFacts
  <2>2. CASE ~StoreMerged(k)
    <3>1. docs' \subseteq docs
      BY <1>5, <2>2 DEF Resolve, QueueChecked, Check, ResolveByNewer, WriteMerged, Answer,
                        DropMerged, Flush, FlushStat, FailResolved, Requeue, Without
    <3> QED BY <1>1, <3>1
  <2> QED BY <2>1, <2>2
<1>6. CASE Replicate
  <2>1. PICK r \in DOMAIN setup.remote \ used, b \in Body \cup {NoBody}, parent \in docs \cup {NoLeaf} :
           /\ docs' = (docs \ {parent}) \cup
                         {[rev |-> r, mtime |-> setup.remote[r], body |-> b, del |-> b = NoBody]}
           /\ used' = used \cup {r}
    BY <1>6 DEF Replicate
  <2> DEFINE n == [rev |-> r, mtime |-> setup.remote[r], body |-> b, del |-> b = NoBody]
             c == [mtime |-> setup.remote[r], body |-> b]
  <2>2. FileOf(n) = Absent \/ FileOf(n) = c
    BY DEF FileOf
  <2>3. Fresh(c)
    BY <2>1 DEF Fresh
  <2>4. edits' = edits
    BY <1>6 DEF Replicate, bounds
  <2>5. \A l \in docs' : l \in docs \/ l = n
    BY <2>1
  <2> HIDE DEF n, c
  <2> QED BY <2>2, <2>3, <2>4, <2>5, ItemFacts
<1>7. CASE StorageEvent \/ DatabaseEvent \/ ScanStep
  BY <1>1, <1>7, EventRecords, ScanRecords DEF Recording
<1>8. CASE FailStored
  BY <1>1, <1>8, WinnerFacts DEF FailStored
<1>9. CASE WriteFile \/ StatWritten \/ FailWritten \/ Edit \/ Save \/ Kill
           \/ \E p \in setup.directions \cup {"offline", "periodic"} : StartScan(p)
  BY <1>1, <1>9 DEF WriteFile, StatWritten, FailWritten, Edit, Save, Kill, StartScan
<1> QED BY <1>3, <1>4, <1>5, <1>6, <1>7, <1>8, <1>9 DEF Next, Track

LEMMA OpItems ==
    ASSUME TypeInv, Next
    PROVE  /\ op'.pc = "store" => op'.cache \in Items
           /\ op'.pc \in {"write", "stat"} => FileOf(op'.meta) \in Items
<1>1. CASE op' = op \/ op' = Idle
  BY <1>1, ItemFacts, IdleFacts, Facts DEF Idle
<1>2. ASSUME NEW f \in BOOLEAN, op' = StoreOp(f) \/ op' = DeleteOp(f)
      PROVE  (op'.pc = "store" => op'.cache \in Items) /\ op'.pc \notin {"write", "stat"}
  BY <1>2, ItemFacts DEF StoreOp, DeleteOp
<1>3. ASSUME NEW m \in docs \cup {scan.snap}, op' = WriteOp(m)
      PROVE  op'.pc = "write" /\ FileOf(op'.meta) \in Items
  BY <1>3, ItemFacts DEF WriteOp
<1>4. CASE op.pc = "write" /\ op' = [op EXCEPT !.pc = "stat"]
  <2>1. op'.pc = "stat" /\ op'.meta = op.meta
    BY <1>4 DEF TypeInv, OpType, OpRecord
  <2> QED BY <1>4, <2>1, ItemFacts
<1> QED BY <1>1, <1>2, <1>3, <1>4, OpMove DEF OpMoves

LEMMA ItemsStep ==
    ASSUME TypeInv, Next
    PROVE  Items' \subseteq Items \/ \E n : Fresh(n) /\ Items' \subseteq Items \cup {n}
<1>1. \A x \in Items' : \/ x = file' \/ x = Absent \/ x = FileOf(scan'.snap)
                        \/ \E l \in docs' : x = FileOf(l)
                        \/ op'.pc = "store" /\ x = op'.cache
                        \/ op'.pc \in {"write", "stat"} /\ x = FileOf(op'.meta)
  BY DEF Items
<1>2. FileOf(scan'.snap) \in Items
  <2>1. FileOf(NoLeaf) = Absent /\ FileOf(Winner) \in Items
    <3>1. FileOf(NoLeaf) = Absent
      BY DEF FileOf, NoLeaf
    <3> QED BY <3>1, WinnerFacts, ItemFacts
  <2> QED BY <2>1, ScanMove, ItemFacts DEF ScanMoves
<1>3. \A x \in Items' : x = file' \/ x \in Items \/ \E l \in docs' : x = FileOf(l)
  BY <1>1, <1>2, OpItems, ItemFacts
<1>4. edits' = edits => file' \in Items
  <2>1. edits \in Nat
    BY DEF TypeInv
  <2>2. edits' = edits => edits' # edits + 1
    BY <2>1
  <2> QED BY <2>2, FileMove, ItemFacts DEF FileMoves
<1>5. file' \in Items \/ Fresh(file')
  <2>1. edits \in Nat
    BY DEF TypeInv
  <2> QED BY <2>1, FileMove, EditedFacts, ItemFacts DEF FileMoves, Fresh
<1>6. CASE \A l \in docs' : FileOf(l) \in Items
  BY <1>3, <1>5, <1>6
<1>7. CASE edits' = edits /\ \E n : Fresh(n) /\ \A l \in docs' : FileOf(l) \in Items \cup {n}
  BY <1>3, <1>4, <1>7
<1> QED BY <1>6, <1>7, LeafMove

\* The times of edits are odd, those of revisions even.
LEMMA Parity ==
    ASSUME NEW i \in Nat, NEW t \in Nat, t % 2 = 0
    PROVE  t # 2 * i + 1 /\ t # 2 * i + 3
<1>1. PICK j \in Nat : t = 2 * j
  OBVIOUS
<1> QED BY <1>1

LEMMA RemoteFacts ==
    ASSUME TypeInv, DistinctTimes
    PROVE  /\ \A r \in DOMAIN setup.remote : setup.remote[r] \in Nat /\ setup.remote[r] # 0
                                             /\ setup.remote[r] % 2 = 0
           /\ \A q, r \in DOMAIN setup.remote : setup.remote[q] = setup.remote[r] => q = r
<1>1. IsSetup(setup) /\ setup \in Setups
  BY HiddenAssumption DEF TypeInv
<1>2. setup.remote \in Seq(Nat \ {0})
  BY <1>1 DEF IsSetup
<1>3. \A r \in DOMAIN setup.remote : setup.remote[r] \in Nat \ {0}
  BY <1>2
<1> QED BY <1>1, <1>3 DEF IsSetup, DistinctTimes

LEMMA GivenKept ==
    ASSUME TypeInv, Next
    PROVE  \A t : Given(t) => Given(t)'
<1>1. used \subseteq used' /\ setup' = setup /\ edits \in Nat /\ edits' \in Nat /\ edits <= edits'
  BY TreeStep, BoundsStep DEF TypeInv
<1>2. 0 .. edits \subseteq 0 .. edits'
  BY <1>1
<1> QED BY <1>1, <1>2 DEF Given

LEMMA FreshFacts ==
    ASSUME TypeInv, DistinctTimes, Next, NEW n, Fresh(n)
    PROVE  Given(n.mtime)' /\ ~Given(n.mtime)
<1>1. edits \in Nat /\ setup' = setup
  BY BoundsStep DEF TypeInv
<1>2. CASE edits' = edits + 1 /\ n.mtime = 2 * edits + 3
  <2>1. n.mtime = 2 * edits' + 1 /\ edits' \in 0 .. edits'
    BY <1>1, <1>2
  <2>2. n.mtime # 0 /\ \A e \in 0 .. edits : n.mtime # 2 * e + 1
    BY <1>1, <1>2
  <2>3. \A r \in DOMAIN setup.remote : n.mtime # setup.remote[r]
    BY <1>1, <1>2, RemoteFacts, Parity
  <2> QED BY <2>1, <2>2, <2>3 DEF Given
<1>3. ASSUME NEW r \in (DOMAIN setup.remote \cap used') \ used, n.mtime = setup.remote[r]
      PROVE  Given(n.mtime)' /\ ~Given(n.mtime)
  <2>1. n.mtime \in Nat /\ n.mtime # 0 /\ n.mtime % 2 = 0
    BY <1>3, RemoteFacts
  <2>2. \A e \in 0 .. edits : n.mtime # 2 * e + 1
    BY <1>1, <2>1, Parity
  <2>3. \A q \in used \cap DOMAIN setup.remote : n.mtime # setup.remote[q]
    BY <1>3, RemoteFacts
  <2> QED BY <1>1, <1>3, <2>1, <2>2, <2>3 DEF Given
<1> QED BY <1>2, <1>3 DEF Fresh

LEMMA TimeStep == TypeInv /\ DistinctTimes /\ TimeInv /\ Next => TimeInv'
<1> SUFFICES ASSUME TypeInv, DistinctTimes, TimeInv, Next PROVE TimeInv'
  OBVIOUS
<1>1. \A x \in Items : Given(x.mtime) /\ Given(x.mtime)'
  BY GivenKept DEF TimeInv
<1>2. \A x, y \in Items : x.mtime = y.mtime => x = y
  BY DEF TimeInv
<1>3. CASE Items' \subseteq Items
  BY <1>1, <1>2, <1>3 DEF TimeInv
<1>4. ASSUME NEW n, Fresh(n), Items' \subseteq Items \cup {n} PROVE TimeInv'
  <2>1. \A x \in Items' : Given(x.mtime)'
    BY <1>1, <1>4, FreshFacts
  <2>2. \A x, y \in Items' : x.mtime = y.mtime => x = y
    BY <1>1, <1>2, <1>4, FreshFacts
  <2> QED BY <2>1, <2>2 DEF TimeInv
<1> QED BY <1>3, <1>4, ItemsStep

LEMMA TimeStutter == TimeInv /\ UNCHANGED vars => TimeInv'
BY DEF vars, TimeInv, Items, Given

LEMMA TimeInit == Init => TimeInv
<1> SUFFICES ASSUME Init PROVE TimeInv
  OBVIOUS
<1>1. TypeInv
  BY TypeInit
<1>2. op.pc = "idle" /\ edits = 0 /\ FileOf(scan.snap) = Absent
  BY DEF Init, Idle, Quiet, FileOf, NoLeaf
<1>3. file = Absent \/ file.mtime = 1
  BY DEF Init
<1>4. docs = {} \/ \E n : docs = {n} /\ n.rev = 1 /\ n.mtime = setup.remote[1] /\ n.del = FALSE /\ used = {1}
  <2>1. ASSUME NEW b \in Body,
               docs = {[rev |-> 1, mtime |-> setup.remote[1], body |-> b, del |-> FALSE]}
        PROVE  \E n : docs = {n} /\ n.rev = 1 /\ n.mtime = setup.remote[1] /\ n.del = FALSE /\ used = {1}
    <3> DEFINE n == [rev |-> 1, mtime |-> setup.remote[1], body |-> b, del |-> FALSE]
    <3>1. docs = {n} /\ n.rev = 1 /\ n.mtime = setup.remote[1] /\ n.del = FALSE
      BY <2>1
    <3> HIDE DEF n
    <3>2. used = {1}
      BY <3>1 DEF Init
    <3> QED BY <3>1, <3>2
  <2> QED BY <2>1 DEF Init
<1>5. setup.remote \in Seq(Nat \ {0}) /\ setup.remote # <<>> /\ \A r \in DOMAIN setup.remote : setup.remote[r] % 2 = 0
  BY <1>1, HiddenAssumption DEF TypeInv, IsSetup
<1>6. 1 \in DOMAIN setup.remote /\ setup.remote[1] # 0 /\ setup.remote[1] \in Nat /\ setup.remote[1] % 2 = 0
  BY <1>5
<1>7. setup.remote[1] # 1
  BY <1>6
<1>8. Given(0) /\ Given(1) /\ Absent.mtime = 0
  <2>1. 0 \in 0 .. edits /\ 1 = 2 * 0 + 1
    BY <1>2
  <2> QED BY <2>1 DEF Given, Absent
<1>9. \A x \in Items : x = file \/ x = Absent \/ \E l \in docs : x = FileOf(l)
  BY <1>2, ItemFacts
<1>10. \A l \in docs : FileOf(l).mtime = setup.remote[1] /\ docs = {l} /\ 1 \in used
  BY <1>4 DEF FileOf
<1>11. \A x \in Items : x = file \/ x = Absent \/ (x.mtime = setup.remote[1] /\ \A y \in docs : x = FileOf(y))
  BY <1>9, <1>10
<1>12. docs # {} => Given(setup.remote[1])
  BY <1>6, <1>10 DEF Given
<1>13. \A x \in Items : Given(x.mtime)
  BY <1>3, <1>8, <1>9, <1>10, <1>12
<1>14. \A x, y \in Items : x.mtime = y.mtime => x = y
  BY <1>3, <1>6, <1>7, <1>8, <1>9, <1>10
<1> QED BY <1>13, <1>14 DEF TimeInv
-----------------------------------------------------------------------------
(* What the keys say stays true. *)

\* A key of the file is the mtime of a file or revision that exists or existed.
KeyTimes == \A t \in {seen, saved.seen} : t = None \/ Given(t)

LEMMA KeyTimesStep == TypeInv /\ TimeInv /\ TimeInv' /\ KeyTimes /\ Next => KeyTimes'
<1> SUFFICES ASSUME TypeInv, TimeInv, TimeInv', KeyTimes, Next PROVE KeyTimes'
  OBVIOUS
<1>1. \A t \in {seen, saved.seen, None} : t = None \/ Given(t)'
  BY GivenKept DEF KeyTimes
<1>2. \A x \in Items \cup Items' : Given(x.mtime)'
  BY GivenKept DEF TimeInv
<1>3. file \in Items /\ Absent \in Items /\ Absent.mtime = 0
  BY ItemFacts DEF Absent
<1>4. file' \in Items'
  BY DEF Items
<1>5. saved' = saved /\ seen' \in {seen, saved.seen, None, 0, file.mtime, file'.mtime} => KeyTimes'
  BY <1>1, <1>2, <1>3, <1>4 DEF KeyTimes
<1>6. CASE StorageEvent \/ DatabaseEvent \/ ScanStep
  BY <1>5, <1>6, EventRecords, ScanRecords DEF Recording
<1>7. CASE Store
  <2>1. saved' = saved /\ seen' = op.cache.mtime /\ op.cache \in Items
    BY <1>7, ItemFacts DEF Store, RecordBoth, RecordFile
  <2> QED BY <1>1, <1>2, <2>1 DEF KeyTimes
<1>8. CASE Delete \/ WriteFile \/ StatWritten
  BY <1>5, <1>8 DEF Delete, WriteFile, StatWritten, RecordBoth, RecordFile, keys
<1>9. CASE FailStored \/ FailWritten \/ Edit \/ Replicate
           \/ \E p \in setup.directions \cup {"offline", "periodic"} : StartScan(p)
  BY <1>5, <1>9 DEF FailStored, FailWritten, Edit, Replicate, StartScan, keys
<1>10. ASSUME NEW k \in CheckKeys, Resolve(k) \/ QueueChecked(k) \/ FailResolved(k) PROVE KeyTimes'
  <2>1. saved' = saved /\ seen' \in {seen, file.mtime, file'.mtime}
    BY <1>10 DEF Resolve, QueueChecked, Check, ResolveByNewer, WriteMerged, Answer, StoreMerged,
                 DropMerged, Flush, FlushStat, FailResolved, Requeue, RecordBoth, RecordFile, keys
  <2> QED BY <1>5, <2>1
<1>11. CASE Save
  BY <1>1, <1>11 DEF Save, keys, KeyTimes
<1>12. CASE Kill
  BY <1>5, <1>12 DEF Kill
<1> QED BY <1>6, <1>7, <1>8, <1>9, <1>10, <1>11, <1>12 DEF Next, Track

\* A lapse is never undone.
LEMMA LapseStep == TypeInv /\ Next /\ lapse' = "no" => lapse = "no"
<1> SUFFICES ASSUME TypeInv, Next, lapse' = "no" PROVE lapse = "no"
  OBVIOUS
<1>1. CASE StorageEvent \/ DatabaseEvent \/ ScanStep
  BY <1>1, EventRecords, ScanRecords DEF Recording
<1>2. CASE Store \/ Delete \/ WriteFile \/ StatWritten \/ FailStored \/ FailWritten
  BY <1>2 DEF Store, Delete, WriteFile, StatWritten, FailStored, FailWritten, Lapsed
<1>3. ASSUME NEW k \in CheckKeys, Resolve(k) \/ QueueChecked(k) \/ FailResolved(k) PROVE lapse = "no"
  BY <1>3 DEF Resolve, QueueChecked, Check, ResolveByNewer, WriteMerged, Answer, StoreMerged,
              DropMerged, Flush, FlushStat, FailResolved, Requeue, Lapsed
<1>4. CASE Edit \/ Replicate \/ Save \/ Kill
           \/ \E p \in setup.directions \cup {"offline", "periodic"} : StartScan(p)
  BY <1>4 DEF Edit, Replicate, Save, Kill, StartScan, Lapsed
<1> QED BY <1>1, <1>2, <1>3, <1>4 DEF Next, Track

\* New leaves have new revisions, of which no key speaks.
LEMMA Persist ==
    ASSUME TypeInv, Next, NEW s, NEW d \in used \cup {0}
    PROVE  /\ Gone(s, d, docs) => Gone(s, d, docs')
           /\ \A f : Honest(s, d, f, docs) => Honest(s, d, f, docs')
BY TreeStep DEF Gone, Honest

\* A write of a check ends with the reading of its key, or with a kill.
FlushKept == \A k \in CheckKeys : checks[k].pc = "flushStat" => checks'[k].pc = "flushStat"

LEMMA CheckKept ==
    ASSUME TypeInv, NEW k \in CheckKeys,
           \/ Check(k) \/ ResolveByNewer(k) \/ WriteMerged(k) \/ Answer(k) \/ StoreMerged(k)
           \/ DropMerged(k) \/ Flush(k) \/ QueueChecked(k) \/ FailResolved(k)
    PROVE  FlushKept
<1>1. checks \in [CheckKeys -> CheckRecord]
  BY DEF TypeInv, CheckType, CheckRecord
<1>2. checks[k].pc # "flushStat"
  BY DEF Check, ResolveByNewer, WriteMerged, Answer, StoreMerged, DropMerged, Flush, QueueChecked,
         FailResolved
<1>3. \/ checks' = checks
      \/ \E r : checks' = [checks EXCEPT ![k] = r]
      \/ \E pc : checks' = [checks EXCEPT ![k].pc = pc]
  <2>1. CASE QueueChecked(k) \/ Check(k) \/ ResolveByNewer(k) \/ DropMerged(k) \/ Flush(k)
    BY <2>1 DEF QueueChecked, Queue, Check, ResolveByNewer, DropMerged, Flush, Requeue
  <2>2. CASE WriteMerged(k) \/ StoreMerged(k) \/ Answer(k) \/ FailResolved(k)
    BY <2>2 DEF WriteMerged, StoreMerged, Answer, FailResolved, Requeue, Goto
  <2> QED BY <2>1, <2>2
<1>4. \A j \in CheckKeys : j # k => checks'[j] = checks[j]
  BY <1>1, <1>3
<1> QED BY <1>2, <1>4 DEF FlushKept

LEMMA KeyInvStep ==
    ASSUME TypeInv, TimeInv, KeyTimes, DistinctTimes, KeyInv, Next, lapse = "no", lapse' = "no"
    PROVE  KeyInv'
<1> DEFINE GoneNew == Gone(seen', dseen', docs')
           GoneSaved == Gone(saved'.seen, saved'.dseen, docs')
           HonestNew == Honest(seen', dseen', file', docs')
<1>1. /\ op'.pc # "delete" => GoneNew /\ GoneSaved
      /\ op'.pc \notin {"store", "delete", "stat"} => Flushing' \/ HonestNew
      => KeyInv'
  BY DEF KeyInv
<1>2. dseen \in used \cup {0} /\ saved.dseen \in used \cup {0}
  BY DEF TypeInv, KeyType
<1>3. saved' = saved /\ op.pc # "delete" => GoneSaved
  BY <1>2, Persist DEF KeyInv
<1>4. UNCHANGED <<seen, dseen>> /\ op.pc # "delete" => GoneNew
  BY <1>2, Persist DEF KeyInv
<1>5. UNCHANGED <<seen, dseen, file>> /\ op.pc \notin {"store", "delete", "stat"} /\ FlushKept
      => Flushing' \/ HonestNew
  BY <1>2, Persist DEF KeyInv, Flushing, FlushKept
<1>21. checks' = checks => FlushKept
  BY DEF FlushKept
<1>6. ASSUME NEW b \in Body, file' = Edited(b), UNCHANGED <<seen, dseen>>, edits' = edits + 1 PROVE HonestNew
  <2>1. Fresh(file')
    BY <1>6, EditedFacts DEF Fresh, TypeInv
  <2>2. ~Given(file'.mtime) /\ file'.mtime \in Nat
    BY <1>6, <2>1, FreshFacts, FileStep DEF IsFile, FileRecord
  <2>3. seen # file'.mtime
    BY <2>2 DEF KeyTimes, None
  <2> QED BY <1>6, <2>3 DEF Honest
<1>7. file' = Absent /\ GoneNew => HonestNew
  BY DEF Gone, Honest, Absent
<1>8. ASSUME NEW f, IsFile(f), f # Absent, seen' = f.mtime PROVE GoneNew
  <2>1. f.mtime \in Nat /\ f.mtime # 0
    BY <1>8 DEF IsFile, FileRecord
  <2> QED BY <1>8, <2>1 DEF Gone, None
<1>9. CASE StorageEvent \/ DatabaseEvent \/ ScanStep
  <2>1. Recording
    BY <1>9, EventRecords, ScanRecords
  <2>2. saved' = saved /\ docs' = docs /\ file' = file /\ op = Idle /\ op.pc = "idle"
    BY <2>1 DEF Recording, Idle
  <2>3. GoneSaved
    BY <1>3, <2>2
  <2>9. FlushKept
    <3>1. checks' = checks \/ (checks["path"].pc = "none" /\ checks' = [checks EXCEPT !["path"].pc = "queued"])
      BY <1>9 DEF StorageEvent, DatabaseEvent, Queue, ScanStep, List, ScanBoth, ScanStorage, ScanDatabase,
                  Rebuild, Adopt, Step
    <3>2. checks \in [CheckKeys -> CheckRecord]
      BY DEF TypeInv, CheckType, CheckRecord
    <3> QED BY <1>21, <3>1, <3>2 DEF FlushKept
  <2>4. CASE UNCHANGED <<keys, op>>
    BY <1>1, <1>4, <1>5, <2>2, <2>3, <2>4, <2>9 DEF keys
  <2>5. CASE op' = Idle /\ Told
    <3>1. HonestNew
      BY <2>2, <2>5 DEF Told, Honest
    <3>2. GoneNew
      BY <1>8, <2>2, <2>5, BaseFacts DEF Told, Gone, Absent
    <3> QED BY <1>1, <2>3, <3>1, <3>2
  <2>6. CASE \E f \in BOOLEAN : op' = StoreOp(f) /\ file # Absent /\ seen' = file.mtime
    <3>1. GoneNew /\ op'.pc = "store"
      BY <1>8, <2>6, BaseFacts DEF StoreOp
    <3> QED BY <1>1, <2>3, <3>1
  <2>7. CASE \E f \in BOOLEAN : op' = DeleteOp(f)
    <3>1. op'.pc = "delete"
      BY <2>7 DEF DeleteOp
    <3> QED BY <1>1, <3>1
  <2>8. CASE UNCHANGED <<seen, dseen>> \/ dseen' = 0
    <3>1. dseen' = 0 => GoneNew /\ HonestNew
      BY <2>2, BaseFacts DEF Gone, Honest
    <3> QED BY <1>1, <1>4, <1>5, <2>2, <2>3, <2>8, <2>9, <3>1
  <2> QED BY <2>1, <2>4, <2>5, <2>6, <2>7, <2>8 DEF Recording
<1>10. CASE Store
  <2>1. op.pc = "store" /\ saved' = saved /\ file' = file /\ IsFile(op.cache) /\ op.cache # Absent
    BY <1>10 DEF Store, TypeInv, OpType
  <2>2. seen' = op.cache.mtime
    BY <1>10 DEF Store, RecordBoth, RecordFile
  <2>3. op.cache.mtime = file.mtime => op.cache = file
    BY <2>1, ItemFacts DEF TimeInv
  <2>4. \A l \in docs' : l.rev = dseen' => l.body = op.cache.body
    <3>1. CASE Winner.body = op.cache.body /\ ~Winner.del /\ dseen' = Winner.rev /\ docs' = docs
      BY <3>1, WinnerFacts DEF NoLeaf, Remembered
    <3>2. CASE dseen' = NextRev /\ Put(op.cache)
      <4>1. PICK n : n.rev = NextRev /\ n.body = op.cache.body /\ docs' = (docs \ {Winner}) \cup {n}
        BY <2>1, <3>2, PutFacts
      <4> QED BY <3>2, <4>1, NextRevFacts, BaseFacts
    <3> QED BY <1>10, <3>1, <3>2 DEF Store, RecordBoth
  <2>5. HonestNew
    BY <2>1, <2>2, <2>3, <2>4 DEF Honest
  <2> QED BY <1>1, <1>3, <1>8, <2>1, <2>2, <2>5
<1>11. CASE Delete
  <2>1. file' = file /\ seen' = 0
    BY <1>11 DEF Delete, RecordBoth, RecordFile
  <2>2. \A l \in docs' : l.body = NoBody
    BY <1>11, WinnerFacts DEF Delete, Remembered, IsLeaf
  <2>3. GoneNew /\ GoneSaved
    BY <2>2 DEF Gone
  <2>4. HonestNew
    BY <2>1, <2>2, BaseFacts, Facts DEF Honest
  <2> QED BY <1>1, <2>3, <2>4
<1>12. CASE WriteFile
  <2>1. op.pc = "write" /\ saved' = saved /\ docs' = docs
    BY <1>12 DEF WriteFile
  <2>2. IsLeaf(op.meta) /\ \A l \in docs : l.rev = op.meta.rev => l = op.meta
    BY <2>1 DEF TypeInv, OpType, Remembered
  <2>3. CASE op.meta.del /\ file' = Absent /\ dseen' = op.meta.rev
    <3>1. GoneNew
      BY <2>1, <2>2, <2>3 DEF Gone, IsLeaf
    <3>2. HonestNew
      BY <1>7, <2>3, <3>1
    <3> QED BY <1>1, <1>3, <2>1, <3>1, <3>2
  <2>4. CASE ~op.meta.del /\ file.body = op.meta.body /\ RecordBoth(file.mtime, op.meta.rev) /\ file' = file
    <3>1. file # Absent
      BY <2>2, <2>4 DEF IsLeaf, Absent
    <3>2. seen' = file.mtime /\ dseen' = op.meta.rev
      BY <2>4 DEF RecordBoth, RecordFile
    <3>3. GoneNew
      BY <1>8, <3>1, <3>2, BaseFacts
    <3>4. HonestNew
      BY <2>1, <2>2, <2>4, <3>2 DEF Honest
    <3> QED BY <1>1, <1>3, <2>1, <3>3, <3>4
  <2>5. CASE op' = [op EXCEPT !.pc = "stat"] /\ UNCHANGED keys
    <3>1. op'.pc = "stat"
      BY <2>5 DEF TypeInv, OpType, OpRecord
    <3> QED BY <1>1, <1>3, <1>4, <2>1, <2>5, <3>1 DEF keys
  <2> QED BY <1>12, <2>3, <2>4, <2>5 DEF WriteFile
<1>13. CASE StatWritten
  <2>1. op.pc = "stat" /\ saved' = saved /\ docs' = docs /\ file' = file
    BY <1>13 DEF StatWritten
  <2>2. CASE file = Absent /\ UNCHANGED keys
    BY <1>1, <1>3, <1>4, <1>7, <2>1, <2>2 DEF keys
  <2>3. CASE file # Absent /\ RecordBoth(file.mtime, op.meta.rev) /\ Lapsed("raced", Agree(file, op.meta.rev))
    <3>1. Agree(file, op.meta.rev)
      BY <2>3 DEF Lapsed
    <3>2. seen' = file.mtime /\ dseen' = op.meta.rev
      BY <2>3 DEF RecordBoth, RecordFile
    <3>3. GoneNew
      BY <1>8, <2>3, <3>2, BaseFacts
    <3>4. HonestNew
      BY <2>1, <3>1, <3>2 DEF Agree, Honest
    <3> QED BY <1>1, <1>3, <2>1, <3>3, <3>4
  <2> QED BY <1>13, <2>2, <2>3 DEF StatWritten
<1>14. CASE FailStored
  BY <1>14 DEF FailStored
<1>15. CASE FailWritten
  BY <1>1, <1>3, <1>4, <1>5, <1>15, <1>21 DEF FailWritten, keys
<1>16. CASE (\E p \in setup.directions \cup {"offline", "periodic"} : StartScan(p)) \/ Replicate
  BY <1>1, <1>3, <1>4, <1>5, <1>16, <1>21 DEF StartScan, Replicate, keys
<1>17. CASE Edit
  <2>1. saved' = saved /\ op' = op /\ UNCHANGED <<seen, dseen>>
    BY <1>17 DEF Edit, keys
  <2>2. op.pc # "delete" => HonestNew
    BY <1>4, <1>6, <1>7, <1>17, <2>1 DEF Edit, Edited
  <2> QED BY <1>1, <1>3, <1>4, <2>1, <2>2
<1>18. ASSUME NEW k \in CheckKeys, Resolve(k) \/ QueueChecked(k) \/ FailResolved(k) PROVE KeyInv'
  <2>1. saved' = saved /\ op' = op
    BY <1>18 DEF Resolve, QueueChecked, Check, ResolveByNewer, WriteMerged, Answer, StoreMerged,
                 DropMerged, Flush, FlushStat, FailResolved, Requeue
  <2>2. CASE QueueChecked(k) \/ Check(k) \/ ResolveByNewer(k) \/ DropMerged(k) \/ FailResolved(k)
    <3>1. UNCHANGED <<seen, dseen, file>> /\ FlushKept
      BY <2>2, CheckKept DEF QueueChecked, Check, ResolveByNewer, DropMerged, FailResolved, keys
    <3> QED BY <1>1, <1>3, <1>4, <1>5, <2>1, <3>1
  <2>3. CASE WriteMerged(k) \/ Answer(k)
    <3>1. UNCHANGED <<seen, dseen>> /\ FlushKept
      BY <2>3, CheckKept DEF WriteMerged, Answer, keys
    <3>2. file' = file \/ (edits' = edits + 1 /\ \E b \in Body : file' = Edited(b))
      BY <2>3 DEF WriteMerged, Answer, Edited
    <3> QED BY <1>1, <1>3, <1>4, <1>5, <1>6, <2>1, <3>1, <3>2
  <2>4. CASE StoreMerged(k)
    <3>1. file' = file /\ FlushKept
      BY <2>4, CheckKept DEF StoreMerged
    <3>2. CASE file = Absent /\ UNCHANGED keys
      BY <1>1, <1>3, <1>4, <1>5, <2>1, <3>1, <3>2 DEF keys
    <3>3. CASE file # Absent /\ seen' = file.mtime /\ \A l \in docs' : l.rev = dseen' => l.body = file.body
      <4>1. GoneNew
        BY <1>8, <3>3, BaseFacts
      <4>2. HonestNew
        BY <3>1, <3>3 DEF Honest
      <4> QED BY <1>1, <1>3, <2>1, <4>1, <4>2
    <3>4. ASSUME file # Absent
          PROVE  seen' = file.mtime /\ \A l \in docs' : l.rev = dseen' => l.body = file.body
      <4>1. CASE ~Winner.del /\ Winner.body = file.body /\ RecordBoth(file.mtime, Winner.rev) /\ docs' = docs
        BY <4>1, WinnerFacts DEF NoLeaf, Remembered, RecordBoth, RecordFile
      <4>2. CASE Put(file) /\ RecordBoth(file.mtime, NextRev)
        <5>1. PICK n : n.rev = NextRev /\ n.body = file.body /\ docs' = (docs \ {Winner}) \cup {n}
          BY <3>4, <4>2, PutFacts, BaseFacts
        <5>2. seen' = file.mtime /\ dseen' = NextRev
          BY <4>2 DEF RecordBoth, RecordFile
        <5> QED BY <5>1, <5>2, NextRevFacts, BaseFacts
      <4> QED BY <2>4, <3>4, <4>1, <4>2 DEF StoreMerged
    <3> QED BY <2>4, <3>2, <3>3, <3>4 DEF StoreMerged
  <2>5. CASE Flush(k)
    <3>1. docs' = docs /\ FlushKept
      BY <2>5, CheckKept DEF Flush
    <3>2. CASE UNCHANGED <<file, keys>>
      BY <1>1, <1>3, <1>4, <1>5, <2>1, <3>1, <3>2 DEF keys
    <3>4. CASE checks' = [checks EXCEPT ![k] = [@ EXCEPT !.pc = "flushStat", !.a = Winner]] /\ UNCHANGED keys
      <4>1. checks'[k].pc = "flushStat"
        BY <3>4 DEF TypeInv, CheckType
      <4>2. Flushing'
        BY <4>1 DEF Flushing
      <4> QED BY <1>1, <1>3, <1>4, <2>1, <3>4, <4>2 DEF keys
    <3>5. CASE /\ docs # {} /\ file = Absent /\ dseen' = Winner.rev /\ UNCHANGED <<seen, known>>
               /\ (Winner.del \/ file.body = Winner.body)
               /\ file' = IF file.body = Winner.body THEN file ELSE FileOf(Winner)
      <4>1. IsLeaf(Winner) /\ \A l \in docs : l.rev = Winner.rev => l = Winner
        BY <3>5, WinnerFacts DEF Remembered
      <4>2. Winner.body = NoBody
        BY <3>5, <4>1 DEF IsLeaf, Absent
      <4>3. GoneNew
        BY <3>1, <3>5, <4>1, <4>2 DEF Gone
      <4>4. HonestNew
        BY <3>1, <3>5, <4>1, <4>2 DEF Honest, Absent
      <4> QED BY <1>1, <1>3, <2>1, <4>3, <4>4
    <3>3. CASE /\ docs # {} /\ RecordBoth(file'.mtime, Winner.rev)
               /\ file' = IF file.body = Winner.body THEN file ELSE FileOf(Winner)
      <4>1. IsLeaf(Winner) /\ \A l \in docs : l.rev = Winner.rev => l = Winner
        BY <3>3, WinnerFacts DEF Remembered
      <4>2. file'.body = Winner.body /\ seen' = file'.mtime /\ dseen' = Winner.rev
        BY <3>3, <4>1, Facts DEF RecordBoth, RecordFile
      <4>3. HonestNew
        BY <3>1, <4>1, <4>2 DEF Honest
      <4>4. file' = Absent => GoneNew
        BY <3>1, <4>1, <4>2 DEF Gone, Absent
      <4>5. IsFile(file')
        BY FileStep
      <4>6. file' # Absent => GoneNew
        BY <1>8, <4>2, <4>5
      <4> QED BY <1>1, <1>3, <2>1, <4>3, <4>4, <4>6
    <3> QED BY <2>5, <3>2, <3>3, <3>4, <3>5 DEF Flush
  <2>6. CASE FlushStat(k)
    <3>1. docs' = docs /\ file' = file
      BY <2>6 DEF FlushStat
    <3>2. CASE file = Absent /\ UNCHANGED keys
      BY <1>1, <1>3, <1>4, <1>7, <2>1, <3>1, <3>2 DEF keys
    <3>3. CASE /\ file # Absent /\ RecordBoth(file.mtime, checks[k].a.rev)
               /\ Lapsed("raced", Agree(file, checks[k].a.rev))
      <4>1. Agree(file, checks[k].a.rev)
        BY <3>3 DEF Lapsed
      <4>2. seen' = file.mtime /\ dseen' = checks[k].a.rev
        BY <3>3 DEF RecordBoth, RecordFile
      <4>3. GoneNew
        BY <1>8, <3>3, <4>2, BaseFacts
      <4>4. HonestNew
        BY <3>1, <4>1, <4>2 DEF Agree, Honest
      <4> QED BY <1>1, <1>3, <2>1, <4>3, <4>4
    <3> QED BY <2>6, <3>2, <3>3 DEF FlushStat
  <2> QED BY <1>18, <2>2, <2>3, <2>4, <2>5, <2>6 DEF Resolve
<1>19. CASE Save
  <2>1. op' = op /\ UNCHANGED <<seen, dseen, file>> /\ saved'.seen = seen /\ saved'.dseen = dseen
    BY <1>19 DEF Save, keys
  <2>2. FlushKept
    BY <1>19, <1>21 DEF Save
  <2> QED BY <1>1, <1>2, <1>4, <1>5, <2>1, <2>2
<1>20. CASE Kill
  <2>1. /\ saved' = saved /\ file' = file /\ docs' = docs
        /\ seen' = saved.seen /\ dseen' = saved.dseen
    BY <1>20 DEF Kill
  <2>2. op.pc # "delete" /\ (saved.seen = file.mtime => Agree(file, saved.dseen))
    BY <1>20 DEF Kill, Lapsed
  <2>3. GoneSaved
    BY <1>3, <2>1, <2>2
  <2>4. GoneNew
    BY <2>1, <2>3
  <2>5. HonestNew
    BY <2>1, <2>2 DEF Agree, Honest
  <2> QED BY <1>1, <2>3, <2>4, <2>5
<1> QED BY <1>9, <1>10, <1>11, <1>12, <1>13, <1>14, <1>15, <1>16, <1>17, <1>18, <1>19, <1>20 DEF Next, Track

\* The document loses its last leaf only while the dialogue is about to store its result.
LEMMA StoringStep ==
    ASSUME TypeInv, EmptyInv, Next, lapse = "no", lapse' = "no", docs' = {}
    PROVE  used' = {} \/ Storing'
<1>1. checks \in [CheckKeys -> CheckRecord] /\ CheckType
  BY DEF TypeInv, CheckType, CheckRecord
<1>2. UNCHANGED <<docs, used, checks>> => used' = {} \/ Storing'
  BY DEF EmptyInv, Storing
<1>3. CASE StorageEvent \/ ScanStep
  <2>1. checks' = checks
    BY <1>3 DEF StorageEvent, ScanStep, List, ScanBoth, ScanStorage, ScanDatabase, Rebuild, Adopt, Step
  <2> QED BY <1>2, <1>3, <2>1, EventRecords, ScanRecords DEF Recording
<1>4. ASSUME NEW k \in CheckKeys, checks[k].pc # "askStore", UNCHANGED <<docs, used>>,
             NEW r, checks' = [checks EXCEPT ![k] = r]
      PROVE  used' = {} \/ Storing'
  <2>1. \A j \in CheckKeys : j # k => checks'[j] = checks[j]
    BY <1>1, <1>4
  <2> QED BY <1>4, <2>1 DEF EmptyInv, Storing
<1>5. ASSUME NEW k \in CheckKeys, checks[k].pc # "askStore", UNCHANGED <<docs, used>>,
             NEW pc, checks' = [checks EXCEPT ![k].pc = pc]
      PROVE  used' = {} \/ Storing'
  <2>1. \A j \in CheckKeys : j # k => checks'[j] = checks[j]
    BY <1>1, <1>5
  <2> QED BY <1>5, <2>1 DEF EmptyInv, Storing
<1>6. CASE DatabaseEvent
  <2>1. UNCHANGED <<docs, used>> /\ (checks' = checks \/ Queue("path"))
    BY <1>6 DEF DatabaseEvent
  <2>2. CASE checks' = checks
    BY <1>2, <2>1, <2>2
  <2>3. CASE checks["path"].pc = "none" /\ checks' = [checks EXCEPT !["path"].pc = "queued"]
    BY <1>5, <2>1, <2>3, Facts
  <2> QED BY <2>1, <2>2, <2>3 DEF Queue
<1>7. CASE Store
  <2>1. ~Put(op.cache)
    BY DEF Put
  <2> QED BY <1>2, <1>7, <2>1 DEF Store
<1>8. CASE Delete
  BY <1>8 DEF Delete
<1>9. CASE FailStored
  BY <1>9 DEF FailStored
<1>10. CASE WriteFile \/ StatWritten \/ FailWritten \/ Edit \/ Save
            \/ \E p \in setup.directions \cup {"offline", "periodic"} : StartScan(p)
  BY <1>2, <1>10 DEF WriteFile, StatWritten, FailWritten, Edit, Save, StartScan
<1>11. CASE Replicate
  BY <1>11 DEF Replicate
<1>12. CASE Kill
  <2>1. ~Storing /\ UNCHANGED <<docs, used>>
    BY <1>12 DEF Kill, Lapsed, Storing
  <2> QED BY <2>1 DEF EmptyInv
<1>13. ASSUME NEW k \in CheckKeys, Resolve(k) \/ QueueChecked(k) \/ FailResolved(k) PROVE used' = {} \/ Storing'
  <2>1. CASE QueueChecked(k)
    BY <1>5, <2>1 DEF QueueChecked, Queue
  <2>2. CASE Check(k)
    BY <1>4, <2>2 DEF Check
  <2>3. CASE ResolveByNewer(k) \/ DropMerged(k) \/ StoreMerged(k)
    BY <2>3 DEF ResolveByNewer, DropMerged, StoreMerged, Lapsed
  <2>4. CASE WriteMerged(k)
    BY <1>5, <2>4 DEF WriteMerged, Goto
  <2>5. CASE Answer(k)
    <3>1. checks'[k].pc = "askStore"
      BY <2>5 DEF Answer, Lapsed
    <3> QED BY <3>1 DEF Storing
  <2>6. CASE Flush(k) \/ FlushStat(k)
    BY <1>4, <2>6 DEF Flush, FlushStat, Requeue
  <2>7. CASE FailResolved(k)
    <3>1. CASE checks[k].pc = "flush" /\ Requeue(k) /\ UNCHANGED <<docs, used>>
      BY <1>4, <3>1 DEF Requeue
    <3> QED BY <2>7, <3>1 DEF FailResolved, Lapsed
  <2> QED BY <1>13, <2>1, <2>2, <2>3, <2>4, <2>5, <2>6, <2>7 DEF Resolve
<1> QED BY <1>3, <1>6, <1>7, <1>8, <1>9, <1>10, <1>11, <1>12, <1>13 DEF Next, Track

\* A file whose document never existed: nothing but its own store is under way.
New(o, s, c, k, q) == /\ o.pc \in {"idle", "store", "delete"} /\ s.snap = NoLeaf
                      /\ \A j \in CheckKeys : c[j].pc \in {"none", "queued"}
                      /\ o.pc # "store" => {k, q} \subseteq {0, None}

LEMMA NewStep ==
    ASSUME TypeInv, EmptyInv, Next, lapse = "no", lapse' = "no", used' = {}
    PROVE  New(op', scan', checks', seen', saved'.seen)
<1>1. used = {} /\ docs = {} /\ docs' = {} /\ ~Conflicted
  <2>1. used = {} /\ docs = {} /\ docs' = {}
    BY TreeStep, BaseFacts DEF TreeType, Remembered
  <2> QED BY <2>1, FS_EmptySet DEF Conflicted
<1>2. New(op, scan, checks, seen, saved.seen)
  BY <1>1 DEF EmptyInv, New
<1>3. Winner = NoLeaf /\ ~Remembered(NoLeaf, docs, used) /\ \A m : ~Remembered(m, docs, used)
  BY <1>1, WinnerFacts DEF Remembered
<1>4. scan'.snap = NoLeaf
  BY <1>2, <1>3, ScanMove DEF ScanMoves, New
<1>5. checks \in [CheckKeys -> CheckRecord] /\ CheckType
  BY DEF TypeInv, CheckType, CheckRecord
<1>6. \A c : ~Put(c)
  BY DEF Put
<1>7. CASE StorageEvent \/ DatabaseEvent \/ ScanStep
  <2>1. Recording
    BY <1>7, EventRecords, ScanRecords
  <2>2. checks' = checks
    BY <1>1, <1>7 DEF StorageEvent, DatabaseEvent, ScanStep, List, ScanBoth, ScanStorage, ScanDatabase,
                      Rebuild, Adopt, Step
  <2>3. saved' = saved /\ op = Idle /\ Idle.pc = "idle"
    BY <2>1 DEF Recording, Idle
  <2>4. CASE UNCHANGED <<keys, op>>
    BY <1>2, <1>4, <2>2, <2>3, <2>4 DEF New, keys
  <2>5. CASE op' = Idle /\ Told
    BY <1>1, <1>2, <1>4, <2>2, <2>3, <2>5 DEF New, Told
  <2>6. CASE \E f \in BOOLEAN : op' = StoreOp(f)
    BY <1>2, <1>4, <2>2, <2>6 DEF New, StoreOp
  <2>7. CASE \E f \in BOOLEAN : op' = DeleteOp(f) /\ seen' = 0
    BY <1>2, <1>4, <2>2, <2>3, <2>7 DEF New, DeleteOp
  <2> QED BY <1>3, <2>1, <2>4, <2>5, <2>6, <2>7 DEF Recording
<1>8. ~Store /\ ~Delete /\ ~FailStored /\ ~WriteFile /\ ~StatWritten /\ ~FailWritten /\ ~Replicate
  <2>1. ~Store
    BY <1>3, <1>6 DEF Store, NoLeaf
  <2>2. ~Delete
    BY <1>1 DEF Delete
  <2>3. ~FailStored
    BY DEF FailStored
  <2>4. ~WriteFile /\ ~StatWritten /\ ~FailWritten
    BY <1>2 DEF WriteFile, StatWritten, FailWritten, New
  <2>5. ~Replicate
    BY DEF Replicate
  <2> QED BY <2>1, <2>2, <2>3, <2>4, <2>5
<1>9. ASSUME NEW k \in CheckKeys, Resolve(k) \/ QueueChecked(k) \/ FailResolved(k)
      PROVE  New(op', scan', checks', seen', saved'.seen)
  <2>1. checks[k].pc \in {"none", "queued"}
    BY <1>2, <1>9 DEF New
  <2>2. Check(k)
    BY <1>1, <1>9, <2>1 DEF Resolve, QueueChecked, ResolveByNewer, WriteMerged, Answer, StoreMerged,
                            DropMerged, Flush, FlushStat, FailResolved, Requeue
  <2>3. checks' = [checks EXCEPT ![k] = NoCheck] /\ NoCheck.pc = "none"
    BY <1>1, <2>2 DEF Check, NoCheck
  <2>4. \A j \in CheckKeys : checks'[j].pc \in {"none", "queued"}
    BY <1>2, <1>5, <2>3 DEF New
  <2> QED BY <1>2, <1>4, <2>2, <2>4 DEF New, Check, keys
<1>10. CASE Edit \/ \E p \in setup.directions \cup {"offline", "periodic"} : StartScan(p)
  BY <1>2, <1>4, <1>10 DEF New, Edit, StartScan, keys
<1>11. CASE Save
  BY <1>2, <1>4, <1>11 DEF New, Save, keys
<1>12. CASE Kill
  <2>1. op.pc \notin {"store", "delete"} /\ saved' = saved /\ seen' = saved.seen /\ op' = Idle
        /\ checks' = [k \in CheckKeys |-> NoCheck]
    BY <1>12 DEF Kill, Lapsed
  <2>2. op'.pc = "idle" /\ \A j \in CheckKeys : checks'[j].pc = "none"
    BY <2>1 DEF Idle, NoCheck
  <2> QED BY <1>2, <1>4, <2>1, <2>2 DEF New
<1> QED BY <1>7, <1>8, <1>9, <1>10, <1>11, <1>12 DEF Next, Track

LEMMA SeenStep ==
    TypeInv /\ DistinctTimes /\ TimeInv /\ KeyTimes /\ SeenInv /\ Next => SeenInv'
<1> SUFFICES ASSUME TypeInv, DistinctTimes, TimeInv, KeyTimes, SeenInv, Next, lapse' = "no"
             PROVE  KeyInv' /\ EmptyInv'
  BY DEF SeenInv
<1>1. lapse = "no" /\ KeyInv /\ EmptyInv
  BY LapseStep DEF SeenInv
<1>2. KeyInv'
  BY <1>1, KeyInvStep
<1>3. docs' = {} => used' = {} \/ Storing'
  BY <1>1, StoringStep
<1>4. used' = {} => New(op', scan', checks', seen', saved'.seen)
  BY <1>1, NewStep
<1> QED BY <1>2, <1>3, <1>4 DEF EmptyInv, New

LEMMA SeenStutter == KeyTimes /\ SeenInv /\ UNCHANGED vars => KeyTimes' /\ SeenInv'
BY DEF vars, KeyTimes, Given, SeenInv, KeyInv, EmptyInv, Storing, Flushing, Gone, Honest

LEMMA SeenInit == Init => KeyTimes /\ SeenInv
<1> SUFFICES ASSUME Init PROVE KeyTimes /\ SeenInv
  OBVIOUS
<1>1. seen = None /\ saved.seen = None /\ dseen = 0 /\ saved.dseen = 0 /\ op.pc = "idle" /\ scan.snap = NoLeaf
  BY DEF Init, Idle, Quiet
<1>2. \A k \in CheckKeys : checks[k].pc = "none"
  BY DEF Init, NoCheck
<1>3. (docs = {} => used = {}) /\ TypeInv
  BY TypeInit DEF Init
<1>4. \A l \in docs : l.rev # 0
  BY <1>3, BaseFacts
<1>5. KeyTimes
  BY <1>1 DEF KeyTimes
<1>6. KeyInv
  BY <1>1, <1>4 DEF KeyInv, Gone, Honest
<1>7. EmptyInv
  BY <1>1, <1>2, <1>3 DEF EmptyInv
<1> QED BY <1>5, <1>6, <1>7 DEF SeenInv

LEMMA SeenImplies == TypeInv /\ SeenInv => DifferenceIsSeen
<1> SUFFICES ASSUME TypeInv, SeenInv, AtRest, lapse = "no", ~InSync, ~Seeable PROVE FALSE
  BY DEF DifferenceIsSeen
<1>1. KeyInv /\ EmptyInv /\ op.pc = "idle" /\ ~Storing /\ ~Flushing
  BY DEF SeenInv, AtRest, Idle, Storing, Flushing
<1>2. /\ seen = file.mtime \/ (seen = None /\ file = Absent)
      /\ docs = {} \/ dseen = Winner.rev
  BY DEF Seeable
<1>3. file.body # Winner.body
  BY DEF InSync
<1>4. CASE docs = {}
  <2>1. used = {} /\ seen \in {0, None} /\ Winner = NoLeaf
    BY <1>1, <1>4, WinnerFacts DEF EmptyInv
  <2>2. file = Absent
    BY <1>2, <2>1, BaseFacts, Facts DEF None
  <2> QED BY <1>3, <2>1, <2>2 DEF Absent, NoLeaf
<1>5. CASE docs # {}
  <2>1. Winner \in docs /\ dseen = Winner.rev
    BY <1>2, <1>5, WinnerFacts
  <2>2. CASE seen = file.mtime
    <3>1. Honest(seen, dseen, file, docs)
      BY <1>1 DEF KeyInv
    <3> QED BY <1>3, <2>1, <2>2, <3>1 DEF Honest
  <2>3. CASE seen = None /\ file = Absent
    <3>1. Gone(seen, dseen, docs)
      BY <1>1 DEF KeyInv
    <3> QED BY <1>3, <2>1, <2>3, <3>1 DEF Gone, Absent
  <2> QED BY <1>2, <2>2, <2>3
<1> QED BY <1>4, <1>5

\* When nothing is under way and the storage and the winning revision differ, a
\* recorded key is out of date, so that the next scan sees the difference, unless one
\* of the lapses happened - where no two revisions that arrive have the same mtime.
THEOREM Seen ==
    ASSUME DistinctTimes
    PROVE  Spec => []DifferenceIsSeen
<1> DEFINE Inv == TypeInv /\ TimeInv /\ KeyTimes /\ SeenInv
<1>1. Init => Inv
  BY TypeInit, TimeInit, SeenInit
<1>2. Inv /\ [Next]_vars => Inv'
  <2>1. ASSUME Inv, Next PROVE Inv'
    <3>1. TypeInv' /\ TimeInv'
      BY <2>1, TypeStep, TimeStep
    <3> QED BY <2>1, <3>1, KeyTimesStep, SeenStep
  <2>2. ASSUME Inv, UNCHANGED vars PROVE Inv'
    BY <2>2, TypeStutter, TimeStutter, SeenStutter
  <2> QED BY <2>1, <2>2
<1>3. Inv => DifferenceIsSeen
  BY SeenImplies
<1> QED BY <1>1, <1>2, <1>3, PTL DEF Spec

=============================================================================
