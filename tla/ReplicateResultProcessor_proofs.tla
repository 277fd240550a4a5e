------------------- MODULE ReplicateResultProcessor_proofs -------------------
(***************************************************************************)
(* Proofs about ReplicateResultProcessor, for any set of documents, any    *)
(* number of permits and any of the bounds.                                *)
(***************************************************************************)
EXTENDS ReplicateResultProcessor, FiniteSetTheorems, SequenceTheorems, TLAPS

-----------------------------------------------------------------------------
(* Finite sets of stamped changes have a first and a last element. *)

Stamped(S) == IsFiniteSet(S) /\ \A c \in S : c.at \in Nat \ {0}

LEMMA FiniteHasLast ==
    ASSUME NEW S, Stamped(S), S # {}
    PROVE  \E c \in S : \A d \in S : d.at <= c.at
<1> DEFINE Bad == {T \in FiniteSubsetsOf(S) : T # {} /\ ~\E c \in T : \A d \in T : d.at <= c.at}
<1>1. SUFFICES ASSUME Bad # {} PROVE FALSE
  <2>1. S \in FiniteSubsetsOf(S)
    BY DEF FiniteSubsetsOf, Stamped
  <2> QED BY <2>1
<1>2. PICK M \in Bad : \A T \in Bad : <<T, M>> \notin StrictSubsetOrdering(S)
  <2>1. Bad \subseteq FiniteSubsetsOf(S)
    OBVIOUS
  <2>2. IsWellFoundedOn(StrictSubsetOrdering(S), FiniteSubsetsOf(S))
    BY FS_StrictSubsetOrderingWellFounded
  <2> QED BY <1>1, <2>1, <2>2, WFMin, Zenon
<1>3. M \subseteq S /\ IsFiniteSet(M) /\ M # {} /\ ~\E c \in M : \A d \in M : d.at <= c.at
  BY DEF FiniteSubsetsOf
<1>4. PICK x \in M : TRUE
  BY <1>3
<1>5. M \ {x} \in FiniteSubsetsOf(S)
  BY <1>3, FS_RemoveElement DEF FiniteSubsetsOf
<1>6. M \ {x} \notin Bad
  BY <1>2, <1>3, <1>4, <1>5 DEF StrictSubsetOrdering, FiniteSubsetsOf
<1>7. CASE M \ {x} = {}
  <2>1. M = {x}
    BY <1>4, <1>7
  <2> QED BY <1>3, <2>1 DEF Stamped
<1>8. CASE M \ {x} # {}
  <2>1. PICK c \in M \ {x} : \A d \in M \ {x} : d.at <= c.at
    BY <1>5, <1>6, <1>8
  <2>2. c.at \in Nat /\ x.at \in Nat /\ \A d \in M : d.at \in Nat
    BY <1>3 DEF Stamped
  <2>3. CASE c.at <= x.at
    <3>1. \A d \in M : d.at <= x.at
      BY <2>1, <2>2, <2>3
    <3> QED BY <1>3, <3>1
  <2>4. CASE x.at <= c.at
    BY <1>3, <2>1, <2>4
  <2> QED BY <2>2, <2>3, <2>4
<1> QED BY <1>7, <1>8

LEMMA FiniteHasFirst ==
    ASSUME NEW S, Stamped(S), S # {}
    PROVE  \E c \in S : \A d \in S : c.at <= d.at
<1> DEFINE Bad == {T \in FiniteSubsetsOf(S) : T # {} /\ ~\E c \in T : \A d \in T : c.at <= d.at}
<1>1. SUFFICES ASSUME Bad # {} PROVE FALSE
  <2>1. S \in FiniteSubsetsOf(S)
    BY DEF FiniteSubsetsOf, Stamped
  <2> QED BY <2>1
<1>2. PICK M \in Bad : \A T \in Bad : <<T, M>> \notin StrictSubsetOrdering(S)
  <2>1. Bad \subseteq FiniteSubsetsOf(S)
    OBVIOUS
  <2>2. IsWellFoundedOn(StrictSubsetOrdering(S), FiniteSubsetsOf(S))
    BY FS_StrictSubsetOrderingWellFounded
  <2> QED BY <1>1, <2>1, <2>2, WFMin, Zenon
<1>3. M \subseteq S /\ IsFiniteSet(M) /\ M # {} /\ ~\E c \in M : \A d \in M : c.at <= d.at
  BY DEF FiniteSubsetsOf
<1>4. PICK x \in M : TRUE
  BY <1>3
<1>5. M \ {x} \in FiniteSubsetsOf(S)
  BY <1>3, FS_RemoveElement DEF FiniteSubsetsOf
<1>6. M \ {x} \notin Bad
  BY <1>2, <1>3, <1>4, <1>5 DEF StrictSubsetOrdering, FiniteSubsetsOf
<1>7. CASE M \ {x} = {}
  <2>1. M = {x}
    BY <1>4, <1>7
  <2> QED BY <1>3, <2>1 DEF Stamped
<1>8. CASE M \ {x} # {}
  <2>1. PICK c \in M \ {x} : \A d \in M \ {x} : c.at <= d.at
    BY <1>5, <1>6, <1>8
  <2>2. c.at \in Nat /\ x.at \in Nat /\ \A d \in M : d.at \in Nat
    BY <1>3 DEF Stamped
  <2>3. CASE x.at <= c.at
    <3>1. \A d \in M : x.at <= d.at
      BY <2>1, <2>2, <2>3
    <3> QED BY <1>3, <3>1
  <2>4. CASE c.at <= x.at
    BY <1>3, <2>1, <2>4
  <2> QED BY <2>2, <2>3, <2>4
<1> QED BY <1>7, <1>8

LEMMA FirstIsMember ==
    ASSUME NEW S, Stamped(S), S # {}
    PROVE  First(S) \in S /\ \A d \in S : First(S).at <= d.at
BY FiniteHasFirst DEF First

LEMMA NextAtIsAfter ==
    ASSUME NEW S, Stamped(S)
    PROVE  NextAt(S) \in Nat \ {0} /\ \A c \in S : c.at < NextAt(S)
<1>1. CASE S = {}
  BY <1>1 DEF NextAt
<1>2. CASE S # {}
  <2> DEFINE last == CHOOSE c \in S : \A d \in S : d.at <= c.at
  <2>1. last \in S /\ \A d \in S : d.at <= last.at
    BY <1>2, FiniteHasLast
  <2>2. NextAt(S) = 1 + last.at
    BY <1>2 DEF NextAt
  <2> HIDE DEF last
  <2> QED BY <2>1, <2>2 DEF Stamped
<1> QED BY <1>1, <1>2

LEMMA PlainIsStamped ==
    ASSUME NEW P \in SUBSET Entry, IsFiniteSet(P)
    PROVE  Plain(P) \in SUBSET Change /\ IsFiniteSet(Plain(P))
<1>1. Plain(P) \in SUBSET Change
  BY DEF Plain, Entry, Change
<1> DEFINE f == [e \in P |-> [id |-> e.id, rev |-> e.rev, at |-> e.at]]
<1>2. f \in Surjection(P, Plain(P))
  BY DEF Surjection, Plain
<1>3. IsFiniteSet(Plain(P))
  BY <1>2, FS_Surjection
<1> QED BY <1>1, <1>3
\* The changes restored after a snapshot keep their order, behind it.
LEMMA ShiftIsStamped ==
    ASSUME NEW S \in SUBSET Change, IsFiniteSet(S), NEW n \in Nat
    PROVE  LET T == {[c EXCEPT !.at = @ + n] : c \in S}
           IN  T \in SUBSET Change /\ IsFiniteSet(T)
<1> DEFINE T == {[c EXCEPT !.at = @ + n] : c \in S}
           f == [c \in S |-> [c EXCEPT !.at = @ + n]]
<1>1. T \in SUBSET Change
  BY DEF Change
<1>2. f \in Surjection(S, T)
  BY DEF Surjection
<1>3. IsFiniteSet(T)
  BY <1>2, FS_Surjection
<1> QED BY <1>1, <1>3

-----------------------------------------------------------------------------
(* Type correctness.  NextAt and First choose among the stamps, so the sets *)
(* of changes, in memory and in the key-value database, have to be finite.  *)

FiniteChanges == {S \in SUBSET Change : IsFiniteSet(S)}
KvOp == [op : {"get", "put"}, data : FiniteChanges, final : BOOLEAN]

DbType == latest \in [Docs -> Nat] /\ delivered \in [Docs -> Nat]
BookType ==
    /\ handed \in [Docs -> Nat] /\ settled \in [Docs -> Nat] /\ reached \in [Docs -> Nat]
    /\ crashes \in Nat /\ refilters \in Nat
FlagType ==
    /\ running \in BOOLEAN /\ suspended \in BOOLEAN /\ saveDue \in BOOLEAN
    /\ paused \in [{"setting", "app"} -> BOOLEAN]
    /\ activity \in {"none", "open", "closing"}
    /\ snapshotDue \in BOOLEAN
    /\ restore \in {"none", "issued", "done", "failed"} /\ ready \in BOOLEAN
QueueType ==
    /\ inbox \in FiniteChanges
    /\ pending \in SUBSET Entry /\ IsFiniteSet(pending)
KvType == snapshot \in FiniteChanges /\ kvOps \in Seq(KvOp)
ScanType ==
    /\ unread \in SUBSET Docs /\ batch \in FiniteChanges
    /\ \A d \in unread : latest[d] > 0

TypeInv == DbType /\ BookType /\ FlagType /\ QueueType /\ KvType /\ ScanType

LEMMA TypeInvImpliesTypeOK == TypeInv => TypeOK
<1>1. KvOp \subseteq [op : {"get", "put"}, data : SUBSET Change, final : BOOLEAN]
  BY DEF KvOp, FiniteChanges
<1>2. Seq(KvOp) \subseteq Seq([op : {"get", "put"}, data : SUBSET Change, final : BOOLEAN])
  <2> SUFFICES ASSUME NEW s \in Seq(KvOp)
               PROVE  s \in Seq([op : {"get", "put"}, data : SUBSET Change, final : BOOLEAN])
    OBVIOUS
  <2> DEFINE T == [op : {"get", "put"}, data : SUBSET Change, final : BOOLEAN]
  <2>1. Len(s) \in Nat /\ s \in [1..Len(s) -> KvOp]
    BY LenProperties
  <2> HIDE DEF T
  <2>2. s \in [1..Len(s) -> T]
    BY <1>1, <2>1 DEF T
  <2>3. s \in Seq(T)
    BY <2>1, <2>2, SeqDef
  <2> QED BY <2>3 DEF T
<1> QED
  BY <1>2 DEF TypeInv, TypeOK, DbType, BookType, FlagType, QueueType, KvType, ScanType, FiniteChanges

LEMMA InitType == Init => TypeInv
<1> SUFFICES ASSUME Init PROVE TypeInv
  OBVIOUS
<1>1. IsFiniteSet({}) /\ {} \in FiniteChanges
  BY FS_EmptySet DEF FiniteChanges
<1>2. DbType /\ BookType
  BY DEF Init, DbType, BookType
<1>3. FlagType
  BY DEF Init, FlagType
<1>4. QueueType /\ KvType /\ ScanType
  BY <1>1 DEF Init, QueueType, KvType, ScanType
<1> QED BY <1>2, <1>3, <1>4 DEF TypeInv

\* A process stays an entry, whatever its next phase.
LEMMA MoveType ==
    ASSUME QueueType, NEW e \in pending, NEW pc \in Phases, Move(e, pc)
    PROVE  pending' \in SUBSET Entry /\ IsFiniteSet(pending')
<1>1. At(e, pc) \in Entry
  BY DEF QueueType, At, Entry
<1>2. IsFiniteSet(pending \ {e}) /\ IsFiniteSet({At(e, pc)})
  BY FS_RemoveElement, FS_Singleton DEF QueueType
<1>3. IsFiniteSet((pending \ {e}) \cup {At(e, pc)})
  BY <1>2, FS_Union
<1> QED BY <1>1, <1>3 DEF Move, QueueType

LEMMA QueuedIsFinite ==
    ASSUME NEW P \in SUBSET Entry, IsFiniteSet(P)
    PROVE  /\ Queued(P) \in SUBSET Entry /\ IsFiniteSet(Queued(P))
           /\ Started(P) \in SUBSET Entry /\ IsFiniteSet(Started(P))
           /\ Stamped(P) /\ Stamped(Queued(P))
<1>1. Queued(P) \subseteq P /\ Started(P) \subseteq P
  BY DEF Queued, Started
<1>2. IsFiniteSet(Queued(P)) /\ IsFiniteSet(Started(P))
  BY <1>1, FS_Subset
<1> QED BY <1>1, <1>2 DEF Stamped, Entry

\* Appending an operation, and completing the first one.
LEMMA KvAppend ==
    ASSUME kvOps \in Seq(KvOp), NEW op \in KvOp
    PROVE  Append(kvOps, op) \in Seq(KvOp)
OBVIOUS

LEMMA KvHead ==
    ASSUME kvOps \in Seq(KvOp), kvOps # <<>>
    PROVE  Head(kvOps) \in KvOp /\ Tail(kvOps) \in Seq(KvOp)
OBVIOUS

LEMMA OpsAreTyped ==
    ASSUME NEW P \in SUBSET Entry, IsFiniteSet(P), NEW f \in BOOLEAN
    PROVE  Get \in KvOp /\ Put(P, f) \in KvOp
<1>1. {} \in FiniteChanges
  BY FS_EmptySet DEF FiniteChanges
<1>2. Plain(P) \in FiniteChanges
  BY PlainIsStamped DEF FiniteChanges
<1> QED BY <1>1, <1>2 DEF Get, Put, KvOp

LEMMA ActivityType ==
    ASSUME NEW a \in {"none", "open", "closing"}, NEW s \in BOOLEAN, NEW h \in BOOLEAN
    PROVE  UpdatedActivity(a, s, h) \in {"none", "open", "closing"}
BY DEF UpdatedActivity

LEMMA IsSuspendedType ==
    ASSUME FlagType, NEW s \in BOOLEAN, NEW Q
    PROVE  /\ IsSuspended \in BOOLEAN
           /\ IsSuspendedWith(s, paused) \in BOOLEAN
           /\ LoopEntered(IsSuspended, Q) \in BOOLEAN
           /\ LoopEntered(IsSuspendedWith(s, paused), Q) \in BOOLEAN
BY DEF FlagType, IsSuspended, IsSuspendedWith, LoopEntered

LEMMA TypeStep == TypeInv /\ [NextWithRefilter]_vars => TypeInv'
<1> SUFFICES ASSUME TypeInv, [NextWithRefilter]_vars PROVE TypeInv'
  OBVIOUS
<1> USE DEF TypeInv
<1>1. CASE OnDatabaseInitialized
  <2>1. KvType'
    <3>1. Get \in KvOp
      BY OpsAreTyped, FS_EmptySet
    <3> QED BY <1>1, <3>1, KvAppend DEF OnDatabaseInitialized, KvType, kv
  <2>2. FlagType'
    BY <1>1 DEF OnDatabaseInitialized, FlagType, pause
  <2>3. DbType' /\ BookType' /\ QueueType' /\ ScanType'
    BY <1>1 DEF OnDatabaseInitialized, DbType, BookType, QueueType, ScanType, db, scan
  <2> QED BY <2>1, <2>2, <2>3
<1>2. CASE OnReady
  BY <1>2 DEF OnReady, DbType, BookType, FlagType, QueueType, KvType, ScanType, db, pause, kv, scan
<1>3. CASE RestoreFromSnapshot
  <2> DEFINE S == Plain(Queued(pending))
             T == {[c EXCEPT !.at = @ + NextAt(snapshot)] : c \in S}
  <2>1. QueueType'
    <3>1. S \in SUBSET Change /\ IsFiniteSet(S) /\ Started(pending) \in SUBSET Entry
            /\ IsFiniteSet(Started(pending))
      BY QueuedIsFinite, PlainIsStamped DEF QueueType
    <3>2. NextAt(snapshot) \in Nat
      BY NextAtIsAfter DEF KvType, FiniteChanges, Stamped, Change
    <3>3. T \in SUBSET Change /\ IsFiniteSet(T)
      BY <3>1, <3>2, ShiftIsStamped
    <3>4. snapshot \cup T \in FiniteChanges
      BY <3>3, FS_Union DEF KvType, FiniteChanges
    <3> QED BY <1>3, <3>1, <3>4 DEF RestoreFromSnapshot, QueueType
  <2>2. KvType'
    BY <1>3, KvHead DEF RestoreFromSnapshot, KvType
  <2>3. FlagType'
    BY <1>3 DEF RestoreFromSnapshot, FlagType, pause
  <2>4. DbType' /\ BookType' /\ ScanType'
    BY <1>3 DEF RestoreFromSnapshot, DbType, BookType, ScanType, db, scan
  <2> QED BY <2>1, <2>2, <2>3, <2>4
<1>4. CASE RestoreFails
  <2>1. KvType'
    BY <1>4, KvHead DEF RestoreFails, KvType
  <2>2. FlagType'
    BY <1>4 DEF RestoreFails, FlagType, pause
  <2>3. DbType' /\ BookType' /\ QueueType' /\ ScanType'
    BY <1>4 DEF RestoreFails, DbType, BookType, QueueType, ScanType, db, scan
  <2> QED BY <2>1, <2>2, <2>3
<1>5. CASE SnapshotSettles
  <2>1. KvType'
    <3>1. Head(kvOps) \in KvOp /\ Tail(kvOps) \in Seq(KvOp)
      BY <1>5, KvHead DEF SnapshotSettles, KvType
    <3> QED BY <1>5, <3>1 DEF SnapshotSettles, KvType, KvOp
  <2>2. activity' \in {"none", "open", "closing"}
    <3>1. (pending # {}) \in BOOLEAN /\ IsSuspended \in BOOLEAN
      BY IsSuspendedType
    <3>2. UpdatedActivity(activity, IsSuspended, pending # {}) \in {"none", "open", "closing"}
      BY <3>1, ActivityType DEF FlagType
    <3> QED BY <1>5, <3>2 DEF SnapshotSettles, FlagType
  <2>3. FlagType'
    BY <1>5, <2>2 DEF SnapshotSettles, FlagType, pause, boot
  <2>4. DbType' /\ BookType' /\ QueueType' /\ ScanType'
    BY <1>5 DEF SnapshotSettles, DbType, BookType, QueueType, ScanType, db, scan, boot
  <2> QED BY <2>1, <2>3, <2>4
<1>6. CASE TakeSnapshot
  <2>1. Put(pending, FALSE) \in KvOp
    BY OpsAreTyped DEF QueueType
  <2>2. KvType'
    BY <1>6, <2>1, KvAppend DEF TakeSnapshot, KvType
  <2>3. FlagType'
    BY <1>6 DEF TakeSnapshot, FlagType, pause, boot
  <2>4. DbType' /\ BookType' /\ QueueType' /\ ScanType'
    BY <1>6 DEF TakeSnapshot, DbType, BookType, QueueType, ScanType, db, scan, boot
  <2> QED BY <2>2, <2>3, <2>4
<1>7. ASSUME NEW d \in Docs, Replicate(d) PROVE TypeInv'
  <2>1. DbType' /\ \A x \in Docs : latest'[x] >= latest[x]
    BY <1>7 DEF Replicate, DbType
  <2>2. ScanType'
    BY <1>7, <2>1 DEF Replicate, DbType, ScanType, scan
  <2> QED BY <1>7, <2>1, <2>2 DEF Replicate, BookType, FlagType, QueueType, KvType, pause, kv, boot,
                                  scan
<1>8. ASSUME NEW d \in Docs, ParseReplicationResult(d) PROVE TypeInv'
  <2>1. DbType'
    BY <1>8 DEF ParseReplicationResult, DbType
  <2>2. QueueType'
    <3>1. [id |-> d, rev |-> delivered[d] + 1, at |-> 1] \in Change
      BY DEF DbType, Change, Rev
    <3>2. inbox' \in FiniteChanges
      BY <1>8, <3>1, FS_Singleton DEF ParseReplicationResult, FiniteChanges
    <3> QED BY <1>8, <3>2 DEF ParseReplicationResult, QueueType
  <2> QED BY <1>8, <2>1, <2>2 DEF ParseReplicationResult, BookType, FlagType, KvType, ScanType,
                                  pause, kv, boot, scan
<1>9. CASE EnqueueChange
  <2> DEFINE c == First(inbox)
             queue == QueueAfter(c, Queued(pending))
  <2>1. c \in Change /\ inbox \ {c} \in FiniteChanges
    <3>1. Stamped(inbox)
      BY DEF QueueType, FiniteChanges, Change, Stamped
    <3>2. c \in inbox
      BY <1>9, <3>1, FirstIsMember DEF EnqueueChange
    <3> QED BY <3>2, FS_RemoveElement DEF QueueType, FiniteChanges
  <2>2. queue \in SUBSET Entry /\ IsFiniteSet(queue)
    <3> DEFINE new == [id |-> c.id, rev |-> c.rev, at |-> NextAt(pending), pc |-> "queued"]
               same == {e \in Queued(pending) : e.id = c.id}
               kept == IF same # {} /\ IsDeletion(First(same)) = IsDeletion(c)
                       THEN Queued(pending) \ same ELSE Queued(pending)
    <3>1. queue = kept \cup {new}
      BY DEF QueueAfter
    <3>2. new \in Entry
      <4>1. NextAt(pending) \in Nat \ {0}
        BY QueuedIsFinite, NextAtIsAfter DEF QueueType
      <4> QED BY <2>1, <4>1 DEF Entry, Change, Phases
    <3>3. Queued(pending) \in SUBSET Entry /\ IsFiniteSet(Queued(pending))
      BY QueuedIsFinite DEF QueueType
    <3>4. kept \subseteq Queued(pending)
      OBVIOUS
    <3> HIDE DEF kept, new
    <3>5. IsFiniteSet(kept) /\ kept \in SUBSET Entry
      BY <3>3, <3>4, FS_Subset
    <3>6. IsFiniteSet({new}) /\ {new} \in SUBSET Entry
      BY <3>2, FS_Singleton
    <3>7. IsFiniteSet(kept \cup {new}) /\ kept \cup {new} \in SUBSET Entry
      BY <3>5, <3>6, FS_Union
    <3> HIDE DEF queue
    <3> QED BY <3>1, <3>7
  <2>3. Started(pending) \cup queue \in SUBSET Entry /\ IsFiniteSet(Started(pending) \cup queue)
    BY <2>2, QueuedIsFinite, FS_Union DEF QueueType
  <2>4. QueueType'
    BY <1>9, <2>1, <2>3 DEF EnqueueChange, QueueType
  <2>5. FlagType'
    <3>1. UpdatedActivity(activity, IsSuspended, TRUE) \in {"none", "open", "closing"}
      BY IsSuspendedType, ActivityType DEF FlagType
    <3>2. LoopEntered(IsSuspended, queue) \in BOOLEAN
      BY IsSuspendedType DEF FlagType
    <3> QED BY <1>9, <3>1, <3>2 DEF EnqueueChange, FlagType, pause, boot
  <2>6. DbType' /\ BookType' /\ KvType' /\ ScanType'
    BY <1>9 DEF EnqueueChange, DbType, BookType, KvType, ScanType, db, scan, boot
  <2> QED BY <2>4, <2>5, <2>6
<1>10. CASE RunProcessQueue
  <2> DEFINE queue == Queued(pending)
  <2>1. QueueType'
    <3>1. CASE queue = {}
      BY <1>10, <3>1 DEF RunProcessQueue, QueueType
    <3>2. CASE queue # {}
      <4>1. First(queue) \in pending
        BY <3>2, QueuedIsFinite, FirstIsMember DEF QueueType, Queued
      <4>2. Move(First(queue), "parsing")
        BY <1>10, <3>2 DEF RunProcessQueue
      <4> QED BY <1>10, <4>1, <4>2, MoveType DEF RunProcessQueue, QueueType, Phases
    <3> QED BY <3>1, <3>2
  <2>2. FlagType'
    BY <1>10 DEF RunProcessQueue, FlagType, pause, boot
  <2>3. DbType' /\ BookType' /\ KvType' /\ ScanType'
    BY <1>10 DEF RunProcessQueue, DbType, BookType, KvType, ScanType, db, scan, boot
  <2> QED BY <2>1, <2>2, <2>3
<1>11. ASSUME NEW e \in pending, NEW pc \in Phases, Move(e, pc), handed' \in [Docs -> Nat],
              reached' \in [Docs -> Nat],
              UNCHANGED <<db, inbox, running, pause, activity, kv, boot, scan, settled>>
       PROVE  TypeInv'
  <2>1. QueueType'
    BY <1>11, MoveType DEF QueueType
  <2> QED BY <1>11, <2>1 DEF DbType, BookType, FlagType, KvType, ScanType, db, pause, kv, boot, scan
<1>12. ASSUME NEW e \in pending, ParseDocumentChange(e) PROVE TypeInv'
  BY <1>11, <1>12 DEF ParseDocumentChange, Phases, BookType
<1>13. ASSUME NEW e \in pending, AcquirePermit(e) \/ AcquireLock(e) PROVE TypeInv'
  BY <1>11, <1>13 DEF AcquirePermit, AcquireLock, Phases, BookType
<1>14. ASSUME NEW e \in pending, CheckIsChangeRequired(e) PROVE TypeInv'
  BY <1>11, <1>14 DEF CheckIsChangeRequired, Phases, BookType
<1>15. ASSUME NEW e \in pending, ApplyToStorage(e) PROVE TypeInv'
  <2>1. handed' \in [Docs -> Nat] /\ reached' \in [Docs -> Nat]
    BY <1>15 DEF ApplyToStorage, BookType, QueueType, Entry, Rev
  <2> QED BY <1>11, <1>15, <2>1 DEF ApplyToStorage, Phases
<1>16. ASSUME NEW e \in pending, LeaveProcessing(e) PROVE TypeInv'
  <2>1. QueueType'
    BY <1>16, FS_RemoveElement DEF LeaveProcessing, QueueType
  <2>2. settled' \in [Docs -> Nat]
    BY <1>16 DEF LeaveProcessing, BookType, QueueType, Entry, Rev
  <2>3. KvType'
    <3>1. Put({}, TRUE) \in KvOp
      BY OpsAreTyped, FS_EmptySet
    <3>2. kvOps' \in Seq(KvOp)
      BY <1>16, <3>1, KvAppend DEF LeaveProcessing, KvType
    <3> QED BY <1>16, <3>2 DEF LeaveProcessing, KvType
  <2>4. FlagType'
    <3>1. UpdatedActivity(activity, IsSuspended, TRUE) \in {"none", "open", "closing"}
      BY IsSuspendedType, ActivityType DEF FlagType
    <3> QED BY <1>16, <3>1 DEF LeaveProcessing, FlagType, pause, boot
  <2>5. DbType' /\ BookType' /\ ScanType'
    BY <1>16, <2>2 DEF LeaveProcessing, DbType, BookType, ScanType, db, scan, boot
  <2> QED BY <2>1, <2>3, <2>4, <2>5
<1>17. CASE ActivitySettles
  <2>1. UpdatedActivity("none", IsSuspended, pending # {}) \in {"none", "open", "closing"}
    BY DEF UpdatedActivity
  <2> QED BY <1>17, <2>1 DEF ActivitySettles, DbType, BookType, FlagType, QueueType, KvType, ScanType,
                             db, pause, kv, boot, scan
<1>18. ASSUME NEW k \in PauseKinds, Toggle(k) PROVE TypeInv'
  <2>1. paused' \in [{"setting", "app"} -> BOOLEAN]
    BY <1>18 DEF Toggle, FlagType
  <2> QED BY <1>18, <2>1 DEF Toggle, DbType, BookType, FlagType, QueueType, KvType, ScanType, db, kv,
                             boot, scan
<1>19. ASSUME SuspendOrResume
       PROVE  /\ suspended' \in BOOLEAN /\ running' \in BOOLEAN
              /\ activity' \in {"none", "open", "closing"}
  <2>1. suspended' \in BOOLEAN
    BY <1>19 DEF SuspendOrResume, FlagType
  <2>2. activity' \in {"none", "open", "closing"}
    BY <1>19, <2>1 DEF SuspendOrResume, UpdatedActivity, FlagType
  <2>3. running' \in BOOLEAN
    BY <1>19, <2>1 DEF SuspendOrResume, LoopEntered, IsSuspendedWith, FlagType
  <2> QED BY <2>1, <2>2, <2>3
<1>20. CASE SettingSaved
  <2>1. FlagType'
    BY <1>19, <1>20 DEF SettingSaved, FlagType, boot, kv
  <2> QED BY <1>20, <2>1 DEF SettingSaved, DbType, BookType, QueueType, KvType, ScanType, db, kv, boot,
                             scan
<1>21. CASE FilterSaved
  <2>1. FlagType'
    BY <1>19, <1>21 DEF FilterSaved, FlagType, boot, kv
  <2>2. ScanType'
    BY <1>21 DEF FilterSaved, ScanType, db
  <2> QED BY <1>21, <2>1, <2>2 DEF FilterSaved, DbType, BookType, QueueType, KvType, db, kv, boot
<1>22. ASSUME NEW d \in unread, ReprocessRead(d) PROVE TypeInv'
  <2> DEFINE grown == batch \cup {[id |-> d, rev |-> latest[d], at |-> NextAt(batch)]}
  <2>1. grown \in FiniteChanges
    <3>1. Stamped(batch)
      BY DEF ScanType, FiniteChanges, Stamped, Change
    <3>2. [id |-> d, rev |-> latest[d], at |-> NextAt(batch)] \in Change
      BY <1>22, <3>1, NextAtIsAfter DEF ScanType, DbType, Change, Rev
    <3> QED BY <3>2, FS_Singleton, FS_Union DEF ScanType, FiniteChanges
  <2>2. {} \in FiniteChanges
    BY FS_EmptySet DEF FiniteChanges
  <2> HIDE DEF grown
  <2>3. batch' \in FiniteChanges /\ inbox' \in FiniteChanges
    <3>1. \/ batch' = batch /\ inbox' = inbox
          \/ batch' = grown /\ inbox' = inbox
          \/ batch' = {} /\ inbox' = grown
      BY <1>22 DEF ReprocessRead, grown
    <3> QED BY <2>1, <2>2, <3>1 DEF QueueType, ScanType
  <2>4. ScanType'
    BY <1>22, <2>3 DEF ReprocessRead, ScanType, db
  <2> QED BY <1>22, <2>3, <2>4 DEF ReprocessRead, DbType, BookType, FlagType, QueueType, KvType, db,
                                  pause, kv, boot
<1>23. CASE ReprocessRest
  <2>1. {} \in FiniteChanges
    BY FS_EmptySet DEF FiniteChanges
  <2> QED BY <1>23, <2>1 DEF ReprocessRest, DbType, BookType, FlagType, QueueType, KvType, ScanType, db,
                             pause, kv, boot
<1>24. CASE Crash
  <2>1. paused' \in [{"setting", "app"} -> BOOLEAN]
    <3>1. PICK stored \in {paused["setting"]} \cup (IF saveDue /\ "setting" \in PauseKinds THEN BOOLEAN ELSE {}) :
             paused' = [k \in {"setting", "app"} |-> k = "setting" /\ stored]
      BY <1>24 DEF Crash
    <3>2. stored \in BOOLEAN
      BY DEF FlagType
    <3> QED BY <3>1, <3>2
  <2>4. FlagType'
    BY <1>24, <2>1 DEF Crash, FlagType
  <2>5. crashes' \in Nat
    BY <1>24 DEF Crash, BookType
  <2>2. {} \in FiniteChanges /\ IsFiniteSet({})
    BY FS_EmptySet DEF FiniteChanges
  <2>3. KvType'
    BY <1>24 DEF Crash, KvType
  <2> QED BY <1>24, <2>2, <2>3, <2>4, <2>5 DEF Crash, DbType, BookType, QueueType, ScanType
<1>25. CASE UNCHANGED vars
  BY <1>25 DEF vars, DbType, BookType, FlagType, QueueType, KvType, ScanType, db, pause, kv, boot, scan
<1>26. ASSUME NEW e \in pending, Document(e) PROVE TypeInv'
  BY <1>12, <1>13, <1>14, <1>15, <1>16, <1>26 DEF Document
<1>27. CASE Turn
  BY <1>1, <1>2, <1>3, <1>4, <1>5, <1>6, <1>7, <1>8, <1>10, <1>17, <1>18, <1>20, <1>24, <1>26, <1>27
     DEF Turn
<1>28. CASE Refilter
  BY <1>21, <1>22, <1>23, <1>28 DEF Refilter
<1> QED BY <1>9, <1>25, <1>27, <1>28 DEF NextWithRefilter, Next

\* Type correctness: every part of the state keeps its type, whatever was
\* enqueued, restored, requeued, suspended or lost.
THEOREM TypeCorrect == SpecWithRefilter => []TypeOK
<1>1. SpecWithRefilter => []TypeInv
  BY InitType, TypeStep, PTL DEF SpecWithRefilter
<1> QED BY <1>1, TypeInvImpliesTypeOK, PTL
-----------------------------------------------------------------------------
(* The reflection of a document goes back only past a removal.  A change is *)
(* handed over only if, when it was checked, no newer revision was stored   *)
(* or the newest one removed the document; what is stored bounds what was   *)
(* handed over, and the lock of the document keeps every other change of it *)
(* from being handed over between the check and the storage.                *)

Known(S, l) == \A c \in S : c.rev <= l[c.id]

RevisionsKnown ==
    /\ Known(inbox, latest) /\ Known(pending, latest) /\ Known(batch, latest)
    /\ Known(snapshot, latest)
    /\ \A i \in 1..Len(kvOps) : Known(kvOps[i].data, latest)

HandedKnown == \A d \in Docs : handed[d] <= latest[d]

Locked(e) == e.pc \in {"check", "apply"}

OneLockHolder == \A e, f \in pending : e.id = f.id /\ Locked(e) /\ Locked(f) => e = f

AppliedIsNewest ==
    \A e \in pending : e.pc = "apply" /\ e.id \notin Conflicting =>
        handed[e.id] <= e.rev \/ RemovedSince(e.id, handed[e.id])

OrderInv == RevisionsKnown /\ HandedKnown /\ OneLockHolder /\ AppliedIsNewest

LEMMA InitOrder == Init => OrderInv
<1> SUFFICES ASSUME Init PROVE OrderInv
  OBVIOUS
<1>1. RevisionsKnown
  BY DEF Init, RevisionsKnown, Known
<1>2. HandedKnown /\ OneLockHolder /\ AppliedIsNewest
  BY DEF Init, HandedKnown, OneLockHolder, AppliedIsNewest
<1> QED BY <1>1, <1>2 DEF OrderInv

LEMMA KnownPlain ==
    ASSUME NEW P, NEW l, Known(P, l)
    PROVE  Known(Plain(P), l) /\ Known(Plain(Queued(P)), l) /\ Known(Queued(P), l) /\ Known(Started(P), l)
BY DEF Known, Plain, Queued, Started

LEMMA KnownUnion ==
    ASSUME NEW S, NEW T, NEW l, Known(S, l), Known(T, l)
    PROVE  Known(S \cup T, l)
BY DEF Known

\* The operations in flight after one was issued, and after the first was completed.
LEMMA OpsKnown ==
    ASSUME kvOps \in Seq(KvOp), \A i \in 1..Len(kvOps) : Known(kvOps[i].data, latest)
    PROVE  /\ \A op \in KvOp : Known(op.data, latest) =>
                 \A i \in 1..Len(Append(kvOps, op)) : Known(Append(kvOps, op)[i].data, latest)
           /\ kvOps # <<>> =>
                 /\ Known(Head(kvOps).data, latest)
                 /\ \A i \in 1..Len(Tail(kvOps)) : Known(Tail(kvOps)[i].data, latest)
<1>1. ASSUME NEW op \in KvOp, Known(op.data, latest)
      PROVE  \A i \in 1..Len(Append(kvOps, op)) : Known(Append(kvOps, op)[i].data, latest)
  <2>1. /\ Len(Append(kvOps, op)) = Len(kvOps) + 1
        /\ \A i \in 1..Len(kvOps) : Append(kvOps, op)[i] = kvOps[i]
        /\ Append(kvOps, op)[Len(kvOps) + 1] = op
    BY AppendProperties
  <2>2. \A i \in 1..(Len(kvOps) + 1) : i \in 1..Len(kvOps) \/ i = Len(kvOps) + 1
    BY LenProperties
  <2> QED BY <1>1, <2>1, <2>2
<1>2. ASSUME kvOps # <<>>
      PROVE  /\ Known(Head(kvOps).data, latest)
             /\ \A i \in 1..Len(Tail(kvOps)) : Known(Tail(kvOps)[i].data, latest)
  <2>1. Head(kvOps) = kvOps[1] /\ 1 \in 1..Len(kvOps)
    BY <1>2
  <2>2. \A i \in 1..Len(Tail(kvOps)) : Tail(kvOps)[i] = kvOps[i + 1] /\ i + 1 \in 1..Len(kvOps)
    BY <1>2
  <2> QED BY <2>1, <2>2
<1> QED BY <1>1, <1>2

\* A step that leaves the lock holders, the revisions handed over and the
\* database alone disturbs only what is known about the changes.
LEMMA QuietStep ==
    ASSUME OrderInv, UNCHANGED <<latest, handed>>, RevisionsKnown',
           \A e \in pending' : Locked(e) => e \in pending
    PROVE  OrderInv'
<1>1. HandedKnown'
  BY DEF OrderInv, HandedKnown
<1>2. OneLockHolder'
  BY DEF OrderInv, OneLockHolder
<1>3. AppliedIsNewest'
  BY DEF OrderInv, AppliedIsNewest, Locked, RemovedSince
<1> QED BY <1>1, <1>2, <1>3 DEF OrderInv

\* A change goes to another phase, while the rest of the memory stays.
LEMMA MoveKnown ==
    ASSUME RevisionsKnown, NEW e \in pending, NEW pc, Move(e, pc), pending \in SUBSET Entry,
           UNCHANGED <<latest, inbox, batch, snapshot, kvOps>>
    PROVE  /\ RevisionsKnown'
           /\ At(e, pc).id = e.id /\ At(e, pc).rev = e.rev /\ At(e, pc).pc = pc
           /\ pending' = (pending \ {e}) \cup {At(e, pc)}
<1>1. At(e, pc).id = e.id /\ At(e, pc).rev = e.rev /\ At(e, pc).pc = pc
  BY DEF At, Entry
<1>2. pending' = (pending \ {e}) \cup {At(e, pc)}
  BY DEF Move
<1>3. Known(pending', latest)
  BY <1>1, <1>2 DEF RevisionsKnown, Known
<1> QED BY <1>1, <1>2, <1>3 DEF RevisionsKnown

LEMMA OrderStep == TypeInv /\ OrderInv /\ [NextWithRefilter]_vars => OrderInv'
<1> SUFFICES ASSUME TypeInv, OrderInv, [NextWithRefilter]_vars PROVE OrderInv'
  OBVIOUS
<1> USE DEF Locked
<1>t. /\ latest \in [Docs -> Nat] /\ delivered \in [Docs -> Nat] /\ handed \in [Docs -> Nat]
      /\ inbox \in SUBSET Change /\ pending \in SUBSET Entry /\ batch \in SUBSET Change
      /\ snapshot \in SUBSET Change /\ unread \in SUBSET Docs
      /\ kvOps \in Seq(KvOp) /\ IsFiniteSet(pending)
  BY DEF TypeInv, DbType, BookType, QueueType, KvType, ScanType, FiniteChanges
<1>k. RevisionsKnown
  BY DEF OrderInv
<1>1. CASE OnDatabaseInitialized
  <2>1. Get \in KvOp /\ Known(Get.data, latest)
    BY OpsAreTyped, FS_EmptySet DEF Get, Known
  <2>2. RevisionsKnown'
    BY <1>1, <1>t, <1>k, <2>1, OpsKnown DEF OnDatabaseInitialized, RevisionsKnown, db, scan
  <2> QED BY <1>1, <2>2, QuietStep DEF OnDatabaseInitialized, db
<1>2. CASE OnReady \/ ActivitySettles \/ (\E k \in PauseKinds : Toggle(k)) \/ SettingSaved
  <2>1. UNCHANGED <<latest, handed, inbox, pending, batch, snapshot, kvOps>>
    BY <1>2 DEF OnReady, ActivitySettles, Toggle, SettingSaved, db, kv, scan
  <2>2. RevisionsKnown'
    BY <1>k, <2>1 DEF RevisionsKnown
  <2> QED BY <2>1, <2>2, QuietStep
<1>3. CASE RestoreFromSnapshot
  <2> DEFINE S == Plain(Queued(pending))
             T == {[c EXCEPT !.at = @ + NextAt(snapshot)] : c \in S}
  <2>1. Known(S, latest) /\ Known(Started(pending), latest)
    BY <1>k, KnownPlain DEF RevisionsKnown
  <2>2. S \in SUBSET Change
    BY <1>t, PlainIsStamped, QueuedIsFinite
  <2>3. \A c \in S : [c EXCEPT !.at = @ + NextAt(snapshot)].id = c.id
                     /\ [c EXCEPT !.at = @ + NextAt(snapshot)].rev = c.rev
    BY <2>2 DEF Change
  <2>4. Known(T, latest)
    BY <2>1, <2>3 DEF Known
  <2>5. Known(inbox', latest)
    BY <1>3, <1>k, <2>4, KnownUnion DEF RestoreFromSnapshot, RevisionsKnown
  <2>6. RevisionsKnown'
    BY <1>3, <1>k, <1>t, <2>1, <2>5, OpsKnown DEF RestoreFromSnapshot, RevisionsKnown, db, scan
  <2> QED BY <1>3, <2>6, QuietStep DEF RestoreFromSnapshot, db, Started
<1>4. CASE RestoreFails
  <2>1. RevisionsKnown'
    BY <1>4, <1>k, <1>t, OpsKnown DEF RestoreFails, RevisionsKnown, db, scan
  <2> QED BY <1>4, <2>1, QuietStep DEF RestoreFails, db
<1>5. CASE SnapshotSettles
  <2>1. RevisionsKnown'
    BY <1>5, <1>k, <1>t, OpsKnown DEF SnapshotSettles, RevisionsKnown, db, scan
  <2> QED BY <1>5, <2>1, QuietStep DEF SnapshotSettles, db
<1>6. CASE TakeSnapshot
  <2>1. Put(pending, FALSE) \in KvOp /\ Known(Put(pending, FALSE).data, latest)
    BY <1>k, <1>t, OpsAreTyped, KnownPlain DEF RevisionsKnown, Put
  <2>2. RevisionsKnown'
    BY <1>6, <1>k, <1>t, <2>1, OpsKnown DEF TakeSnapshot, RevisionsKnown, db, scan
  <2> QED BY <1>6, <2>2, QuietStep DEF TakeSnapshot, db
<1>7. ASSUME NEW d \in Docs, Replicate(d) PROVE OrderInv'
  <2>1. \A x \in Docs : latest[x] <= latest'[x] /\ latest[x] \in Nat /\ latest'[x] \in Nat
    BY <1>7, <1>t DEF Replicate
  <2>2. ASSUME NEW S, \A c \in S : c.id \in Docs /\ c.rev \in Nat, Known(S, latest)
        PROVE  Known(S, latest')
    BY <2>1, <2>2 DEF Known
  <2>3. ASSUME NEW i \in 1..Len(kvOps)
        PROVE  \A c \in kvOps[i].data : c.id \in Docs /\ c.rev \in Nat
    <3>1. kvOps[i] \in KvOp
      BY <1>t, ElementOfSeq
    <3> QED BY <3>1 DEF KvOp, FiniteChanges, Change, Rev
  <2>4. RevisionsKnown'
    <3>1. UNCHANGED <<inbox, pending, batch, snapshot, kvOps>>
      BY <1>7 DEF Replicate, kv, scan
    <3>2. \A c \in inbox \cup pending \cup batch \cup snapshot : c.id \in Docs /\ c.rev \in Nat
      BY <1>t DEF Change, Entry, Rev
    <3>3. Known(inbox, latest') /\ Known(pending, latest') /\ Known(batch, latest') /\ Known(snapshot, latest')
      BY <1>k, <2>2, <3>2 DEF RevisionsKnown
    <3>4. \A i \in 1..Len(kvOps) : Known(kvOps[i].data, latest')
      BY <1>k, <2>2, <2>3 DEF RevisionsKnown
    <3> QED BY <3>1, <3>3, <3>4 DEF RevisionsKnown
  <2>5. HandedKnown'
    BY <1>7, <1>t, <2>1 DEF OrderInv, HandedKnown, Replicate
  <2>6. UNCHANGED <<pending, handed>>
    BY <1>7 DEF Replicate
  <2>7. ASSUME NEW e \in pending, e.pc = "apply", e.id \notin Conflicting
        PROVE  handed[e.id] <= e.rev \/ RemovedSince(e.id, handed[e.id])'
    <3>1. e.id \in Docs /\ handed[e.id] \in Nat
      BY <1>t DEF Entry
    <3>2. (handed[e.id]..latest[e.id]) \subseteq (handed[e.id]..latest'[e.id])
      BY <2>1, <3>1
    <3> QED BY <2>6, <2>7, <3>2 DEF OrderInv, AppliedIsNewest, RemovedSince
  <2>8. AppliedIsNewest'
    BY <2>6, <2>7 DEF AppliedIsNewest
  <2> QED BY <2>4, <2>5, <2>6, <2>8 DEF OrderInv, OneLockHolder
<1>8. ASSUME NEW d \in Docs, ParseReplicationResult(d) PROVE OrderInv'
  <2>1. Known(inbox', latest)
    BY <1>8, <1>t DEF ParseReplicationResult, Known
  <2>2. RevisionsKnown'
    BY <1>8, <1>k, <2>1 DEF ParseReplicationResult, RevisionsKnown, kv, scan
  <2> QED BY <1>8, <2>2, QuietStep DEF ParseReplicationResult
<1>9. CASE EnqueueChange
  <2> DEFINE c == First(inbox)
             queue == QueueAfter(c, Queued(pending))
  <2>1. c \in inbox
    BY <1>9, FirstIsMember DEF EnqueueChange, TypeInv, QueueType, FiniteChanges, Change, Stamped
  <2>2. \A e \in queue : e \in Queued(pending) \/ (e.id = c.id /\ e.rev = c.rev /\ e.pc = "queued")
    BY DEF QueueAfter
  <2>3. pending' = pending \/ pending' = Started(pending) \cup queue
    BY <1>9 DEF EnqueueChange
  <2> HIDE DEF queue, c
  <2>4. \A e \in pending' : e \in pending \/ (e.id = c.id /\ e.rev = c.rev /\ e.pc = "queued")
    BY <2>2, <2>3 DEF Started, Queued
  <2>5. Known(pending', latest)
    BY <1>k, <2>1, <2>4 DEF RevisionsKnown, Known
  <2>6. inbox' \subseteq inbox
    BY <1>9 DEF EnqueueChange
  <2>7. RevisionsKnown'
    BY <1>9, <1>k, <2>5, <2>6 DEF EnqueueChange, RevisionsKnown, Known, db, scan
  <2> QED BY <1>9, <2>4, <2>7, QuietStep DEF EnqueueChange, db
<1>10. CASE RunProcessQueue
  <2> DEFINE queue == Queued(pending)
  <2>1. CASE queue = {}
    <3>1. UNCHANGED <<latest, handed, inbox, pending, batch, snapshot, kvOps>>
      BY <1>10, <2>1 DEF RunProcessQueue, db, scan
    <3>2. RevisionsKnown'
      BY <1>k, <3>1 DEF RevisionsKnown
    <3> QED BY <3>1, <3>2, QuietStep
  <2>2. CASE queue # {}
    <3>1. First(queue) \in pending
      BY <1>t, <2>2, QueuedIsFinite, FirstIsMember DEF Queued
    <3>2. Move(First(queue), "parsing") /\ UNCHANGED <<latest, handed, inbox, batch, snapshot, kvOps>>
      BY <1>10, <2>2 DEF RunProcessQueue, db, scan
    <3>3. RevisionsKnown' /\ \A e \in pending' : Locked(e) => e \in pending
      BY <1>k, <1>t, <3>1, <3>2, MoveKnown
    <3> QED BY <3>2, <3>3, QuietStep
  <2> QED BY <2>1, <2>2
<1>11. ASSUME NEW e \in pending, NEW pc \in {"permit", "lock", "leave"}, Move(e, pc),
              UNCHANGED <<latest, handed, inbox, batch, snapshot, kvOps>>
       PROVE  OrderInv'
  <2>1. RevisionsKnown' /\ \A f \in pending' : Locked(f) => f \in pending
    BY <1>11, <1>k, <1>t, MoveKnown
  <2> QED BY <1>11, <2>1, QuietStep
<1>12. ASSUME NEW e \in pending, ParseDocumentChange(e) \/ AcquirePermit(e) PROVE OrderInv'
  BY <1>11, <1>12 DEF ParseDocumentChange, AcquirePermit, db, kv, scan
<1>13. ASSUME NEW e \in pending, AcquireLock(e) PROVE OrderInv'
  <2>1. Move(e, "check") /\ UNCHANGED <<latest, handed, inbox, batch, snapshot, kvOps>>
    BY <1>13 DEF AcquireLock, db, kv, scan
  <2>2. /\ RevisionsKnown' /\ pending' = (pending \ {e}) \cup {At(e, "check")}
        /\ At(e, "check").id = e.id /\ At(e, "check").pc = "check"
    BY <1>k, <1>t, <2>1, MoveKnown
  <2>3. \A f \in pending : f.id = e.id => ~Locked(f)
    BY <1>13 DEF AcquireLock
  <2>4. OneLockHolder'
    BY <2>2, <2>3 DEF OrderInv, OneLockHolder
  <2>5. HandedKnown' /\ AppliedIsNewest'
    BY <2>1, <2>2 DEF OrderInv, HandedKnown, AppliedIsNewest, RemovedSince
  <2> QED BY <2>2, <2>4, <2>5 DEF OrderInv
<1>14. ASSUME NEW e \in pending, CheckIsChangeRequired(e) PROVE OrderInv'
  <2>1. PICK required \in IsRequired(e) : Move(e, IF required THEN "apply" ELSE "leave")
    BY <1>14 DEF CheckIsChangeRequired
  <2>2. UNCHANGED <<latest, handed, inbox, batch, snapshot, kvOps>>
    BY <1>14 DEF CheckIsChangeRequired, db, kv, scan
  <2>3. CASE ~required
    BY <1>11, <2>1, <2>2, <2>3
  <2>4. CASE required
    <3>1. Move(e, "apply")
      BY <2>1, <2>4
    <3>2. /\ RevisionsKnown' /\ pending' = (pending \ {e}) \cup {At(e, "apply")}
          /\ At(e, "apply").id = e.id /\ At(e, "apply").pc = "apply" /\ At(e, "apply").rev = e.rev
      BY <1>k, <1>t, <2>2, <3>1, MoveKnown
    <3>3. OneLockHolder'
      BY <1>14, <3>2 DEF CheckIsChangeRequired, OrderInv, OneLockHolder
    <3>4. e.id \notin Conflicting => e.rev >= latest[e.id] \/ NotFound(e.id)
      BY <2>1, <2>4 DEF IsRequired
    <3>5. e.id \notin Conflicting => handed[e.id] <= e.rev \/ RemovedSince(e.id, handed[e.id])
      <4>1. /\ e.id \in Docs /\ e.rev \in Nat /\ handed[e.id] \in Nat /\ latest[e.id] \in Nat
            /\ handed[e.id] <= latest[e.id]
        BY <1>t DEF OrderInv, HandedKnown, Entry, Rev
      <4>2. latest[e.id] \in handed[e.id]..latest[e.id]
        BY <4>1
      <4> QED BY <3>4, <4>1, <4>2 DEF NotFound, RemovedSince
    <3>6. AppliedIsNewest'
      BY <2>2, <3>2, <3>5 DEF OrderInv, AppliedIsNewest, RemovedSince
    <3>7. HandedKnown'
      BY <2>2 DEF OrderInv, HandedKnown
    <3> QED BY <3>2, <3>3, <3>6, <3>7 DEF OrderInv
  <2> QED BY <2>3, <2>4
<1>15. ASSUME NEW e \in pending, ApplyToStorage(e) PROVE OrderInv'
  <2>1. UNCHANGED <<latest, inbox, batch, snapshot, kvOps>> /\ Move(e, "leave") /\ e.pc = "apply"
    BY <1>15 DEF ApplyToStorage, db, kv, scan
  <2>2. /\ RevisionsKnown' /\ pending' = (pending \ {e}) \cup {At(e, "leave")}
        /\ At(e, "leave").pc = "leave"
    BY <1>k, <1>t, <2>1, MoveKnown
  <2>3. \A d \in Docs : handed'[d] = handed[d] \/ (d = e.id /\ handed'[d] = e.rev)
    BY <1>15, <1>t DEF ApplyToStorage
  <2>4. HandedKnown'
    BY <1>k, <1>t, <2>1, <2>3 DEF OrderInv, HandedKnown, RevisionsKnown, Known
  <2>5. OneLockHolder'
    BY <2>2 DEF OrderInv, OneLockHolder
  <2>6. \A f \in pending : f # e /\ Locked(f) => f.id # e.id
    BY <2>1 DEF OrderInv, OneLockHolder
  <2>7. AppliedIsNewest'
    BY <1>t, <2>1, <2>2, <2>3, <2>6 DEF OrderInv, AppliedIsNewest, Entry, RemovedSince
  <2> QED BY <2>2, <2>4, <2>5, <2>7 DEF OrderInv
<1>16. ASSUME NEW e \in pending, LeaveProcessing(e) PROVE OrderInv'
  <2>1. Put({}, TRUE) \in KvOp /\ Known(Put({}, TRUE).data, latest)
    BY OpsAreTyped, FS_EmptySet DEF Put, Plain, Known
  <2>2. kvOps' = kvOps \/ kvOps' = Append(kvOps, Put({}, TRUE))
    BY <1>16 DEF LeaveProcessing
  <2>3. \A i \in 1..Len(kvOps') : Known(kvOps'[i].data, latest)
    BY <1>k, <1>t, <2>1, <2>2, OpsKnown DEF RevisionsKnown
  <2>4. pending' \subseteq pending /\ UNCHANGED <<latest, handed, inbox, batch, snapshot>>
    BY <1>16 DEF LeaveProcessing, db, scan
  <2>5. RevisionsKnown'
    BY <1>k, <2>3, <2>4 DEF RevisionsKnown, Known
  <2> QED BY <2>4, <2>5, QuietStep
<1>17. CASE FilterSaved
  <2>1. UNCHANGED <<latest, handed, inbox, pending, batch, snapshot, kvOps>>
    BY <1>17 DEF FilterSaved, db, kv
  <2>2. RevisionsKnown'
    BY <1>k, <2>1 DEF RevisionsKnown
  <2> QED BY <2>1, <2>2, QuietStep
<1>18. ASSUME NEW d \in unread, ReprocessRead(d) PROVE OrderInv'
  <2> DEFINE grown == batch \cup {[id |-> d, rev |-> latest[d], at |-> NextAt(batch)]}
  <2>1. Known(grown, latest) /\ Known({}, latest)
    BY <1>k, <1>t DEF RevisionsKnown, Known
  <2>2. \/ batch' = batch /\ inbox' = inbox
        \/ batch' = grown /\ inbox' = inbox
        \/ batch' = {} /\ inbox' = grown
    BY <1>18 DEF ReprocessRead
  <2>3. UNCHANGED <<latest, handed, pending, snapshot, kvOps>>
    BY <1>18 DEF ReprocessRead, db, kv
  <2> HIDE DEF grown
  <2>4. RevisionsKnown'
    BY <1>k, <2>1, <2>2, <2>3 DEF RevisionsKnown
  <2> QED BY <2>3, <2>4, QuietStep
<1>19. CASE ReprocessRest
  <2>1. UNCHANGED <<latest, handed, pending, snapshot, kvOps>> /\ batch' = {} /\ inbox' = batch
    BY <1>19 DEF ReprocessRest, db, kv
  <2>2. RevisionsKnown'
    BY <1>k, <2>1 DEF RevisionsKnown, Known
  <2> QED BY <2>1, <2>2, QuietStep
<1>20. CASE Crash
  <2>1. UNCHANGED <<latest, handed, snapshot>> /\ inbox' = {} /\ pending' = {} /\ batch' = {} /\ kvOps' = <<>>
    BY <1>20 DEF Crash
  <2>2. RevisionsKnown'
    BY <1>k, <2>1 DEF RevisionsKnown, Known
  <2> QED BY <2>1, <2>2, QuietStep
<1>21. CASE UNCHANGED vars
  <2>1. UNCHANGED <<latest, handed, inbox, pending, batch, snapshot, kvOps>>
    BY <1>21 DEF vars, db, kv, scan
  <2>2. RevisionsKnown'
    BY <1>k, <2>1 DEF RevisionsKnown
  <2> QED BY <2>1, <2>2, QuietStep
<1>22. ASSUME NEW e \in pending, Document(e) PROVE OrderInv'
  BY <1>12, <1>13, <1>14, <1>15, <1>16, <1>22 DEF Document
<1>23. CASE Turn
  BY <1>1, <1>2, <1>3, <1>4, <1>5, <1>6, <1>7, <1>8, <1>10, <1>20, <1>22, <1>23 DEF Turn
<1>24. CASE Refilter
  BY <1>17, <1>18, <1>19, <1>24 DEF Refilter
<1> QED BY <1>9, <1>21, <1>23, <1>24 DEF NextWithRefilter, Next

LEMMA HandedStep ==
    TypeInv /\ OrderInv /\ [NextWithRefilter]_vars
        => [\A d \in Docs \ Conflicting : handed[d] <= handed'[d] \/ RemovedSince(d, handed[d])]_vars
<1> SUFFICES ASSUME TypeInv, OrderInv, NextWithRefilter, NEW d \in Docs \ Conflicting
             PROVE  handed[d] <= handed'[d] \/ RemovedSince(d, handed[d])
  OBVIOUS
<1>1. handed[d] \in Nat
  BY DEF TypeInv, BookType
<1>2. CASE UNCHANGED handed
  BY <1>1, <1>2
<1>3. ASSUME NEW e \in pending, ApplyToStorage(e)
      PROVE  handed[d] <= handed'[d] \/ RemovedSince(d, handed[d])
  <2>1. e.pc = "apply" /\ (handed' = handed \/ handed' = [handed EXCEPT ![e.id] = e.rev])
    BY <1>3 DEF ApplyToStorage
  <2>2. d = e.id => handed[d] <= e.rev \/ RemovedSince(d, handed[d])
    BY <2>1 DEF OrderInv, AppliedIsNewest
  <2> QED BY <1>1, <2>1, <2>2 DEF TypeInv, BookType
<1>4. UNCHANGED handed \/ \E e \in pending : ApplyToStorage(e)
  <2>1. EnqueueChange => UNCHANGED handed
    BY DEF EnqueueChange
  <2>2. Refilter => UNCHANGED handed
    BY DEF Refilter, FilterSaved, ReprocessRead, ReprocessRest
  <2>3. ASSUME NEW e \in pending, Document(e) PROVE UNCHANGED handed \/ ApplyToStorage(e)
    BY <2>3 DEF Document, ParseDocumentChange, AcquirePermit, AcquireLock, CheckIsChangeRequired,
                LeaveProcessing
  <2>4. Turn => UNCHANGED handed \/ \E e \in pending : ApplyToStorage(e)
    BY <2>3 DEF Turn, OnDatabaseInitialized, OnReady, RestoreFromSnapshot, RestoreFails, SnapshotSettles,
                TakeSnapshot, Replicate, ParseReplicationResult, RunProcessQueue, ActivitySettles, Toggle,
                SettingSaved, Crash
  <2> QED BY <2>1, <2>2, <2>4 DEF NextWithRefilter, Next
<1> QED BY <1>2, <1>3, <1>4

\* The reflection goes back to an older revision only past a removal of the
\* document, for any number of documents, revisions, permits, restarts and
\* filter changes, and any failures.
THEOREM ReflectionMovesForward == SpecWithRefilter => HandedInOrder
<1>1. SpecWithRefilter => [](TypeInv /\ OrderInv)
  <2>1. Init => TypeInv /\ OrderInv
    BY InitType, InitOrder
  <2>2. TypeInv /\ OrderInv /\ [NextWithRefilter]_vars => (TypeInv /\ OrderInv)'
    BY TypeStep, OrderStep
  <2> QED BY <2>1, <2>2, PTL DEF SpecWithRefilter
<1> QED BY <1>1, HandedStep, PTL DEF SpecWithRefilter, HandedInOrder
-----------------------------------------------------------------------------
(* The newest revision is never dropped.  Revisions of a document are       *)
(* queued in the order of its history, as long as the reflection filter     *)
(* stays the same: what replaces a queued change is at least as new.        *)

Ordered(S) == \A e, f \in S : e.id = f.id /\ e.at <= f.at => e.rev <= f.rev

Memory == inbox \cup pending

\* Nothing is newer than what replication delivered, so that what it delivers
\* next is newer than everything.
DeliveredBounds ==
    /\ Known(Memory, delivered) /\ Known(snapshot, delivered)
    /\ \A i \in 1..Len(kvOps) : Known(kvOps[i].data, delivered)

QueueIsOrdered ==
    /\ Ordered(inbox) /\ Ordered(pending) /\ Ordered(snapshot)
    /\ \A i \in 1..Len(kvOps) : Ordered(kvOps[i].data)
    /\ \A c \in inbox, e \in pending : c.id = e.id => e.rev <= c.rev

\* The memory is empty until the snapshot was restored.
RestoredFirst ==
    restore # "done" =>
        /\ inbox = {} /\ pending = {} /\ ~running /\ ~snapshotDue
        /\ kvOps = <<>> \/ (restore = "issued" /\ Len(kvOps) = 1)
        /\ crashes = 0 => \A d \in Docs : delivered[d] = 0

\* The snapshot is read only once, and not written before.
ReadOnce == \A i \in 1..Len(kvOps) : kvOps[i].op = "put" <=> restore = "done"

QueueInv == DeliveredBounds /\ QueueIsOrdered /\ RestoredFirst /\ ReadOnce

\* Every change of S has a newer one in T, or is settled according to s.
Survive(s, S, T) == \A c \in S : CoveredBy(c, T) \/ s[c.id] >= c.rev

\* Each snapshot that is stored or on its way keeps what those before it
\* kept, and the memory keeps what they all did.
SnapshotsChain ==
    restore = "done" =>
        /\ Survive(settled, snapshot, Memory)
        /\ \A i \in 1..Len(kvOps) : /\ Survive(settled, snapshot, kvOps[i].data)
                                    /\ Survive(settled, kvOps[i].data, Memory)
        /\ \A i, j \in 1..Len(kvOps) : i < j => Survive(settled, kvOps[i].data, kvOps[j].data)

\* A reading or a gathering may fail: the change is given up.
MayFail == Faults \cap {"read", "gather"} # {}

\* A job that leaves was handed over, is not to be, or was given up.
LeavesForReason ==
    \A e \in pending : e.pc = "leave" =>
        reached[e.id] >= e.rev \/ latest[e.id] > e.rev \/ e.id \in Ignored \/ MayFail

LEMMA InitQueue == Init => QueueInv /\ SnapshotsChain /\ LeavesForReason
<1> SUFFICES ASSUME Init PROVE QueueInv /\ SnapshotsChain /\ LeavesForReason
  OBVIOUS
<1>1. Len(kvOps) = 0 /\ kvOps = <<>>
  BY EmptySeq DEF Init
<1>2. DeliveredBounds /\ QueueIsOrdered
  BY <1>1 DEF Init, DeliveredBounds, QueueIsOrdered, Memory, Known, Ordered
<1>3. RestoredFirst /\ ReadOnce /\ SnapshotsChain /\ LeavesForReason
  BY <1>1 DEF Init, RestoredFirst, ReadOnce, SnapshotsChain, LeavesForReason
<1> QED BY <1>2, <1>3 DEF QueueInv

\* The operations in flight, after one more was issued and after the first was completed.
LEMMA OpIssued ==
    ASSUME NEW ops \in Seq(KvOp), NEW op \in KvOp
    PROVE  /\ Append(ops, op) \in Seq(KvOp) /\ Len(Append(ops, op)) = Len(ops) + 1
           /\ \A i \in 1..Len(Append(ops, op)) :
                 \/ i \in 1..Len(ops) /\ Append(ops, op)[i] = ops[i]
                 \/ i = Len(ops) + 1 /\ Append(ops, op)[i] = op
<1>1. /\ Append(ops, op) \in Seq(KvOp) /\ Len(Append(ops, op)) = Len(ops) + 1
      /\ \A i \in 1..Len(ops) : Append(ops, op)[i] = ops[i]
      /\ Append(ops, op)[Len(ops) + 1] = op
  BY AppendProperties
<1>2. Len(ops) \in Nat
  BY LenProperties
<1> QED BY <1>1, <1>2

LEMMA OpCompleted ==
    ASSUME NEW ops \in Seq(KvOp), ops # <<>>
    PROVE  /\ Head(ops) = ops[1] /\ 1 \in 1..Len(ops) /\ Head(ops) \in KvOp
           /\ Tail(ops) \in Seq(KvOp) /\ Len(Tail(ops)) = Len(ops) - 1
           /\ \A i \in 1..Len(Tail(ops)) :
                 i + 1 \in 1..Len(ops) /\ i + 1 > 1 /\ Tail(ops)[i] = ops[i + 1]
OBVIOUS

LEMMA OrderedPlain ==
    ASSUME NEW P, Ordered(P)
    PROVE  Ordered(Plain(P))
BY DEF Ordered, Plain

\* A step that adds no change to the memory and leaves the stored snapshot and
\* what was delivered alone.
LEMMA QueueKept ==
    ASSUME QueueInv, UNCHANGED <<snapshot, delivered>>, inbox' \subseteq inbox,
           \A e \in pending' : \E f \in pending : e.id = f.id /\ e.rev = f.rev /\ e.at = f.at,
           \A i \in 1..Len(kvOps') : Known(kvOps'[i].data, delivered) /\ Ordered(kvOps'[i].data),
           RestoredFirst', ReadOnce'
    PROVE  QueueInv'
<1>1. DeliveredBounds'
  BY DEF QueueInv, DeliveredBounds, Known, Memory
<1>2. QueueIsOrdered'
  <2>1. Ordered(inbox')
    BY DEF QueueInv, QueueIsOrdered, Ordered
  <2>2. Ordered(pending')
    BY DEF QueueInv, QueueIsOrdered, Ordered
  <2>3. \A c \in inbox', e \in pending' : c.id = e.id => e.rev <= c.rev
    BY DEF QueueInv, QueueIsOrdered
  <2> QED BY <2>1, <2>2, <2>3 DEF QueueInv, QueueIsOrdered
<1> QED BY <1>1, <1>2 DEF QueueInv

\* A job keeps its change through all its phases.
LEMMA MovedIsSame ==
    ASSUME pending \in SUBSET Entry, NEW e \in pending, NEW pc, Move(e, pc)
    PROVE  \A f \in pending' : /\ \E g \in pending : f.id = g.id /\ f.rev = g.rev /\ f.at = g.at
                               /\ f \in pending \/ (f = At(e, pc) /\ f.id = e.id /\ f.rev = e.rev /\ f.pc = pc)
<1>1. At(e, pc).id = e.id /\ At(e, pc).rev = e.rev /\ At(e, pc).at = e.at /\ At(e, pc).pc = pc
  BY DEF At, Entry
<1> QED BY <1>1 DEF Move

LEMMA QueueStep == TypeInv /\ OrderInv /\ QueueInv /\ [Next]_vars => QueueInv'
<1> SUFFICES ASSUME TypeInv, OrderInv, QueueInv, [Next]_vars PROVE QueueInv'
  OBVIOUS
<1>t. /\ latest \in [Docs -> Nat] /\ delivered \in [Docs -> Nat]
      /\ inbox \in SUBSET Change /\ IsFiniteSet(inbox)
      /\ pending \in SUBSET Entry /\ IsFiniteSet(pending)
      /\ snapshot \in SUBSET Change /\ IsFiniteSet(snapshot) /\ kvOps \in Seq(KvOp)
  BY DEF TypeInv, DbType, QueueType, KvType, FiniteChanges
<1>k. \A i \in 1..Len(kvOps) : Known(kvOps[i].data, delivered) /\ Ordered(kvOps[i].data)
  BY DEF QueueInv, DeliveredBounds, QueueIsOrdered
<1>n. Known({}, delivered) /\ Ordered({})
  BY DEF Known, Ordered
<1>1. CASE OnDatabaseInitialized
  <2>1. Get \in KvOp /\ Get.data = {}
    BY OpsAreTyped, FS_EmptySet DEF Get
  <2>2. kvOps = <<>> /\ kvOps' = Append(kvOps, Get) /\ restore' = "issued"
    BY <1>1 DEF OnDatabaseInitialized, QueueInv, RestoredFirst
  <2>3. Len(kvOps') = 1
    <3>1. Len(kvOps) = 0
      BY <2>2, EmptySeq
    <3> QED BY <1>t, <2>1, <2>2, <3>1, OpIssued
  <2>4. RestoredFirst'
    BY <1>1, <2>2, <2>3 DEF OnDatabaseInitialized, QueueInv, RestoredFirst, db
  <2>5. \A i \in 1..Len(kvOps') : (i \in 1..Len(kvOps) /\ kvOps'[i] = kvOps[i]) \/ kvOps'[i] = Get
    BY <1>t, <2>1, <2>2, OpIssued
  <2>7. ReadOnce'
    <3>1. restore # "done" /\ restore' # "done" /\ Get.op # "put"
      BY <1>1, <2>2 DEF OnDatabaseInitialized, Get
    <3> QED BY <2>5, <3>1 DEF QueueInv, ReadOnce
  <2>6. \A i \in 1..Len(kvOps') : Known(kvOps'[i].data, delivered) /\ Ordered(kvOps'[i].data)
    BY <1>k, <1>n, <2>1, <2>5
  <2> QED BY <1>1, <2>4, <2>6, <2>7, QueueKept DEF OnDatabaseInitialized, db
<1>2. CASE OnReady \/ ActivitySettles \/ (\E k \in PauseKinds : Toggle(k)) \/ SettingSaved
           \/ \E d \in Docs : Replicate(d)
  <2>1. UNCHANGED <<delivered, inbox, pending, snapshot, kvOps, snapshotDue, restore, crashes>>
    BY <1>2 DEF OnReady, ActivitySettles, Toggle, SettingSaved, Replicate, db, kv, boot
  <2>2. running' = running \/ running' = LoopEntered(IsSuspendedWith(suspended', paused), Queued(pending))
                \/ running' = LoopEntered(IsSuspendedWith(suspended', paused'), Queued(pending))
    BY <1>2 DEF OnReady, ActivitySettles, Toggle, SettingSaved, SuspendOrResume, Replicate
  <2>3. ASSUME restore # "done" PROVE ~running'
    <3>1. ~running /\ Queued(pending) = {}
      BY <2>3 DEF QueueInv, RestoredFirst, Queued
    <3>2. ASSUME NEW s PROVE ~LoopEntered(s, Queued(pending))
      BY <3>1 DEF LoopEntered
    <3> QED BY <2>2, <3>1, <3>2
  <2>4. RestoredFirst' /\ ReadOnce'
    BY <2>1, <2>3 DEF QueueInv, RestoredFirst, ReadOnce
  <2> QED BY <1>k, <2>1, <2>4, QueueKept
<1>3. CASE RestoreFromSnapshot \/ RestoreFails
  <2>1. Head(kvOps).op = "get" /\ kvOps # <<>> /\ kvOps' = Tail(kvOps)
        /\ UNCHANGED <<snapshot, delivered, running, snapshotDue, crashes>>
    BY <1>3 DEF RestoreFromSnapshot, RestoreFails, db, kv
  <2>2. restore # "done"
    BY <1>t, <2>1, OpCompleted DEF QueueInv, ReadOnce
  <2>3. inbox = {} /\ pending = {} /\ Len(kvOps) = 1 /\ (crashes = 0 => \A d \in Docs : delivered[d] = 0)
        /\ ~running /\ ~snapshotDue
    BY <2>1, <2>2 DEF QueueInv, RestoredFirst
  <2>4. Len(kvOps') = 0 /\ kvOps' = <<>>
    BY <1>t, <2>1, <2>3, OpCompleted, EmptySeq
  <2>5. CASE RestoreFromSnapshot
    <3>1. pending' = {} /\ inbox' = snapshot /\ restore' = "done"
      BY <2>3, <2>5 DEF RestoreFromSnapshot, Started, Queued, Plain
    <3>2. DeliveredBounds'
      BY <2>1, <2>4, <3>1 DEF QueueInv, DeliveredBounds, Memory
    <3>3. QueueIsOrdered'
      BY <2>1, <2>4, <3>1 DEF QueueInv, QueueIsOrdered, Ordered
    <3> QED BY <2>4, <3>1, <3>2, <3>3 DEF QueueInv, RestoredFirst, ReadOnce
  <2>6. CASE RestoreFails
    <3>1. UNCHANGED <<inbox, pending>> /\ restore' = "failed"
      BY <2>6 DEF RestoreFails
    <3>2. DeliveredBounds'
      BY <2>1, <2>4, <3>1 DEF QueueInv, DeliveredBounds, Memory
    <3>3. QueueIsOrdered'
      BY <2>1, <2>4, <3>1 DEF QueueInv, QueueIsOrdered
    <3>4. RestoredFirst'
      BY <2>1, <2>3, <2>4, <3>1 DEF RestoredFirst
    <3>5. ReadOnce'
      BY <2>4 DEF ReadOnce
    <3> QED BY <3>2, <3>3, <3>4, <3>5 DEF QueueInv
  <2> QED BY <1>3, <2>5, <2>6
<1>4. CASE SnapshotSettles
  <2>1. kvOps # <<>> /\ kvOps' = Tail(kvOps) /\ Head(kvOps).op = "put"
        /\ (snapshot' = snapshot \/ snapshot' = Head(kvOps).data)
        /\ UNCHANGED <<delivered, inbox, pending, running, snapshotDue, restore, crashes>>
    BY <1>4 DEF SnapshotSettles, db, boot
  <2>2. \A i \in 1..Len(kvOps') : i + 1 \in 1..Len(kvOps) /\ kvOps'[i] = kvOps[i + 1]
    BY <1>t, <2>1, OpCompleted
  <2>3. Known(Head(kvOps).data, delivered) /\ Ordered(Head(kvOps).data)
    BY <1>t, <1>k, <2>1, OpCompleted
  <2>4. DeliveredBounds' /\ QueueIsOrdered'
    BY <1>k, <2>1, <2>2, <2>3 DEF QueueInv, DeliveredBounds, QueueIsOrdered, Memory
  <2>5. ReadOnce'
    BY <2>1, <2>2 DEF QueueInv, ReadOnce
  <2>6. RestoredFirst'
    <3>1. ASSUME restore # "done" PROVE kvOps' = <<>>
      <4>1. Len(kvOps) = 1
        BY <2>1, <3>1 DEF QueueInv, RestoredFirst
      <4> QED BY <1>t, <2>1, <4>1, OpCompleted, EmptySeq
    <3> QED BY <2>1, <3>1 DEF QueueInv, RestoredFirst
  <2> QED BY <2>4, <2>5, <2>6 DEF QueueInv
<1>5. CASE TakeSnapshot
  <2>1. Put(pending, FALSE) \in KvOp /\ Put(pending, FALSE).data = Plain(pending)
        /\ Put(pending, FALSE).op = "put"
    BY <1>t, OpsAreTyped DEF Put
  <2>2. Known(Plain(pending), delivered) /\ Ordered(Plain(pending))
    <3>1. Known(pending, delivered) /\ Ordered(pending)
      BY DEF QueueInv, DeliveredBounds, QueueIsOrdered, Memory, Known
    <3> QED BY <3>1, KnownPlain, OrderedPlain
  <2>3. kvOps' = Append(kvOps, Put(pending, FALSE)) /\ snapshotDue
        /\ UNCHANGED <<delivered, inbox, pending, snapshot, restore>>
    BY <1>5 DEF TakeSnapshot, db, boot
  <2>4. \A i \in 1..Len(kvOps') :
           (i \in 1..Len(kvOps) /\ kvOps'[i] = kvOps[i]) \/ kvOps'[i] = Put(pending, FALSE)
    BY <1>t, <2>1, <2>3, OpIssued
  <2>5. \A i \in 1..Len(kvOps') : Known(kvOps'[i].data, delivered) /\ Ordered(kvOps'[i].data)
    BY <1>k, <2>1, <2>2, <2>4
  <2>6. restore = "done"
    BY <2>3 DEF QueueInv, RestoredFirst
  <2>7. RestoredFirst' /\ ReadOnce'
    BY <2>1, <2>3, <2>4, <2>6 DEF QueueInv, RestoredFirst, ReadOnce
  <2> QED BY <2>3, <2>5, <2>7, QueueKept
<1>6. ASSUME NEW d \in Docs, ParseReplicationResult(d), inbox = {} PROVE QueueInv'
  <2>1. /\ delivered' = [delivered EXCEPT ![d] = @ + 1] /\ restore = "done"
        /\ inbox' = {[id |-> d, rev |-> delivered[d] + 1, at |-> 1]}
        /\ UNCHANGED <<pending, snapshot, kvOps, restore>>
    BY <1>6 DEF ParseReplicationResult, kv, boot
  <2>2. ASSUME NEW S, \A c \in S : c.id \in Docs /\ c.rev \in Nat, Known(S, delivered)
        PROVE  Known(S, delivered') /\ \A c \in S : c.id = d => c.rev <= delivered[d] + 1
    BY <1>t, <2>1, <2>2 DEF Known
  <2>3. \A c \in pending \cup snapshot : c.id \in Docs /\ c.rev \in Nat
    BY <1>t DEF Change, Entry, Rev
  <2>4. ASSUME NEW i \in 1..Len(kvOps)
        PROVE  \A c \in kvOps[i].data : c.id \in Docs /\ c.rev \in Nat
    <3>1. kvOps[i] \in KvOp
      BY <1>t, ElementOfSeq
    <3> QED BY <3>1 DEF KvOp, FiniteChanges, Change, Rev
  <2>5. Known(pending, delivered) /\ Known(snapshot, delivered)
    BY DEF QueueInv, DeliveredBounds, Memory, Known
  <2>6. Known(pending, delivered') /\ Known(snapshot, delivered')
        /\ \A e \in pending : e.id = d => e.rev <= delivered[d] + 1
    BY <2>2, <2>3, <2>5
  <2>7. Known(inbox', delivered')
    BY <1>t, <2>1 DEF Known
  <2>8. \A i \in 1..Len(kvOps') : Known(kvOps'[i].data, delivered')
    BY <1>k, <2>1, <2>2, <2>4
  <2>9. DeliveredBounds'
    BY <2>1, <2>6, <2>7, <2>8 DEF DeliveredBounds, Memory, Known
  <2>10. QueueIsOrdered'
    <3>1. Ordered(inbox')
      BY <1>t, <2>1 DEF Ordered
    <3>2. \A c \in inbox', e \in pending' : c.id = e.id => e.rev <= c.rev
      BY <2>1, <2>6
    <3> QED BY <1>k, <2>1, <3>1, <3>2 DEF QueueInv, QueueIsOrdered
  <2> QED BY <2>1, <2>9, <2>10 DEF QueueInv, RestoredFirst, ReadOnce
<1>7. CASE EnqueueChange
  <2> DEFINE c == First(inbox)
             new == [id |-> c.id, rev |-> c.rev, at |-> NextAt(pending), pc |-> "queued"]
             queue == QueueAfter(c, Queued(pending))
  <2>1. c \in inbox /\ \A x \in inbox : c.at <= x.at
    BY <1>7, <1>t, FirstIsMember DEF EnqueueChange, Change, Stamped
  <2>2. queue \subseteq Queued(pending) \cup {new}
    BY DEF QueueAfter
  <2>3. pending' \subseteq pending \cup {new}
    <3>1. pending' = pending \/ pending' = Started(pending) \cup queue
      BY <1>7 DEF EnqueueChange
    <3> HIDE DEF queue, new, c
    <3> QED BY <2>2, <3>1 DEF Started, Queued
  <2>4. inbox' = inbox \ {c} /\ inbox # {} /\ UNCHANGED <<delivered, snapshot, kvOps, restore>>
    BY <1>7 DEF EnqueueChange, db, boot
  <2>5. new.id = c.id /\ new.rev = c.rev /\ new.at = NextAt(pending)
    OBVIOUS
  <2>6. NextAt(pending) \in Nat /\ \A e \in pending : e.at < NextAt(pending)
    BY <1>t, QueuedIsFinite, NextAtIsAfter
  <2>7. \A e \in pending : e.id = c.id => e.rev <= c.rev
    BY <2>1 DEF QueueInv, QueueIsOrdered
  <2>8. \A x \in inbox : x.id = c.id => c.rev <= x.rev
    BY <2>1 DEF QueueInv, QueueIsOrdered, Ordered
  <2>9. c.rev \in Nat /\ c.id \in Docs /\ c.rev <= delivered[c.id]
    BY <1>t, <2>1 DEF Change, Rev, QueueInv, DeliveredBounds, Memory, Known
  <2> HIDE DEF new, c, queue
  <2>10. DeliveredBounds'
    BY <2>3, <2>4, <2>5, <2>9 DEF QueueInv, DeliveredBounds, Memory, Known
  <2>11. Ordered(pending')
    <3> SUFFICES ASSUME NEW e \in pending', NEW f \in pending', e.id = f.id, e.at <= f.at
                 PROVE  e.rev <= f.rev
      BY DEF Ordered
    <3>1. CASE e \in pending /\ f \in pending
      BY <3>1 DEF QueueInv, QueueIsOrdered, Ordered
    <3>2. CASE f = new
      BY <2>3, <2>5, <2>7, <2>9, <3>2
    <3>3. CASE e = new /\ f \in pending
      <4>1. f.at \in Nat
        BY <1>t, <3>3 DEF Entry
      <4> QED BY <2>5, <2>6, <3>3, <4>1
    <3> QED BY <2>3, <3>1, <3>2, <3>3
  <2>12. \A x \in inbox', e \in pending' : x.id = e.id => e.rev <= x.rev
    BY <2>3, <2>4, <2>5, <2>8 DEF QueueInv, QueueIsOrdered
  <2>13. QueueIsOrdered'
    BY <2>4, <2>11, <2>12 DEF QueueInv, QueueIsOrdered, Ordered
  <2>14. restore = "done"
    BY <2>4 DEF QueueInv, RestoredFirst
  <2> QED BY <2>4, <2>10, <2>13, <2>14 DEF QueueInv, RestoredFirst, ReadOnce
<1>8. CASE RunProcessQueue
  <2>1. running /\ UNCHANGED <<delivered, inbox, snapshot, kvOps, restore>>
    BY <1>8 DEF RunProcessQueue, db, boot
  <2>2. \A e \in pending' : \E f \in pending : e.id = f.id /\ e.rev = f.rev /\ e.at = f.at
    <3>1. CASE Queued(pending) = {}
      BY <1>8, <3>1 DEF RunProcessQueue
    <3>2. CASE Queued(pending) # {}
      <4>1. First(Queued(pending)) \in pending
        BY <1>t, <3>2, QueuedIsFinite, FirstIsMember DEF Queued
      <4>2. Move(First(Queued(pending)), "parsing")
        BY <1>8, <3>2 DEF RunProcessQueue
      <4> QED BY <1>t, <4>1, <4>2, MovedIsSame
    <3> QED BY <3>1, <3>2
  <2>3. RestoredFirst' /\ ReadOnce'
    BY <2>1 DEF QueueInv, RestoredFirst, ReadOnce
  <2> QED BY <1>k, <2>1, <2>2, <2>3, QueueKept
<1>9. ASSUME NEW e \in pending, Document(e) PROVE QueueInv'
  <2>1. restore = "done" /\ UNCHANGED <<delivered, inbox, snapshot, restore>>
    BY <1>9 DEF QueueInv, RestoredFirst, Document, ParseDocumentChange, AcquirePermit, AcquireLock,
       CheckIsChangeRequired, ApplyToStorage, LeaveProcessing, db, kv, boot
  <2>2. CASE LeaveProcessing(e)
    <3>1. Put({}, TRUE) \in KvOp /\ Put({}, TRUE).data = {} /\ Put({}, TRUE).op = "put"
      BY OpsAreTyped, FS_EmptySet DEF Put, Plain
    <3>2. kvOps' = kvOps \/ kvOps' = Append(kvOps, Put({}, TRUE))
      BY <2>2 DEF LeaveProcessing
    <3>3. \A i \in 1..Len(kvOps') :
             (i \in 1..Len(kvOps) /\ kvOps'[i] = kvOps[i]) \/ kvOps'[i] = Put({}, TRUE)
      <4>1. CASE kvOps' = kvOps
        BY <4>1
      <4>2. CASE kvOps' = Append(kvOps, Put({}, TRUE))
        BY <1>t, <3>1, <4>2, OpIssued
      <4> QED BY <3>2, <4>1, <4>2
    <3>4. \A i \in 1..Len(kvOps') : Known(kvOps'[i].data, delivered) /\ Ordered(kvOps'[i].data)
      BY <1>k, <1>n, <3>1, <3>3
    <3>5. RestoredFirst' /\ ReadOnce'
      BY <2>1, <3>1, <3>3 DEF QueueInv, RestoredFirst, ReadOnce
    <3>6. pending' \subseteq pending
      BY <2>2 DEF LeaveProcessing
    <3> QED BY <2>1, <3>4, <3>5, <3>6, QueueKept
  <2>3. CASE ~LeaveProcessing(e)
    <3>1. kvOps' = kvOps /\ \E pc \in Phases : Move(e, pc)
      BY <1>9, <2>3 DEF Document, ParseDocumentChange, AcquirePermit, AcquireLock, CheckIsChangeRequired,
         ApplyToStorage, Phases, kv
    <3>2. \A f \in pending' : \E g \in pending : f.id = g.id /\ f.rev = g.rev /\ f.at = g.at
      BY <1>t, <3>1, MovedIsSame
    <3>3. RestoredFirst' /\ ReadOnce'
      BY <2>1, <3>1 DEF QueueInv, RestoredFirst, ReadOnce
    <3> QED BY <1>k, <2>1, <3>1, <3>2, <3>3, QueueKept
  <2> QED BY <2>2, <2>3
<1>10. CASE Crash
  <2>1. /\ delivered' \in {delivered, latest} /\ inbox' = {} /\ pending' = {} /\ ~running' /\ ~snapshotDue'
        /\ kvOps' = <<>> /\ restore' = "none" /\ crashes' = crashes + 1 /\ snapshot' = snapshot
    BY <1>10 DEF Crash
  <2>2. Known(snapshot, delivered')
    BY <2>1 DEF QueueInv, DeliveredBounds, OrderInv, RevisionsKnown
  <2>3. crashes' # 0 /\ Len(kvOps') = 0
    BY <2>1, EmptySeq DEF TypeInv, BookType
  <2>4. DeliveredBounds' /\ QueueIsOrdered'
    BY <2>1, <2>2, <2>3 DEF QueueInv, DeliveredBounds, QueueIsOrdered, Memory, Known, Ordered
  <2> QED BY <2>1, <2>3, <2>4 DEF QueueInv, RestoredFirst, ReadOnce
<1>11. CASE UNCHANGED vars
  <2>1. UNCHANGED <<delivered, inbox, pending, snapshot, kvOps, snapshotDue, restore, crashes, running>>
    BY <1>11 DEF vars, db, kv, boot
  <2> QED BY <2>1 DEF QueueInv, DeliveredBounds, QueueIsOrdered, RestoredFirst, ReadOnce, Memory
<1> QED BY <1>1, <1>2, <1>3, <1>4, <1>5, <1>6, <1>7, <1>8, <1>9, <1>10, <1>11 DEF Next, Turn
-----------------------------------------------------------------------------
(* No change is lost between the memory, the snapshots on their way and the *)
(* stored one.                                                              *)

AreRevisions(S) == \A c \in S : c.id \in Docs /\ c.rev \in Nat

Grows(s, t) == \A d \in Docs : s[d] \in Nat /\ t[d] \in Nat /\ s[d] <= t[d]

LEMMA SurviveTrans ==
    ASSUME NEW s, NEW S, NEW T, NEW U, AreRevisions(S), AreRevisions(T), AreRevisions(U), Grows(s, s),
           Survive(s, S, T), Survive(s, T, U)
    PROVE  Survive(s, S, U)
<1> SUFFICES ASSUME NEW c \in S, ~(s[c.id] >= c.rev)
             PROVE  CoveredBy(c, U)
  BY DEF Survive
<1>1. PICK d \in T : d.id = c.id /\ d.rev >= c.rev
  BY DEF Survive, CoveredBy
<1>2. /\ c.id \in Docs /\ c.rev \in Nat /\ d.rev \in Nat /\ s[c.id] \in Nat
      /\ \A e \in U : e.rev \in Nat
  BY DEF AreRevisions, Grows
<1>3. ~(s[d.id] >= d.rev)
  BY <1>1, <1>2
<1>4. PICK e \in U : e.id = d.id /\ e.rev >= d.rev
  BY <1>3 DEF Survive, CoveredBy
<1> QED BY <1>1, <1>2, <1>4 DEF CoveredBy

LEMMA SurviveGrows ==
    ASSUME NEW s, NEW t, NEW S, NEW T, AreRevisions(S), Grows(s, t), Survive(s, S, T)
    PROVE  Survive(t, S, T)
BY DEF AreRevisions, Grows, Survive

LEMMA SurviveSame ==
    ASSUME NEW s, NEW S, NEW T, AreRevisions(S), \A c \in S : \E d \in T : d.id = c.id /\ d.rev = c.rev
    PROVE  Survive(s, S, T)
BY DEF AreRevisions, Survive, CoveredBy

\* The changes of a typed state.
LEMMA ChangesAreRevisions ==
    ASSUME TypeInv
    PROVE  /\ AreRevisions(Memory) /\ AreRevisions(snapshot)
           /\ \A i \in 1..Len(kvOps) : AreRevisions(kvOps[i].data)
           /\ settled \in [Docs -> Nat] /\ Grows(settled, settled)
<1>1. AreRevisions(Memory) /\ AreRevisions(snapshot)
  BY DEF TypeInv, QueueType, KvType, FiniteChanges, Change, Entry, Rev, AreRevisions, Memory
<1>2. ASSUME NEW i \in 1..Len(kvOps) PROVE AreRevisions(kvOps[i].data)
  <2>1. kvOps[i] \in KvOp
    BY ElementOfSeq DEF TypeInv, KvType
  <2> QED BY <2>1 DEF KvOp, FiniteChanges, Change, Rev, AreRevisions
<1>3. settled \in [Docs -> Nat] /\ Grows(settled, settled)
  BY DEF TypeInv, BookType, Grows
<1> QED BY <1>1, <1>2, <1>3

\* A step by which the memory forgets nothing, and that issues at most a
\* snapshot of all the memory.
LEMMA ChainKept ==
    ASSUME TypeInv, TypeInv', SnapshotsChain, restore = "done", snapshot' = snapshot, Grows(settled, settled'),
           Survive(settled', Memory, Memory'),
           \A i \in 1..Len(kvOps') :
              \/ i \in 1..Len(kvOps) /\ kvOps'[i] = kvOps[i]
              \/ /\ i = Len(kvOps) + 1
                 /\ Survive(settled', Memory', kvOps'[i].data) /\ Survive(settled', kvOps'[i].data, Memory')
    PROVE  SnapshotsChain'
<1>1. /\ AreRevisions(Memory) /\ AreRevisions(snapshot)
      /\ \A i \in 1..Len(kvOps) : AreRevisions(kvOps[i].data)
  BY ChangesAreRevisions
<1>2. /\ AreRevisions(Memory')
      /\ \A i \in 1..Len(kvOps') : AreRevisions(kvOps'[i].data)
      /\ Grows(settled', settled')
  <2>1. AreRevisions(Memory')
    BY DEF TypeInv, QueueType, FiniteChanges, Change, Entry, Rev, AreRevisions, Memory
  <2>2. ASSUME NEW i \in 1..Len(kvOps') PROVE AreRevisions(kvOps'[i].data)
    <3>1. kvOps'[i] \in KvOp
      BY ElementOfSeq DEF TypeInv, KvType
    <3> QED BY <3>1 DEF KvOp, FiniteChanges, Change, Rev, AreRevisions
  <2>3. Grows(settled', settled')
    BY DEF TypeInv, BookType, Grows
  <2> QED BY <2>1, <2>2, <2>3
<1> DEFINE Old(i) == i \in 1..Len(kvOps) /\ kvOps'[i] = kvOps[i]
           New(i) == /\ i = Len(kvOps) + 1
                     /\ Survive(settled', Memory', kvOps'[i].data) /\ Survive(settled', kvOps'[i].data, Memory')
<1>3. \A i \in 1..Len(kvOps') : Old(i) \/ New(i)
  OBVIOUS
<1>4. Survive(settled', snapshot, Memory) /\ Survive(settled', snapshot, Memory')
  <2>1. Survive(settled', snapshot, Memory)
    BY <1>1, SurviveGrows DEF SnapshotsChain
  <2> QED BY <1>1, <1>2, <2>1, SurviveTrans
<1>5. ASSUME NEW i \in 1..Len(kvOps), Old(i), i \in 1..Len(kvOps')
      PROVE  /\ Survive(settled', snapshot, kvOps'[i].data)
             /\ Survive(settled', kvOps'[i].data, Memory) /\ Survive(settled', kvOps'[i].data, Memory')
  <2>1. Survive(settled', snapshot, kvOps[i].data) /\ Survive(settled', kvOps[i].data, Memory)
    BY <1>1, SurviveGrows DEF SnapshotsChain
  <2>2. Survive(settled', kvOps[i].data, Memory')
    BY <1>1, <1>2, <2>1, SurviveTrans
  <2> QED BY <1>5, <2>1, <2>2
<1>6. ASSUME NEW i \in 1..Len(kvOps')
      PROVE  Survive(settled', snapshot, kvOps'[i].data) /\ Survive(settled', kvOps'[i].data, Memory')
  <2>1. CASE Old(i)
    BY <1>5, <2>1
  <2>2. CASE New(i)
    BY <1>1, <1>2, <1>4, <2>2, SurviveTrans
  <2> QED BY <1>3, <2>1, <2>2
<1>7. ASSUME NEW i \in 1..Len(kvOps'), NEW j \in 1..Len(kvOps'), i < j
      PROVE  Survive(settled', kvOps'[i].data, kvOps'[j].data)
  <2>1. CASE Old(i) /\ Old(j)
    <3>1. Survive(settled, kvOps[i].data, kvOps[j].data)
      BY <1>7, <2>1 DEF SnapshotsChain
    <3>2. Survive(settled', kvOps[i].data, kvOps[j].data)
      BY <1>1, <2>1, <3>1, SurviveGrows
    <3> QED BY <2>1, <3>2
  <2>2. CASE Old(i) /\ New(j)
    <3>1. Survive(settled', kvOps'[i].data, Memory') /\ Survive(settled', Memory', kvOps'[j].data)
      BY <1>5, <2>2
    <3> QED BY <1>2, <3>1, SurviveTrans
  <2>3. ~New(i)
    <3>1. Len(kvOps) \in Nat
      BY LenProperties DEF TypeInv, KvType
    <3>2. j <= Len(kvOps) + 1
      BY <1>3, <3>1
    <3> QED BY <1>7, <3>1, <3>2
  <2> QED BY <1>3, <2>1, <2>2, <2>3
<1> QED BY <1>4, <1>6, <1>7 DEF SnapshotsChain

\* ... and every change of the memory is still there.
LEMMA MoveKeeps ==
    ASSUME pending \in SUBSET Entry, NEW e \in pending, NEW pc, Move(e, pc)
    PROVE  \A f \in pending : \E g \in pending' : g.id = f.id /\ g.rev = f.rev
<1>1. At(e, pc).id = e.id /\ At(e, pc).rev = e.rev
  BY DEF At, Entry
<1> QED BY <1>1 DEF Move

\* Between two starts the memory loses a change only to a newer one, or settled.
MemoryKept == Grows(settled, settled') /\ Survive(settled', Memory, Memory')

LEMMA MemoryStep == TypeInv /\ QueueInv /\ [Next]_vars /\ ~Crash => MemoryKept
<1> SUFFICES ASSUME TypeInv, QueueInv, [Next]_vars, ~Crash PROVE MemoryKept
  OBVIOUS
<1>t. /\ inbox \in SUBSET Change /\ IsFiniteSet(inbox)
      /\ pending \in SUBSET Entry /\ IsFiniteSet(pending) /\ kvOps \in Seq(KvOp)
  BY DEF TypeInv, QueueType, KvType, FiniteChanges
<1>r. /\ AreRevisions(Memory) /\ AreRevisions(snapshot) /\ Grows(settled, settled)
      /\ \A i \in 1..Len(kvOps) : AreRevisions(kvOps[i].data)
      /\ settled \in [Docs -> Nat]
  BY ChangesAreRevisions
<1>1. ASSUME settled' = settled, Survive(settled, Memory, Memory') PROVE MemoryKept
  BY <1>1, <1>r DEF MemoryKept
<1>2. CASE RestoreFromSnapshot
  <2>1. restore # "done"
    BY <1>2, <1>t, OpCompleted DEF RestoreFromSnapshot, QueueInv, ReadOnce
  <2>2. Memory = {} /\ settled' = settled
    BY <1>2, <2>1 DEF RestoreFromSnapshot, QueueInv, RestoredFirst, Memory
  <2> QED BY <1>1, <2>2 DEF Survive
<1>3. CASE EnqueueChange
  <2> DEFINE c == First(inbox)
             new == [id |-> c.id, rev |-> c.rev, at |-> NextAt(pending), pc |-> "queued"]
             same == {e \in Queued(pending) : e.id = c.id}
  <2>1. c \in inbox
    BY <1>3, <1>t, FirstIsMember DEF EnqueueChange, Change, Stamped
  <2>2. inbox' = inbox \ {c} /\ UNCHANGED <<snapshot, settled, kvOps>>
    BY <1>3 DEF EnqueueChange
  <2>3. \A e \in pending : e.id = c.id => e.rev <= c.rev
    BY <2>1 DEF QueueInv, QueueIsOrdered
  <2>4. new.id = c.id /\ new.rev = c.rev
    OBVIOUS
  <2>5. c.rev \in Nat
    BY <1>r, <2>1 DEF AreRevisions, Memory
  <2>6. CASE AlreadyQueued(c)
    <3>1. pending' = pending
      BY <1>3, <2>6 DEF EnqueueChange
    <3>2. same # {} /\ First(same).rev = c.rev
      BY <2>6 DEF AlreadyQueued
    <3>3. First(same) \in same
      <4>1. Stamped(same)
        <5>1. IsFiniteSet(same)
          BY <1>t, FS_Subset DEF Queued
        <5> QED BY <1>t, <5>1 DEF Stamped, Queued, Entry
      <4> QED BY <3>2, <4>1, FirstIsMember
    <3>4. First(same) \in pending /\ First(same).id = c.id
      BY <3>3 DEF Queued
    <3> HIDE DEF c, new, same
    <3>5. \A x \in Memory : \E y \in Memory' : y.id = x.id /\ y.rev = x.rev
      BY <2>2, <3>1, <3>2, <3>4 DEF Memory
    <3> QED BY <1>1, <1>r, <2>2, <3>5, SurviveSame
  <2>7. CASE ~AlreadyQueued(c)
    <3>1. pending' = Started(pending) \cup QueueAfter(c, Queued(pending))
      BY <1>3, <2>7 DEF EnqueueChange
    <3>2. new \in pending' /\ \A e \in pending : e \in pending' \/ e.id = c.id
      BY <3>1 DEF QueueAfter, Started
    <3> HIDE DEF c, new, same
    <3>3. \A x \in Memory : \E y \in Memory' : y.id = x.id /\ y.rev >= x.rev
      <4> SUFFICES ASSUME NEW x \in Memory PROVE \E y \in Memory' : y.id = x.id /\ y.rev >= x.rev
        OBVIOUS
      <4>1. x.rev \in Nat
        BY <1>r DEF AreRevisions
      <4>2. CASE x \in inbox /\ x # c
        BY <2>2, <4>1, <4>2 DEF Memory
      <4>3. CASE x = c
        BY <2>4, <2>5, <3>2, <4>3 DEF Memory
      <4>4. CASE x \in pending /\ x \notin pending'
        BY <2>3, <2>4, <2>5, <3>2, <4>1, <4>4 DEF Memory
      <4>5. CASE x \in pending'
        BY <4>1, <4>5 DEF Memory
      <4> QED BY <4>2, <4>3, <4>4, <4>5 DEF Memory
    <3>4. Survive(settled, Memory, Memory')
      BY <3>3 DEF Survive, CoveredBy
    <3> QED BY <1>1, <2>2, <3>4
  <2> QED BY <2>6, <2>7
<1>4. CASE RunProcessQueue
  <2>1. UNCHANGED <<inbox, snapshot, kvOps, settled>>
    BY <1>4 DEF RunProcessQueue
  <2>2. CASE Queued(pending) = {}
    <3>1. Memory' = Memory
      BY <1>4, <2>1, <2>2 DEF RunProcessQueue, Memory
    <3> QED BY <1>1, <1>r, <2>1, <3>1, SurviveSame
  <2>3. CASE Queued(pending) # {}
    <3>1. First(Queued(pending)) \in pending
      BY <1>t, <2>3, QueuedIsFinite, FirstIsMember DEF Queued
    <3>2. Move(First(Queued(pending)), "parsing")
      BY <1>4, <2>3 DEF RunProcessQueue
    <3>3. \A x \in Memory : \E y \in Memory' : y.id = x.id /\ y.rev = x.rev
      BY <1>t, <2>1, <3>1, <3>2, MoveKeeps DEF Memory
    <3> QED BY <1>1, <1>r, <2>1, <3>3, SurviveSame
  <2> QED BY <2>2, <2>3
<1>5. ASSUME NEW e \in pending, Document(e), ~LeaveProcessing(e) PROVE MemoryKept
  <2>1. UNCHANGED <<inbox, snapshot, kvOps, settled>> /\ \E pc \in Phases : Move(e, pc)
    BY <1>5 DEF Document, ParseDocumentChange, AcquirePermit, AcquireLock, CheckIsChangeRequired,
       ApplyToStorage, Phases, kv
  <2>2. \A x \in Memory : \E y \in Memory' : y.id = x.id /\ y.rev = x.rev
    BY <1>t, <2>1, MoveKeeps DEF Memory
  <2> QED BY <1>1, <1>r, <2>1, <2>2, SurviveSame
<1>6. ASSUME NEW e \in pending, LeaveProcessing(e) PROVE MemoryKept
  <2>1. /\ pending' = pending \ {e} /\ inbox' = inbox
        /\ settled' = [settled EXCEPT ![e.id] = IF @ < e.rev THEN e.rev ELSE @]
    BY <1>6 DEF LeaveProcessing
  <2>2. e.id \in Docs /\ e.rev \in Nat
    BY <1>r DEF AreRevisions, Memory
  <2>3. Grows(settled, settled') /\ settled'[e.id] >= e.rev
    <3>1. \A d \in Docs : settled[d] \in Nat
      BY <1>r
    <3> QED BY <1>r, <2>1, <2>2, <3>1 DEF Grows
  <2>4. Survive(settled', Memory, Memory')
    <3> SUFFICES ASSUME NEW c \in Memory PROVE CoveredBy(c, Memory') \/ settled'[c.id] >= c.rev
      BY DEF Survive
    <3>1. CASE c = e
      BY <2>3, <3>1
    <3>2. CASE c # e
      <4>1. c \in Memory' /\ c.rev \in Nat
        BY <1>r, <2>1, <3>2 DEF AreRevisions, Memory
      <4> QED BY <4>1 DEF CoveredBy
    <3> QED BY <3>1, <3>2
  <2> QED BY <2>3, <2>4 DEF MemoryKept
<1>7. CASE OnDatabaseInitialized \/ OnReady \/ RestoreFails \/ SnapshotSettles \/ TakeSnapshot
           \/ ActivitySettles \/ (\E k \in PauseKinds : Toggle(k)) \/ SettingSaved
           \/ (\E d \in Docs : Replicate(d)) \/ UNCHANGED vars
  <2>1. UNCHANGED <<inbox, pending, settled>>
    BY <1>7 DEF OnDatabaseInitialized, OnReady, RestoreFails, SnapshotSettles, TakeSnapshot, ActivitySettles,
       Toggle, SettingSaved, Replicate, vars
  <2>2. Memory' = Memory
    BY <2>1 DEF Memory
  <2> QED BY <1>1, <1>r, <2>1, <2>2, SurviveSame
<1>8. ASSUME NEW d \in Docs, ParseReplicationResult(d), inbox = {} PROVE MemoryKept
  <2>1. UNCHANGED <<pending, settled>>
    BY <1>8 DEF ParseReplicationResult
  <2>2. Memory \subseteq Memory'
    BY <1>8, <2>1 DEF Memory
  <2> QED BY <1>1, <1>r, <2>1, <2>2, SurviveSame
<1> QED BY <1>2, <1>3, <1>4, <1>5, <1>6, <1>7, <1>8 DEF Next, Turn

LEMMA ChainStep ==
    TypeInv /\ TypeInv' /\ QueueInv /\ SnapshotsChain /\ [Next]_vars => SnapshotsChain'
<1> SUFFICES ASSUME TypeInv, TypeInv', QueueInv, SnapshotsChain, [Next]_vars PROVE SnapshotsChain'
  OBVIOUS
<1>t. /\ inbox \in SUBSET Change /\ IsFiniteSet(inbox)
      /\ pending \in SUBSET Entry /\ IsFiniteSet(pending) /\ kvOps \in Seq(KvOp)
  BY DEF TypeInv, QueueType, KvType, FiniteChanges
<1>r. /\ AreRevisions(Memory) /\ AreRevisions(snapshot) /\ Grows(settled, settled)
      /\ \A i \in 1..Len(kvOps) : AreRevisions(kvOps[i].data)
      /\ settled \in [Docs -> Nat]
  BY ChangesAreRevisions
<1>1. CASE OnDatabaseInitialized \/ RestoreFails \/ Crash
  BY <1>1 DEF OnDatabaseInitialized, RestoreFails, Crash, SnapshotsChain
<1>2. CASE RestoreFromSnapshot
  <2>1. restore # "done"
    BY <1>2, <1>t, OpCompleted DEF RestoreFromSnapshot, QueueInv, ReadOnce
  <2>2. pending = {} /\ Len(kvOps) = 1
    BY <1>2, <2>1 DEF RestoreFromSnapshot, QueueInv, RestoredFirst
  <2>3. Len(kvOps') = 0
    BY <1>2, <1>t, <2>2, OpCompleted DEF RestoreFromSnapshot
  <2>4. Memory' = snapshot /\ snapshot' = snapshot /\ settled' = settled
    BY <1>2, <2>2 DEF RestoreFromSnapshot, Started, Queued, Plain, Memory
  <2>5. Survive(settled', snapshot', Memory')
    BY <1>r, <2>4, SurviveSame
  <2> QED BY <2>3, <2>5 DEF SnapshotsChain
<1>3. CASE restore # "done" /\ restore' = restore
  BY <1>3 DEF SnapshotsChain
<1>4. CASE SnapshotSettles /\ restore = "done"
  <2>1. /\ kvOps # <<>> /\ kvOps' = Tail(kvOps) /\ (snapshot' = snapshot \/ snapshot' = Head(kvOps).data)
        /\ UNCHANGED <<inbox, pending, settled>>
    BY <1>4 DEF SnapshotSettles
  <2>2. /\ Head(kvOps) = kvOps[1] /\ 1 \in 1..Len(kvOps)
        /\ \A i \in 1..Len(kvOps') : i + 1 \in 1..Len(kvOps) /\ i + 1 > 1 /\ kvOps'[i] = kvOps[i + 1]
    BY <1>t, <2>1, OpCompleted
  <2>3. Memory' = Memory
    BY <2>1 DEF Memory
  <2>4. Survive(settled, snapshot', Memory)
    BY <1>4, <2>1, <2>2 DEF SnapshotsChain
  <2>5. ASSUME NEW i \in 1..Len(kvOps')
        PROVE  Survive(settled, snapshot', kvOps'[i].data) /\ Survive(settled, kvOps'[i].data, Memory)
    <3>1. i + 1 \in 1..Len(kvOps) /\ i + 1 > 1 /\ kvOps'[i] = kvOps[i + 1]
      BY <2>2
    <3>2. Survive(settled, snapshot, kvOps[i + 1].data) /\ Survive(settled, kvOps[i + 1].data, Memory)
      BY <1>4, <3>1 DEF SnapshotsChain
    <3>3. Survive(settled, kvOps[1].data, kvOps[i + 1].data)
      BY <1>4, <2>2, <3>1 DEF SnapshotsChain
    <3> QED BY <2>1, <2>2, <3>1, <3>2, <3>3
  <2>6. ASSUME NEW i \in 1..Len(kvOps'), NEW j \in 1..Len(kvOps'), i < j
        PROVE  Survive(settled, kvOps'[i].data, kvOps'[j].data)
    <3>1. /\ i + 1 \in 1..Len(kvOps) /\ kvOps'[i] = kvOps[i + 1]
          /\ j + 1 \in 1..Len(kvOps) /\ kvOps'[j] = kvOps[j + 1]
      BY <2>2
    <3>2. i + 1 < j + 1
      BY <2>6, LenProperties DEF TypeInv, KvType
    <3>3. Survive(settled, kvOps[i + 1].data, kvOps[j + 1].data)
      BY <1>4, <3>1, <3>2 DEF SnapshotsChain
    <3> QED BY <3>1, <3>3
  <2> QED BY <2>1, <2>3, <2>4, <2>5, <2>6 DEF SnapshotsChain
<1>5. ASSUME restore = "done", snapshot' = snapshot, kvOps' = kvOps, ~Crash PROVE SnapshotsChain'
  <2>1. MemoryKept
    BY <1>5, MemoryStep
  <2> QED BY <1>5, <2>1, ChainKept DEF MemoryKept
<1>6. CASE TakeSnapshot /\ restore = "done" /\ inbox = {}
  <2>1. Put(pending, FALSE) \in KvOp /\ Put(pending, FALSE).data = Plain(pending)
    BY <1>t, OpsAreTyped DEF Put
  <2>2. /\ kvOps' = Append(kvOps, Put(pending, FALSE)) /\ Memory' = Memory /\ Memory = pending
        /\ settled' = settled /\ snapshot' = snapshot
    BY <1>6 DEF TakeSnapshot, Memory
  <2>3. Survive(settled, Memory, Plain(pending)) /\ Survive(settled, Plain(pending), Memory)
    <3>1. ASSUME NEW e \in pending PROVE \E c \in Plain(pending) : c.id = e.id /\ c.rev = e.rev
      <4>1. [id |-> e.id, rev |-> e.rev, at |-> e.at] \in Plain(pending)
        BY DEF Plain
      <4> QED BY <4>1
    <3>2. \A c \in Plain(pending) : \E e \in pending : c.id = e.id /\ c.rev = e.rev
      BY DEF Plain
    <3>3. AreRevisions(Plain(pending))
      BY <1>r, <2>2, <3>2 DEF AreRevisions
    <3> QED BY <1>r, <2>2, <3>1, <3>2, <3>3, SurviveSame
  <2>4. \A i \in 1..Len(kvOps') :
           \/ i \in 1..Len(kvOps) /\ kvOps'[i] = kvOps[i]
           \/ i = Len(kvOps) + 1 /\ kvOps'[i] = Put(pending, FALSE)
    BY <1>t, <2>1, <2>2, OpIssued
  <2>5. Survive(settled', Memory, Memory')
    BY <1>r, <2>2, SurviveSame
  <2> QED BY <1>6, <1>r, <2>1, <2>2, <2>3, <2>4, <2>5, ChainKept
<1>7. ASSUME NEW e \in pending, LeaveProcessing(e), pending = {e}, inbox = {}, restore = "done", ~Crash
      PROVE  SnapshotsChain'
  <2>1. MemoryKept
    BY <1>7, MemoryStep
  <2>2. Put({}, TRUE) \in KvOp /\ Put({}, TRUE).data = {}
    BY OpsAreTyped, FS_EmptySet DEF Put, Plain
  <2>3. kvOps' = Append(kvOps, Put({}, TRUE)) /\ Memory' = {} /\ snapshot' = snapshot
    BY <1>7 DEF LeaveProcessing, Memory
  <2>4. \A i \in 1..Len(kvOps') :
           \/ i \in 1..Len(kvOps) /\ kvOps'[i] = kvOps[i]
           \/ i = Len(kvOps) + 1 /\ kvOps'[i] = Put({}, TRUE)
    BY <1>t, <2>2, <2>3, OpIssued
  <2>5. Survive(settled', Memory', {}) /\ Survive(settled', {}, Memory')
    BY <2>3 DEF Survive
  <2> QED BY <1>7, <2>1, <2>2, <2>3, <2>4, <2>5, ChainKept DEF MemoryKept
<1>8. CASE EnqueueChange \/ OnReady \/ RunProcessQueue \/ ActivitySettles \/ (\E k \in PauseKinds : Toggle(k))
           \/ SettingSaved \/ (\E d \in Docs : Replicate(d)) \/ (\E d \in Docs : ParseReplicationResult(d))
           \/ UNCHANGED vars
  <2>1. UNCHANGED <<snapshot, kvOps, restore>>
    BY <1>8 DEF EnqueueChange, OnReady, RunProcessQueue, ActivitySettles, Toggle, SettingSaved, Replicate,
       ParseReplicationResult, kv, boot, vars
  <2> QED BY <1>1, <1>3, <1>5, <2>1
<1>9. ASSUME NEW e \in pending, Document(e), inbox = {} PROVE SnapshotsChain'
  <2>1. restore = "done" /\ snapshot' = snapshot
    BY <1>9 DEF QueueInv, RestoredFirst, Document, ParseDocumentChange, AcquirePermit, AcquireLock,
       CheckIsChangeRequired, ApplyToStorage, LeaveProcessing, kv
  <2>2. CASE LeaveProcessing(e) /\ pending = {e}
    BY <1>1, <1>7, <1>9, <2>1, <2>2
  <2>3. kvOps' = kvOps \/ (LeaveProcessing(e) /\ pending = {e})
    BY <1>9 DEF Document, ParseDocumentChange, AcquirePermit, AcquireLock, CheckIsChangeRequired,
       ApplyToStorage, LeaveProcessing, kv
  <2> QED BY <1>1, <1>5, <2>1, <2>2, <2>3
<1>10. restore # "done" => (TakeSnapshot \/ SnapshotSettles => restore' = restore)
  BY DEF TakeSnapshot, SnapshotSettles, boot
<1> QED BY <1>1, <1>2, <1>3, <1>4, <1>6, <1>8, <1>9, <1>10 DEF Next, Turn

-----------------------------------------------------------------------------
(* What the snapshot, the memory and the vault promise each other.          *)

\* A job leaves only when it was handed over, superseded, ignored or given up.
LEMMA LeaveStep == TypeInv /\ OrderInv /\ LeavesForReason /\ [Next]_vars => LeavesForReason'
<1> SUFFICES ASSUME TypeInv, LeavesForReason, [Next]_vars PROVE LeavesForReason'
  OBVIOUS
<1> DEFINE Reason(e, h, l) == h[e.id] >= e.rev \/ l[e.id] > e.rev \/ e.id \in Ignored \/ MayFail
<1>t. /\ pending \in SUBSET Entry /\ IsFiniteSet(pending) /\ reached \in [Docs -> Nat] /\ latest \in [Docs -> Nat]
      /\ inbox \in SUBSET Change
  BY DEF TypeInv, QueueType, BookType, DbType, FiniteChanges
<1>1. \A d \in Docs : reached[d] <= reached'[d] /\ reached'[d] \in Nat
  <2>1. \/ reached' = reached
        \/ \E e \in pending : reached' = [reached EXCEPT ![e.id] = IF @ < e.rev THEN e.rev ELSE @]
    BY DEF Next, Turn, EnqueueChange, OnDatabaseInitialized, OnReady, RestoreFromSnapshot, RestoreFails,
           SnapshotSettles, TakeSnapshot, Replicate, ParseReplicationResult, RunProcessQueue, Document,
           ParseDocumentChange, AcquirePermit, AcquireLock, CheckIsChangeRequired, ApplyToStorage,
           LeaveProcessing, ActivitySettles, Toggle, SettingSaved, Crash, vars
  <2> QED BY <1>t, <2>1 DEF Entry, Rev
<1>2. \A d \in Docs : latest[d] <= latest'[d] /\ latest'[d] \in Nat
  <2>1. latest' = latest \/ \E d \in Docs : latest' = [latest EXCEPT ![d] = @ + 1]
    BY DEF Next, Turn, EnqueueChange, OnDatabaseInitialized, OnReady, RestoreFromSnapshot, RestoreFails,
           SnapshotSettles, TakeSnapshot, Replicate, ParseReplicationResult, RunProcessQueue, Document,
           ParseDocumentChange, AcquirePermit, AcquireLock, CheckIsChangeRequired, ApplyToStorage,
           LeaveProcessing, ActivitySettles, Toggle, SettingSaved, Crash, vars, db
  <2> QED BY <1>t, <2>1
<1>3. \A e \in pending : Reason(e, reached, latest) => Reason(e, reached', latest')
  BY <1>1, <1>2, <1>t DEF Entry, Rev
<1>4. ASSUME \A e \in pending' : e.pc = "leave" => e \in pending \/ Reason(e, reached', latest')
      PROVE  LeavesForReason'
  BY <1>3, <1>4 DEF LeavesForReason
<1>5. CASE EnqueueChange
  <2>1. pending' = pending \/ pending' = Started(pending) \cup QueueAfter(First(inbox), Queued(pending))
    BY <1>5 DEF EnqueueChange
  <2>2. \A e \in QueueAfter(First(inbox), Queued(pending)) : e \in pending \/ e.pc = "queued"
    BY DEF QueueAfter, Queued
  <2>3. \A e \in pending' : e.pc = "leave" => e \in pending
    BY <2>1, <2>2 DEF Started
  <2> QED BY <1>4, <2>3
<1>6. ASSUME NEW e \in pending, NEW pc \in Phases \ {"leave"}, Move(e, pc) PROVE LeavesForReason'
  <2>1. \A f \in pending' : f \in pending \/ f.pc = pc
    BY <1>6, <1>t, MovedIsSame
  <2> QED BY <1>4, <2>1
<1>7. ASSUME NEW e \in pending, Move(e, "leave"), Reason(e, reached', latest') PROVE LeavesForReason'
  <2>1. \A f \in pending' : f \in pending \/ (f.id = e.id /\ f.rev = e.rev)
    BY <1>7, <1>t, MovedIsSame
  <2> QED BY <1>4, <1>7, <2>1
<1>8. CASE RunProcessQueue
  <2>1. CASE Queued(pending) = {}
    BY <1>4, <1>8, <2>1 DEF RunProcessQueue
  <2>2. CASE Queued(pending) # {}
    <3>1. First(Queued(pending)) \in pending
      BY <1>t, <2>2, QueuedIsFinite, FirstIsMember DEF Queued
    <3>2. Move(First(Queued(pending)), "parsing")
      BY <1>8, <2>2 DEF RunProcessQueue
    <3> QED BY <1>6, <3>1, <3>2 DEF Phases
  <2> QED BY <2>1, <2>2
<1>9. ASSUME NEW e \in pending, Document(e) PROVE LeavesForReason'
  <2>1. CASE ParseDocumentChange(e)
    <3>1. CASE e.id \in Ignored
      BY <1>7, <2>1, <3>1 DEF ParseDocumentChange
    <3>2. CASE e.id \notin Ignored
      BY <1>6, <2>1, <3>2 DEF ParseDocumentChange, Phases
    <3> QED BY <3>1, <3>2
  <2>2. CASE AcquirePermit(e) \/ AcquireLock(e)
    BY <1>6, <2>2 DEF AcquirePermit, AcquireLock, Phases
  <2>3. CASE CheckIsChangeRequired(e)
    <3>1. PICK required \in IsRequired(e) : Move(e, IF required THEN "apply" ELSE "leave")
      BY <2>3 DEF CheckIsChangeRequired
    <3>2. CASE required
      BY <1>6, <3>1, <3>2 DEF Phases
    <3>3. CASE ~required
      <4>1. ~(e.rev >= latest[e.id]) \/ MayFail
        BY <3>1, <3>3 DEF IsRequired, MayFail
      <4>2. latest' = latest /\ e.rev \in Nat /\ e.id \in Docs
        BY <1>t, <2>3 DEF CheckIsChangeRequired, db, Entry, Rev
      <4>3. latest'[e.id] > e.rev \/ MayFail
        BY <1>t, <4>1, <4>2
      <4> QED BY <1>7, <3>1, <3>3, <4>3
    <3> QED BY <3>2, <3>3
  <2>4. CASE ApplyToStorage(e)
    <3>1. /\ Move(e, "leave")
          /\ reached' = [reached EXCEPT ![e.id] = IF @ < e.rev THEN e.rev ELSE @] \/ MayFail
      BY <2>4 DEF ApplyToStorage, MayFail
    <3>2. reached'[e.id] >= e.rev \/ MayFail
      BY <1>t, <3>1 DEF Entry, Rev
    <3> QED BY <1>7, <3>1, <3>2
  <2>5. CASE LeaveProcessing(e)
    BY <1>4, <2>5 DEF LeaveProcessing
  <2> QED BY <1>9, <2>1, <2>2, <2>3, <2>4, <2>5 DEF Document
<1>10. CASE RestoreFromSnapshot \/ Crash
  BY <1>4, <1>10 DEF RestoreFromSnapshot, Crash, Started
<1>11. CASE ~EnqueueChange /\ ~RunProcessQueue /\ ~(\E e \in pending : Document(e)) /\ ~RestoreFromSnapshot /\ ~Crash
  <2>1. pending' = pending
    BY <1>11 DEF Next, Turn, OnDatabaseInitialized, OnReady, RestoreFails, SnapshotSettles, TakeSnapshot,
           Replicate, ParseReplicationResult, ActivitySettles, Toggle, SettingSaved, vars
  <2> QED BY <1>4, <2>1
<1> QED BY <1>5, <1>8, <1>9, <1>10, <1>11

SafeInv == TypeInv /\ OrderInv /\ QueueInv /\ SnapshotsChain

LEMMA Safe == Spec => []SafeInv
<1>1. Init => SafeInv
  BY InitType, InitOrder, InitQueue DEF SafeInv
<1>2. SafeInv /\ [Next]_vars => SafeInv'
  BY TypeStep, OrderStep, QueueStep, ChainStep DEF SafeInv, NextWithRefilter
<1> QED BY <1>1, <1>2, PTL DEF Spec

LEMMA SnapshotStep ==
    SafeInv /\ [Next]_vars => [\A c \in snapshot : CoveredBy(c, snapshot') \/ settled[c.id] >= c.rev]_vars
<1> SUFFICES ASSUME SafeInv, Next, NEW c \in snapshot, ~(settled[c.id] >= c.rev)
             PROVE  CoveredBy(c, snapshot')
  OBVIOUS
<1>1. CASE snapshot' = snapshot
  BY <1>1 DEF SafeInv, TypeInv, KvType, FiniteChanges, Change, Rev, CoveredBy
<1>2. CASE SnapshotSettles /\ snapshot' # snapshot
  <2>1. kvOps # <<>> /\ Head(kvOps).op = "put" /\ snapshot' = Head(kvOps).data
    BY <1>2 DEF SnapshotSettles
  <2>2. Head(kvOps) = kvOps[1] /\ 1 \in 1..Len(kvOps)
    BY <2>1, OpCompleted DEF SafeInv, TypeInv, KvType
  <2>3. restore = "done"
    BY <2>1, <2>2 DEF SafeInv, QueueInv, ReadOnce
  <2>4. Survive(settled, snapshot, kvOps[1].data)
    BY <2>2, <2>3 DEF SafeInv, SnapshotsChain
  <2> QED BY <2>1, <2>2, <2>4 DEF Survive
<1>3. snapshot' = snapshot \/ SnapshotSettles
  BY DEF Next, Turn, EnqueueChange, OnDatabaseInitialized, OnReady, RestoreFromSnapshot, RestoreFails,
         TakeSnapshot, Replicate, ParseReplicationResult, RunProcessQueue, Document, ParseDocumentChange,
         AcquirePermit, AcquireLock, CheckIsChangeRequired, ApplyToStorage, LeaveProcessing, ActivitySettles,
         Toggle, SettingSaved, Crash, kv
<1> QED BY <1>1, <1>2, <1>3

\* A change leaves the stored snapshot only settled, or for a newer one: for
\* any number of snapshots in flight, of permits, of failed writes and of restarts.
THEOREM SnapshotsForgetNothing == Spec => SnapshotKeepsUnsettled
BY Safe, SnapshotStep, PTL DEF Spec, SnapshotKeepsUnsettled

LEMMA NewestStep == SafeInv /\ SafeInv' /\ NewestIsPending /\ [Next]_vars => NewestIsPending'
<1> SUFFICES ASSUME SafeInv, SafeInv', NewestIsPending, [Next]_vars,
                    NEW d \in Docs, crashes' = 0, settled'[d] < delivered'[d]
             PROVE  \E c \in Memory' : c.id = d /\ c.rev >= delivered'[d]
  BY DEF NewestIsPending, Memory
<1>t. /\ delivered \in [Docs -> Nat] /\ settled \in [Docs -> Nat] /\ settled' \in [Docs -> Nat]
      /\ delivered' \in [Docs -> Nat] /\ crashes \in Nat
  BY DEF SafeInv, TypeInv, DbType, BookType
<1>r. \A c \in Memory \cup Memory' : c.id \in Docs /\ c.rev \in Nat
  BY DEF SafeInv, TypeInv, QueueType, FiniteChanges, Change, Entry, Rev, Memory
<1>1. ~Crash
  BY <1>t DEF Crash
<1>2. crashes = 0
  BY <1>1 DEF Next, Turn, EnqueueChange, OnDatabaseInitialized, OnReady, RestoreFromSnapshot, RestoreFails,
       SnapshotSettles, TakeSnapshot, Replicate, ParseReplicationResult, RunProcessQueue, Document,
       ParseDocumentChange, AcquirePermit, AcquireLock, CheckIsChangeRequired, ApplyToStorage,
       LeaveProcessing, ActivitySettles, Toggle, SettingSaved, vars, boot
<1>3. delivered' = delivered \/ \E x \in Docs : ParseReplicationResult(x)
  BY <1>1 DEF Next, Turn, EnqueueChange, OnDatabaseInitialized, OnReady, RestoreFromSnapshot, RestoreFails,
       SnapshotSettles, TakeSnapshot, Replicate, RunProcessQueue, Document,
       ParseDocumentChange, AcquirePermit, AcquireLock, CheckIsChangeRequired, ApplyToStorage,
       LeaveProcessing, ActivitySettles, Toggle, SettingSaved, vars, db
<1>4. CASE ParseReplicationResult(d)
  <2>1. delivered' = [delivered EXCEPT ![d] = @ + 1] /\ inbox' = {[id |-> d, rev |-> delivered[d] + 1, at |-> 1]}
    BY <1>4 DEF ParseReplicationResult
  <2>2. delivered'[d] = delivered[d] + 1 /\ delivered[d] \in Nat
    BY <1>t, <2>1
  <2> DEFINE c == [id |-> d, rev |-> delivered[d] + 1, at |-> 1]
  <2>3. c \in Memory' /\ c.id = d /\ c.rev = delivered'[d]
    BY <2>1, <2>2 DEF Memory
  <2>4. c.rev >= delivered'[d]
    BY <2>2, <2>3
  <2> HIDE DEF c
  <2> QED BY <2>3, <2>4
<1>5. CASE delivered'[d] = delivered[d]
  <2>1. Grows(settled, settled') /\ Survive(settled', Memory, Memory')
    BY <1>1, MemoryStep DEF SafeInv, MemoryKept
  <2>2. settled[d] < delivered[d]
    BY <1>5, <1>t, <2>1 DEF Grows
  <2>3. PICK c \in Memory : c.id = d /\ c.rev >= delivered[d]
    BY <1>2, <2>2 DEF NewestIsPending, Memory
  <2>4. ~(settled'[c.id] >= c.rev)
    BY <1>5, <1>t, <1>r, <2>3
  <2>5. PICK e \in Memory' : e.id = c.id /\ e.rev >= c.rev
    BY <2>1, <2>4 DEF Survive, CoveredBy
  <2> QED BY <1>5, <1>t, <1>r, <2>3, <2>5
<1>6. delivered'[d] = delivered[d] \/ ParseReplicationResult(d)
  BY <1>3, <1>t DEF ParseReplicationResult
<1> QED BY <1>4, <1>5, <1>6

\* Until the first restart, the newest revision that was handed over and is not
\* settled is in memory, whatever was replaced, skipped or restored.
THEOREM NewestIsKept == Spec => []NewestIsPending
<1>1. Init => NewestIsPending
  BY DEF Init, NewestIsPending
<1> QED BY <1>1, Safe, NewestStep, PTL DEF Spec

-----------------------------------------------------------------------------
(* The loop and the activity follow the queue, the suspensions and the      *)
(* saves, changes of the reflection filter included.                        *)

\* NoLostWakeup also between two rounds of enqueueAll.
LoopFollowsQueue == Queued(pending) # {} /\ ~IsSuspended /\ ~saveDue => running

WorkInv == TypeInv /\ LoopFollowsQueue /\ ActivityCoversWork

\* The activity after an update covers the work that is left.
LEMMA UpdatedCovers ==
    ASSUME NEW a, NEW s, NEW h, ~s, h
    PROVE  UpdatedActivity(a, s, h) # "none"
BY DEF UpdatedActivity

LEMMA UpdateKeeps ==
    ASSUME NEW a, NEW s, NEW h, a # "none"
    PROVE  UpdatedActivity(a, s, h) # "none"
BY DEF UpdatedActivity

LEMMA WorkStep == WorkInv /\ [NextWithRefilter]_vars => WorkInv'
<1> SUFFICES ASSUME WorkInv, [NextWithRefilter]_vars PROVE LoopFollowsQueue' /\ ActivityCoversWork'
  BY TypeStep DEF WorkInv
<1>t. /\ pending \in SUBSET Entry /\ IsFiniteSet(pending) /\ inbox \in SUBSET Change
      /\ running \in BOOLEAN /\ activity \in {"none", "open", "closing"}
  BY DEF WorkInv, TypeInv, QueueType, FlagType, FiniteChanges
<1>1. ASSUME UNCHANGED pause, Queued(pending') \subseteq Queued(pending), running' = running
      PROVE  LoopFollowsQueue'
  <2>1. IsSuspended' = IsSuspended /\ saveDue' = saveDue
    BY <1>1 DEF pause, IsSuspended, IsSuspendedWith
  <2>2. Queued(pending') # {} => Queued(pending) # {}
    BY <1>1
  <2> QED BY <1>1, <2>1, <2>2 DEF WorkInv, LoopFollowsQueue
<1>2. ASSUME UNCHANGED pause, pending' # {} => pending # {}, activity # "none" => activity' # "none"
      PROVE  ActivityCoversWork'
  <2>1. IsSuspended' = IsSuspended /\ saveDue' = saveDue
    BY <1>2 DEF pause, IsSuspended, IsSuspendedWith
  <2> QED BY <1>2, <2>1 DEF WorkInv, ActivityCoversWork
<1>3. CASE OnDatabaseInitialized \/ OnReady \/ RestoreFails \/ TakeSnapshot
           \/ (\E d \in Docs : Replicate(d)) \/ (\E d \in Docs : ParseReplicationResult(d))
           \/ (\E d \in unread : ReprocessRead(d)) \/ ReprocessRest \/ UNCHANGED vars
  <2>1. UNCHANGED <<pending, running, pause, activity>>
    BY <1>3 DEF OnDatabaseInitialized, OnReady, RestoreFails, TakeSnapshot, Replicate, ParseReplicationResult,
       ReprocessRead, ReprocessRest, vars
  <2> QED BY <1>1, <1>2, <2>1
<1>4. CASE RestoreFromSnapshot
  <2>1. pending' = Started(pending) /\ UNCHANGED <<running, pause, activity>>
    BY <1>4 DEF RestoreFromSnapshot
  <2>2. pending' \subseteq pending /\ Queued(pending') = {}
    BY <2>1 DEF Started, Queued
  <2> QED BY <1>1, <1>2, <2>1, <2>2
<1>5. CASE SnapshotSettles
  <2>1. UNCHANGED <<pending, running, pause>>
    BY <1>5 DEF SnapshotSettles
  <2>2. activity # "none" => activity' # "none"
    BY <1>5, UpdateKeeps DEF SnapshotSettles
  <2> QED BY <1>1, <1>2, <2>1, <2>2
<1>6. CASE EnqueueChange
  <2> DEFINE c == First(inbox)
             queue == QueueAfter(c, Queued(pending))
             new == [id |-> c.id, rev |-> c.rev, at |-> NextAt(pending), pc |-> "queued"]
  <2>1. UNCHANGED pause
    BY <1>6 DEF EnqueueChange
  <2>2. CASE AlreadyQueued(c)
    BY <1>1, <1>2, <1>6, <2>1, <2>2 DEF EnqueueChange
  <2>3. CASE ~AlreadyQueued(c)
    <3>1. /\ activity' = UpdatedActivity(activity, IsSuspended, TRUE)
          /\ running' = LoopEntered(IsSuspended, queue)
      BY <1>6, <2>3 DEF EnqueueChange
    <3>2. new \in queue
      BY DEF QueueAfter
    <3> HIDE DEF queue, new, c
    <3>3. IsSuspended' = IsSuspended
      BY <2>1 DEF pause, IsSuspended, IsSuspendedWith
    <3>4. ~IsSuspended => running' /\ activity' # "none"
      BY <3>1, <3>2, UpdatedCovers DEF LoopEntered
    <3> QED BY <3>3, <3>4 DEF LoopFollowsQueue, ActivityCoversWork
  <2> QED BY <2>2, <2>3
<1>7. CASE RunProcessQueue
  <2> DEFINE queue == Queued(pending)
  <2>1. UNCHANGED <<pause, activity>>
    BY <1>7 DEF RunProcessQueue
  <2>2. IsSuspended' = IsSuspended
    BY <2>1 DEF pause, IsSuspended, IsSuspendedWith
  <2>3. CASE queue = {}
    <3>1. pending' = pending
      BY <1>7, <2>3 DEF RunProcessQueue
    <3> QED BY <1>2, <2>1, <2>3, <3>1 DEF LoopFollowsQueue
  <2>4. CASE queue # {}
    <3> DEFINE e == First(queue)
    <3>1. e \in pending /\ e \in queue
      BY <1>t, <2>4, QueuedIsFinite, FirstIsMember DEF Queued
    <3>2. Move(e, "parsing") /\ running' = (queue # {e} /\ ~IsSuspended)
      BY <1>7, <2>4 DEF RunProcessQueue
    <3>3. At(e, "parsing").pc = "parsing"
      BY <1>t, <3>1 DEF At, Entry
    <3> HIDE DEF e
    <3>4. Queued(pending') \subseteq queue \ {e}
      BY <3>2, <3>3 DEF Move, Queued
    <3>5. Queued(pending') # {} => queue # {e}
      BY <3>4
    <3>6. LoopFollowsQueue'
      BY <2>2, <3>2, <3>5 DEF LoopFollowsQueue
    <3> QED BY <1>2, <2>1, <3>1, <3>6
  <2> QED BY <2>3, <2>4
<1>8. ASSUME NEW e \in pending, NEW pc \in Phases \ {"queued"}, Move(e, pc), UNCHANGED <<running, pause, activity>>
      PROVE  LoopFollowsQueue' /\ ActivityCoversWork'
  <2>1. At(e, pc).pc = pc
    BY <1>t DEF At, Entry
  <2>2. Queued(pending') \subseteq Queued(pending)
    BY <1>8, <2>1 DEF Move, Queued
  <2> QED BY <1>1, <1>2, <1>8, <2>2
<1>9. ASSUME NEW e \in pending, Document(e) PROVE LoopFollowsQueue' /\ ActivityCoversWork'
  <2>1. CASE ~LeaveProcessing(e)
    <3>1. UNCHANGED <<running, pause, activity>> /\ \E pc \in Phases \ {"queued"} : Move(e, pc)
      BY <1>9, <2>1 DEF Document, ParseDocumentChange, AcquirePermit, AcquireLock, CheckIsChangeRequired,
         ApplyToStorage, Phases
    <3> QED BY <1>8, <3>1
  <2>2. CASE LeaveProcessing(e)
    <3>1. pending' = pending \ {e} /\ UNCHANGED <<running, pause>>
      BY <2>2 DEF LeaveProcessing
    <3>2. Queued(pending') \subseteq Queued(pending)
      BY <3>1 DEF Queued
    <3>3. activity # "none" => activity' # "none"
      BY <2>2, UpdateKeeps DEF LeaveProcessing
    <3> QED BY <1>1, <1>2, <3>1, <3>2, <3>3
  <2> QED BY <2>1, <2>2
<1>10. CASE ActivitySettles
  <2>1. UNCHANGED <<pending, running, pause>> /\ activity' = UpdatedActivity("none", IsSuspended, pending # {})
    BY <1>10 DEF ActivitySettles
  <2>2. IsSuspended' = IsSuspended
    BY <2>1 DEF pause, IsSuspended, IsSuspendedWith
  <2>3. ActivityCoversWork'
    <3>1. pending # {} /\ ~IsSuspended => activity' # "none"
      BY <2>1, UpdatedCovers
    <3> QED BY <2>1, <2>2, <3>1 DEF ActivityCoversWork
  <2> QED BY <1>1, <2>1, <2>3
<1>11. CASE \E k \in PauseKinds : Toggle(k)
  BY <1>11 DEF Toggle, LoopFollowsQueue, ActivityCoversWork
<1>12. CASE SettingSaved \/ FilterSaved
  <2>1. SuspendOrResume /\ UNCHANGED <<pending, paused>>
    BY <1>12 DEF SettingSaved, FilterSaved
  <2> DEFINE s == IsSuspendedWith(suspended', paused)
  <2>2. IsSuspended' = s
    BY <2>1 DEF IsSuspended, IsSuspendedWith
  <2>3. suspended' => s
    BY DEF IsSuspendedWith
  <2>4. ~s /\ Queued(pending) # {} => running'
    <3>1. ~suspended' => running' = LoopEntered(s, Queued(pending))
      BY <2>1 DEF SuspendOrResume
    <3> HIDE DEF s
    <3> QED BY <2>3, <3>1 DEF LoopEntered
  <2>5. ~s /\ pending # {} => activity' # "none"
    <3>1. activity' = UpdatedActivity(activity, s, pending # {})
      BY <2>1 DEF SuspendOrResume
    <3> HIDE DEF s
    <3> QED BY <3>1, UpdatedCovers
  <2> HIDE DEF s
  <2> QED BY <2>1, <2>2, <2>4, <2>5 DEF LoopFollowsQueue, ActivityCoversWork
<1>13. CASE Crash
  <2>1. pending' = {}
    BY <1>13 DEF Crash
  <2> QED BY <2>1 DEF LoopFollowsQueue, ActivityCoversWork, Queued
<1> QED
  BY <1>3, <1>4, <1>5, <1>6, <1>7, <1>9, <1>10, <1>11, <1>12, <1>13 DEF NextWithRefilter, Next, Turn, Refilter

LEMMA Works == SpecWithRefilter => []WorkInv
<1>1. Init => WorkInv
  <2>1. Init => LoopFollowsQueue /\ ActivityCoversWork
    BY DEF Init, LoopFollowsQueue, ActivityCoversWork, Queued
  <2> QED BY <2>1, InitType DEF WorkInv
<1> QED BY <1>1, WorkStep, PTL DEF SpecWithRefilter

\* No enqueueing, suspension, resumption or end of the loop, in whatever order,
\* leaves queued changes without their loop.
THEOREM LoopIsAwake == SpecWithRefilter => []NoLostWakeup
<1>1. WorkInv => NoLostWakeup
  BY DEF WorkInv, LoopFollowsQueue, NoLostWakeup
<1> QED BY <1>1, Works, PTL

\* The activity that keeps the application from being suspended is held while
\* there is work that may be done.
THEOREM ActivityIsHeld == SpecWithRefilter => []ActivityCoversWork
<1>1. WorkInv => ActivityCoversWork
  BY DEF WorkInv
<1> QED BY <1>1, Works, PTL

-----------------------------------------------------------------------------
(* The processor implements ReflectionLedger: every step is one of the      *)
(* ledger's or leaves what the ledger shows as it was.                      *)

LEMMA PlainOfChanges ==
    ASSUME NEW S \in SUBSET Change
    PROVE  Plain(S) = S
<1>1. \A c \in S : [id |-> c.id, rev |-> c.rev, at |-> c.at] = c
  BY DEF Change
<1> QED BY <1>1 DEF Plain

LEMMA LedgerInit == Init => Ledger!Init
BY DEF Init, Ledger!Init, Plain

\* The steps the ledger does not see.
LEMMA LedgerStutters ==
    ASSUME UNCHANGED <<latest, handed, reached, settled, snapshot>>
    PROVE  UNCHANGED Ledger!vars
BY DEF Ledger!vars

LEMMA LedgerStep == SafeInv /\ SafeInv' /\ LeavesForReason /\ [Next]_vars => [Ledger!Next]_(Ledger!vars)
<1> SUFFICES ASSUME SafeInv, SafeInv', LeavesForReason, [Next]_vars
             PROVE  Ledger!Next \/ UNCHANGED Ledger!vars
  OBVIOUS
<1>t. /\ latest \in [Docs -> Nat] /\ handed \in [Docs -> Nat] /\ settled \in [Docs -> Nat]
      /\ snapshot \in SUBSET Change /\ snapshot' \in SUBSET Change /\ pending \in SUBSET Entry
  BY DEF SafeInv, TypeInv, DbType, BookType, KvType, QueueType, FiniteChanges
<1>k. \A e \in pending : e.id \in Docs /\ e.rev \in 1..latest[e.id]
  BY <1>t DEF SafeInv, OrderInv, RevisionsKnown, Known, Entry, Rev
<1>1. ASSUME NEW d \in Docs, Replicate(d) PROVE Ledger!Next
  <2>1. latest' = [latest EXCEPT ![d] = @ + 1] /\ UNCHANGED <<handed, reached, settled, snapshot>>
    BY <1>1 DEF Replicate, kv
  <2>2. Ledger!Arrive(d)
    BY <2>1 DEF Ledger!Arrive
  <2> QED BY <2>2 DEF Ledger!Next
<1>2. ASSUME NEW e \in pending, ApplyToStorage(e) PROVE Ledger!Next \/ UNCHANGED Ledger!vars
  <2>1. /\ e.pc = "apply" /\ UNCHANGED <<latest, settled, snapshot>>
        /\ \/ /\ handed' = [handed EXCEPT ![e.id] = e.rev]
              /\ reached' = [reached EXCEPT ![e.id] = IF @ < e.rev THEN e.rev ELSE @]
           \/ UNCHANGED <<handed, reached>>
    BY <1>2 DEF ApplyToStorage, db, kv
  <2>2. \/ handed[e.id] <= e.rev
        \/ e.id \in Conflicting
        \/ \E r \in handed[e.id]..latest[e.id] : <<e.id, r>> \in Removed
    BY <2>1 DEF SafeInv, OrderInv, AppliedIsNewest, RemovedSince
  <2>3. e.id \in Docs /\ e.rev \in 1..latest[e.id] /\ e.rev <= latest[e.id]
    BY <1>k, <1>t
  <2>4. CASE UNCHANGED <<handed, reached>>
    BY <2>1, <2>4, LedgerStutters
  <2>5. CASE ~UNCHANGED <<handed, reached>>
    <3>1. Ledger!Reflect(e.id, e.rev)
      BY <2>1, <2>2, <2>3, <2>5 DEF Ledger!Reflect
    <3> QED BY <2>3, <3>1 DEF Ledger!Next
  <2> QED BY <2>4, <2>5
<1>3. ASSUME NEW e \in pending, LeaveProcessing(e) PROVE Ledger!Next \/ UNCHANGED Ledger!vars
  <2>1. /\ settled' = [settled EXCEPT ![e.id] = IF @ < e.rev THEN e.rev ELSE @] /\ e.pc = "leave"
        /\ UNCHANGED <<latest, handed, reached, snapshot>>
    BY <1>3 DEF LeaveProcessing, db
  <2>2. e.id \in Docs /\ e.rev \in 1..latest[e.id] /\ settled[e.id] \in Nat /\ latest[e.id] \in Nat
    BY <1>k, <1>t
  <2>3. reached[e.id] >= e.rev \/ latest[e.id] > e.rev \/ e.id \in Ignored \/ MayFail
    BY <2>1 DEF LeavesForReason
  <2>4. CASE settled[e.id] < e.rev
    <3>1. settled' = [settled EXCEPT ![e.id] = e.rev]
      BY <2>1, <2>4
    <3>2. Ledger!Settle(e.id, e.rev)
      BY <2>1, <2>3, <2>4, <3>1 DEF Ledger!Settle, MayFail
    <3> QED BY <2>2, <3>2 DEF Ledger!Next
  <2>5. CASE ~(settled[e.id] < e.rev)
    <3>1. settled' = settled
      BY <1>t, <2>1, <2>5
    <3> QED BY <2>1, <3>1, LedgerStutters
  <2> QED BY <2>4, <2>5
<1>4. ASSUME UNCHANGED <<latest, handed, reached, settled>>, snapshot' # snapshot, Next PROVE Ledger!Next
  <2>1. \A c \in snapshot : CoveredBy(c, snapshot') \/ settled[c.id] >= c.rev
    BY <1>4, SnapshotStep DEF vars, kv
  <2>2. \A c \in snapshot' : c.rev <= latest[c.id]
    <3>1. Known(snapshot', latest')
      BY DEF SafeInv, OrderInv, RevisionsKnown
    <3> QED BY <1>4, <3>1 DEF Known
  <2>3. Plain(snapshot) = snapshot /\ Plain(snapshot') = snapshot'
    BY <1>t, PlainOfChanges
  <2>4. Ledger!Record
    BY <1>4, <2>1, <2>2, <2>3 DEF Ledger!Record, CoveredBy
  <2> QED BY <2>4 DEF Ledger!Next
<1>5. ASSUME UNCHANGED <<latest, handed, reached, settled>> PROVE Ledger!Next \/ UNCHANGED Ledger!vars
  <2>1. CASE snapshot' = snapshot
    BY <1>5, <2>1, LedgerStutters
  <2>2. CASE snapshot' # snapshot
    <3>1. Next
      BY <2>2 DEF vars, kv
    <3> QED BY <1>4, <1>5, <2>2, <3>1
  <2> QED BY <2>1, <2>2
<1>6. \/ UNCHANGED <<latest, handed, reached, settled>>
      \/ \E d \in Docs : Replicate(d)
      \/ \E e \in pending : ApplyToStorage(e) \/ LeaveProcessing(e)
  BY DEF Next, Turn, EnqueueChange, OnDatabaseInitialized, OnReady, RestoreFromSnapshot, RestoreFails,
         SnapshotSettles, TakeSnapshot, ParseReplicationResult, RunProcessQueue, Document,
         ParseDocumentChange, AcquirePermit, AcquireLock, CheckIsChangeRequired,
         ActivitySettles, Toggle, SettingSaved, Crash, vars, db
<1> QED BY <1>1, <1>2, <1>3, <1>5, <1>6

\* What the processor promises the rest of the system holds for any documents,
\* deletions, removals, branches, failures and restarts: the vault goes back
\* only past a removal or for a document with branches, and a change is
\* settled only when it was handed over, superseded, not to be reflected, or
\* given up after a failure.
THEOREM Implementation == Spec => ImplementsLedger
<1>1. Init => SafeInv /\ LeavesForReason
  BY InitType, InitOrder, InitQueue DEF SafeInv
<1>2. SafeInv /\ LeavesForReason /\ [Next]_vars => (SafeInv /\ LeavesForReason)'
  BY TypeStep, OrderStep, QueueStep, ChainStep, LeaveStep DEF SafeInv, NextWithRefilter
<1>3. Spec => [](SafeInv /\ LeavesForReason)
  BY <1>1, <1>2, PTL DEF Spec
<1>4. SafeInv /\ SafeInv' /\ LeavesForReason /\ [Next]_vars => [Ledger!Next]_(Ledger!vars)
  BY LedgerStep
<1> QED BY <1>3, <1>4, LedgerInit, PTL DEF Spec, ImplementsLedger, Ledger!Spec
=============================================================================
