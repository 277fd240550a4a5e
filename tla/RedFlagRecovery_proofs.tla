------------------------ MODULE RedFlagRecovery_proofs ------------------------
(***************************************************************************)
(* Proofs about start-up with flag files, for every set of names and every *)
(* bound.  Each lemma says what one action leaves of the inductive         *)
(* invariant IsolationInv.                                                 *)
(***************************************************************************)
EXTENDS RedFlagRecovery, TLAPS

(* ------------------------------- types --------------------------------- *)

\* Both switches on, or both off.
LEMMA BothType ==
    ASSUME NEW b \in BOOLEAN
    PROVE  Both(b) \in [watch : BOOLEAN, parse : BOOLEAN]
BY DEF Both

\* The start-up begins without flags and with nothing suspended.
LEMMA InitType == Init => TypeOK
<1>1. user = 0 /\ fails = 0 /\ kills = 0 => user \in Nat /\ fails \in Nat /\ kills \in Nat
  OBVIOUS
<1>2. Init => held \in [watch : BOOLEAN, parse : BOOLEAN]
  BY BothType DEF Init
<1>3. QED
  BY <1>1, <1>2 DEF Init, TypeOK, Places

\* A failure, a step of the user and any other step count in the naturals.
LEMMA BoundsType ==
    ASSUME TypeOK, MayFail \/ ByUser \/ UNCHANGED bounds
    PROVE  user' \in Nat /\ fails' \in Nat /\ kills' \in Nat
BY DEF TypeOK, MayFail, ByUser, bounds

\* A handler that cancels saves two Boolean switches and a mode it knows.
LEMMA CancelType ==
    ASSUME TypeOK, NEW j \in {"none", "quick", "detailed", "rebuild"},
           NEW mode \in {"no", "now", "before"}, Cancel(j, mode)
    PROVE  TypeOK'
BY DEF TypeOK, Cancel, Goto, Places, Both, bounds

\* The cleanup leaves a subset of the flag files.
LEMMA CleanupType ==
    ASSUME TypeOK, NEW next \in Places, Cleanup(next)
    PROVE  TypeOK'
<1>1. PICK stay \in SUBSET (Files(job) \cap flags) :
         /\ flags' = (flags \ Files(job)) \cup stay
         /\ IF stay = {} THEN UNCHANGED bounds ELSE MayFail
  BY DEF Cleanup
<1>2. flags' \subseteq FlagFiles
  BY <1>1 DEF TypeOK
<1>3. user' \in Nat /\ fails' \in Nat /\ kills' \in Nat
  BY <1>1 DEF TypeOK, bounds, MayFail
<1>4. QED
  BY <1>2, <1>3 DEF TypeOK, Cleanup, Goto

\* The handlers and what they ask, up to processVaultInitialisation.
LEMMA HandlerType ==
    ASSUME TypeOK,
           Start \/ HandleSuspend \/ HandleFetch \/ AskMode \/ HandleRebuild \/ AskDetails \/ Adjust
    PROVE  TypeOK'
<1>1. CASE Start
  BY <1>1 DEF TypeOK, Start, Goto, Places, bounds
<1>2. CASE HandleSuspend
  BY <1>2 DEF TypeOK, HandleSuspend, Goto, Places, bounds
<1>3. CASE HandleFetch
  <2>1. CASE Cancel("quick", chosen)
    BY <2>1, CancelType DEF TypeOK
  <2>2. CASE ~Cancel("quick", chosen)
    BY <1>3, <2>2 DEF TypeOK, HandleFetch, Goto, Places, bounds
  <2>3. QED
    BY <2>1, <2>2
<1>4. CASE AskMode
  <2>1. CASE Cancel("quick", "no")
    BY <2>1, CancelType
  <2>2. CASE ~Cancel("quick", "no")
    BY <1>4, <2>2 DEF TypeOK, AskMode, Goto, ByUser, Places, bounds
  <2>3. QED
    BY <2>1, <2>2
<1>5. CASE HandleRebuild
  BY <1>5 DEF TypeOK, HandleRebuild, Goto, Places, bounds
<1>6. CASE AskDetails
  <2>1. CASE Cancel(job, chosen)
    BY <2>1, CancelType DEF TypeOK
  <2>2. CASE ~Cancel(job, chosen)
    BY <1>6, <2>2 DEF TypeOK, AskDetails, Goto, Places, bounds
  <2>3. QED
    BY <2>1, <2>2
<1>7. CASE Adjust
  <2> DEFINE mode == IF job = "quick" THEN "no" ELSE chosen
  <2>1. CASE Cancel(job, mode)
    BY <2>1, CancelType DEF TypeOK
  <2>2. CASE ~Cancel(job, mode)
    BY <1>7, <2>2 DEF TypeOK, Adjust, Goto, Places, bounds
  <2>3. QED
    BY <2>1, <2>2
<1>8. QED
  BY <1>1, <1>2, <1>3, <1>4, <1>5, <1>6, <1>7

\* The steps of an operation and its cleanup.
LEMMA OperationType ==
    ASSUME TypeOK,
           Drop \/ Begin \/ Reset \/ Load \/ Throw \/ Scan \/ AskProblems \/ Finish \/ Clean \/ Forget
    PROVE  TypeOK'
<1>1. CASE Drop
  BY <1>1, CleanupType DEF Drop, Places
<1>2. CASE Begin
  BY <1>2 DEF TypeOK, Begin, Goto, Places, Both, bounds
<1>3. CASE Reset
  BY <1>3 DEF TypeOK, Reset, Goto, Places, Both, Operation, Pending, bounds
<1>4. CASE Load
  BY <1>4 DEF TypeOK, Load, Goto, Places, bounds
<1>5. CASE Throw
  BY <1>5, BoundsType DEF TypeOK, Throw, Goto, Places
<1>6. CASE Scan
  BY <1>6 DEF TypeOK, Scan, MayFail, Goto, Places, bounds
<1>7. CASE AskProblems
  BY <1>7, BoundsType DEF TypeOK, AskProblems, Goto, Places
<1>8. CASE Finish
  <2>1. user' \in Nat /\ fails' \in Nat /\ kills' \in Nat
    BY <1>8, BoundsType DEF Finish
  <2>2. held' \in [watch : BOOLEAN, parse : BOOLEAN]
    BY <1>8, BothType DEF Finish, TypeOK
  <2>3. QED
    BY <1>8, <2>1, <2>2 DEF TypeOK, Finish, Goto, Places
<1>9. CASE Clean
  BY <1>9, CleanupType DEF Clean, Places
<1>10. CASE Forget
  BY <1>10 DEF TypeOK, Forget, Goto, Places, bounds
<1>11. QED
  BY <1>1, <1>2, <1>3, <1>4, <1>5, <1>6, <1>7, <1>8, <1>9, <1>10

\* The end of start-up, the user and kills.
LEMMA OutsideType ==
    ASSUME TypeOK,
           \/ Final \/ Unlock \/ Main \/ Kill
           \/ \E f \in FlagFiles : Place(f) \/ RemoveByHand(f)
    PROVE  TypeOK'
<1>1. CASE Final
  BY <1>1 DEF TypeOK, Final, Goto, Places, Both, bounds
<1>2. CASE Unlock
  BY <1>2 DEF TypeOK, Unlock, Goto, Places, bounds
<1>3. CASE Main
  <2>1. user' \in Nat /\ fails' \in Nat /\ kills' \in Nat
    BY <1>3, BoundsType DEF Main
  <2>2. held' \in [watch : BOOLEAN, parse : BOOLEAN] /\ excused' \in BOOLEAN
    BY <1>3, BothType DEF Main, TypeOK
  <2>3. QED
    BY <1>3, <2>1, <2>2 DEF TypeOK, Main, Goto, Places
<1>4. CASE Kill
  BY <1>4 DEF TypeOK, Kill, Goto, Places
<1>5. ASSUME NEW f \in FlagFiles, Place(f) PROVE TypeOK'
  BY <1>5 DEF TypeOK, Place, ByUser, Goto, Places
<1>6. ASSUME NEW f \in FlagFiles, RemoveByHand(f) PROVE TypeOK'
  BY <1>6 DEF TypeOK, RemoveByHand, ByUser
<1>7. QED
  BY <1>1, <1>2, <1>3, <1>4, <1>5, <1>6

LEMMA NextType == TypeOK /\ [Next]_vars => TypeOK'
<1> SUFFICES ASSUME TypeOK, [Next]_vars PROVE TypeOK'
  OBVIOUS
<1>1. CASE UNCHANGED vars
  BY <1>1 DEF TypeOK, vars
<1>2. CASE Next
  BY <1>2, HandlerType, OperationType, OutsideType DEF Next, StartUp
<1>3. QED
  BY <1>1, <1>2

\* Every state of start-up is well typed, whatever the flag files are called.
THEOREM TypeCorrect == Spec => []TypeOK
<1>1. Init => TypeOK
  BY InitType
<1>2. TypeOK /\ [Next]_vars => TypeOK'
  BY NextType
<1>3. QED
  BY <1>1, <1>2, PTL DEF Spec

(* ----------------------------- isolation ------------------------------- *)

\* Whichever operation a job is, its flag files are those of the fetch or of the overwrite.
LEMMA PendingJob == ASSUME NEW j PROVE Pending(j) => Pending("fetch") \/ Pending("rebuild")
BY DEF Pending, Files

\* A cancellation suspends both directions before it takes the flag away.
LEMMA CancelIsolates ==
    ASSUME TypeOK', NEW j, NEW mode, Cancel(j, mode)
    PROVE  IsolationInv'
BY DEF Cancel, Goto, IsolationInv, Guarded, Passed, Scheduled, Completed, Dropped, QuickMode, Excusable

\* The handlers pass an operation on only with its flag in place, and go on to
\* the next handler only when theirs is not pending.
LEMMA HandlerIsolates ==
    ASSUME IsolationInv, TypeOK',
           Start \/ HandleSuspend \/ HandleFetch \/ AskMode \/ HandleRebuild \/ AskDetails \/ Adjust
    PROVE  IsolationInv'
<1> USE DEF IsolationInv, Guarded, Passed, Scheduled, Completed, Dropped, QuickMode, Excusable
<1> DEFINE mode == IF job = "quick" THEN "no" ELSE chosen
<1>1. CASE Start
  BY <1>1 DEF Start, Goto, Pending, Files
<1>2. CASE HandleSuspend
  BY <1>2 DEF HandleSuspend, Goto, Pending, Files, Both, TypeOK
<1>3. CASE HandleFetch
  <2>1. CASE Cancel("quick", chosen)
    BY <2>1, CancelIsolates
  <2>2. CASE ~Cancel("quick", chosen)
    BY <1>3, <2>2 DEF HandleFetch, Goto, Pending, Files
  <2>3. QED
    BY <2>1, <2>2
<1>4. CASE AskMode
  <2>1. CASE Cancel("quick", "no")
    BY <2>1, CancelIsolates
  <2>2. CASE ~Cancel("quick", "no")
    BY <1>4, <2>2 DEF AskMode, Goto, ByUser, Pending, Files
  <2>3. QED
    BY <2>1, <2>2
<1>5. CASE HandleRebuild
  BY <1>5 DEF HandleRebuild, Goto, Pending, Files
<1>6. CASE AskDetails
  <2>1. CASE Cancel(job, chosen)
    BY <2>1, CancelIsolates
  <2>2. CASE ~Cancel(job, chosen)
    BY <1>6, <2>2 DEF AskDetails, Goto, Pending, Files
  <2>3. QED
    BY <2>1, <2>2
<1>7. CASE Adjust
  <2>1. CASE Cancel(job, mode)
    BY <2>1, CancelIsolates
  <2>2. CASE ~Cancel(job, mode)
    BY <1>7, <2>2 DEF Adjust, Goto, Pending, Files
  <2>3. QED
    BY <2>1, <2>2
<1>8. QED
  BY <1>1, <1>2, <1>3, <1>4, <1>5, <1>6, <1>7

\* An operation keeps its flag until it has completed.
LEMMA OperationIsolates ==
    ASSUME IsolationInv, TypeOK',
           Drop \/ Begin \/ Reset \/ Load \/ Throw \/ Scan \/ AskProblems \/ Finish \/ Clean \/ Forget
    PROVE  IsolationInv'
<1> USE PendingJob DEF IsolationInv, Guarded, Passed, Scheduled, Completed, Dropped, QuickMode, Excusable
<1>1. CASE Drop
  BY <1>1 DEF Drop, Cleanup, Goto
<1>2. CASE Begin
  BY <1>2 DEF Begin, Goto, Pending, Files
<1>3. CASE Reset
  BY <1>3 DEF Reset, Goto, Pending, Files
<1>4. CASE Load
  BY <1>4 DEF Load, Goto, Pending, Files
<1>5. CASE Throw
  BY <1>5 DEF Throw, Goto, Pending, Files
<1>6. CASE Scan
  BY <1>6 DEF Scan, Goto, Pending, Files
<1>7. CASE AskProblems
  BY <1>7 DEF AskProblems, Goto, Pending, Files
<1>8. CASE Finish
  BY <1>8 DEF Finish, Goto
<1>9. CASE Clean
  BY <1>9 DEF Clean, Cleanup, Goto
<1>10. CASE Forget
  BY <1>10 DEF Forget, Goto
<1>11. QED
  BY <1>1, <1>2, <1>3, <1>4, <1>5, <1>6, <1>7, <1>8, <1>9, <1>10

\* Releasing the switches needs a complete database or the user, and only the
\* user takes a flag away.
LEMMA OutsideIsolates ==
    ASSUME IsolationInv, TypeOK',
           \/ Final \/ Unlock \/ Main \/ Kill
           \/ \E f \in FlagFiles : Place(f) \/ RemoveByHand(f)
    PROVE  IsolationInv'
<1> USE PendingJob DEF IsolationInv, Guarded, Passed, Scheduled, Completed, Dropped, QuickMode, Excusable
<1>1. CASE Final
  <2>1. CASE ok
    BY <1>1, <2>1 DEF Final, Goto
  <2>2. CASE ~ok
    BY <1>1, <2>2 DEF Final, Goto, Pending, Files
  <2>3. QED
    BY <2>1, <2>2
<1>2. CASE Unlock
  BY <1>2 DEF Unlock, Goto
<1>3. CASE Main
  BY <1>3 DEF Main, Goto
<1>4. CASE Kill
  BY <1>4 DEF Kill, Goto, Pending, Files
<1>5. ASSUME NEW f \in FlagFiles, Place(f) PROVE IsolationInv'
  BY <1>5 DEF Place, Goto, Pending, Files
<1>6. ASSUME NEW f \in FlagFiles, RemoveByHand(f) PROVE IsolationInv'
  <2>1. CASE f = Scram
    BY <1>6, <2>1, FlagAssumption DEF RemoveByHand, Pending, Files
  <2>2. CASE f # Scram
    BY <1>6, <2>2 DEF RemoveByHand
  <2>3. QED
    BY <2>1, <2>2
<1>7. QED
  BY <1>1, <1>2, <1>3, <1>4, <1>5, <1>6

LEMMA InitIsolates == Init => IsolationInv
BY InitType DEF Init, IsolationInv, Guarded, Passed, Scheduled, Completed, Dropped, QuickMode, Excusable

LEMMA NextIsolates == IsolationInv /\ [Next]_vars => IsolationInv'
<1> SUFFICES ASSUME IsolationInv, [Next]_vars PROVE IsolationInv'
  OBVIOUS
<1>1. TypeOK'
  BY NextType DEF IsolationInv
<1>2. CASE UNCHANGED vars
  BY <1>1, <1>2 DEF vars, IsolationInv, Guarded, Passed, Scheduled, Completed, Dropped, QuickMode,
                    Excusable, Pending, Files
<1>3. CASE Next
  BY <1>1, <1>3, HandlerIsolates, OperationIsolates, OutsideIsolates DEF Next, StartUp
<1>4. QED
  BY <1>2, <1>3

\* The guard of an unfinished operation is kept at every step.
THEOREM GuardKept == Spec => []IsolationInv
<1>1. QED
  BY InitIsolates, NextIsolates, PTL DEF Spec

\* Normal operation never starts on a database an operation left partly filled,
\* for any names of the flag files and any number of failures, kills and users' steps.
THEOREM Isolated == Spec => []PartIsIsolated
<1>1. IsolationInv => PartIsIsolated
  BY DEF IsolationInv, Passed, Excusable, PartIsIsolated
<1>2. QED
  BY <1>1, GuardKept, PTL

(* ------------------------------ the flags ------------------------------ *)

\* Only a cleanup and the user remove flag files.
LEMMA OnlyCleanupRemoves ==
    ASSUME IsolationInv, Next, NEW j \in {"fetch", "rebuild"}, Pending(j), ~Pending(j)'
    PROVE  begun = "none" \/ held = Both(TRUE) \/ excused'
<1>1. CASE Drop
  BY <1>1 DEF Drop, IsolationInv, Dropped
<1>2. CASE Clean
  BY <1>2 DEF Clean, IsolationInv, Completed
<1>3. ASSUME NEW f \in FlagFiles, Place(f) PROVE FALSE
  BY <1>3 DEF Place, Pending, Files
<1>4. ASSUME NEW f \in FlagFiles, RemoveByHand(f) PROVE excused'
  <2>1. CASE f = Scram
    BY <1>4, <2>1, FlagAssumption DEF RemoveByHand, Pending, Files
  <2>2. CASE f # Scram
    BY <1>4, <2>2 DEF RemoveByHand
  <2>3. QED
    BY <2>1, <2>2
<1>5. CASE flags' = flags
  BY <1>5 DEF Pending, Files
<1>6. CASE StartUp /\ ~Drop /\ ~Clean
  BY <1>5, <1>6 DEF StartUp, Start, HandleSuspend, HandleFetch, AskMode, HandleRebuild, AskDetails,
       Adjust, Cancel, Begin, Reset, Load, Throw, Scan, AskProblems, Finish, Forget, Final, Unlock, Main
<1>7. CASE Kill
  BY <1>5, <1>7 DEF Kill
<1>8. QED
  BY <1>1, <1>2, <1>3, <1>4, <1>6, <1>7 DEF Next

\* No failure and no kill takes away the flag of an operation that has to be tried again.
THEOREM FlagKept == Spec => FlagOutlivesFailure
<1>1. IsolationInv /\ [Next]_vars =>
        [\A j \in {"fetch", "rebuild"} : Pending(j) /\ ~Pending(j)' =>
           begun = "none" \/ held = Both(TRUE) \/ excused']_vars
  BY OnlyCleanupRemoves
<1>2. QED
  BY <1>1, GuardKept, PTL DEF Spec, FlagOutlivesFailure

=============================================================================
