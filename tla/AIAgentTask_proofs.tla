-------------------------- MODULE AIAgentTask_proofs --------------------------
(***************************************************************************)
(* Proofs about AIAgentTask, for any tasks, any faults and any number of   *)
(* retries, restarts and deactivations.                                    *)
(***************************************************************************)
EXTENDS AIAgentTask, TLAPS

-----------------------------------------------------------------------------
(* The invariant: whatever is on the way, in memory or on the disk says     *)
(* only what the server and the vault bear out.                             *)

Terminal == {"done", "cancelled"}

\* What a record of t says is true, with s the state of the server.
True(r, t, s, stored) ==
    /\ r.status \in Terminal => s[t] = r.status
    /\ r.delivery = "delivered" => t \in stored
    /\ r.known => s[t] # "none"

RecordsAreTrue ==
    \A t \in Tasks : /\ True(task[t], t, srv, acked)
                     /\ True(disk.tasks[t], t, srv, acked)
                     /\ True(loaded.tasks[t], t, srv, acked)

\* The server hears of a task once.
SentOnce ==
    \A t \in Tasks : /\ sends[t] = "sent" => srv[t] = "none"
                     /\ sends[t] = "accepted" => srv[t] # "none"

\* A report is about a task the server has, and an end it reports is one.
ReportsAreTrue ==
    \A p \in pollers : /\ p.key # NoId => srv[p.key] # "none"
                       /\ p.pc \in Statuses => p.key # NoId
                       /\ p.pc \in Terminal => srv[p.key] = p.pc

\* An end that answers a confirmation or a cancellation is the server's.
AnswersAreTrue == \A t \in Tasks : confirms[t] \in Terminal => srv[t] = confirms[t]

\* What a delivery has stored is in the vault.
StoredIsThere ==
    \A d \in deliveries : /\ d.task \in Producing
                          /\ d.pc \in {"stored", "acking"} => file[d.task] = "artifact"

AckedIsThere == \A t \in acked : file[t] = "artifact"

AgentInv ==
    /\ TypeOK /\ RecordsAreTrue /\ SentOnce /\ ReportsAreTrue /\ AnswersAreTrue
    /\ StoredIsThere /\ AckedIsThere

\* Tasks belong to an account, in memory and on the disk.
NoneListed(tasks) == \A t \in Tasks : tasks[t].status = "absent"

TasksHaveAccount ==
    /\ account # "on" => NoneListed(task)
    /\ ~disk.token => NoneListed(disk.tasks)
    /\ ~loaded.token => NoneListed(loaded.tasks)

\* Nothing is sent or polled until the stored tasks are restored.
StartIsQuiet ==
    phase \in {"constructed", "read"} =>
        account = "off" /\ pollers = {} /\ \A t \in Tasks : sends[t] = "none"

AccountRuns == account # "off" => ~stopped

\* The task of a poller of an earlier account is no longer listed.
FormerIsForgotten ==
    \A p \in pollers : p.generation # generation /\ p.key # NoId => ~Listed(p.key)

ReportsAreReadable == \A p \in pollers : p.pc # "garbled"

WatchInv ==
    /\ TasksHaveAccount /\ StartIsQuiet /\ AccountRuns /\ FormerIsForgotten
    /\ ReportsAreReadable /\ UnfinishedIsWatched

-----------------------------------------------------------------------------
(* The types. *)

LEMMA Bounds == NoId \notin Tasks /\ MaxRetries \in Nat /\ 0 \in 0..MaxRetries
<1>1. MaxRetries \in Nat
  BY TasksAssumption
<1>2. NoId \notin Tasks
  BY TasksAssumption
<1>3. 0 \in 0..MaxRetries
  BY <1>1
<1> QED BY <1>1, <1>2, <1>3

LEMMA InitAgent == Init => AgentInv /\ WatchInv /\ OnePollerEach
<1> SUFFICES ASSUME Init PROVE AgentInv /\ WatchInv /\ OnePollerEach
  OBVIOUS
<1>1. Absent \in Record /\ Absent.status = "absent" /\ Absent.known = FALSE /\ Absent.delivery = "none"
  BY DEF Absent, Record, Statuses, Deliveries
<1>2. NoTasks \in [Tasks -> Record] /\ \A t \in Tasks : NoTasks[t] = Absent
  BY <1>1 DEF NoTasks
<1>3. Fresh \in Config /\ Fresh.tasks = NoTasks /\ Fresh.token = FALSE
  BY <1>2 DEF Fresh, Config
<1>4. TypeOK
  BY <1>2, <1>3 DEF Init, TypeOK
<1>5. RecordsAreTrue /\ SentOnce /\ ReportsAreTrue /\ StoredIsThere /\ AckedIsThere
  BY <1>1, <1>2, <1>3 DEF Init, RecordsAreTrue, True, SentOnce, ReportsAreTrue, StoredIsThere, AckedIsThere, Terminal
<1>6. AnswersAreTrue
  BY DEF Init, AnswersAreTrue, Terminal, Unfinished
<1>7. TasksHaveAccount
  BY <1>1, <1>2, <1>3 DEF Init, TasksHaveAccount, NoneListed
<1>8. StartIsQuiet /\ AccountRuns /\ FormerIsForgotten /\ ReportsAreReadable /\ UnfinishedIsWatched /\ OnePollerEach
  BY DEF Init, StartIsQuiet, AccountRuns, FormerIsForgotten, ReportsAreReadable, UnfinishedIsWatched, OnePollerEach
<1> QED BY <1>4, <1>5, <1>6, <1>7, <1>8 DEF AgentInv, WatchInv

\* The records of S change, the others stay.
LEMMA Updated ==
    ASSUME NEW S \in SUBSET Tasks, NEW s \in Statuses, SetStatus(S, s)
    PROVE  /\ task' = [t \in Tasks |-> IF t \in S THEN [task[t] EXCEPT !.status = s] ELSE task[t]]
           /\ saveDue' = TRUE
BY DEF SetStatus, Update

LEMMA DeliverySet ==
    ASSUME NEW k, NEW s \in Deliveries, SetDelivery(k, s)
    PROVE  /\ task' = [t \in Tasks |-> IF t \in WithId(k) THEN [task[t] EXCEPT !.delivery = s] ELSE task[t]]
           /\ saveDue' = TRUE
BY DEF SetDelivery, Update

LEMMA StatusType ==
    ASSUME TypeOK, NEW S \in SUBSET Tasks, NEW s \in Statuses, SetStatus(S, s)
    PROVE  task' \in [Tasks -> Record] /\ saveDue' \in BOOLEAN
<1>1. ASSUME NEW t \in Tasks PROVE [task[t] EXCEPT !.status = s] \in Record
  <2>1. task[t] \in Record
    BY DEF TypeOK
  <2> QED BY <2>1 DEF Record
<1>2. \A t \in Tasks : task[t] \in Record
  BY DEF TypeOK
<1>3. /\ task' = [t \in Tasks |-> IF t \in S THEN [task[t] EXCEPT !.status = s] ELSE task[t]]
      /\ saveDue' = TRUE
  BY Updated
<1> QED BY <1>1, <1>2, <1>3

LEMMA DeliveryType ==
    ASSUME TypeOK, NEW k, NEW s \in Deliveries, SetDelivery(k, s)
    PROVE  task' \in [Tasks -> Record] /\ saveDue' \in BOOLEAN
<1>1. ASSUME NEW t \in Tasks PROVE [task[t] EXCEPT !.delivery = s] \in Record
  <2>1. task[t] \in Record
    BY DEF TypeOK
  <2> QED BY <2>1 DEF Record
<1>2. \A t \in Tasks : task[t] \in Record
  BY DEF TypeOK
<1> QED BY <1>1, <1>2, DeliverySet

LEMMA TaskIdType == \A t \in Tasks : TaskId(t) \in Tasks \cup {NoId}
BY DEF TaskId

LEMMA PollTasksType ==
    ASSUME TypeOK, NEW K \in SUBSET (Tasks \cup {NoId})
    PROVE  /\ PollTasks(K) \subseteq Poller /\ pollers \subseteq PollTasks(K)
           /\ \A p \in PollTasks(K) : p \in pollers \/ (/\ p.key \in K /\ p.pc = "sleep" /\ ~Polled(p.key)
                                                        /\ p.generation = generation)
           /\ \A k \in K : \E p \in PollTasks(K) : p.key = k /\ p.generation = generation
<1> DEFINE new(k) == [key |-> k, generation |-> generation, pc |-> "sleep", retries |-> 0]
<1>1. ASSUME NEW k \in K PROVE new(k) \in Poller
  <2>1. k \in Tasks \cup {NoId}
    OBVIOUS
  <2>2. generation \in Nat
    BY DEF TypeOK
  <2>3. 0 \in 0..MaxRetries
    BY Bounds
  <2> QED BY <2>1, <2>2, <2>3 DEF Poller
<1>2. \A k \in K : new(k).key = k /\ new(k).pc = "sleep" /\ new(k).generation = generation
  OBVIOUS
<1>3. PollTasks(K) = pollers \cup {new(k) : k \in {x \in K : ~Polled(x)}}
  BY DEF PollTasks
<1> HIDE DEF new
<1>4. PollTasks(K) \subseteq Poller /\ pollers \subseteq PollTasks(K)
  BY <1>1, <1>3 DEF TypeOK
<1>5. \A p \in PollTasks(K) : p \in pollers \/ (/\ p.key \in K /\ p.pc = "sleep" /\ ~Polled(p.key)
                                                /\ p.generation = generation)
  BY <1>2, <1>3
<1>6. ASSUME NEW k \in K PROVE \E p \in PollTasks(K) : p.key = k /\ p.generation = generation
  <2>1. CASE Polled(k)
    BY <1>3, <2>1 DEF Polled
  <2>2. CASE ~Polled(k)
    <3>1. new(k) \in PollTasks(K)
      BY <1>3, <2>2
    <3> QED BY <1>2, <3>1
  <2> QED BY <2>1, <2>2
<1> QED BY <1>4, <1>5, <1>6

LEMMA PollerMoves ==
    ASSUME TypeOK, NEW p \in pollers, NEW pc \in {"sleep", "asked"} \cup Answers, NEW r \in 0..MaxRetries,
           MovePoller(p, pc, r)
    PROVE  LET q == [p EXCEPT !.pc = pc, !.retries = r]
           IN  /\ q \in Poller /\ q.key = p.key /\ q.generation = p.generation /\ q.pc = pc
               /\ pollers' = (pollers \ {p}) \cup {q} /\ pollers' \subseteq Poller
BY DEF TypeOK, Poller, MovePoller

LEMMA DeliveryMoves ==
    ASSUME TypeOK, NEW d \in deliveries,
           NEW pc \in {"start", "fetching", "create", "modify", "stored", "acking"}, MoveDelivery(d, pc)
    PROVE  LET e == [d EXCEPT !.pc = pc]
           IN  /\ e \in Delivery /\ e.task = d.task /\ e.pc = pc
               /\ deliveries' = (deliveries \ {d}) \cup {e} /\ deliveries' \subseteq Delivery
BY DEF TypeOK, Delivery, MoveDelivery

\* What the moved poller or delivery keeps.
LEMMA PollersAfterMove ==
    ASSUME TypeOK, NEW p \in pollers, NEW pc, NEW r, MovePoller(p, pc, r)
    PROVE  \A q \in pollers' : \/ q \in pollers
                               \/ q.key = p.key /\ q.generation = p.generation /\ q.pc = pc
<1> DEFINE m == [p EXCEPT !.pc = pc, !.retries = r]
<1>1. p \in Poller
  BY DEF TypeOK
<1>2. m.key = p.key /\ m.generation = p.generation /\ m.pc = pc
  BY <1>1 DEF Poller
<1>3. pollers' = (pollers \ {p}) \cup {m}
  BY DEF MovePoller
<1> HIDE DEF m
<1> QED BY <1>2, <1>3

LEMMA DeliveriesAfterMove ==
    ASSUME TypeOK, NEW d \in deliveries, NEW pc, MoveDelivery(d, pc)
    PROVE  \A e \in deliveries' : e \in deliveries \/ (e.task = d.task /\ e.pc = pc)
<1> DEFINE m == [d EXCEPT !.pc = pc]
<1>1. d \in Delivery
  BY DEF TypeOK
<1>2. m.task = d.task /\ m.pc = pc
  BY <1>1 DEF Delivery
<1>3. deliveries' = (deliveries \ {d}) \cup {m}
  BY DEF MoveDelivery
<1> HIDE DEF m
<1> QED BY <1>2, <1>3

\* What a poller may be answered.
LEMMA AnswerType ==
    ASSUME TypeOK, ReportsAreTrue, NEW p \in pollers, p.key # NoId
    PROVE  /\ p.key \in Tasks /\ Reported(srv[p.key]) \in Statuses
           /\ \A s \in Terminal : Reported(srv[p.key]) = s => srv[p.key] = s
<1>1. p.key \in Tasks
  BY DEF TypeOK, Poller
<1>2. srv[p.key] \in {"running", "awaiting", "executing", "done", "failed", "cancelled"}
  BY <1>1 DEF TypeOK, ReportsAreTrue
<1> QED BY <1>1, <1>2 DEF Reported, Statuses, Terminal

-----------------------------------------------------------------------------
(* What the server ended or was told, and what is in the vault, stays.      *)

WorldKept ==
    /\ \A t \in Tasks : /\ srv[t] # "none" => srv'[t] # "none"
                        /\ srv[t] \in Terminal => srv'[t] = srv[t]
                        /\ file[t] = "artifact" => file'[t] = "artifact"
    /\ acked \subseteq acked'

LEMMA WorldStays ==
    ASSUME UNCHANGED server
    PROVE  WorldKept
BY DEF server, WorldKept

LEMMA SrvMoves ==
    ASSUME TypeOK, UNCHANGED <<acked, file>>, NEW t \in Tasks, srv[t] \in {"none", "running", "awaiting", "executing"},
           NEW s, s # "none", srv' = [srv EXCEPT ![t] = s],
           srv[t] = "executing" => s \in {"done", "failed"}
    PROVE  WorldKept
BY DEF TypeOK, WorldKept, Terminal

LEMMA WorldStep == AgentInv /\ [Next]_vars => WorldKept
<1> SUFFICES ASSUME AgentInv, [Next]_vars PROVE WorldKept
  OBVIOUS
<1>t. srv \in [Tasks -> {"none", "running", "awaiting", "executing", "done", "failed", "cancelled"}]
      /\ file \in [Tasks -> {"absent", "empty", "other", "artifact"}]
  BY DEF AgentInv, TypeOK
<1> USE DEF AgentInv
<1>1. ASSUME NEW t \in Tasks, ServerReceives(t) PROVE WorldKept
  <2>1. CASE srv' = srv
    BY <1>1, <2>1, WorldStays DEF ServerReceives, server
  <2>2. CASE srv' = [srv EXCEPT ![t] = "running"] /\ srv' # srv
    BY <1>1, <2>2, SrvMoves DEF ServerReceives, SentOnce
  <2> QED BY <1>1, <2>1, <2>2 DEF ServerReceives
<1>2. ASSUME NEW t \in Tasks, ServerDecides(t) PROVE WorldKept
  <2>1. UNCHANGED <<acked, file>>
    BY <1>2 DEF ServerDecides
  <2>2. CASE srv' = srv
    BY <2>1, <2>2, WorldStays DEF server
  <2>3. CASE srv' # srv
    <3>1. srv[t] = "awaiting" /\ \E s \in {"done", "executing", "cancelled"} : srv' = [srv EXCEPT ![t] = s]
      BY <1>2, <2>3 DEF ServerDecides
    <3> QED BY <2>1, <3>1, SrvMoves
  <2> QED BY <2>2, <2>3
<1>3. ASSUME NEW t \in Tasks, ServerProgresses(t) \/ ServerExpires(t) PROVE WorldKept
  <2>1. UNCHANGED <<acked, file>>
    BY <1>3 DEF ServerProgresses, ServerExpires
  <2>2. \/ srv[t] \in {"running", "executing"} /\ \E s \in {"done", "failed"} : srv' = [srv EXCEPT ![t] = s]
        \/ srv[t] = "running" /\ srv' = [srv EXCEPT ![t] = "awaiting"]
        \/ srv[t] = "awaiting" /\ srv' = [srv EXCEPT ![t] = "failed"]
    BY <1>3 DEF ServerProgresses, ServerExpires
  <2> QED BY <2>1, <2>2, SrvMoves
<1>4. ASSUME UNCHANGED <<srv, acked>>, \A t \in Tasks : file[t] = "artifact" => file'[t] = "artifact"
      PROVE  WorldKept
  BY <1>4 DEF WorldKept
<1>5. ASSUME NEW t \in Tasks, FileTouched(t) PROVE WorldKept
  BY <1>4, <1>5, <1>t DEF FileTouched
<1>6. ASSUME NEW d \in deliveries, Deliver(d) PROVE WorldKept
  <2>1. CASE WriterCreates(d) \/ WriterModifies(d)
    BY <1>4, <1>t, <2>1 DEF WriterCreates, WriterModifies
  <2>2. CASE AckAnswered(d)
    BY <2>2 DEF AckAnswered, WorldKept
  <2>3. CASE DeliveryStarts(d) \/ DeliveryFails(d) \/ WriterLooks(d) \/ DeliveryAcks(d)
    BY <2>3, WorldStays DEF DeliveryStarts, DeliveryFails, WriterLooks, DeliveryAcks
  <2> QED BY <1>6, <2>1, <2>2, <2>3 DEF Deliver
<1>7. ASSUME NEW p \in pollers, Poll(p) PROVE WorldKept
  BY <1>7, WorldStays DEF Poll, PollWakes, ServerAnswersPoll, PollAgain, PollFails, PollThrows, PollReports
<1>8. ASSUME NEW t \in Tasks, Answer(t) PROVE WorldKept
  BY <1>8, WorldStays DEF Answer, SendAccepted, SendFails, ConfirmAnswered, ConfirmFails
<1>9. ASSUME NEW t \in Tasks, User(t) PROVE WorldKept
  <2>1. Send(t) \/ RetryPush(t) \/ Ask(t, "confirm") \/ Ask(t, "cancel") => WorldKept
    BY WorldStays DEF Send, RetryPush, Ask
  <2> QED BY <1>5, <1>9, <2>1 DEF User
<1>10. CASE Activate \/ Activated \/ ActivationFails \/ Deactivate \/ ClearFinished \/ Persist \/ Load \/ Kill
            \/ UNCHANGED vars
  <2>1. UNCHANGED server
    BY <1>10 DEF Activate, Activated, ActivationFails, Deactivate, ClearFinished, Persist, Load, LoadReads,
       LoadRestores, ResumePending, Kill, vars
  <2> QED BY <2>1, WorldStays
<1> QED BY <1>1, <1>2, <1>3, <1>6, <1>7, <1>8, <1>9, <1>10 DEF Next, Serve

LEMMA ConfigType ==
    ASSUME NEW tasks \in [Tasks -> Record], NEW k \in BOOLEAN, NEW y \in BOOLEAN
    PROVE  [token |-> k, sync |-> y, tasks |-> tasks] \in Config
BY DEF Config

LEMMA EmptyTypes ==
    /\ Absent \in Record /\ Absent.status = "absent" /\ Absent.known = FALSE /\ Absent.delivery = "none"
    /\ NoTasks \in [Tasks -> Record] /\ \A t \in Tasks : NoTasks[t] = Absent
    /\ Fresh \in Config /\ Fresh.tasks = NoTasks /\ Fresh.token = FALSE
<1>1. Absent \in Record /\ Absent.status = "absent" /\ Absent.known = FALSE /\ Absent.delivery = "none"
  BY DEF Absent, Record, Statuses, Deliveries
<1>2. NoTasks \in [Tasks -> Record] /\ \A t \in Tasks : NoTasks[t] = Absent
  BY <1>1 DEF NoTasks
<1>3. Fresh \in Config /\ Fresh.tasks = NoTasks /\ Fresh.token = FALSE
  BY <1>2 DEF Fresh, Config
<1> QED BY <1>1, <1>2, <1>3

\* What a start takes over from what it read.
LEMMA RestoredType ==
    ASSUME NEW tasks \in [Tasks -> Record]
    PROVE  /\ Restored(tasks) \in [Tasks -> Record]
           /\ \A t \in Tasks : Restored(tasks)[t] \in {tasks[t], Absent}
BY EmptyTypes DEF Restored

LEMMA TypeStep == AgentInv /\ [Next]_vars => TypeOK'
<1> SUFFICES ASSUME AgentInv, [Next]_vars PROVE TypeOK'
  OBVIOUS
<1>t. TypeOK /\ ReportsAreTrue /\ StoredIsThere
  BY DEF AgentInv
<1>1. ASSUME NEW t \in Tasks, Send(t) PROVE TypeOK'
  <2>1. [Absent EXCEPT !.status = "queued"] \in Record
    BY EmptyTypes DEF Record, Statuses
  <2>2. task' \in [Tasks -> Record] /\ saveDue' \in BOOLEAN
    BY <1>1, <1>t, <2>1 DEF Send, Update, TypeOK
  <2> QED BY <1>1, <1>t, <2>2 DEF Send, TypeOK, server, life, store
<1>2. ASSUME NEW t \in Tasks, Ask(t, "confirm") \/ Ask(t, "cancel") PROVE TypeOK'
  BY <1>2, <1>t DEF Ask, TypeOK, server, life, store
<1>3. ASSUME NEW t \in Tasks, RetryPush(t) PROVE TypeOK'
  <2>1. task' \in [Tasks -> Record] /\ saveDue' \in BOOLEAN
    BY <1>3, <1>t, DeliveryType DEF RetryPush, Deliveries
  <2>2. [task |-> t, generation |-> generation, by |-> "retry", pc |-> "start"] \in Delivery
    BY <1>t DEF TypeOK, Delivery
  <2> QED BY <1>3, <1>t, <2>1, <2>2 DEF RetryPush, TypeOK, server, life, store
<1>4. ASSUME NEW t \in Tasks, FileTouched(t) PROVE TypeOK'
  BY <1>4, <1>t DEF FileTouched, TypeOK, calls, life, store
<1>5. ASSUME NEW t \in Tasks, ServerReceives(t) \/ ServerProgresses(t) \/ ServerExpires(t) PROVE TypeOK'
  <2>1. /\ sends' \in [Tasks -> {"none", "sent", "accepted", "refused"}]
        /\ srv' \in [Tasks -> {"none", "running", "awaiting", "executing", "done", "failed", "cancelled"}]
    BY <1>5, <1>t DEF ServerReceives, ServerProgresses, ServerExpires, TypeOK, calls
  <2>2. UNCHANGED <<acked, file, task, pollers, confirms, confirmed, deliveries, life, sync, store, saveDue>>
    BY <1>5 DEF ServerReceives, ServerProgresses, ServerExpires, calls
  <2> QED BY <1>t, <2>1, <2>2 DEF TypeOK, life, store
<1>6. ASSUME NEW t \in Tasks, ServerDecides(t) PROVE TypeOK'
  <2>1. Reported("done") = "done" /\ Reported("executing") = "running"
    BY DEF Reported
  <2>2. /\ confirms' \in [Tasks -> {"none", "confirm", "cancel", "refused"} \cup Statuses]
        /\ srv' \in [Tasks -> {"none", "running", "awaiting", "executing", "done", "failed", "cancelled"}]
    BY <1>6, <1>t, <2>1 DEF ServerDecides, TypeOK, Statuses
  <2> QED BY <1>6, <1>t, <2>2 DEF ServerDecides, TypeOK, life, store
<1>7. ASSUME NEW t \in Tasks, SendAccepted(t) PROVE TypeOK'
  <2>1. task' \in [Tasks -> Record] /\ saveDue' \in BOOLEAN
    BY <1>7, <1>t DEF SendAccepted, Update, TypeOK, Record
  <2>2. pollers' \subseteq Poller
    BY <1>7, <1>t, PollTasksType DEF SendAccepted
  <2> QED BY <1>7, <1>t, <2>1, <2>2 DEF SendAccepted, TypeOK, server, life, store
<1>8. ASSUME NEW t \in Tasks, SendFails(t) PROVE TypeOK'
  <2>1. task' \in [Tasks -> Record] /\ saveDue' \in BOOLEAN
    BY <1>8, <1>t, StatusType DEF SendFails, Statuses
  <2> QED BY <1>8, <1>t, <2>1 DEF SendFails, TypeOK, server, life, store
<1>9. ASSUME NEW t \in Tasks, ConfirmAnswered(t) PROVE TypeOK'
  <2>1. task' \in [Tasks -> Record] /\ saveDue' \in BOOLEAN
    BY <1>9, <1>t, StatusType DEF ConfirmAnswered, WithId
  <2> QED BY <1>9, <1>t, <2>1 DEF ConfirmAnswered, TypeOK, server, life, store
<1>10. ASSUME NEW t \in Tasks, ConfirmFails(t) PROVE TypeOK'
  BY <1>10, <1>t DEF ConfirmFails, TypeOK, server, life, store
<1>11. ASSUME pollers' \subseteq Poller, UNCHANGED <<server, sends, confirms, confirmed, life, store>>,
              task' \in [Tasks -> Record], saveDue' \in BOOLEAN, sync' \in BOOLEAN, deliveries' \subseteq Delivery
       PROVE  TypeOK'
  BY <1>11, <1>t DEF TypeOK, server, life, store
<1>12. ASSUME NEW p \in pollers, Poll(p) PROVE TypeOK'
  <2>0. /\ p \in Poller /\ p.retries \in 0..MaxRetries /\ MaxRetries \in Nat
        /\ task \in [Tasks -> Record] /\ saveDue \in BOOLEAN /\ sync \in BOOLEAN /\ deliveries \subseteq Delivery
        /\ pollers \subseteq Poller
    BY <1>t, Bounds DEF TypeOK, Poller
  <2>1. CASE PollWakes(p)
    <3>1. pollers' \subseteq Poller
      BY <1>t, <2>0, <2>1, PollerMoves DEF PollWakes
    <3> QED BY <1>11, <2>0, <2>1, <3>1 DEF PollWakes
  <2>2. CASE ServerAnswersPoll(p)
    <3>1. \E answer \in Answers : MovePoller(p, answer, p.retries)
      BY <1>t, <2>2, AnswerType DEF ServerAnswersPoll, Answers
    <3>2. pollers' \subseteq Poller
      BY <1>t, <2>0, <3>1, PollerMoves
    <3> QED BY <1>11, <2>0, <2>2, <3>2 DEF ServerAnswersPoll
  <2>3. CASE PollAgain(p)
    <3>1. p.retries + 1 \in 0..MaxRetries /\ MovePoller(p, "sleep", p.retries + 1)
      BY <2>0, <2>3 DEF PollAgain
    <3>2. pollers' \subseteq Poller
      BY <1>t, <3>1, PollerMoves
    <3> QED BY <1>11, <2>0, <2>3, <3>2 DEF PollAgain
  <2>4. CASE PollFails(p)
    <3>1. task' \in [Tasks -> Record] /\ saveDue' \in BOOLEAN
      BY <1>t, <2>4, StatusType DEF PollFails, WithId, Statuses
    <3> QED BY <1>11, <2>0, <2>4, <3>1 DEF PollFails
  <2>5. CASE PollThrows(p)
    BY <1>11, <2>0, <2>5 DEF PollThrows
  <2>6. CASE PollReports(p)
    <3>1. p.pc \in Statuses
      BY <2>6 DEF PollReports
    <3>2. task' \in [Tasks -> Record] /\ saveDue' \in BOOLEAN
      BY <2>0, <2>6, <3>1 DEF PollReports, Update, Record, Deliveries
    <3>3. p.key \in Tasks
      BY <1>t, <3>1, AnswerType DEF ReportsAreTrue
    <3>4. deliveries' \subseteq Delivery
      <4>1. [task |-> p.key, generation |-> p.generation, by |-> "poll", pc |-> "start"] \in Delivery
        BY <2>0, <3>3 DEF Delivery, Poller
      <4> QED BY <2>0, <2>6, <4>1 DEF PollReports
    <3>5. pollers' \subseteq Poller
      <4>1. 0 \in 0..MaxRetries
        BY Bounds
      <4> QED BY <1>t, <2>0, <2>6, <4>1, PollerMoves DEF PollReports
    <3>6. sync' \in BOOLEAN
      BY <2>0, <2>6 DEF PollReports
    <3> QED BY <1>11, <2>6, <3>2, <3>4, <3>5, <3>6 DEF PollReports
  <2> QED BY <1>12, <2>1, <2>2, <2>3, <2>4, <2>5, <2>6 DEF Poll
<1>13. ASSUME deliveries' \subseteq Delivery, UNCHANGED <<srv, sends, pollers, confirms, confirmed, life, sync, store>>,
              acked' \subseteq Producing, file' \in [Tasks -> {"absent", "empty", "other", "artifact"}],
              task' \in [Tasks -> Record], saveDue' \in BOOLEAN
       PROVE  TypeOK'
  BY <1>13, <1>t DEF TypeOK, life, store
<1>14. ASSUME NEW d \in deliveries, Deliver(d) PROVE TypeOK'
  <2>0. /\ d \in Delivery /\ d.task \in Producing
        /\ task \in [Tasks -> Record] /\ saveDue \in BOOLEAN /\ deliveries \subseteq Delivery
        /\ acked \subseteq Producing /\ file \in [Tasks -> {"absent", "empty", "other", "artifact"}]
    BY <1>t DEF TypeOK, StoredIsThere
  <2>1. deliveries' \subseteq Delivery
    <3>1. EndDelivery(d) \/ \E pc \in {"fetching", "create", "modify", "stored", "acking"} : MoveDelivery(d, pc)
      BY <1>14 DEF Deliver, DeliveryStarts, DeliveryFails, WriterLooks, WriterCreates, WriterModifies,
         DeliveryAcks, AckAnswered
    <3> QED BY <1>t, <2>0, <3>1, DeliveryMoves DEF EndDelivery
  <2>2. task' \in [Tasks -> Record] /\ saveDue' \in BOOLEAN
    <3>1. UNCHANGED <<task, saveDue>> \/ \E s \in Deliveries : SetDelivery(d.task, s)
      BY <1>14 DEF Deliver, DeliveryStarts, DeliveryFails, WriterLooks, WriterCreates, WriterModifies,
         DeliveryAcks, AckAnswered, Deliveries
    <3> QED BY <1>t, <2>0, <3>1, DeliveryType
  <2>3. /\ acked' \subseteq Producing /\ file' \in [Tasks -> {"absent", "empty", "other", "artifact"}]
        /\ UNCHANGED <<srv, sends, pollers, confirms, confirmed, life, sync, store>>
    BY <1>14, <2>0 DEF Deliver, DeliveryStarts, DeliveryFails, WriterLooks, WriterCreates, WriterModifies,
       DeliveryAcks, AckAnswered, server
  <2> QED BY <1>13, <2>1, <2>2, <2>3
<1>15. CASE Activate \/ ActivationFails \/ LoadReads
  BY <1>15, <1>t DEF Activate, ActivationFails, LoadReads, TypeOK, server, calls, life, store
<1>16. CASE Activated
  <2>1. disk' \in Config
    BY <1>16, <1>t, ConfigType DEF Activated, TypeOK
  <2> QED BY <1>16, <1>t, <2>1 DEF Activated, TypeOK, server, calls
<1>17. CASE Deactivate
  <2>1. NoTasks \in [Tasks -> Record] /\ Fresh \in Config /\ generation + 1 \in Nat
    BY <1>t, EmptyTypes DEF TypeOK
  <2> QED BY <1>17, <1>t, <2>1 DEF Deactivate, TypeOK, server, calls
<1>18. CASE ClearFinished
  <2>1. task' \in [Tasks -> Record] /\ saveDue' \in BOOLEAN
    BY <1>18, <1>t, EmptyTypes DEF ClearFinished, Update, TypeOK
  <2> QED BY <1>18, <1>t, <2>1 DEF ClearFinished, TypeOK, server, calls, life, store
<1>19. Memory \in Config /\ [Memory EXCEPT !.token = TRUE] \in Config
  BY <1>t DEF Memory, Config, TypeOK
<1>20. CASE Persist
  BY <1>20, <1>t, <1>19 DEF Persist, TypeOK, server, calls, life
<1>21. CASE LoadRestores
  <2>1. loaded.tasks \in [Tasks -> Record] /\ loaded.sync \in BOOLEAN /\ loaded.token \in BOOLEAN
    BY <1>t DEF TypeOK, Config
  <2>2. task' \in [Tasks -> Record] /\ sync' \in BOOLEAN
    BY <1>21, <2>1, RestoredType DEF LoadRestores
  <2>3. disk' \in Config
    BY <1>21, <1>t, <1>19 DEF LoadRestores, TypeOK
  <2> QED BY <1>21, <1>t, <2>2, <2>3 DEF LoadRestores, TypeOK, server, calls
<1>22. CASE ResumePending
  <2>1. pollers' \subseteq Poller
    BY <1>22, <1>t, PollTasksType, TaskIdType DEF ResumePending
  <2> QED BY <1>22, <1>t, <2>1 DEF ResumePending, TypeOK, server, life
<1>23. CASE Kill
  <2>1. NoTasks \in [Tasks -> Record] /\ Fresh \in Config /\ starts + 1 \in Nat
    BY <1>t, EmptyTypes DEF TypeOK
  <2> QED BY <1>23, <1>t, <2>1 DEF Kill, TypeOK, server
<1>24. CASE UNCHANGED vars
  BY <1>24, <1>t DEF vars, TypeOK, server, calls, life, store
<1> QED
  BY <1>1, <1>2, <1>3, <1>4, <1>5, <1>6, <1>7, <1>8, <1>9, <1>10, <1>12, <1>14, <1>15, <1>16, <1>17, <1>18, <1>20,
     <1>21, <1>22, <1>23, <1>24 DEF Next, User, Serve, Answer, Load

-----------------------------------------------------------------------------
(* Records, reports, answers and deliveries stay true. *)

LEMMA TrueStays ==
    ASSUME WorldKept, NEW t \in Tasks, NEW r, True(r, t, srv, acked)
    PROVE  True(r, t, srv', acked')
BY DEF WorldKept, True

LEMMA AbsentIsTrue ==
    ASSUME NEW t, NEW s, NEW stored
    PROVE  True(Absent, t, s, stored)
BY EmptyTypes DEF True, Terminal

\* A record whose status or delivery is replaced by a true one.
LEMMA ReportIsTrue ==
    ASSUME NEW r \in Record, NEW u, NEW s, NEW w, NEW stored, True(r, u, w, stored),
           s \in Terminal => w[u] = s
    PROVE  True([r EXCEPT !.status = s], u, w, stored)
BY DEF True, Record

LEMMA DeliveryIsTrue ==
    ASSUME NEW r \in Record, NEW u, NEW x, NEW w, NEW stored, True(r, u, w, stored),
           x = "delivered" => u \in stored
    PROVE  True([r EXCEPT !.delivery = x], u, w, stored)
BY DEF True, Record

LEMMA FinalReportIsTrue ==
    ASSUME NEW r \in Record, NEW u, NEW s, NEW x, NEW w, NEW stored, True(r, u, w, stored),
           s \in Terminal => w[u] = s, x = "delivered" => r.delivery = "delivered"
    PROVE  True([r EXCEPT !.status = s, !.delivery = x], u, w, stored)
BY DEF True, Record

\* The memory says something new about some tasks; the disk takes over what
\* the memory said, and a start what is on the disk, or they stay.
LEMMA RecordsStay ==
    ASSUME RecordsAreTrue, WorldKept,
           \A t \in Tasks : task'[t] = task[t] \/ True(task'[t], t, srv', acked'),
           \A t \in Tasks : disk'.tasks[t] \in {disk.tasks[t], task[t], Absent},
           \A t \in Tasks : loaded'.tasks[t] \in {loaded.tasks[t], disk.tasks[t], Absent}
    PROVE  RecordsAreTrue'
<1> SUFFICES ASSUME NEW t \in Tasks
             PROVE  /\ True(task'[t], t, srv', acked')
                    /\ True(disk'.tasks[t], t, srv', acked')
                    /\ True(loaded'.tasks[t], t, srv', acked')
  BY DEF RecordsAreTrue
<1>1. /\ True(task[t], t, srv', acked') /\ True(disk.tasks[t], t, srv', acked')
      /\ True(loaded.tasks[t], t, srv', acked') /\ True(Absent, t, srv', acked')
  BY TrueStays, AbsentIsTrue DEF RecordsAreTrue
<1> QED BY <1>1

\* A poller keeps its answer, gets one that says nothing or a true one.
LEMMA ReportsStay ==
    ASSUME ReportsAreTrue, WorldKept, pollers \subseteq Poller,
           \A q \in pollers' :
              \/ q \in pollers
              \/ /\ q.key # NoId => q.key \in Tasks /\ srv'[q.key] # "none"
                 /\ q.pc \in Statuses => q.key # NoId
                 /\ q.pc \in Terminal => srv'[q.key] = q.pc
    PROVE  ReportsAreTrue'
<1> SUFFICES ASSUME NEW q \in pollers
             PROVE  /\ q.key # NoId => srv'[q.key] # "none"
                    /\ q.pc \in Terminal => srv'[q.key] = q.pc
  BY DEF ReportsAreTrue
<1>1. q.key # NoId => q.key \in Tasks
  BY DEF Poller
<1>2. q.pc \in Terminal => q.key # NoId
  BY DEF ReportsAreTrue, Terminal, Statuses
<1> QED BY <1>1, <1>2 DEF ReportsAreTrue, WorldKept

LEMMA DeliveriesStay ==
    ASSUME TypeOK, StoredIsThere, WorldKept,
           \A e \in deliveries' :
              \/ e \in deliveries
              \/ e.task \in Producing /\ (e.pc \in {"stored", "acking"} => file'[e.task] = "artifact")
    PROVE  StoredIsThere'
BY DEF TypeOK, StoredIsThere, WorldKept, Delivery

LEMMA AckedStay ==
    ASSUME AckedIsThere, WorldKept, acked \subseteq Tasks, \A t \in acked' : t \in acked \/ file'[t] = "artifact"
    PROVE  AckedIsThere'
BY DEF AckedIsThere, WorldKept

\* A task on the screen keeps its record when its account has another identifier.
LEMMA OneWithId == \A k \in Tasks : WithId(k) \subseteq {k}
BY Bounds DEF WithId, TaskId

LEMMA TruthStep ==
    AgentInv /\ [Next]_vars
        => RecordsAreTrue' /\ SentOnce' /\ ReportsAreTrue' /\ AnswersAreTrue' /\ StoredIsThere' /\ AckedIsThere'
<1> DEFINE Goal == RecordsAreTrue' /\ SentOnce' /\ ReportsAreTrue' /\ AnswersAreTrue' /\ StoredIsThere'
                     /\ AckedIsThere'
<1> SUFFICES ASSUME AgentInv, [Next]_vars PROVE Goal
  OBVIOUS
<1>w. WorldKept
  BY WorldStep
<1>t. /\ TypeOK /\ RecordsAreTrue /\ SentOnce /\ ReportsAreTrue /\ AnswersAreTrue /\ StoredIsThere /\ AckedIsThere
      /\ pollers \subseteq Poller /\ task \in [Tasks -> Record] /\ acked \subseteq Tasks
      /\ sends \in [Tasks -> {"none", "sent", "accepted", "refused"}]
  BY TasksAssumption DEF AgentInv, TypeOK
<1>s. sends' = sends /\ srv' = srv => SentOnce'
  BY <1>t DEF SentOnce
<1>p. pollers' = pollers => ReportsAreTrue'
  BY <1>t, <1>w, ReportsStay
<1>a. confirms' = confirms /\ srv' = srv => AnswersAreTrue'
  BY <1>t DEF AnswersAreTrue
<1>d. deliveries' = deliveries => StoredIsThere'
  BY <1>t, <1>w, DeliveriesStay
<1>k. acked' = acked => AckedIsThere'
  BY <1>t, <1>w, AckedStay
<1>r. (\A t \in Tasks : task'[t] = task[t] \/ True(task'[t], t, srv', acked')) /\ UNCHANGED <<disk, loaded>>
        => RecordsAreTrue'
  BY <1>t, <1>w, RecordsStay
<1> HIDE DEF Goal
<1>1. ASSUME NEW t \in Tasks, Send(t) PROVE Goal
  <2> DEFINE r == [Absent EXCEPT !.status = "queued"]
  <2>1. True(r, t, srv', acked')
    BY DEF True, Absent, Terminal
  <2>2. \A u \in Tasks : task'[u] = IF u = t THEN r ELSE task[u]
    BY <1>1 DEF Send, Update
  <2>3. UNCHANGED <<srv, acked, pollers, confirms, deliveries, disk, loaded>> /\ srv[t] = "none"
        /\ sends' = [sends EXCEPT ![t] = "sent"]
    BY <1>1 DEF Send, server, store
  <2> HIDE DEF r
  <2>4. SentOnce'
    BY <1>t, <2>3 DEF SentOnce
  <2> QED BY <1>p, <1>a, <1>d, <1>k, <1>r, <2>1, <2>2, <2>3, <2>4 DEF Goal
<1>2. ASSUME NEW t \in Tasks, Ask(t, "confirm") \/ Ask(t, "cancel") PROVE Goal
  <2>1. UNCHANGED <<srv, acked, task, sends, pollers, deliveries, disk, loaded>>
        /\ (confirms' = [confirms EXCEPT ![t] = "confirm"] \/ confirms' = [confirms EXCEPT ![t] = "cancel"])
    BY <1>2 DEF Ask, server, store
  <2>2. AnswersAreTrue'
    BY <1>t, <2>1 DEF TypeOK, AnswersAreTrue, Terminal, Unfinished
  <2> QED BY <1>s, <1>p, <1>d, <1>k, <1>r, <2>1, <2>2 DEF Goal
<1>3. ASSUME NEW t \in Tasks, RetryPush(t) PROVE Goal
  <2>1. UNCHANGED <<srv, acked, file, sends, pollers, confirms, disk, loaded>> /\ t \in Producing
        /\ SetDelivery(t, "pending")
    BY <1>3 DEF RetryPush, server, store
  <2>2. \A u \in Tasks : task'[u] = task[u] \/ True(task'[u], u, srv', acked')
    <3>1. task' = [u \in Tasks |-> IF u \in WithId(t) THEN [task[u] EXCEPT !.delivery = "pending"] ELSE task[u]]
      BY <2>1, DeliverySet DEF Deliveries
    <3>2. ASSUME NEW u \in Tasks PROVE True([task[u] EXCEPT !.delivery = "pending"], u, srv, acked)
      BY <1>t, DeliveryIsTrue DEF RecordsAreTrue
    <3> QED BY <2>1, <3>1, <3>2
  <2>3. \A e \in deliveries' : e \in deliveries \/ (e.task = t /\ e.pc = "start")
    BY <1>3 DEF RetryPush
  <2>4. StoredIsThere'
    BY <1>t, <1>w, <2>1, <2>3, DeliveriesStay
  <2> QED BY <1>s, <1>p, <1>a, <1>k, <1>r, <2>1, <2>2, <2>4 DEF Goal
<1>4. ASSUME NEW t \in Tasks, FileTouched(t) PROVE Goal
  BY <1>4, <1>s, <1>p, <1>a, <1>d, <1>k, <1>r DEF FileTouched, calls, store, Goal
<1>5. ASSUME NEW t \in Tasks, ServerReceives(t) PROVE Goal
  <2>1. UNCHANGED <<acked, task, pollers, confirms, deliveries, disk, loaded>>
    BY <1>5 DEF ServerReceives, store
  <2>2. sends[t] = "sent" /\ srv[t] = "none"
    BY <1>5, <1>t DEF ServerReceives, SentOnce
  <2>3. \/ sends' = [sends EXCEPT ![t] = "accepted"] /\ srv' = [srv EXCEPT ![t] = "running"]
        \/ sends' = [sends EXCEPT ![t] = "refused"] /\ srv' = srv
    BY <1>5 DEF ServerReceives
  <2>4. SentOnce'
    BY <1>t, <2>3 DEF SentOnce, TypeOK
  <2>5. AnswersAreTrue'
    BY <1>t, <2>1, <2>2, <2>3 DEF AnswersAreTrue, Terminal, TypeOK
  <2> QED BY <1>p, <1>d, <1>k, <1>r, <2>1, <2>4, <2>5 DEF Goal
<1>6. ASSUME NEW t \in Tasks, ServerProgresses(t) \/ ServerExpires(t) PROVE Goal
  <2>1. UNCHANGED <<acked, task, sends, pollers, confirms, deliveries, disk, loaded>>
    BY <1>6 DEF ServerProgresses, ServerExpires, calls, store
  <2>2. srv[t] \in {"running", "executing", "awaiting"}
        /\ \E s \in {"awaiting", "done", "failed"} : srv' = [srv EXCEPT ![t] = s] /\ (s = "awaiting" => t \in Mutating)
    BY <1>6 DEF ServerProgresses, ServerExpires
  <2>3. SentOnce'
    BY <1>t, <2>1, <2>2 DEF SentOnce, TypeOK
  <2>4. AnswersAreTrue'
    BY <1>t, <1>w, <2>1, <2>2 DEF AnswersAreTrue, WorldKept, TypeOK
  <2> QED BY <1>p, <1>d, <1>k, <1>r, <2>1, <2>3, <2>4 DEF Goal
<1>7. ASSUME NEW t \in Tasks, ServerDecides(t) PROVE Goal
  <2>1. UNCHANGED <<acked, task, sends, pollers, deliveries, disk, loaded>>
    BY <1>7 DEF ServerDecides, store
  <2>2. \/ /\ srv[t] = "awaiting" /\ srv' = [srv EXCEPT ![t] = "done"] /\ confirms' = [confirms EXCEPT ![t] = "done"]
        \/ /\ srv[t] = "awaiting" /\ srv' = [srv EXCEPT ![t] = "executing"]
           /\ confirms' = [confirms EXCEPT ![t] = "running"]
        \/ /\ srv[t] = "awaiting" /\ srv' = [srv EXCEPT ![t] = "cancelled"]
           /\ confirms' = [confirms EXCEPT ![t] = "cancelled"]
        \/ /\ srv' = srv
           /\ \E c \in {"conflict", "failed_zero_cost", "refused"} : confirms' = [confirms EXCEPT ![t] = c]
    BY <1>7 DEF ServerDecides, Reported
  <2>3. SentOnce'
    BY <1>t, <2>1, <2>2 DEF SentOnce, TypeOK
  <2>4. AnswersAreTrue'
    BY <1>t, <2>2 DEF AnswersAreTrue, Terminal, Unfinished, TypeOK
  <2> QED BY <1>p, <1>d, <1>k, <1>r, <2>1, <2>3, <2>4 DEF Goal
<1>8. ASSUME NEW t \in Tasks, SendAccepted(t) PROVE Goal
  <2>1. UNCHANGED <<srv, acked, confirms, deliveries, disk, loaded>> /\ sends[t] = "accepted"
        /\ sends' = [sends EXCEPT ![t] = "none"] /\ pollers' = PollTasks({t})
    BY <1>8 DEF SendAccepted, server, store
  <2>2. srv[t] # "none"
    BY <1>t, <2>1 DEF SentOnce
  <2>3. \A u \in Tasks : task'[u] = task[u] \/ (u = t /\ task'[u] = [task[u] EXCEPT !.known = TRUE])
    BY <1>8 DEF SendAccepted, Update
  <2>4. \A u \in Tasks : task'[u] = task[u] \/ True(task'[u], u, srv', acked')
    BY <1>t, <2>1, <2>2, <2>3 DEF RecordsAreTrue, True, Record
  <2>5. SentOnce'
    BY <1>t, <2>1 DEF SentOnce
  <2>6. \A q \in pollers' : q \in pollers \/ (q.key = t /\ q.pc = "sleep")
    BY <1>t, <2>1, PollTasksType
  <2>7. ReportsAreTrue'
    BY <1>t, <1>w, <2>1, <2>2, <2>6, Bounds, ReportsStay DEF Statuses, Terminal
  <2> QED BY <1>a, <1>d, <1>k, <1>r, <2>1, <2>4, <2>5, <2>7 DEF Goal
<1>9. ASSUME NEW S \in SUBSET Tasks, NEW s \in Statuses \ Terminal, SetStatus(S, s)
      PROVE  \A u \in Tasks : UNCHANGED <<srv, acked>> => task'[u] = task[u] \/ True(task'[u], u, srv', acked')
  <2>1. task' = [t \in Tasks |-> IF t \in S THEN [task[t] EXCEPT !.status = s] ELSE task[t]]
    BY <1>9, Updated
  <2>2. ASSUME NEW u \in Tasks PROVE True([task[u] EXCEPT !.status = s], u, srv, acked)
    BY <1>t, ReportIsTrue DEF RecordsAreTrue
  <2> QED BY <2>1, <2>2
<1>10. ASSUME NEW t \in Tasks, SendFails(t) PROVE Goal
  <2>1. UNCHANGED <<srv, acked, pollers, confirms, deliveries, disk, loaded>>
        /\ sends' = [sends EXCEPT ![t] = "none"] /\ SetStatus({t} \cap {u \in Tasks : Listed(u)}, "failed")
    BY <1>10 DEF SendFails, server, store
  <2>2. \A u \in Tasks : task'[u] = task[u] \/ True(task'[u], u, srv', acked')
    BY <1>9, <2>1 DEF Statuses, Terminal
  <2>3. SentOnce'
    BY <1>t, <2>1 DEF SentOnce
  <2> QED BY <1>p, <1>a, <1>d, <1>k, <1>r, <2>1, <2>2, <2>3 DEF Goal
<1>11. ASSUME NEW t \in Tasks, ConfirmAnswered(t) PROVE Goal
  <2>1. UNCHANGED <<srv, acked, sends, pollers, deliveries, disk, loaded>> /\ confirms[t] \in Statuses
        /\ confirms' = [confirms EXCEPT ![t] = "none"] /\ SetStatus(WithId(t), confirms[t])
    BY <1>11 DEF ConfirmAnswered, server, store
  <2>2. \A u \in Tasks : task'[u] = task[u] \/ (u = t /\ task'[u] = [task[u] EXCEPT !.status = confirms[t]])
    <3>1. WithId(t) \subseteq {t} /\ WithId(t) \subseteq Tasks
      BY OneWithId DEF WithId
    <3>2. task' = [u \in Tasks |-> IF u \in WithId(t) THEN [task[u] EXCEPT !.status = confirms[t]] ELSE task[u]]
      BY <2>1, <3>1, Updated
    <3> QED BY <3>1, <3>2
  <2>3. \A u \in Tasks : task'[u] = task[u] \/ True(task'[u], u, srv', acked')
    <3>1. confirms[t] \in Terminal => srv[t] = confirms[t]
      BY <1>t DEF AnswersAreTrue
    <3>2. True([task[t] EXCEPT !.status = confirms[t]], t, srv, acked)
      BY <1>t, <3>1, ReportIsTrue DEF RecordsAreTrue
    <3> QED BY <2>1, <2>2, <3>2
  <2>4. AnswersAreTrue'
    BY <1>t, <2>1 DEF AnswersAreTrue, Terminal, Unfinished, TypeOK
  <2> QED BY <1>s, <1>p, <1>d, <1>k, <1>r, <2>1, <2>3, <2>4 DEF Goal
<1>12. ASSUME NEW t \in Tasks, ConfirmFails(t) PROVE Goal
  <2>1. UNCHANGED <<srv, acked, task, sends, pollers, deliveries, disk, loaded>>
        /\ confirms' = [confirms EXCEPT ![t] = "none"]
    BY <1>12 DEF ConfirmFails, server, store
  <2>2. AnswersAreTrue'
    BY <1>t, <2>1 DEF AnswersAreTrue, Terminal, Unfinished, TypeOK
  <2> QED BY <1>s, <1>p, <1>d, <1>k, <1>r, <2>1, <2>2 DEF Goal
<1>13. ASSUME NEW p \in pollers, Poll(p) PROVE Goal
  <2>0. /\ UNCHANGED <<srv, acked, sends, confirms, disk, loaded>>
        /\ p \in Poller /\ p.retries \in 0..MaxRetries /\ MaxRetries \in Nat
    BY <1>13, <1>t, Bounds DEF Poll, PollWakes, ServerAnswersPoll, PollAgain, PollFails, PollThrows, PollReports,
       server, store, Poller
  <2>1. ASSUME NEW pc \in {"sleep", "asked", "again", "refused", "garbled"}, NEW r \in 0..MaxRetries,
               MovePoller(p, pc, r)
        PROVE  ReportsAreTrue'
    <3>1. \A q \in pollers' : q \in pollers \/ (q.key = p.key /\ q.pc = pc)
      BY <1>t, <2>1, PollersAfterMove
    <3>2. (p.key # NoId => p.key \in Tasks /\ srv'[p.key] # "none") /\ pc \notin Statuses /\ pc \notin Terminal
      BY <1>t, <2>0 DEF ReportsAreTrue, Poller, Statuses, Terminal
    <3> QED BY <1>t, <1>w, <3>1, <3>2, ReportsStay
  <2>2. pollers' = pollers \ {p} => ReportsAreTrue'
    BY <1>t, <1>w, ReportsStay
  <2>3. CASE PollWakes(p) \/ PollThrows(p)
    <3>1. UNCHANGED <<task, deliveries>>
      BY <2>3 DEF PollWakes, PollThrows
    <3>2. pollers' = pollers \ {p} \/ MovePoller(p, "asked", p.retries)
      BY <2>3 DEF PollWakes, PollThrows
    <3>3. ReportsAreTrue'
      BY <2>0, <2>1, <2>2, <3>2
    <3> QED BY <1>s, <1>a, <1>d, <1>k, <1>r, <2>0, <3>1, <3>3 DEF Goal
  <2>4. CASE PollAgain(p)
    <3>1. UNCHANGED <<task, deliveries>> /\ MovePoller(p, "sleep", p.retries + 1) /\ p.retries + 1 \in 0..MaxRetries
      BY <2>0, <2>4 DEF PollAgain
    <3>2. ReportsAreTrue'
      BY <2>1, <3>1
    <3> QED BY <1>s, <1>a, <1>d, <1>k, <1>r, <2>0, <3>1, <3>2 DEF Goal
  <2>5. CASE ServerAnswersPoll(p)
    <3>1. UNCHANGED <<task, deliveries>>
          /\ \/ \E a \in {"again", "refused", "garbled"} : MovePoller(p, a, p.retries)
             \/ p.key # NoId /\ MovePoller(p, Reported(srv[p.key]), p.retries)
      BY <2>5 DEF ServerAnswersPoll
    <3>2. CASE \E a \in {"again", "refused", "garbled"} : MovePoller(p, a, p.retries)
      BY <1>s, <1>a, <1>d, <1>k, <1>r, <2>0, <2>1, <3>1, <3>2 DEF Goal
    <3>3. CASE p.key # NoId /\ MovePoller(p, Reported(srv[p.key]), p.retries)
      <4> DEFINE a == Reported(srv[p.key])
      <4>1. /\ p.key \in Tasks /\ a \in Statuses /\ \A s \in Terminal : a = s => srv[p.key] = s
            /\ srv[p.key] # "none"
        BY <1>t, <3>3, AnswerType DEF ReportsAreTrue
      <4> HIDE DEF a
      <4>2. MovePoller(p, a, p.retries)
        BY <3>3 DEF a
      <4>3. \A q \in pollers' : q \in pollers \/ (q.key = p.key /\ q.pc = a)
        BY <1>t, <4>2, PollersAfterMove
      <4>4. ReportsAreTrue'
        BY <1>t, <1>w, <2>0, <3>3, <4>1, <4>3, ReportsStay
      <4> QED BY <1>s, <1>a, <1>d, <1>k, <1>r, <2>0, <3>1, <4>4 DEF Goal
    <3> QED BY <3>1, <3>2, <3>3
  <2>6. CASE PollFails(p)
    <3>1. deliveries' = deliveries /\ pollers' = pollers \ {p} /\ SetStatus(WithId(p.key), "failed")
      BY <2>6 DEF PollFails
    <3>2. \A u \in Tasks : task'[u] = task[u] \/ True(task'[u], u, srv', acked')
      BY <1>9, <2>0, <3>1 DEF Statuses, Terminal, WithId
    <3> QED BY <1>s, <1>a, <1>d, <1>k, <1>r, <2>0, <2>2, <3>1, <3>2 DEF Goal
  <2>7. CASE PollReports(p)
    <3>1. /\ p.pc \in Statuses /\ p.key \in Tasks /\ p.key # NoId
          /\ p.pc \in Terminal => srv[p.key] = p.pc
      BY <1>t, <2>0, <2>7 DEF PollReports, ReportsAreTrue, Poller
    <3>2. \A u \in Tasks : task'[u] = task[u]
             \/ (u = p.key /\ \E x \in {"pending", task[u].delivery} :
                                 task'[u] = [task[u] EXCEPT !.status = p.pc, !.delivery = x])
      BY <2>7, <3>1, OneWithId DEF PollReports, Update
    <3>3. \A u \in Tasks : task'[u] = task[u] \/ True(task'[u], u, srv', acked')
      <4>1. task[p.key] \in Record /\ True(task[p.key], p.key, srv, acked)
        BY <1>t, <3>1 DEF RecordsAreTrue
      <4>2. \A x \in {"pending", task[p.key].delivery} :
               True([task[p.key] EXCEPT !.status = p.pc, !.delivery = x], p.key, srv, acked)
        BY <3>1, <4>1, FinalReportIsTrue
      <4> QED BY <2>0, <3>2, <4>2
    <3>4. ReportsAreTrue'
      <4>1. 0 \in 0..MaxRetries
        BY Bounds
      <4> QED BY <2>1, <2>2, <2>7, <4>1 DEF PollReports
    <3>5. \A e \in deliveries' : e \in deliveries \/ (e.task = p.key /\ e.pc = "start" /\ p.key \in Producing)
      BY <2>7 DEF PollReports
    <3>6. StoredIsThere'
      BY <1>t, <1>w, <3>5, DeliveriesStay
    <3> QED BY <1>s, <1>a, <1>k, <1>r, <2>0, <3>3, <3>4, <3>6 DEF Goal
  <2> QED BY <1>13, <2>3, <2>4, <2>5, <2>6, <2>7 DEF Poll
<1>14. ASSUME NEW d \in deliveries, Deliver(d) PROVE Goal
  <2>0. /\ UNCHANGED <<srv, sends, pollers, confirms, disk, loaded>>
        /\ d \in Delivery /\ d.task \in Producing /\ d.task \in Tasks
        /\ d.pc \in {"stored", "acking"} => file[d.task] = "artifact"
    BY <1>14, <1>t DEF Deliver, DeliveryStarts, DeliveryFails, WriterLooks, WriterCreates, WriterModifies,
       DeliveryAcks, AckAnswered, server, store, TypeOK, StoredIsThere, Delivery
  <2>1. ASSUME NEW pc \in {"fetching", "create", "modify", "stored", "acking"}, MoveDelivery(d, pc),
               pc \in {"stored", "acking"} => file'[d.task] = "artifact"
        PROVE  StoredIsThere'
    <3>1. \A e \in deliveries' : e \in deliveries \/ (e.task = d.task /\ e.pc = pc)
      BY <1>t, <2>1, DeliveriesAfterMove
    <3> QED BY <1>t, <1>w, <2>0, <2>1, <3>1, DeliveriesStay
  <2>2. EndDelivery(d) => StoredIsThere'
    BY <1>t, <1>w, DeliveriesStay DEF EndDelivery
  <2>3. StoredIsThere'
    <3>1. CASE WriterCreates(d) \/ WriterModifies(d)
      <4>1. EndDelivery(d) \/ (MoveDelivery(d, "stored") /\ file' = [file EXCEPT ![d.task] = "artifact"])
        BY <3>1 DEF WriterCreates, WriterModifies
      <4>2. file' = [file EXCEPT ![d.task] = "artifact"] => file'[d.task] = "artifact"
        BY <1>t, <2>0 DEF TypeOK
      <4> QED BY <2>1, <2>2, <4>1, <4>2
    <3>2. CASE DeliveryStarts(d) \/ DeliveryFails(d) \/ AckAnswered(d)
      BY <2>1, <2>2, <3>2 DEF DeliveryStarts, DeliveryFails, AckAnswered
    <3>3. CASE DeliveryAcks(d)
      <4>1. file' = file /\ file[d.task] = "artifact" /\ (EndDelivery(d) \/ MoveDelivery(d, "acking"))
        BY <2>0, <3>3 DEF DeliveryAcks, server
      <4> QED BY <2>1, <2>2, <4>1
    <3>4. CASE WriterLooks(d)
      <4>1. file' = file /\ file[d.task] \in {"absent", "empty", "other", "artifact"}
        BY <1>t, <2>0, <3>4 DEF WriterLooks, server, TypeOK
      <4>2. \/ EndDelivery(d)
            \/ MoveDelivery(d, "create") \/ MoveDelivery(d, "modify")
            \/ MoveDelivery(d, "stored") /\ file[d.task] = "artifact"
        BY <3>4, <4>1 DEF WriterLooks
      <4> QED BY <2>1, <2>2, <4>1, <4>2
    <3> QED BY <1>14, <3>1, <3>2, <3>3, <3>4 DEF Deliver
  <2>4. AckedIsThere'
    <3>1. \A t \in acked' : t \in acked \/ (t = d.task /\ d.pc = "acking" /\ file' = file)
      BY <1>14 DEF Deliver, DeliveryStarts, DeliveryFails, WriterLooks, WriterCreates, WriterModifies,
         DeliveryAcks, AckAnswered, server
    <3> QED BY <1>t, <1>w, <2>0, <3>1, AckedStay
  <2>5. \A u \in Tasks : task'[u] = task[u] \/ True(task'[u], u, srv', acked')
    <3>1. \/ UNCHANGED task
          \/ \E s \in {"failed", "conflict"} : SetDelivery(d.task, s)
          \/ SetDelivery(d.task, "delivered") /\ acked' = acked \cup {d.task}
      BY <1>14 DEF Deliver, DeliveryStarts, DeliveryFails, WriterLooks, WriterCreates, WriterModifies,
         DeliveryAcks, AckAnswered
    <3>2. \A u \in Tasks : task'[u] = task[u]
             \/ (u = d.task /\ \E s \in Deliveries : /\ task'[u] = [task[u] EXCEPT !.delivery = s]
                                                     /\ s = "delivered" => u \in acked')
      <4>1. WithId(d.task) \subseteq {d.task}
        BY <2>0, OneWithId
      <4>2. ASSUME NEW s \in Deliveries, SetDelivery(d.task, s)
            PROVE  \A u \in Tasks : task'[u] = task[u] \/ (u = d.task /\ task'[u] = [task[u] EXCEPT !.delivery = s])
        <5>1. task' = [u \in Tasks |-> IF u \in WithId(d.task) THEN [task[u] EXCEPT !.delivery = s] ELSE task[u]]
          BY <4>2, DeliverySet
        <5> QED BY <4>1, <5>1
      <4>3. CASE UNCHANGED task
        BY <4>3
      <4>4. CASE \E s \in {"failed", "conflict"} : SetDelivery(d.task, s)
        BY <4>2, <4>4 DEF Deliveries
      <4>5. CASE SetDelivery(d.task, "delivered") /\ acked' = acked \cup {d.task}
        BY <4>2, <4>5 DEF Deliveries
      <4> QED BY <3>1, <4>3, <4>4, <4>5
    <3>3. \A u \in Tasks : True(task[u], u, srv, acked') /\ task[u] \in Record
      BY <1>t, <1>w DEF WorldKept, RecordsAreTrue, True
    <3>4. \A u \in Tasks : \A s \in Deliveries :
             (s = "delivered" => u \in acked') => True([task[u] EXCEPT !.delivery = s], u, srv, acked')
      BY <3>3, DeliveryIsTrue
    <3> QED BY <2>0, <3>2, <3>4
  <2> QED BY <1>s, <1>p, <1>a, <1>r, <2>0, <2>3, <2>4, <2>5 DEF Goal
<1>15. CASE Activate \/ ActivationFails \/ UNCHANGED vars
  BY <1>15, <1>s, <1>p, <1>a, <1>d, <1>k, <1>r DEF Activate, ActivationFails, vars, server, calls, store, Goal
<1>16. ASSUME UNCHANGED <<srv, acked, sends, pollers, confirms, deliveries>>,
              \A t \in Tasks : task'[t] = task[t] \/ True(task'[t], t, srv', acked'),
              \A t \in Tasks : disk'.tasks[t] \in {disk.tasks[t], task[t], Absent},
              \A t \in Tasks : loaded'.tasks[t] \in {loaded.tasks[t], disk.tasks[t], Absent}
       PROVE  Goal
  <2>1. RecordsAreTrue'
    BY <1>16, <1>t, <1>w, RecordsStay
  <2> QED BY <1>16, <1>s, <1>p, <1>a, <1>d, <1>k, <2>1 DEF Goal
<1>17. CASE Activated \/ Persist \/ LoadReads
  <2>1. UNCHANGED <<srv, acked, sends, pollers, confirms, deliveries, task>>
    BY <1>17 DEF Activated, Persist, LoadReads, server, calls
  <2>2. Memory.tasks = task
    BY DEF Memory
  <2>3. disk'.tasks \in {disk.tasks, task} /\ loaded'.tasks \in {loaded.tasks, disk.tasks}
    <3>1. CASE Activated
      BY <3>1 DEF Activated
    <3>2. CASE Persist
      BY <2>2, <3>2 DEF Persist
    <3>3. CASE LoadReads
      BY <3>3 DEF LoadReads
    <3> QED BY <1>17, <3>1, <3>2, <3>3
  <2> QED BY <1>16, <2>1, <2>3
<1>18. CASE Deactivate
  <2>1. UNCHANGED <<srv, acked, sends, pollers, confirms, deliveries, loaded>> /\ task' = NoTasks /\ disk' = Fresh
    BY <1>18 DEF Deactivate, server, calls
  <2>2. \A t \in Tasks : True(NoTasks[t], t, srv', acked') /\ Fresh.tasks[t] = Absent
    BY EmptyTypes, AbsentIsTrue
  <2> QED BY <1>16, <2>1, <2>2
<1>19. CASE ClearFinished
  <2>1. UNCHANGED <<srv, acked, sends, pollers, confirms, deliveries, disk, loaded>>
    BY <1>19 DEF ClearFinished, server, calls, store
  <2>2. \A t \in Tasks : task'[t] \in {task[t], Absent}
    BY <1>19 DEF ClearFinished, Update
  <2> QED BY <1>16, <2>1, <2>2, AbsentIsTrue
<1>20. CASE LoadRestores
  <2>1. UNCHANGED <<srv, acked, sends, pollers, confirms, deliveries, loaded>>
    BY <1>20 DEF LoadRestores, server, calls
  <2>2. [Memory EXCEPT !.token = TRUE].tasks = task
    BY DEF Memory
  <2>3. disk'.tasks \in {disk.tasks, task}
    BY <1>20, <2>2 DEF LoadRestores
  <2>4. loaded.tasks \in [Tasks -> Record]
    BY <1>t DEF TypeOK, Config
  <2>5. \A t \in Tasks : task'[t] \in {loaded.tasks[t], Absent}
    BY <1>20, <2>4, RestoredType DEF LoadRestores
  <2>6. \A t \in Tasks : True(task'[t], t, srv', acked')
    BY <1>t, <1>w, <2>5, TrueStays, AbsentIsTrue DEF RecordsAreTrue
  <2> QED BY <1>16, <2>1, <2>3, <2>6
<1>21. CASE ResumePending
  <2>1. UNCHANGED <<srv, acked, task, sends, confirms, deliveries, disk, loaded>>
        /\ pollers' = PollTasks({TaskId(t) : t \in {u \in Tasks : task[u].status \in Unfinished}})
    BY <1>21 DEF ResumePending, server
  <2>2. \A q \in pollers' : q \in pollers \/ (q.pc = "sleep" /\ \E t \in Tasks : q.key = TaskId(t))
    BY <1>t, <2>1, TaskIdType, PollTasksType
  <2>3. \A t \in Tasks : TaskId(t) # NoId => TaskId(t) = t /\ srv[t] # "none"
    BY <1>t DEF TaskId, RecordsAreTrue, True
  <2>4. ReportsAreTrue'
    BY <1>t, <1>w, <2>1, <2>2, <2>3, ReportsStay DEF Statuses, Terminal
  <2> QED BY <1>s, <1>a, <1>d, <1>k, <1>r, <2>1, <2>4 DEF Goal
<1>22. CASE Kill
  <2>1. /\ UNCHANGED <<srv, acked, disk>> /\ task' = NoTasks /\ loaded' = Fresh
        /\ sends' = [t \in Tasks |-> "none"] /\ confirms' = [t \in Tasks |-> "none"]
        /\ pollers' = {} /\ deliveries' = {}
    BY <1>22 DEF Kill, server
  <2>2. \A t \in Tasks : True(NoTasks[t], t, srv', acked') /\ Fresh.tasks[t] = Absent
    BY EmptyTypes, AbsentIsTrue
  <2>3. RecordsAreTrue'
    BY <1>t, <1>w, <2>1, <2>2, RecordsStay
  <2>4. SentOnce' /\ ReportsAreTrue' /\ StoredIsThere'
    BY <2>1 DEF SentOnce, ReportsAreTrue, StoredIsThere
  <2>5. AnswersAreTrue'
    BY <1>t, <2>1 DEF AnswersAreTrue, Terminal, Unfinished
  <2> QED BY <1>k, <2>1, <2>3, <2>4, <2>5 DEF Goal
<1> QED
  BY <1>1, <1>2, <1>3, <1>4, <1>5, <1>6, <1>7, <1>8, <1>10, <1>11, <1>12, <1>13, <1>14, <1>15, <1>17, <1>18, <1>19,
     <1>20, <1>21, <1>22 DEF Next, User, Serve, Answer, Load

-----------------------------------------------------------------------------
(* One poller for each task. *)

LEMMA OneAfterPollTasks ==
    ASSUME OnePollerEach, NEW K, pollers' = PollTasks(K), UNCHANGED generation
    PROVE  OnePollerEach'
<1> DEFINE new(k) == [key |-> k, generation |-> generation, pc |-> "sleep", retries |-> 0]
<1>1. pollers' = pollers \cup {new(k) : k \in {x \in K : ~Polled(x)}}
  BY DEF PollTasks
<1>2. \A k : new(k).key = k /\ new(k).generation = generation
  OBVIOUS
<1> HIDE DEF new
<1>3. SUFFICES ASSUME NEW p \in pollers', NEW q \in pollers', p.key = q.key, p.generation = q.generation
               PROVE  p = q
  BY DEF OnePollerEach
<1>4. CASE p \in pollers /\ q \in pollers
  BY <1>3, <1>4 DEF OnePollerEach
<1>5. CASE p \notin pollers /\ q \in pollers
  <2>1. PICK k \in K : ~Polled(k) /\ p = new(k)
    BY <1>1, <1>5
  <2> QED BY <1>2, <1>3, <1>5, <2>1 DEF Polled
<1>6. CASE p \in pollers /\ q \notin pollers
  <2>1. PICK k \in K : ~Polled(k) /\ q = new(k)
    BY <1>1, <1>6
  <2> QED BY <1>2, <1>3, <1>6, <2>1 DEF Polled
<1>7. CASE p \notin pollers /\ q \notin pollers
  <2>1. PICK k \in K : p = new(k)
    BY <1>1, <1>7
  <2>2. PICK l \in K : q = new(l)
    BY <1>1, <1>7
  <2> QED BY <1>2, <1>3, <2>1, <2>2
<1> QED BY <1>4, <1>5, <1>6, <1>7

LEMMA OneAfterMove ==
    ASSUME TypeOK, OnePollerEach, NEW p \in pollers, NEW pc, NEW r, MovePoller(p, pc, r)
    PROVE  OnePollerEach'
<1> DEFINE m == [p EXCEPT !.pc = pc, !.retries = r]
<1>1. m.key = p.key /\ m.generation = p.generation
  BY DEF TypeOK, Poller
<1>2. pollers' = (pollers \ {p}) \cup {m}
  BY DEF MovePoller
<1> HIDE DEF m
<1> QED BY <1>1, <1>2 DEF OnePollerEach

LEMMA OneStep == TypeOK /\ OnePollerEach /\ [Next]_vars => OnePollerEach'
<1> SUFFICES ASSUME TypeOK, OnePollerEach, [Next]_vars PROVE OnePollerEach'
  OBVIOUS
<1>1. pollers' \subseteq pollers => OnePollerEach'
  BY DEF OnePollerEach
<1>2. ASSUME NEW t \in Tasks, SendAccepted(t) PROVE OnePollerEach'
  BY <1>2, OneAfterPollTasks DEF SendAccepted, life
<1>3. ASSUME NEW p \in pollers, Poll(p) PROVE OnePollerEach'
  <2>1. pollers' = pollers \ {p} \/ \E pc, r : MovePoller(p, pc, r)
    BY <1>3 DEF Poll, PollWakes, ServerAnswersPoll, PollAgain, PollFails, PollThrows, PollReports
  <2> QED BY <1>1, <2>1, OneAfterMove
<1>4. CASE ResumePending
  BY <1>4, OneAfterPollTasks DEF ResumePending, life
<1>5. ASSUME NEW t \in Tasks, User(t) \/ Serve(t) \/ SendFails(t) \/ ConfirmAnswered(t) \/ ConfirmFails(t)
                              \/ ServerProgresses(t) \/ ServerExpires(t)
      PROVE  OnePollerEach'
  BY <1>1, <1>5 DEF User, Serve, Send, Ask, RetryPush, FileTouched, ServerReceives, ServerDecides, SendFails,
     ConfirmAnswered, ConfirmFails, ServerProgresses, ServerExpires, calls
<1>6. ASSUME NEW d \in deliveries, Deliver(d) PROVE OnePollerEach'
  BY <1>1, <1>6 DEF Deliver, DeliveryStarts, DeliveryFails, WriterLooks, WriterCreates, WriterModifies,
     DeliveryAcks, AckAnswered
<1>7. CASE Activate \/ Activated \/ ActivationFails \/ Deactivate \/ ClearFinished \/ Persist \/ LoadReads
           \/ LoadRestores \/ Kill \/ UNCHANGED vars
  BY <1>1, <1>7 DEF Activate, Activated, ActivationFails, Deactivate, ClearFinished, Persist, LoadReads,
     LoadRestores, Kill, calls, vars
<1> QED BY <1>2, <1>3, <1>4, <1>5, <1>6, <1>7 DEF Next, Answer, Load

-----------------------------------------------------------------------------
(* No task is forgotten, unless an answer with a good status may be one     *)
(* that cannot be read: polling ends then (PollThrows).                     *)

ReadableReports == "garbled" \notin Faults

Kept(t) == task'[t].status = task[t].status /\ task'[t].known = task[t].known

\* There still is a poller of the task and the account of p.
StillPolled(p) == \E q \in pollers' : q.key = p.key /\ q.generation = p.generation

LEMMA KeptId ==
    ASSUME NEW t \in Tasks, task'[t].known = task[t].known
    PROVE  TaskId(t)' = TaskId(t)
BY DEF TaskId

LEMMA StillWatched ==
    ASSUME UnfinishedIsWatched, phase = "ready", account = "on", generation' = generation,
           NEW t \in Tasks, Kept(t), task'[t].status \in Unfinished,
           t \notin confirmed', confirmed \subseteq confirmed',
           sends[t] # "none" => sends'[t] # "none",
           \A p \in pollers : p.key = TaskId(t) /\ p.generation = generation => StillPolled(p)
    PROVE  sends'[t] # "none" \/ \E q \in pollers' : q.key = TaskId(t)' /\ q.generation = generation'
<1>1. task[t].status \in Unfinished /\ t \notin confirmed /\ TaskId(t)' = TaskId(t)
  BY KeptId DEF Kept
<1>2. sends[t] # "none" \/ \E p \in pollers : p.key = TaskId(t) /\ p.generation = generation
  BY <1>1 DEF UnfinishedIsWatched
<1> QED BY <1>1, <1>2 DEF StillPolled

\* A step within one run of an account that calls for no new poll.
LEMMA WatchKept ==
    ASSUME WatchInv, WorldKept, pollers \subseteq Poller, UNCHANGED <<account, stopped, generation, phase>>,
           UNCHANGED <<disk, loaded>>,
           \A t \in Tasks : task[t].status = "absent" => task'[t].status = "absent",
           \A t \in Tasks : sends[t] = "none" => sends'[t] = "none",
           \A q \in pollers' : /\ q.pc # "garbled"
                               /\ \E p \in pollers : q.key = p.key /\ q.generation = p.generation,
           phase = "ready" /\ account = "on" => UnfinishedIsWatched'
    PROVE  WatchInv'
<1> USE DEF WatchInv
<1>1. TasksHaveAccount'
  BY DEF TasksHaveAccount, NoneListed
<1>2. StartIsQuiet' /\ AccountRuns'
  BY DEF StartIsQuiet, AccountRuns
<1>3. FormerIsForgotten'
  <2>1. SUFFICES ASSUME NEW q \in pollers', q.generation # generation, q.key # NoId PROVE ~Listed(q.key)'
    BY DEF FormerIsForgotten
  <2>2. PICK p \in pollers : q.key = p.key /\ q.generation = p.generation
    OBVIOUS
  <2>3. task[q.key].status = "absent"
    BY <2>1, <2>2 DEF FormerIsForgotten, Listed
  <2>4. q.key \in Tasks
    BY <2>1, <2>2 DEF Poller
  <2> QED BY <2>3, <2>4 DEF Listed
<1>4. ReportsAreReadable'
  BY DEF ReportsAreReadable
<1>5. UnfinishedIsWatched'
  BY DEF UnfinishedIsWatched
<1> QED BY <1>1, <1>2, <1>3, <1>4, <1>5

LEMMA WatchStep == ReadableReports /\ AgentInv /\ WatchInv /\ [Next]_vars => WatchInv'
<1> SUFFICES ASSUME ReadableReports, AgentInv, WatchInv, [Next]_vars PROVE WatchInv'
  OBVIOUS
<1>w. WorldKept
  BY WorldStep
<1>t. /\ TypeOK /\ ReportsAreTrue /\ AnswersAreTrue
      /\ pollers \subseteq Poller /\ task \in [Tasks -> Record] /\ deliveries \subseteq Delivery
      /\ sends \in [Tasks -> {"none", "sent", "accepted", "refused"}]
  BY DEF AgentInv, TypeOK
<1>i. /\ TasksHaveAccount /\ StartIsQuiet /\ AccountRuns /\ FormerIsForgotten
      /\ ReportsAreReadable /\ UnfinishedIsWatched
  BY DEF WatchInv
<1>q. /\ \A q \in pollers : q.pc # "garbled" /\ \E p \in pollers : q.key = p.key /\ q.generation = p.generation
      /\ pollers' = pollers => \A p \in pollers : StillPolled(p)
  BY <1>i DEF ReportsAreReadable, StillPolled
\* Nothing that is watched changes.
<1>1. ASSUME UNCHANGED <<account, stopped, generation, phase, disk, loaded, pollers, confirmed>>,
             \A t \in Tasks : Kept(t),
             \A t \in Tasks : sends'[t] = "none" <=> sends[t] = "none"
      PROVE  WatchInv'
  <2>1. phase = "ready" /\ account = "on" => UnfinishedIsWatched'
    BY <1>1, <1>i, <1>q, StillWatched DEF UnfinishedIsWatched
  <2> QED BY <1>1, <1>q, <1>t, <1>w, <2>1, WatchKept DEF Kept
<1>2. ASSUME NEW t \in Tasks, Ask(t, "confirm") \/ Ask(t, "cancel") \/ FileTouched(t) \/ ServerProgresses(t)
                              \/ ServerExpires(t) \/ ServerDecides(t) \/ ConfirmFails(t)
      PROVE  WatchInv'
  <2>1. UNCHANGED <<account, stopped, generation, phase, disk, loaded, pollers, confirmed, task, sends>>
    BY <1>2 DEF Ask, FileTouched, ServerProgresses, ServerExpires, ServerDecides, ConfirmFails, calls, life, store
  <2> QED BY <1>1, <2>1 DEF Kept
<1>3. ASSUME NEW t \in Tasks, ServerReceives(t) PROVE WatchInv'
  <2>1. UNCHANGED <<account, stopped, generation, phase, disk, loaded, pollers, confirmed, task>>
    BY <1>3 DEF ServerReceives, life, store
  <2>2. \A u \in Tasks : sends'[u] = "none" <=> sends[u] = "none"
    BY <1>3, <1>t DEF ServerReceives
  <2> QED BY <1>1, <2>1, <2>2 DEF Kept
<1>4. ASSUME NEW k, NEW s \in Deliveries, SetDelivery(k, s) PROVE \A t \in Tasks : Kept(t)
  <2>1. task' = [t \in Tasks |-> IF t \in WithId(k) THEN [task[t] EXCEPT !.delivery = s] ELSE task[t]]
    BY <1>4, DeliverySet
  <2>2. \A t \in Tasks : [task[t] EXCEPT !.delivery = s].status = task[t].status
                         /\ [task[t] EXCEPT !.delivery = s].known = task[t].known
    BY <1>t DEF Record
  <2> QED BY <2>1, <2>2 DEF Kept
<1>5. ASSUME NEW t \in Tasks, RetryPush(t) PROVE WatchInv'
  <2>1. UNCHANGED <<account, stopped, generation, phase, disk, loaded, pollers, confirmed, sends>>
    BY <1>5 DEF RetryPush, life, store
  <2>2. \A u \in Tasks : Kept(u)
    BY <1>4, <1>5 DEF RetryPush, Deliveries
  <2> QED BY <1>1, <2>1, <2>2
<1>6. ASSUME NEW d \in deliveries, Deliver(d) PROVE WatchInv'
  <2>1. UNCHANGED <<account, stopped, generation, phase, disk, loaded, pollers, confirmed, sends>>
    BY <1>6 DEF Deliver, DeliveryStarts, DeliveryFails, WriterLooks, WriterCreates, WriterModifies,
       DeliveryAcks, AckAnswered, life, store
  <2>2. UNCHANGED task \/ \E s \in Deliveries : SetDelivery(d.task, s)
    BY <1>6 DEF Deliver, DeliveryStarts, DeliveryFails, WriterLooks, WriterCreates, WriterModifies,
       DeliveryAcks, AckAnswered, Deliveries
  <2>3. \A u \in Tasks : Kept(u)
    BY <1>4, <2>2 DEF Kept
  <2> QED BY <1>1, <2>1, <2>3
<1>7. CASE UNCHANGED vars
  BY <1>1, <1>7 DEF vars, calls, life, store, Kept
<1>8. ASSUME NEW t \in Tasks, Send(t) PROVE WatchInv'
  <2>1. /\ UNCHANGED <<account, stopped, generation, phase, disk, loaded, pollers, confirmed>>
        /\ srv[t] = "none" /\ account = "on" /\ phase \in {"restored", "ready"}
    BY <1>8 DEF Send, UserActs, life, store
  <2>0. sends' = [sends EXCEPT ![t] = "sent"]
    BY <1>8 DEF Send
  <2>2. \A u \in Tasks : u # t => task'[u] = task[u]
    BY <1>8 DEF Send, Update
  <2>3. TasksHaveAccount' /\ StartIsQuiet' /\ AccountRuns' /\ ReportsAreReadable'
    BY <1>i, <2>1 DEF TasksHaveAccount, NoneListed, StartIsQuiet, AccountRuns, ReportsAreReadable
  <2>4. FormerIsForgotten'
    <3>1. SUFFICES ASSUME NEW p \in pollers, p.generation # generation, p.key # NoId PROVE ~Listed(p.key)'
      BY <2>1 DEF FormerIsForgotten
    <3>2. p.key # t /\ p.key \in Tasks /\ ~Listed(p.key)
      BY <1>i, <1>t, <2>1, <3>1 DEF ReportsAreTrue, FormerIsForgotten, Poller
    <3> QED BY <2>2, <3>2 DEF Listed
  <2>5. UnfinishedIsWatched'
    <3>1. SUFFICES ASSUME phase = "ready", account = "on", NEW u \in Tasks, task'[u].status \in Unfinished,
                          u \notin confirmed'
                   PROVE  sends'[u] # "none" \/ \E p \in pollers' : p.key = TaskId(u)' /\ p.generation = generation'
      BY <2>1 DEF UnfinishedIsWatched
    <3>2. CASE u = t
      <4>1. sends'[t] = "sent"
        BY <1>t, <2>0
      <4> QED BY <3>2, <4>1
    <3>3. CASE u # t
      <4>1. sends'[u] = sends[u] /\ Kept(u) /\ generation' = generation
        BY <1>t, <2>0, <2>1, <2>2, <3>3 DEF Kept
      <4>2. \A p \in pollers : StillPolled(p)
        BY <1>q, <2>1
      <4> QED BY <1>i, <2>1, <3>1, <4>1, <4>2, StillWatched
    <3> QED BY <3>2, <3>3
  <2> QED BY <2>3, <2>4, <2>5 DEF WatchInv
<1>9. ASSUME NEW t \in Tasks, SendAccepted(t) PROVE WatchInv'
  <2>1. /\ UNCHANGED <<account, stopped, generation, phase, disk, loaded, confirmed>> /\ sends[t] = "accepted"
        /\ sends' = [sends EXCEPT ![t] = "none"] /\ pollers' = PollTasks({t})
    BY <1>9 DEF SendAccepted, life, store
  <2>2. \A u \in Tasks : /\ u # t \/ ~Listed(u) => task'[u] = task[u]
                         /\ u = t /\ Listed(u) => task'[u] = [task[u] EXCEPT !.known = TRUE]
    BY <1>9 DEF SendAccepted, Update
  <2>3. \A u \in Tasks : task'[u].status = task[u].status /\ (u = t /\ Listed(u) => task'[u].known)
    BY <1>t, <2>2 DEF Record
  <2>4. /\ pollers \subseteq pollers'
        /\ \A q \in pollers' : q \in pollers \/ (q.pc = "sleep" /\ q.generation = generation)
        /\ \E p \in pollers' : p.key = t /\ p.generation = generation
    BY <1>t, <2>1, PollTasksType
  <2>5. phase \notin {"constructed", "read"}
    BY <1>i, <2>1 DEF StartIsQuiet
  <2>6. TasksHaveAccount' /\ StartIsQuiet' /\ AccountRuns'
    BY <1>i, <2>1, <2>3, <2>5 DEF TasksHaveAccount, NoneListed, StartIsQuiet, AccountRuns
  <2>7. FormerIsForgotten' /\ ReportsAreReadable'
    <3>1. \A q \in pollers : q.key # NoId => q.key \in Tasks
      BY <1>t DEF Poller
    <3> QED BY <1>i, <2>1, <2>3, <2>4, <3>1 DEF FormerIsForgotten, ReportsAreReadable, Listed
  <2>8. UnfinishedIsWatched'
    <3>1. SUFFICES ASSUME phase = "ready", account = "on", NEW u \in Tasks, task'[u].status \in Unfinished,
                          u \notin confirmed'
                   PROVE  sends'[u] # "none" \/ \E p \in pollers' : p.key = TaskId(u)' /\ p.generation = generation'
      BY <2>1 DEF UnfinishedIsWatched
    <3>2. CASE u = t
      <4>1. Listed(u)
        BY <2>3, <3>1 DEF Listed, Unfinished
      <4>2. TaskId(u)' = t
        BY <2>3, <3>2, <4>1 DEF TaskId
      <4> QED BY <2>1, <2>4, <4>2
    <3>3. CASE u # t
      <4>1. \A p \in pollers : StillPolled(p)
        BY <2>4 DEF StillPolled
      <4> QED BY <1>i, <1>t, <2>1, <2>2, <3>1, <3>3, <4>1, StillWatched DEF Kept
    <3> QED BY <3>2, <3>3
  <2> QED BY <2>6, <2>7, <2>8 DEF WatchInv
\* The records of S come to an end, and only they may lose their request or their pollers.
<1>r. ASSUME NEW S \in SUBSET Tasks, NEW s \in Statuses, SetStatus(S, s)
      PROVE  /\ \A t \in S : task'[t].status = s
             /\ \A t \in Tasks \ S : task'[t] = task[t]
  <2>1. task' = [t \in Tasks |-> IF t \in S THEN [task[t] EXCEPT !.status = s] ELSE task[t]]
    BY <1>r, Updated
  <2> QED BY <1>t, <2>1 DEF Record
<1>10. ASSUME NEW S \in SUBSET Tasks, NEW s \in Statuses,
              \A t \in S : Listed(t) /\ task'[t].status = s,
              \A t \in Tasks \ S : task'[t] = task[t],
              UNCHANGED <<account, stopped, generation, phase, disk, loaded>>, pollers' \subseteq pollers,
              confirmed \subseteq confirmed',
              \A t \in Tasks : sends[t] = "none" => sends'[t] = "none",
              \A t \in Tasks \ S : /\ Listed(t) => sends'[t] = sends[t]
                                   /\ Listed(t) => \A p \in pollers : p.key = TaskId(t) => p \in pollers',
              \A t \in S : s \in Unfinished => t \in confirmed'
       PROVE  WatchInv'
  <2>3. \A t \in Tasks : task[t].status = "absent" => task'[t].status = "absent"
    BY <1>10 DEF Listed
  <2>4. phase = "ready" /\ account = "on" => UnfinishedIsWatched'
    <3>1. SUFFICES ASSUME phase = "ready", account = "on", NEW u \in Tasks, task'[u].status \in Unfinished,
                          u \notin confirmed'
                   PROVE  sends'[u] # "none" \/ \E p \in pollers' : p.key = TaskId(u)' /\ p.generation = generation'
      BY DEF UnfinishedIsWatched
    <3>2. u \notin S
      BY <1>10, <3>1
    <3>3. Kept(u) /\ Listed(u)
      BY <1>10, <3>1, <3>2 DEF Kept, Listed, Unfinished
    <3>4. \A p \in pollers : p.key = TaskId(u) /\ p.generation = generation => StillPolled(p)
      BY <1>10, <3>2, <3>3 DEF StillPolled
    <3> QED BY <1>10, <1>i, <3>1, <3>2, <3>3, <3>4, StillWatched
  <2> QED BY <1>10, <1>q, <1>t, <1>w, <2>3, <2>4, WatchKept
<1>11. ASSUME NEW t \in Tasks, SendFails(t) PROVE WatchInv'
  <2> DEFINE S == {t} \cap {u \in Tasks : Listed(u)}
  <2>1. /\ UNCHANGED <<account, stopped, generation, phase, disk, loaded, pollers, confirmed>>
        /\ sends' = [sends EXCEPT ![t] = "none"] /\ SetStatus(S, "failed")
    BY <1>11 DEF SendFails, life, store
  <2>2. \A u \in Tasks : sends[u] = "none" => sends'[u] = "none"
    BY <1>t, <2>1
  <2>3. S \in SUBSET Tasks /\ (\A u \in S : Listed(u)) /\ \A u \in Tasks \ S : Listed(u) => u # t
    OBVIOUS
  <2>4. "failed" \in Statuses /\ "failed" \notin Unfinished
    BY DEF Statuses, Unfinished
  <2> HIDE DEF S
  <2>5. (\A u \in S : task'[u].status = "failed") /\ \A u \in Tasks \ S : task'[u] = task[u]
    BY <1>r, <2>1, <2>3, <2>4
  <2> QED BY <1>10, <1>t, <2>1, <2>2, <2>3, <2>4, <2>5
<1>12. ASSUME NEW t \in Tasks, ConfirmAnswered(t) PROVE WatchInv'
  <2>1. /\ UNCHANGED <<account, stopped, generation, phase, disk, loaded, pollers, sends>>
        /\ confirms[t] \in Statuses /\ SetStatus(WithId(t), confirms[t]) /\ confirmed \subseteq confirmed'
    BY <1>12 DEF ConfirmAnswered, life, store
  <2>2. WithId(t) \subseteq {t} /\ WithId(t) \subseteq Tasks /\ \A u \in WithId(t) : Listed(u)
    BY OneWithId DEF WithId
  <2>3. confirms[t] \in Unfinished => t \in confirmed'
    BY <1>12 DEF ConfirmAnswered
  <2>4. /\ \A u \in WithId(t) : task'[u].status = confirms[t]
        /\ \A u \in Tasks \ WithId(t) : task'[u] = task[u]
    BY <1>r, <2>1, <2>2
  <2> QED BY <1>10, <2>1, <2>2, <2>3, <2>4
<1>13. ASSUME NEW p \in pollers, Poll(p) PROVE WatchInv'
  <2>0. /\ UNCHANGED <<account, stopped, generation, phase, disk, loaded, sends, confirmed>>
        /\ p \in Poller /\ p.pc # "garbled"
    BY <1>13, <1>t, <1>i DEF Poll, PollWakes, ServerAnswersPoll, PollAgain, PollFails, PollThrows, PollReports,
       life, store, ReportsAreReadable
  <2>1. ASSUME NEW pc, NEW r, pc # "garbled", MovePoller(p, pc, r)
        PROVE  /\ \A q \in pollers' : /\ q.pc # "garbled"
                                      /\ \E o \in pollers : q.key = o.key /\ q.generation = o.generation
               /\ \A o \in pollers : StillPolled(o)
    <3> DEFINE m == [p EXCEPT !.pc = pc, !.retries = r]
    <3>1. m.key = p.key /\ m.generation = p.generation /\ m.pc = pc
      BY <2>0 DEF Poller
    <3>2. pollers' = (pollers \ {p}) \cup {m}
      BY <2>1 DEF MovePoller
    <3> HIDE DEF m
    <3>3. \A q \in pollers' : q = m \/ q \in pollers
      BY <3>2
    <3>4. \A o \in pollers : o \in pollers' \/ o = p
      BY <3>2
    <3>5. m \in pollers'
      BY <3>2
    <3>6. \A o \in pollers : StillPolled(o)
      BY <3>1, <3>4, <3>5 DEF StillPolled
    <3> QED BY <1>q, <2>1, <3>1, <3>3, <3>6
  <2>2. ASSUME UNCHANGED task, NEW pc, NEW r, pc # "garbled", MovePoller(p, pc, r) PROVE WatchInv'
    <3>1. phase = "ready" /\ account = "on" => UnfinishedIsWatched'
      BY <1>i, <2>0, <2>1, <2>2, StillWatched DEF UnfinishedIsWatched, Kept
    <3>2. \A q \in pollers' : /\ q.pc # "garbled"
                              /\ \E o \in pollers : q.key = o.key /\ q.generation = o.generation
      BY <2>1, <2>2
    <3> QED BY <1>t, <1>w, <2>0, <2>2, <3>1, <3>2, WatchKept
  <2>3. CASE PollWakes(p)
    <3>1. CASE Live(p.generation)
      BY <2>2, <2>3, <3>1 DEF PollWakes
    <3>2. CASE ~Live(p.generation)
      <4>1. UNCHANGED task /\ pollers' = pollers \ {p}
        BY <2>3, <3>2 DEF PollWakes
      <4>2. account = "on" => p.generation # generation
        BY <1>i, <3>2 DEF AccountRuns, Live
      <4>3. account = "on" => \A o \in pollers : o.generation = generation => StillPolled(o)
        BY <4>1, <4>2 DEF StillPolled
      <4>4. phase = "ready" /\ account = "on" => UnfinishedIsWatched'
        BY <1>i, <2>0, <4>1, <4>3, StillWatched DEF UnfinishedIsWatched, Kept
      <4>5. \A q \in pollers' : /\ q.pc # "garbled"
                                /\ \E o \in pollers : q.key = o.key /\ q.generation = o.generation
        BY <1>q, <4>1
      <4> QED BY <1>t, <1>w, <2>0, <4>1, <4>4, <4>5, WatchKept
    <3> QED BY <3>1, <3>2
  <2>4. CASE PollAgain(p)
    BY <2>2, <2>4 DEF PollAgain
  <2>5. CASE ServerAnswersPoll(p)
    <3>1. UNCHANGED task /\ \E a : a # "garbled" /\ MovePoller(p, a, p.retries)
      <4>1. \A s : s # "garbled" => Reported(s) # "garbled"
        BY DEF Reported
      <4>2. p.key # NoId => srv[p.key] # "garbled"
        BY <1>t, <2>0 DEF TypeOK, Poller
      <4> QED BY <2>5, <4>1, <4>2 DEF ServerAnswersPoll, ReadableReports
    <3> QED BY <2>2, <3>1
  <2>6. /\ WithId(p.key) \in SUBSET Tasks /\ \A u \in WithId(p.key) : Listed(u) /\ TaskId(u) = p.key
        /\ \A u \in Tasks \ WithId(p.key) : Listed(u) => TaskId(u) # p.key
    BY DEF WithId
  <2>7. CASE PollFails(p)
    <3>1. pollers' = pollers \ {p} /\ SetStatus(WithId(p.key), "failed")
      BY <2>7 DEF PollFails
    <3>2. "failed" \in Statuses /\ "failed" \notin Unfinished
      BY DEF Statuses, Unfinished
    <3>3. /\ \A u \in WithId(p.key) : task'[u].status = "failed"
          /\ \A u \in Tasks \ WithId(p.key) : task'[u] = task[u]
      BY <1>r, <2>6, <3>1, <3>2
    <3> QED BY <1>10, <2>0, <2>6, <3>1, <3>2, <3>3
  <2>8. CASE PollReports(p)
    <3>1. p.pc \in Statuses /\ p.key \in Tasks /\ p.key # NoId
      BY <1>t, <2>0, <2>8 DEF PollReports, ReportsAreTrue, Poller
    <3>2. /\ \A u \in WithId(p.key) : task'[u].status = p.pc /\ task'[u].known = task[u].known
          /\ \A u \in Tasks \ WithId(p.key) : task'[u] = task[u]
      BY <1>t, <2>6, <2>8 DEF PollReports, Update, Record
    <3>3. CASE p.pc \notin Unfinished
      <4>1. pollers' = pollers \ {p}
        BY <2>8, <3>3 DEF PollReports
      <4> QED BY <1>10, <2>0, <2>6, <3>1, <3>2, <3>3, <4>1
    <3>4. CASE p.pc \in Unfinished
      <4>1. MovePoller(p, "sleep", 0)
        BY <2>8, <3>4 DEF PollReports
      <4>2. /\ \A q \in pollers' : /\ q.pc # "garbled"
                                   /\ \E o \in pollers : q.key = o.key /\ q.generation = o.generation
            /\ \A o \in pollers : StillPolled(o)
        BY <2>1, <4>1
      <4>3. \A u \in Tasks : task[u].status = "absent" => task'[u].status = "absent"
        BY <2>6, <3>2 DEF Listed
      <4>4. phase = "ready" /\ account = "on" => UnfinishedIsWatched'
        <5>1. SUFFICES ASSUME phase = "ready", account = "on", NEW u \in Tasks, task'[u].status \in Unfinished,
                              u \notin confirmed'
                       PROVE  sends'[u] # "none" \/ \E q \in pollers' : q.key = TaskId(u)' /\ q.generation = generation'
          BY DEF UnfinishedIsWatched
        <5>2. CASE u \notin WithId(p.key)
          BY <1>i, <2>0, <3>2, <4>2, <5>1, <5>2, StillWatched DEF Kept
        <5>3. CASE u \in WithId(p.key)
          <6>1. u = p.key /\ TaskId(u)' = p.key /\ Listed(p.key)
            BY <2>6, <3>1, <3>2, <5>3, OneWithId, KeptId
          <6>2. p.generation = generation
            BY <1>i, <3>1, <6>1 DEF FormerIsForgotten
          <6> QED BY <2>0, <4>2, <6>1, <6>2 DEF StillPolled
        <5> QED BY <5>2, <5>3
      <4> QED BY <1>t, <1>w, <2>0, <4>2, <4>3, <4>4, WatchKept
    <3> QED BY <3>3, <3>4
  <2> QED BY <1>13, <2>0, <2>3, <2>4, <2>5, <2>7, <2>8 DEF Poll, PollThrows
<1>14. CASE Activate \/ ActivationFails
  <2>1. /\ UNCHANGED <<task, sends, pollers, generation, phase, disk, loaded>>
        /\ account # "on" /\ account' # "on" /\ (account' # "off" => ~stopped') /\ phase \notin {"constructed", "read"}
    BY <1>14, <1>i DEF Activate, ActivationFails, UserActs, calls, store, StartIsQuiet
  <2> QED BY <1>i, <2>1 DEF WatchInv, TasksHaveAccount, NoneListed, StartIsQuiet, AccountRuns, FormerIsForgotten,
          ReportsAreReadable, UnfinishedIsWatched, Listed
<1>15. CASE Activated
  <2>1. /\ UNCHANGED <<task, sends, pollers, stopped, generation, phase, loaded>>
        /\ account = "activating" /\ account' = "on" /\ disk'.token
    BY <1>15 DEF Activated, calls
  <2>2. TasksHaveAccount' /\ StartIsQuiet' /\ AccountRuns' /\ FormerIsForgotten' /\ ReportsAreReadable'
    BY <1>i, <2>1 DEF TasksHaveAccount, NoneListed, StartIsQuiet, AccountRuns, FormerIsForgotten,
       ReportsAreReadable, Listed
  <2>3. UnfinishedIsWatched'
    BY <1>i, <2>1 DEF TasksHaveAccount, NoneListed, UnfinishedIsWatched, Unfinished
  <2> QED BY <2>2, <2>3 DEF WatchInv
<1>16. CASE Deactivate
  <2>1. /\ UNCHANGED <<sends, pollers, phase, loaded>> /\ task' = NoTasks /\ disk' = Fresh /\ account' = "off"
        /\ phase \notin {"constructed", "read"}
    BY <1>16 DEF Deactivate, UserActs, calls
  <2>2. \A t \in Tasks : task'[t].status = "absent" /\ disk'.tasks[t].status = "absent"
    BY <2>1, EmptyTypes
  <2>3. \A p \in pollers : p.key # NoId => p.key \in Tasks
    BY <1>t DEF Poller
  <2> QED BY <1>i, <2>1, <2>2, <2>3 DEF WatchInv, TasksHaveAccount, NoneListed, StartIsQuiet, AccountRuns,
          FormerIsForgotten, ReportsAreReadable, UnfinishedIsWatched, Listed
<1>17. CASE ClearFinished
  <2>1. UNCHANGED <<account, stopped, generation, phase, disk, loaded, sends, pollers, confirmed>>
    BY <1>17 DEF ClearFinished, calls, life, store
  <2>2. \A t \in Tasks : task'[t] = IF task[t].status \notin Unfinished THEN Absent ELSE task[t]
    BY <1>17 DEF ClearFinished, Update
  <2>3. \A t \in Tasks : task'[t] = task[t] \/ task'[t].status = "absent"
    BY <2>2, EmptyTypes
  <2>4. phase = "ready" /\ account = "on" => UnfinishedIsWatched'
    <3>1. \A t \in Tasks : task'[t].status \in Unfinished => Kept(t)
      BY <2>3 DEF Unfinished, Kept
    <3> QED BY <1>i, <1>q, <2>1, <3>1, StillWatched DEF UnfinishedIsWatched
  <2> QED BY <1>q, <1>t, <1>w, <2>1, <2>3, <2>4, WatchKept
<1>18. CASE Persist \/ LoadReads
  <2>1. UNCHANGED <<task, sends, pollers, confirmed, account, stopped, generation>>
    BY <1>18 DEF Persist, LoadReads, calls, life
  <2>2. /\ phase' = phase \/ (phase = "constructed" /\ phase' = "read")
        /\ disk' = disk \/ (disk'.token = (account = "on") /\ disk'.tasks = task)
        /\ loaded' = loaded \/ loaded' = disk
    <3>1. CASE Persist
      BY <3>1 DEF Persist, Memory
    <3>2. CASE LoadReads
      BY <3>2 DEF LoadReads
    <3> QED BY <1>18, <3>1, <3>2
  <2>3. TasksHaveAccount'
    BY <1>i, <2>1, <2>2 DEF TasksHaveAccount, NoneListed
  <2>4. StartIsQuiet' /\ AccountRuns' /\ FormerIsForgotten' /\ ReportsAreReadable'
    BY <1>i, <2>1, <2>2 DEF StartIsQuiet, AccountRuns, FormerIsForgotten, ReportsAreReadable, Listed
  <2>5. UnfinishedIsWatched'
    <3>1. phase' = "ready" => phase = "ready"
      BY <2>2
    <3> QED BY <1>i, <2>1, <3>1 DEF UnfinishedIsWatched, TaskId
  <2> QED BY <2>3, <2>4, <2>5 DEF WatchInv
<1>19. CASE LoadRestores
  <2>1. /\ UNCHANGED <<sends, pollers, generation, loaded>> /\ phase = "read" /\ pollers = {}
        /\ ~stopped' /\ task' = Restored(loaded.tasks)
        /\ loaded.token => phase' = "restored" /\ account' = "on"
        /\ ~loaded.token => phase' = "ready" /\ account' = "off" /\ disk' = disk
    BY <1>19, <1>i DEF LoadRestores, StartIsQuiet, calls
  <2>2. loaded.token => disk'.token
    BY <1>19 DEF LoadRestores, Memory
  <2>3. ~loaded.token => NoneListed(task)'
    <3>1. loaded.tasks \in [Tasks -> Record]
      BY <1>t DEF TypeOK, Config
    <3> QED BY <1>i, <2>1, <3>1, RestoredType, EmptyTypes DEF TasksHaveAccount, NoneListed
  <2>4. TasksHaveAccount'
    <3>1. CASE loaded.token
      BY <2>1, <2>2, <3>1 DEF TasksHaveAccount
    <3>2. CASE ~loaded.token
      BY <1>i, <2>1, <2>3, <3>2 DEF TasksHaveAccount, NoneListed
    <3> QED BY <3>1, <3>2
  <2>5. UnfinishedIsWatched'
    BY <2>1 DEF UnfinishedIsWatched
  <2> QED BY <2>1, <2>4, <2>5 DEF WatchInv, StartIsQuiet, AccountRuns, FormerIsForgotten, ReportsAreReadable
<1>20. CASE ResumePending
  <2> DEFINE K == {TaskId(t) : t \in {u \in Tasks : task[u].status \in Unfinished}}
  <2>1. /\ UNCHANGED <<srv, task, sends, disk, loaded, account, stopped, generation>>
        /\ phase = "restored" /\ phase' = "ready" /\ pollers' = PollTasks(K)
    BY <1>20 DEF ResumePending, server, life
  <2>2. K \subseteq Tasks \cup {NoId}
    BY TaskIdType
  <2>3. \A t \in Tasks : task[t].status \in Unfinished => TaskId(t) \in K
    OBVIOUS
  <2> HIDE DEF K
  <2>4. /\ \A q \in pollers' : q \in pollers \/ (q.pc = "sleep" /\ q.generation = generation)
        /\ \A k \in K : \E q \in pollers' : q.key = k /\ q.generation = generation
    BY <1>t, <2>1, <2>2, PollTasksType
  <2>5. UnfinishedIsWatched'
    BY <2>1, <2>3, <2>4 DEF UnfinishedIsWatched, TaskId
  <2>6. TasksHaveAccount' /\ StartIsQuiet' /\ AccountRuns'
    BY <1>i, <2>1 DEF TasksHaveAccount, NoneListed, StartIsQuiet, AccountRuns
  <2>7. FormerIsForgotten' /\ ReportsAreReadable'
    BY <1>i, <2>1, <2>4 DEF FormerIsForgotten, ReportsAreReadable, Listed
  <2> QED BY <2>5, <2>6, <2>7 DEF WatchInv
<1>21. CASE Kill
  <2>1. /\ disk' = disk /\ task' = NoTasks /\ loaded' = Fresh /\ pollers' = {} /\ account' = "off"
        /\ sends' = [t \in Tasks |-> "none"] /\ phase' = "constructed"
    BY <1>21 DEF Kill
  <2>2. \A t \in Tasks : task'[t].status = "absent" /\ loaded'.tasks[t].status = "absent"
    BY <2>1, EmptyTypes
  <2> QED BY <1>i, <2>1, <2>2 DEF WatchInv, TasksHaveAccount, NoneListed, StartIsQuiet, AccountRuns,
          FormerIsForgotten, ReportsAreReadable, UnfinishedIsWatched
<1> QED
  BY <1>2, <1>3, <1>5, <1>6, <1>7, <1>8, <1>9, <1>11, <1>12, <1>13, <1>14, <1>15, <1>16, <1>17, <1>18, <1>19, <1>20,
     <1>21 DEF Next, User, Serve, Answer, Load

-----------------------------------------------------------------------------
(* The theorems. *)

LEMMA AgentStep == AgentInv /\ [Next]_vars => AgentInv'
BY TypeStep, TruthStep DEF AgentInv

\* The types hold and the agent's records, reports, answers and deliveries are true.
THEOREM AgentIsTrue == Spec => []AgentInv
<1>1. Init => AgentInv
  BY InitAgent
<1> QED BY <1>1, AgentStep, PTL DEF Spec

\* The variables keep their types, and every poller and delivery is at one of
\* the steps of pollTask and deliverArtifacts.
THEOREM TypeCorrect == Spec => []TypeOK
<1>1. AgentInv => TypeOK
  BY DEF AgentInv
<1> QED BY <1>1, AgentIsTrue, PTL

\* What is shown as done, or as cancelled, the server has done or cancelled,
\* whatever is lost, comes late or was restored.
THEOREM Shown == Spec => []ShownIsServed
<1>1. AgentInv => ShownIsServed
  BY DEF AgentInv, RecordsAreTrue, True, Terminal, ShownIsServed
<1> QED BY <1>1, AgentIsTrue, PTL

\* The server is told of a file that is in the vault, and a task is shown as
\* delivered when the server was told, for any number of deliveries at once.
THEOREM Delivered == Spec => []DeliveredIsStored
<1>1. AgentInv => DeliveredIsStored
  BY DEF AgentInv, RecordsAreTrue, True, AckedIsThere, DeliveredIsStored
<1> QED BY <1>1, AgentIsTrue, PTL

\* A task is not polled twice at the same time, however often a start or an
\* answer calls pollTask for it.
THEOREM PolledOnce == Spec => []OnePollerEach
<1>1. Init => OnePollerEach
  BY InitAgent
<1>2. TypeOK /\ OnePollerEach /\ [Next]_vars => OnePollerEach'
  BY OneStep
<1> QED BY <1>1, <1>2, TypeCorrect, PTL DEF Spec

\* A task shown as queued or running is being sent or polled, unless the
\* answer to its confirmation set it running again, if every answer with a good status can be read.
THEOREM Watched == ASSUME ReadableReports PROVE Spec => []UnfinishedIsWatched
<1>1. Init => WatchInv
  BY InitAgent
<1>2. AgentInv /\ WatchInv /\ [Next]_vars => WatchInv'
  BY WatchStep
<1>3. WatchInv => UnfinishedIsWatched
  BY DEF WatchInv
<1> QED BY <1>1, <1>2, <1>3, AgentIsTrue, PTL DEF Spec

=============================================================================
