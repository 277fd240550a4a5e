---------------------------- MODULE AIAgentTask ----------------------------
(***************************************************************************)
(* src/osyc/features/AIAgent/CmdAIAgent.ts and the part of                 *)
(* src/osyc/serviceFeatures/useAIAgentUI.ts that stores and restores it:   *)
(* the tasks of the AI agent.  The user sends an instruction, the server   *)
(* (external) runs it, and the plug-in polls it, asks the user to confirm  *)
(* a change of a note, writes the file it produced into the vault, and     *)
(* keeps all that across restarts of an application that may be killed at  *)
(* any time, over a network that may lose requests and answers.            *)
(*                                                                         *)
(* A member of Tasks is the clientId of an instruction; once the answer to *)
(* /api/send arrived it also stands for the task_id of the server.  Before *)
(* that the task_id is the empty string, NoId.                             *)
(***************************************************************************)
EXTENDS Integers, FiniteSets

CONSTANTS
    Tasks,      \* the instructions the user may send
    NoId,       \* the empty task_id
    Mutating,   \* the tasks that change a note, and have to be confirmed
    Producing,  \* the tasks that produce a file
    Touched,    \* the tasks whose path the user, or a synchronisation, writes too
    MaxRetries, \* MAX_TRANSIENT_RETRIES (3 in the code)
    Faults,     \* what may go wrong: lost messages, error statuses, garbled answers, a slow start
    MaxStarts,  \* bound: restarts
    MaxStops    \* bound: deactivations of the account

ASSUME TasksAssumption ==
    /\ NoId \notin Tasks
    /\ Mutating \subseteq Tasks /\ Producing \subseteq Tasks /\ Touched \subseteq Producing
    /\ MaxRetries \in Nat /\ MaxStarts \in Nat /\ MaxStops \in Nat
    /\ Faults \subseteq {"lost", "status", "garbled", "slow start"}

VARIABLES
    (* the server and the vault *)
    srv,        \* per task, what the server does with it
    acked,      \* the tasks whose file the server was told to be stored
    file,       \* per task, what is at the path of its file
    (* memory *)
    task,       \* tasks: the record shown for each instruction
    sends,      \* per task, the request to /api/send in flight, or its answer
    pollers,    \* the calls of pollTask
    confirms,   \* per task, the confirmation or its cancellation in flight, or the answer
    confirmed,  \* history: the tasks that run since a confirmation was answered, after the last start
    deliveries, \* the calls of deliverArtifacts
    account,    \* settings.token: off, activating, on
    stopped, generation,
    sync,       \* state.syncState holds a report of the server
    (* persistence *)
    disk,       \* the configuration file
    saveDue,    \* the timer of schedulePersist is armed
    phase,      \* how far onInitialise has come
    loaded,     \* what it has read
    starts      \* restarts so far

server == <<srv, acked, file>>
calls  == <<sends, pollers, confirms, confirmed, deliveries>>
life   == <<account, stopped, generation>>
store  == <<disk, phase, loaded, starts>>
vars   == <<server, task, calls, life, sync, store, saveDue>>

-----------------------------------------------------------------------------
Statuses == {"absent", "queued", "running", "awaiting_confirmation", "done", "failed", "conflict",
             "failed_zero_cost", "cancelled"}
Unfinished == {"queued", "running"}
Deliveries == {"none", "pending", "delivered", "failed", "conflict"}
Record  == [status : Statuses, known : BOOLEAN, delivery : Deliveries]
Absent  == [status |-> "absent", known |-> FALSE, delivery |-> "none"]
NoTasks == [t \in Tasks |-> Absent]
Config  == [token : BOOLEAN, sync : BOOLEAN, tasks : [Tasks -> Record]]
Fresh   == [token |-> FALSE, sync |-> FALSE, tasks |-> NoTasks]

Listed(t) == task[t].status # "absent"
TaskId(t) == IF task[t].known THEN t ELSE NoId
WithId(k) == {t \in Tasks : Listed(t) /\ TaskId(t) = k}

\* tasks.update on the records of S, which the store's subscription saves later.
Update(S, f(_)) ==
    /\ task' = [t \in Tasks |-> IF t \in S THEN f(task[t]) ELSE task[t]]
    /\ saveDue' = TRUE
SetStatus(S, s) == Update(S, LAMBDA r : [r EXCEPT !.status = s])

\* What a poll is answered when the server is in state s.
Reported(s) == CASE s = "executing" -> "running" [] s = "awaiting" -> "awaiting_confirmation" [] OTHER -> s

\* setDelivery.
SetDelivery(t, s) == Update(WithId(t), LAMBDA r : [r EXCEPT !.delivery = s])

\* Variant: a task that is polled already is polled again.
PolledNever(k) == FALSE

\* polling.has
Polled(k) == \E p \in pollers : p.key = k /\ p.generation = generation

\* The calls of pollTask after it was called for the ids of K.
PollTasks(K) ==
    pollers \cup {[key |-> k, generation |-> generation, pc |-> "sleep", retries |-> 0] :
                     k \in {x \in K : ~Polled(x)}}

Live(g) == ~stopped /\ g = generation
UserActs == phase \in {"restored", "ready"}

-----------------------------------------------------------------------------
Init ==
    /\ srv = [t \in Tasks |-> "none"] /\ acked = {} /\ file = [t \in Tasks |-> "absent"]
    /\ task = NoTasks
    /\ sends = [t \in Tasks |-> "none"] /\ pollers = {}
    /\ confirms = [t \in Tasks |-> "none"] /\ confirmed = {} /\ deliveries = {}
    /\ account = "off" /\ stopped = FALSE /\ generation = 0
    /\ sync = FALSE
    /\ disk = Fresh /\ saveDue = TRUE
    /\ phase = "constructed" /\ loaded = Fresh
    /\ starts = 0

-----------------------------------------------------------------------------
(* Sending. *)

Send(t) ==
    /\ UserActs /\ account = "on"
    /\ ~Listed(t) /\ srv[t] = "none" /\ sends[t] = "none"
    /\ Update({t}, LAMBDA r : [Absent EXCEPT !.status = "queued"])
    /\ sends' = [sends EXCEPT ![t] = "sent"]
    /\ UNCHANGED <<server, pollers, confirms, confirmed, deliveries, life, sync, store>>

\* The server (external) accepts or refuses it.
ServerReceives(t) ==
    /\ sends[t] = "sent"
    /\ \/ /\ sends' = [sends EXCEPT ![t] = "accepted"]
          /\ srv' = [srv EXCEPT ![t] = "running"]
       \/ /\ "status" \in Faults
          /\ sends' = [sends EXCEPT ![t] = "refused"]
          /\ UNCHANGED srv
    /\ UNCHANGED <<acked, file, task, pollers, confirms, confirmed, deliveries, life, sync, store, saveDue>>

\* The answer tells the task_id, and polling starts, whatever the user did meanwhile.
SendAccepted(t) ==
    /\ sends[t] = "accepted"
    /\ sends' = [sends EXCEPT ![t] = "none"]
    /\ Update({t} \cap {u \in Tasks : Listed(u)}, LAMBDA r : [r EXCEPT !.known = TRUE])
    /\ pollers' = PollTasks({t})
    /\ UNCHANGED <<server, confirms, confirmed, deliveries, life, sync, store>>

\* An error status, or no answer at all.
SendFails(t) ==
    /\ sends[t] = "refused" \/ ("lost" \in Faults /\ sends[t] \in {"sent", "accepted"})
    /\ sends' = [sends EXCEPT ![t] = "none"]
    /\ SetStatus({t} \cap {u \in Tasks : Listed(u)}, "failed")
    /\ UNCHANGED <<server, pollers, confirms, confirmed, deliveries, life, sync, store>>

\* The server (external) works.
ServerProgresses(t) ==
    /\ \/ srv[t] = "running" /\ t \in Mutating /\ srv' = [srv EXCEPT ![t] = "awaiting"]
       \/ /\ srv[t] \in {"running", "executing"}
          /\ \E s \in {"done", "failed"} : srv' = [srv EXCEPT ![t] = s]
    /\ UNCHANGED <<acked, file, task, calls, life, sync, store, saveDue>>

\* A confirmation the user does not give expires.
ServerExpires(t) ==
    /\ srv[t] = "awaiting"
    /\ srv' = [srv EXCEPT ![t] = "failed"]
    /\ UNCHANGED <<acked, file, task, calls, life, sync, store, saveDue>>

-----------------------------------------------------------------------------
(* Polling. *)

MovePoller(p, pc, retries) ==
    pollers' = (pollers \ {p}) \cup {[p EXCEPT !.pc = pc, !.retries = retries]}

\* The end of the interval: only now are `stopped' and the generation looked at.
PollWakes(p) ==
    /\ p.pc = "sleep"
    /\ IF Live(p.generation) THEN MovePoller(p, "asked", p.retries) ELSE pollers' = pollers \ {p}
    /\ UNCHANGED <<server, task, sends, confirms, confirmed, deliveries, life, sync, store, saveDue>>

\* The server (external) answers with the state it has now, or not at all.
ServerAnswersPoll(p) ==
    /\ p.pc = "asked"
    /\ \E answer \in (IF p.key = NoId THEN {"refused"} ELSE {Reported(srv[p.key])})
                        \cup (IF "status" \in Faults THEN {"refused", "again"} ELSE {})
                        \cup (IF "lost" \in Faults THEN {"again"} ELSE {})
                        \cup (IF "garbled" \in Faults THEN {"garbled"} ELSE {}) :
          MovePoller(p, answer, p.retries)
    /\ UNCHANGED <<server, task, sends, confirms, confirmed, deliveries, life, sync, store, saveDue>>

\* Variant: one retry too many.
PollOnceMore(p) ==
    /\ p.pc = "again" /\ p.retries <= MaxRetries
    /\ MovePoller(p, "sleep", p.retries + 1)
    /\ UNCHANGED <<server, task, sends, confirms, confirmed, deliveries, life, sync, store, saveDue>>

\* Variant: the retries are not counted.
PollAgainForEver(p) ==
    /\ p.pc = "again" /\ p.retries < MaxRetries
    /\ MovePoller(p, "sleep", p.retries)
    /\ UNCHANGED <<server, task, sends, confirms, confirmed, deliveries, life, sync, store, saveDue>>

\* A lost answer, or a status that may be temporary.
PollAgain(p) ==
    /\ p.pc = "again" /\ p.retries < MaxRetries
    /\ MovePoller(p, "sleep", p.retries + 1)
    /\ UNCHANGED <<server, task, sends, confirms, confirmed, deliveries, life, sync, store, saveDue>>

\* An error that will not pass, or one that came once too often.
PollFails(p) ==
    /\ p.pc = "refused" \/ (p.pc = "again" /\ p.retries = MaxRetries)
    /\ pollers' = pollers \ {p}
    /\ SetStatus(WithId(p.key), "failed")
    /\ UNCHANGED <<server, sends, confirms, confirmed, deliveries, life, sync, store>>

\* An answer with a good status that is not a report: reading it throws outside
\* of any try, so that polling ends and the task stays as it was.
PollThrows(p) ==
    /\ p.pc = "garbled"
    /\ pollers' = pollers \ {p}
    /\ UNCHANGED <<server, task, sends, confirms, confirmed, deliveries, life, sync, store, saveDue>>

\* A report: the record and the synchronisation state are updated, and
\* polling ends unless the task is still running.
PollReports(p) ==
    /\ p.pc \in Statuses
    /\ Update(WithId(p.key),
              LAMBDA r : [r EXCEPT !.status = p.pc,
                                   !.delivery = IF p.pc = "done" /\ p.key \in Producing THEN "pending" ELSE @])
    /\ sync' \in {sync, TRUE}
    /\ IF p.pc \in Unfinished THEN MovePoller(p, "sleep", 0) ELSE pollers' = pollers \ {p}
    /\ deliveries' = IF p.pc = "done" /\ p.key \in Producing
                     THEN deliveries \cup {[task |-> p.key, generation |-> p.generation, by |-> "poll",
                                            pc |-> "start"]}
                     ELSE deliveries
    /\ UNCHANGED <<server, sends, confirms, confirmed, life, store>>

-----------------------------------------------------------------------------
(* Confirmation.  The buttons are disabled while a request is in flight. *)

Ask(t, request) ==
    /\ UserActs /\ task[t].status = "awaiting_confirmation" /\ confirms[t] = "none"
    /\ confirms' = [confirms EXCEPT ![t] = request]
    /\ UNCHANGED <<server, task, sends, pollers, confirmed, deliveries, life, sync, store, saveDue>>

\* The server (external) consumes the token once; it executes the change at once or later.
ServerDecides(t) ==
    /\ \/ /\ confirms[t] = "confirm" /\ srv[t] = "awaiting"
          /\ \E s \in {"done", "executing"} :
                srv' = [srv EXCEPT ![t] = s] /\ confirms' = [confirms EXCEPT ![t] = Reported(s)]
       \/ /\ confirms[t] = "cancel" /\ srv[t] = "awaiting"
          /\ srv' = [srv EXCEPT ![t] = "cancelled"] /\ confirms' = [confirms EXCEPT ![t] = "cancelled"]
       \/ /\ confirms[t] = "confirm" /\ srv[t] # "awaiting"
          /\ confirms' = [confirms EXCEPT ![t] = "conflict"] /\ UNCHANGED srv
       \/ /\ confirms[t] = "confirm" /\ "status" \in Faults
          /\ confirms' = [confirms EXCEPT ![t] = "failed_zero_cost"] /\ UNCHANGED srv
       \/ /\ confirms[t] = "cancel" /\ (srv[t] # "awaiting" \/ "status" \in Faults)
          /\ confirms' = [confirms EXCEPT ![t] = "refused"] /\ UNCHANGED srv
    /\ UNCHANGED <<acked, file, task, sends, pollers, confirmed, deliveries, life, sync, store, saveDue>>

\* Variant: any successful answer counts as the end of the task.
ConfirmEnds(t) ==
    /\ confirms[t] \in Statuses
    /\ confirms' = [confirms EXCEPT ![t] = "none"]
    /\ SetStatus(WithId(t), IF confirms[t] = "running" THEN "done" ELSE confirms[t])
    /\ UNCHANGED <<server, sends, pollers, confirmed, deliveries, life, sync, store>>

\* The answer becomes the status; one that runs is not polled again.
ConfirmAnswered(t) ==
    /\ confirms[t] \in Statuses
    /\ confirms' = [confirms EXCEPT ![t] = "none"]
    /\ SetStatus(WithId(t), confirms[t])
    /\ confirmed' = IF confirms[t] \in Unfinished THEN confirmed \cup {t} ELSE confirmed
    /\ UNCHANGED <<server, sends, pollers, deliveries, life, sync, store>>

\* A refused cancellation or a lost answer leaves the task as it is.
ConfirmFails(t) ==
    /\ confirms[t] = "refused" \/ ("lost" \in Faults /\ confirms[t] # "none")
    /\ confirms' = [confirms EXCEPT ![t] = "none"]
    /\ UNCHANGED <<server, task, sends, pollers, confirmed, deliveries, life, sync, store, saveDue>>

-----------------------------------------------------------------------------
(* Delivery of the file a task produced. *)

MoveDelivery(d, pc) == deliveries' = (deliveries \ {d}) \cup {[d EXCEPT !.pc = pc]}
EndDelivery(d) == deliveries' = deliveries \ {d}

\* The file is requested, unless the account was stopped.
DeliveryStarts(d) ==
    /\ d.pc = "start"
    /\ IF Live(d.generation) THEN MoveDelivery(d, "fetching") ELSE EndDelivery(d)
    /\ UNCHANGED <<server, task, sends, pollers, confirms, confirmed, life, sync, store, saveDue>>

\* The server (external) does not answer, answers an error, or bytes that do not verify.
DeliveryFails(d) ==
    /\ d.pc = "fetching" /\ Faults \cap {"lost", "status"} # {}
    /\ EndDelivery(d)
    /\ SetDelivery(d.task, "failed")
    /\ UNCHANGED <<server, sends, pollers, confirms, confirmed, life, sync, store>>

\* The verified bytes are given to artifactWriter, which looks at the path.
WriterLooks(d) ==
    /\ d.pc = "fetching"
    /\ IF ~Live(d.generation) THEN EndDelivery(d) /\ UNCHANGED <<task, saveDue>>
       ELSE IF file[d.task] = "other" THEN EndDelivery(d) /\ SetDelivery(d.task, "conflict")
       ELSE /\ MoveDelivery(d, CASE file[d.task] = "absent" -> "create"
                                 [] file[d.task] = "empty"  -> "modify"
                                 [] OTHER -> "stored")
            /\ UNCHANGED <<task, saveDue>>
    /\ UNCHANGED <<server, sends, pollers, confirms, confirmed, life, sync, store>>

\* vault.create, which refuses a path that has come to exist.
WriterCreates(d) ==
    /\ d.pc = "create"
    /\ IF file[d.task] = "absent"
       THEN /\ file' = [file EXCEPT ![d.task] = "artifact"]
            /\ MoveDelivery(d, "stored")
            /\ UNCHANGED <<task, saveDue>>
       ELSE EndDelivery(d) /\ SetDelivery(d.task, "failed") /\ UNCHANGED file
    /\ UNCHANGED <<srv, acked, sends, pollers, confirms, confirmed, life, sync, store>>

\* vault.modify, which replaces what is there now.
WriterModifies(d) ==
    /\ d.pc = "modify"
    /\ file' = [file EXCEPT ![d.task] = "artifact"]
    /\ MoveDelivery(d, "stored")
    /\ UNCHANGED <<srv, acked, task, sends, pollers, confirms, confirmed, life, sync, store, saveDue>>

DeliveryAcks(d) ==
    /\ d.pc = "stored"
    /\ IF Live(d.generation) THEN MoveDelivery(d, "acking") ELSE EndDelivery(d)
    /\ UNCHANGED <<server, task, sends, pollers, confirms, confirmed, life, sync, store, saveDue>>

\* The server (external) takes note, and its answer ends the delivery; either may fail.
AckAnswered(d) ==
    /\ d.pc = "acking"
    /\ EndDelivery(d)
    /\ \/ acked' = acked \cup {d.task} /\ SetDelivery(d.task, "delivered")
       \/ "lost" \in Faults /\ acked' \in {acked, acked \cup {d.task}} /\ SetDelivery(d.task, "failed")
       \/ "status" \in Faults /\ acked' = acked /\ SetDelivery(d.task, "failed")
    /\ UNCHANGED <<srv, file, sends, pollers, confirms, confirmed, life, sync, store>>

\* Variant: the server is told first.
RetryAcksFirst(t) ==
    /\ UserActs /\ task[t].status = "done" /\ t \in Producing /\ task[t].delivery # "delivered"
    /\ task[t].delivery # "none"
    /\ \A d \in deliveries : d.by # "retry"
    /\ SetDelivery(t, "pending")
    /\ deliveries' = deliveries \cup {[task |-> t, generation |-> generation, by |-> "retry", pc |-> "stored"]}
    /\ UNCHANGED <<server, sends, pollers, confirms, confirmed, life, sync, store>>

\* The user asks for the delivery again, also while the first is under way
\* (bound: one such request at a time).
RetryPush(t) ==
    /\ UserActs /\ task[t].status = "done" /\ t \in Producing /\ task[t].delivery # "delivered"
    /\ task[t].delivery # "none"
    /\ \A d \in deliveries : d.by # "retry"
    /\ SetDelivery(t, "pending")
    /\ deliveries' = deliveries \cup {[task |-> t, generation |-> generation, by |-> "retry", pc |-> "start"]}
    /\ UNCHANGED <<server, sends, pollers, confirms, confirmed, life, sync, store>>

\* The user, or the synchronisation of the vault, writes to the path.
FileTouched(t) ==
    /\ t \in Touched
    /\ \/ file[t] = "absent" /\ \E c \in {"empty", "other"} : file' = [file EXCEPT ![t] = c]
       \/ file[t] = "empty" /\ file' = [file EXCEPT ![t] = "other"]
    /\ UNCHANGED <<srv, acked, task, calls, life, sync, store, saveDue>>

-----------------------------------------------------------------------------
(* The account. *)

Activate ==
    /\ UserActs /\ account = "off"
    /\ account' = "activating" /\ stopped' = FALSE
    /\ UNCHANGED <<server, task, calls, generation, sync, store, saveDue>>

\* The answer; a new token is stored at once, and everything else with it.
Activated ==
    /\ account = "activating"
    /\ account' = "on" /\ sync' = FALSE
    /\ disk' = [token |-> TRUE, sync |-> FALSE, tasks |-> task]
    /\ saveDue' = TRUE
    /\ UNCHANGED <<server, task, calls, stopped, generation, phase, loaded, starts>>

ActivationFails ==
    /\ account = "activating" /\ Faults \cap {"lost", "status"} # {}
    /\ account' = "off"
    /\ UNCHANGED <<server, task, calls, stopped, generation, sync, store, saveDue>>

\* deactivateAccount, with deactivate and stop.
Deactivate ==
    /\ UserActs /\ account = "on" /\ generation < MaxStops
    /\ account' = "off" /\ stopped' = TRUE /\ generation' = generation + 1
    /\ task' = NoTasks /\ sync' = FALSE
    /\ disk' = Fresh /\ saveDue' = TRUE
    /\ UNCHANGED <<server, calls, phase, loaded, starts>>

ClearFinished ==
    /\ UserActs
    /\ \E t \in Tasks : Listed(t) /\ task[t].status \notin Unfinished
    /\ Update({t \in Tasks : task[t].status \notin Unfinished}, LAMBDA r : Absent)
    /\ UNCHANGED <<server, calls, life, sync, store>>

-----------------------------------------------------------------------------
(* Persistence. *)

Memory == [token |-> account = "on", sync |-> sync, tasks |-> task]

\* The timer of schedulePersist.  Armed when the stores are first subscribed
\* to, it waits for nothing else: a start is slow if it fires before restore.
Persist ==
    /\ saveDue /\ (phase \in {"restored", "ready"} \/ "slow start" \in Faults)
    /\ saveDue' = FALSE
    /\ disk' = Memory
    /\ UNCHANGED <<server, task, calls, life, sync, phase, loaded, starts>>

LoadReads ==
    /\ phase = "constructed"
    /\ phase' = "read" /\ loaded' = disk
    /\ UNCHANGED <<server, task, calls, life, sync, disk, starts, saveDue>>

\* isTask: only the records with these statuses are read back.
Restorable == {"queued", "running", "done", "failed"}
Restored(tasks) == [t \in Tasks |-> IF tasks[t].status \in Restorable THEN tasks[t] ELSE Absent]

\* configure stores the new token at once, and what is in memory with it; then
\* restore replaces the memory.
LoadRestores ==
    /\ phase = "read"
    /\ phase' = IF loaded.token THEN "restored" ELSE "ready"
    /\ account' = IF loaded.token THEN "on" ELSE "off"
    /\ stopped' = FALSE
    /\ disk' = IF loaded.token THEN [Memory EXCEPT !.token = TRUE] ELSE disk
    /\ task' = Restored(loaded.tasks) /\ sync' = loaded.sync
    /\ saveDue' = TRUE
    /\ UNCHANGED <<server, calls, generation, loaded, starts>>

\* Variant: only the queued tasks are polled again.
ResumeQueued ==
    /\ phase = "restored"
    /\ phase' = "ready"
    /\ sync' \in {sync, TRUE}
    /\ pollers' = PollTasks({TaskId(t) : t \in {u \in Tasks : task[u].status = "queued"}})
    /\ saveDue' = TRUE
    /\ UNCHANGED <<server, task, sends, confirms, confirmed, deliveries, life, disk, loaded, starts>>

\* refreshStatus has been awaited; resumePending polls the unfinished tasks again.
ResumePending ==
    /\ phase = "restored"
    /\ phase' = "ready"
    /\ sync' \in {sync, TRUE}
    /\ pollers' = PollTasks({TaskId(t) : t \in {u \in Tasks : task[u].status \in Unfinished}})
    /\ saveDue' = TRUE
    /\ UNCHANGED <<server, task, sends, confirms, confirmed, deliveries, life, disk, loaded, starts>>

\* The application is killed and started again.
Kill ==
    /\ starts < MaxStarts
    /\ starts' = starts + 1
    /\ task' = NoTasks /\ sync' = FALSE
    /\ sends' = [t \in Tasks |-> "none"] /\ pollers' = {}
    /\ confirms' = [t \in Tasks |-> "none"] /\ confirmed' = {} /\ deliveries' = {}
    /\ account' = "off" /\ stopped' = FALSE /\ generation' = 0
    /\ phase' = "constructed" /\ loaded' = Fresh /\ saveDue' = TRUE
    /\ UNCHANGED <<server, disk>>

-----------------------------------------------------------------------------
Poll(p) ==
    \/ PollWakes(p)
    \/ ServerAnswersPoll(p)
    \/ PollAgain(p)
    \/ PollFails(p)
    \/ PollThrows(p)
    \/ PollReports(p)

Deliver(d) ==
    \/ DeliveryStarts(d)
    \/ DeliveryFails(d)
    \/ WriterLooks(d)
    \/ WriterCreates(d)
    \/ WriterModifies(d)
    \/ DeliveryAcks(d)
    \/ AckAnswered(d)

Answer(t) == SendAccepted(t) \/ SendFails(t) \/ ConfirmAnswered(t) \/ ConfirmFails(t)

Serve(t) == ServerReceives(t) \/ ServerDecides(t)

User(t) ==
    \/ Send(t)
    \/ Ask(t, "confirm")
    \/ Ask(t, "cancel")
    \/ RetryPush(t)
    \/ FileTouched(t)

Load == LoadReads \/ LoadRestores \/ ResumePending

Next ==
    \/ \E t \in Tasks : User(t) \/ Serve(t) \/ Answer(t) \/ ServerProgresses(t) \/ ServerExpires(t)
    \/ \E p \in pollers : Poll(p)
    \/ \E d \in deliveries : Deliver(d)
    \/ Activate \/ Activated \/ ActivationFails \/ Deactivate \/ ClearFinished
    \/ Persist \/ Load \/ Kill

Spec == Init /\ [][Next]_vars

(***************************************************************************)
(* Fairness.  Timers fire, a request is answered or fails, the server ends *)
(* what it runs.  Nobody has to send, confirm, retry or restart anything.  *)
(***************************************************************************)
Fairness ==
    /\ \A t \in Tasks :
          WF_vars(Serve(t)) /\ WF_vars(Answer(t)) /\ WF_vars(ServerProgresses(t))
    /\ \A k \in Tasks \cup {NoId} : WF_vars(\E p \in pollers : p.key = k /\ Live(p.generation) /\ Poll(p))
    /\ \A t \in Tasks : WF_vars(\E d \in deliveries : d.task = t /\ d.by = "poll" /\ Deliver(d))
    /\ WF_vars(Load)

FairSpec == Spec /\ Fairness

-----------------------------------------------------------------------------
(* Properties. *)

Answers == {"again", "refused", "garbled"} \cup Statuses
Poller  == [key : Tasks \cup {NoId}, generation : Nat, pc : {"sleep", "asked"} \cup Answers,
            retries : 0..MaxRetries]
Delivery == [task : Tasks, generation : Nat, by : {"poll", "retry"},
             pc : {"start", "fetching", "create", "modify", "stored", "acking"}]

\* The types, and the steps each poller and delivery can be at.
TypeOK ==
    /\ srv \in [Tasks -> {"none", "running", "awaiting", "executing", "done", "failed", "cancelled"}]
    /\ acked \subseteq Producing
    /\ file \in [Tasks -> {"absent", "empty", "other", "artifact"}]
    /\ task \in [Tasks -> Record]
    /\ sends \in [Tasks -> {"none", "sent", "accepted", "refused"}]
    /\ pollers \subseteq Poller
    /\ confirms \in [Tasks -> {"none", "confirm", "cancel", "refused"} \cup Statuses]
    /\ confirmed \subseteq Tasks
    /\ deliveries \subseteq Delivery
    /\ account \in {"off", "activating", "on"} /\ stopped \in BOOLEAN /\ generation \in Nat
    /\ sync \in BOOLEAN
    /\ disk \in Config /\ saveDue \in BOOLEAN
    /\ phase \in {"constructed", "read", "restored", "ready"} /\ loaded \in Config /\ starts \in Nat

\* What is shown as done, or as cancelled, the server has done or cancelled,
\* however late the reports and the answers to a confirmation come.
ShownIsServed ==
    \A t \in Tasks : task[t].status \in {"done", "cancelled"} => srv[t] = task[t].status

\* The server is told that a file is stored only when it is in the vault, and
\* a task is shown as delivered only when the server knows, with two
\* deliveries of a file under way, retries after lost answers and restarts.
DeliveredIsStored ==
    \A t \in Tasks : /\ t \in acked => file[t] = "artifact"
                     /\ task[t].delivery = "delivered" => t \in acked

\* No task is forgotten: what is shown as queued or running is being sent or
\* polled, whatever was lost, answered late, restarted or stopped in between,
\* unless the answer to its confirmation set it running again.
UnfinishedIsWatched ==
    phase = "ready" /\ account = "on" =>
        \A t \in Tasks : task[t].status \in Unfinished /\ t \notin confirmed =>
            sends[t] # "none" \/ \E p \in pollers : p.key = TaskId(t) /\ p.generation = generation

\* A task is not polled twice at the same time.
OnePollerEach ==
    \A p, q \in pollers : p.key = q.key /\ p.generation = q.generation => p = q

\* A task that is queued or running comes to an end on the screen, or to its
\* confirmation, unless the answer to that set it running again.
EventuallySettled ==
    \A t \in Tasks : task[t].status \in Unfinished ~> task[t].status \notin Unfinished \/ t \in confirmed

\* What a test says: a file that is not the result is not overwritten.
OthersAreKept == [][\A t \in Tasks : file[t] = "other" => file'[t] = "other"]_vars

\* What deactivate says: afterwards the state is that of a plug-in without account.
DeactivatedIsCleared == account = "off" => ~sync

\* What clientId is for: a task that is still being sent is not failed by the
\* answer to another request.
SendingIsNotFailed == \A t \in Tasks : sends[t] = "sent" => task[t].status # "failed"

\* What resumePending says: a task is never only in memory.  A start does not
\* take an unfinished task off the disk.
StoredStaysStored ==
    [][\A t \in Tasks :
          phase # "ready" /\ generation' = generation /\ disk.tasks[t].status \in Unfinished =>
              disk'.tasks[t] # Absent]_vars

\* The same of a task that waits for its confirmation.
AwaitingIsRestored ==
    phase = "restored" => \A t \in Tasks :
        loaded.tasks[t].status = "awaiting_confirmation" /\ srv[t] = "awaiting" => Listed(t)

\* What the loading says: a stored account is not replaced by the default one.
AccountStaysStored == [][disk.token /\ ~disk'.token => generation' # generation]_vars
=============================================================================
