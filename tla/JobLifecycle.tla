---------------------------- MODULE JobLifecycle ----------------------------
(***************************************************************************)
(* The asynchronous job protocol: the API process that starts and cancels  *)
(* jobs (src/jobs/service.py), the Celery broker between the processes,    *)
(* and the worker tasks (src/jobs/tasks.py), sharing the rows of the jobs  *)
(* table (JobRepository).  A transaction is two steps, the load and the    *)
(* commit, so that transactions of different processes may overlap.        *)
(***************************************************************************)
EXTENDS JobRepository, FiniteSets

CONSTANTS
  Jobs,              \* job ids
  TemporalJobs,      \* those of kind "temporal_project"; the rest are "detection"
  Workers,           \* Celery worker processes (pool "solo": one task each)
  CallbackProgress,  \* percentages the pipeline's progress callback reports
  AcksLate,          \* settings.celery_task_acks_late
  Faults,            \* which faults the environment may inject
  MaxCancels,        \* bound: cancel calls per job
  MaxDeliveries,     \* bound: deliveries of one message
  NoRow, NoTx, NoJob

FaultKinds ==
  {"api_crash", "worker_crash", "ambiguous_send", "database", "visibility_timeout"}

(* An open transaction: the record it loaded and the record it will commit. *)
Tx == [job : Jobs, old : Row, new : Row]

ASSUME JobsAssumption ==
  /\ TemporalJobs \subseteq Jobs
  /\ CallbackProgress \subseteq 25..92
  /\ AcksLate \in BOOLEAN
  /\ Faults \subseteq FaultKinds
  /\ MaxCancels \in Nat
  /\ MaxDeliveries \in Nat
  /\ NoRow \notin Row
  /\ NoJob \notin Jobs
  /\ NoTx \notin Tx
  /\ Workers \cap ({"start", "cancel"} \X Jobs) = {}   \* no worker is named like an API thread

VARIABLES
  row,         \* the jobs table
  tx,          \* the open transaction of each actor
  start,       \* where start_*_job is, per job
  cancels,     \* cancel calls made, per job
  queue,       \* jobs with a message ready in the broker
  deliveries,  \* times the message of a job was delivered
  revoked,     \* job ids in the revoked set of each worker process
  wk,          \* the task each worker runs
  returned     \* what the last task run for a job returned to Celery

vars == <<row, tx, start, cancels, queue, deliveries, revoked, wk, returned>>

Starter(j)   == <<"start", j>>
Canceller(j) == <<"cancel", j>>
Actors == Workers \cup {Starter(j) : j \in Jobs} \cup {Canceller(j) : j \in Jobs}

StartPCs == {"none", "send", "enqueue", "enqueuing", "fail", "failing", "done", "dead"}
TaskPCs  == {"idle", "prepare", "preparing", "start", "starting", "check",
             "update", "updating", "work", "settle", "settling", "raise", "raising", "ack"}
Phases   == {"preflight", "fetching", "pairs", "saving", "persisting"}
Outcomes == {"none", "success", "incomplete", "failure"}
Returns  == {"none", "completed", "failed", "cancelled", "skipped", "raised", "dropped", "lost"}

(* late counts the writes a task commits over a row whose cancel request is *)
(* already committed, short of the write that settles the job; 2 is "more". *)
Task == [pc : TaskPCs, job : Jobs \cup {NoJob}, phase : Phases, progress : 0..100,
         outcome : Outcomes, verdict : Returns, late : 0..2]

TypeOK ==
  /\ row \in [Jobs -> Row \cup {NoRow}]
  /\ tx \in [Actors -> Tx \cup {NoTx}]
  /\ start \in [Jobs -> StartPCs]
  /\ cancels \in [Jobs -> Nat]
  /\ queue \subseteq Jobs
  /\ deliveries \in [Jobs -> Nat]
  /\ revoked \in [Workers -> SUBSET Jobs]
  /\ wk \in [Workers -> Task]
  /\ \A w \in Workers : wk[w].pc # "idle" => wk[w].job \in Jobs
  /\ returned \in [Jobs -> Returns]

NewTask(j) == [pc |-> "prepare", job |-> j, phase |-> "preflight",
               progress |-> 12, outcome |-> "none", verdict |-> "none", late |-> 0]

Idle == [NewTask(NoJob) EXCEPT !.pc = "idle"]

Init ==
  /\ row = [j \in Jobs |-> NoRow]
  /\ tx = [a \in Actors |-> NoTx]
  /\ start = [j \in Jobs |-> "none"]
  /\ cancels = [j \in Jobs |-> 0]
  /\ queue = {}
  /\ deliveries = [j \in Jobs |-> 0]
  /\ revoked = [w \in Workers |-> {}]
  /\ wk = [w \in Workers |-> Idle]
  /\ returned = [j \in Jobs |-> "none"]
-----------------------------------------------------------------------------
(* Transactions *)

Load(a, j, new) ==
  /\ tx[a] = NoTx
  /\ tx' = [tx EXCEPT ![a] = [job |-> j, old |-> row[j], new |-> new]]
  /\ UNCHANGED row

CommitTx(a) ==
  /\ tx[a] # NoTx
  /\ row' = [row EXCEPT ![tx[a].job] = Flushed(@, tx[a].old, tx[a].new)]
  /\ tx' = [tx EXCEPT ![a] = NoTx]

RollBack(a) ==
  /\ tx' = [tx EXCEPT ![a] = NoTx]
  /\ UNCHANGED row

GoTo(w, pc) == wk' = [wk EXCEPT ![w].pc = pc]

(* The worker w is executing a task for the job j. *)
Executing(w, j) == wk[w].pc # "idle" /\ wk[w].job = j
-----------------------------------------------------------------------------
(* start_temporal_project_job and start_detection_job *)

CreateJob(j) ==
  /\ start[j] = "none"
  /\ start' = [start EXCEPT ![j] = "send"]
  /\ row' = [row EXCEPT ![j] = CreatedRow]
  /\ UNCHANGED <<tx, cancels, queue, deliveries, revoked, wk, returned>>

SendTask(j) ==
  /\ start[j] = "send"
  /\ start' = [start EXCEPT ![j] = "enqueue"]
  /\ queue' = queue \cup {j}
  /\ UNCHANGED <<row, tx, cancels, deliveries, revoked, wk, returned>>

(* send_task raises; an ambiguous failure has published the message. *)
SendTaskFails(j) ==
  /\ start[j] = "send"
  /\ start' = [start EXCEPT ![j] = "fail"]
  /\ \/ UNCHANGED queue
     \/ "ambiguous_send" \in Faults /\ queue' = queue \cup {j}
  /\ UNCHANGED <<row, tx, cancels, deliveries, revoked, wk, returned>>

LoadToMarkEnqueued(j) ==
  /\ start[j] = "enqueue"
  /\ start' = [start EXCEPT ![j] = "enqueuing"]
  /\ Load(Starter(j), j, MarkEnqueued(row[j]))
  /\ UNCHANGED <<cancels, queue, deliveries, revoked, wk, returned>>

LoadToMarkUnsent(j) ==
  /\ start[j] = "fail"
  /\ start' = [start EXCEPT ![j] = "failing"]
  /\ Load(Starter(j), j, MarkFailed(row[j]))
  /\ UNCHANGED <<cancels, queue, deliveries, revoked, wk, returned>>

CommitStart(j) ==
  /\ start[j] \in {"enqueuing", "failing"}
  /\ start' = [start EXCEPT ![j] = "done"]
  /\ CommitTx(Starter(j))
  /\ UNCHANGED <<cancels, queue, deliveries, revoked, wk, returned>>

ApiCrash(j) ==
  /\ "api_crash" \in Faults
  /\ start[j] \notin {"none", "done", "dead"}
  /\ start' = [start EXCEPT ![j] = "dead"]
  /\ RollBack(Starter(j))
  /\ UNCHANGED <<cancels, queue, deliveries, revoked, wk, returned>>
-----------------------------------------------------------------------------
(* cancel_job: the revoke is broadcast inside the transaction, and only when *)
(* the loaded record knows its Celery task; it reaches some of the workers.  *)

LoadToCancel(j) ==
  /\ row[j] # NoRow
  /\ cancels[j] < MaxCancels
  /\ cancels' = [cancels EXCEPT ![j] = @ + 1]
  /\ Load(Canceller(j), j, MarkCancelRequested(row[j]))
  /\ \E reached \in SUBSET Workers :
       /\ row[j].task \/ reached = {}
       /\ revoked' = [w \in Workers |-> IF w \in reached THEN revoked[w] \cup {j}
                                                         ELSE revoked[w]]
  /\ UNCHANGED <<start, queue, deliveries, wk, returned>>

CommitCancel(j) ==
  /\ CommitTx(Canceller(j))
  /\ UNCHANGED <<start, cancels, queue, deliveries, revoked, wk, returned>>

(* The revoke or building the response raises: the request is rolled back. *)
AbortCancel(j) ==
  /\ tx[Canceller(j)] # NoTx
  /\ RollBack(Canceller(j))
  /\ UNCHANGED <<start, cancels, queue, deliveries, revoked, wk, returned>>
-----------------------------------------------------------------------------
(* The broker delivers a message to an idle worker, which drops it when the *)
(* task is in its revoked set.                                              *)

Deliver(w, j) ==
  /\ wk[w].pc = "idle"
  /\ j \in queue
  /\ deliveries[j] < MaxDeliveries
  /\ deliveries' = [deliveries EXCEPT ![j] = @ + 1]
  /\ queue' = queue \ {j}
  /\ IF j \in revoked[w]
       THEN returned' = [returned EXCEPT ![j] = "dropped"] /\ UNCHANGED wk
       ELSE wk' = [wk EXCEPT ![w] = NewTask(j)] /\ UNCHANGED returned
  /\ UNCHANGED <<row, tx, start, cancels, revoked>>

(* With late acknowledgement the message of a running task is delivered     *)
(* again once the broker's visibility timeout has passed (while the bound   *)
(* leaves it a delivery).                                                   *)
VisibilityTimeout(w) ==
  /\ AcksLate /\ "visibility_timeout" \in Faults
  /\ wk[w].pc # "idle"
  /\ deliveries[wk[w].job] < MaxDeliveries
  /\ queue' = queue \cup {wk[w].job}
  /\ UNCHANGED <<row, tx, start, cancels, deliveries, revoked, wk, returned>>

(* A worker process dies: its revoked set and open transaction are gone. *)
WorkerCrash(w) ==
  /\ "worker_crash" \in Faults
  /\ wk[w].pc # "idle"
  /\ wk' = [wk EXCEPT ![w] = Idle]
  /\ RollBack(w)
  /\ revoked' = [revoked EXCEPT ![w] = {}]
  /\ queue' = IF AcksLate THEN queue \cup {wk[w].job} ELSE queue
  /\ returned' = IF AcksLate THEN returned ELSE [returned EXCEPT ![wk[w].job] = "lost"]
  /\ UNCHANGED <<start, cancels, deliveries>>

IdleWorkerRestart(w) ==
  /\ "worker_crash" \in Faults
  /\ wk[w].pc = "idle"
  /\ revoked' = [revoked EXCEPT ![w] = {}]
  /\ UNCHANGED <<row, tx, start, cancels, queue, deliveries, wk, returned>>
-----------------------------------------------------------------------------
(* The worker task.  Return(w, v) leaves the task function with the value v; *)
(* Acknowledge hands v to Celery, and the message with late acknowledgement. *)

Return(w, v) ==
  /\ wk' = [wk EXCEPT ![w].pc = "ack", ![w].verdict = v]
  /\ UNCHANGED returned

Acknowledge(w) ==
  /\ wk[w].pc = "ack"
  /\ wk' = [wk EXCEPT ![w] = Idle]
  /\ returned' = [returned EXCEPT ![wk[w].job] = wk[w].verdict]
  /\ UNCHANGED <<row, tx, start, cancels, queue, deliveries, revoked>>

Late(w) == IF row[wk[w].job].cancel /\ wk[w].late < 2 THEN wk[w].late + 1 ELSE wk[w].late

(* _prepare_job_for_execution *)
PrepareCancelled(w) ==
  /\ wk[w].pc = "prepare"
  /\ CancelRequested(row[wk[w].job])
  /\ Load(w, wk[w].job, MarkCancelled(row[wk[w].job]))
  /\ GoTo(w, "preparing")
  /\ UNCHANGED <<start, cancels, queue, deliveries, revoked, returned>>

CommitPrepare(w) ==
  /\ wk[w].pc = "preparing"
  /\ CommitTx(w)
  /\ Return(w, "cancelled")
  /\ UNCHANGED <<start, cancels, queue, deliveries, revoked>>

PrepareSkips(w) ==
  /\ wk[w].pc = "prepare"
  /\ ~CancelRequested(row[wk[w].job])
  /\ row[wk[w].job].status \in TerminalStatuses
  /\ Return(w, "skipped")
  /\ UNCHANGED <<row, tx, start, cancels, queue, deliveries, revoked>>

(* Mutant: a job in a terminal status is run again. *)
PrepareProceedsAlways(w) ==
  /\ wk[w].pc = "prepare"
  /\ ~CancelRequested(row[wk[w].job])
  /\ GoTo(w, "start")
  /\ UNCHANGED <<row, tx, start, cancels, queue, deliveries, revoked, returned>>

PrepareProceeds(w) ==
  /\ wk[w].pc = "prepare"
  /\ ~CancelRequested(row[wk[w].job])
  /\ row[wk[w].job].status \notin TerminalStatuses
  /\ GoTo(w, "start")
  /\ UNCHANGED <<row, tx, start, cancels, queue, deliveries, revoked, returned>>

LoadToMarkRunning(w) ==
  /\ wk[w].pc = "start"
  /\ Load(w, wk[w].job, MarkRunning(row[wk[w].job]))
  /\ GoTo(w, "starting")
  /\ UNCHANGED <<start, cancels, queue, deliveries, revoked, returned>>

CommitRunning(w) ==
  /\ wk[w].pc = "starting"
  /\ CommitTx(w)
  /\ wk' = [wk EXCEPT ![w].pc = "check", ![w].late = Late(w)]
  /\ UNCHANGED <<start, cancels, queue, deliveries, revoked, returned>>

(* _cancel_if_requested, at every phase check of _publish_progress.  Its     *)
(* transaction marks the job cancelled and then raises JobCancelledError     *)
(* inside session_scope, which rolls the mark back.                          *)
CheckCancels(w) ==
  /\ wk[w].pc = "check"
  /\ CancelRequested(row[wk[w].job])
  /\ Return(w, "cancelled")
  /\ UNCHANGED <<row, tx, start, cancels, queue, deliveries, revoked>>

(* run_tiled_inference calls the progress callback under a catch-all, which  *)
(* turns the JobCancelledError of its check into a failed pair: the pipeline *)
(* goes on to its response or to the next pair, whose first report is not    *)
(* under the catch-all.                                                      *)
CheckSwallowed(w) ==
  /\ wk[w].pc = "check"
  /\ wk[w].phase = "pairs"
  /\ wk[w].outcome = "none"
  /\ CancelRequested(row[wk[w].job])
  /\ wk' = [wk EXCEPT ![w].pc = "work", ![w].outcome = "failure"]
  /\ UNCHANGED <<row, tx, start, cancels, queue, deliveries, revoked, returned>>

CheckPasses(w) ==
  /\ wk[w].pc = "check"
  /\ ~CancelRequested(row[wk[w].job])
  /\ GoTo(w, "update")
  /\ UNCHANGED <<row, tx, start, cancels, queue, deliveries, revoked, returned>>

LoadToUpdate(w) ==
  /\ wk[w].pc = "update"
  /\ Load(w, wk[w].job, UpdateProgress(row[wk[w].job], wk[w].progress))
  /\ GoTo(w, "updating")
  /\ UNCHANGED <<start, cancels, queue, deliveries, revoked, returned>>

(* Mutant: the persisting phase is never entered. *)
AfterPublishSavingAgain(t) ==
  CASE t.phase = "preflight" -> [t EXCEPT !.pc = "check", !.phase = "fetching", !.progress = 25]
    [] t.phase = "fetching"  -> [t EXCEPT !.pc = "work", !.phase = "pairs"]
    [] t.phase = "pairs"     -> [t EXCEPT !.pc = "work"]
    [] t.phase = "saving" /\ t.outcome # "failure"
                             -> [t EXCEPT !.pc = "check", !.progress = 95]
    [] OTHER                 -> [t EXCEPT !.pc = "settle"]

(* What follows the published phase: the next one, the pipeline, or the end. *)
AfterPublish(t) ==
  CASE t.phase = "preflight" -> [t EXCEPT !.pc = "check", !.phase = "fetching", !.progress = 25]
    [] t.phase = "fetching"  -> [t EXCEPT !.pc = "work", !.phase = "pairs"]
    [] t.phase = "pairs"     -> [t EXCEPT !.pc = "work"]
    [] t.phase = "saving" /\ t.outcome # "failure"
                             -> [t EXCEPT !.pc = "check", !.phase = "persisting", !.progress = 95]
    [] OTHER                 -> [t EXCEPT !.pc = "settle"]

CommitUpdate(w) ==
  /\ wk[w].pc = "updating"
  /\ CommitTx(w)
  /\ wk' = [wk EXCEPT ![w] = [AfterPublish(@) EXCEPT !.late = Late(w)]]
  /\ UNCHANGED <<start, cancels, queue, deliveries, revoked, returned>>

(* progress_callback *)
Callback(w) ==
  /\ wk[w].pc = "work"
  /\ \E p \in CallbackProgress :
       wk' = [wk EXCEPT ![w].pc = "check", ![w].progress = p]
  /\ UNCHANGED <<row, tx, start, cancels, queue, deliveries, revoked, returned>>

(* run_temporal_project_api or run_detection_api returns its response; a     *)
(* temporal success may fail _temporal_finalization_errors.                  *)
Respond(w) ==
  /\ wk[w].pc = "work"
  /\ \E o \in Outcomes \ {"none"} :
       LET temporal == wk[w].job \in TemporalJobs
       IN  /\ o = "incomplete" => temporal
           /\ wk' = [wk EXCEPT ![w] =
                       [@ EXCEPT !.pc       = "check",
                                 !.phase    = IF temporal THEN "saving" ELSE "persisting",
                                 !.progress = IF temporal THEN 90 ELSE 94,
                                 !.outcome  = o]]
  /\ UNCHANGED <<row, tx, start, cancels, queue, deliveries, revoked, returned>>

LoadToSettle(w) ==
  /\ wk[w].pc = "settle"
  /\ Load(w, wk[w].job,
          IF wk[w].outcome = "success" THEN MarkCompleted(row[wk[w].job])
                                       ELSE MarkFailed(row[wk[w].job]))
  /\ GoTo(w, "settling")
  /\ UNCHANGED <<start, cancels, queue, deliveries, revoked, returned>>

CommitSettle(w) ==
  /\ wk[w].pc = "settling"
  /\ CommitTx(w)
  /\ Return(w, IF wk[w].outcome = "success" THEN "completed" ELSE "failed")
  /\ UNCHANGED <<start, cancels, queue, deliveries, revoked>>

(* An exception leaves the try block of the task: from the pipeline, or from *)
(* any database call when the database can fail.                             *)
Raise(w) ==
  /\ \/ wk[w].pc = "work"
     \/ "database" \in Faults /\ wk[w].pc \notin {"idle", "raise", "raising", "ack"}
  /\ GoTo(w, "raise")
  /\ RollBack(w)
  /\ UNCHANGED <<start, cancels, queue, deliveries, revoked, returned>>

(* mark_job_execution_failed; its own failure is logged and dropped. *)
LoadToMarkRaised(w) ==
  /\ wk[w].pc = "raise"
  /\ Load(w, wk[w].job, MarkFailed(row[wk[w].job]))
  /\ GoTo(w, "raising")
  /\ UNCHANGED <<start, cancels, queue, deliveries, revoked, returned>>

CommitRaised(w) ==
  /\ wk[w].pc = "raising"
  /\ CommitTx(w)
  /\ Return(w, "raised")
  /\ UNCHANGED <<start, cancels, queue, deliveries, revoked>>

FailureNotPersisted(w) ==
  /\ "database" \in Faults
  /\ wk[w].pc \in {"raise", "raising"}
  /\ RollBack(w)
  /\ Return(w, "raised")
  /\ UNCHANGED <<start, cancels, queue, deliveries, revoked>>
-----------------------------------------------------------------------------
ApiStep(j) ==
  \/ CreateJob(j) \/ SendTask(j) \/ SendTaskFails(j) \/ LoadToMarkEnqueued(j)
  \/ LoadToMarkUnsent(j) \/ CommitStart(j) \/ ApiCrash(j)

CancelStep(j) == LoadToCancel(j) \/ CommitCancel(j) \/ AbortCancel(j)

BrokerStep(w) ==
  \/ \E j \in Jobs : Deliver(w, j)
  \/ VisibilityTimeout(w) \/ WorkerCrash(w) \/ IdleWorkerRestart(w)

TaskStep(w) ==
  \/ PrepareCancelled(w) \/ CommitPrepare(w) \/ PrepareSkips(w) \/ PrepareProceeds(w)
  \/ LoadToMarkRunning(w) \/ CommitRunning(w) \/ CheckCancels(w) \/ CheckSwallowed(w)
  \/ CheckPasses(w) \/ LoadToUpdate(w) \/ CommitUpdate(w) \/ Callback(w) \/ Respond(w)
  \/ LoadToSettle(w) \/ CommitSettle(w) \/ Raise(w) \/ LoadToMarkRaised(w)
  \/ CommitRaised(w) \/ FailureNotPersisted(w) \/ Acknowledge(w)

Next ==
  \/ \E j \in Jobs : ApiStep(j) \/ CancelStep(j)
  \/ \E w \in Workers : BrokerStep(w) \/ TaskStep(w)

Spec == Init /\ [][Next]_vars

(* The API threads, the broker and the worker processes keep running.       *)
Fairness ==
  /\ \A j \in Jobs :
       /\ WF_vars(SendTask(j) \/ SendTaskFails(j))
       /\ WF_vars(LoadToMarkEnqueued(j) \/ LoadToMarkUnsent(j) \/ CommitStart(j))
       /\ WF_vars(CommitCancel(j) \/ AbortCancel(j))
  /\ \A w \in Workers :
       /\ WF_vars(\E j \in Jobs : Deliver(w, j))
       /\ WF_vars(TaskStep(w))

FairSpec == Spec /\ Fairness
-----------------------------------------------------------------------------
(* Properties *)

(* Whatever transactions overlap, the timestamps and the cancel flag agree   *)
(* with the status: a settled job has completed_at, a running one started_at *)
(* and a cancelled one was asked to cancel.                                  *)
StampsCoherent ==
  \A j \in Jobs : row[j] # NoRow =>
    /\ row[j].status \in TerminalStatuses => row[j].completed
    /\ row[j].status = "running" => row[j].started
    /\ row[j].status \in {"cancel_requested", "cancelled"} => row[j].cancel

(* No transaction of any process loses a committed cancel request, although  *)
(* progress updates overwrite the status that announces it.                  *)
CancelIsSticky ==
  [][\A j \in Jobs : row[j] # NoRow /\ row[j].cancel => row'[j].cancel]_vars

(* Tasks stop cooperatively at phase checks: a task writes at most once over *)
(* a committed cancel request before its next check stops it.                *)
AtMostOneLateWrite == \A w \in Workers : wk[w].late <= 1

(* A task delivered again after the job settled leaves the row settled: only *)
(* the API's transactions move a job out of a terminal status.               *)
Settled(j) == row[j] # NoRow /\ row[j].status \in TerminalStatuses

TasksNeverRevive ==
  [][\A j \in Jobs : Settled(j) /\ ~Settled(j)' =>
       \E a \in {Starter(j), Canceller(j)} : tx[a] # NoTx /\ tx'[a] = NoTx]_vars

(* A committed cancel request stops every task of the job, even one whose    *)
(* pipeline would report forever.                                            *)
CancelStopsWork ==
  \A j \in Jobs :
    (row[j] # NoRow /\ row[j].cancel) ~> (\A w \in Workers : ~Executing(w, j))

(* A published message ends when pipelines are finite computations, which    *)
(* report boundedly many times: its task returns, or the worker drops it.    *)
(* (A message requeued MaxDeliveries times waits only for the bound.)        *)
PipelinesEnd == \A w \in Workers : SF_vars(Respond(w))

DeliveredTooOften(j) == j \in queue /\ deliveries[j] = MaxDeliveries

SentTaskReturns ==
  PipelinesEnd =>
    \A j \in Jobs : (start[j] = "enqueue") ~> (returned[j] # "none" \/ DeliveredTooOften(j))
=============================================================================
