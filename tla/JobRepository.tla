--------------------------- MODULE JobRepository ---------------------------
(***************************************************************************)
(* The jobs table of the backend (src/backend/src/repositories/            *)
(* job_repository.py): the columns of a row that the job protocol reads    *)
(* and writes, and the effect of every mark_* function on a loaded record. *)
(*                                                                         *)
(* Every mark_* function is one database transaction: a SELECT that loads  *)
(* the record, assignments to it in memory, and a COMMIT.  SQLAlchemy's    *)
(* unit of work sends only the columns whose value differs from the loaded *)
(* one, without a version check; under READ COMMITTED two overlapping      *)
(* transactions therefore merge column by column.  Flushed is that merge.  *)
(***************************************************************************)
EXTENDS Integers

Statuses == {"queued", "running", "completed", "failed",
             "cancel_requested", "cancelled"}

(* The legacy spelling "complete" is read as "completed". *)
TerminalStatuses == {"completed", "failed", "cancelled"}

(* task: celery_task_id is set.  started, completed: the timestamps are set. *)
(* error: error_message is set.  result: result_run_id is set.               *)
Row == [status    : Statuses,
        progress  : 0..100,
        cancel    : BOOLEAN,
        task      : BOOLEAN,
        started   : BOOLEAN,
        completed : BOOLEAN,
        error     : BOOLEAN,
        result    : BOOLEAN]

CreatedRow == [status |-> "queued", progress |-> 0, cancel |-> FALSE,
               task |-> FALSE, started |-> FALSE, completed |-> FALSE,
               error |-> FALSE, result |-> FALSE]

MarkEnqueued(r) ==
  [r EXCEPT !.task = TRUE, !.status = "queued", !.progress = 0]

(* Mutant: a status no reader knows. *)
MarkRunningLegacyStatus(r) ==
  [r EXCEPT !.status = "started", !.progress = 5, !.started = TRUE]

(* Mutant: starting afresh forgets the cancel flag. *)
MarkRunningAfresh(r) ==
  [r EXCEPT !.status = "running", !.progress = 5, !.started = TRUE, !.cancel = FALSE]

MarkRunning(r) ==
  [r EXCEPT !.status = "running", !.progress = 5, !.started = TRUE]

UpdateProgress(r, p) ==
  [r EXCEPT !.status   = "running",
            !.progress = IF p < 0 THEN 0 ELSE IF p > 100 THEN 100 ELSE p,
            !.started  = TRUE]

MarkCompleted(r) ==
  [r EXCEPT !.status = "completed", !.progress = 100, !.result = TRUE,
            !.error = FALSE, !.completed = TRUE]

MarkFailed(r) ==
  [r EXCEPT !.status = "failed", !.progress = 100, !.error = TRUE,
            !.completed = TRUE]

MarkCancelRequested(r) ==
  [r EXCEPT !.cancel = TRUE, !.status = "cancel_requested"]

(* Mutant: completed_at is forgotten. *)
MarkCancelledUnstamped(r) == [r EXCEPT !.cancel = TRUE, !.status = "cancelled"]

MarkCancelled(r) ==
  [r EXCEPT !.cancel = TRUE, !.status = "cancelled", !.completed = TRUE]

(* Mutant: only the status is consulted. *)
CancelRequestedByStatus(r) == r.status = "cancel_requested"

CancelRequested(r) == r.cancel \/ r.status = "cancel_requested"

(* The row after a transaction that loaded old and left the record as new  *)
(* commits over the current row now.                                       *)
Column(now, old, new) == IF new = old THEN now ELSE new

Flushed(now, old, new) ==
  [status    |-> Column(now.status, old.status, new.status),
   progress  |-> Column(now.progress, old.progress, new.progress),
   cancel    |-> Column(now.cancel, old.cancel, new.cancel),
   task      |-> Column(now.task, old.task, new.task),
   started   |-> Column(now.started, old.started, new.started),
   completed |-> Column(now.completed, old.completed, new.completed),
   error     |-> Column(now.error, old.error, new.error),
   result    |-> Column(now.result, old.result, new.result)]
=============================================================================
