----------------------------- MODULE ExportJobs -----------------------------
(***************************************************************************)
(* Exports in the background: the job records of the API process, its pool *)
(* of threads that build the exports (ExportCache), and the browsers that  *)
(* create a job, poll it and follow its download link.  The records are in *)
(* memory: a restart of the process loses them and the builds under way.   *)
(* Each builder of ExportCache is the thread of one job here.              *)
(***************************************************************************)
EXTENDS ExportCache, Sequences, FiniteSets, SequencesExt

CONSTANTS
  Threads,    \* the size of _EXPORT_JOB_EXECUTOR
  MaxPolls,   \* how often a browser asks before it gives up
  MayRestart  \* is the API process restarted, once

ASSUME PoolAssumption == Threads \in Nat \ {0} /\ MaxPolls \in Nat

VARIABLES
  status,    \* the status of each job, "lost" once its process is gone
  link,      \* has the job its download_url
  queue,     \* the executor's queue
  client,    \* where the browser that wants the job is
  polls,     \* how often it asked
  restarted  \* bounds the restarts

jobs     == <<status, link, queue>>
clients  == <<client, polls>>
jobVars  == <<disk, cache, builds, history, jobs, clients, restarted>>

Settled == {"succeeded", "failed"}
ClientEnds == {"downloaded", "no link", "failed", "gave up"}
ClientPlaces == ClientEnds \cup {"idle", "found", "missing", "waiting", "ready"}
Busy == {j \in Builders : status[j] = "running" \/ pc[j] = "marking"}

SetStatus(j, s) == status' = [status EXCEPT ![j] = s]
Client(j, place) == client' = [client EXCEPT ![j] = place]

-----------------------------------------------------------------------------
\* Mutant: a job found in the cache is submitted as well.
RegisterReadySubmitted(j) ==
  /\ client[j] = "found"
  /\ SetStatus(j, "succeeded")
  /\ link' = [link EXCEPT ![j] = TRUE]
  /\ queue' = Append(queue, j)
  /\ Client(j, "ready")
  /\ UNCHANGED <<disk, cache, builds, history, polls, restarted>>

\* create_temporal_results_export_job looks into the cache before it takes the
\* lock of the records ...
Create(j) ==
  /\ client[j] = "idle"
  /\ Client(j, IF Cached THEN "found" ELSE "missing")
  /\ UNCHANGED <<disk, cache, builds, history, jobs, polls, restarted>>

\* ... and registers the job, ready at once ...
RegisterReady(j) ==
  /\ client[j] = "found"
  /\ SetStatus(j, "succeeded")
  /\ link' = [link EXCEPT ![j] = TRUE]
  /\ Client(j, "ready")
  /\ UNCHANGED <<disk, cache, builds, history, queue, polls, restarted>>

\* ... or queued.
RegisterQueued(j) ==
  /\ client[j] = "missing"
  /\ SetStatus(j, "queued")
  /\ queue' = Append(queue, j)
  /\ Client(j, "waiting")
  /\ UNCHANGED <<disk, cache, builds, history, link, polls, restarted>>

-----------------------------------------------------------------------------
\* A thread of the pool takes the next job: _run_export_job.
Start(j) ==
  /\ queue # <<>> /\ Head(queue) = j
  /\ Cardinality(Busy) < Threads
  /\ queue' = Tail(queue)
  /\ SetStatus(j, "running")
  /\ UNCHANGED <<disk, cache, builds, history, link, clients, restarted>>

Run(j) ==
  /\ status[j] = "running"
  /\ BuildStep(j)
  /\ UNCHANGED <<jobs, clients, restarted>>

\* _mark_export_job_ready sets the status before the link; readers take no lock
\* for the fields.
MarkSucceeded(j) ==
  /\ status[j] = "running" /\ pc[j] = "answer"
  /\ SetStatus(j, "succeeded")
  /\ Go(j, "marking")
  /\ UNCHANGED <<disk, cache, loaded, key, history, link, queue, clients, restarted>>

MarkLink(j) ==
  /\ pc[j] = "marking"
  /\ link' = [link EXCEPT ![j] = TRUE]
  /\ End(j, "done")
  /\ UNCHANGED <<disk, cache, crossed, status, queue, clients, restarted>>

\* Mutant: an exception of the build leaves the record as it was.
MarkFailedNot(j) ==
  /\ status[j] = "running" /\ pc[j] = "raised"
  /\ End(j, "failed")
  /\ UNCHANGED <<disk, cache, crossed, jobs, clients, restarted>>

MarkFailed(j) ==
  /\ status[j] = "running" /\ pc[j] = "raised"
  /\ SetStatus(j, "failed")
  /\ End(j, "failed")
  /\ UNCHANGED <<disk, cache, crossed, link, queue, clients, restarted>>

ThreadStep(j) == Start(j) \/ Run(j) \/ MarkSucceeded(j) \/ MarkLink(j) \/ MarkFailed(j)

-----------------------------------------------------------------------------
\* Mutant: the browser ends with the status it was shown.
PollEndingWithStatus(j) ==
  /\ client[j] = "waiting" /\ polls[j] < MaxPolls
  /\ polls' = [polls EXCEPT ![j] = @ + 1]
  /\ Client(j, IF status[j] \in {"failed", "lost"} THEN status[j] ELSE "waiting")
  /\ UNCHANGED <<disk, cache, builds, history, jobs, restarted>>

\* runResultsExportJobDownload asks again; a lost job is answered with a 404.
Poll(j) ==
  /\ client[j] = "waiting" /\ polls[j] < MaxPolls
  /\ polls' = [polls EXCEPT ![j] = @ + 1]
  /\ Client(j, CASE status[j] = "succeeded" -> IF link[j] THEN "ready" ELSE "no link"
                 [] status[j] \in {"failed", "lost"} -> "failed"
                 [] OTHER -> "waiting")
  /\ UNCHANGED <<disk, cache, builds, history, jobs, restarted>>

GiveUp(j) ==
  /\ client[j] = "waiting" /\ polls[j] = MaxPolls
  /\ Client(j, "gave up")
  /\ UNCHANGED <<disk, cache, builds, history, jobs, polls, restarted>>

\* download_temporal_results_export_job: the record must be there and succeeded;
\* the file at its path is sent.
Download(j) ==
  /\ client[j] = "ready"
  /\ Client(j, IF status[j] = "succeeded" /\ file # Nothing THEN "downloaded" ELSE "failed")
  /\ UNCHANGED <<disk, cache, builds, history, jobs, polls, restarted>>

ClientStep(j) ==
  \/ Create(j) \/ RegisterReady(j) \/ RegisterQueued(j)
  \/ Poll(j) \/ GiveUp(j) \/ Download(j)

\* Records, queue and threads go; the token of a link given out no longer
\* verifies.  A request that waits for its answer to a POST fails with it.
Restart ==
  /\ MayRestart /\ ~restarted /\ restarted' = TRUE
  /\ status' = [j \in Builders |-> IF status[j] = "none" THEN "none" ELSE "lost"]
  /\ link' = [j \in Builders |-> FALSE]
  /\ queue' = <<>>
  /\ pc' = [j \in Builders |-> IF Active(j) THEN "crashed" ELSE pc[j]]
  /\ client' = [j \in Builders |-> IF client[j] \in {"found", "missing"} THEN "failed"
                                   ELSE client[j]]
  /\ loaded' = [j \in Builders |-> Shown0] /\ key' = [j \in Builders |-> NoKey]
  /\ since' = [j \in Builders |-> {}] /\ met' = {}
  /\ UNCHANGED <<disk, cache, crossed, polls>>

JobInit ==
  /\ Init
  /\ status = [j \in Builders |-> "none"] /\ link = [j \in Builders |-> FALSE]
  /\ queue = <<>>
  /\ client = [j \in Builders |-> "idle"] /\ polls = [j \in Builders |-> 0]
  /\ restarted = FALSE

JobNext ==
  \/ \E j \in Builders : ThreadStep(j) \/ ClientStep(j)
  \/ Save /\ UNCHANGED <<jobs, clients, restarted>>
  \/ Restart

JobSpec == JobInit /\ [][JobNext]_jobVars

\* The threads of the pool run; nothing else needs to happen.
JobFairSpec == JobSpec /\ \A j \in Builders : WF_jobVars(ThreadStep(j))

-----------------------------------------------------------------------------
JobTypeOK ==
  /\ status \in [Builders -> Settled \cup {"none", "queued", "running", "lost"}]
  /\ link \in [Builders -> BOOLEAN]
  /\ ToSet(queue) \subseteq Builders
  /\ client \in [Builders -> ClientPlaces]
  /\ polls \in [Builders -> 0 .. MaxPolls]
  /\ pc \in [Builders -> Places \cup {"marking"}]

\* A browser that holds a link finds a file behind it until the process goes,
\* and the job it belongs to is not taken up again
\* (download_temporal_results_export_job answers 409 for one that is not done).
LinksLead ==
  \A j \in Builders :
    client[j] = "ready" /\ status[j] # "lost"
      => status[j] = "succeeded" /\ link[j] /\ file # Nothing

\* Every job that is queued comes to an end, one failing build or many, unless
\* the process goes first (_run_export_job).
EveryJobSettles ==
  \A j \in Builders : status[j] = "queued" ~> status[j] \in Settled \cup {"lost"}
=============================================================================
