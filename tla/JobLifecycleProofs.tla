------------------------- MODULE JobLifecycleProofs -------------------------
(***************************************************************************)
(* Proofs about JobLifecycle for every set of jobs and of workers, every   *)
(* fault set and every bound.  The argument is about transactions: each    *)
(* step of each process either leaves the jobs table and the open          *)
(* transactions alone, or creates a row, loads a record and marks it,      *)
(* commits, or rolls back (DbStep); and the merge of overlapping commits   *)
(* preserves the stamps because every mark_* function only ever sets them. *)
(***************************************************************************)
EXTENDS JobLifecycle, TLAPS

(* The stamps a record o has set are set in the record n too. *)
Below(o, n) ==
  /\ o.cancel => n.cancel
  /\ o.started => n.started
  /\ o.completed => n.completed

Coherent(r) ==
  /\ r.status \in TerminalStatuses => r.completed
  /\ r.status = "running" => r.started
  /\ r.status \in {"cancel_requested", "cancelled"} => r.cancel

(* What a mark_* function makes of a loaded record. *)
Marks(o, n) == n \in Row /\ Below(o, n) /\ Coherent(n)

(* A row exists from the moment its job was created. *)
RowsExist ==
  /\ \A j \in Jobs : start[j] = "none" <=> row[j] = NoRow
  /\ \A j \in queue : row[j] # NoRow
  /\ \A w \in Workers : wk[w].pc # "idle" => row[wk[w].job] # NoRow
  /\ \A a \in Actors : tx[a] # NoTx => row[tx[a].job] # NoRow

Typed == TypeOK /\ RowsExist

(* Every open transaction loaded a record the row has not fallen below. *)
TxOrdered ==
  \A a \in Actors : tx[a] # NoTx =>
    Below(tx[a].old, row[tx[a].job]) /\ Marks(tx[a].old, tx[a].new)

StampInv == TxOrdered /\ StampsCoherent

(* The four ways a step treats the jobs table once the rows exist. *)
Quiet == UNCHANGED <<row, tx>>

Marking ==
  \E a \in Actors, j \in Jobs, new \in Row :
    row[j] \in Row /\ Marks(row[j], new) /\ Load(a, j, new)

Committing == \E a \in Actors : CommitTx(a)

RollingBack == \E a \in Actors : RollBack(a)

DbStep == Quiet \/ Marking \/ Committing \/ RollingBack

Creating ==
  \E j \in Jobs : row[j] = NoRow /\ row' = [row EXCEPT ![j] = CreatedRow] /\ UNCHANGED tx

-----------------------------------------------------------------------------
(* Lemmas about the records *)

(* Each mark_* function yields a record of the table's type. *)
LEMMA MarksInRow ==
  ASSUME NEW r \in Row
  PROVE  /\ MarkEnqueued(r) \in Row
         /\ MarkRunning(r) \in Row
         /\ \A p \in 0..100 : UpdateProgress(r, p) \in Row
         /\ MarkCompleted(r) \in Row
         /\ MarkFailed(r) \in Row
         /\ MarkCancelRequested(r) \in Row
         /\ MarkCancelled(r) \in Row
<1>1. 0 \in 0..100 /\ 5 \in 0..100 /\ 100 \in 0..100
  BY SMT
<1>2. Statuses = {"queued", "running", "completed", "failed", "cancel_requested", "cancelled"}
  BY DEF Statuses
<1>3. MarkEnqueued(r) \in Row
  BY <1>1, <1>2, Zenon DEF MarkEnqueued, Row
<1>4. MarkRunning(r) \in Row
  BY <1>1, <1>2, Zenon DEF MarkRunning, Row
<1>5. ASSUME NEW p \in 0..100
      PROVE  UpdateProgress(r, p) \in Row
  <2>1. (IF p < 0 THEN 0 ELSE IF p > 100 THEN 100 ELSE p) \in 0..100
    BY SMT
  <2> QED BY <2>1, <1>2, Zenon DEF UpdateProgress, Row
<1>6. MarkCompleted(r) \in Row
  BY <1>1, <1>2, Zenon DEF MarkCompleted, Row
<1>7. MarkFailed(r) \in Row
  BY <1>1, <1>2, Zenon DEF MarkFailed, Row
<1>8. MarkCancelRequested(r) \in Row
  BY <1>2, Zenon DEF MarkCancelRequested, Row
<1>9. MarkCancelled(r) \in Row
  BY <1>2, Zenon DEF MarkCancelled, Row
<1> QED BY <1>3, <1>4, <1>5, <1>6, <1>7, <1>8, <1>9

(* Each mark_* function yields a coherent record and clears no stamp. *)
LEMMA MarksAreSafe ==
  ASSUME NEW r \in Row
  PROVE  /\ Marks(r, MarkEnqueued(r))
         /\ Marks(r, MarkRunning(r))
         /\ \A p \in 0..100 : Marks(r, UpdateProgress(r, p))
         /\ Marks(r, MarkCompleted(r))
         /\ Marks(r, MarkFailed(r))
         /\ Marks(r, MarkCancelRequested(r))
         /\ Marks(r, MarkCancelled(r))
<1> DEFINE Safe(n) == Below(r, n) /\ Coherent(n)
<1> USE DEF Row, Below, Coherent, Statuses, TerminalStatuses
<1>1. Safe(MarkEnqueued(r))
  BY DEF MarkEnqueued
<1>2. Safe(MarkRunning(r))
  BY DEF MarkRunning
<1>3. \A p \in 0..100 : Safe(UpdateProgress(r, p))
  BY DEF UpdateProgress
<1>4. Safe(MarkCompleted(r))
  BY DEF MarkCompleted
<1>5. Safe(MarkFailed(r))
  BY DEF MarkFailed
<1>6. Safe(MarkCancelRequested(r))
  BY DEF MarkCancelRequested
<1>7. Safe(MarkCancelled(r))
  BY DEF MarkCancelled
<1> HIDE DEF Row, Below, Coherent
<1> QED
  BY <1>1, <1>2, <1>3, <1>4, <1>5, <1>6, <1>7, MarksInRow DEF Marks

(* A freshly created row is coherent. *)
LEMMA CreatedRowIsSafe == CreatedRow \in Row /\ Coherent(CreatedRow)
<1>1. 0 \in 0..100
  BY SMT
<1>2. CreatedRow \in Row
  BY <1>1, Zenon DEF CreatedRow, Row, Statuses
<1>3. Coherent(CreatedRow)
  BY DEF CreatedRow, Coherent, TerminalStatuses
<1> QED BY <1>2, <1>3

(* The column-wise merge of two transactions stays in the table's type. *)
LEMMA FlushedInRow ==
  ASSUME NEW now \in Row, NEW old \in Row, NEW new \in Row
  PROVE  Flushed(now, old, new) \in Row
  BY DEF Flushed, Column, Row

(* The merge clears no stamp, whatever committed since the record was loaded. *)
LEMMA FlushedAbove ==
  ASSUME NEW now \in Row, NEW old \in Row, NEW new \in Row,
         Below(old, now), Marks(old, new)
  PROVE  Below(now, Flushed(now, old, new))
  BY DEF Flushed, Column, Row, Below, Marks

(* The merge of a coherent row with a coherent record is coherent. *)
LEMMA FlushedCoherent ==
  ASSUME NEW now \in Row, NEW old \in Row, NEW new \in Row,
         Below(old, now), Marks(old, new), Coherent(now)
  PROVE  Coherent(Flushed(now, old, new))
  BY DEF Flushed, Column, Row, Below, Marks, Coherent, Statuses, TerminalStatuses
-----------------------------------------------------------------------------
(* Type correctness *)

(* Every step either creates a row or is one of the four transaction steps. *)
LEMMA StepIsDbStep ==
  ASSUME Typed, Next
  PROVE  \/ Creating /\ \E j \in Jobs : CreateJob(j)
         \/ DbStep /\ \A j \in Jobs : start'[j] = "none" <=> start[j] = "none"
<1> DEFINE Same == \A j \in Jobs : start'[j] = "none" <=> start[j] = "none"
<1> SUFFICES ASSUME ~ \E j \in Jobs : CreateJob(j)
             PROVE  DbStep /\ Same
  BY DEF CreateJob, Creating, Typed, TypeOK, RowsExist
<1> USE DEF Typed, TypeOK, RowsExist
<1>r. \A j \in Jobs : row[j] # NoRow => row[j] \in Row
  OBVIOUS
<1>a. \A j \in Jobs : Starter(j) \in Actors /\ Canceller(j) \in Actors
  BY DEF Actors
<1>w. Workers \subseteq Actors
  BY DEF Actors
<1>k. \A w \in Workers : wk[w].pc # "idle" =>
        wk[w].job \in Jobs /\ row[wk[w].job] \in Row /\ wk[w].progress \in 0..100
  BY <1>r DEF Task
<1>1. ASSUME NEW j \in Jobs, ApiStep(j)
      PROVE  DbStep /\ Same
  <2>1. CASE SendTask(j)
    BY <2>1 DEF SendTask, DbStep, Quiet
  <2>2. CASE SendTaskFails(j)
    BY <2>2 DEF SendTaskFails, DbStep, Quiet
  <2>3. CASE LoadToMarkEnqueued(j)
    <3>1. row[j] \in Row
      BY <2>3, <1>r DEF LoadToMarkEnqueued
    <3>2. Marks(row[j], MarkEnqueued(row[j])) /\ MarkEnqueued(row[j]) \in Row
      BY <3>1, MarksAreSafe, MarksInRow
    <3> QED BY <2>3, <3>1, <3>2, <1>a DEF LoadToMarkEnqueued, DbStep, Marking
  <2>4. CASE LoadToMarkUnsent(j)
    <3>1. row[j] \in Row
      BY <2>4, <1>r DEF LoadToMarkUnsent
    <3>2. Marks(row[j], MarkFailed(row[j])) /\ MarkFailed(row[j]) \in Row
      BY <3>1, MarksAreSafe, MarksInRow
    <3> QED BY <2>4, <3>1, <3>2, <1>a DEF LoadToMarkUnsent, DbStep, Marking
  <2>5. CASE CommitStart(j)
    BY <2>5, <1>a DEF CommitStart, DbStep, Committing
  <2>6. CASE ApiCrash(j)
    BY <2>6, <1>a DEF ApiCrash, DbStep, RollingBack
  <2> QED BY <1>1, <2>1, <2>2, <2>3, <2>4, <2>5, <2>6 DEF ApiStep
<1>2. ASSUME NEW j \in Jobs, CancelStep(j)
      PROVE  DbStep /\ Same
  <2>1. CASE LoadToCancel(j)
    <3>1. row[j] \in Row
      BY <2>1, <1>r DEF LoadToCancel
    <3>2. Marks(row[j], MarkCancelRequested(row[j])) /\ MarkCancelRequested(row[j]) \in Row
      BY <3>1, MarksAreSafe, MarksInRow
    <3> QED BY <2>1, <3>1, <3>2, <1>a DEF LoadToCancel, DbStep, Marking
  <2>2. CASE CommitCancel(j)
    BY <2>2, <1>a DEF CommitCancel, DbStep, Committing
  <2>3. CASE AbortCancel(j)
    BY <2>3, <1>a DEF AbortCancel, DbStep, RollingBack
  <2> QED BY <1>2, <2>1, <2>2, <2>3 DEF CancelStep
<1>3. ASSUME NEW w \in Workers, BrokerStep(w)
      PROVE  DbStep /\ Same
  <2>1. ASSUME NEW j \in Jobs, Deliver(w, j)
        PROVE  DbStep /\ Same
    BY <2>1 DEF Deliver, DbStep, Quiet
  <2>2. CASE VisibilityTimeout(w)
    BY <2>2 DEF VisibilityTimeout, DbStep, Quiet
  <2>3. CASE WorkerCrash(w)
    BY <2>3, <1>w DEF WorkerCrash, DbStep, RollingBack
  <2>4. CASE IdleWorkerRestart(w)
    BY <2>4 DEF IdleWorkerRestart, DbStep, Quiet
  <2> QED BY <1>3, <2>1, <2>2, <2>3, <2>4 DEF BrokerStep
<1>4. ASSUME NEW w \in Workers, TaskStep(w)
      PROVE  DbStep /\ Same
  <2> DEFINE r == row[wk[w].job]
  <2>m. ASSUME wk[w].pc # "idle"
        PROVE  /\ wk[w].job \in Jobs /\ r \in Row /\ w \in Actors
               /\ Marks(r, MarkCancelled(r)) /\ MarkCancelled(r) \in Row
               /\ Marks(r, MarkRunning(r)) /\ MarkRunning(r) \in Row
               /\ Marks(r, UpdateProgress(r, wk[w].progress))
               /\ UpdateProgress(r, wk[w].progress) \in Row
               /\ Marks(r, MarkCompleted(r)) /\ MarkCompleted(r) \in Row
               /\ Marks(r, MarkFailed(r)) /\ MarkFailed(r) \in Row
    BY <2>m, <1>k, <1>w, MarksAreSafe, MarksInRow
  <2>1. CASE PrepareCancelled(w)
    BY <2>1, <2>m DEF PrepareCancelled, DbStep, Marking
  <2>2. CASE LoadToMarkRunning(w)
    BY <2>2, <2>m DEF LoadToMarkRunning, DbStep, Marking
  <2>3. CASE LoadToUpdate(w)
    BY <2>3, <2>m DEF LoadToUpdate, DbStep, Marking
  <2>4. CASE LoadToSettle(w)
    BY <2>4, <2>m DEF LoadToSettle, DbStep, Marking
  <2>5. CASE LoadToMarkRaised(w)
    BY <2>5, <2>m DEF LoadToMarkRaised, DbStep, Marking
  <2>6. CASE CommitPrepare(w) \/ CommitRunning(w) \/ CommitUpdate(w)
             \/ CommitSettle(w) \/ CommitRaised(w)
    BY <2>6, <1>w DEF CommitPrepare, CommitRunning, CommitUpdate, CommitSettle,
                      CommitRaised, DbStep, Committing
  <2>7. CASE Raise(w) \/ FailureNotPersisted(w)
    BY <2>7, <1>w DEF Raise, FailureNotPersisted, DbStep, RollingBack
  <2>8. CASE PrepareSkips(w) \/ PrepareProceeds(w) \/ CheckCancels(w) \/ CheckSwallowed(w)
             \/ CheckPasses(w) \/ Callback(w) \/ Respond(w) \/ Acknowledge(w)
    BY <2>8 DEF PrepareSkips, PrepareProceeds, CheckCancels, CheckSwallowed, CheckPasses,
                Callback, Respond, Acknowledge, DbStep, Quiet
  <2> QED BY <1>4, <2>1, <2>2, <2>3, <2>4, <2>5, <2>6, <2>7, <2>8 DEF TaskStep
<1> QED BY <1>1, <1>2, <1>3, <1>4 DEF Next

(* The transaction steps keep the table and the transactions well typed, and *)
(* neither create nor delete rows.                                           *)
LEMMA DbStepTyped ==
  ASSUME JobsAssumption, Typed, DbStep
  PROVE  /\ row' \in [Jobs -> Row \cup {NoRow}]
         /\ tx' \in [Actors -> Tx \cup {NoTx}]
         /\ \A j \in Jobs : row'[j] = NoRow <=> row[j] = NoRow
         /\ \A a \in Actors : tx'[a] # NoTx => row[tx'[a].job] # NoRow
<1> USE DEF Typed, TypeOK, RowsExist
<1>1. CASE Quiet
  BY <1>1 DEF Quiet
<1>2. ASSUME NEW a \in Actors, NEW j \in Jobs, NEW new \in Row, row[j] \in Row, Load(a, j, new)
      PROVE  /\ row' = row
             /\ tx' \in [Actors -> Tx \cup {NoTx}]
             /\ \A b \in Actors : tx'[b] # NoTx => row[tx'[b].job] # NoRow
  <2> DEFINE opened == [job |-> j, old |-> row[j], new |-> new]
  <2>1. opened \in Tx /\ opened.job = j
    BY <1>2, Zenon DEF Tx
  <2>2. row' = row /\ tx' = [tx EXCEPT ![a] = opened]
    BY <1>2 DEF Load
  <2>3. row[j] # NoRow
    BY <1>2 DEF JobsAssumption
  <2> HIDE DEF opened
  <2> QED BY <2>1, <2>2, <2>3
<1>3. ASSUME NEW a \in Actors, CommitTx(a)
      PROVE  /\ row' \in [Jobs -> Row \cup {NoRow}]
             /\ tx' \in [Actors -> Tx \cup {NoTx}]
             /\ \A j \in Jobs : row'[j] = NoRow <=> row[j] = NoRow
             /\ \A b \in Actors : tx'[b] # NoTx => row[tx'[b].job] # NoRow
  <2>1. tx[a] \in Tx
    BY <1>3 DEF CommitTx
  <2>2. tx[a].job \in Jobs /\ tx[a].old \in Row /\ tx[a].new \in Row
    BY <2>1 DEF Tx
  <2>3. row[tx[a].job] \in Row
    BY <1>3, <2>2 DEF CommitTx
  <2>4. Flushed(row[tx[a].job], tx[a].old, tx[a].new) \in Row
    BY <2>2, <2>3, FlushedInRow
  <2>5. row' = [row EXCEPT ![tx[a].job] = Flushed(row[tx[a].job], tx[a].old, tx[a].new)]
    BY <1>3 DEF CommitTx
  <2>6. tx' = [tx EXCEPT ![a] = NoTx]
    BY <1>3 DEF CommitTx
  <2> QED BY <2>2, <2>3, <2>4, <2>5, <2>6 DEF JobsAssumption
<1>4. ASSUME NEW a \in Actors, RollBack(a)
      PROVE  /\ row' = row
             /\ tx' \in [Actors -> Tx \cup {NoTx}]
             /\ \A b \in Actors : tx'[b] # NoTx => row[tx'[b].job] # NoRow
  BY <1>4 DEF RollBack
<1> QED BY <1>1, <1>2, <1>3, <1>4 DEF DbStep, Marking, Committing, RollingBack

(* The control state of the processes stays well typed, and a task or a      *)
(* message exists only for a job that was created.                           *)
ControlOK ==
  /\ start \in [Jobs -> StartPCs]
  /\ cancels \in [Jobs -> Nat]
  /\ queue \subseteq Jobs
  /\ deliveries \in [Jobs -> Nat]
  /\ revoked \in [Workers -> SUBSET Jobs]
  /\ wk \in [Workers -> Task]
  /\ \A w \in Workers : wk[w].pc # "idle" => wk[w].job \in Jobs
  /\ returned \in [Jobs -> Returns]

Created(j) == row[j] # NoRow

ControlCreated ==
  /\ \A j \in queue : Created(j)
  /\ \A w \in Workers : wk[w].pc # "idle" => Created(wk[w].job)

(* Moving a task to another program counter keeps it a task of the same job. *)
LEMMA TaskMoves ==
  ASSUME NEW t \in Task, NEW pc \in TaskPCs
  PROVE  [t EXCEPT !.pc = pc] \in Task /\ [t EXCEPT !.pc = pc].pc = pc
         /\ [t EXCEPT !.pc = pc].job = t.job
  BY Zenon DEF Task

(* What the actions make of a task is a task again. *)
LEMMA TasksInTask ==
  ASSUME JobsAssumption, NEW t \in Task
  PROVE  /\ Idle \in Task /\ Idle.pc = "idle"
         /\ \A j \in Jobs : NewTask(j) \in Task /\ NewTask(j).job = j
         /\ \A pc \in TaskPCs : [t EXCEPT !.pc = pc] \in Task
         /\ AfterPublish(t) \in Task /\ AfterPublish(t).job = t.job
         /\ \A n \in 0..2 : [AfterPublish(t) EXCEPT !.late = n] \in Task
                          /\ [AfterPublish(t) EXCEPT !.late = n].job = t.job
<1>1. /\ 12 \in 0..100 /\ 25 \in 0..100 /\ 95 \in 0..100 /\ 0 \in 0..2
  BY SMT
<1> USE DEF Task, TaskPCs, Phases, Outcomes, Returns
<1>2. \A j \in Jobs \cup {NoJob} : NewTask(j) \in Task /\ NewTask(j).job = j
  BY <1>1, Zenon DEF NewTask
<1>3. Idle \in Task /\ Idle.pc = "idle"
  <2>1. NewTask(NoJob) \in Task /\ "idle" \in TaskPCs
    BY <1>2
  <2> HIDE DEF Task, TaskPCs
  <2> QED BY <2>1, TaskMoves, Zenon DEF Idle
<1>4. \A pc \in TaskPCs : [t EXCEPT !.pc = pc] \in Task
  <2> HIDE DEF Task, TaskPCs
  <2> QED BY TaskMoves
<1>5. AfterPublish(t) \in Task /\ AfterPublish(t).job = t.job
  <2>1. [t EXCEPT !.pc = "check", !.phase = "fetching", !.progress = 25] \in Task
    BY <1>1, Zenon
  <2>2. [t EXCEPT !.pc = "work", !.phase = "pairs"] \in Task
    BY Zenon
  <2>3. [t EXCEPT !.pc = "check", !.phase = "persisting", !.progress = 95] \in Task
    BY <1>1, Zenon
  <2>4. [t EXCEPT !.pc = "settle"] \in Task /\ [t EXCEPT !.pc = "work"] \in Task
    <3>1. "settle" \in TaskPCs /\ "work" \in TaskPCs
      OBVIOUS
    <3> HIDE DEF Task, TaskPCs
    <3> QED BY <1>4, <3>1
  <2> QED BY <2>1, <2>2, <2>3, <2>4 DEF AfterPublish
<1>6. ASSUME NEW u \in Task, NEW n \in 0..2
      PROVE  [u EXCEPT !.late = n] \in Task /\ [u EXCEPT !.late = n].job = u.job
  BY Zenon
<1> HIDE DEF Task, TaskPCs, Phases, Outcomes, Returns
<1> QED BY <1>2, <1>3, <1>4, <1>5, <1>6

(* Every step keeps the control state well typed. *)
LEMMA ControlStep ==
  ASSUME JobsAssumption, Typed, Next,
         \A j \in Jobs : Created(j) => Created(j)'
  PROVE  ControlOK' /\ ControlCreated'
<1> USE DEF Typed, TypeOK, RowsExist, ControlOK, ControlCreated, Created
<1>t. \A w \in Workers : /\ wk[w] \in Task /\ wk[w].pc \in TaskPCs
                         /\ wk[w].job \in Jobs \cup {NoJob} /\ wk[w].verdict \in Returns
                         /\ wk[w].outcome \in Outcomes /\ wk[w].late \in 0..2
  BY DEF Task
<1>1. ASSUME NEW j \in Jobs, ApiStep(j)
      PROVE  ControlOK' /\ ControlCreated'
  <2>1. CASE CreateJob(j)
    BY <2>1 DEF CreateJob, StartPCs
  <2>2. CASE SendTask(j)
    BY <2>2 DEF SendTask, StartPCs
  <2>3. CASE SendTaskFails(j)
    BY <2>3 DEF SendTaskFails, StartPCs
  <2>4. CASE LoadToMarkEnqueued(j)
    BY <2>4 DEF LoadToMarkEnqueued, StartPCs
  <2>5. CASE LoadToMarkUnsent(j)
    BY <2>5 DEF LoadToMarkUnsent, StartPCs
  <2>6. CASE CommitStart(j)
    BY <2>6 DEF CommitStart, StartPCs
  <2>7. CASE ApiCrash(j)
    BY <2>7 DEF ApiCrash, StartPCs
  <2> QED BY <1>1, <2>1, <2>2, <2>3, <2>4, <2>5, <2>6, <2>7 DEF ApiStep
<1>2. ASSUME NEW j \in Jobs, CancelStep(j)
      PROVE  ControlOK' /\ ControlCreated'
  <2>1. CASE LoadToCancel(j)
    <3>1. cancels' \in [Jobs -> Nat]
      BY <2>1 DEF LoadToCancel
    <3>2. revoked' \in [Workers -> SUBSET Jobs]
      BY <2>1 DEF LoadToCancel
    <3> QED BY <2>1, <3>1, <3>2 DEF LoadToCancel
  <2>2. CASE CommitCancel(j)
    BY <2>2 DEF CommitCancel
  <2>3. CASE AbortCancel(j)
    BY <2>3 DEF AbortCancel
  <2> QED BY <1>2, <2>1, <2>2, <2>3 DEF CancelStep
<1>3. ASSUME NEW w \in Workers, BrokerStep(w)
      PROVE  ControlOK' /\ ControlCreated'
  <2>1. ASSUME NEW j \in Jobs, Deliver(w, j)
        PROVE  ControlOK' /\ ControlCreated'
    <3>1. NewTask(j) \in Task /\ NewTask(j).job = j
      BY <1>t, TasksInTask
    <3>2. "dropped" \in Returns
      BY DEF Returns
    <3>3. deliveries' \in [Jobs -> Nat]
      BY <2>1 DEF Deliver
    <3> QED BY <2>1, <3>1, <3>2, <3>3 DEF Deliver
  <2>2. CASE VisibilityTimeout(w)
    BY <2>2 DEF VisibilityTimeout
  <2>3. CASE WorkerCrash(w)
    <3>1. Idle \in Task /\ Idle.pc = "idle" /\ "lost" \in Returns
      BY <1>t, TasksInTask DEF Returns
    <3> QED BY <2>3, <3>1, <1>t DEF WorkerCrash
  <2>4. CASE IdleWorkerRestart(w)
    BY <2>4 DEF IdleWorkerRestart
  <2> QED BY <1>3, <2>1, <2>2, <2>3, <2>4 DEF BrokerStep
<1>4. ASSUME NEW w \in Workers, TaskStep(w)
      PROVE  ControlOK' /\ ControlCreated'
  <2> DEFINE Moves(t) == /\ wk[w].pc # "idle"
                         /\ wk' = [wk EXCEPT ![w] = t]
                         /\ t \in Task
                         /\ t.pc # "idle" => t.job = wk[w].job
             Rest == UNCHANGED <<start, cancels, queue, deliveries, revoked>>
  <2>m. ASSUME NEW t, Moves(t), Rest, returned' \in [Jobs -> Returns]
        PROVE  ControlOK' /\ ControlCreated'
    BY <2>m
  <2> DEFINE Going(pc) == [wk[w] EXCEPT !.pc = pc]
  <2>g. \A pc \in TaskPCs : Going(pc) \in Task /\ Going(pc).job = wk[w].job
    BY <1>t, TaskMoves
  <2>h. ASSUME NEW v \in Returns
        PROVE  [Going("ack") EXCEPT !.verdict = v] \in Task
               /\ [Going("ack") EXCEPT !.verdict = v].job = wk[w].job
    <3>1. "ack" \in TaskPCs
      BY DEF TaskPCs
    <3>2. Going("ack") \in Task /\ Going("ack").job = wk[w].job
      BY <2>g, <3>1
    <3> HIDE DEF Going
    <3> QED BY <3>2, Zenon DEF Task
  <2>1. CASE \/ PrepareCancelled(w) \/ PrepareProceeds(w) \/ LoadToMarkRunning(w)
             \/ CheckPasses(w) \/ LoadToUpdate(w) \/ LoadToSettle(w) \/ Raise(w)
             \/ LoadToMarkRaised(w)
    <3>1. \E pc \in TaskPCs : GoTo(w, pc) /\ wk[w].pc # "idle" /\ Rest /\ UNCHANGED returned
      BY <2>1 DEF PrepareCancelled, PrepareProceeds, LoadToMarkRunning, CheckPasses,
                  LoadToUpdate, LoadToSettle, Raise, LoadToMarkRaised, TaskPCs
    <3>2. PICK pc \in TaskPCs : GoTo(w, pc) /\ wk[w].pc # "idle" /\ Rest /\ UNCHANGED returned
      BY <3>1
    <3>3. Moves(Going(pc))
      BY <3>2, <2>g DEF GoTo
    <3> QED BY <3>2, <3>3, <2>m
  <2>2. CASE \/ CommitPrepare(w) \/ PrepareSkips(w) \/ CheckCancels(w) \/ CommitSettle(w)
             \/ CommitRaised(w) \/ FailureNotPersisted(w)
    <3>1. \E v \in Returns : Return(w, v) /\ wk[w].pc # "idle" /\ Rest
      BY <2>2 DEF CommitPrepare, PrepareSkips, CheckCancels, CommitSettle, CommitRaised,
                  FailureNotPersisted, Returns
    <3>2. PICK v \in Returns : Return(w, v) /\ wk[w].pc # "idle" /\ Rest
      BY <3>1
    <3>3. wk' = [wk EXCEPT ![w] = [Going("ack") EXCEPT !.verdict = v]]
      BY <3>2, Zenon DEF Return
    <3>4. Moves([Going("ack") EXCEPT !.verdict = v])
      BY <3>2, <3>3, <2>h
    <3> QED BY <3>2, <3>4, <2>m DEF Return
  <2>3. CASE Acknowledge(w)
    <3>1. Idle \in Task /\ Idle.pc = "idle"
      BY <1>t, TasksInTask
    <3>2. Moves(Idle)
      BY <2>3, <3>1 DEF Acknowledge
    <3> QED BY <2>3, <3>2, <2>m, <1>t DEF Acknowledge
  <2>4. CASE CommitRunning(w)
    <3> DEFINE t == [[wk[w] EXCEPT !.pc = "check"] EXCEPT !.late = Late(w)]
    <3>1. Late(w) \in 0..2
      BY <1>t DEF Late
    <3>2. Going("check") \in Task /\ Going("check").job = wk[w].job
      BY <2>g DEF TaskPCs
    <3>3. t \in Task /\ t.job = wk[w].job
      BY <3>1, <3>2, Zenon DEF Task
    <3>4. wk' = [wk EXCEPT ![w] = t]
      BY <2>4, Zenon DEF CommitRunning
    <3> HIDE DEF t
    <3> QED BY <2>4, <3>3, <3>4, <2>m DEF CommitRunning
  <2>5. CASE CommitUpdate(w)
    <3> DEFINE t == [AfterPublish(wk[w]) EXCEPT !.late = Late(w)]
    <3>1. Late(w) \in 0..2
      BY <1>t DEF Late
    <3>2. t \in Task /\ t.job = wk[w].job
      BY <3>1, <1>t, TasksInTask
    <3>3. wk' = [wk EXCEPT ![w] = t]
      BY <2>5, Zenon DEF CommitUpdate
    <3> HIDE DEF t
    <3> QED BY <2>5, <3>2, <3>3, <2>m DEF CommitUpdate
  <2>6. CASE CheckSwallowed(w)
    <3> DEFINE t == [Going("work") EXCEPT !.outcome = "failure"]
    <3>1. Going("work") \in Task /\ Going("work").job = wk[w].job
      BY <2>g DEF TaskPCs
    <3>2. t \in Task /\ t.job = wk[w].job
      <4> HIDE DEF Going
      <4> QED BY <3>1, Zenon DEF Task, Outcomes
    <3>3. wk' = [wk EXCEPT ![w] = t]
      BY <2>6, Zenon DEF CheckSwallowed
    <3> HIDE DEF t
    <3> QED BY <2>6, <3>2, <3>3, <2>m DEF CheckSwallowed
  <2>7. CASE Callback(w)
    <3>1. PICK p \in CallbackProgress : wk' = [wk EXCEPT ![w].pc = "check", ![w].progress = p]
      BY <2>7 DEF Callback
    <3> DEFINE t == [Going("check") EXCEPT !.progress = p]
    <3>2. p \in 0..100
      BY JobsAssumption DEF JobsAssumption
    <3>3. Going("check") \in Task /\ Going("check").job = wk[w].job
      BY <2>g DEF TaskPCs
    <3>4. t \in Task /\ t.job = wk[w].job
      <4> HIDE DEF Going
      <4> QED BY <3>2, <3>3, Zenon DEF Task
    <3>5. wk' = [wk EXCEPT ![w] = t]
      BY <3>1, Zenon
    <3> HIDE DEF t
    <3> QED BY <2>7, <3>4, <3>5, <2>m DEF Callback
  <2>8. CASE Respond(w)
    <3>1. PICK o \in Outcomes, ph \in {"saving", "persisting"}, p \in {90, 94} :
            wk' = [wk EXCEPT ![w] = [@ EXCEPT !.pc = "check", !.phase = ph,
                                              !.progress = p, !.outcome = o]]
      BY <2>8 DEF Respond
    <3> DEFINE t == [Going("check") EXCEPT !.phase = ph, !.progress = p, !.outcome = o]
    <3>2. p \in 0..100 /\ ph \in Phases
      BY DEF Phases
    <3>3. Going("check") \in Task /\ Going("check").job = wk[w].job
      BY <2>g DEF TaskPCs
    <3>4. t \in Task /\ t.job = wk[w].job
      <4> HIDE DEF Going
      <4> QED BY <3>2, <3>3, Zenon DEF Task
    <3>5. wk' = [wk EXCEPT ![w] = t]
      BY <3>1, Zenon
    <3> HIDE DEF t
    <3> QED BY <2>8, <3>4, <3>5, <2>m DEF Respond
  <2> QED BY <1>4, <2>1, <2>2, <2>3, <2>4, <2>5, <2>6, <2>7, <2>8 DEF TaskStep
<1> QED BY <1>1, <1>2, <1>3, <1>4 DEF Next

(* The initial state is well typed. *)
LEMMA InitTyped == JobsAssumption /\ Init => Typed
<1> SUFFICES ASSUME JobsAssumption, Init PROVE Typed
  OBVIOUS
<1>1. "none" \in StartPCs /\ "none" \in Returns
  BY DEF StartPCs, Returns
<1>2. Idle \in Task /\ Idle.pc = "idle"
  <2>1. NewTask(NoJob) \in Task
    <3>1. 12 \in 0..100 /\ 0 \in 0..2
      BY SMT
    <3> QED BY <3>1, Zenon DEF NewTask, Task, TaskPCs, Phases, Outcomes, Returns
  <2> QED BY <2>1, TasksInTask
<1> QED BY <1>1, <1>2 DEF Init, Typed, TypeOK, RowsExist

(* One step of the system keeps the type invariant. *)
LEMMA NextTyped ==
  ASSUME JobsAssumption, Typed, [Next]_vars
  PROVE  Typed'
<1>1. CASE UNCHANGED vars
  BY <1>1 DEF vars, Typed, TypeOK, RowsExist
<1>2. ASSUME NEW j \in Jobs, CreateJob(j)
      PROVE  Typed'
  <2>1. row' = [row EXCEPT ![j] = CreatedRow] /\ CreatedRow \in Row /\ CreatedRow # NoRow
    BY <1>2, CreatedRowIsSafe DEF CreateJob, JobsAssumption
  <2> QED BY <1>2, <2>1 DEF CreateJob, Typed, TypeOK, RowsExist, StartPCs
<1>3. CASE Next /\ DbStep /\ \A j \in Jobs : start'[j] = "none" <=> start[j] = "none"
  <2>1. /\ row' \in [Jobs -> Row \cup {NoRow}]
        /\ tx' \in [Actors -> Tx \cup {NoTx}]
        /\ \A j \in Jobs : row'[j] = NoRow <=> row[j] = NoRow
        /\ \A a \in Actors : tx'[a] # NoTx => row[tx'[a].job] # NoRow
    BY <1>3, DbStepTyped
  <2>2. ControlOK' /\ ControlCreated'
    BY <1>3, <2>1, ControlStep DEF Created
  <2>3. \A a \in Actors : tx'[a] # NoTx => tx'[a].job \in Jobs
    BY <2>1 DEF Tx
  <2> QED BY <1>3, <2>1, <2>2, <2>3 DEF Typed, TypeOK, RowsExist, ControlOK, ControlCreated, Created
<1> QED BY <1>1, <1>2, <1>3, StepIsDbStep

(* The variables of the job protocol keep their types, whatever the fault set. *)
THEOREM TypeCorrect == Spec => []TypeOK
<1>1. Init => Typed
  BY InitTyped, JobsAssumption
<1>2. Typed /\ [Next]_vars => Typed'
  BY NextTyped, JobsAssumption
<1>3. Typed => TypeOK
  BY DEF Typed
<1> QED BY <1>1, <1>2, <1>3, PTL DEF Spec
-----------------------------------------------------------------------------
(* The stamps *)

(* A row never loses a stamp: no transaction of any process clears one. *)
RowsRise == \A j \in Jobs : row[j] # NoRow => row'[j] # NoRow /\ Below(row[j], row'[j])

LEMMA DbStepKeepsStamps ==
  ASSUME JobsAssumption, Typed, StampInv, DbStep
  PROVE  StampInv' /\ RowsRise
<1>a. \A r : Below(r, r)
  BY DEF Below
<1>b. \A o, m, n : Below(o, m) /\ Below(m, n) => Below(o, n)
  BY DEF Below
<1>c. StampsCoherent <=> \A j \in Jobs : row[j] # NoRow => Coherent(row[j])
  BY DEF StampsCoherent, Coherent
<1>d. StampsCoherent' <=> \A j \in Jobs : row'[j] # NoRow => Coherent(row'[j])
  BY DEF StampsCoherent, Coherent
<1> USE DEF StampInv, TxOrdered, RowsRise
<1>1. CASE Quiet
  BY <1>1, <1>a, <1>c, <1>d DEF Quiet
<1>2. ASSUME NEW a \in Actors, NEW j \in Jobs, NEW new \in Row,
             row[j] \in Row, Marks(row[j], new), Load(a, j, new)
      PROVE  StampInv' /\ RowsRise
  <2> DEFINE opened == [job |-> j, old |-> row[j], new |-> new]
  <2>1. opened.job = j /\ opened.old = row[j] /\ opened.new = new
    OBVIOUS
  <2>2. row' = row /\ tx' = [tx EXCEPT ![a] = opened]
    BY <1>2 DEF Load
  <2>3. tx \in [Actors -> Tx \cup {NoTx}]
    BY DEF Typed, TypeOK
  <2> HIDE DEF opened
  <2> QED BY <2>1, <2>2, <2>3, <1>2, <1>a, <1>c, <1>d
<1>3. ASSUME NEW a \in Actors, CommitTx(a)
      PROVE  StampInv' /\ RowsRise
  <2> DEFINE k == tx[a].job
             flushed == Flushed(row[k], tx[a].old, tx[a].new)
  <2>1. tx \in [Actors -> Tx \cup {NoTx}] /\ row \in [Jobs -> Row \cup {NoRow}]
    BY DEF Typed, TypeOK
  <2>2. k \in Jobs /\ tx[a].old \in Row /\ tx[a].new \in Row /\ row[k] \in Row
    BY <1>3, <2>1 DEF CommitTx, Tx, Typed, RowsExist
  <2>3. Below(tx[a].old, row[k]) /\ Marks(tx[a].old, tx[a].new) /\ Coherent(row[k])
    BY <1>3, <2>2, <1>c DEF CommitTx, JobsAssumption
  <2>4. Below(row[k], flushed) /\ Coherent(flushed) /\ flushed \in Row
    BY <2>2, <2>3, FlushedAbove, FlushedCoherent, FlushedInRow
  <2>5. row' = [row EXCEPT ![k] = flushed] /\ tx' = [tx EXCEPT ![a] = NoTx]
    BY <1>3 DEF CommitTx
  <2> HIDE DEF flushed, k
  <2>6. RowsRise
    BY <2>1, <2>2, <2>4, <2>5, <1>a DEF JobsAssumption
  <2>7. StampsCoherent'
    BY <2>1, <2>2, <2>4, <2>5, <1>c, <1>d
  <2>8. TxOrdered'
    <3> SUFFICES ASSUME NEW b \in Actors, tx'[b] # NoTx
                 PROVE  Below(tx'[b].old, row'[tx'[b].job]) /\ Marks(tx'[b].old, tx'[b].new)
      BY DEF TxOrdered
    <3>1. tx'[b] = tx[b] /\ tx[b] # NoTx
      BY <2>1, <2>5
    <3>2. tx[b].job \in Jobs /\ row[tx[b].job] # NoRow
      BY <2>1, <3>1 DEF Tx, Typed, RowsExist
    <3> QED BY <3>1, <3>2, <2>6, <1>b
  <2> QED BY <2>6, <2>7, <2>8
<1>4. ASSUME NEW a \in Actors, RollBack(a)
      PROVE  StampInv' /\ RowsRise
  <2>1. tx \in [Actors -> Tx \cup {NoTx}]
    BY DEF Typed, TypeOK
  <2> QED BY <1>4, <2>1, <1>a, <1>c, <1>d DEF RollBack
<1> QED BY <1>1, <1>2, <1>3, <1>4 DEF DbStep, Marking, Committing, RollingBack

(* One step of the system keeps the stamps coherent and loses none. *)
LEMMA NextKeepsStamps ==
  ASSUME JobsAssumption, Typed, StampInv, [Next]_vars
  PROVE  StampInv' /\ RowsRise
<1>1. CASE UNCHANGED vars
  <2>1. Quiet
    BY <1>1 DEF vars, Quiet
  <2> QED BY <2>1, DbStepKeepsStamps DEF DbStep
<1>2. ASSUME NEW j \in Jobs, row[j] = NoRow, row' = [row EXCEPT ![j] = CreatedRow], UNCHANGED tx
      PROVE  StampInv' /\ RowsRise
  <2>1. CreatedRow \in Row /\ Coherent(CreatedRow)
    BY CreatedRowIsSafe
  <2>2. /\ tx \in [Actors -> Tx \cup {NoTx}] /\ row \in [Jobs -> Row \cup {NoRow}]
        /\ \A a \in Actors : tx[a] # NoTx => tx[a].job \in Jobs /\ tx[a].job # j
    BY <1>2 DEF Typed, TypeOK, RowsExist, Tx
  <2>3. \A r : Below(r, r)
    BY DEF Below
  <2>4. \A i \in Jobs : row'[i] = IF i = j THEN CreatedRow ELSE row[i]
    BY <1>2, <2>2
  <2>5. \A i \in Jobs : row[i] # NoRow => Coherent(row[i])
    BY DEF StampInv, StampsCoherent, Coherent
  <2>6. \A i \in Jobs : row'[i] # NoRow => Coherent(row'[i])
    BY <2>1, <2>4, <2>5
  <2>7. StampsCoherent'
    BY <2>6 DEF StampsCoherent, Coherent
  <2>8. TxOrdered'
    BY <1>2, <2>2, <2>4 DEF StampInv, TxOrdered
  <2>9. RowsRise
    BY <1>2, <2>3, <2>4 DEF RowsRise
  <2> QED BY <2>7, <2>8, <2>9 DEF StampInv
<1>3. CASE DbStep
  BY <1>3, DbStepKeepsStamps
<1> QED BY <1>1, <1>2, <1>3, StepIsDbStep DEF Creating

(* However the transactions of the API and of the workers overlap, a job in a *)
(* terminal status has completed_at, a running one started_at, and a          *)
(* cancelled one was asked to cancel.                                         *)
THEOREM StampsStayCoherent == Spec => []StampsCoherent
<1>1. Init => Typed /\ StampInv
  BY InitTyped, JobsAssumption DEF Init, StampInv, TxOrdered, StampsCoherent
<1>2. Typed /\ StampInv /\ [Next]_vars => Typed' /\ StampInv'
  BY NextTyped, NextKeepsStamps, JobsAssumption
<1>3. StampInv => StampsCoherent
  BY DEF StampInv
<1> QED BY <1>1, <1>2, <1>3, PTL DEF Spec

(* No step of any process loses a committed cancel request. *)
THEOREM CancelRequestsStick == Spec => CancelIsSticky
<1> DEFINE Sticks == \A j \in Jobs : row[j] # NoRow /\ row[j].cancel => row'[j].cancel
<1>1. Init => Typed /\ StampInv
  BY InitTyped, JobsAssumption DEF Init, StampInv, TxOrdered, StampsCoherent
<1>2. Typed /\ StampInv /\ [Next]_vars => Typed' /\ StampInv' /\ RowsRise
  BY NextTyped, NextKeepsStamps, JobsAssumption
<1>3. RowsRise => Sticks
  BY DEF RowsRise, Below
<1>4. CancelIsSticky <=> [][Sticks]_vars
  BY DEF CancelIsSticky
<1> HIDE DEF Sticks
<1> QED BY <1>1, <1>2, <1>3, <1>4, PTL DEF Spec
-----------------------------------------------------------------------------
(* Late writes *)

(* A task that wrote over a cancel request has no further write before its   *)
(* next phase check, and that check finds the request.                       *)
LatePCs == {"check", "work", "settle", "settling", "raise", "raising", "ack"}

LateTask(t) ==
  \/ t.late = 0
  \/ t.late = 1 /\ t.pc \in LatePCs /\ row[t.job] # NoRow /\ row[t.job].cancel

LateInv == \A w \in Workers : LateTask(wk[w])

LEMMA NextKeepsLate ==
  ASSUME JobsAssumption, Typed, LateInv, RowsRise, [Next]_vars
  PROVE  LateInv'
<1>1. /\ wk \in [Workers -> Task]
      /\ \A w \in Workers : wk[w].pc # "idle" => wk[w].job \in Jobs /\ row[wk[w].job] # NoRow
      /\ \A w \in Workers : wk[w].late \in 0..2
  BY DEF Typed, TypeOK, RowsExist, Task
<1>2. \A w \in Workers : LateTask(wk[w]) /\ wk'[w] = wk[w] => LateTask(wk[w])'
  BY <1>1 DEF LateTask, LatePCs, RowsRise, Below
<1>3. ASSUME UNCHANGED wk
      PROVE  LateInv'
  BY <1>2, <1>3 DEF LateInv
<1>4. ASSUME NEW w \in Workers, NEW t, wk' = [wk EXCEPT ![w] = t],
             \/ t.late = 0
             \/ /\ t.late = 1 /\ t.pc \in LatePCs /\ t.job = wk[w].job
                /\ wk[w].pc # "idle" /\ row[t.job].cancel
      PROVE  LateInv'
  <2>1. LateTask(wk[w])'
    BY <1>1, <1>4 DEF LateTask, RowsRise, Below
  <2>2. \A v \in Workers : v # w => wk'[v] = wk[v]
    BY <1>4, <1>1
  <2> QED BY <1>2, <2>1, <2>2 DEF LateInv
<1>5. ASSUME NEW w \in Workers, BrokerStep(w)
      PROVE  LateInv'
  <2>1. ASSUME NEW j \in Jobs, Deliver(w, j)
        PROVE  LateInv'
    BY <2>1, <1>3, <1>4 DEF Deliver, NewTask
  <2>2. CASE VisibilityTimeout(w) \/ IdleWorkerRestart(w)
    BY <2>2, <1>3 DEF VisibilityTimeout, IdleWorkerRestart
  <2>3. CASE WorkerCrash(w)
    <3>1. Idle.late = 0
      BY DEF Idle, NewTask
    <3> QED BY <2>3, <3>1, <1>4 DEF WorkerCrash
  <2> QED BY <1>5, <2>1, <2>2, <2>3 DEF BrokerStep
<1>6. ASSUME NEW w \in Workers, TaskStep(w)
      PROVE  LateInv'
  <2> DEFINE Going(pc) == [wk[w] EXCEPT !.pc = pc]
  <2>l. LateTask(wk[w])
    BY DEF LateInv
  <2>g. \A pc \in TaskPCs : Going(pc) \in Task /\ Going(pc).pc = pc
                            /\ Going(pc).job = wk[w].job /\ Going(pc).late = wk[w].late
    <3>1. \A pc \in TaskPCs : Going(pc).late = wk[w].late
      BY <1>1, Zenon DEF Task
    <3> QED BY <3>1, <1>1, TaskMoves
  <2>1. CASE \/ PrepareCancelled(w) \/ PrepareProceeds(w) \/ LoadToMarkRunning(w)
             \/ CheckPasses(w) \/ LoadToUpdate(w)
    <3>1. \E pc \in TaskPCs : wk' = [wk EXCEPT ![w] = Going(pc)]
      BY <2>1 DEF PrepareCancelled, PrepareProceeds, LoadToMarkRunning, CheckPasses,
                  LoadToUpdate, GoTo, TaskPCs
    <3>2. wk[w].late = 0
      BY <2>1, <2>l DEF PrepareCancelled, PrepareProceeds, LoadToMarkRunning, CheckPasses,
                        LoadToUpdate, LateTask, LatePCs, CancelRequested
    <3> HIDE DEF Going
    <3> QED BY <3>1, <3>2, <2>g, <1>4
  <2>2. CASE LoadToSettle(w) \/ Raise(w) \/ LoadToMarkRaised(w)
    <3>1. \E pc \in LatePCs : wk' = [wk EXCEPT ![w] = Going(pc)] /\ wk[w].pc # "idle"
      BY <2>2 DEF LoadToSettle, Raise, LoadToMarkRaised, GoTo, LatePCs
    <3>2. PICK pc \in LatePCs : wk' = [wk EXCEPT ![w] = Going(pc)] /\ wk[w].pc # "idle"
      BY <3>1
    <3>3. pc \in TaskPCs
      BY DEF LatePCs, TaskPCs
    <3> DEFINE t == Going(pc)
    <3>4. t.pc = pc /\ t.job = wk[w].job /\ t.late = wk[w].late
      BY <3>3, <2>g
    <3>5. wk' = [wk EXCEPT ![w] = t]
      BY <3>2
    <3> HIDE DEF t, Going
    <3>6. \/ t.late = 0
          \/ /\ t.late = 1 /\ t.pc \in LatePCs /\ t.job = wk[w].job
             /\ wk[w].pc # "idle" /\ row[t.job].cancel
      BY <3>2, <3>4, <2>l DEF LateTask
    <3> QED BY <3>5, <3>6, <1>4
  <2>3. CASE \/ CommitPrepare(w) \/ PrepareSkips(w) \/ CheckCancels(w) \/ CommitSettle(w)
             \/ CommitRaised(w) \/ FailureNotPersisted(w)
    <3>1. \E v \in Returns : Return(w, v) /\ wk[w].pc # "idle"
      BY <2>3 DEF CommitPrepare, PrepareSkips, CheckCancels, CommitSettle, CommitRaised,
                  FailureNotPersisted, Returns
    <3>2. PICK v \in Returns : Return(w, v) /\ wk[w].pc # "idle"
      BY <3>1
    <3> DEFINE t == [Going("ack") EXCEPT !.verdict = v]
    <3>3. Going("ack") \in Task /\ Going("ack").pc = "ack"
          /\ Going("ack").job = wk[w].job /\ Going("ack").late = wk[w].late
      BY <2>g DEF TaskPCs
    <3>4. t.pc = "ack" /\ t.job = wk[w].job /\ t.late = wk[w].late
      <4> HIDE DEF Going
      <4> QED BY <3>3, Zenon DEF Task
    <3>5. wk' = [wk EXCEPT ![w] = t]
      BY <3>2, Zenon DEF Return
    <3>6. "ack" \in LatePCs
      BY DEF LatePCs
    <3> HIDE DEF t, Going
    <3>7. \/ t.late = 0
          \/ /\ t.late = 1 /\ t.pc \in LatePCs /\ t.job = wk[w].job
             /\ wk[w].pc # "idle" /\ row[t.job].cancel
      BY <3>2, <3>4, <3>6, <2>l DEF LateTask
    <3> QED BY <3>5, <3>7, <1>4
  <2>4. CASE Acknowledge(w)
    <3>1. Idle.late = 0
      BY DEF Idle, NewTask
    <3> QED BY <2>4, <3>1, <1>4 DEF Acknowledge
  <2>5. CASE CommitRunning(w)
    <3> DEFINE t == [[wk[w] EXCEPT !.pc = "check"] EXCEPT !.late = Late(w)]
    <3>1. wk[w].late = 0
      BY <2>5, <2>l DEF CommitRunning, LateTask, LatePCs
    <3>2. Going("check") \in Task /\ Going("check").pc = "check" /\ Going("check").job = wk[w].job
      BY <2>g DEF TaskPCs
    <3>3. t.pc = "check" /\ t.job = wk[w].job /\ t.late = Late(w)
      BY <3>2, Zenon DEF Task
    <3>4. wk' = [wk EXCEPT ![w] = t]
      BY <2>5, Zenon DEF CommitRunning
    <3>5. wk[w].pc # "idle"
      BY <2>5 DEF CommitRunning
    <3> HIDE DEF t
    <3>6. \/ t.late = 0
          \/ /\ t.late = 1 /\ t.pc \in LatePCs /\ t.job = wk[w].job
             /\ wk[w].pc # "idle" /\ row[t.job].cancel
      BY <3>1, <3>3, <3>5 DEF Late, LatePCs
    <3> QED BY <3>4, <3>6, <1>4
  <2>6. CASE CommitUpdate(w)
    <3> DEFINE t == [AfterPublish(wk[w]) EXCEPT !.late = Late(w)]
    <3>1. wk[w].late = 0
      BY <2>6, <2>l DEF CommitUpdate, LateTask, LatePCs
    <3>2. AfterPublish(wk[w]) \in Task /\ AfterPublish(wk[w]).job = wk[w].job
      BY <1>1, TasksInTask
    <3>3. AfterPublish(wk[w]).pc \in {"check", "work", "settle"}
      BY <1>1 DEF AfterPublish, Task
    <3>4. t.pc \in LatePCs /\ t.job = wk[w].job /\ t.late = Late(w)
      <4>1. t.pc = AfterPublish(wk[w]).pc /\ t.job = AfterPublish(wk[w]).job
            /\ t.late = Late(w)
        BY <3>2, Zenon DEF Task
      <4> QED BY <4>1, <3>2, <3>3 DEF LatePCs
    <3>5. wk' = [wk EXCEPT ![w] = t]
      BY <2>6, Zenon DEF CommitUpdate
    <3>6. wk[w].pc # "idle"
      BY <2>6 DEF CommitUpdate
    <3> HIDE DEF t
    <3>7. \/ t.late = 0
          \/ /\ t.late = 1 /\ t.pc \in LatePCs /\ t.job = wk[w].job
             /\ wk[w].pc # "idle" /\ row[t.job].cancel
      BY <3>1, <3>4, <3>6 DEF Late
    <3> QED BY <3>5, <3>7, <1>4
  <2>7. CASE CheckSwallowed(w) \/ Callback(w) \/ Respond(w)
    <3>1. \E t : /\ wk' = [wk EXCEPT ![w] = t]
                 /\ t.pc \in {"work", "check"} /\ t.job = wk[w].job /\ t.late = wk[w].late
      <4>1. CASE CheckSwallowed(w)
        <5> DEFINE t == [wk[w] EXCEPT !.pc = "work", !.outcome = "failure"]
        <5>1. wk' = [wk EXCEPT ![w] = t]
          BY <4>1, Zenon DEF CheckSwallowed
        <5>2. t.pc = "work" /\ t.job = wk[w].job /\ t.late = wk[w].late
          BY <1>1 DEF Task
        <5> HIDE DEF t
        <5> QED BY <5>1, <5>2
      <4>2. CASE Callback(w)
        <5>1. PICK p \in CallbackProgress : wk' = [wk EXCEPT ![w].pc = "check", ![w].progress = p]
          BY <4>2 DEF Callback
        <5> DEFINE t == [wk[w] EXCEPT !.pc = "check", !.progress = p]
        <5>2. wk' = [wk EXCEPT ![w] = t]
          BY <5>1, Zenon
        <5>3. t.pc = "check" /\ t.job = wk[w].job /\ t.late = wk[w].late
          BY <1>1 DEF Task
        <5> HIDE DEF t
        <5> QED BY <5>2, <5>3
      <4>3. CASE Respond(w)
        <5>1. PICK o \in Outcomes, ph \in {"saving", "persisting"}, p \in {90, 94} :
                wk' = [wk EXCEPT ![w] = [@ EXCEPT !.pc = "check", !.phase = ph,
                                                  !.progress = p, !.outcome = o]]
          BY <4>3 DEF Respond
        <5> DEFINE t == [wk[w] EXCEPT !.pc = "check", !.phase = ph, !.progress = p, !.outcome = o]
        <5>2. wk' = [wk EXCEPT ![w] = t]
          BY <5>1, Zenon
        <5>3. t.pc = "check" /\ t.job = wk[w].job /\ t.late = wk[w].late
          BY <1>1 DEF Task
        <5> HIDE DEF t
        <5> QED BY <5>2, <5>3
      <4> QED BY <2>7, <4>1, <4>2, <4>3
    <3>2. PICK t : /\ wk' = [wk EXCEPT ![w] = t]
                   /\ t.pc \in {"work", "check"} /\ t.job = wk[w].job /\ t.late = wk[w].late
      BY <3>1
    <3>3. wk[w].pc \in {"work", "check"}
      BY <2>7 DEF CheckSwallowed, Callback, Respond
    <3>4. \/ t.late = 0
          \/ /\ t.late = 1 /\ t.pc \in LatePCs /\ t.job = wk[w].job
             /\ wk[w].pc # "idle" /\ row[t.job].cancel
      BY <3>2, <3>3, <2>l DEF LateTask, LatePCs
    <3> QED BY <3>2, <3>4, <1>4
  <2> QED BY <1>6, <2>1, <2>2, <2>3, <2>4, <2>5, <2>6, <2>7 DEF TaskStep
<1>7. ASSUME NEW j \in Jobs, ApiStep(j) \/ CancelStep(j)
      PROVE  LateInv'
  <2>1. UNCHANGED wk
    BY <1>7 DEF ApiStep, CancelStep, CreateJob, SendTask, SendTaskFails, LoadToMarkEnqueued,
                LoadToMarkUnsent, CommitStart, ApiCrash, LoadToCancel, CommitCancel, AbortCancel
  <2> QED BY <2>1, <1>3
<1>8. CASE UNCHANGED vars
  BY <1>8, <1>3 DEF vars
<1> QED BY <1>5, <1>6, <1>7, <1>8 DEF Next

(* A task writes at most once over a committed cancel request before the     *)
(* phase check that stops it, however the request races with its commits.    *)
THEOREM TasksStopAtNextCheck == Spec => []AtMostOneLateWrite
<1>1. Init => Typed /\ StampInv /\ LateInv
  BY InitTyped, JobsAssumption
  DEF Init, StampInv, TxOrdered, StampsCoherent, LateInv, LateTask, Idle, NewTask
<1>2. Typed /\ StampInv /\ LateInv /\ [Next]_vars => Typed' /\ StampInv' /\ LateInv'
  BY NextTyped, NextKeepsStamps, NextKeepsLate, JobsAssumption
<1>3. LateInv => AtMostOneLateWrite
  BY DEF LateInv, LateTask, AtMostOneLateWrite
<1> QED BY <1>1, <1>2, <1>3, PTL DEF Spec
-----------------------------------------------------------------------------
(* Settled jobs *)

(* A message of a job is in the queue or taken by one worker, and there is   *)
(* none before it was sent.                                                  *)
Single ==
  \A j \in Jobs :
    /\ \A v, w \in Workers : Executing(v, j) /\ Executing(w, j) => v = w
    /\ j \in queue => \A w \in Workers : ~Executing(w, j)
    /\ start[j] \in {"none", "send", "fail", "failing"} =>
         j \notin queue /\ \A w \in Workers : ~Executing(w, j)

(* The statuses a task may have put into the record it will commit.          *)
Writes(pc) ==
  CASE pc = "preparing"                -> {"cancelled"}
    [] pc \in {"starting", "updating"} -> {"running"}
    [] pc \in {"settling", "raising"}  -> {"completed", "failed"}
    [] OTHER                           -> {}

(* What the open transactions will do to the status.                         *)
TaskIntent(w) == tx[w] # NoTx => tx[w].job = wk[w].job /\ tx[w].new.status \in Writes(wk[w].pc)

StartIntent(j) ==
  LET t == tx[Starter(j)]
  IN  t # NoTx => /\ t.job = j
                  /\ \/ start[j] = "failing"
                     \/ start[j] = "enqueuing" /\ t.new.status = "queued"

CancelIntent(j) ==
  LET t == tx[Canceller(j)] IN t # NoTx => t.job = j /\ t.new.status = "cancel_requested"

Intent == (\A w \in Workers : TaskIntent(w)) /\ (\A j \in Jobs : StartIntent(j) /\ CancelIntent(j))

(* From the look of _prepare_job_for_execution to the write that settles the *)
(* job, nobody else settles it.                                              *)
RunPCs == {"start", "starting", "check", "update", "updating", "work", "settle", "settling"}

Unsettled == \A w \in Workers : wk[w].pc \in RunPCs => ~Settled(wk[w].job)

SettledInv == Single /\ Intent /\ Unsettled

(* The status after a commit is the present one or the transaction's.        *)
LEMMA FlushedStatus ==
  ASSUME NEW now, NEW old, NEW new
  PROVE  Flushed(now, old, new).status \in {now.status, new.status}
  BY DEF Flushed, Column

(* No two actors have one transaction. *)
LEMMA ActorsApart ==
  ASSUME JobsAssumption
  PROVE  /\ \A w \in Workers, j \in Jobs : w # Starter(j) /\ w # Canceller(j)
         /\ \A i, j \in Jobs : Starter(i) # Canceller(j)
         /\ \A i, j \in Jobs : Starter(i) = Starter(j) => i = j
         /\ \A i, j \in Jobs : Canceller(i) = Canceller(j) => i = j
         /\ Workers \subseteq Actors
         /\ \A j \in Jobs : Starter(j) \in Actors /\ Canceller(j) \in Actors
<1>1. \A j \in Jobs : Starter(j) \in {"start", "cancel"} \X Jobs /\ Canceller(j) \in {"start", "cancel"} \X Jobs
  BY DEF Starter, Canceller
<1>2. \A w \in Workers : w \notin {"start", "cancel"} \X Jobs
  BY DEF JobsAssumption
<1>3. \A i, j \in Jobs : /\ Starter(i) # Canceller(j)
                         /\ Starter(i) = Starter(j) => i = j
                         /\ Canceller(i) = Canceller(j) => i = j
  BY DEF Starter, Canceller
<1> QED BY <1>1, <1>2, <1>3 DEF Actors

(* The status each mark_* function leaves in the record. *)
LEMMA MarksStatus ==
  ASSUME NEW r \in Row
  PROVE  /\ MarkEnqueued(r).status = "queued"
         /\ MarkRunning(r).status = "running"
         /\ \A p : UpdateProgress(r, p).status = "running"
         /\ MarkCompleted(r).status = "completed"
         /\ MarkFailed(r).status = "failed"
         /\ MarkCancelRequested(r).status = "cancel_requested"
         /\ MarkCancelled(r).status = "cancelled"
  BY DEF Row, MarkEnqueued, MarkRunning, UpdateProgress, MarkCompleted, MarkFailed,
         MarkCancelRequested, MarkCancelled

(* No step but one of the API's transactions takes a job out of a terminal   *)
(* status.                                                                   *)
OnlyApiRevives ==
  \A j \in Jobs : Settled(j) /\ ~Settled(j)' =>
    \E a \in {Starter(j), Canceller(j)} : tx[a] # NoTx /\ tx'[a] = NoTx

LEMMA ApiKeepsSettled ==
  ASSUME JobsAssumption, "ambiguous_send" \notin Faults, Typed, SettledInv,
         NEW j \in Jobs, ApiStep(j)
  PROVE  SettledInv' /\ OnlyApiRevives
<1> USE DEF Typed, TypeOK, SettledInv, Single, Intent, TaskIntent, StartIntent, CancelIntent,
            Unsettled, OnlyApiRevives, Settled, Executing
<1>a. /\ \A w \in Workers, i \in Jobs : w # Starter(i) /\ w # Canceller(i)
      /\ \A i, k \in Jobs : Starter(i) # Canceller(k)
      /\ \A i, k \in Jobs : Starter(i) = Starter(k) => i = k
      /\ \A w \in Workers : w \in Actors
      /\ \A i \in Jobs : Starter(i) \in Actors /\ Canceller(i) \in Actors
  BY ActorsApart
<1> HIDE DEF Starter, Canceller
<1>j. \A w \in Workers : wk[w].pc \in RunPCs => wk[w].job \in Jobs /\ wk[w].pc # "idle"
  BY DEF RunPCs
<1>1. CASE CreateJob(j)
  <2>1. row[j] = NoRow /\ row' = [row EXCEPT ![j] = CreatedRow] /\ tx' = tx /\ wk' = wk
        /\ queue' = queue /\ start' = [start EXCEPT ![j] = "send"] /\ start[j] = "none"
    BY <1>1 DEF CreateJob, RowsExist
  <2>2. \A w \in Workers : wk[w].pc # "idle" => wk[w].job # j
    BY <2>1 DEF RowsExist
  <2>3. Unsettled'
    BY <2>1, <2>2, <1>j
  <2>4. Intent'
    BY <2>1
  <2>5. Single'
    BY <2>1
  <2> QED BY <2>1, <2>3, <2>4, <2>5
<1>2. CASE SendTask(j)
  <2>1. row' = row /\ tx' = tx /\ wk' = wk /\ queue' = queue \cup {j}
        /\ start' = [start EXCEPT ![j] = "enqueue"] /\ start[j] = "send"
    BY <1>2 DEF SendTask
  <2>2. Single' /\ Intent'
    BY <2>1
  <2> QED BY <2>1, <2>2
<1>3. CASE SendTaskFails(j)
  <2>1. row' = row /\ tx' = tx /\ wk' = wk /\ queue' = queue
        /\ start' = [start EXCEPT ![j] = "fail"] /\ start[j] = "send"
    BY <1>3 DEF SendTaskFails
  <2>2. Single' /\ Intent'
    BY <2>1
  <2> QED BY <2>1, <2>2
<1>4. CASE LoadToMarkEnqueued(j) \/ LoadToMarkUnsent(j)
  <2>0. PICK pc : pc = IF start[j] = "fail" THEN "failing" ELSE "enqueuing"
    OBVIOUS
  <2> DEFINE new == IF pc = "failing" THEN MarkFailed(row[j]) ELSE MarkEnqueued(row[j])
  <2>1. /\ pc \in {"enqueuing", "failing"} /\ row' = row /\ wk' = wk /\ queue' = queue
        /\ start' = [start EXCEPT ![j] = pc]
        /\ start[j] = IF pc = "failing" THEN "fail" ELSE "enqueue"
        /\ tx' = [tx EXCEPT ![Starter(j)] = [job |-> j, old |-> row[j], new |-> new]]
        /\ pc = "enqueuing" => new = MarkEnqueued(row[j])
    BY <1>4, <2>0 DEF LoadToMarkEnqueued, LoadToMarkUnsent, Load
  <2> HIDE DEF new
  <2>2. row[j] \in Row
    BY <2>1 DEF RowsExist
  <2>3. pc = "enqueuing" => new.status = "queued"
    BY <2>1, <2>2, MarksStatus
  <2> DEFINE opened == [job |-> j, old |-> row[j], new |-> new]
  <2>4. opened.job = j /\ opened.new = new
    OBVIOUS
  <2>5. tx' = [tx EXCEPT ![Starter(j)] = opened]
    BY <2>1
  <2> HIDE DEF opened
  <2>6. Single'
    BY <2>1
  <2>7. Intent'
    BY <1>a, <2>1, <2>3, <2>4, <2>5
  <2> QED BY <2>1, <2>6, <2>7
<1>5. CASE CommitStart(j)
  <2> DEFINE t == tx[Starter(j)]
             k == Flushed(row[j], t.old, t.new)
  <2>1. /\ t # NoTx /\ t.job = j /\ start[j] \in {"enqueuing", "failing"}
        /\ start[j] = "enqueuing" => t.new.status = "queued"
        /\ wk' = wk /\ queue' = queue /\ start' = [start EXCEPT ![j] = "done"]
        /\ row' = [row EXCEPT ![j] = k] /\ tx' = [tx EXCEPT ![Starter(j)] = NoTx]
    BY <1>5 DEF CommitStart, CommitTx
  <2>2. k.status \in {row[j].status, t.new.status}
    BY FlushedStatus
  <2>3. row[j] # NoRow
    BY <1>a, <2>1 DEF RowsExist
  <2>4. start[j] = "failing" => \A w \in Workers : ~Executing(w, j)
    BY <2>1
  <2> HIDE DEF k
  <2>5. Unsettled'
    BY <1>j, <2>1, <2>2, <2>3, <2>4 DEF TerminalStatuses
  <2>6. Single'
    BY <2>1
  <2>7. Intent'
    BY <1>a, <2>1
  <2>8. OnlyApiRevives
    BY <1>a, <2>1
  <2> QED BY <2>5, <2>6, <2>7, <2>8
<1>6. CASE ApiCrash(j)
  <2>1. row' = row /\ wk' = wk /\ queue' = queue /\ start' = [start EXCEPT ![j] = "dead"]
        /\ tx' = [tx EXCEPT ![Starter(j)] = NoTx]
    BY <1>6 DEF ApiCrash, RollBack
  <2>2. Single'
    BY <2>1
  <2>3. Intent'
    BY <1>a, <2>1
  <2> QED BY <2>1, <2>2, <2>3
<1> QED BY <1>1, <1>2, <1>3, <1>4, <1>5, <1>6 DEF ApiStep

LEMMA CancelKeepsSettled ==
  ASSUME JobsAssumption, Typed, SettledInv, NEW j \in Jobs, CancelStep(j)
  PROVE  SettledInv' /\ OnlyApiRevives
<1> USE DEF Typed, TypeOK, SettledInv, Single, Intent, TaskIntent, StartIntent, CancelIntent,
            Unsettled, OnlyApiRevives, Settled, Executing
<1>a. /\ \A w \in Workers, i \in Jobs : w # Starter(i) /\ w # Canceller(i)
      /\ \A i, k \in Jobs : Starter(i) # Canceller(k)
      /\ \A i, k \in Jobs : Canceller(i) = Canceller(k) => i = k
      /\ \A w \in Workers : w \in Actors
      /\ \A i \in Jobs : Starter(i) \in Actors /\ Canceller(i) \in Actors
  BY ActorsApart
<1>j. \A w \in Workers : wk[w].pc \in RunPCs => wk[w].job \in Jobs /\ wk[w].pc # "idle"
  BY DEF RunPCs
<1>s. start' = start /\ queue' = queue /\ wk' = wk
  BY DEF CancelStep, LoadToCancel, CommitCancel, AbortCancel
<1>o. Single'
  BY <1>s
<1>1. CASE LoadToCancel(j)
  <2> DEFINE new == MarkCancelRequested(row[j])
             opened == [job |-> j, old |-> row[j], new |-> new]
  <2>1. row' = row /\ row[j] \in Row /\ tx' = [tx EXCEPT ![Canceller(j)] = opened]
    BY <1>1 DEF LoadToCancel, Load
  <2>2. opened.job = j /\ opened.new.status = "cancel_requested"
    BY <2>1, MarksStatus
  <2> HIDE DEF opened
  <2>3. Intent'
    BY <1>a, <1>s, <2>1, <2>2
  <2> QED BY <1>s, <1>o, <2>1, <2>3
<1>2. CASE CommitCancel(j)
  <2> DEFINE t == tx[Canceller(j)]
             k == Flushed(row[j], t.old, t.new)
  <2>1. /\ t # NoTx /\ t.job = j /\ t.new.status = "cancel_requested"
        /\ row' = [row EXCEPT ![j] = k] /\ tx' = [tx EXCEPT ![Canceller(j)] = NoTx]
    BY <1>2 DEF CommitCancel, CommitTx
  <2>2. k.status \in {row[j].status, t.new.status}
    BY FlushedStatus
  <2>3. row[j] # NoRow
    BY <1>a, <2>1 DEF RowsExist
  <2> HIDE DEF k
  <2>4. Unsettled'
    BY <1>j, <1>s, <2>1, <2>2, <2>3 DEF TerminalStatuses
  <2>5. Intent'
    BY <1>a, <1>s, <2>1
  <2>6. OnlyApiRevives
    BY <1>a, <2>1
  <2> QED BY <1>o, <2>4, <2>5, <2>6
<1>3. CASE AbortCancel(j)
  <2>1. row' = row /\ tx' = [tx EXCEPT ![Canceller(j)] = NoTx]
    BY <1>3 DEF AbortCancel, RollBack
  <2>2. Intent'
    BY <1>a, <1>s, <2>1
  <2> QED BY <1>s, <1>o, <2>1, <2>2
<1> QED BY <1>1, <1>2, <1>3 DEF CancelStep

LEMMA BrokerKeepsSettled ==
  ASSUME JobsAssumption, ~AcksLate \/ "visibility_timeout" \notin Faults, Typed, SettledInv,
         NEW w \in Workers, BrokerStep(w)
  PROVE  SettledInv' /\ OnlyApiRevives
<1> USE DEF Typed, TypeOK, SettledInv, Single, Intent, TaskIntent, StartIntent, CancelIntent,
            Unsettled, OnlyApiRevives, Settled, Executing
<1>a. /\ \A v \in Workers, i \in Jobs : v # Starter(i) /\ v # Canceller(i)
      /\ \A v \in Workers : v \in Actors
  BY ActorsApart
<1>r. row' = row /\ start' = start
  BY DEF BrokerStep, Deliver, VisibilityTimeout, WorkerCrash, IdleWorkerRestart, RollBack
<1>1. ASSUME NEW j \in Jobs, Deliver(w, j)
      PROVE  SettledInv' /\ OnlyApiRevives
  <2>1. tx' = tx /\ queue' = queue \ {j} /\ j \in queue /\ wk[w].pc = "idle"
    BY <1>1 DEF Deliver
  <2>2. CASE wk' = wk
    BY <1>r, <2>1, <2>2
  <2>3. CASE wk' = [wk EXCEPT ![w] = NewTask(j)]
    <3>1. NewTask(j).pc = "prepare" /\ NewTask(j).job = j
      BY DEF NewTask
    <3>2. tx[w] = NoTx
      BY <2>1, <1>a DEF Writes
    <3>3. Single'
      BY <1>r, <2>1, <2>3, <3>1
    <3>4. Intent'
      BY <1>r, <2>1, <2>3, <3>2
    <3>5. Unsettled'
      BY <1>r, <2>3, <3>1 DEF RunPCs
    <3> QED BY <1>r, <3>3, <3>4, <3>5
  <2> QED BY <1>1, <2>2, <2>3 DEF Deliver
<1>2. CASE WorkerCrash(w)
  <2>1. /\ tx' = [tx EXCEPT ![w] = NoTx] /\ wk' = [wk EXCEPT ![w] = Idle]
        /\ queue' \in {queue, queue \cup {wk[w].job}} /\ wk[w].pc # "idle"
    BY <1>2 DEF WorkerCrash, RollBack
  <2>2. Idle.pc = "idle"
    BY DEF Idle, NewTask
  <2>3. Single'
    BY <1>r, <2>1, <2>2
  <2>4. Intent'
    BY <1>a, <1>r, <2>1
  <2>5. Unsettled'
    BY <1>r, <2>1, <2>2 DEF RunPCs
  <2> QED BY <1>r, <2>3, <2>4, <2>5
<1>3. CASE VisibilityTimeout(w)
  BY <1>3 DEF VisibilityTimeout
<1>4. CASE IdleWorkerRestart(w)
  BY <1>4 DEF IdleWorkerRestart
<1> QED BY <1>1, <1>2, <1>3, <1>4 DEF BrokerStep

(* A step of a task, as far as the statuses of the jobs are concerned: it    *)
(* leaves the table alone, or commits what its transaction says.             *)
LEMMA TaskKeepsSettled ==
  ASSUME JobsAssumption, Typed, SettledInv, NEW w \in Workers, TaskStep(w)
  PROVE  SettledInv' /\ OnlyApiRevives
<1> DEFINE j == wk[w].job
           Goes(pcs) == wk'[w].pc \in pcs /\ wk'[w].job = j
<1> USE DEF Typed, TypeOK
<1>a. /\ \A v \in Workers, i \in Jobs : v # Starter(i) /\ v # Canceller(i)
      /\ \A v \in Workers : v \in Actors
      /\ \A i \in Jobs : Starter(i) \in Actors /\ Canceller(i) \in Actors
  BY ActorsApart
<1>b. wk[w] \in Task /\ wk[w].pc # "idle" /\ j \in Jobs /\ row[j] \in Row
  <2>1. wk[w].pc # "idle"
    BY DEF TaskStep, PrepareCancelled, CommitPrepare, PrepareSkips, PrepareProceeds,
           LoadToMarkRunning, CommitRunning, CheckCancels, CheckSwallowed, CheckPasses,
           LoadToUpdate, CommitUpdate, Callback, Respond, LoadToSettle, CommitSettle, Raise,
           LoadToMarkRaised, CommitRaised, FailureNotPersisted, Acknowledge
  <2> QED BY <2>1 DEF RowsExist
<1>c. start' = start /\ queue' = queue
  BY DEF TaskStep, PrepareCancelled, CommitPrepare, PrepareSkips, PrepareProceeds,
         LoadToMarkRunning, CommitRunning, CheckCancels, CheckSwallowed, CheckPasses,
         LoadToUpdate, CommitUpdate, Callback, Respond, LoadToSettle, CommitSettle, Raise,
         LoadToMarkRaised, CommitRaised, FailureNotPersisted, Acknowledge
<1>d. \A v \in Workers : v # w => wk'[v] = wk[v]
  BY DEF TaskStep, PrepareCancelled, CommitPrepare, PrepareSkips, PrepareProceeds, Return, GoTo,
         LoadToMarkRunning, CommitRunning, CheckCancels, CheckSwallowed, CheckPasses,
         LoadToUpdate, CommitUpdate, Callback, Respond, LoadToSettle, CommitSettle, Raise,
         LoadToMarkRaised, CommitRaised, FailureNotPersisted, Acknowledge
<1>e. \A pc : GoTo(w, pc) => wk'[w].pc = pc /\ wk'[w].job = j
  BY <1>b DEF GoTo, Task
<1>f. \A v : Return(w, v) => wk'[w].pc = "ack" /\ wk'[w].job = j
  BY <1>b DEF Return, Task
\* Nothing is written, and the task stays on its way or leaves it.
<1>q. ASSUME Goes(RunPCs \cup {"raise", "ack"}) \/ wk'[w].pc = "idle", row' = row,
             (tx' = tx /\ tx[w] = NoTx) \/ tx' = [tx EXCEPT ![w] = NoTx],
             wk'[w].pc \in RunPCs => wk[w].pc \in RunPCs \/ ~Settled(j)
      PROVE  SettledInv' /\ OnlyApiRevives
  <2>1. Single'
    BY <1>b, <1>c, <1>d, <1>q DEF SettledInv, Single, Executing
  <2>2. Intent'
    BY <1>a, <1>c, <1>d, <1>q DEF SettledInv, Intent, TaskIntent, StartIntent, CancelIntent
  <2>3. Unsettled'
    BY <1>d, <1>q DEF SettledInv, Unsettled, Settled, RunPCs
  <2> QED BY <1>q, <2>1, <2>2, <2>3 DEF SettledInv, OnlyApiRevives, Settled
\* A record is loaded and marked.
<1>l. ASSUME NEW new, NEW pc, Load(w, j, new), Goes({pc}), new.status \in Writes(pc),
             pc \in RunPCs => wk[w].pc \in RunPCs
      PROVE  SettledInv' /\ OnlyApiRevives
  <2> DEFINE opened == [job |-> j, old |-> row[j], new |-> new]
  <2>1. row' = row /\ tx' = [tx EXCEPT ![w] = opened] /\ opened.job = j /\ opened.new = new
    BY <1>l DEF Load
  <2>2. pc # "idle"
    BY <1>l DEF Writes
  <2> HIDE DEF opened
  <2>3. Single'
    BY <1>b, <1>c, <1>d, <1>l DEF SettledInv, Single, Executing
  <2>4. Intent'
    BY <1>a, <1>c, <1>d, <1>l, <2>1 DEF SettledInv, Intent, TaskIntent, StartIntent, CancelIntent
  <2>5. Unsettled'
    BY <1>d, <1>l, <2>1 DEF SettledInv, Unsettled, Settled
  <2> QED BY <2>1, <2>3, <2>4, <2>5 DEF SettledInv, OnlyApiRevives, Settled
\* It is committed.
<1>m. ASSUME CommitTx(w), Goes(RunPCs \cup {"ack"}), wk[w].pc \notin RunPCs \/ Writes(wk[w].pc) # {"running"} => wk'[w].pc = "ack",
             Writes(wk[w].pc) \in {{"running"}, {"cancelled"}, {"completed", "failed"}}
      PROVE  SettledInv' /\ OnlyApiRevives
  <2> DEFINE t == tx[w]
             k == Flushed(row[j], t.old, t.new)
  <2>1. /\ t # NoTx /\ t.job = j /\ t.new.status \in Writes(wk[w].pc)
        /\ row' = [row EXCEPT ![j] = k] /\ tx' = [tx EXCEPT ![w] = NoTx]
    BY <1>m DEF CommitTx, SettledInv, Intent, TaskIntent
  <2>2. k.status \in {row[j].status, t.new.status}
    BY FlushedStatus
  <2>3. row[j] # NoRow /\ k \in Row
    <3>1. t \in Tx /\ t.old \in Row /\ t.new \in Row
      BY <1>a, <2>1 DEF Tx
    <3> QED BY <1>b, <3>1, FlushedInRow DEF RowsExist
  <2>4. k # NoRow
    BY <2>3 DEF JobsAssumption
  <2> HIDE DEF k
  <2>5. Single'
    BY <1>b, <1>c, <1>d, <1>m DEF SettledInv, Single, Executing
  <2>6. Intent'
    BY <1>a, <1>c, <1>d, <2>1 DEF SettledInv, Intent, TaskIntent, StartIntent, CancelIntent
  <2>7. \A v \in Workers : v # w /\ wk[v].pc \in RunPCs => wk[v].job # j /\ wk[v].job \in Jobs
    BY <1>b DEF SettledInv, Single, Executing, RunPCs
  <2>8. wk'[w].pc \in RunPCs => wk[w].pc \in RunPCs /\ t.new.status = "running"
    BY <1>m, <2>1 DEF RunPCs
  <2>9. Unsettled'
    BY <1>b, <1>d, <1>m, <2>1, <2>2, <2>4, <2>7, <2>8
       DEF SettledInv, Unsettled, Settled, TerminalStatuses
  <2>10. Settled(j) => t.new.status # "running"
    BY <1>m, <2>1, <1>b DEF SettledInv, Unsettled, Writes, RunPCs
  <2>11. OnlyApiRevives
    BY <1>b, <1>m, <2>1, <2>2, <2>4, <2>10 DEF OnlyApiRevives, Settled, TerminalStatuses
  <2> QED BY <2>5, <2>6, <2>9, <2>11 DEF SettledInv
<1>n. wk[w].pc \notin {"preparing", "starting", "updating", "settling", "raising"} => tx[w] = NoTx
  BY <1>a DEF SettledInv, Intent, TaskIntent, Writes
<1>1. CASE PrepareCancelled(w)
  <2>1. MarkCancelled(row[j]).status = "cancelled"
    BY <1>b, MarksStatus
  <2>2. Load(w, j, MarkCancelled(row[j])) /\ Goes({"preparing"}) /\ wk[w].pc = "prepare"
    BY <1>1, <1>e DEF PrepareCancelled
  <2> QED BY <2>1, <2>2, <1>l DEF Writes, RunPCs
<1>2. CASE LoadToMarkRunning(w)
  <2>1. MarkRunning(row[j]).status = "running"
    BY <1>b, MarksStatus
  <2>2. Load(w, j, MarkRunning(row[j])) /\ Goes({"starting"}) /\ wk[w].pc = "start"
    BY <1>2, <1>e DEF LoadToMarkRunning
  <2> QED BY <2>1, <2>2, <1>l DEF Writes, RunPCs
<1>3. CASE LoadToUpdate(w)
  <2>1. UpdateProgress(row[j], wk[w].progress).status = "running"
    BY <1>b, MarksStatus
  <2>2. Load(w, j, UpdateProgress(row[j], wk[w].progress)) /\ Goes({"updating"}) /\ wk[w].pc = "update"
    BY <1>3, <1>e DEF LoadToUpdate
  <2> QED BY <2>1, <2>2, <1>l DEF Writes, RunPCs
<1>4. CASE LoadToSettle(w)
  <2>1. PICK new : /\ Load(w, j, new) /\ new \in {MarkCompleted(row[j]), MarkFailed(row[j])}
                   /\ Goes({"settling"}) /\ wk[w].pc = "settle"
    BY <1>4, <1>e DEF LoadToSettle
  <2>2. new.status \in {"completed", "failed"}
    BY <1>b, <2>1, MarksStatus
  <2> QED BY <2>1, <2>2, <1>l DEF Writes, RunPCs
<1>5. CASE LoadToMarkRaised(w)
  <2>1. MarkFailed(row[j]).status = "failed"
    BY <1>b, MarksStatus
  <2>2. Load(w, j, MarkFailed(row[j])) /\ Goes({"raising"}) /\ wk[w].pc = "raise"
    BY <1>5, <1>e DEF LoadToMarkRaised
  <2> QED BY <2>1, <2>2, <1>l DEF Writes, RunPCs
<1>6. CASE CommitPrepare(w) \/ CommitSettle(w) \/ CommitRaised(w)
  <2>1. CommitTx(w) /\ Goes({"ack"}) /\ wk[w].pc \in {"preparing", "settling", "raising"}
    BY <1>6, <1>f DEF CommitPrepare, CommitSettle, CommitRaised
  <2> QED BY <2>1, <1>m DEF Writes
<1>7. CASE CommitRunning(w)
  <2>1. CommitTx(w) /\ Goes({"check"}) /\ wk[w].pc = "starting"
    BY <1>7, <1>b DEF CommitRunning, Task
  <2> QED BY <2>1, <1>m DEF Writes, RunPCs
<1>8. CASE CommitUpdate(w)
  <2> DEFINE t == AfterPublish(wk[w])
  <2>1. t \in Task /\ t.job = j /\ t.pc \in {"check", "work", "settle"}
    <3>1. t \in Task /\ t.job = j
      BY <1>b, TasksInTask
    <3>2. t.pc \in {"check", "work", "settle"}
      BY <1>b DEF AfterPublish, Task
    <3> QED BY <3>1, <3>2
  <2> HIDE DEF t
  <2>2. wk' = [wk EXCEPT ![w] = [t EXCEPT !.late = Late(w)]]
    BY <1>8 DEF CommitUpdate, t
  <2>3. [t EXCEPT !.late = Late(w)].pc = t.pc /\ [t EXCEPT !.late = Late(w)].job = j
    BY <2>1 DEF Task
  <2>4. CommitTx(w) /\ Goes({"check", "work", "settle"}) /\ wk[w].pc = "updating"
    BY <1>8, <2>1, <2>2, <2>3 DEF CommitUpdate
  <2> QED BY <2>4, <1>m DEF Writes, RunPCs
<1>9. CASE Raise(w)
  <2>1. RollBack(w) /\ Goes({"raise"})
    BY <1>9, <1>e DEF Raise
  <2> QED BY <2>1, <1>q DEF RollBack, RunPCs
<1>10. CASE FailureNotPersisted(w)
  <2>1. RollBack(w) /\ Goes({"ack"})
    BY <1>10, <1>f DEF FailureNotPersisted
  <2> QED BY <2>1, <1>q DEF RollBack, RunPCs
<1>11. CASE PrepareProceeds(w)
  <2>1. Goes({"start"}) /\ wk[w].pc = "prepare" /\ row' = row /\ tx' = tx /\ ~Settled(j)
    BY <1>11, <1>e DEF PrepareProceeds, Settled
  <2> QED BY <2>1, <1>n, <1>q DEF RunPCs
<1>12. CASE PrepareSkips(w) \/ CheckCancels(w)
  <2>1. Goes({"ack"}) /\ wk[w].pc \in {"prepare", "check"} /\ row' = row /\ tx' = tx
    BY <1>12, <1>f DEF PrepareSkips, CheckCancels
  <2> QED BY <2>1, <1>n, <1>q DEF RunPCs
<1>13. CASE CheckPasses(w) \/ CheckSwallowed(w) \/ Callback(w) \/ Respond(w)
  <2>1. Goes({"update", "work", "check"}) /\ wk[w].pc \in {"check", "work"} /\ row' = row /\ tx' = tx
    <3>1. CASE CheckPasses(w)
      BY <3>1, <1>e DEF CheckPasses
    <3>2. CASE CheckSwallowed(w)
      BY <3>2, <1>b DEF CheckSwallowed, Task
    <3>3. CASE Callback(w)
      BY <3>3, <1>b DEF Callback, Task
    <3>4. CASE Respond(w)
      <4>1. PICK ph, p, o : wk' = [wk EXCEPT ![w] = [@ EXCEPT !.pc = "check", !.phase = ph,
                                                            !.progress = p, !.outcome = o]]
        BY <3>4 DEF Respond
      <4>2. wk'[w].pc = "check" /\ wk'[w].job = j
        BY <4>1, <1>b DEF Task
      <4> QED BY <3>4, <4>2 DEF Respond
    <3> QED BY <1>13, <3>1, <3>2, <3>3, <3>4
  <2> QED BY <2>1, <1>n, <1>q DEF RunPCs
<1>14. CASE Acknowledge(w)
  <2>1. wk'[w].pc = "idle" /\ wk[w].pc = "ack" /\ row' = row /\ tx' = tx
    BY <1>14 DEF Acknowledge, Idle, NewTask
  <2> QED BY <2>1, <1>n, <1>q DEF RunPCs
<1> QED BY <1>1, <1>2, <1>3, <1>4, <1>5, <1>6, <1>7, <1>8, <1>9, <1>10, <1>11, <1>12, <1>13, <1>14
        DEF TaskStep

(* Where no message is delivered again while its task runs and send_task does *)
(* not raise for a message the broker took, only the API's transactions take  *)
(* a job out of a terminal status, for any jobs, workers, crashes and cancels *)
(* (mark_job_running, mark_job_completed, mark_job_failed).                   *)
THEOREM SettledJobsStay ==
  ASSUME ~AcksLate \/ "visibility_timeout" \notin Faults, "ambiguous_send" \notin Faults
  PROVE  Spec => TasksNeverRevive
<1>1. Init => Typed /\ SettledInv
  <2>1. Idle.pc = "idle"
    BY DEF Idle, NewTask
  <2>2. Init => \A a \in Actors : tx[a] = NoTx
    BY DEF Init
  <2> QED BY <2>1, <2>2, InitTyped, JobsAssumption, ActorsApart
          DEF Init, SettledInv, Single, Intent, TaskIntent, StartIntent, CancelIntent,
              Unsettled, Executing, RunPCs
<1>2. Typed /\ SettledInv /\ [Next]_vars => Typed' /\ SettledInv' /\ OnlyApiRevives
  <2> SUFFICES ASSUME Typed, SettledInv, [Next]_vars
               PROVE  SettledInv' /\ OnlyApiRevives
    BY NextTyped, JobsAssumption
  <2>1. CASE UNCHANGED vars
    BY <2>1 DEF vars, SettledInv, Single, Intent, TaskIntent, StartIntent, CancelIntent,
                Unsettled, Executing, Settled, OnlyApiRevives
  <2> QED BY <2>1, JobsAssumption, ApiKeepsSettled, CancelKeepsSettled, BrokerKeepsSettled,
             TaskKeepsSettled DEF Next
<1>3. TasksNeverRevive <=> [][OnlyApiRevives]_vars
  BY DEF TasksNeverRevive, OnlyApiRevives
<1> QED BY <1>1, <1>2, <1>3, PTL DEF Spec
=============================================================================
