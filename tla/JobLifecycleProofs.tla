------------------------- MODULE JobLifecycleProofs -------------------------
(***************************************************************************)
(* Proofs about JobLifecycle, for any sets of jobs, requests and sheets,   *)
(* any queue capacity, any number of restarts and any set of faults.       *)
(***************************************************************************)
EXTENDS JobLifecycle, TLAPS

\* The steps of the HTTP handlers, one by one.
LEMMA ClientCases ==
    ASSUME Client
    PROVE  \/ \E j \in SessionJobs : \/ Upload(j) \/ UploadRecord(j) \/ UploadRecordFails(j)
                                     \/ FinishCheck(j) \/ FinishDelete(j)
           \/ \E j \in SessionJobs, s \in Sheets : Configure(j, s)
           \/ \E r \in Requests, j \in SessionJobs : ExecuteCheck(r, j)
           \/ \E r \in Requests, j \in DirectJobs, s \in DirectTargets : Evaluate(r, j, s)
           \/ \E j \in Jobs : Cancel(j)
BY DEF Client

-----------------------------------------------------------------------------
(* Types, and the agreement of the worker with its request. *)

LEMMA TypeInit == Init => TypeOK /\ WorkerInv
<1> SUFFICES ASSUME Init PROVE TypeOK /\ WorkerInv
  OBVIOUS
<1>1. TypeOK
  <2>0. queue = <<>> /\ restarts = 0 /\ left = 0
    BY DEF Init
  <2>1. queue \in Seq(Requests)
    BY <2>0
  <2>2. restarts \in 0..MaxRestarts /\ left \in 0..MaxOutputs
    BY <2>0, BoundsAssumption
  <2>3. parts \in [Jobs -> SUBSET Partitions]
    BY DEF Init
  <2>4. QED
    BY <2>1, <2>2, <2>3 DEF Init, TypeOK, Statuses, TargetSheets, Stages, WorkerPoints
<1>2. WorkerInv
  BY DEF Init, WorkerInv
<1>3. QED
  BY <1>1, <1>2

LEMMA ClientTypes ==
    ASSUME TypeOK, WorkerInv, Client
    PROVE  TypeOK'
<1> USE DEF TypeOK, ledger, handlers, requests, worker, process, history
<1>1. ASSUME NEW j \in SessionJobs,
             \/ Upload(j) \/ UploadRecord(j) \/ UploadRecordFails(j)
             \/ FinishCheck(j) \/ FinishDelete(j)
      PROVE  TypeOK'
  BY <1>1 DEF Upload, UploadRecord, UploadRecordFails, FinishCheck, FinishDelete,
              Jobs, Statuses
<1>2. ASSUME NEW j \in SessionJobs, NEW s \in Sheets, Configure(j, s)
      PROVE  TypeOK'
  BY <1>2 DEF Configure, TargetSheets
<1>3. ASSUME NEW r \in Requests, NEW j \in SessionJobs, ExecuteCheck(r, j)
      PROVE  TypeOK'
  BY <1>3 DEF ExecuteCheck, Jobs, Stages
<1>4. ASSUME NEW r \in Requests, NEW j \in DirectJobs, NEW s \in DirectTargets,
             Evaluate(r, j, s)
      PROVE  TypeOK'
  BY <1>4 DEF Evaluate, TryAdd, Jobs, Stages, TargetSheets
<1>5. ASSUME NEW j \in Jobs, Cancel(j)
      PROVE  TypeOK'
  BY <1>5 DEF Cancel
<1>6. QED
  BY ClientCases, <1>1, <1>2, <1>3, <1>4, <1>5

LEMMA HandlerTypes ==
    ASSUME TypeOK, WorkerInv, NEW r \in Requests, HandlerStep(r)
    PROVE  TypeOK'
<1> USE DEF TypeOK, ledger, handlers, requests, worker, process, history
<1>1. CASE RegisterToken(r)
  BY <1>1 DEF RegisterToken, TryAdd, Stages
<1>2. CASE EnqueueRequest(r)
  BY <1>2 DEF EnqueueRequest, Stages
<1>3. CASE EvaluateAborts(r)
  BY <1>3 DEF EvaluateAborts, Stages
<1>4. QED
  BY <1>1, <1>2, <1>3 DEF HandlerStep

LEMMA SystemTypes ==
    ASSUME TypeOK, WorkerInv, Housekeeping \/ Shutdown \/ ProcessEnds \/ Restart
    PROVE  TypeOK'
<1> USE DEF TypeOK, ledger, handlers, requests, worker, process, history
<1>1. CASE Housekeeping
  BY <1>1 DEF Housekeeping, WatchdogCancel, UploadSweep
<1>2. CASE Shutdown
  BY <1>2 DEF Shutdown
<1>3. CASE ProcessEnds
  BY <1>3, BoundsAssumption DEF ProcessEnds, StageLost, Stages, WorkerPoints
<1>4. CASE Restart
  <2>1. OrphanPartition \in Partitions
    BY DEF OrphanPartition, Partition, Partitions, PartitionKinds, Badges
  <2>2. QED
    BY <1>4, <2>1 DEF Restart, Statuses
<1>5. QED
  BY <1>1, <1>2, <1>3, <1>4

LEMMA SavedTypes ==
    ASSUME TypeOK, NEW index \in Nat, NEW kind \in PartitionKinds, NEW badge \in Badges,
           AddPartition(index, kind, badge)
    PROVE  parts' \in [Jobs -> SUBSET Partitions]
<1>1. Source \in Sheets \cup {"VBA Macros", ""}
  BY SheetsAssumption DEF Source, SheetTranslated
<1>2. Partition(cur, index, kind, Source, badge) \in Partitions
  BY <1>1 DEF Partition, Partitions, TypeOK
<1>3. QED
  BY <1>2 DEF AddPartition, TypeOK

LEMMA WorkerTypes ==
    ASSUME TypeOK, WorkerInv, RequestInv, WorkerStep
    PROVE  TypeOK'
<1> USE DEF TypeOK, ledger, handlers, requests, worker, process, history, Goto
<1>1. CASE Dequeue
  BY <1>1 DEF Dequeue, Stages, WorkerPoints
<1>2. CASE StartRun
  BY <1>2 DEF StartRun, Statuses, WorkerPoints, WorkerInv
<1>3. CASE StartRunThrows
  BY <1>3 DEF StartRunThrows, Stages, WorkerPoints
<1>4. CASE OpenWorkbook \/ OpenThrows
  BY <1>4 DEF OpenWorkbook, OpenThrows, WorkerPoints
<1>5. CASE SaveOutput
  <2>1. parts' \in [Jobs -> SUBSET Partitions]
    BY <1>5, SavedTypes DEF SaveOutput, PartitionKinds, Badges
  <2>2. left' \in 0..MaxOutputs /\ counter' \in Nat
    BY <1>5, BoundsAssumption DEF SaveOutput
  <2>3. QED
    BY <1>5, <2>1, <2>2 DEF SaveOutput
<1>6. CASE PhaseDone \/ PhaseThrows
  <2>1. AfterPhase => pc' \in WorkerPoints /\ left' \in 0..MaxOutputs
    BY BoundsAssumption DEF AfterPhase, WorkerPoints
  <2>2. CASE PhaseDone
    BY <2>1, <2>2 DEF PhaseDone
  <2>3. CASE PhaseThrows
    <3>1. PICK skipped \in {0, 1} :
              /\ AddPartition(counter + skipped + 1, "fatal", "uncertified")
              /\ counter' = counter + skipped + 1
      BY <2>3 DEF PhaseThrows
    <3>2. counter + skipped + 1 \in Nat
      OBVIOUS
    <3>3. parts' \in [Jobs -> SUBSET Partitions]
      BY <3>1, <3>2, SavedTypes DEF PartitionKinds, Badges
    <3>4. QED
      BY <2>1, <2>3, <3>1, <3>2, <3>3 DEF PhaseThrows
  <2>4. QED
    BY <1>6, <2>2, <2>3
<1>7. CASE PhaseCatchThrows
  BY <1>7 DEF PhaseCatchThrows, WorkerPoints
<1>8. CASE WriteCompleted \/ WriteCanceled \/ WriteFailed
  BY <1>8 DEF WriteCompleted, WriteCanceled, WriteFailed, SetStatus, Statuses, WorkerPoints
<1>9. CASE StatusWriteThrows
  <2>1. job \in Jobs
    BY <1>9 DEF StatusWriteThrows, WorkerInv, RequestInv, job
  <2>2. QED
    BY <1>9, <2>1 DEF StatusWriteThrows, WorkerPoints
<1>10. CASE Announce \/ AnnounceThrows
  BY <1>10 DEF Announce, AnnounceThrows, WorkerPoints
<1>11. CASE ReleaseToken
  BY <1>11 DEF ReleaseToken, Dispose, WorkerPoints
<1>12. CASE DeleteUpload
  BY <1>12 DEF DeleteUpload, Stages, WorkerPoints
<1>13. QED
  BY <1>1, <1>2, <1>3, <1>4, <1>5, <1>6, <1>7, <1>8, <1>9, <1>10, <1>11, <1>12
  DEF WorkerStep, RunPhase, EndRun

-----------------------------------------------------------------------------
(* The worker, its request, the channel and the registered sources. *)

LinkInv == WorkerInv /\ RequestInv /\ QueueInv /\ TokenInv

LEMMA LinkClient ==
    ASSUME TypeOK, LinkInv, Client
    PROVE  LinkInv'
<1> USE DEF TypeOK, LinkInv, WorkerInv, RequestInv, QueueInv, TokenInv,
            ledger, handlers, requests, worker, process, history
<1>1. ASSUME NEW j \in SessionJobs,
             \/ Upload(j) \/ UploadRecord(j) \/ UploadRecordFails(j)
             \/ FinishCheck(j) \/ FinishDelete(j)
      PROVE  LinkInv'
  BY <1>1 DEF Upload, UploadRecord, UploadRecordFails, FinishCheck, FinishDelete
<1>2. ASSUME NEW j \in SessionJobs, NEW s \in Sheets, Configure(j, s)
      PROVE  LinkInv'
  BY <1>2 DEF Configure
<1>3. ASSUME NEW r \in Requests, NEW j \in SessionJobs, ExecuteCheck(r, j)
      PROVE  LinkInv'
  <2>1. WorkerInv'
    BY <1>3, RequestsAssumption DEF ExecuteCheck
  <2>2. RequestInv'
    BY <1>3 DEF ExecuteCheck, Jobs
  <2>3. QueueInv'
    BY <1>3 DEF ExecuteCheck
  <2>4. TokenInv'
    BY <1>3 DEF ExecuteCheck
  <2>5. QED
    BY <2>1, <2>2, <2>3, <2>4
<1>4. ASSUME NEW r \in Requests, NEW j \in DirectJobs, NEW s \in DirectTargets,
             Evaluate(r, j, s)
      PROVE  LinkInv'
  <2>1. WorkerInv'
    BY <1>4, RequestsAssumption DEF Evaluate
  <2>2. RequestInv'
    BY <1>4 DEF Evaluate, Jobs
  <2>3. QueueInv'
    BY <1>4 DEF Evaluate
  <2>4. TokenInv'
    BY <1>4, RequestsAssumption DEF Evaluate, TryAdd, Jobs
  <2>5. QED
    BY <2>1, <2>2, <2>3, <2>4
<1>5. ASSUME NEW j \in Jobs, Cancel(j)
      PROVE  LinkInv'
  <2>1. WorkerInv' /\ QueueInv'
    BY <1>5 DEF Cancel
  <2>2. RequestInv'
    BY <1>5 DEF Cancel
  <2>3. TokenInv'
    BY <1>5, RequestsAssumption DEF Cancel
  <2>4. QED
    BY <2>1, <2>2, <2>3
<1>6. QED
  BY ClientCases, <1>1, <1>2, <1>3, <1>4, <1>5

LEMMA LinkHandler ==
    ASSUME TypeOK, LinkInv, NEW r \in Requests, HandlerStep(r)
    PROVE  LinkInv'
<1> USE DEF TypeOK, LinkInv, ledger, handlers, requests, worker, process, history
<1>1. WorkerInv'
  BY RequestsAssumption DEF HandlerStep, RegisterToken, EnqueueRequest, EvaluateAborts, WorkerInv
<1>2. RequestInv'
  BY DEF HandlerStep, RegisterToken, EnqueueRequest, EvaluateAborts, RequestInv
<1>3. QueueInv'
  <2>1. CASE EnqueueRequest(r)
    BY <2>1 DEF EnqueueRequest, QueueInv
  <2>2. CASE RegisterToken(r) \/ EvaluateAborts(r)
    BY <2>2 DEF RegisterToken, EvaluateAborts, QueueInv
  <2>3. QED
    BY <2>1, <2>2 DEF HandlerStep
<1>4. TokenInv'
  <2>1. CASE RegisterToken(r)
    BY <2>1, RequestsAssumption DEF RegisterToken, TryAdd, TokenInv, RequestInv
  <2>2. CASE EnqueueRequest(r) \/ EvaluateAborts(r)
    BY <2>2 DEF EnqueueRequest, EvaluateAborts, TokenInv
  <2>3. QED
    BY <2>1, <2>2 DEF HandlerStep
<1>5. QED
  BY <1>1, <1>2, <1>3, <1>4

LEMMA LinkSystem ==
    ASSUME TypeOK, LinkInv, Housekeeping \/ Shutdown \/ ProcessEnds \/ Restart
    PROVE  LinkInv'
<1> USE DEF TypeOK, LinkInv, ledger, handlers, requests, worker, process, history
<1>1. ASSUME NEW j \in Jobs, WatchdogCancel(j)
      PROVE  LinkInv'
  <2>1. WorkerInv' /\ QueueInv'
    BY <1>1 DEF WatchdogCancel, WorkerInv, QueueInv
  <2>2. RequestInv' /\ TokenInv'
    BY <1>1 DEF WatchdogCancel, RequestInv, TokenInv
  <2>3. QED
    BY <2>1, <2>2
<1>2. CASE \E j \in Jobs : UploadSweep(j)
  BY <1>2 DEF UploadSweep, WorkerInv, RequestInv, QueueInv, TokenInv
<1>3. CASE Shutdown
  BY <1>3 DEF Shutdown, WorkerInv, RequestInv, QueueInv, TokenInv
<1>4. CASE ProcessEnds
  <2>1. WorkerInv'
    BY <1>4 DEF ProcessEnds, StageLost, WorkerInv, Stages
  <2>2. RequestInv' /\ QueueInv'
    BY <1>4 DEF ProcessEnds, StageLost, RequestInv, QueueInv, Stages
  <2>3. TokenInv'
    BY <1>4, RequestsAssumption DEF ProcessEnds, TokenInv
  <2>4. QED
    BY <2>1, <2>2, <2>3
<1>5. CASE Restart
  BY <1>5 DEF Restart, WorkerInv, RequestInv, QueueInv, TokenInv
<1>6. QED
  BY <1>1, <1>2, <1>3, <1>4, <1>5 DEF Housekeeping

LEMMA LinkWorker ==
    ASSUME TypeOK, LinkInv, WorkerStep
    PROVE  LinkInv'
<1> USE DEF TypeOK, LinkInv, ledger, handlers, requests, worker, process, history,
            Goto, job
<1>1. CASE Dequeue
  <2>1. /\ Head(queue) = queue[1] /\ 1 \in 1..Len(queue)
        /\ \A i \in 1..Len(queue') : queue'[i] = queue[i + 1] /\ i + 1 \in 1..Len(queue)
    BY <1>1 DEF Dequeue
  <2>2. Head(queue) \in Requests /\ stage[Head(queue)] = "queued"
    BY <2>1 DEF QueueInv
  <2>3. WorkerInv'
    BY <1>1, <2>2, RequestsAssumption DEF Dequeue, WorkerInv
  <2>4. RequestInv'
    BY <1>1, <2>2 DEF Dequeue, RequestInv
  <2>5. QueueInv'
    <3>1. \A i \in 1..Len(queue') : queue'[i] # Head(queue)
      BY <2>1 DEF QueueInv
    <3>2. \A i \in 1..Len(queue') : stage'[queue'[i]] = "queued"
      BY <1>1, <2>1, <3>1 DEF Dequeue, QueueInv
    <3>3. \A i, k \in 1..Len(queue') : queue'[k] = queue'[i] => k = i
      <4>1. \A i, k \in 1..Len(queue') : queue'[k] = queue'[i] => k + 1 = i + 1
        BY <2>1 DEF QueueInv
      <4>2. QED
        BY <4>1
    <3>4. QED
      BY <3>2, <3>3 DEF QueueInv
  <2>6. TokenInv'
    BY <1>1, <2>2 DEF Dequeue, TokenInv
  <2>7. QED
    BY <2>3, <2>4, <2>5, <2>6
<1>2. CASE StartRun \/ OpenWorkbook \/ OpenThrows
  BY <1>2 DEF StartRun, OpenWorkbook, OpenThrows, WorkerInv, RequestInv, QueueInv, TokenInv
<1>3. CASE StartRunThrows
  <2>1. WorkerInv'
    BY <1>3 DEF StartRunThrows, WorkerInv
  <2>2. RequestInv'
    BY <1>3 DEF StartRunThrows, RequestInv, WorkerInv
  <2>3. QueueInv'
    BY <1>3 DEF StartRunThrows, QueueInv, WorkerInv
  <2>4. TokenInv'
    BY <1>3 DEF StartRunThrows, TokenInv
  <2>5. QED
    BY <2>1, <2>2, <2>3, <2>4
<1>4. CASE RunPhase
  BY <1>4 DEF RunPhase, SaveOutput, PhaseDone, PhaseThrows, PhaseCatchThrows, AfterPhase,
              WorkerInv, RequestInv, QueueInv, TokenInv
<1>5. CASE WriteCompleted \/ WriteCanceled \/ WriteFailed \/ StatusWriteThrows
  BY <1>5 DEF WriteCompleted, WriteCanceled, WriteFailed, StatusWriteThrows,
              WorkerInv, RequestInv, QueueInv, TokenInv
<1>6. CASE Announce \/ AnnounceThrows
  BY <1>6 DEF Announce, AnnounceThrows, WorkerInv, RequestInv, QueueInv, TokenInv
<1>7. CASE ReleaseToken
  <2>1. cur \in Requests /\ stage[cur] = "running" /\ jobOf[cur] \in Jobs
    BY <1>7 DEF ReleaseToken, WorkerInv, RequestInv
  <2>2. WorkerInv' /\ QueueInv'
    BY <1>7 DEF ReleaseToken, WorkerInv, QueueInv
  <2>3. RequestInv'
    BY <1>7, <2>1 DEF ReleaseToken, Dispose, RequestInv
  <2>4. TokenInv'
    BY <1>7, <2>1, RequestsAssumption DEF ReleaseToken, WorkerInv, TokenInv
  <2>5. QED
    BY <2>2, <2>3, <2>4
<1>8. CASE DeleteUpload
  <2>1. cur \in Requests /\ stage[cur] = "running"
    BY <1>8 DEF DeleteUpload, WorkerInv
  <2>2. WorkerInv'
    BY <1>8 DEF DeleteUpload, WorkerInv
  <2>3. RequestInv' /\ QueueInv'
    BY <1>8, <2>1 DEF DeleteUpload, RequestInv, QueueInv
  <2>4. TokenInv'
    BY <1>8, <2>1 DEF DeleteUpload, TokenInv
  <2>5. QED
    BY <2>2, <2>3, <2>4
<1>9. QED
  BY <1>1, <1>2, <1>3, <1>4, <1>5, <1>6, <1>7, <1>8 DEF WorkerStep, EndRun

LEMMA LinkNext ==
    ASSUME TypeOK, LinkInv, [Next]_vars
    PROVE  TypeOK' /\ LinkInv'
<1>1. CASE Client
  BY <1>1, ClientTypes, LinkClient DEF LinkInv
<1>2. CASE \E r \in Requests : HandlerStep(r)
  BY <1>2, HandlerTypes, LinkHandler DEF LinkInv
<1>3. CASE WorkerStep
  BY <1>3, WorkerTypes, LinkWorker DEF LinkInv
<1>4. CASE Housekeeping \/ Shutdown \/ ProcessEnds \/ Restart
  BY <1>4, SystemTypes, LinkSystem DEF LinkInv
<1>5. CASE UNCHANGED vars
  BY <1>5 DEF vars, TypeOK, LinkInv, WorkerInv, RequestInv, QueueInv, TokenInv, job
<1>6. QED
  BY <1>1, <1>2, <1>3, <1>4, <1>5 DEF Next

-----------------------------------------------------------------------------
(* Which job is running, and who cancelled it. *)

OutcomeInv == RowInv /\ RunningMeansWorkedOn /\ CancelInv /\ CanceledHasCause

LEMMA OutcomeClient ==
    ASSUME TypeOK, LinkInv, OutcomeInv, Client
    PROVE  OutcomeInv'
<1> USE DEF TypeOK, LinkInv, OutcomeInv, WorkerInv, RequestInv, TokenInv,
            RowInv, RunningMeansWorkedOn, CancelInv, CanceledHasCause,
            ledger, handlers, requests, worker, process, history, job
<1>1. ASSUME NEW j \in SessionJobs,
             \/ Upload(j) \/ UploadRecord(j) \/ UploadRecordFails(j)
             \/ FinishCheck(j) \/ FinishDelete(j)
      PROVE  OutcomeInv'
  BY <1>1, JobsAssumption
  DEF Jobs, Upload, UploadRecord, UploadRecordFails, FinishCheck, FinishDelete
<1>2. ASSUME NEW j \in SessionJobs, NEW s \in Sheets, Configure(j, s)
      PROVE  OutcomeInv'
  BY <1>2 DEF Configure
<1>3. ASSUME NEW r \in Requests, NEW j \in SessionJobs, ExecuteCheck(r, j)
      PROVE  OutcomeInv'
  <2>1. jobOf[r] \notin Jobs
    BY <1>3, JobsAssumption DEF ExecuteCheck
  <2>2. RowInv'
    BY <1>3, <2>1 DEF ExecuteCheck, Jobs
  <2>3. RunningMeansWorkedOn' /\ CancelInv'
    BY <1>3 DEF ExecuteCheck
  <2>4. CanceledHasCause'
    BY <1>3, <2>1 DEF ExecuteCheck
  <2>5. QED
    BY <2>2, <2>3, <2>4
<1>4. ASSUME NEW r \in Requests, NEW j \in DirectJobs, NEW s \in DirectTargets,
             Evaluate(r, j, s)
      PROVE  OutcomeInv'
  <2>1. jobOf[r] \notin Jobs
    BY <1>4, JobsAssumption DEF Evaluate
  <2>2. RowInv'
    BY <1>4, <2>1 DEF Evaluate, Jobs
  <2>3. RunningMeansWorkedOn' /\ CancelInv'
    BY <1>4 DEF Evaluate
  <2>4. CanceledHasCause'
    BY <1>4, <2>1 DEF Evaluate
  <2>5. QED
    BY <2>2, <2>3, <2>4
<1>5. ASSUME NEW j \in Jobs, Cancel(j)
      PROVE  OutcomeInv'
  BY <1>5 DEF Cancel
<1>6. QED
  BY ClientCases, <1>1, <1>2, <1>3, <1>4, <1>5

LEMMA OutcomeHandler ==
    ASSUME TypeOK, LinkInv, OutcomeInv, NEW r \in Requests, HandlerStep(r)
    PROVE  OutcomeInv'
<1> USE DEF TypeOK, LinkInv, OutcomeInv, ledger, handlers, requests, worker, process,
            history, job
<1>1. RowInv' /\ RunningMeansWorkedOn'
  BY DEF HandlerStep, RegisterToken, EnqueueRequest, EvaluateAborts, RowInv,
         RunningMeansWorkedOn
<1>2. CancelInv' /\ CanceledHasCause'
  BY DEF HandlerStep, RegisterToken, EnqueueRequest, EvaluateAborts, CancelInv,
         CanceledHasCause, RequestInv, WorkerInv
<1>3. QED
  BY <1>1, <1>2

LEMMA OutcomeSystem ==
    ASSUME TypeOK, LinkInv, OutcomeInv, Housekeeping \/ Shutdown \/ ProcessEnds \/ Restart
    PROVE  OutcomeInv'
<1> USE DEF TypeOK, LinkInv, OutcomeInv, WorkerInv, RowInv, RunningMeansWorkedOn,
            CancelInv, CanceledHasCause,
            ledger, handlers, requests, worker, process, history, job
<1>1. CASE Housekeeping
  BY <1>1 DEF Housekeeping, WatchdogCancel, UploadSweep, RequestInv, TokenInv
<1>2. CASE Shutdown
  BY <1>2 DEF Shutdown
<1>3. CASE ProcessEnds
  BY <1>3 DEF ProcessEnds
<1>4. CASE Restart
  BY <1>4 DEF Restart, Orphaned, Jobs
<1>5. QED
  BY <1>1, <1>2, <1>3, <1>4

LEMMA OutcomeWorker ==
    ASSUME TypeOK, LinkInv, OutcomeInv, WorkerStep
    PROVE  OutcomeInv'
<1> USE DEF TypeOK, LinkInv, OutcomeInv, WorkerInv, RequestInv, RowInv,
            RunningMeansWorkedOn, CancelInv, CanceledHasCause,
            ledger, handlers, requests, worker, process, history, Goto, job
<1>1. CASE Dequeue
  BY <1>1 DEF Dequeue
<1>2. CASE StartRun
  <2>1. cur \in Requests /\ jobOf[cur] \in Jobs
    BY <1>2 DEF StartRun
  <2>2. RowInv'
    BY <1>2, <2>1 DEF StartRun, Jobs
  <2>3. RunningMeansWorkedOn' /\ CancelInv' /\ CanceledHasCause'
    BY <1>2, <2>1 DEF StartRun
  <2>4. QED
    BY <2>2, <2>3
<1>3. CASE StartRunThrows \/ OpenWorkbook \/ OpenThrows
  BY <1>3 DEF StartRunThrows, OpenWorkbook, OpenThrows
<1>4. CASE RunPhase
  BY <1>4 DEF RunPhase, SaveOutput, PhaseDone, PhaseThrows, PhaseCatchThrows, AfterPhase,
              Interrupted
<1>5. CASE WriteCompleted \/ WriteCanceled \/ WriteFailed
  <2>1. cur \in Requests /\ jobOf[cur] \in Jobs
    BY <1>5 DEF WriteCompleted, WriteCanceled, WriteFailed
  <2>2. RowInv' /\ CancelInv'
    BY <1>5, <2>1 DEF WriteCompleted, WriteCanceled, WriteFailed, SetStatus, Jobs
  <2>3. RunningMeansWorkedOn'
    BY <1>5, <2>1 DEF WriteCompleted, WriteCanceled, WriteFailed, SetStatus
  <2>4. CanceledHasCause'
    BY <1>5, <2>1 DEF WriteCompleted, WriteCanceled, WriteFailed, SetStatus
  <2>5. QED
    BY <2>2, <2>3, <2>4
<1>6. CASE StatusWriteThrows
  BY <1>6 DEF StatusWriteThrows
<1>7. CASE Announce \/ AnnounceThrows
  <2>1. CASE Announce
    BY <2>1 DEF Announce
  <2>2. CASE AnnounceThrows
    BY <2>2 DEF AnnounceThrows
  <2>3. QED
    BY <1>7, <2>1, <2>2
<1>8. CASE ReleaseToken
  BY <1>8 DEF ReleaseToken, Dispose
<1>9. CASE DeleteUpload
  BY <1>9 DEF DeleteUpload
<1>10. QED
  BY <1>1, <1>2, <1>3, <1>4, <1>5, <1>6, <1>7, <1>8, <1>9 DEF WorkerStep, EndRun

-----------------------------------------------------------------------------
(* The ledger's partitions and the workbook on disk. *)

LedgerInv == DoneInv /\ WriterInv /\ OneRunWritesTheLedger /\ UploadInv

\* What the ledger invariants look at in the ledger does not change.
LEMMA SameWriters ==
    ASSUME UNCHANGED parts
    PROVE  \A j \in Jobs : Writers(j)' = Writers(j)
BY DEF Writers

\* Only runs of the worker add writers, and only the one it is working on.
LEMMA NewWriter ==
    ASSUME TypeOK, LinkInv, NEW index, NEW kind, NEW badge, pc # "idle",
           AddPartition(index, kind, badge)
    PROVE  \A j \in Jobs : Writers(j)' = IF j = job THEN Writers(j) \cup {cur} ELSE Writers(j)
<1>1. cur \in Requests /\ jobOf[cur] \in Jobs
  BY DEF LinkInv, WorkerInv, RequestInv
<1>2. Partition(cur, index, kind, Source, badge).run = cur
  BY DEF Partition
<1>3. QED
  BY <1>1, <1>2, RequestsAssumption DEF AddPartition, Writers, TypeOK, job

\* A step that moves requests along, in the order of their stages, keeps what
\* the ledger says of its writers.
LEMMA StageMoves ==
    ASSUME LinkInv, WriterInv, OneRunWritesTheLedger, UNCHANGED parts,
           \A r \in Requests : stage[r] \in {"running", "done", "lost"} =>
               /\ jobOf'[r] = jobOf[r]
               /\ stage'[r] = stage[r] \/ stage'[r] = "lost",
           pc' = "start" => \/ pc = "start" /\ cur' = cur
                            \/ stage[cur'] = "queued"
    PROVE  WriterInv' /\ OneRunWritesTheLedger'
<1>1. \A j \in Jobs : Writers(j)' = Writers(j)
  BY SameWriters
<1>2. WriterInv'
  BY <1>1 DEF WriterInv
<1>3. OneRunWritesTheLedger'
  BY <1>1 DEF WriterInv, OneRunWritesTheLedger
<1>4. QED
  BY <1>2, <1>3

LEMMA LedgerClient ==
    ASSUME TypeOK, LinkInv, OutcomeInv, LedgerInv, Client
    PROVE  LedgerInv'
<1> USE DEF TypeOK, LinkInv, OutcomeInv, LedgerInv, WorkerInv, RequestInv, RowInv,
            ledger, handlers, requests, worker, process, history, job, Jobs
<1>1. ASSUME NEW j \in SessionJobs,
             \/ Upload(j) \/ UploadRecord(j) \/ UploadRecordFails(j)
             \/ FinishCheck(j) \/ FinishDelete(j)
      PROVE  LedgerInv'
  <2>1. WriterInv' /\ OneRunWritesTheLedger'
    BY <1>1, StageMoves
    DEF Upload, UploadRecord, UploadRecordFails, FinishCheck, FinishDelete
  <2>2. DoneInv'
    BY <1>1 DEF Upload, UploadRecord, UploadRecordFails, FinishCheck, FinishDelete, DoneInv
  <2>3. UploadInv'
    BY <1>1 DEF Upload, UploadRecord, UploadRecordFails, FinishCheck, FinishDelete, UploadInv
  <2>4. QED
    BY <2>1, <2>2, <2>3
<1>2. ASSUME NEW j \in SessionJobs, NEW s \in Sheets, Configure(j, s)
      PROVE  LedgerInv'
  <2>1. WriterInv' /\ OneRunWritesTheLedger'
    BY <1>2, StageMoves DEF Configure
  <2>2. DoneInv' /\ UploadInv'
    BY <1>2 DEF Configure, DoneInv, UploadInv
  <2>3. QED
    BY <2>1, <2>2
<1>3. ASSUME NEW r \in Requests, NEW j \in SessionJobs, ExecuteCheck(r, j)
      PROVE  LedgerInv'
  <2>1. WriterInv' /\ OneRunWritesTheLedger'
    BY <1>3, StageMoves DEF ExecuteCheck
  <2>2. DoneInv'
    BY <1>3 DEF ExecuteCheck, DoneInv
  <2>3. UploadInv'
    BY <1>3 DEF ExecuteCheck, UploadInv
  <2>4. QED
    BY <2>1, <2>2, <2>3
<1>4. ASSUME NEW r \in Requests, NEW j \in DirectJobs, NEW s \in DirectTargets,
             Evaluate(r, j, s)
      PROVE  LedgerInv'
  <2>1. WriterInv' /\ OneRunWritesTheLedger'
    BY <1>4, StageMoves DEF Evaluate
  <2>2. DoneInv'
    BY <1>4 DEF Evaluate, DoneInv
  <2>3. UploadInv'
    BY <1>4 DEF Evaluate, UploadInv
  <2>4. QED
    BY <2>1, <2>2, <2>3
<1>5. ASSUME NEW j \in Jobs, Cancel(j)
      PROVE  LedgerInv'
  <2>1. WriterInv' /\ OneRunWritesTheLedger'
    BY <1>5, StageMoves DEF Cancel
  <2>2. DoneInv' /\ UploadInv'
    BY <1>5 DEF Cancel, DoneInv, UploadInv
  <2>3. QED
    BY <2>1, <2>2
<1>6. QED
  BY ClientCases, <1>1, <1>2, <1>3, <1>4, <1>5

LEMMA LedgerHandler ==
    ASSUME TypeOK, LinkInv, OutcomeInv, LedgerInv, NEW r \in Requests, HandlerStep(r)
    PROVE  LedgerInv'
<1> USE DEF TypeOK, LinkInv, LedgerInv, ledger, handlers, requests, worker, process,
            history, job, HandlerStep, RegisterToken, EnqueueRequest, EvaluateAborts
<1>1. WriterInv' /\ OneRunWritesTheLedger'
  BY StageMoves
<1>2. DoneInv'
  BY DEF DoneInv
<1>3. UploadInv'
  BY DEF UploadInv
<1>4. QED
  BY <1>1, <1>2, <1>3

LEMMA LedgerSystem ==
    ASSUME TypeOK, LinkInv, OutcomeInv, LedgerInv,
           Housekeeping \/ Shutdown \/ ProcessEnds \/ Restart
    PROVE  LedgerInv'
<1> USE DEF TypeOK, LinkInv, LedgerInv, WorkerInv, RequestInv,
            ledger, handlers, requests, worker, process, history, job
<1>1. CASE Housekeeping
  <2>1. WriterInv' /\ OneRunWritesTheLedger'
    BY <1>1, StageMoves DEF Housekeeping, WatchdogCancel, UploadSweep
  <2>2. DoneInv' /\ UploadInv'
    BY <1>1 DEF Housekeeping, WatchdogCancel, UploadSweep, DoneInv, UploadInv
  <2>3. QED
    BY <2>1, <2>2
<1>2. CASE Shutdown
  <2>1. WriterInv' /\ OneRunWritesTheLedger'
    BY <1>2, StageMoves DEF Shutdown
  <2>2. DoneInv' /\ UploadInv'
    BY <1>2 DEF Shutdown, DoneInv, UploadInv
  <2>3. QED
    BY <2>1, <2>2
<1>3. CASE ProcessEnds
  <2>1. WriterInv' /\ OneRunWritesTheLedger'
    BY <1>3, StageMoves DEF ProcessEnds, StageLost
  <2>2. DoneInv'
    BY <1>3 DEF ProcessEnds, StageLost, DoneInv
  <2>3. UploadInv'
    BY <1>3 DEF ProcessEnds, StageLost, UploadInv
  <2>4. QED
    BY <2>1, <2>2, <2>3
<1>4. CASE Restart
  <2>1. \A j \in Jobs : Writers(j)' = Writers(j)
    <3>1. OrphanPartition.run = NoRequest
      BY DEF OrphanPartition, Partition
    <3>2. QED
      BY <1>4, <3>1 DEF Restart, Writers
  <2>2. WriterInv' /\ OneRunWritesTheLedger'
    BY <1>4, <2>1 DEF Restart, WriterInv, OneRunWritesTheLedger
  <2>3. pc = "idle"
    BY <1>4 DEF Restart
  <2>4. DoneInv'
    BY <1>4, <2>3 DEF Restart, DoneInv, Orphaned
  <2>5. UploadInv'
    BY <1>4, <2>3 DEF Restart, UploadInv, Orphaned
  <2>6. QED
    BY <2>2, <2>4, <2>5
<1>5. QED
  BY <1>1, <1>2, <1>3, <1>4

\* A partition added by the running request, whose job no finished run had.
LEMMA PartitionSaved ==
    ASSUME TypeOK, LinkInv, DoneInv, WriterInv, OneRunWritesTheLedger,
           NEW index, NEW kind, NEW badge, pc \in {"sheet", "vba"},
           AddPartition(index, kind, badge), UNCHANGED <<stage, jobOf>>, pc' # "start"
    PROVE  WriterInv' /\ OneRunWritesTheLedger'
<1>1. \A j \in Jobs : Writers(j)' = IF j = job THEN Writers(j) \cup {cur} ELSE Writers(j)
  BY NewWriter
<1>2. cur \in Requests /\ jobOf[cur] \in Jobs /\ stage[cur] = "running"
  BY DEF LinkInv, WorkerInv, RequestInv
<1>3. WriterInv'
  BY <1>1, <1>2 DEF WriterInv, job
<1>4. ASSUME "deleteFails" \notin Faults, NEW r \in Writers(job), r # cur
      PROVE  stage[r] = "lost"
  BY <1>2, <1>4 DEF LinkInv, WorkerInv, WriterInv, DoneInv, job
<1>5. OneRunWritesTheLedger'
  BY <1>1, <1>2, <1>4 DEF OneRunWritesTheLedger
<1>6. QED
  BY <1>3, <1>5

LEMMA LedgerWorker ==
    ASSUME TypeOK, LinkInv, OutcomeInv, LedgerInv, WorkerStep
    PROVE  LedgerInv'
<1> USE DEF TypeOK, LinkInv, OutcomeInv, LedgerInv, WorkerInv, RequestInv, RowInv,
            ledger, handlers, requests, worker, process, history, Goto, job
<1>1. CASE Dequeue
  <2>1. Head(queue) \in Requests /\ stage[Head(queue)] = "queued"
    BY <1>1 DEF Dequeue, QueueInv
  <2>2. WriterInv' /\ OneRunWritesTheLedger'
    BY <1>1, <2>1, StageMoves DEF Dequeue
  <2>3. DoneInv' /\ UploadInv'
    BY <1>1, <2>1 DEF Dequeue, DoneInv, UploadInv
  <2>4. QED
    BY <2>2, <2>3
<1>2. CASE StartRun
  <2>1. WriterInv' /\ OneRunWritesTheLedger'
    BY <1>2, StageMoves DEF StartRun
  <2>2. DoneInv' /\ UploadInv'
    BY <1>2 DEF StartRun, DoneInv, UploadInv
  <2>3. QED
    BY <2>1, <2>2
<1>3. CASE StartRunThrows
  <2>1. \A j \in Jobs : Writers(j)' = Writers(j) /\ cur \notin Writers(j)
    BY <1>3, SameWriters DEF StartRunThrows, WriterInv
  <2>2. WriterInv' /\ OneRunWritesTheLedger'
    BY <1>3, <2>1 DEF StartRunThrows, WriterInv, OneRunWritesTheLedger
  <2>3. DoneInv' /\ UploadInv'
    BY <1>3 DEF StartRunThrows, DoneInv, UploadInv
  <2>4. QED
    BY <2>2, <2>3
<1>4. CASE OpenWorkbook \/ OpenThrows
  <2>1. WriterInv' /\ OneRunWritesTheLedger'
    BY <1>4, StageMoves DEF OpenWorkbook, OpenThrows
  <2>2. DoneInv' /\ UploadInv'
    BY <1>4 DEF OpenWorkbook, OpenThrows, DoneInv, UploadInv
  <2>3. QED
    BY <2>1, <2>2
<1>5. CASE SaveOutput \/ PhaseThrows
  <2>1. WriterInv' /\ OneRunWritesTheLedger'
    BY <1>5, PartitionSaved DEF SaveOutput, PhaseThrows, AfterPhase
  <2>2. DoneInv'
    BY <1>5 DEF SaveOutput, PhaseThrows, AfterPhase, DoneInv
  <2>3. UploadInv'
    BY <1>5 DEF SaveOutput, PhaseThrows, AfterPhase, UploadInv
  <2>4. QED
    BY <2>1, <2>2, <2>3
<1>6. CASE PhaseDone \/ PhaseCatchThrows
  <2>1. WriterInv' /\ OneRunWritesTheLedger'
    BY <1>6, StageMoves DEF PhaseDone, PhaseCatchThrows, AfterPhase
  <2>2. DoneInv' /\ UploadInv'
    BY <1>6 DEF PhaseDone, PhaseCatchThrows, AfterPhase, DoneInv, UploadInv
  <2>3. QED
    BY <2>1, <2>2
<1>7. CASE WriteCompleted \/ WriteCanceled \/ WriteFailed
  <2>1. WriterInv' /\ OneRunWritesTheLedger'
    BY <1>7, StageMoves DEF WriteCompleted, WriteCanceled, WriteFailed
  <2>2. DoneInv' /\ UploadInv'
    BY <1>7 DEF WriteCompleted, WriteCanceled, WriteFailed, SetStatus, DoneInv, UploadInv
  <2>3. QED
    BY <2>1, <2>2
<1>8. CASE StatusWriteThrows
  <2>1. WriterInv' /\ OneRunWritesTheLedger'
    BY <1>8, StageMoves DEF StatusWriteThrows
  <2>2. DoneInv' /\ UploadInv'
    BY <1>8 DEF StatusWriteThrows, DoneInv, UploadInv
  <2>3. QED
    BY <2>1, <2>2
<1>9. CASE Announce \/ AnnounceThrows
  <2>1. WriterInv' /\ OneRunWritesTheLedger'
    BY <1>9, StageMoves DEF Announce, AnnounceThrows
  <2>2. DoneInv' /\ UploadInv'
    BY <1>9 DEF Announce, AnnounceThrows, DoneInv, UploadInv
  <2>3. QED
    BY <2>1, <2>2
<1>10. CASE ReleaseToken
  <2>1. WriterInv' /\ OneRunWritesTheLedger'
    BY <1>10, StageMoves DEF ReleaseToken
  <2>2. DoneInv' /\ UploadInv'
    BY <1>10 DEF ReleaseToken, DoneInv, UploadInv
  <2>3. QED
    BY <2>1, <2>2
<1>11. CASE DeleteUpload
  <2>1. cur \in Requests /\ jobOf[cur] \in Jobs /\ stage[cur] = "running"
    BY <1>11 DEF DeleteUpload
  <2>2. WriterInv' /\ OneRunWritesTheLedger'
    <3>1. \A j \in Jobs : Writers(j)' = Writers(j)
      BY <1>11, SameWriters DEF DeleteUpload
    <3>2. WriterInv'
      BY <1>11, <2>1, <3>1 DEF DeleteUpload, WriterInv
    <3>3. OneRunWritesTheLedger'
      BY <1>11, <2>1, <3>1 DEF DeleteUpload, WriterInv, OneRunWritesTheLedger
    <3>4. QED
      BY <3>2, <3>3
  <2>3. DoneInv'
    BY <1>11, <2>1 DEF DeleteUpload, DoneInv
  <2>4. UploadInv'
    BY <1>11, <2>1 DEF DeleteUpload, UploadInv
  <2>5. QED
    BY <2>2, <2>3, <2>4
<1>12. QED
  BY <1>1, <1>2, <1>3, <1>4, <1>5, <1>6, <1>7, <1>8, <1>9, <1>10, <1>11
  DEF WorkerStep, RunPhase, EndRun

-----------------------------------------------------------------------------
(* The inductive invariant, and what follows from it. *)

LEMMA SafetyInit == Init => TypeOK /\ SafetyInv
<1> SUFFICES ASSUME Init PROVE TypeOK /\ SafetyInv
  OBVIOUS
<1>1. TypeOK /\ WorkerInv
  BY TypeInit
<1>2. RequestInv /\ QueueInv /\ TokenInv
  <2>1. queue = <<>> /\ Len(<<>>) = 0
    BY DEF Init
  <2>2. QueueInv
    BY <2>1 DEF QueueInv
  <2>3. RequestInv /\ TokenInv
    BY RequestsAssumption DEF Init, RequestInv, TokenInv
  <2>4. QED
    BY <2>2, <2>3
<1>3. RowInv /\ CancelInv /\ RunningMeansWorkedOn /\ CanceledHasCause
  BY DEF Init, RowInv, CancelInv, RunningMeansWorkedOn, CanceledHasCause, Jobs
<1>4. \A j \in Jobs : Writers(j) = {}
  BY DEF Init, Writers
<1>5. WriterInv /\ OneRunWritesTheLedger
  BY <1>4 DEF WriterInv, OneRunWritesTheLedger
<1>6. DoneInv /\ UploadInv
  BY DEF Init, DoneInv, UploadInv
<1>7. QED
  BY <1>1, <1>2, <1>3, <1>5, <1>6 DEF SafetyInv

LEMMA SafetyParts == SafetyInv <=> LinkInv /\ OutcomeInv /\ LedgerInv
BY DEF SafetyInv, LinkInv, OutcomeInv, LedgerInv

LEMMA SafetyNext == TypeOK /\ SafetyInv /\ [Next]_vars => TypeOK' /\ SafetyInv'
<1> SUFFICES ASSUME TypeOK, SafetyInv, [Next]_vars
             PROVE  TypeOK' /\ SafetyInv'
  OBVIOUS
<1>1. LinkInv /\ OutcomeInv /\ LedgerInv
  BY SafetyParts
<1>2. TypeOK' /\ LinkInv'
  BY <1>1, LinkNext
<1>3. OutcomeInv' /\ LedgerInv'
  <2>1. CASE Client
    BY <1>1, <2>1, OutcomeClient, LedgerClient
  <2>2. CASE \E r \in Requests : HandlerStep(r)
    BY <1>1, <2>2, OutcomeHandler, LedgerHandler
  <2>3. CASE WorkerStep
    BY <1>1, <2>3, OutcomeWorker, LedgerWorker
  <2>4. CASE Housekeeping \/ Shutdown \/ ProcessEnds \/ Restart
    BY <1>1, <2>4, OutcomeSystem, LedgerSystem
  <2>5. CASE UNCHANGED vars
    <3>1. OutcomeInv'
      BY <1>1, <2>5 DEF vars, job, OutcomeInv, RowInv, CancelInv, RunningMeansWorkedOn,
                        CanceledHasCause
    <3>2. \A j \in Jobs : Writers(j)' = Writers(j)
      BY <2>5, SameWriters DEF vars
    <3>3. LedgerInv'
      BY <1>1, <2>5, <3>2 DEF vars, job, LedgerInv, DoneInv, WriterInv,
                              OneRunWritesTheLedger, UploadInv
    <3>4. QED
      BY <3>1, <3>3
  <2>6. QED
    BY <2>1, <2>2, <2>3, <2>4, <2>5 DEF Next
<1>4. SafetyInv'
  BY <1>2, <1>3 DEF SafetyInv, LinkInv, OutcomeInv, LedgerInv
<1>5. QED
  BY <1>2, <1>4

\* Every reachable state satisfies the inductive invariant.
THEOREM SafetyInvariant == Spec => [](TypeOK /\ SafetyInv)
BY SafetyInit, SafetyNext, PTL DEF Spec

\* Every variable of the lifecycle keeps its type.
THEOREM TypeCorrect == Spec => []TypeOK
BY SafetyInvariant, PTL

\* Every source that DELETE /api/evaluate can reach belongs to an unfinished
\* request of that job and can still be cancelled, however many requests of the
\* job race for the one entry of ActiveJobTokens.
THEOREM TokensUsable == Spec => []RegisteredTokensUsable
<1>1. TypeOK /\ SafetyInv => RegisteredTokensUsable
  BY DEF SafetyInv, TokenInv, RegisteredTokensUsable
<1>2. QED
  BY <1>1, SafetyInvariant, PTL

\* At most one run that was not cut off by the end of the process writes the
\* partitions of a job, for any number of duplicate execute calls.
THEOREM OneRunWrites == Spec => []OneRunWritesTheLedger
<1>1. TypeOK /\ SafetyInv => OneRunWritesTheLedger
  BY DEF SafetyInv
<1>2. QED
  BY <1>1, SafetyInvariant, PTL

\* A job shown as Running is being worked on, or its run could not record its
\* outcome.
THEOREM RunningIsWorkedOn == Spec => []RunningMeansWorkedOn
<1>1. TypeOK /\ SafetyInv => RunningMeansWorkedOn
  BY DEF SafetyInv
<1>2. QED
  BY <1>1, SafetyInvariant, PTL

\* A job is Canceled only when a request of its own was cancelled.
THEOREM CanceledWasCancelled == Spec => []CanceledHasCause
<1>1. TypeOK /\ SafetyInv => CanceledHasCause
  BY DEF SafetyInv
<1>2. QED
  BY <1>1, SafetyInvariant, PTL

\* The workbook of a Completed job is gone once its run is over, unless the
\* process ended in between.
THEOREM CompletedUploadGone == Spec => []CompletedLeavesNoUpload
<1>1. TypeOK /\ SafetyInv => CompletedLeavesNoUpload
  <2> SUFFICES ASSUME SafetyInv, "deleteFails" \notin Faults, up = "up",
                      NEW j \in Jobs, status[j] = "Completed", file[j]
               PROVE  \/ pc \in {"announceDone", "release", "delete"} /\ jobOf[cur] = j
                      \/ \E r \in Requests : jobOf[r] = j /\ stage[r] = "lost"
    BY DEF CompletedLeavesNoUpload
  <2>1. QED
    BY DEF SafetyInv, UploadInv
<1>2. QED
  BY <1>1, SafetyInvariant, PTL
-----------------------------------------------------------------------------
(* The service's promise. *)

LEMMA ServiceClient ==
    ASSUME TypeOK, LinkInv, ServiceInv, Client
    PROVE  ServiceInv'
<1> USE DEF TypeOK, LinkInv, WorkerInv, RequestInv, ServiceInv, OverStages,
            ledger, handlers, requests, worker, process, history, job, Jobs
<1>1. ASSUME NEW j \in SessionJobs,
             \/ Upload(j) \/ UploadRecord(j) \/ UploadRecordFails(j)
             \/ FinishCheck(j) \/ FinishDelete(j)
      PROVE  ServiceInv'
  BY <1>1 DEF Upload, UploadRecord, UploadRecordFails, FinishCheck, FinishDelete
<1>2. ASSUME NEW j \in SessionJobs, NEW s \in Sheets, Configure(j, s)
      PROVE  ServiceInv'
  BY <1>2 DEF Configure
<1>3. ASSUME NEW r \in Requests, NEW j \in SessionJobs, ExecuteCheck(r, j)
      PROVE  ServiceInv'
  BY <1>3 DEF ExecuteCheck, Executable
<1>4. ASSUME NEW r \in Requests, NEW j \in DirectJobs, NEW s \in DirectTargets,
             Evaluate(r, j, s)
      PROVE  ServiceInv'
  BY <1>4, JobsAssumption DEF Evaluate
<1>5. ASSUME NEW j \in Jobs, Cancel(j)
      PROVE  ServiceInv'
  BY <1>5 DEF Cancel
<1>6. QED
  BY ClientCases, <1>1, <1>2, <1>3, <1>4, <1>5

LEMMA ServiceHandler ==
    ASSUME TypeOK, LinkInv, ServiceInv, NEW r \in Requests, HandlerStep(r)
    PROVE  ServiceInv'
BY DEF ServiceInv, HandlerStep, RegisterToken, EnqueueRequest, EvaluateAborts,
       ledger, handlers, requests, worker, process, history, job

LEMMA ServiceSystem ==
    ASSUME TypeOK, LinkInv, ServiceInv, Housekeeping \/ Shutdown \/ ProcessEnds \/ Restart
    PROVE  ServiceInv'
<1> USE DEF TypeOK, LinkInv, WorkerInv, ServiceInv, OverStages,
            ledger, handlers, requests, worker, process, history, job
<1>1. CASE Housekeeping \/ Shutdown
  BY <1>1 DEF Housekeeping, WatchdogCancel, UploadSweep, Shutdown
<1>2. CASE ProcessEnds
  BY <1>2 DEF ProcessEnds, StageLost, Stages
<1>3. CASE Restart
  BY <1>3 DEF Restart, Orphaned, Jobs
<1>4. QED
  BY <1>1, <1>2, <1>3

LEMMA ServiceWorker ==
    ASSUME TypeOK, LinkInv, ServiceInv, WorkerStep
    PROVE  ServiceInv'
<1> USE DEF TypeOK, LinkInv, WorkerInv, RequestInv, ServiceInv,
            ledger, handlers, requests, worker, process, history, Goto, job
<1>1. CASE Dequeue \/ StartRunThrows
  BY <1>1 DEF Dequeue, StartRunThrows
<1>2. CASE StartRun
  BY <1>2 DEF StartRun, Jobs
<1>3. CASE OpenWorkbook \/ OpenThrows
  BY <1>3 DEF OpenWorkbook, OpenThrows
<1>4. CASE RunPhase
  BY <1>4 DEF RunPhase, SaveOutput, PhaseDone, PhaseThrows, PhaseCatchThrows, AfterPhase
<1>5. CASE WriteCompleted \/ WriteCanceled \/ WriteFailed
  <2>1. cur \in Requests /\ jobOf[cur] \in Jobs
    BY <1>5 DEF WriteCompleted, WriteCanceled, WriteFailed
  <2>2. \A j \in uploading : j # jobOf[cur]
    BY <2>1
  <2>3. \E o \in Statuses \ {"absent"} : status' = [status EXCEPT ![jobOf[cur]] = o]
    BY <1>5 DEF WriteCompleted, WriteCanceled, WriteFailed, SetStatus, Statuses
  <2>4. /\ \A j \in uploading' : status'[j] = "absent"
        /\ \A r \in Requests : jobOf'[r] \in SessionJobs => status'[jobOf'[r]] # "absent"
    BY <1>5, <2>1, <2>2, <2>3 DEF WriteCompleted, WriteCanceled, WriteFailed, Jobs
  <2>5. /\ up' # "down"
        /\ pc' = "announceDone" => status'[jobOf'[cur']] = "Completed"
        /\ pc' = "announceFail" => status'[jobOf'[cur']] = "Failed"
    BY <1>5, <2>1 DEF WriteCompleted, WriteCanceled, WriteFailed, SetStatus
  <2>6. QED
    BY <2>4, <2>5
<1>6. CASE StatusWriteThrows
  BY <1>6 DEF StatusWriteThrows
<1>7. CASE Announce \/ AnnounceThrows
  BY <1>7 DEF Announce, AnnounceThrows
<1>8. CASE ReleaseToken \/ DeleteUpload
  BY <1>8 DEF ReleaseToken, DeleteUpload
<1>9. QED
  BY <1>1, <1>2, <1>3, <1>4, <1>5, <1>6, <1>7, <1>8 DEF WorkerStep, EndRun

\* What the promise rests on besides the safety invariant.
LEMMA ServiceInvariant == Spec => []ServiceInv
<1>1. Init => ServiceInv
  BY JobsAssumption DEF Init, ServiceInv, Jobs
<1>2. TypeOK /\ SafetyInv /\ ServiceInv /\ [Next]_vars => ServiceInv'
  <2> SUFFICES ASSUME TypeOK, SafetyInv, ServiceInv, [Next]_vars PROVE ServiceInv'
    OBVIOUS
  <2>1. LinkInv
    BY SafetyParts
  <2>2. CASE UNCHANGED vars
    BY <2>2 DEF vars, ServiceInv, job
  <2>3. QED
    BY <2>1, <2>2, ServiceClient, ServiceHandler, ServiceSystem, ServiceWorker DEF Next
<1>3. QED
  BY <1>1, <1>2, SafetyInvariant, PTL DEF Spec

\* What the promise does not see.
LEMMA Unseen ==
    ASSUME UNCHANGED <<status, parts, jobOf, queue, cur, announced>>,
           up' # "down" <=> up # "down", RunState' = RunState, Over' = Over
    PROVE  UNCHANGED Service!service
BY DEF Service!service, Outcomes, Orphaned

LEMMA ClientServes ==
    ASSUME TypeOK, LinkInv, ServiceInv, Client
    PROVE  [Service!Next]_(Service!service)
<1> USE DEF TypeOK, LinkInv, RequestInv,
            ledger, handlers, requests, worker, process, history
<1>0. \A r \in Requests : stage[r] = "unused" <=> jobOf[r] = NoJob
  BY JobsAssumption
<1>1. ASSUME NEW j \in SessionJobs, UploadRecord(j)
      PROVE  [Service!Next]_(Service!service)
  <2>1. Outcomes' = [Outcomes EXCEPT ![j] = "open"] /\ Outcomes[j] = "none"
    BY <1>1 DEF UploadRecord, ServiceInv, Outcomes, Orphaned, Jobs
  <2>2. RunState' = RunState /\ Over' = Over
    BY <1>1 DEF UploadRecord, RunState, Recording, Over
  <2>3. Service!Open(j)
    BY <1>1, <2>1, <2>2 DEF UploadRecord, Service!Open
  <2>4. QED
    BY <2>3 DEF Service!Next, Jobs
<1>2. ASSUME NEW j \in SessionJobs,
             Upload(j) \/ UploadRecordFails(j) \/ FinishCheck(j) \/ FinishDelete(j)
      PROVE  UNCHANGED Service!service
  <2>1. RunState' = RunState /\ Over' = Over
    BY <1>2 DEF Upload, UploadRecordFails, FinishCheck, FinishDelete, RunState, Recording, Over
  <2>2. QED
    BY <1>2, <2>1, Unseen DEF Upload, UploadRecordFails, FinishCheck, FinishDelete
<1>3. ASSUME NEW j \in SessionJobs, NEW s \in Sheets, Configure(j, s)
      PROVE  UNCHANGED Service!service
  BY <1>3, Unseen DEF Configure, RunState, Recording, Over
<1>4. ASSUME NEW r \in Requests, NEW j \in Jobs, jobOf[r] = NoJob, up = "up",
             jobOf' = [jobOf EXCEPT ![r] = j], OverStages \cap {stage[r], stage'[r]} = {},
             \A q \in Requests \ {r} : stage'[q] = stage[q],
             UNCHANGED <<up, status, parts, queue, pc, cur, announced>>
      PROVE  [Service!Next]_(Service!service)
  <2>1. Outcomes' = Outcomes /\ RunState' = RunState
    BY <1>4 DEF Outcomes, Orphaned, RunState, Recording
  <2>2. Over' = Over
    BY <1>4 DEF Over
  <2>3. Service!Submit(r, j)
    BY <1>4, <2>1, <2>2 DEF Service!Submit, Service!records
  <2>4. QED
    BY <2>3 DEF Service!Next
<1>5. ASSUME NEW r \in Requests, NEW j \in SessionJobs, ExecuteCheck(r, j)
      PROVE  [Service!Next]_(Service!service)
  BY <1>0, <1>4, <1>5 DEF ExecuteCheck, OverStages, Jobs
<1>6. ASSUME NEW r \in Requests, NEW j \in DirectJobs, NEW s \in DirectTargets,
             Evaluate(r, j, s)
      PROVE  [Service!Next]_(Service!service)
  BY <1>0, <1>4, <1>6 DEF Evaluate, OverStages, Jobs
<1>7. ASSUME NEW j \in Jobs, Cancel(j)
      PROVE  UNCHANGED Service!service
  BY <1>7, Unseen DEF Cancel, RunState, Recording, Over
<1>8. QED
  BY ClientCases, <1>1, <1>2, <1>3, <1>5, <1>6, <1>7

LEMMA HandlerServes ==
    ASSUME TypeOK, LinkInv, NEW r \in Requests, HandlerStep(r)
    PROVE  [Service!Next]_(Service!service)
<1> USE DEF TypeOK, LinkInv, WorkerInv, RequestInv,
            ledger, handlers, requests, worker, process, history
<1>1. Outcomes' = Outcomes /\ RunState' = RunState
  BY DEF HandlerStep, RegisterToken, EnqueueRequest, EvaluateAborts,
         Outcomes, Orphaned, RunState, Recording
<1>2. ASSUME stage[r] = "writing", up # "down"
      PROVE  Service!Outside(r)
  <2>1. jobOf[r] # NoJob /\ r \notin Over /\ r # cur
    BY <1>2, JobsAssumption, RequestsAssumption DEF Over, OverStages
  <2>2. \A i \in 1..Len(queue) : queue[i] # r
    BY <1>2 DEF QueueInv
  <2>3. QED
    BY <1>2, <2>1, <2>2 DEF Service!Outside
<1>3. CASE RegisterToken(r)
  <2>1. Over' = Over
    BY <1>3 DEF RegisterToken, Over, OverStages
  <2>2. QED
    BY <1>1, <1>3, <2>1, Unseen DEF RegisterToken
<1>4. CASE EnqueueRequest(r)
  <2>1. Over' = Over
    BY <1>4 DEF EnqueueRequest, Over, OverStages
  <2>2. Service!Accept(r)
    BY <1>1, <1>2, <1>4, <2>1 DEF EnqueueRequest, Service!Accept, Service!records
  <2>3. QED
    BY <2>2 DEF Service!Next
<1>5. CASE EvaluateAborts(r)
  <2>1. Over' = Over \cup {r}
    BY <1>5 DEF EvaluateAborts, Over, OverStages
  <2>2. Service!Withdraw(r)
    BY <1>1, <1>2, <1>5, <2>1 DEF EvaluateAborts, Service!Withdraw, Service!records
  <2>3. QED
    BY <2>2 DEF Service!Next
<1>6. QED
  BY <1>3, <1>4, <1>5 DEF HandlerStep

LEMMA SystemServes ==
    ASSUME TypeOK, LinkInv, ServiceInv, Housekeeping \/ Shutdown \/ ProcessEnds \/ Restart
    PROVE  [Service!Next]_(Service!service)
<1> USE DEF TypeOK, LinkInv, WorkerInv, RequestInv, ServiceInv,
            ledger, handlers, requests, worker, process, history
<1>1. CASE Housekeeping
  <2>1. RunState' = RunState /\ Over' = Over
    BY <1>1 DEF Housekeeping, WatchdogCancel, UploadSweep, RunState, Recording, Over
  <2>2. QED
    BY <1>1, <2>1, Unseen DEF Housekeeping, WatchdogCancel, UploadSweep
<1>2. CASE Shutdown
  <2>1. Over' = Over /\ Outcomes' = Outcomes
    BY <1>2 DEF Shutdown, Over, Outcomes, Orphaned
  <2>2. CASE Recording
    <3>1. RunState = "open" /\ RunState' = "closed"
      BY <1>2, <2>2 DEF Shutdown, RunState, Recording
    <3>2. Service!GiveUp
      BY <1>2, <2>1, <3>1 DEF Shutdown, Service!GiveUp, Service!records
    <3>3. QED
      BY <3>2 DEF Service!Next
  <2>3. CASE ~ Recording
    <3>1. RunState' = RunState
      BY <1>2, <2>3 DEF Shutdown, RunState, Recording
    <3>2. QED
      BY <1>2, <2>1, <3>1, Unseen DEF Shutdown
  <2>4. QED
    BY <2>2, <2>3
<1>3. CASE ProcessEnds
  <2>1. Over' = {r \in Requests : jobOf[r] # NoJob}
    BY <1>3, JobsAssumption DEF ProcessEnds, StageLost, Over, OverStages, Stages
  <2>2. Outcomes' = Outcomes /\ RunState' = "none"
    BY <1>3 DEF ProcessEnds, Outcomes, Orphaned, RunState
  <2>3. Service!Lose
    BY <1>3, <2>1, <2>2 DEF ProcessEnds, Service!Lose, Service!records
  <2>4. QED
    BY <2>3 DEF Service!Next
<1>4. CASE Restart
  <2>1. RunState' = RunState /\ Over' = Over
    BY <1>4 DEF Restart, RunState, Over
  <2>2. \A j \in Jobs : Outcomes[j] = "open" <=> Orphaned(j)
    BY DEF Outcomes, Orphaned, Statuses
  <2>3. Outcomes' = [j \in Jobs |-> IF Outcomes[j] = "open" THEN "Failed" ELSE Outcomes[j]]
    BY <1>4, <2>2 DEF Restart, Outcomes, Orphaned, Statuses
  <2>4. parts' = [j \in Jobs |-> IF Outcomes[j] = "open" THEN parts[j] \cup {OrphanPartition}
                                ELSE parts[j]]
    BY <1>4, <2>2 DEF Restart
  <2>5. Service!Recover
    BY <1>4, <2>1, <2>3, <2>4 DEF Restart, Service!Recover
  <2>6. QED
    BY <2>5 DEF Service!Next
<1>5. QED
  BY <1>1, <1>2, <1>3, <1>4

LEMMA WorkerServes ==
    ASSUME TypeOK, SafetyInv, ServiceInv, WorkerStep
    PROVE  [Service!Next]_(Service!service)
<1> USE DEF TypeOK, ServiceInv, ledger, handlers, requests, worker, process, history,
            Goto, job
<1>0. /\ pc # "idle" => cur \in Requests /\ jobOf[cur] \in Jobs /\ stage[cur] = "running"
      /\ pc = "idle" => cur = NoRequest
      /\ up = "down" => pc = "idle"
  BY DEF SafetyInv, WorkerInv, RequestInv
\* A step between two others of a run.
<1>1. ASSUME pc # "idle", UNCHANGED <<status, parts, up, jobOf, queue, stage, cur, announced>>,
             RunState' = RunState
      PROVE  UNCHANGED Service!service
  <2>1. Over' = Over
    BY <1>1 DEF Over
  <2>2. QED
    BY <1>1, <2>1, Unseen
<1>2. CASE Dequeue
  <2>1. Head(queue) \in Requests /\ stage[Head(queue)] = "queued"
    BY <1>2 DEF Dequeue, SafetyInv, QueueInv
  <2>2. Over' = Over /\ Outcomes' = Outcomes
    BY <1>2, <2>1 DEF Dequeue, Over, OverStages, Outcomes, Orphaned
  <2>3. Service!Serve
    BY <1>0, <1>2, <2>2 DEF Dequeue, Service!Serve, Service!records, RunState
  <2>4. QED
    BY <2>3 DEF Service!Next
<1>3. CASE StartRun
  <2>1. Outcomes' = [Outcomes EXCEPT ![job] = "open"]
    BY <1>0, <1>3 DEF StartRun, Outcomes, Orphaned
  <2>2. Over' = Over /\ RunState = "taken" /\ RunState' = "open"
    BY <1>3 DEF StartRun, Over, RunState, Recording
  <2>3. Service!Begin
    BY <1>3, <2>1, <2>2 DEF StartRun, Service!Begin
  <2>4. QED
    BY <2>3 DEF Service!Next
<1>4. ASSUME StartRunThrows \/ DeleteUpload
      PROVE  [Service!Next]_(Service!service)
  <2>1. Over' = Over \cup {cur} /\ Outcomes' = Outcomes
    BY <1>0, <1>4 DEF StartRunThrows, DeleteUpload, Over, OverStages, Outcomes, Orphaned
  <2>2. RunState \in {"taken", "closed"} /\ RunState' = "none"
    BY <1>4 DEF StartRunThrows, DeleteUpload, RunState, Recording
  <2>3. Service!End
    BY <1>4, <2>1, <2>2 DEF StartRunThrows, DeleteUpload, Service!End, Service!records
  <2>4. QED
    BY <2>3 DEF Service!Next
<1>5. CASE OpenWorkbook \/ OpenThrows \/ PhaseDone \/ PhaseCatchThrows
  <2>1. RunState' = RunState
    BY <1>5 DEF OpenWorkbook, OpenThrows, PhaseDone, PhaseCatchThrows, AfterPhase, RunState,
                Recording
  <2>2. QED
    BY <1>1, <1>5, <2>1 DEF OpenWorkbook, OpenThrows, PhaseDone, PhaseCatchThrows
<1>6. CASE SaveOutput \/ PhaseThrows
  <2>1. RunState = "open" /\ RunState' = "open"
    BY <1>6 DEF SaveOutput, PhaseThrows, AfterPhase, Interrupted, RunState, Recording
  <2>2. Over' = Over /\ Outcomes' = Outcomes
    BY <1>6 DEF SaveOutput, PhaseThrows, Over, Outcomes, Orphaned
  <2>3. \E x : parts' = [parts EXCEPT ![job] = @ \cup {x}]
    BY <1>6 DEF SaveOutput, PhaseThrows, AddPartition
  <2>4. parts[job] \subseteq parts'[job] /\ parts' = [parts EXCEPT ![job] = parts'[job]]
    BY <1>0, <1>6, <2>3 DEF SaveOutput, PhaseThrows
  <2>5. Service!Save
    BY <1>6, <2>1, <2>2, <2>4 DEF SaveOutput, PhaseThrows, Service!Save
  <2>6. QED
    BY <2>5 DEF Service!Next
<1>7. CASE WriteCompleted \/ WriteCanceled \/ WriteFailed
  <2>1. RunState = "open" /\ RunState' = "closed"
    BY <1>7 DEF WriteCompleted, WriteCanceled, WriteFailed, RunState, Recording
  <2>2. PICK o \in {"Completed", "Failed", "Canceled"} : status' = [status EXCEPT ![job] = o]
    BY <1>7 DEF WriteCompleted, WriteCanceled, WriteFailed, SetStatus
  <2>3. Outcomes' = [Outcomes EXCEPT ![job] = o] /\ Over' = Over
    BY <1>0, <1>7, <2>2
    DEF WriteCompleted, WriteCanceled, WriteFailed, Outcomes, Orphaned, Over
  <2>4. Service!Settle(o)
    BY <1>7, <2>1, <2>3 DEF WriteCompleted, WriteCanceled, WriteFailed, Service!Settle
  <2>5. QED
    BY <2>4 DEF Service!Next
<1>8. CASE StatusWriteThrows
  <2>1. Over' = Over /\ Outcomes' = Outcomes
    BY <1>8 DEF StatusWriteThrows, Over, Outcomes, Orphaned
  <2>2. CASE RunState' = RunState
    BY <1>1, <1>8, <2>2 DEF StatusWriteThrows
  <2>3. CASE RunState' # RunState
    <3>1. RunState = "open" /\ RunState' = "closed"
      BY <1>8, <2>3 DEF StatusWriteThrows, RunState, Recording
    <3>2. Service!GiveUp
      BY <1>8, <2>1, <3>1 DEF StatusWriteThrows, Service!GiveUp, Service!records
    <3>3. QED
      BY <3>2 DEF Service!Next
  <2>4. QED
    BY <2>2, <2>3
<1>9. CASE Announce
  <2>1. RunState = "closed" /\ RunState' = "closed"
    BY <1>9 DEF Announce, RunState, Recording
  <2>2. Over' = Over /\ Outcomes' = Outcomes
    BY <1>9 DEF Announce, Over, Outcomes, Orphaned
  <2>3. /\ pc = "announceDone" => Outcomes[job] = "Completed"
        /\ pc = "announceFail" => Outcomes[job] = "Failed"
    BY <1>0, <1>9 DEF Announce, Outcomes, Orphaned
  <2>4. Service!Tell
    BY <1>9, <2>1, <2>2, <2>3 DEF Announce, Service!Tell
  <2>5. QED
    BY <2>4 DEF Service!Next
<1>10. CASE AnnounceThrows \/ ReleaseToken
  <2>1. RunState' = RunState
    BY <1>10 DEF AnnounceThrows, ReleaseToken, RunState, Recording
  <2>2. QED
    BY <1>1, <1>10, <2>1 DEF AnnounceThrows, ReleaseToken
<1>11. QED
  BY <1>2, <1>3, <1>4, <1>5, <1>6, <1>7, <1>8, <1>9, <1>10 DEF WorkerStep, RunPhase, EndRun

\* The lifecycle implements the service: requests are served one at a time in the
\* order of their 202, the ledger says of a job what the run in hand recorded, and
\* a restart leaves nothing open, for any number of jobs, requests and restarts and
\* any faults.
THEOREM ServiceIsKept == Spec => KeepsService
<1>1. Init => Service!Init
  <2> SUFFICES ASSUME Init PROVE Service!Init
    OBVIOUS
  <2>1. Outcomes = [j \in Jobs |-> "none"] /\ Over = {} /\ RunState = "none"
    BY DEF Init, Outcomes, Over, OverStages, RunState
  <2>2. QED
    BY <2>1 DEF Init, Service!Init
<1>2. TypeOK /\ SafetyInv /\ ServiceInv /\ [Next]_vars => [Service!Next]_(Service!service)
  <2> SUFFICES ASSUME TypeOK, SafetyInv, ServiceInv, [Next]_vars
               PROVE  [Service!Next]_(Service!service)
    OBVIOUS
  <2>1. LinkInv
    BY SafetyParts
  <2>2. CASE UNCHANGED vars
    BY <2>2, Unseen DEF vars, RunState, Recording, Over
  <2>3. QED
    BY <2>1, <2>2, ClientServes, HandlerServes, SystemServes, WorkerServes DEF Next
<1>3. QED
  BY <1>1, <1>2, SafetyInvariant, ServiceInvariant, PTL DEF Spec, KeepsService, Service!Spec

=============================================================================
