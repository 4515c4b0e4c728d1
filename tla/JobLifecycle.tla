---------------------------- MODULE JobLifecycle ----------------------------
(***************************************************************************)
(* The life of a translation job in ActuarialTranslationEngine.API: the    *)
(* session and evaluate endpoints, the bounded job queue, the table of     *)
(* cancellation sources (Program.ActiveJobTokens), the background worker,  *)
(* the SQLite ledger, the uploads directory, the sweepers, and the process *)
(* going down and coming back.                                             *)
(*                                                                         *)
(* A handler is cut where it awaits something another party can change.    *)
(* What a partition contains, and how it is certified, is the business of  *)
(* the Orchestrator module.                                                *)
(***************************************************************************)
EXTENDS Naturals, Sequences, FiniteSets

CONSTANTS
    SessionJobs,    \* jobs created by /api/session/upload, one per session
    DirectJobs,     \* jobs created by /api/evaluate
    NoJob,          \* no job
    Requests,       \* the execute and evaluate calls that get past validation
    NoRequest,      \* no request
    Sheets,         \* the worksheets of the uploaded workbooks
    FirstSheet,     \* the first of them, the worker's fallback
    DirectTargets,  \* targetSheet form values sent to /api/evaluate
    QueueCapacity,  \* slots of the channel (100 in the code)
    MaxOutputs,     \* bound: outputs one phase of a run yields
    MaxRestarts,    \* bound: times the process goes down
    Faults          \* which environment faults may happen

\* Every transient failure the environment can inject.
AllFaults == {"ledgerBusy", "clientAborts", "badWorkbook", "fileAges", "deleteFails"}

Jobs == SessionJobs \cup DirectJobs
TargetSheets == Sheets \cup DirectTargets \cup {"Pending Selection"}

ASSUME JobsAssumption ==
    /\ SessionJobs \cap DirectJobs = {}
    /\ NoJob \notin Jobs
ASSUME RequestsAssumption == NoRequest \notin Requests
ASSUME SheetsAssumption == FirstSheet \in Sheets
ASSUME BoundsAssumption ==
    /\ QueueCapacity \in Nat \ {0}
    /\ MaxOutputs \in Nat
    /\ MaxRestarts \in Nat
    /\ Faults \subseteq AllFaults

VARIABLES
    (* The SQLite ledger and the uploads directory outlive the process. *)
    status,     \* TranslationJobs.Status; "absent" when there is no row
    sheet,      \* TranslationJobs.TargetSheet
    parts,      \* the TranslationPartitions rows of each job
    file,       \* whether the job's workbook is in uploads/
    (* The state of the process. *)
    up,         \* "up", "stopping" (stoppingToken signalled) or "down"
    restarts,   \* times the process went down
    uploading,  \* session uploads whose file is written and whose row is not
    finishing,  \* finish calls past their status check
    tokens,     \* Program.ActiveJobTokens: job -> the request whose source it holds
    cts,        \* the CancellationTokenSource of each request
    stage,      \* how far each request got
    jobOf,      \* TranslationJobRequest.JobId
    sheetOf,    \* TranslationJobRequest.TargetSheet, captured when it was built
    queue,      \* TranslationJobQueue
    pc,         \* where the worker is
    cur,        \* the request the worker is processing
    left,       \* outputs the current phase still has to yield
    counter,    \* partitionCounter
    announced,  \* the last TranslationCompleted event of each job
    (* Kept for the properties only. *)
    unsettled   \* jobs whose last run could not record how it ended

ledger == <<status, sheet, parts>>
handlers == <<uploading, finishing>>
requests == <<jobOf, sheetOf>>
worker == <<pc, cur, left, counter>>
process == <<up, restarts>>
history == <<announced, unsettled>>
vars == <<status, sheet, parts, file, up, restarts, uploading, finishing, tokens,
          cts, stage, jobOf, sheetOf, queue, pc, cur, left, counter, announced, unsettled>>

Statuses == {"absent", "Pending", "Running", "Completed", "Failed", "Canceled"}
Stages == {"unused", "checked", "writing", "queued", "running",
           "done", "dropped", "aborted", "lost"}
WorkerPoints == {"idle", "start", "open", "sheet", "vba", "complete", "announceDone",
                 "cancel", "fail", "announceFail", "release", "delete"}

\* A row of TranslationPartitions: who wrote it, where it comes from, and its
\* IsCertified, which for an output is the orchestrator's verdict.
PartitionKinds == {"output", "fatal", "orphan"}
Badges == {"verdict", "certified", "uncertified"}
Partition(run, index, kind, source, badge) ==
    [run |-> run, index |-> index, kind |-> kind, source |-> source, badge |-> badge]
Partitions == [run : Requests \cup {NoRequest}, index : Nat, kind : PartitionKinds,
               source : Sheets \cup {"VBA Macros", ""}, badge : Badges]

TypeOK ==
    /\ status \in [Jobs -> Statuses]
    /\ sheet \in [Jobs -> TargetSheets]
    /\ parts \in [Jobs -> SUBSET Partitions]
    /\ file \in [Jobs -> BOOLEAN]
    /\ up \in {"up", "stopping", "down"}
    /\ restarts \in 0..MaxRestarts
    /\ uploading \subseteq SessionJobs
    /\ finishing \subseteq SessionJobs
    /\ tokens \in [Jobs -> Requests \cup {NoRequest}]
    /\ cts \in [Requests -> {"none", "live", "cancelled", "disposed"}]
    /\ stage \in [Requests -> Stages]
    /\ jobOf \in [Requests -> Jobs \cup {NoJob}]
    /\ sheetOf \in [Requests -> TargetSheets]
    /\ queue \in Seq(Requests)
    /\ pc \in WorkerPoints
    /\ cur \in Requests \cup {NoRequest}
    /\ left \in 0..MaxOutputs
    /\ counter \in Nat
    /\ announced \in [Jobs -> {"none", "success", "failure"}]
    /\ unsettled \subseteq Jobs

Init ==
    /\ status = [j \in Jobs |-> "absent"]
    /\ sheet = [j \in Jobs |-> "Pending Selection"]
    /\ parts = [j \in Jobs |-> {}]
    /\ file = [j \in Jobs |-> FALSE]
    /\ up = "up"
    /\ restarts = 0
    /\ uploading = {}
    /\ finishing = {}
    /\ tokens = [j \in Jobs |-> NoRequest]
    /\ cts = [r \in Requests |-> "none"]
    /\ stage = [r \in Requests |-> "unused"]
    /\ jobOf = [r \in Requests |-> NoJob]
    /\ sheetOf = [r \in Requests |-> "Pending Selection"]
    /\ queue = <<>>
    /\ pc = "idle"
    /\ cur = NoRequest
    /\ left = 0
    /\ counter = 0
    /\ announced = [j \in Jobs |-> "none"]
    /\ unsettled = {}

-----------------------------------------------------------------------------
(* The HTTP endpoints. A call that is refused changes nothing and is left out. *)

\* POST /api/session/upload: the workbook is on disk and has passed the
\* signature check; the row is not written yet.
Upload(j) ==
    /\ up = "up"
    /\ j \in SessionJobs \ uploading
    /\ status[j] = "absent" /\ ~file[j]
    /\ file' = [file EXCEPT ![j] = TRUE]
    /\ uploading' = uploading \cup {j}
    /\ UNCHANGED <<ledger, process, finishing, tokens, cts, stage, requests, queue,
                   worker, history>>

\* The CreateJobAsync that ends the upload.
UploadRecord(j) ==
    /\ up # "down"
    /\ j \in uploading
    /\ status' = [status EXCEPT ![j] = "Pending"]
    /\ uploading' = uploading \ {j}
    /\ UNCHANGED <<sheet, parts, file, process, finishing, tokens, cts, stage, requests,
                   queue, worker, history>>

\* CreateJobAsync throws: the catch clause takes the file away again.
UploadRecordFails(j) ==
    /\ up # "down"
    /\ "ledgerBusy" \in Faults
    /\ j \in uploading
    /\ file' = [file EXCEPT ![j] = FALSE]
    /\ uploading' = uploading \ {j}
    /\ UNCHANGED <<ledger, process, finishing, tokens, cts, stage, requests, queue,
                   worker, history>>

\* POST /api/session/configure: no look at the job's status.
Configure(j, s) ==
    /\ up = "up"
    /\ file[j]
    /\ status[j] # "absent"
    /\ sheet' = [sheet EXCEPT ![j] = s]
    /\ UNCHANGED <<status, parts, file, process, handlers, tokens, cts, stage, requests,
                   queue, worker, history>>

\* What execute, then RegisterToken, act on: the row as it was read.
Executable(j) == file[j] /\ status[j] \notin {"absent", "Running", "Completed"}

\* POST /api/session/{id}/execute/{job} up to the row it read; the request it
\* builds carries the sheet of that row.
ExecuteCheck(r, j) ==
    /\ up = "up"
    /\ stage[r] = "unused"
    /\ Executable(j)
    /\ stage' = [stage EXCEPT ![r] = "checked"]
    /\ jobOf' = [jobOf EXCEPT ![r] = j]
    /\ sheetOf' = [sheetOf EXCEPT ![r] = sheet[j]]
    /\ UNCHANGED <<ledger, file, process, handlers, tokens, cts, queue, worker, history>>

\* ActiveJobTokens.TryAdd keeps the source that is already there, if any.
TryAdd(j, r) == [tokens EXCEPT ![j] = IF @ = NoRequest THEN r ELSE @]

\* The rest of execute, up to the write into the channel.
RegisterToken(r) ==
    /\ up # "down"
    /\ stage[r] = "checked"
    /\ cts' = [cts EXCEPT ![r] = "live"]
    /\ tokens' = TryAdd(jobOf[r], r)
    /\ stage' = [stage EXCEPT ![r] = "writing"]
    /\ UNCHANGED <<ledger, file, process, handlers, requests, queue, worker, history>>

\* POST /api/evaluate up to the write into the channel: a new job, a new file,
\* no row.
Evaluate(r, j, s) ==
    /\ up = "up"
    /\ stage[r] = "unused"
    /\ \A q \in Requests : jobOf[q] # j
    /\ file' = [file EXCEPT ![j] = TRUE]
    /\ cts' = [cts EXCEPT ![r] = "live"]
    /\ tokens' = TryAdd(j, r)
    /\ stage' = [stage EXCEPT ![r] = "writing"]
    /\ jobOf' = [jobOf EXCEPT ![r] = j]
    /\ sheetOf' = [sheetOf EXCEPT ![r] = s]
    /\ UNCHANGED <<ledger, process, handlers, queue, worker, history>>

\* The channel takes the request as soon as it has room; the caller gets 202.
EnqueueRequest(r) ==
    /\ up # "down"
    /\ stage[r] = "writing"
    /\ Len(queue) < QueueCapacity
    /\ queue' = Append(queue, r)
    /\ stage' = [stage EXCEPT ![r] = "queued"]
    /\ UNCHANGED <<ledger, file, process, handlers, tokens, cts, requests, worker, history>>

\* An evaluate client goes away while the channel is full: file and token stay.
EvaluateAborts(r) ==
    /\ up # "down"
    /\ "clientAborts" \in Faults
    /\ stage[r] = "writing" /\ jobOf[r] \in DirectJobs
    /\ stage' = [stage EXCEPT ![r] = "aborted"]
    /\ UNCHANGED <<ledger, file, process, handlers, tokens, cts, requests, queue, worker,
                   history>>

\* DELETE /api/evaluate/{id}: TryRemove, Cancel, Dispose.
Cancel(j) ==
    /\ up = "up"
    /\ tokens[j] # NoRequest
    /\ cts' = [cts EXCEPT ![tokens[j]] = "cancelled"]
    /\ tokens' = [tokens EXCEPT ![j] = NoRequest]
    /\ UNCHANGED <<ledger, file, process, handlers, stage, requests, queue, worker, history>>

\* The watchdog found the job abandoned: Cancel, and the entry stays.
WatchdogCancel(j) ==
    /\ up = "up"
    /\ tokens[j] # NoRequest
    /\ cts' = [cts EXCEPT ![tokens[j]] = "cancelled"]
    /\ UNCHANGED <<ledger, file, process, handlers, tokens, stage, requests, queue, worker,
                   history>>

\* POST /api/session/{id}/finish reads the session's rows ...
FinishCheck(j) ==
    /\ up = "up"
    /\ j \in SessionJobs \ finishing
    /\ status[j] \notin {"absent", "Pending", "Running"}
    /\ finishing' = finishing \cup {j}
    /\ UNCHANGED <<ledger, file, process, uploading, tokens, cts, stage, requests, queue,
                   worker, history>>

ReadingFile(j) == pc \in {"sheet", "vba"} /\ cur # NoRequest /\ jobOf[cur] = j

\* ... and deletes the file. The delete throws where an open file is locked.
FinishDelete(j) ==
    /\ up # "down"
    /\ j \in finishing
    /\ finishing' = finishing \ {j}
    /\ \/ file' = [file EXCEPT ![j] = FALSE]
       \/ ReadingFile(j) /\ UNCHANGED file
    /\ UNCHANGED <<ledger, process, uploading, tokens, cts, stage, requests, queue, worker,
                   history>>

\* UploadSweeperService: a file past its 24 hours goes, whatever its job is doing.
UploadSweep(j) ==
    /\ up = "up"
    /\ "fileAges" \in Faults
    /\ file[j]
    /\ file' = [file EXCEPT ![j] = FALSE]
    /\ UNCHANGED <<ledger, process, handlers, tokens, cts, stage, requests, queue, worker,
                   history>>

-----------------------------------------------------------------------------
(* BackgroundTranslationWorker: one loop, one request at a time. *)

job == jobOf[cur]

\* jobToken: stoppingToken linked with the request's own source. A source that
\* was disposed before it was cancelled never signals.
Interrupted == up = "stopping" \/ cts[cur] = "cancelled"

\* SqlitePersistenceManager gives up after five busy attempts, and every ledger
\* call made with stoppingToken throws once the host is stopping.
LedgerCallMayThrow == up = "stopping" \/ "ledgerBusy" \in Faults

SheetTranslated == IF sheetOf[cur] \in Sheets THEN sheetOf[cur] ELSE FirstSheet
Source == IF pc = "vba" THEN "VBA Macros" ELSE SheetTranslated

Goto(p) ==
    /\ pc' = p
    /\ UNCHANGED <<cur, left, counter>>

\* DequeueJobAsync.
Dequeue ==
    /\ up = "up"
    /\ pc = "idle" /\ queue # <<>>
    /\ cur' = Head(queue)
    /\ queue' = Tail(queue)
    /\ stage' = [stage EXCEPT ![Head(queue)] = "running"]
    /\ pc' = "start"
    /\ UNCHANGED <<left, counter>>
    /\ UNCHANGED <<ledger, file, process, handlers, tokens, cts, requests, history>>

\* The row is created, as Pending, or an existing one becomes Running.
StartRun ==
    /\ up = "up"
    /\ pc = "start"
    /\ IF status[job] = "absent"
       THEN /\ status' = [status EXCEPT ![job] = "Pending"]
            /\ sheet' = [sheet EXCEPT ![job] = sheetOf[cur]]
       ELSE /\ status' = [status EXCEPT ![job] = "Running"]
            /\ UNCHANGED sheet
    /\ pc' = "open"
    /\ counter' = 0
    /\ unsettled' = unsettled \ {job}
    /\ UNCHANGED <<cur, left>>
    /\ UNCHANGED <<parts, file, process, handlers, tokens, cts, stage, requests, queue,
                   announced>>

\* A throw before the try block: ExecuteAsync logs it, and no finally runs.
StartRunThrows ==
    /\ up # "down"
    /\ pc = "start"
    /\ LedgerCallMayThrow
    /\ stage' = [stage EXCEPT ![cur] = "dropped"]
    /\ pc' = "idle"
    /\ cur' = NoRequest
    /\ UNCHANGED <<left, counter>>
    /\ UNCHANGED <<ledger, file, process, handlers, tokens, cts, requests, queue, history>>

\* The workbook opens and the first phase has so many outputs to yield.
OpenWorkbook ==
    /\ up # "down"
    /\ pc = "open"
    /\ file[job]
    /\ pc' = "sheet"
    /\ left' \in 0..MaxOutputs
    /\ UNCHANGED <<cur, counter>>
    /\ UNCHANGED <<ledger, file, process, handlers, tokens, cts, stage, requests, queue,
                   history>>

\* Faulty variant of OpenThrows: a missing file taken for a cancellation.
OpenThrowsAsCancel ==
    /\ up # "down"
    /\ pc = "open"
    /\ ~file[job]
    /\ Goto("cancel")
    /\ UNCHANGED <<ledger, file, process, handlers, tokens, cts, stage, requests, queue,
                   history>>

\* FileNotFoundException, or a workbook that cannot be read. An upload through
\* a session was read once already.
OpenThrows ==
    /\ up # "down"
    /\ pc = "open"
    /\ \/ ~file[job]
       \/ "badWorkbook" \in Faults /\ job \in DirectJobs
    /\ Goto("fail")
    /\ UNCHANGED <<ledger, file, process, handlers, tokens, cts, stage, requests, queue,
                   history>>

AddPartition(index, kind, badge) ==
    parts' = [parts EXCEPT ![job] = @ \cup {Partition(cur, index, kind, Source, badge)}]

\* Faulty variant of SaveOutput: an output more than the phase has.
SaveOutputPastEnd ==
    /\ up # "down"
    /\ pc \in {"sheet", "vba"}
    /\ ~Interrupted
    /\ AddPartition(counter + 1, "output", "verdict")
    /\ counter' = counter + 1
    /\ left' = left - 1
    /\ UNCHANGED <<pc, cur>>
    /\ UNCHANGED <<status, sheet, file, process, handlers, tokens, cts, stage, requests,
                   queue, history>>

\* One output of the orchestrator is yielded and saved.
SaveOutput ==
    /\ up # "down"
    /\ pc \in {"sheet", "vba"}
    /\ left > 0 /\ ~Interrupted
    /\ AddPartition(counter + 1, "output", "verdict")
    /\ counter' = counter + 1
    /\ left' = left - 1
    /\ UNCHANGED <<pc, cur>>
    /\ UNCHANGED <<status, sheet, file, process, handlers, tokens, cts, stage, requests,
                   queue, history>>

\* Where the code goes once the phase is over.
AfterPhase ==
    IF pc = "sheet" /\ sheetOf[cur] = "VBA"
    THEN pc' = "vba" /\ left' \in 0..MaxOutputs
    ELSE pc' = "complete" /\ left' = 0

PhaseDone ==
    /\ up # "down"
    /\ pc \in {"sheet", "vba"}
    /\ left = 0
    /\ AfterPhase
    /\ UNCHANGED <<cur, counter>>
    /\ UNCHANGED <<ledger, file, process, handlers, tokens, cts, stage, requests, queue,
                   history>>

\* Anything thrown inside a phase becomes one uncertified partition. When it
\* was SavePartitionAsync that threw, its number is used up.
PhaseThrows ==
    /\ up # "down"
    /\ pc \in {"sheet", "vba"}
    /\ left > 0 /\ ~Interrupted
    /\ \E skipped \in IF "ledgerBusy" \in Faults THEN {0, 1} ELSE {0} :
           /\ AddPartition(counter + skipped + 1, "fatal", "uncertified")
           /\ counter' = counter + skipped + 1
    /\ AfterPhase
    /\ UNCHANGED cur
    /\ UNCHANGED <<status, sheet, file, process, handlers, tokens, cts, stage, requests,
                   queue, history>>

\* Faulty variant of PhaseCatchThrows: a cancellation only makes the phase try again.
PhaseRetriesForEver ==
    /\ up # "down"
    /\ pc \in {"sheet", "vba"}
    /\ left > 0
    /\ "ledgerBusy" \in Faults /\ ~Interrupted
    /\ Goto("fail")
    /\ UNCHANGED <<ledger, file, process, handlers, tokens, cts, stage, requests, queue,
                   history>>

\* The save in a phase's catch clause throws as well: the outer catch clauses
\* tell a cancellation from a failure.
PhaseCatchThrows ==
    /\ up # "down"
    /\ pc \in {"sheet", "vba"}
    /\ left > 0
    /\ \/ Interrupted /\ Goto("cancel")
       \/ "ledgerBusy" \in Faults /\ ~Interrupted /\ Goto("fail")
    /\ UNCHANGED <<ledger, file, process, handlers, tokens, cts, stage, requests, queue,
                   history>>

SetStatus(s) == status' = [status EXCEPT ![job] = s]

\* The three status writes that end a run.
WriteCompleted ==
    /\ up = "up"
    /\ pc = "complete"
    /\ SetStatus("Completed")
    /\ Goto("announceDone")
    /\ UNCHANGED <<sheet, parts, file, process, handlers, tokens, cts, stage, requests,
                   queue, history>>

WriteCanceled ==
    /\ up = "up"
    /\ pc = "cancel"
    /\ SetStatus("Canceled")
    /\ Goto("release")
    /\ UNCHANGED <<sheet, parts, file, process, handlers, tokens, cts, stage, requests,
                   queue, history>>

\* Faulty variant of WriteFailed: the failure is announced and not recorded.
WriteFailedForgotten ==
    /\ up = "up"
    /\ pc = "fail"
    /\ Goto("announceFail")
    /\ UNCHANGED <<ledger, file, process, handlers, tokens, cts, stage, requests, queue,
                   history>>

WriteFailed ==
    /\ up = "up"
    /\ pc = "fail"
    /\ SetStatus("Failed")
    /\ Goto("announceFail")
    /\ UNCHANGED <<sheet, parts, file, process, handlers, tokens, cts, stage, requests,
                   queue, history>>

\* They throw: inside the try block a catch clause takes over, inside a catch
\* clause only the finally is left.
StatusWriteThrows ==
    /\ up # "down"
    /\ pc \in {"complete", "cancel", "fail"}
    /\ LedgerCallMayThrow
    /\ IF pc = "complete"
       THEN /\ Goto(IF up = "stopping" THEN "cancel" ELSE "fail")
            /\ UNCHANGED unsettled
       ELSE /\ Goto("release")
            /\ unsettled' = unsettled \cup {job}
    /\ UNCHANGED <<ledger, file, process, handlers, tokens, cts, stage, requests, queue,
                   announced>>

\* The TranslationCompleted event to the job's SignalR group.
Announce ==
    /\ up # "down"
    /\ pc \in {"announceDone", "announceFail"}
    /\ announced' = [announced EXCEPT
           ![job] = IF pc = "announceDone" THEN "success" ELSE "failure"]
    /\ Goto("release")
    /\ UNCHANGED <<ledger, file, process, handlers, tokens, cts, stage, requests, queue,
                   unsettled>>

\* SendAsync throws when the host is stopping.
AnnounceThrows ==
    /\ up = "stopping"
    /\ pc \in {"announceDone", "announceFail"}
    /\ Goto(IF pc = "announceDone" THEN "cancel" ELSE "release")
    /\ UNCHANGED <<ledger, file, process, handlers, tokens, cts, stage, requests, queue,
                   history>>

Dispose(c) == IF c = "live" THEN "disposed" ELSE c

\* Faulty variant of ReleaseToken: disposes of the source and keeps the entry.
ReleaseTokenKeepsEntry ==
    /\ up # "down"
    /\ pc = "release"
    /\ cts' = [r \in Requests |-> IF r = tokens[job] THEN Dispose(cts[r]) ELSE cts[r]]
    /\ Goto("delete")
    /\ UNCHANGED <<ledger, file, process, handlers, tokens, stage, requests, queue, history>>

\* The finally block: whatever source the job's entry holds is removed and
\* disposed ...
ReleaseToken ==
    /\ up # "down"
    /\ pc = "release"
    /\ tokens' = [tokens EXCEPT ![job] = NoRequest]
    /\ cts' = [r \in Requests |-> IF r = tokens[job] THEN Dispose(cts[r]) ELSE cts[r]]
    /\ Goto("delete")
    /\ UNCHANGED <<ledger, file, process, handlers, stage, requests, queue, history>>

\* Faulty variant of DeleteUpload: the finally block leaves the workbook alone.
DeleteUploadForgotten ==
    /\ up # "down"
    /\ pc = "delete"
    /\ stage' = [stage EXCEPT ![cur] = "done"]
    /\ pc' = "idle"
    /\ cur' = NoRequest
    /\ UNCHANGED <<left, counter>>
    /\ UNCHANGED <<ledger, file, process, handlers, tokens, cts, requests, queue, history>>

\* ... then the workbook is deleted; an error of File.Delete is only logged.
DeleteUpload ==
    /\ up # "down"
    /\ pc = "delete"
    /\ \/ file' = [file EXCEPT ![job] = FALSE]
       \/ "deleteFails" \in Faults /\ UNCHANGED file
    /\ stage' = [stage EXCEPT ![cur] = "done"]
    /\ pc' = "idle"
    /\ cur' = NoRequest
    /\ UNCHANGED <<left, counter>>
    /\ UNCHANGED <<ledger, process, handlers, tokens, cts, requests, queue, history>>

-----------------------------------------------------------------------------
(* The process. *)

\* The host is asked to stop: stoppingToken is signalled, no new call is served.
Shutdown ==
    /\ up = "up"
    /\ restarts < MaxRestarts
    /\ up' = "stopping"
    /\ UNCHANGED <<ledger, file, restarts, handlers, tokens, cts, stage, requests, queue,
                   worker, history>>

\* What becomes of a request when the process ends.
StageLost(s) ==
    IF s \in {"checked", "writing"} THEN "aborted"
    ELSE IF s \in {"queued", "running"} THEN "lost"
    ELSE s

\* The process exits or crashes: everything in memory is gone.
ProcessEnds ==
    /\ up # "down"
    /\ restarts < MaxRestarts
    /\ up' = "down"
    /\ restarts' = restarts + 1
    /\ uploading' = {} /\ finishing' = {}
    /\ tokens' = [j \in Jobs |-> NoRequest]
    /\ stage' = [r \in Requests |-> StageLost(stage[r])]
    /\ queue' = <<>>
    /\ cts' = [r \in Requests |-> IF cts[r] = "live" THEN "none" ELSE cts[r]]
    /\ pc' = "idle" /\ cur' = NoRequest /\ left' = 0 /\ counter' = 0
    /\ UNCHANGED <<ledger, file, requests, history>>

Orphaned(j) == status[j] \in {"Pending", "Running"}

\* RunDatabaseSweeper leaves IsCertified at the entity's default.
OrphanPartition == Partition(NoRequest, 1, "orphan", "", "certified")

\* Faulty variant of Restart: the database sweeper overlooks what was not begun.
RestartSparesPending ==
    /\ up = "down"
    /\ up' = "up"
    /\ status' = [j \in Jobs |-> IF status[j] = "Running" THEN "Failed" ELSE status[j]]
    /\ parts' = [j \in Jobs |-> IF status[j] = "Running" THEN parts[j] \cup {OrphanPartition}
                                                          ELSE parts[j]]
    /\ unsettled' = {}
    /\ UNCHANGED <<sheet, file, restarts, handlers, tokens, cts, stage, requests, queue,
                   worker, announced>>

\* Program.cs before app.Run(): the database sweeper, then the disk sweeper.
Restart ==
    /\ up = "down"
    /\ up' = "up"
    /\ status' = [j \in Jobs |-> IF Orphaned(j) THEN "Failed" ELSE status[j]]
    /\ parts' = [j \in Jobs |-> IF Orphaned(j) THEN parts[j] \cup {OrphanPartition}
                                               ELSE parts[j]]
    /\ \E aged \in IF "fileAges" \in Faults THEN SUBSET Jobs ELSE {{}} :
           file' = [j \in Jobs |-> file[j] /\ j \notin aged]
    /\ unsettled' = {}
    /\ UNCHANGED <<sheet, restarts, handlers, tokens, cts, stage, requests, queue, worker,
                   announced>>

-----------------------------------------------------------------------------

RunPhase == SaveOutput \/ PhaseDone \/ PhaseThrows \/ PhaseCatchThrows
EndRun ==
    \/ WriteCompleted \/ WriteCanceled \/ WriteFailed \/ StatusWriteThrows
    \/ Announce \/ AnnounceThrows \/ ReleaseToken \/ DeleteUpload
WorkerStep ==
    \/ Dequeue \/ StartRun \/ StartRunThrows \/ OpenWorkbook \/ OpenThrows
    \/ RunPhase \/ EndRun

HandlerStep(r) == RegisterToken(r) \/ EnqueueRequest(r) \/ EvaluateAborts(r)

Client ==
    \/ \E j \in SessionJobs : Upload(j) \/ UploadRecord(j) \/ UploadRecordFails(j)
    \/ \E j \in SessionJobs, s \in Sheets : Configure(j, s)
    \/ \E r \in Requests, j \in SessionJobs : ExecuteCheck(r, j)
    \/ \E r \in Requests, j \in DirectJobs, s \in DirectTargets : Evaluate(r, j, s)
    \/ \E j \in Jobs : Cancel(j)
    \/ \E j \in SessionJobs : FinishCheck(j) \/ FinishDelete(j)

Housekeeping == \E j \in Jobs : WatchdogCancel(j) \/ UploadSweep(j)

Next ==
    \/ Client
    \/ \E r \in Requests : HandlerStep(r)
    \/ WorkerStep
    \/ Housekeeping
    \/ Shutdown \/ ProcessEnds \/ Restart

Spec == Init /\ [][Next]_vars
-----------------------------------------------------------------------------
(* Safety. *)

\* The runs of a job that left partitions in the ledger.
Writers(j) == {p.run : p \in parts[j]} \ {NoRequest}

\* However often a job is executed (a double click, a retried POST, a page that
\* was refreshed), at most one run writes partitions, unless the others were cut
\* off by the end of the process. Nothing in execute ensures it: it rests on the
\* single worker and on the finally block that takes the workbook away.
OneRunWritesTheLedger ==
    "deleteFails" \notin Faults =>
        \A j \in Jobs : \A q, r \in Writers(j) :
            q # r => "lost" \in {stage[q], stage[r]}

\* What a client can cancel is never a run that is over: every source in
\* ActiveJobTokens belongs to a request of that job that has not reached its
\* finally block, and is not disposed, so DELETE cannot throw on it. It could
\* break when several requests of one job share the one entry.
RegisteredTokensUsable ==
    \A j \in Jobs, r \in Requests : tokens[j] = r =>
        /\ jobOf[r] = j
        /\ stage[r] # "done"
        /\ cts[r] # "disposed"

\* A job shown as Running is the one the worker is translating, or one whose
\* run could not write its outcome to the ledger: no failure, cancellation,
\* duplicate request or restart leaves a job Running with nobody at work on it.
RunningMeansWorkedOn ==
    up = "up" => \A j \in Jobs \ unsettled : status[j] = "Running" =>
        /\ pc \in {"open", "sheet", "vba", "complete", "cancel", "fail"}
        /\ jobOf[cur] = j

\* A job ends as Canceled only if one of its own requests was cancelled: neither
\* a shutdown, nor a timeout inside the translation, nor the cancellation of
\* another job ends that way.
CanceledHasCause ==
    \A j \in Jobs : status[j] = "Canceled" =>
        \E r \in Requests : jobOf[r] = j /\ cts[r] = "cancelled"

\* The upload of a Completed job is gone as soon as the run that completed it is
\* over, unless the process ended between the row and the delete: no other path
\* leaves a workbook that nobody will translate.
CompletedLeavesNoUpload ==
    "deleteFails" \notin Faults /\ up = "up" =>
        \A j \in Jobs : status[j] = "Completed" /\ file[j] =>
            \/ pc \in {"announceDone", "release", "delete"} /\ jobOf[cur] = j
            \/ \E r \in Requests : jobOf[r] = j /\ stage[r] = "lost"
-----------------------------------------------------------------------------
(* What the service promises (TranslationService), and how it is kept. *)

\* A run that can still record something. Once the host is stopping none can.
Recording ==
    up = "up" /\ pc \in {"open", "sheet", "vba", "complete", "cancel", "fail"}

RunState ==
    IF pc = "idle" THEN "none" ELSE IF pc = "start" THEN "taken"
    ELSE IF Recording THEN "open" ELSE "closed"

OverStages == {"done", "dropped", "aborted", "lost"}
Over == {r \in Requests : stage[r] \in OverStages}

Outcomes ==
    [j \in Jobs |-> IF status[j] = "absent" THEN "none"
                    ELSE IF Orphaned(j) THEN "open" ELSE status[j]]

Service == INSTANCE TranslationService WITH
    Note <- OrphanPartition,
    alive <- up # "down",
    target <- jobOf,
    waiting <- queue,
    serving <- cur,
    run <- RunState,
    over <- Over,
    outcome <- Outcomes,
    rows <- parts,
    told <- announced

\* The endpoints, the worker and the sweepers keep what the service promises:
\* requests are served one at a time in the order of their 202, the ledger says of
\* a job what the run in hand recorded, and a restart leaves nothing open, however
\* handlers, cancellations, faults and the end of the process fall between.
KeepsService == Service!Spec

\* A row is written once, a request for a session's job finds one, nothing is left
\* to do in a process that is down, and an event is announced after the outcome it
\* tells was written.
ServiceInv ==
    /\ \A j \in uploading : status[j] = "absent"
    /\ \A r \in Requests : jobOf[r] \in SessionJobs => status[jobOf[r]] # "absent"
    /\ up = "down" =>
          queue = <<>> /\ uploading = {}
          /\ \A r \in Requests : stage[r] \in OverStages \cup {"unused"}
    /\ pc = "announceDone" => status[job] = "Completed"
    /\ pc = "announceFail" => status[job] = "Failed"

-----------------------------------------------------------------------------
(* The inductive invariant behind the safety properties (JobLifecycleProofs). *)

\* The worker and its request agree; nothing else is running.
WorkerInv ==
    /\ up = "down" => pc = "idle"
    /\ pc = "idle" => cur = NoRequest
    /\ pc # "idle" => cur \in Requests /\ stage[cur] = "running"
    /\ \A r \in Requests : stage[r] = "running" => r = cur

\* A request has a job from its first step and a source from its second.
RequestInv ==
    \A r \in Requests :
        /\ IF stage[r] = "unused" THEN jobOf[r] = NoJob ELSE jobOf[r] \in Jobs
        /\ stage[r] \in {"unused", "checked"} => cts[r] = "none"

\* The channel holds queued requests, each once.
QueueInv ==
    \A i \in 1..Len(queue) :
        /\ stage[queue[i]] = "queued"
        /\ \A k \in 1..Len(queue) : queue[k] = queue[i] => k = i

\* A registered source belongs to a request of the job that still needs it.
TokenInv ==
    \A j \in Jobs, r \in Requests : tokens[j] = r =>
        /\ jobOf[r] = j
        /\ stage[r] \in {"writing", "queued", "running", "dropped", "aborted"}
        /\ stage[r] = "running" => pc # "delete"
        /\ cts[r] \in {"live", "cancelled"}

\* A direct job has a row only after a request for it; a run has a row from
\* StartRun on.
RowInv ==
    /\ \A j \in DirectJobs : status[j] # "absent" => \E r \in Requests : jobOf[r] = j
    /\ pc \notin {"idle", "start"} => status[job] # "absent"

\* A run that is over has taken the workbook with it, so no later one opens it.
DoneInv ==
    "deleteFails" \notin Faults => \A r \in Requests : stage[r] = "done" =>
        /\ status[jobOf[r]] # "absent" /\ ~file[jobOf[r]]
        /\ pc \in {"sheet", "vba"} => jobOf[r] # job

\* Partitions come from runs of the job that have got past StartRun.
WriterInv ==
    \A j \in Jobs : \A r \in Writers(j) :
        /\ r \in Requests /\ jobOf[r] = j
        /\ stage[r] \in {"running", "done", "lost"}
        /\ pc = "start" => r # cur

\* The worker writes Canceled only for a request that was cancelled.
CancelInv == pc = "cancel" /\ up = "up" => cts[cur] = "cancelled"

\* CompletedLeavesNoUpload, whatever the process is doing.
UploadInv ==
    "deleteFails" \notin Faults => \A j \in Jobs : status[j] = "Completed" /\ file[j] =>
        \/ /\ \/ pc \in {"announceDone", "release", "delete"}
              \/ pc = "cancel" /\ up = "stopping"
           /\ jobOf[cur] = j
        \/ \E r \in Requests : jobOf[r] = j /\ stage[r] = "lost"

SafetyInv ==
    /\ WorkerInv /\ RequestInv /\ QueueInv /\ TokenInv /\ RowInv
    /\ DoneInv /\ WriterInv /\ CancelInv /\ UploadInv
    /\ OneRunWritesTheLedger /\ RunningMeansWorkedOn /\ CanceledHasCause

-----------------------------------------------------------------------------
(* What the repository's documents say and the code does not do. *)

\* "/execute was made strictly idempotent, instantly rejecting duplicate
\* submissions": executing a job again never takes its Completed away.
CompletedIsFinal ==
    [][\A j \in Jobs : status[j] = "Completed" => status'[j] = "Completed"]_vars

\* finish is kept "from forcefully deleting active source files": it never
\* deletes the workbook of a job that is queued or being translated.
FinishSparesActiveRuns ==
    [][\A j \in SessionJobs : file[j] /\ ~file'[j] /\ j \in finishing \ finishing' =>
           \A r \in Requests : jobOf[r] = j => stage[r] \notin {"queued", "running"}]_vars

\* "The selected target sheet is locked in the database": a partition of a job
\* whose sheet was selected comes from the sheet the ledger names.
LedgerNamesTranslatedSheet ==
    \A j \in SessionJobs : sheet[j] # "Pending Selection" =>
        \A p \in parts[j] : p.kind = "output" => p.source = sheet[j]

-----------------------------------------------------------------------------
(* Liveness. *)

\* The thread pool runs every continuation that is ready, a started shutdown
\* ends the process, and the process is started again. Nothing is asked of the
\* clients, the watchdog, the sweepers or the faults.
HostStops == up = "stopping" /\ ProcessEnds
FairSpec ==
    /\ Spec
    /\ WF_vars(WorkerStep)
    /\ \A r \in Requests : WF_vars(RegisterToken(r)) /\ WF_vars(EnqueueRequest(r))
    /\ WF_vars(HostStops)
    /\ WF_vars(Restart)

\* A request that was answered 202, or is held back by a full channel, does not wait
\* for ever: its run comes to an end, its caller gives up, or the process ends.
AcceptedRunsEnd ==
    \A r \in Requests :
        stage[r] \in {"writing", "queued"} ~>
            stage[r] \in {"done", "dropped", "aborted", "lost"}

\* No job is shown as Running for good, except while its run failed to record
\* its outcome and the process has not been restarted since.
RunningSettles ==
    \A j \in Jobs : status[j] = "Running" ~> (status[j] # "Running" \/ j \in unsettled)

=============================================================================
