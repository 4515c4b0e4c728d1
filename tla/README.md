# ActuarialTranslationEngine: TLA+ specifications and proofs

ActuarialTranslationEngine translates an actuarial workbook into C#: a user
uploads an `.xlsx`, selects a worksheet, and executes a job; a background worker
extracts the sheet, compresses it into partitions of rows with equal formulas,
asks a language model for a C# class for each partition, compiles it, runs it
against every clean row and certifies it only when it reproduces the
spreadsheet. Results stream into an SQLite ledger that a Blazor dashboard shows.

These specifications model the parts in which the product's promises are kept or
broken. Four of them are the service itself: the **life of a job** (endpoints, queue, worker, ledger,
uploads, cancellation, restart), the **certification of a partition** (parallel
tasks, retries, verification, the output stream), what that **certificate is worth row by row**
(compression into partitions, the dictionary a row is run with) and the **page
that watches a job** (its calls, its connection to the hub, the watchdog that
cancels a job nobody watches). The rest are the **skill tools** the repository
carries under `.agents/skills` and `_bmad`: Python programs that run evals of
skills in parallel, install modules into a project, scaffold and validate them,
merge customization layers, fill templates, give birth to memory agents and
review workflow skills. All paths below are relative to the repository; line
numbers of every definition are in `PROJECT.json` under `map`.

## 1. Inventory

| Component | State it keeps | Operations | Where |
|---|---|---|---|
| Session endpoints | none of their own | `upload`, `configure`, `execute`, `jobs`, `finish` | `API/Endpoints/SessionEndpoints.cs` |
| Evaluate endpoints | none | `POST /api/evaluate`, `DELETE /api/evaluate/{id}` | `API/Endpoints/EvaluateEndpoints.cs` |
| History endpoints | none | two reads | `API/Endpoints/HistoryEndpoints.cs` |
| Job queue | a channel of 100 requests | enqueue (waits while full), dequeue | `API/Services/TranslationJobQueue.cs` |
| Cancellation table | `Program.ActiveJobTokens`: job to source | TryAdd, TryRemove, TryGetValue | `API/Program.cs` |
| Worker | the request in hand | one loop, `ProcessJobAsync` | `API/Services/BackgroundTranslationWorker.cs` |
| Ledger | `TranslationJobs`, `TranslationPartitions` | create, update status, update sheet, save partition, reads | `Persistence/SqlitePersistenceManager.cs` |
| Uploads | `uploads/*.xlsx` | written by uploads, deleted by four parties | endpoints, worker, sweepers |
| Sweepers | none | at start: orphaned rows, old files; hourly: old files | `API/Services/StartupSweeper.cs`, `UploadSweeperService.cs` |
| Hub and watchdog | connection to job, job to time of disconnect | join, leave, disconnect; every 30 s cancel what is abandoned for 5 min | `API/Hubs`, `API/Services/LlmWatchdogService.cs` |
| Orchestrator | per call: tasks, a semaphore of 3, the stream | `ProcessBlockAsync`, `ProcessVbaModulesAsync` | `Engine/Orchestration` |
| Roslyn engine | none | scan, compile, load, execute within 5 s, compare | `Engine/Roslyn` |
| LLM bridge | none | post a prompt, parse the reply | `Engine/LlmBridge` |
| Row verification | the dictionary of inputs, carried from row to row | reset lookbacks, inject neighbours and own cells, run, compare, put the ground truth in | `ReconciliationOrchestrator.cs` |
| Compression | the partitions it builds | abstract the formulas of a row, extend or open a partition | `Engine/VectorCompressionEngine.cs` |
| Extraction | none | a pure function of a workbook | `Engine/*ExtractionEngine.cs` |
| Dashboard | the page's session, statuses, progress | upload, configure, execute, cancel, finish; SignalR events | `Web/` |
| CLI | none | the same pipeline without a server | `CLI/` |
| Artifact evals | a run folder: per eval a workspace, fixtures, transcript, artifacts, metrics; a summary and a report | discover, stage, run in a container or a directory, time out, measure, collect | `bmad-eval-runner/scripts/run_evals.py` |
| Trigger evals | per run the parser's open tool block and the process | run claude, read its stream, decide on the first tool, score by rate | `.../run_triggers.py` |
| Terminal session | prompt sent, time of the result, the captured lines | one `select` loop | `.../pty_runner.py` |
| Module setup | `_bmad/config.yaml`, `config.user.yaml`, `module-help.csv`, the old installer's directories | merge config, merge help, clean up | `bmad-bmb-setup/scripts` |
| Module scaffold | the folders of a module's skills | scaffold a setup skill or a standalone module, validate | `bmad-module-builder/scripts` |
| Customization | layers of TOML under `_bmad/` and in skills | list, resolve, merge | `_bmad/scripts`, `bmad-customize/scripts` |
| Template processing | the text so far | resolve conditionals, replace variables, write | `bmad-agent-builder/scripts/process-template.py` |
| Agent birth | a skill and the sanctum of its agent | review the build, init the sanctum, file by file | `prepass-sanctum-architecture.py`, `init-sanctum-template.py` |
| Workflow prepasses | none | read a skill, judge its numbering and dependencies | `bmad-workflow-builder/scripts/prepass-*.py` |

**How they interact.** Handlers write the ledger and the uploads directory and
put a request, with a token of its own, into the channel; the worker is the only
reader. The cancellation table connects the two: execute and evaluate add,
DELETE and the worker's `finally` remove, the watchdog only looks up. The worker
pulls outputs from the orchestrator's asynchronous stream and saves each before
it asks for the next. The orchestrator's tasks share a semaphore and call the
bridge and the Roslyn engine. Progress and completion go to the job's SignalR
group. Nothing in memory survives the process; the ledger and the files do.
The skill tools share no state with the service and none with each other: each is
a process of its own over files that others may edit meanwhile, and some start
further processes (claude, docker) that outlive them.

**What is hard.** Check-then-act across awaits (execute, finish); several
requests for one job sharing one table entry; the window between a terminal
status and the `finally` block; status writes that fail; a full channel; the end
of the process between any two writes; cancellation and timeout arriving as the
same exception; a fault in one task of several; outputs that end out of order; a
certified stamp set before the verification it stands for; a dictionary that
carries values from one row to the next. In the tools: a timeout that kills a
client but not its container; ids that name directories and need not be unique; a
directory linked instead of copied; a parser whose state is lost between two
chunks; a deadline that is only looked at between two blocking reads; files
emptied by `open("w")` before they are written; processes that die between two
writes and are run again; layers edited while they are read. Each is listed at
its line in `PROJECT.json` under `hazards`.

**What makes each component correct.**

* Endpoints, queue, worker: a job is translated by one run; an accepted request
  ends; the ledger says Running only while somebody works; Canceled means
  somebody cancelled; what can be cancelled is alive; uploads do not pile up.
* Restart: nothing is left Running or Pending. That the partition the sweeper writes
  should not pass for a result is not among the properties (section 6).
* Orchestrator: certified means reproduced on every clean row; each output is
  delivered once; slots are neither lost nor invented; the stream ends.
* Roslyn engine and bridge: every outcome ends an attempt in a defined way; a
  reply in the agreed format gives the class it holds.
* VBA modules: a call that returns has compiled every module of the workbook.
* Compression: partitions cover the rows in order and hold one signature each.
* Row verification: code that is certified computes every clean row from what the
  sheet says there, and from nothing an earlier row left behind.
* Hub and watchdog: a watched job is never cancelled, an abandoned one is.
* Dashboard: what the page shows agrees with the ledger in the end.
* Eval runners: an eval sees its own files only; what is measured is what is on
  disk; every eval is in the summary; a verdict rests on what claude did; a run
  ends.
* Module setup: no module loses its entries to another; nothing the old installer
  knew is dropped, unless a setup dies with a file open after the legacy file has
  gone; `user_name` and `communication_language` stay out of the committed file; no
  skill is deleted that is not installed.
* Scaffold: what passes validation can be installed.
* Customization and templates: the merge is the layers; a block is kept exactly
  when its conditions hold.
* Birth: a reviewed skill is born whole, and nothing an agent learned is
  overwritten.
* Workflow prepasses: gaps are reported exactly where numbers are missing.

## 2. Plan

1. **TranslationService** (what the API promises of requests and ledger),
   **JobLifecycle** (implements it) with its MC module, runs and proofs, the
   refinement among them. *Done.*
2. **CertifiedTranslation** (what a translation promises), **Orchestrator**
   (implements it), run and proofs, with the refinement proved. *Done.*
3. **Dashboard**: pages, hub and watchdog composed with JobLifecycle; every call
   of a page is one of its actions, so it is a refinement of it. Run and proofs.
   *Done.* Left for it: two sessions in one tab, and liveness of what a page
   shows.
4. **RowVerification**, with the compression in front of it: run, refuted
   comment, and the certificate's soundness proved. *Done.*
5. The skill tools: **EvalRun**, **TriggerRun**, **PtySession**,
   **ModuleSetup**, **ModuleScaffold**, **Customization**,
   **TemplateProcessing**, **AgentBirth**, **WorkflowPrepass**, and
   **MCStandalone**, which runs them one at a time. *Done*; theorems about
   all of them but PtySession, of which only the end is checked, and about their
   composition.
6. **VbaTranslation**: the sequential loop over modules and its swallowed leaks,
   with **LlmBridge**, the parsing of replies: checked in `MCStandalone`, with a
   theorem. *Done.*
7. **PersistenceRetry**: five attempts with back-off implement "succeeds or
   throws", the step JobLifecycle assumes of a ledger call. *Left.*
8. **HeaderExtraction** as far as it carries control. *Left.*

## 3. Modules

| Module | Models |
|---|---|
| `TranslationService` | abstract: requests served in order and one at a time, outcomes recorded by the run in hand, nothing open after a restart |
| `JobLifecycle` | endpoints, queue, cancellation table, worker, ledger, uploads, sweepers, process |
| `MCJobLifecycle` | JobLifecycle with the symmetry of requests |
| `JobLifecycleProofs` | its theorems |
| `CertifiedTranslation` | abstract: verdicts settled once, certified only when faithful, delivered once |
| `Orchestrator` | `ProcessBlockAsync`, its tasks, attempts, verification and stream |
| `MCOrchestrator` | a worksheet of three partitions and five kinds of answers |
| `OrchestratorProofs` | its theorems, the refinement among them |
| `Dashboard` | `Home.razor`, `TranslationProgressHub`, `LlmWatchdogService`, over `JobLifecycle` |
| `MCDashboard` | Dashboard with the symmetry of pages, connections and requests |
| `DashboardProofs` | its theorems |
| `RowVerification` | `VectorCompressionEngine`, `VerifyPartitionRowsAsync`, the comparison of a row |
| `MCRowVerification` | sheets of at most four rows and four kinds of code |
| `LlmBridge` | `ParseLlmOutput`, the code in a reply |
| `VbaTranslation` | `ProcessVbaModulesAsync` over it |
| `MCVbaTranslation` | VbaTranslation with replies of at most five tokens |
| `RowVerificationProofs` | the theorems of RowVerification and those of VbaTranslation |
| `EvalRun`, `EvalRunProofs` | `run_evals.py` with `utils.py`, `docker_setup.py`, `generate_report.py`; the theorems of TriggerRun too |
| `TriggerRun` | `run_triggers.py` |
| `PtySession` | `pty_runner.py` |
| `ModuleSetup`, `ModuleSetupProofs` | `merge-config.py`, `merge-help-csv.py`, `cleanup-legacy.py`; the theorems of ModuleScaffold and Customization too |
| `ModuleScaffold` | both scaffolds and `validate-module.py` |
| `Customization` | `list_customizable_skills.py`, `resolve_customization.py`, `resolve_config.py` |
| `TemplateProcessing` | `process-template.py` |
| `AgentBirth`, `AgentBirthProofs` | the builder's result, `prepass-sanctum-architecture.py`, `init-sanctum-template.py`; the theorems of WorkflowPrepass and TemplateProcessing too |
| `WorkflowPrepass` | `prepass-workflow-integrity.py`, `prepass-execution-deps.py` |
| `MCStandalone` | these components, `RowVerification` and `VbaTranslation`, one of them in each behaviour |
| `StandaloneProofs` | that each behaviour of it is one of every component, and what follows |

### JobLifecycle

`status`, `sheet`, `parts` are the ledger's columns, `file` the uploads
directory; they survive `ProcessEnds`. `tokens` is `ActiveJobTokens`, `cts` the
sources, `stage`, `jobOf`, `sheetOf` the requests with the fields they capture,
`queue` the channel, `pc`, `cur`, `left`, `counter` the worker. `uploading` and
`finishing` are handlers between two awaits. `announced` is the last completion
event of a job and `unsettled` a history variable: jobs whose last run could not
write its outcome.

A handler is one action for each stretch between awaits at which another party
can intervene:

| Code | Actions |
|---|---|
| `POST upload` | `Upload`, then `UploadRecord` or `UploadRecordFails` (catch clause) |
| `POST configure` | `Configure` |
| `POST execute` | `ExecuteCheck` (file, row, request), `RegisterToken`, `EnqueueRequest` |
| `POST evaluate` | `Evaluate`, `EnqueueRequest` or `EvaluateAborts` |
| `DELETE evaluate` | `Cancel` |
| `POST finish` | `FinishCheck`, `FinishDelete` |
| worker loop | `Dequeue`, `StartRun` or `StartRunThrows` |
| `ProcessJobAsync`, try | `OpenWorkbook` or `OpenThrows`; per phase (sheet, then VBA) `SaveOutput`, `PhaseDone`, `PhaseThrows`, `PhaseCatchThrows`; `WriteCompleted`, `Announce` |
| its catch clauses | `WriteCanceled`, `WriteFailed`, `Announce`; `StatusWriteThrows`, `AnnounceThrows` |
| its finally | `ReleaseToken`, `DeleteUpload` |
| watchdog, sweepers | `WatchdogCancel`, `UploadSweep`, `Restart` |
| host | `Shutdown` (stoppingToken), `ProcessEnds` (exit or crash), `Restart` |

`TranslationService` knows nothing of handlers, files, tokens, catch clauses and
phases. A request is submitted, accepted, served and over; a run is taken, open
while it can still record something, and closed; a job has an outcome and rows.
`Service == INSTANCE TranslationService WITH ...` maps `queue` to the requests
waiting, `cur` to the one served, `pc` with the host's state to the run (once the
host is stopping nothing is recorded any more, so that a shutdown closes an open
run), Pending and Running to one outcome, "open", and the restart with its sweeper
to the one step in which everything open fails. It also says what is *not*
promised: a run opens its job whatever its outcome was, because execute is
check-then-enqueue, and a run may close without an outcome when the ledger stays
busy. `KeepsService` is checked by TLC and proved.

What the environment may do to a run is the constant `Faults`: a ledger that
stays busy, clients that disconnect, unreadable workbooks, files past 24 hours,
a delete that fails. A theorem holds for every subset.

Abstractions: calls that are refused change nothing and are left out; execute
reads the file and the row in one step (nothing in between is decided by the
file); configure is one step; execute is called with a job of the session; a
save is atomic with respect to the cancellation of its token; the watchdog may
cancel at any time; partitions carry who wrote them, their index, their source
and badge, not their text.

### Orchestrator

`task[p]` is where the task of partition `p` is: in front of the semaphore
(`queued`), waiting for the model (`asking`), running rows (`verifying`), or
over (`settled`, `faulted`). `attempt`, `row` and `output` (`lastOutput`) are its
locals, `free` the semaphore's count. `stream`, `pending` and `emitted` are the
enumerator and its list of tasks, `cancelled` the token.

| Code | Actions |
|---|---|
| first `MoveNextAsync` | `Begin` |
| `WhenAny`, `yield return await` | `Yield`, `Rethrow`, `Resume`; the caller's failure is `Abandon` |
| `WaitAsync`, rows, early return | `Acquire`, `WaitCancelled` |
| the bridge | `Answer`, `AskFails`, `AskTimesOut` |
| `CompileAndVerifyAsync` for a row | `RowFits`, `CompileFails`, `Leaks`, `VerifyThrows` |
| catch clauses, loop, code after it | `Retry`, `GiveUp`; the finally is `Leave` |

Answers are classes of behaviour: which compile (`Uncompilable`), which rows
they compute (`Fits`), on which they throw (`Throws`), which may overrun the
five seconds (`Overrunning`). The model may give any answer at any attempt.
`Task.WhenAny` may hand over any settled task, not only the first to settle,
which allows more orders than the code. Progress events are left out.

`CertifiedTranslation` has none of this: a verdict per partition that is settled
at most once, certified only for an answer in `Faithful`, delivered at most
once, and an outcome that is complete only when all are delivered.
`Promise == INSTANCE CertifiedTranslation WITH ...` maps settled tasks to
verdicts, yielded outputs to deliveries and the enumerator to the outcome;
`KeepsPromise` is checked by TLC and proved.

### Dashboard

`Dashboard` EXTENDS `JobLifecycle` and adds three groups of variables. A page is
a Blazor circuit: `life`, `viewing` and `shown` (the job of `_activeSession` and
its status as displayed), `loading` (`_isLoading`), `call`, `jobId`, `sent` (an
`ExecuteJobAsync` in progress), `canceling` (a DELETE in progress), `conn`. The
hub is `link`, `group`, `connectionToJob`, and `tracked` with `age` for
`JobDisconnects`. The watchdog is `abandoned`, the rest of its snapshot.
`joinAge` is a history variable.

| Code | Actions |
|---|---|
| `OnInitializedAsync`, `OnAfterRenderAsync` | `OpenTab`, `Reload` (with `StartConnection`) |
| leaving a page, `DisposeAsync` | `CloseTab` or `Reload`, later `DisposeCircuit` |
| `HandleFileSelected`, `ConfigureSessionAsync` | `UploadFile`, `ConfigureSession` |
| `ExecuteJobAsync` | `ClickTranslate`; `Join` or `JoinFails`; `PostAccepted` or `PostRefused`; `PostAnswered`, or `PostAgain` (retry policy) |
| `CancelJobAsync`, `FinishSessionAsync` | `ClickCancel` and `CancelAnswered`, `ClickFinish` |
| handler of `TranslationCompleted` | `AnnounceToGroup` |
| SignalR connection | `LoseLink`, `Reconnect`, `OnDisconnected` |
| watchdog round | `Scan`, then `Sweep` for each job; `Tick` is the clock |
| everything else of the API | `Background`, `HubEnds` (the process ends) |

The connection to the hub is held by the web server's circuit, not by the
browser: it stays open when a tab is reloaded or closed, and ends when the
circuit is disposed of. Hence a reload leaves two pages, and the disconnect of
the old one may come after the join of the new one. A request that was lost in
the network before it reached the API is a refusal; an answer that was lost
starts the retry policy, without its limit of three. An event reaches every open
connection of its group at once and no other. A disposed page's display is
forgotten. One session has one job, as `upload` creates it.

### RowVerification

`sheet` is what extraction hands over: rows with their cells, each a number or
not and with the references of its formula. `unread` are the rows the loop of
`CompressTopology` has not come to and `partitions` what it has made of the
others; `CompressRow` is one turn of that loop, from the first row on. `task` is
one verification, which begins when nothing is unread: the code, the rows left, `inputs` (`runningState`). `VerifyRow` is
the body of the loop: `SafeDefaults`, `Neighbours`, `OwnCells`, the execution
with its comparison, and the ground truth written back. `RowFails` is every other
end of a row, `Certify` the end of the loop. A generated class is the set of
keys it reads and `Calculation`, the number it makes of them, any operator at
all. Numbers are whole, so that the tolerance is equality.

### LlmBridge and VbaTranslation

A reply is a sequence of tokens: the delimiter, the fences around a block, a class
with its body, and anything else. `ParseLlmOutput` is a function of it, with the
code's order: the delimiter counts only when it is there once, then the first
block, then the first class. Blocks of other languages and empty blocks are left
out. A reply that has neither the delimiter nor a class in the code found gives
`NoCode`, the exception.

| Code | Actions |
|---|---|
| the head of the loop over the modules | `VbaBegins`, `TakeMacro` |
| `ProcessVbaPayloadAsync` | `BridgeAnswers`, `BridgeFails` |
| `CompileAndVerifyAsync` on no inputs: the compiler refuses | `MacroRefused` |
| the class runs, with 0, another number, or too long | `MacroRuns` |
| any other exception | `MacroThrows` |
| the token of the job | `VbaCancel` |

`compiled` is a history variable, the modules whose code was compiled and
executed; `translated` is `results`. The difference between them is real: a module
whose code computes something other than 0, or nothing within five seconds, leaves
the loop before it is added to the results, so that a returned list may be shorter
than the workbook's modules. `ReturnedIsCompiled` is therefore about `compiled`.
Likewise a reply without the delimiter that shows some other block before its
class is refused, because only the first block is looked at: `FormatGivesClass` is
about replies in the agreed format. What the compiler makes of a mirror that
is not just a class is left open, but it does not run.

### The skill tools

| Module | Code | Actions |
|---|---|---|
| `EvalRun` | `docker_setup.py`; `main` | `SetUpImage`; `EvalStart`, `Reap`, `WriteSummary`, `RenderReport` |
| | a worker: staging, the runner, the wait, the collecting | `WorkerStep` and its disjuncts |
| | claude in a directory; a container with its own copying | `BoxStep` and its disjuncts |
| `TriggerRun` | `main`, the score | `TriggerStart`, `Score` |
| | the read loop, `parse_stream_for_trigger`, the timeouts | `RunnerStep` and its disjuncts |
| | claude | `Stream`, `ClaudeExits` |
| `PtySession` | `run_interactive` | `Spawn`, `Loop`; the clock is `Warms`, `TurnsLate`, `GracePasses`; claude `Hangup` |
| `ModuleSetup` | `merge-config.py` | `MergeOpens`, `MergeWrites`, `UserOpens`, `UserWrites`, `MergeUnlinks`, `MergeUnlinksCore` |
| | `merge-help-csv.py`, `cleanup-legacy.py` | `HelpOpens`, `HelpWrites`, `HelpUnlinks`; `CleanVerifies`, `CleanRemoves` |
| | SKILL.md of the setup, and its end anywhere | `BeginSetup`, `SetupDies` |
| `ModuleScaffold` | `scaffold-setup-skill.py` | `ScaffoldBegins`, `ScaffoldRemoves`, `ScaffoldCopies`, `ScaffoldWritesYaml`, `ScaffoldWritesCsv`, `ScaffoldDies` |
| | the standalone scaffold, the validator, the author | `ScaffoldStandalone`; `Validate`; `AuthorAdds`, `AuthorRemoves`, `AuthorDescribes` |
| `Customization` | the list and the two resolvers | `ListSkills`; `ResolveSkill`, `ResolveConfig`, `LoadLayer`, `PrintMerged` |
| | people and installers | `TeamCommits`, `UserEdits`, `InstallerWrites`, `OtherEdited`, `SkillUpdated` |
| `TemplateProcessing` | `main` and its two loops | `ReadTemplate`, `TemplateRefused`, `ResolveConditional`, `ConditionalsResolved`, `ReplacePlaceholder`, `NextVariable`, `VariablesReplaced`, `WriteOutput` |
| `AgentBirth` | the builder, the prepass | `Build`, `Prepass` |
| | the init script | `InitStarts`, `InitMakesFolder`, `InitCopiesReference`, `InitFindsNoReferences`, `InitFillsTemplate`, `InitWritesCapabilities`, `InitDies` |
| | the agent | `AgentLearns` |
| `WorkflowPrepass` | both prepasses, the author | `Integrity`, `ExecutionDeps`; `AuthorWritesStage`, `AuthorDeletesStage`, `AuthorWritesHead` |

A file is reduced to the layer it came from, to its author or to the release that
wrote it, because that is what the properties tell apart. Every
`open(..., "w")` is a step of its own, so that a death between it and the write
leaves the file empty; `torn` has which of `config.yaml` and `module-help.csv` ever
were. What the values of the old installer were lost to is told by the step itself:
`LegacyConsolidated` excepts the death between the open and the write
(`TearsConfig`, `TearsUserConfig`), and no other. In `EvalRun`, `space` is indexed by eval in
containers and by id in directories, as in the code, which is how two items with
one id meet in one directory; a container whose client was killed goes on
(`BoxStep` does not ask for a waiting worker). In `TriggerRun`, `pendingTool` is
lost at the end of each chunk, as the parser's locals are. In `Customization` a
TOML file is a tree of tables, written as a function from the paths of its tables
and fields, so that `DeepMerge` says for every path at once what the recursion of
`deep_merge` comes to there: what is below a field that a higher layer put in the
place of a table is gone (`Cuts`), lists are merged item by item, and of anything
else the override stands. Lists are merged by `code` or by `id` when every item of
both has one, and appended otherwise. claude, docker, the
authors and the agent that calls the scripts are external.

Not every comment was worth a run: `run_evals.py:92` says of a project overlay
that already has the skill "the skill's own copy wins", while the code copies the
skill only if nothing is there, so that the overlay's copy stays. `SKILL.md:13` of
`bmad-bmb-setup` says that variables marked `user_setting` live in
`config.user.yaml` exclusively; `merge-config.py` writes them to the module's
section of `config.yaml` as well. `SKILL.md:35` ranks existing values above legacy
ones; for a core key that was not asked for again the script takes the legacy value
as the answer and writes it over the existing one. And a `user_name` that only an
older `config.yaml` has is stripped from it and goes to `config.user.yaml` only if
it is answered again or a legacy file has it. `EvalRun` and `ModuleSetup` do what the code does.

## 4. Runs

| Run | Question | Result |
|---|---|---|
| `job_lifecycle_safety` | six invariants of the ledger, the table and the uploads | holds |
| `job_lifecycle_liveness` | accepted requests end, blocked callers get in, Running settles; is the service's promise kept? | holds |
| `orchestrator_run` | certification, delivery, slots, refinement, the ends of stream and tasks | holds |
| `dashboard_safety` | is a joined job spared, does the API stay within JobLifecycle? | holds |
| `dashboard_liveness` | does a waiting page hear, is the run of a lost listener cancelled, across reconnects and restarts? | holds |
| `standalone_components` | eighteen invariants, two action properties and the ends of the three runners, of the tools, the row verification and the VBA modules | holds |
| `job_lifecycle_idempotent` | is a Completed job safe from a second execute? | violated |
| `job_lifecycle_finish_race` | does finish spare the workbook of an active run? | violated |
| `job_lifecycle_sheet_lock` | does the ledger name the sheet that was translated? | violated |
| `orchestrator_cancel` | is a cancelled translation never reported as a failed one? | violated |
| `dashboard_reconnect` | is the job of a page that reconnected spared by the watchdog? | violated |
| `row_lookback` | are all inputs at all required offsets reset for every row? | violated |

The six violated properties are sentences of the repository's documents that
the code does not keep; each is quoted under `findings`. In short: execute is
check-then-enqueue, so a duplicate that is early enough is accepted, waits, and
turns the Completed job into a Failed one (its workbook is gone, so it writes no
second set of partitions: that is `OneRunWritesTheLedger`, which holds); finish
and configure look at a status that only the dequeue changes; the catch clause around a row's execution
takes the caller's cancellation for the row's timeout; a page whose
connection is restored gets a new id that joins no group, so the watchdog goes
on counting from the old disconnect; and the safe defaults are set per column, so
that code which reads a column at an offset that only another column's formula
has, outside the sheet, sees what an earlier row left there.
`CertifiedReproduces` says how much of the certificate remains: everything, as
long as the code reads keys that are fresh in every row (`Fresh`).

**Bounds and why they are enough.** Two requests per job are the least for every
duplicate, and three parties (a run, its duplicate, a canceller) meet with them;
one session job and one direct job cover both kinds of rows; a queue of one slot
makes callers wait; one output per phase (`MaxOutputs = 1`) allows a phase with
none, one that fails before its output and one that fails while saving it; one
restart (`MaxRestarts = 1`) puts the end of the process between any two steps
and lets a job be executed again after it. For the orchestrator, three
partitions for two slots make one task wait; the first has two rows, so that an
answer can fit one and not the other, and the third has none; attempts are the
code's three. For the dashboard, two pages and two connections give a reload
whose old connection ends late, and two requests a second execute of the job the
reloaded page still shows as Pending; `Grace = 0` makes one tick the difference
between a recent and an overdue disconnect, which is all the watchdog's
comparison tells apart. Network troubles multiply the states, so they are in the
liveness run, with one page and two connections (a break and a reconnect), lost
answers and one restart; a run of one output-less phase has every end the page
can be told of.

The standalone components share no state, so `MCStandalone` lets one of them run
in a behaviour while the others rest: all their interleavings would multiply the
states and show nothing more. Two evals with one id or with two, two workers, and
a layout with a fixture and an overlay that brings a skill of its own are every
way two workspaces can meet; one step of claude per eval (`EvalSteps = 1`) is
enough to be seen by the other, or to come after the timeout. Two runs of one
query at a threshold of one half make one lost run decide a score. Two modules,
one with two releases, and one death (`MaxCrashes = 1`) give a setup that finds
another's half-written file, an upgrade, a repeat, and the loss that
`LegacyConsolidated` excepts: without either of its two exceptions TLC finds a setup
that finished and a second one that died with the file open; the project at first holds
both older formats and a skill that is not installed. One skill, two codes and
one death give a folder with two setup skills or half of one. Two edits
(`MaxEdits = 2`) change a layer before and after it was read; the four overrides
are a list with a known code and a new one, a list without codes, and a scalar in
the place of the list or of the table above it. Templates of up to four tokens within a block and
two conditions have blocks nested, crossed and repeated. The seven builds are the
good one, one with a heartbeat and what a builder may leave out. Three numbered
files, two with one number, and an unnumbered one give gaps and duplicates. The
sheets have an empty row, absolute and relative references, cells without a
number and a disruptive row.

Two VBA modules are enough for one to be kept and one passed over, in either
order; attempts are the code's three. Replies of at most five tokens hold a block
before the delimiter and one behind it, two delimiters, or a block and a class
outside it; two fences in a row, which hold nothing, are left out.

The theorems remove these bounds for everything they cover. The runs with
deadlock checking off are those in which the system really stops: the requests
are used up, the stream has ended, a script or a call is over.

**Fairness.** `JobLifecycle!FairSpec`: the worker's next step, the rest of an
execute handler and the channel's write are continuations the thread pool runs
when they are ready; a host that was asked to stop ends (its shutdown timeout)
and the service is started again. Nothing is assumed of clients, watchdog,
sweepers or faults. The liveness run has the fault `fileAges` only: with a
ledger that stays busy the outcome may never be written, which is what
`unsettled` records in the safety run.
`KeepsService` needs no fairness; it is in this run because comparing every step
with the promise doubles the time of the larger one, on whose instance, with direct
jobs and every other fault, it was checked as well. `Orchestrator!FairSpec`: a call of the
bridge ends because the `HttpClient` times out, a row because of the five
seconds, and the caller goes on reading, as its `await foreach` does. Retries
are bounded by the attempt counter, not by fairness.
`Dashboard!DashboardFairSpec`: the hub notices a dead connection (its keep-alive
timeout), time passes, the watchdog's loop goes on and a stopping host ends. The
worker gets no fairness at all, so that `AbandonedIsCancelled` speaks of runs
that hang; nor do users, reconnects or restarts.
`EvalFairness` is one weak fairness condition over all workers and the main
thread: some thread of the pool that can go on does, which includes the timeout
of `communicate`. `TriggerFairness` is the same, and a timeout of a client in a
directory that is possible again and again is noticed in the end, because the
loop looks at the clock after each read; between two reads it does not, hence
`TriggerHangs`. `PtyFairness` is the loop and the clock. Nothing is asked of
claude or of a container.

## 5. Proofs

The theorems of the eight proof modules hold for every value of the
constants under the assumptions named in the modules: kinds of jobs are disjoint
and `NoJob`, `NoRequest`, `NoAnswer` are none of them (`JobsAssumption`,
`RequestsAssumption`, `AnswersAssumption`), the first sheet is a sheet
(`SheetsAssumption`), capacities and limits are positive (`BoundsAssumption`,
`LimitsAssumption`), a row an answer throws on is not one it computes (`AnswersAssumption`), and
`NoConnection` is no connection and the grace period a number of ticks
(`DashboardAssumption`). For the other modules: rows are numbered by integers and
code reads keys of the sheet's columns (`RowsAssumption`, nothing is assumed of
`Calculation`); there is at least one attempt and replies are sequences of tokens
(`VbaAssumption`); evals are finitely many, their ids are those of evals
(`EvalAssumption`); queries are finitely many, at least one run and one worker
are asked for and the threshold is a fraction above 0 (`TriggerAssumption`);
the user's keys are core keys and module codes are none of the reserved names
(`SetupAssumption`), a project at first has the shape the old installer left
(`ProjectsAssumption`); a build is a set of files and a script (`BirthAssumption`);
templates and values are sequences of tokens, and the variables given are finitely
many (`TemplateAssumption`); a TOML file that parses is a tree, and the skills
directories are scanned in an order (`CustomizationAssumption`).

| Theorem | Property |
|---|---|
| `TypeCorrect` (both) | `TypeOK` |
| `TokensUsable` | `RegisteredTokensUsable` |
| `OneRunWrites` | `OneRunWritesTheLedger` |
| `RunningIsWorkedOn` | `RunningMeansWorkedOn` |
| `CanceledWasCancelled` | `CanceledHasCause` |
| `CompletedUploadGone` | `CompletedLeavesNoUpload` |
| `ServiceIsKept` | `KeepsService` |
| `PagesAreServed` | `KeepsService`, of a behaviour of `Dashboard` |
| `CertifiedIsReproduced` | `CertifiedMeansReproduced` |
| `SlotsAreConserved` | `SlotsConserved` |
| `OutputsOnce` | `EachOutputOnce` |
| `Implements` | `KeepsPromise` |
| `DashboardTypeCorrect` | `DashboardTypeOK`, which no run checks |
| `DashboardImplements` | `ImplementsJobLifecycle` |
| `JoinedIsSpared` | `RecentJoinIsSafe` |
| `WaitingPagesHear` | `WaitingPageHears` |
| `PartitionsAreTheSheet` | `PartitionsTile` |
| `CertificateIsSound` | `CertifiedReproduces` |
| `NoMacroIsSkipped` | `ReturnedIsCompiled` |
| `FormatIsRead` | `FormatGivesClass` |
| `EvalTypeCorrect`, `TriggerTypeCorrect`, `SetupTypeCorrect`, `ScaffoldTypeCorrect`, `CustomizationTypeCorrect`, `BirthTypeCorrect`, `VbaTypeCorrect` | the modules' types, the conjuncts of `ToolsTypeOK` |
| `EachRunsItself` | the specification of each component, of a behaviour of `MCStandalone` |
| `ToolsTypeCorrect` | `ToolsTypeOK` |
| `EveryEvalIsAccounted` | `SummaryAccountsForAll` |
| `MetricsStayTrue` | `ResultsMatchDisk` |
| `RoomsAreClean` | `CleanRoom` |
| `FirstToolDecides` | `VerdictIsFirstTool` |
| `ScoresHaveEvidence` | `FiredScoreHasEvidence` |
| `SkillsAreKept` | `SkillsSurvive` |
| `UserKeysStayPrivate` | `UserKeysPrivate` |
| `EntriesStayCurrent` | `EntriesAreCurrent` |
| `LegacyIsConsolidated` | `LegacyConsolidated` |
| `PassIsInstallable` | `PassMeansInstallable` |
| `NothingIsUnlearned` | `NothingUnlearned` |
| `ReviewedBornWhole` | `ReviewedIsBornWhole` |
| `NumberingIsJudged` | `NumberingJudged` |
| `BlocksAreKept` | `KeptIffAllHold` |
| `LayersAreMerged` | `LayersMerge` |

**JobLifecycle.** None of the properties is inductive by itself. `SafetyInv`
adds what they rest on: the worker's `pc` and `cur` agree with the stages
(`WorkerInv`); a request has a job and a source from the step that gives it one
(`RequestInv`); the channel holds queued requests once each (`QueueInv`); a
registered source is live or cancelled and its request not yet released
(`TokenInv`); rows exist for what a run works on (`RowInv`). That one run writes
the ledger follows from `DoneInv` and `WriterInv`: a run that is over has taken
the workbook with it, nobody can put it back because an upload needs a job
without a row, so no later run of the job gets past `OpenWorkbook`. That a
Canceled job was cancelled needs `CancelInv` at the worker's catch clause, and
that a Completed job's upload goes needs `UploadInv`, the same statement for a
host that is stopping or down. Each conjunct is preserved action by action.
The refinement `ServiceIsKept` needs four more facts (`ServiceInv`, checked by TLC
before it was proved): an upload in progress has no row yet, a request for a
session's job finds one, a process that is down has nothing left to do, and the
worker announces only after it has written the outcome it tells. `ClientServes`,
`HandlerServes`, `WorkerServes` and `SystemServes` then map each step: `UploadRecord`
is `Open`, `ExecuteCheck` and `Evaluate` are `Submit`, the channel's write is
`Accept`, `Dequeue` is `Serve`, `StartRun` is `Begin`, what saves is `Save`, the
three status writes are `Settle`, one that throws for good and `Shutdown` are
`GiveUp`, `ProcessEnds` is `Lose`, and everything else is a stutter (`Unseen`).

**Orchestrator.** `CertifiedMeansReproduced` needs `VerifyInv`: an answer at row
`i` has computed the rows before it, with the stamp already set. `SlotsConserved`
is inductive with the types, by the cardinality of a set that gains or loses one
partition. `EachOutputOnce` needs that what was emitted is settled and that
nothing exists before `Begin`. The refinement uses all of them: `Begin` and the
task's inner steps stutter, a step into `settled` is `Certify` or `Reject`,
`Yield` is `Deliver`, `Resume` at the end is `Complete`.

**Dashboard.** `DashboardImplements` maps each step to a step of `JobLifecycle`
or a stutter; it needs `PageInv`, that a page which shows a status has a job and
a call in progress is for one. With it `TypeOK` and `SafetyInv` of JobLifecycle
are invariants of the dashboard as well, which the types of what a page shows
need in turn, and `PagesAreServed` is the two refinements one after the other.
`JoinedIsSpared` follows from `ClockInv`: a disconnect that counts
is never older than the last join, because a join clears it and a tick moves both
ages. `WaitingPagesHear` is `HearInv`: the property, said already of a page whose
POST was accepted and not yet answered, because from then on it may wait. It needs
what a waiting page shows and for which job (`WaitInv`), and that a connection
has one page, is in no group before it is opened and ends with the process
(`ConnectionInv`), so that an event that reaches the job's group reaches that
page. The API's part is the lemma `AccountedStays`: a step after which no request
accounts for the job any more is the announcement of its end, and
`AnnounceToGroup` takes every open connection of the group out of its wait with
it. `WaitInv`, `ConnectionInv` and `HearInv` were model-checked on two pages and
two connections, with every trouble and a restart, before they were proved.

**RowVerification.** `RowsInv` says that the rows done lie before those left, that
the dictionary holds the ground truth of the last one under the target's own key,
and that the code has reproduced every row done. `FreshIsSaid` is the step: for a
key that is fresh, the three rounds of injection end in what the sheet says.
`PartitionsAreTheSheet` follows the loop of the compression turn by turn, without
induction over the sheet: `TileInv` says that the blocks lie one behind the
other and before every row unread, and that each row read lies in a block of its
own signature. `RowExtends` and `RowAppends` are the two branches of a turn.

**VbaTranslation.** `VbaInv` says that the modules before the one in hand are those
that were compiled, that the kept ones are among them and in order, and that the
call returns only past the last. Nothing is used of what a reply holds.
`ReplyInv` adds that what is verified is a reply with code in it. `FormatIsRead`
then computes the parser on the agreed format, for replies of any length:
two fences that are all there are must be the two around the class
(`BlockExtracted`), and without any the first class is the last token
(`LastClassExtracted`).

**EvalRun.** `AccountInv` ties a result's return code to how the process ended and
says that only reaped evals are left when the summary counts. `DiskInv` adds that
nothing is reported before the process or the container is over: that is why the
transcript and the artifacts can no longer change, except after a timeout, where
nothing is claimed. `RoomInv` has, for an eval whose id is its own, what may stand
in its workspace and its artifacts, and that whatever is new since the snapshot is
its own.

**TriggerRun.** `PlaceInv` relates how far claude is in its message to what the
parser has kept and decided: a name that was kept has been recognised before the
end of its block, so that an end finds nothing kept of a block that named the
skill, and when claude's message is over the parser has decided, by the repeated
assistant event if by nothing else. The score follows by counting: a rate that reaches the threshold counts at
least one run.

**ModuleSetup.** `SetupPhaseInv` is the order of the scripts. `SkillsInv`: what still is
to be removed was checked. `PrivateInv` and `EntriesInv` speak of the file and of
what is about to be written to it. `LegacyInv` is where the order of the writes
matters: `MergeInv` says, for each place `merge-config.py` can be at, where the
values of the legacy files now are (in the answers, in config.yaml, in
config.user.yaml), so that at the unlinking they are in both. It holds whatever died
before, also in the setups that come after a loss. `LegacyStep` then says of every
step but a death that it keeps all there is (`KeepsValues`), and `DeathKeeps` that a
death loses what was in the file that was open and nothing else.

**ModuleScaffold.** `WholeInv` follows a scaffold through its writes: a folder whose
`module.yaml` was filled in has the whole template, unless a scaffold is removing
it or died while it did, and while the files are written behind the copying the
folder has all of it. Every step but the validator's voids the verdict, so that
only the validator's own checks and `WholeInv` are left to give
`PassMeansInstallable`.

**AgentBirth.** `LearnedInv`: while a script runs in the agent's folder nothing has
been learned there, because the script refuses a folder that exists and the agent
wakes only when it is over. That a reviewed skill is born whole follows from
`ReviewInv`, what the prepass has checked, and `ProgressInv`, what the script has
written by the time it is at each step.

**WorkflowPrepass.** `JudgedInv`: a judgement is of the stages as they are, which
are finitely many. The rest is arithmetic on a finite set of numbers
(`GapsBetween`): a number missing among the first so many has a member above it,
or all members would lie in too small an interval; and the least number missing
between two members is among the first so many, because all below it are members
and one more is above it. That there are as many numbers as files is where two
stages with one number are excluded (`DistinctNumbers`).

**TemplateProcessing.** `Stands` says where in the template each token of the
content stood. While blocks are resolved the invariant is `Rightly`: of each block
both markers are left or none; what is gone are markers and the insides of blocks
that do not hold; and a block whose markers are gone while something within it is
left holds. A round matches two tokens that are the markers of one block of the
template (`MatchIsBlock`: the marker that closes it is still there, and no other
closes it earlier), so that resolving it is right again (`RoundIsRight`, because
the blocks of a well-nested template lie within or beside one another). When
nothing matches no marker is left (`NothingLeft`), and what stands is what was
wanted. From then on `Keeps`: a replacement moves what is kept (`KeptElsewhere`)
and brings nothing that is a marker or a text of the template. No induction over
the rounds is needed, for each round is a step.

**Customization.** The layers that were read are trees, and that is all the property
needs of the state (`CustomizationInvariant`): what is printed is computed in one
step. The proof is of the merge. Two lists merged by a key are the first with the
items of the second put into it one by one (`MergeIsPuts`), and no `PutItem`
loses an item of another key or brings one that is nobody's (`PutKeeps`), for
lists of any length (`KeyMergeKeeps`, `ArraysMerge`). `MergeAt` says what a merge
of two trees has at a path, and `OneMoreMerged` that one more layer on top keeps
all four parts of the property: what the highest layer says (`HighestStays`), what
is kept (`ItemsStayKept`), what is there at all (`ItemsStayTheirs`) and that codes
stay single (`CodesStayOnce`). `MergedIsMerged` goes from layer to layer. Both go
step by step over numbers with `AllOfInterval`: a set of numbers that has the
first and with each one the next has all of them; the induction theorems of the
library take an operator, and a set does as well. Because a tree is a function
from paths there is no induction over its depth.

**Composition.** `MCStandalone` starts every component in one of its initial states
(`EachStarts`), and each of its steps is for each component a step of its own or
none (`EachSteps`). So its behaviours are behaviours of each component
(`EachRunsItself`), and what is proved of the components holds in the run that
checks them together; `ToolsTypeCorrect` is drawn from it.

**Model-checked only.** Every invariant and every action property of the passing
runs has a theorem. What is left is liveness under fairness (`AcceptedRunsEnd`,
`RunningSettles`, `TranslationEnds`, `AbandonedIsCancelled`, `RunsEnd`): the
provers do not handle `ENABLED`. The violated properties are counterexamples of
TLC.

## 6. Not modelled

* History endpoints, logging, progress events, Swagger: reads and output.
* What a workbook contains and what C# computes: constants of the orchestrator and
  of RowVerification. Extraction reads and changes nothing; the prompts are
  text, and the syntax rules of the scanner are a parameter.
* Of the web client, the display of progress, downloads and the history pages;
  whether the status a page shows ever settles (it need not: a failed run leaves
  it at Running until a reload). Direct calls of the API by other clients are in
  JobLifecycle, not in Dashboard.
* The CLI: a sequential loop over what is modelled, without state of its own.
* The five attempts with back-off around a ledger call: JobLifecycle takes such a
  call to succeed or throw, which is what the bounded loop comes to.
* Progress events, and completion events lost on an open connection: the ledger
  does not depend on them.
* How an orphaned partition is shown: the ledger's row is modelled, its badge is a
  matter of display.
* Of the skill tools: the lint scanners (`scan-scripts.py`,
  `scan-path-standards.py`, `prepass-prompt-metrics.py`), regular expressions over
  one file at a time; the report generators, layout of a finished analysis; the
  prepasses of the agent builder but the sanctum's, scans like those of the
  workflow builder; the copies of the setup scripts under `assets`, whose
  originals are modelled; the sample init script, an example of the template.
  None keeps state or depends on an order of steps.
