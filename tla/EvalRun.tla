------------------------------ MODULE EvalRun ------------------------------
(***************************************************************************)
(* bmad-eval-runner, artifact evals: run_evals.py with the helpers of      *)
(* utils.py, docker_setup.py and generate_report.py. A pool of workers     *)
(* runs every eval in a workspace of its own, in a container or in a       *)
(* directory, kills the claude or docker client that takes too long, and   *)
(* measures what was left behind; the main thread collects the results.    *)
(*                                                                         *)
(* A file is a path and the layer it came from. claude is external: it     *)
(* writes files and transcript lines, at most EvalSteps for each eval.     *)
(***************************************************************************)
EXTENDS Naturals, Integers, Sequences, FiniteSets

CONSTANTS
    Evals,       \* the items of evals.json
    EvalIds,     \* the ways ids are given out: [e |-> the first item with e's id]
    EvalPaths,   \* the paths in a workspace that the properties tell apart
    SkillPath,   \* .claude/skills/<name>
    Layouts,     \* what is on disk before the run
    Workers,     \* max_workers
    EvalSteps    \* bound on what claude does in one eval

ASSUME EvalAssumption ==
    /\ IsFiniteSet(Evals) /\ EvalIds \subseteq [Evals -> Evals]
    /\ SkillPath \in EvalPaths
    /\ Evals \cap {"none", "project", "base", "perEval", "skill", "fixture"} = {}
    /\ \A l \in Layouts : l.ids \in EvalIds /\ l.fixtures \in [Evals -> SUBSET EvalPaths]
    /\ Workers \in Nat \ {0} /\ EvalSteps \in Nat

VARIABLES
    layout,      \* the project, the setup overlays, the fixtures, the evals folders
    isolation,   \* "docker" or "local"
    image,       \* bmad-eval-runner:latest is built
    main,        \* where the main thread is
    item,        \* where the worker of each eval is
    box,         \* its claude process (local) or its container (docker)
    space,       \* workspaces: by eval in a container, by id in a directory
    hostSkill,   \* the skill under test: "pristine", or who edited it last
    before,      \* workspace_snapshot_before
    worked,      \* what claude did so far
    fixturesIn,  \* <eval-id>/fixtures_in
    transcript,  \* <eval-id>/transcript.jsonl, counted in assistant events
    artifacts,   \* <eval-id>/artifacts
    result,      \* what the runner returned or raised, and metrics.json
    summary,     \* execution-summary.json
    report       \* report.html
diskVars == <<space, hostSkill, before, worked, fixturesIn, transcript, artifacts>>
evalVars == <<layout, isolation, image, main, item, box, diskVars, result, summary, report>>

Origins == {"none", "project", "base", "perEval", "skill", "fixture"} \cup Evals
NoFiles == [p \in EvalPaths |-> "none"]
Present(files) == {p \in EvalPaths : files[p] # "none"}
Dir(e) == layout.ids[e]
Unique(e) == \A f \in Evals \ {e} : layout.ids[f] # layout.ids[e]
SpaceOf(e) == IF isolation = "docker" THEN e ELSE Dir(e)
NoResult == [why |-> "none", rc |-> 0, steps |-> 0, files |-> {}]
Results == [why : {"none", "returned", "timeout", "error"}, rc : {-1, 0, 1},
            steps : Nat, files : SUBSET EvalPaths]
NoCounts == [total |-> 0, executed |-> 0, failures |-> 0]
Alive == {"starting", "live", "syncing"}

EvalTypeOK ==
    /\ layout \in Layouts /\ isolation \in {"docker", "local"} /\ image \in BOOLEAN
    /\ main \in {"start", "running", "summarised", "reported", "refused"}
    /\ item \in [Evals -> {"idle", "queued", "agent", "done", "reaped"}]
    /\ box \in [Evals -> Alive \cup {"none", "exit0", "exit1", "killed"}]
    /\ space \in [Evals -> [EvalPaths -> Origins]]
    /\ hostSkill \in {"pristine"} \cup Evals
    /\ before \in [Evals -> SUBSET EvalPaths]
    /\ worked \in [Evals -> 0..EvalSteps]
    /\ fixturesIn \in [Evals -> SUBSET EvalPaths]
    /\ transcript \in [Evals -> Nat]
    /\ artifacts \in [Evals -> [EvalPaths -> Origins]]
    /\ result \in [Evals -> Results]
    /\ summary \in [total : Nat, executed : Nat, failures : Nat]
    /\ report \in [executed : Nat, failures : Nat, graded : Nat, passed : Nat]

EvalInit ==
    /\ layout \in Layouts /\ isolation = "local" /\ image = FALSE /\ main = "start"
    /\ item = [e \in Evals |-> "idle"] /\ box = [e \in Evals |-> "none"]
    /\ space = [e \in Evals |-> NoFiles] /\ hostSkill = "pristine"
    /\ before = [e \in Evals |-> {}] /\ worked = [e \in Evals |-> 0]
    /\ fixturesIn = [e \in Evals |-> {}]
    /\ transcript = [e \in Evals |-> 0] /\ artifacts = [e \in Evals |-> NoFiles]
    /\ result = [e \in Evals |-> NoResult]
    /\ summary = NoCounts
    /\ report = [executed |-> 0, failures |-> 0, graded |-> 0, passed |-> 0]

-----------------------------------------------------------------------------
(* Before the run. *)

\* discover_evals: the first folder that holds any of the two files is the one.
Discovered ==
    LET hits == {i \in DOMAIN layout.places : layout.places[i] # {}} IN
    IF hits = {} THEN {}
    ELSE layout.places[CHOOSE i \in hits : \A j \in hits : i <= j]

\* docker_setup.py --build or --rebuild; "docker info" may time out, a build may
\* fail, and a failed rebuild leaves the old image under its tag.
SetUpImage(rebuild) ==
    /\ main = "start" /\ layout.docker
    /\ rebuild \/ ~image
    /\ image' = TRUE
    /\ UNCHANGED <<layout, isolation, main, item, box, diskVars, result, summary,
                   report>>

\* main up to pool.submit: refused without an evals file or a readable SKILL.md,
\* else the wanted ids are queued.
EvalStart(mode, wanted) ==
    /\ main = "start"
    /\ mode = "docker" => layout.docker
    /\ IF "evals" \in Discovered /\ layout.skillMd
       THEN /\ main' = "running"
            /\ item' = [e \in Evals |-> IF Dir(e) \in wanted THEN "queued" ELSE "idle"]
       ELSE main' = "refused" /\ UNCHANGED item
    /\ isolation' = mode
    /\ UNCHANGED <<layout, image, box, diskVars, result, summary, report>>

-----------------------------------------------------------------------------
(* The workers. *)

\* The overlay directories of an eval, applied base first: where both have a path
\* the one of the eval itself wins.
Overlay(e) ==
    [p \in EvalPaths |-> IF p \in layout.perEval[Dir(e)] THEN "perEval"
                         ELSE IF p \in layout.base THEN "base" ELSE "none"]

\* stage_workspace_local, and the staging half of the container script, on top of
\* what is there: project, setup overlay, the skill only where nothing is yet
\* (cp -R onto a directory nests), then the fixtures.
Staged(old, e, fixtures) ==
    [p \in EvalPaths |->
        IF p \in fixtures THEN "fixture"
        ELSE IF Overlay(e)[p] # "none" THEN Overlay(e)[p]
        ELSE IF p \in layout.project THEN "project"
        ELSE IF p = SkillPath /\ old[p] = "none" THEN "skill"
        ELSE old[p]]

Taken(e) ==
    /\ main = "running" /\ item[e] = "queued"
    /\ Cardinality({f \in Evals : item[f] = "agent"}) < Workers

\* Faulty variant of SnapshotBefore: nothing is staged yet.
SnapshotUnstaged(e) == Present(space[Dir(e)])

\* snapshot_files, of the staged workspace.
SnapshotBefore(e) == Present(Staged(space[Dir(e)], e, layout.fixtures[e]))

\* run_eval_local up to subprocess.run.
StartLocal(e) ==
    /\ isolation = "local" /\ Taken(e)
    /\ space' = [space EXCEPT ![Dir(e)] = Staged(@, e, layout.fixtures[e])]
    /\ before' = [before EXCEPT ![e] = SnapshotBefore(e)]
    /\ transcript' = [transcript EXCEPT ![Dir(e)] = 0]
    /\ item' = [item EXCEPT ![e] = "agent"]
    /\ box' = [box EXCEPT ![e] = "live"]
    /\ UNCHANGED <<layout, isolation, image, main, hostSkill, worked, fixturesIn,
                   artifacts, result, summary, report>>

\* run_eval_docker up to subprocess.run; without the image docker run fails.
StartDocker(e) ==
    /\ isolation = "docker" /\ Taken(e)
    /\ fixturesIn' = [fixturesIn EXCEPT ![Dir(e)] = @ \cup layout.fixtures[e]]
    /\ item' = [item EXCEPT ![e] = "agent"]
    /\ box' = [box EXCEPT ![e] = IF image THEN "starting" ELSE "exit1"]
    /\ UNCHANGED <<layout, isolation, image, main, space, hostSkill, before, worked,
                   transcript, artifacts, result, summary, report>>

\* The container script up to claude; /fixtures is the directory on the host, as
\* it is now, mounted for an eval that declares some.
ContainerStages(e) ==
    /\ box[e] = "starting" /\ box' = [box EXCEPT ![e] = "live"]
    /\ space' = [space EXCEPT ![e] = Staged(NoFiles, e,
                    IF layout.fixtures[e] = {} THEN {} ELSE fixturesIn[Dir(e)])]
    /\ transcript' = [transcript EXCEPT ![Dir(e)] = 0]
    /\ UNCHANGED <<layout, isolation, image, main, item, hostSkill, before, worked,
                   fixturesIn, artifacts, result, summary, report>>

\* claude writes an assistant event and a file; the skill in a directory is a link.
AgentStep(e, p) ==
    /\ box[e] = "live" /\ worked[e] < EvalSteps
    /\ worked' = [worked EXCEPT ![e] = @ + 1]
    /\ IF isolation = "local" /\ p = SkillPath /\ space[Dir(e)][p] = "skill"
       THEN hostSkill' = e /\ UNCHANGED space
       ELSE space' = [space EXCEPT ![SpaceOf(e)][p] = e] /\ UNCHANGED hostSkill
    /\ transcript' = [transcript EXCEPT ![Dir(e)] = @ + 1]
    /\ UNCHANGED <<layout, isolation, image, main, item, box, before, fixturesIn,
                   artifacts, result, summary, report>>

\* claude exits; the container script goes on whatever its exit code ("|| true").
AgentEnds(e, code) ==
    /\ box[e] = "live"
    /\ box' = [box EXCEPT ![e] = IF isolation = "docker" THEN "syncing" ELSE code]
    /\ UNCHANGED <<layout, isolation, image, main, item, diskVars, result, summary,
                   report>>

\* The script of the container fails before or while it copies (set -e) ...
ContainerFails(e) ==
    /\ box[e] \in {"starting", "syncing"} /\ box' = [box EXCEPT ![e] = "exit1"]
    /\ UNCHANGED <<layout, isolation, image, main, item, diskVars, result, summary,
                   report>>

\* ... or copies the whole workspace but .claude out, and exits.
ContainerSyncs(e) ==
    /\ box[e] = "syncing" /\ box' = [box EXCEPT ![e] = "exit0"]
    /\ artifacts' = [artifacts EXCEPT ![Dir(e)] = [p \in EvalPaths |->
                        IF p \in Present(space[e]) \ {SkillPath}
                        THEN space[e][p] ELSE @[p]]]
    /\ UNCHANGED <<layout, isolation, image, main, item, space, hostSkill, before,
                   worked, fixturesIn, transcript, result, summary, report>>

\* diff_workspace and sync_artifacts: new files only.
Collected(e) ==
    LET files == space[Dir(e)]
        fresh == (Present(files) \ before[e]) \ {SkillPath}
    IN [p \in EvalPaths |-> IF p \in fresh THEN files[p] ELSE artifacts[Dir(e)][p]]

\* Faulty variants of Waited: the exit code after a timeout is the signal; docker
\* run -d does not wait for the end of the script; there is no timeout.
WaitedSignal(e) ==
    CASE box[e] = "exit0" -> {<<"returned", 0>>}
      [] box[e] = "exit1" -> {<<"returned", 1>>}
      [] box[e] \in Alive -> {<<"timeout", -9>>}
WaitedDetached(e) ==
    CASE box[e] \in {"exit0", "syncing"} -> {<<"returned", 0>>}
      [] box[e] = "exit1" -> {<<"returned", 1>>}
      [] OTHER -> {<<"timeout", -1>>}
WaitedForever(e) ==
    CASE box[e] = "exit0" -> {<<"returned", 0>>}
      [] box[e] = "exit1" -> {<<"returned", 1>>}
      [] OTHER -> {}

\* subprocess.run: the process ended, or the timeout expires while it runs.
Waited(e) ==
    CASE box[e] = "exit0" -> {<<"returned", 0>>}
      [] box[e] = "exit1" -> {<<"returned", 1>>}
      [] box[e] \in Alive -> {<<"timeout", -1>>}

\* compute_metrics and the runner's return.
Returns(e) ==
    /\ \E w \in Waited(e) :
          result' = [result EXCEPT ![e] =
                        [why |-> w[1], rc |-> w[2], steps |-> transcript[Dir(e)],
                         files |-> Present(artifacts'[Dir(e)])]]
    /\ item' = [item EXCEPT ![e] = "done"]

\* run_eval_local after subprocess.run, which kills claude at the timeout.
LocalReturns(e) ==
    /\ isolation = "local" /\ item[e] = "agent"
    /\ artifacts' = [artifacts EXCEPT ![Dir(e)] = Collected(e)]
    /\ box' = [box EXCEPT ![e] = IF @ = "live" THEN "killed" ELSE @]
    /\ Returns(e)
    /\ UNCHANGED <<layout, isolation, image, main, space, hostSkill, before, worked,
                   fixturesIn, transcript, summary, report>>

\* run_eval_docker after subprocess.run, which kills the docker client at
\* timeout + 30: the container runs on. fixtures_in is removed.
DockerReturns(e) ==
    /\ isolation = "docker" /\ item[e] = "agent"
    /\ UNCHANGED artifacts /\ Returns(e)
    /\ fixturesIn' = [fixturesIn EXCEPT ![Dir(e)] = {}]
    /\ UNCHANGED <<layout, isolation, image, main, box, space, hostSkill, before,
                   worked, transcript, summary, report>>

\* The runner raises before subprocess.run (a fixture that cannot be copied, rsync,
\* an item without a prompt, no claude or docker on PATH); a directory may be
\* staged by then.
RunnerRaises(e) ==
    /\ Taken(e)
    /\ item' = [item EXCEPT ![e] = "done"]
    /\ result' = [result EXCEPT ![e] =
                    [why |-> "error", rc |-> -1, steps |-> 0, files |-> {}]]
    /\ \/ UNCHANGED <<space, fixturesIn>>
       \/ /\ isolation = "local" /\ UNCHANGED fixturesIn
          /\ space' = [space EXCEPT ![Dir(e)] = Staged(@, e, layout.fixtures[e])]
       \/ /\ isolation = "docker" /\ UNCHANGED space
          /\ fixturesIn' = [fixturesIn EXCEPT ![Dir(e)] = @ \cup layout.fixtures[e]]
    /\ UNCHANGED <<layout, isolation, image, main, box, hostSkill, before, worked,
                   transcript, artifacts, summary, report>>

-----------------------------------------------------------------------------
(* The main thread and the report. *)

Submitted == {e \in Evals : item[e] # "idle"}

\* as_completed hands over a future; an exception becomes an error result.
Reap(e) ==
    /\ main = "running" /\ item[e] = "done"
    /\ item' = [item EXCEPT ![e] = "reaped"]
    /\ UNCHANGED <<layout, isolation, image, main, box, diskVars, result, summary,
                   report>>

\* Faulty variant of Reaped: an eval whose runner raised is passed over.
ReturnedOnly == {e \in Evals : item[e] = "reaped" /\ result[e].why # "error"}

\* The list results.
Reaped == {e \in Evals : item[e] = "reaped"}

\* The pool is shut down and the summary written.
WriteSummary ==
    /\ main = "running" /\ \A e \in Submitted : item[e] = "reaped"
    /\ main' = "summarised"
    /\ summary' = [total |-> Cardinality(Submitted),
                   executed |-> Cardinality(Reaped),
                   failures |-> Cardinality({e \in Reaped : result[e].rc # 0})]
    /\ UNCHANGED <<layout, isolation, image, item, box, diskVars, result, report>>

\* The graders, subagents of the skill, write grading.json for some ids, or fail;
\* then generate_report.py counts, for every result, the grading of its id.
RenderReport(graded, passed) ==
    LET of(ids) == Cardinality({e \in Submitted : Dir(e) \in ids}) IN
    /\ main = "summarised" /\ main' = "reported"
    /\ passed \subseteq graded
    /\ report' = [executed |-> summary.executed, failures |-> summary.failures,
                  graded |-> of(graded), passed |-> of(passed)]
    /\ UNCHANGED <<layout, isolation, image, item, box, diskVars, result, summary>>

-----------------------------------------------------------------------------
WorkerStep(e) ==
    \/ StartLocal(e) \/ StartDocker(e) \/ RunnerRaises(e)
    \/ LocalReturns(e) \/ DockerReturns(e)
BoxStep(e) ==
    \/ ContainerStages(e) \/ ContainerFails(e) \/ ContainerSyncs(e)
    \/ \E p \in EvalPaths : AgentStep(e, p)
    \/ \E code \in {"exit0", "exit1"} : AgentEnds(e, code)

EvalNext ==
    \/ \E rebuild \in BOOLEAN : SetUpImage(rebuild)
    \/ \E mode \in {"docker", "local"}, wanted \in SUBSET Evals :
          EvalStart(mode, wanted)
    \/ \E e \in Evals : WorkerStep(e) \/ BoxStep(e) \/ Reap(e)
    \/ WriteSummary
    \/ \E graded, passed \in SUBSET Evals : RenderReport(graded, passed)

EvalSpec == EvalInit /\ [][EvalNext]_evalVars

\* Some thread of the runner goes on when one can, and the clock reaches a timeout;
\* claude and the containers are not asked for anything.
EvalFairness == WF_evalVars((\E e \in Evals : WorkerStep(e) \/ Reap(e)) \/ WriteSummary)

-----------------------------------------------------------------------------
(* Properties. *)

\* A clean room for every eval whose id no other item has: what claude wrote into
\* its workspace is its own, and so is everything that is collected, but for a
\* container, which hands over what was staged as well. No container changes the
\* skill under test. (A directory links to it, and its evals share what they edit.)
CleanRoom ==
    /\ \A e \in Evals : Unique(e) =>
        /\ \A p \in EvalPaths : space[SpaceOf(e)][p] \notin Evals \ {e}
        /\ \A p \in Present(artifacts[Dir(e)]) :
              \/ artifacts[Dir(e)][p] = e
              \/ isolation = "docker" /\ artifacts[Dir(e)][p] \notin Evals
    /\ isolation = "docker" => hostSkill = "pristine"

\* metrics.json describes what is on disk, for as long as the run folder is there:
\* once the runner of an eval with an id of its own has returned in time, nothing
\* is added to its transcript or its artifacts. (After a timeout in a container,
\* something may.)
ResultsMatchDisk ==
    \A e \in Evals : Unique(e) /\ result[e].why = "returned" =>
        /\ result[e].steps = transcript[Dir(e)]
        /\ result[e].files = Present(artifacts[Dir(e)])

\* Every eval that was asked for is in the summary, also when its runner raised,
\* and it is a failure exactly when the runner raised, timed out, or its process
\* or container exited with an error.
SummaryAccountsForAll ==
    main \in {"summarised", "reported"} =>
        /\ summary.executed = summary.total
        /\ summary.failures = Cardinality({e \in Submitted :
                \/ result[e].why \in {"error", "timeout"}
                \/ box[e] = "exit1" /\ result[e].why = "returned"})

\* No eval holds up the run for good: with claude or a container hanging, the
\* timeout lets the run end.
EvalRuns == main = "running"
EvalEnded == main = "summarised"

=============================================================================
