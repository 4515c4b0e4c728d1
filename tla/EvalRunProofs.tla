---------------------------- MODULE EvalRunProofs ----------------------------
(***************************************************************************)
(* Theorems about EvalRun, for any evals, ids, files, workers and layouts  *)
(* of the disk, whatever claude and the containers do; and about           *)
(* TriggerRun, for any queries, runs and workers, and for any way in which *)
(* the stream of claude is cut into chunks.                                *)
(***************************************************************************)
EXTENDS EvalRun, TriggerRun, TLAPS, FiniteSetTheorems

-----------------------------------------------------------------------------
(* Types, and the phases of an eval. *)

\* Nothing runs for an eval before a worker takes it; while the worker waits there
\* is a process or a container, or its exit code.
PhaseInv ==
    /\ main = "start" => \A e \in Evals : item[e] = "idle"
    /\ \A e \in Evals :
          /\ item[e] \in {"idle", "queued"} => box[e] = "none"
          /\ item[e] = "agent" => box[e] \in Alive \cup {"exit0", "exit1"}

EvalInv == EvalTypeOK /\ PhaseInv

LEMMA DirTyped ==
    ASSUME EvalTypeOK, NEW e \in Evals
    PROVE  Dir(e) \in Evals /\ SpaceOf(e) \in Evals /\ layout.fixtures[e] \subseteq EvalPaths
BY EvalAssumption DEF EvalTypeOK, Dir, SpaceOf

LEMMA StagedTyped ==
    ASSUME NEW old \in [EvalPaths -> Origins], NEW e \in Evals, NEW fixtures
    PROVE  Staged(old, e, fixtures) \in [EvalPaths -> Origins]
BY DEF Staged, Overlay, Origins

LEMMA NoFilesTyped == NoFiles \in [EvalPaths -> Origins]
BY DEF NoFiles, Origins

LEMMA CountTyped ==
    ASSUME NEW S \in SUBSET Evals
    PROVE  Cardinality(S) \in Nat
BY EvalAssumption, FS_Subset, FS_CardinalityType

\* What the runner may find when it stops to wait.
LEMMA WaitedTyped ==
    ASSUME EvalInv, NEW e \in Evals, item[e] = "agent", NEW w \in Waited(e)
    PROVE  /\ w[1] \in {"returned", "timeout"} /\ w[2] \in {-1, 0, 1}
           /\ w[1] = "returned" => box[e] \in {"exit0", "exit1"}
           /\ w[2] # 0 <=> w[1] = "timeout" \/ box[e] = "exit1"
           /\ box[e] \in {"exit0", "exit1"} => w[1] = "returned"
<1>1. \/ box[e] = "exit0" /\ w = <<"returned", 0>>
      \/ box[e] = "exit1" /\ w = <<"returned", 1>>
      \/ box[e] \in Alive /\ w = <<"timeout", -1>>
  <2>1. CASE box[e] = "exit0"
    BY <2>1 DEF Waited, Alive
  <2>2. CASE box[e] = "exit1"
    BY <2>2 DEF Waited, Alive
  <2>3. CASE box[e] \in Alive
    BY <2>3 DEF Waited, Alive
  <2> QED BY <2>1, <2>2, <2>3 DEF EvalInv, PhaseInv
<1> QED BY <1>1 DEF Alive

LEMMA ReturnsTyped ==
    ASSUME EvalInv, NEW e \in Evals, item[e] = "agent", Returns(e)
    PROVE  /\ result' \in [Evals -> Results]
           /\ item' \in [Evals -> {"idle", "queued", "agent", "done", "reaped"}]
           /\ \A f \in Evals : item'[f] = IF f = e THEN "done" ELSE item[f]
<1>1. PICK w \in Waited(e) :
         result' = [result EXCEPT ![e] = [why |-> w[1], rc |-> w[2],
                        steps |-> transcript[Dir(e)], files |-> Present(artifacts'[Dir(e)])]]
  BY DEF Returns
<1>2. w[1] \in {"returned", "timeout"} /\ w[2] \in {-1, 0, 1}
  BY WaitedTyped
<1>3. transcript[Dir(e)] \in Nat
  BY DirTyped DEF EvalInv, EvalTypeOK
<1>4. [why |-> w[1], rc |-> w[2], steps |-> transcript[Dir(e)],
       files |-> Present(artifacts'[Dir(e)])] \in Results
  BY <1>2, <1>3 DEF Results, Present
<1>5. result' \in [Evals -> Results]
  BY <1>1, <1>4 DEF EvalInv, EvalTypeOK
<1> QED BY <1>5 DEF Returns, EvalInv, EvalTypeOK

LEMMA EvalInit0 == EvalInit => EvalInv
<1> SUFFICES ASSUME EvalInit PROVE EvalInv
  OBVIOUS
<1>1. /\ space \in [Evals -> [EvalPaths -> Origins]]
      /\ artifacts \in [Evals -> [EvalPaths -> Origins]]
  BY NoFilesTyped DEF EvalInit
<1>2. result \in [Evals -> Results] /\ worked \in [Evals -> 0..EvalSteps]
  <2>1. NoResult \in Results
    BY DEF NoResult, Results
  <2>2. 0 \in 0..EvalSteps
    BY EvalAssumption
  <2> QED BY <2>1, <2>2 DEF EvalInit
<1>3. /\ summary \in [total : Nat, executed : Nat, failures : Nat]
      /\ report \in [executed : Nat, failures : Nat, graded : Nat, passed : Nat]
  BY DEF EvalInit, NoCounts
<1>4. /\ layout \in Layouts /\ isolation \in {"docker", "local"} /\ image \in BOOLEAN
      /\ main = "start" /\ item = [e \in Evals |-> "idle"] /\ box = [e \in Evals |-> "none"]
      /\ hostSkill = "pristine" /\ before = [e \in Evals |-> {}]
      /\ fixturesIn = [e \in Evals |-> {}] /\ transcript = [e \in Evals |-> 0]
  BY DEF EvalInit
<1> QED BY <1>1, <1>2, <1>3, <1>4 DEF EvalInv, EvalTypeOK, PhaseInv

LEMMA OneMoreStep ==
    ASSUME NEW n \in Nat, NEW d \in 0..n, d < n
    PROVE  d + 1 \in 0..n
OBVIOUS

LEMMA EvalStep == EvalInv /\ [EvalNext]_evalVars => EvalInv'
<1> SUFFICES ASSUME EvalInv, [EvalNext]_evalVars PROVE EvalInv'
  OBVIOUS
<1> USE DEF EvalInv, EvalTypeOK, PhaseInv, diskVars
<1>1. ASSUME NEW rebuild \in BOOLEAN, SetUpImage(rebuild) PROVE EvalInv'
  BY <1>1 DEF SetUpImage
<1>2. ASSUME NEW mode \in {"docker", "local"}, NEW wanted \in SUBSET Evals,
             EvalStart(mode, wanted)
      PROVE  EvalInv'
  BY <1>2 DEF EvalStart
<1>3. ASSUME NEW e \in Evals, StartLocal(e) PROVE EvalInv'
  <2>1. Staged(space[Dir(e)], e, layout.fixtures[e]) \in [EvalPaths -> Origins]
    BY DirTyped, StagedTyped
  <2>2. space' \in [Evals -> [EvalPaths -> Origins]]
    BY <1>3, <2>1 DEF StartLocal
  <2>3. before' \in [Evals -> SUBSET EvalPaths] /\ transcript' \in [Evals -> Nat]
    BY <1>3 DEF StartLocal, SnapshotBefore, Present
  <2>4. main = "running" /\ item[e] = "queued"
    BY <1>3 DEF StartLocal, Taken
  <2>5. /\ item' \in [Evals -> {"idle", "queued", "agent", "done", "reaped"}]
        /\ box' \in [Evals -> Alive \cup {"none", "exit0", "exit1", "killed"}]
        /\ \A f \in Evals : /\ item'[f] = IF f = e THEN "agent" ELSE item[f]
                            /\ box'[f] = IF f = e THEN "live" ELSE box[f]
    BY <1>3 DEF StartLocal, Alive
  <2> QED BY <1>3, <2>2, <2>3, <2>4, <2>5 DEF StartLocal, Alive
<1>4. ASSUME NEW e \in Evals, StartDocker(e) PROVE EvalInv'
  <2>1. fixturesIn' \in [Evals -> SUBSET EvalPaths]
    BY <1>4, DirTyped DEF StartDocker
  <2>2. main = "running" /\ item[e] = "queued"
    BY <1>4 DEF StartDocker, Taken
  <2>3. /\ item' \in [Evals -> {"idle", "queued", "agent", "done", "reaped"}]
        /\ box' \in [Evals -> Alive \cup {"none", "exit0", "exit1", "killed"}]
        /\ \A f \in Evals : /\ item'[f] = IF f = e THEN "agent" ELSE item[f]
                            /\ f # e => box'[f] = box[f]
        /\ box'[e] \in {"starting", "exit1"}
    BY <1>4 DEF StartDocker, Alive
  <2> QED BY <1>4, <2>1, <2>2, <2>3 DEF StartDocker, Alive
<1>5. ASSUME NEW e \in Evals, ContainerStages(e) PROVE EvalInv'
  <2>1. space' \in [Evals -> [EvalPaths -> Origins]]
    <3> DEFINE fixtures == IF layout.fixtures[e] = {} THEN {} ELSE fixturesIn[Dir(e)]
    <3>1. Staged(NoFiles, e, fixtures) \in [EvalPaths -> Origins]
      BY NoFilesTyped, StagedTyped
    <3>2. space' = [space EXCEPT ![e] = Staged(NoFiles, e, fixtures)]
      BY <1>5 DEF ContainerStages
    <3> HIDE DEF fixtures
    <3> QED BY <3>1, <3>2
  <2>2. transcript' \in [Evals -> Nat]
    BY <1>5 DEF ContainerStages
  <2>3. /\ box' \in [Evals -> Alive \cup {"none", "exit0", "exit1", "killed"}]
        /\ \A f \in Evals : box'[f] = IF f = e THEN "live" ELSE box[f]
        /\ box[e] = "starting"
    BY <1>5 DEF ContainerStages, Alive
  <2> QED BY <1>5, <2>1, <2>2, <2>3 DEF ContainerStages, Alive
<1>6. ASSUME NEW e \in Evals, NEW p \in EvalPaths, AgentStep(e, p) PROVE EvalInv'
  <2>1. worked' \in [Evals -> 0..EvalSteps]
    <3>1. worked[e] + 1 \in 0..EvalSteps
      BY <1>6, OneMoreStep, EvalAssumption DEF AgentStep
    <3> QED BY <1>6, <3>1 DEF AgentStep
  <2>2. space' \in [Evals -> [EvalPaths -> Origins]] /\ hostSkill' \in {"pristine"} \cup Evals
    <3>1. SpaceOf(e) \in Evals /\ e \in Origins
      BY DirTyped DEF Origins
    <3>2. [space[SpaceOf(e)] EXCEPT ![p] = e] \in [EvalPaths -> Origins]
      BY <3>1
    <3>3. \/ hostSkill' = e /\ UNCHANGED space
          \/ /\ space' = [space EXCEPT ![SpaceOf(e)] = [space[SpaceOf(e)] EXCEPT ![p] = e]]
             /\ UNCHANGED hostSkill
      <4>1. space' = [space EXCEPT ![SpaceOf(e)][p] = e]
               => space' = [space EXCEPT ![SpaceOf(e)] = [space[SpaceOf(e)] EXCEPT ![p] = e]]
        OBVIOUS
      <4> QED BY <1>6, <4>1, Zenon DEF AgentStep
    <3>4. CASE hostSkill' = e /\ UNCHANGED space
      BY <3>4
    <3>5. CASE /\ space' = [space EXCEPT ![SpaceOf(e)] = [space[SpaceOf(e)] EXCEPT ![p] = e]]
               /\ UNCHANGED hostSkill
      BY <3>1, <3>2, <3>5
    <3> QED BY <3>3, <3>4, <3>5
  <2>3. transcript' \in [Evals -> Nat]
    BY <1>6, DirTyped DEF AgentStep
  <2> QED BY <1>6, <2>1, <2>2, <2>3 DEF AgentStep
<1>7. ASSUME NEW e \in Evals, NEW code \in {"exit0", "exit1"}, AgentEnds(e, code)
      PROVE  EvalInv'
  <2>1. /\ box' \in [Evals -> Alive \cup {"none", "exit0", "exit1", "killed"}]
        /\ \A f \in Evals : f # e => box'[f] = box[f]
        /\ box[e] = "live" /\ box'[e] \in {"syncing", "exit0", "exit1"}
    BY <1>7 DEF AgentEnds, Alive
  <2> QED BY <1>7, <2>1 DEF AgentEnds, Alive
<1>8. ASSUME NEW e \in Evals, ContainerFails(e) PROVE EvalInv'
  <2>1. /\ box' \in [Evals -> Alive \cup {"none", "exit0", "exit1", "killed"}]
        /\ \A f \in Evals : box'[f] = IF f = e THEN "exit1" ELSE box[f]
        /\ box[e] \in Alive
    BY <1>8 DEF ContainerFails, Alive
  <2> QED BY <1>8, <2>1 DEF ContainerFails, Alive
<1>9. ASSUME NEW e \in Evals, ContainerSyncs(e) PROVE EvalInv'
  <2>1. artifacts' \in [Evals -> [EvalPaths -> Origins]]
    <3>1. [p \in EvalPaths |-> IF p \in Present(space[e]) \ {SkillPath} THEN space[e][p]
                               ELSE artifacts[Dir(e)][p]] \in [EvalPaths -> Origins]
      BY DirTyped
    <3> QED BY <1>9, <3>1, DirTyped DEF ContainerSyncs
  <2>2. /\ box' \in [Evals -> Alive \cup {"none", "exit0", "exit1", "killed"}]
        /\ \A f \in Evals : box'[f] = IF f = e THEN "exit0" ELSE box[f]
        /\ box[e] \in Alive
    BY <1>9 DEF ContainerSyncs, Alive
  <2> QED BY <1>9, <2>1, <2>2 DEF ContainerSyncs, Alive
<1>10. ASSUME NEW e \in Evals, LocalReturns(e) PROVE EvalInv'
  <2>1. item[e] = "agent" /\ Returns(e)
    BY <1>10 DEF LocalReturns
  <2>2. artifacts' \in [Evals -> [EvalPaths -> Origins]]
    <3>1. Collected(e) \in [EvalPaths -> Origins]
      BY DirTyped DEF Collected
    <3> QED BY <1>10, <3>1, DirTyped DEF LocalReturns
  <2>3. /\ box' \in [Evals -> Alive \cup {"none", "exit0", "exit1", "killed"}]
        /\ \A f \in Evals : f # e => box'[f] = box[f]
    BY <1>10 DEF LocalReturns, Alive
  <2>4. main # "start"
    BY <2>1
  <2> QED BY <1>10, <2>1, <2>2, <2>3, <2>4, ReturnsTyped DEF LocalReturns
<1>11. ASSUME NEW e \in Evals, DockerReturns(e) PROVE EvalInv'
  <2>1. item[e] = "agent" /\ Returns(e) /\ main # "start"
    BY <1>11 DEF DockerReturns
  <2>2. fixturesIn' \in [Evals -> SUBSET EvalPaths]
    BY <1>11 DEF DockerReturns
  <2> QED BY <1>11, <2>1, <2>2, ReturnsTyped DEF DockerReturns
<1>12. ASSUME NEW e \in Evals, RunnerRaises(e) PROVE EvalInv'
  <2>1. main = "running" /\ item[e] = "queued"
    BY <1>12 DEF RunnerRaises, Taken
  <2>2. result' \in [Evals -> Results]
    <3>1. [why |-> "error", rc |-> -1, steps |-> 0, files |-> {}] \in Results
      BY DEF Results
    <3> QED BY <1>12, <3>1 DEF RunnerRaises
  <2>3. /\ space' \in [Evals -> [EvalPaths -> Origins]]
        /\ fixturesIn' \in [Evals -> SUBSET EvalPaths]
    <3>1. Staged(space[Dir(e)], e, layout.fixtures[e]) \in [EvalPaths -> Origins]
      BY DirTyped, StagedTyped
    <3>2. fixturesIn[Dir(e)] \cup layout.fixtures[e] \subseteq EvalPaths
      BY DirTyped
    <3>3. /\ \/ space' = space
             \/ space' = [space EXCEPT ![Dir(e)] =
                             Staged(space[Dir(e)], e, layout.fixtures[e])]
          /\ \/ fixturesIn' = fixturesIn
             \/ fixturesIn' = [fixturesIn EXCEPT ![Dir(e)] =
                             fixturesIn[Dir(e)] \cup layout.fixtures[e]]
      BY <1>12 DEF RunnerRaises
    <3>4. space' \in [Evals -> [EvalPaths -> Origins]]
      <4> DEFINE staged == Staged(space[Dir(e)], e, layout.fixtures[e])
      <4>1. space \in [Evals -> [EvalPaths -> Origins]]
        OBVIOUS
      <4>2. staged \in [EvalPaths -> Origins]
        BY <3>1
      <4>3. space' = space \/ space' = [space EXCEPT ![Dir(e)] = staged]
        BY <3>3
      <4> HIDE DEF staged, EvalInv
      <4> QED BY <4>1, <4>2, <4>3
    <3>5. fixturesIn' \in [Evals -> SUBSET EvalPaths]
      <4> DEFINE given == fixturesIn[Dir(e)] \cup layout.fixtures[e]
      <4>1. fixturesIn \in [Evals -> SUBSET EvalPaths]
        OBVIOUS
      <4>2. given \in SUBSET EvalPaths
        BY <3>2
      <4>3. fixturesIn' = fixturesIn \/ fixturesIn' = [fixturesIn EXCEPT ![Dir(e)] = given]
        BY <3>3
      <4> HIDE DEF given, EvalInv
      <4> QED BY <4>1, <4>2, <4>3
    <3> QED BY <3>4, <3>5
  <2>4. /\ item' \in [Evals -> {"idle", "queued", "agent", "done", "reaped"}]
        /\ \A f \in Evals : item'[f] = IF f = e THEN "done" ELSE item[f]
    BY <1>12 DEF RunnerRaises
  <2> QED BY <1>12, <2>1, <2>2, <2>3, <2>4 DEF RunnerRaises
<1>13. ASSUME NEW e \in Evals, Reap(e) PROVE EvalInv'
  BY <1>13 DEF Reap
<1>14. CASE WriteSummary
  <2>1. summary' \in [total : Nat, executed : Nat, failures : Nat]
    BY <1>14, CountTyped DEF WriteSummary, Submitted, Reaped
  <2> QED BY <1>14, <2>1 DEF WriteSummary
<1>15. ASSUME NEW graded \in SUBSET Evals, NEW passed \in SUBSET Evals,
              RenderReport(graded, passed)
       PROVE  EvalInv'
  <2>1. \A ids : Cardinality({e \in Submitted : Dir(e) \in ids}) \in Nat
    BY CountTyped DEF Submitted
  <2>2. report' \in [executed : Nat, failures : Nat, graded : Nat, passed : Nat]
    <3>1. report' = [executed |-> summary.executed, failures |-> summary.failures,
                     graded |-> Cardinality({e \in Submitted : Dir(e) \in graded}),
                     passed |-> Cardinality({e \in Submitted : Dir(e) \in passed})]
      BY <1>15 DEF RenderReport
    <3> DEFINE g == Cardinality({e \in Submitted : Dir(e) \in graded})
               q == Cardinality({e \in Submitted : Dir(e) \in passed})
    <3>2. g \in Nat /\ q \in Nat /\ summary.executed \in Nat /\ summary.failures \in Nat
      BY <2>1
    <3>3. report' = [executed |-> summary.executed, failures |-> summary.failures,
                     graded |-> g, passed |-> q]
      BY <3>1
    <3> HIDE DEF g, q, EvalInv
    <3> QED BY <3>2, <3>3
  <2> QED BY <1>15, <2>2 DEF RenderReport
<1>16. CASE UNCHANGED evalVars
  BY <1>16 DEF evalVars
<1> HIDE DEF EvalInv, EvalTypeOK, PhaseInv, diskVars
<1> QED
  BY <1>1, <1>2, <1>3, <1>4, <1>5, <1>6, <1>7, <1>8, <1>9, <1>10, <1>11, <1>12, <1>13, <1>14,
     <1>15, <1>16
  DEF EvalNext, WorkerStep, BoxStep

\* Every file, result and count of a run of evals keeps its type.
THEOREM EvalTypeCorrect == EvalSpec => []EvalTypeOK
<1>1. EvalSpec => []EvalInv
  BY EvalInit0, EvalStep, PTL DEF EvalSpec
<1>2. EvalInv => EvalTypeOK
  BY DEF EvalInv
<1> QED BY <1>1, <1>2, PTL

-----------------------------------------------------------------------------
(* What a step does to the result of an eval. *)

Settled(e) == item[e] \in {"done", "reaped"}
Failed(e) ==
    \/ result[e].why \in {"error", "timeout"}
    \/ box[e] = "exit1" /\ result[e].why = "returned"

\* A result stands once it is there, and so does the exit code it reports.
LEMMA SettledStands ==
    ASSUME EvalInv, [EvalNext]_evalVars, NEW e \in Evals, Settled(e)
    PROVE  /\ Settled(e)' /\ result'[e] = result[e]
           /\ box[e] \in {"exit0", "exit1"} => box'[e] = box[e]
<1> DEFINE Goal == /\ Settled(e)' /\ result'[e] = result[e]
                   /\ box[e] \in {"exit0", "exit1"} => box'[e] = box[e]
<1> SUFFICES Goal
  OBVIOUS
<1> USE DEF Settled, Alive
<1>0. /\ item \in [Evals -> {"idle", "queued", "agent", "done", "reaped"}]
      /\ main # "start"
      /\ result \in [Evals -> Results]
      /\ box \in [Evals -> Alive \cup {"none", "exit0", "exit1", "killed"}]
  BY DEF EvalInv, EvalTypeOK, PhaseInv
<1>1. ASSUME NEW rebuild \in BOOLEAN, SetUpImage(rebuild) PROVE Goal
  BY <1>0, <1>1 DEF SetUpImage
<1>2. ASSUME NEW mode \in {"docker", "local"}, NEW wanted \in SUBSET Evals,
             EvalStart(mode, wanted)
      PROVE  Goal
  BY <1>0, <1>2 DEF EvalStart
<1>3. ASSUME NEW f \in Evals, StartLocal(f) PROVE Goal
  BY <1>0, <1>3 DEF StartLocal, Taken
<1>4. ASSUME NEW f \in Evals, StartDocker(f) PROVE Goal
  BY <1>0, <1>4 DEF StartDocker, Taken
<1>5. ASSUME NEW f \in Evals, ContainerStages(f) PROVE Goal
  BY <1>0, <1>5 DEF ContainerStages
<1>6. ASSUME NEW f \in Evals, NEW p \in EvalPaths, AgentStep(f, p) PROVE Goal
  BY <1>0, <1>6 DEF AgentStep
<1>7. ASSUME NEW f \in Evals, NEW code \in {"exit0", "exit1"}, AgentEnds(f, code)
      PROVE  Goal
  BY <1>0, <1>7 DEF AgentEnds
<1>8. ASSUME NEW f \in Evals, ContainerFails(f) PROVE Goal
  BY <1>0, <1>8 DEF ContainerFails
<1>9. ASSUME NEW f \in Evals, ContainerSyncs(f) PROVE Goal
  BY <1>0, <1>9 DEF ContainerSyncs
<1>10. ASSUME NEW f \in Evals, LocalReturns(f) PROVE Goal
  <2>1. item[f] = "agent" /\ f # e
    BY <1>10 DEF LocalReturns
  <2>2. result'[e] = result[e] /\ item'[e] = item[e] /\ box'[e] = box[e]
    BY <1>10, <1>0, <2>1 DEF LocalReturns, Returns
  <2> QED BY <2>2
<1>11. ASSUME NEW f \in Evals, DockerReturns(f) PROVE Goal
  <2>1. item[f] = "agent" /\ f # e
    BY <1>11 DEF DockerReturns
  <2>2. result'[e] = result[e] /\ item'[e] = item[e] /\ box'[e] = box[e]
    BY <1>11, <1>0, <2>1 DEF DockerReturns, Returns
  <2> QED BY <2>2
<1>12. ASSUME NEW f \in Evals, RunnerRaises(f) PROVE Goal
  <2>1. item[f] = "queued" /\ f # e
    BY <1>12 DEF RunnerRaises, Taken
  <2>2. result'[e] = result[e] /\ item'[e] = item[e] /\ box'[e] = box[e]
    BY <1>12, <1>0, <2>1 DEF RunnerRaises
  <2> QED BY <2>2
<1>13. ASSUME NEW f \in Evals, Reap(f) PROVE Goal
  BY <1>0, <1>13 DEF Reap
<1>14. CASE WriteSummary
  BY <1>14 DEF WriteSummary
<1>15. ASSUME NEW graded \in SUBSET Evals, NEW passed \in SUBSET Evals,
              RenderReport(graded, passed)
       PROVE  Goal
  BY <1>15 DEF RenderReport
<1>16. CASE UNCHANGED evalVars
  BY <1>16 DEF evalVars
<1> HIDE DEF Goal, Settled, Alive
<1> QED
  BY <1>1, <1>2, <1>3, <1>4, <1>5, <1>6, <1>7, <1>8, <1>9, <1>10, <1>11, <1>12, <1>13, <1>14,
     <1>15, <1>16
  DEF EvalNext, WorkerStep, BoxStep

\* Only the return of a runner, or the exception it raises, settles an eval, with a
\* result that says of the process and of the disk how they are.
LEMMA ResultTold ==
    ASSUME EvalInv, [EvalNext]_evalVars, NEW e \in Evals, ~Settled(e)
    PROVE  \/ ~Settled(e)' /\ result'[e] = result[e]
           \/ /\ Settled(e)' /\ result'[e].why # "none"
              /\ result'[e].rc # 0 <=> Failed(e)'
              /\ result'[e].why = "returned" =>
                    /\ box'[e] \in {"exit0", "exit1"}
                    /\ result'[e].steps = transcript'[Dir(e)]
                    /\ result'[e].files = Present(artifacts'[Dir(e)])
                    /\ layout' = layout
<1> DEFINE Same == ~Settled(e)' /\ result'[e] = result[e]
           Told == /\ Settled(e)' /\ result'[e].why # "none"
                   /\ result'[e].rc # 0 <=> Failed(e)'
                   /\ result'[e].why = "returned" =>
                         /\ box'[e] \in {"exit0", "exit1"}
                         /\ result'[e].steps = transcript'[Dir(e)]
                         /\ result'[e].files = Present(artifacts'[Dir(e)])
                         /\ layout' = layout
<1> SUFFICES Same \/ Told
  OBVIOUS
<1> USE DEF Settled
<1>0. item \in [Evals -> {"idle", "queued", "agent", "done", "reaped"}]
      /\ result \in [Evals -> Results]
      /\ box \in [Evals -> Alive \cup {"none", "exit0", "exit1", "killed"}]
  BY DEF EvalInv, EvalTypeOK
<1>1. ASSUME NEW rebuild \in BOOLEAN, SetUpImage(rebuild) PROVE Same
  BY <1>0, <1>1 DEF SetUpImage
<1>2. ASSUME NEW mode \in {"docker", "local"}, NEW wanted \in SUBSET Evals,
             EvalStart(mode, wanted)
      PROVE  Same
  BY <1>0, <1>2 DEF EvalStart
<1>3. ASSUME NEW f \in Evals, StartLocal(f) \/ StartDocker(f) PROVE Same
  BY <1>0, <1>3 DEF StartLocal, StartDocker
<1>4. ASSUME NEW f \in Evals, BoxStep(f) PROVE Same
  BY <1>4 DEF BoxStep, ContainerStages, AgentStep, AgentEnds, ContainerFails, ContainerSyncs
<1>5. ASSUME NEW f \in Evals, NEW w \in Waited(f), item[f] = "agent",
             result' = [result EXCEPT ![f] = [why |-> w[1], rc |-> w[2],
                           steps |-> transcript[Dir(f)], files |-> Present(artifacts'[Dir(f)])]],
             item' = [item EXCEPT ![f] = "done"], UNCHANGED <<layout, transcript>>,
             box[e] \in {"exit0", "exit1"} => box'[e] = box[e]
      PROVE  Same \/ Told
  <2>1. CASE f # e
    BY <1>0, <1>5, <2>1
  <2>2. CASE f = e
    <3>1. /\ w[1] \in {"returned", "timeout"}
          /\ w[1] = "returned" => box[e] \in {"exit0", "exit1"}
          /\ w[2] # 0 <=> w[1] = "timeout" \/ box[e] = "exit1"
          /\ box[e] \in {"exit0", "exit1"} => w[1] = "returned"
      BY <1>5, <2>2, WaitedTyped
    <3>2. /\ result'[e].why = w[1] /\ result'[e].rc = w[2]
          /\ result'[e].steps = transcript'[Dir(e)]
          /\ result'[e].files = Present(artifacts'[Dir(e)])
          /\ Settled(e)'
      BY <1>0, <1>5, <2>2
    <3> QED BY <1>5, <3>1, <3>2 DEF Failed
  <2> QED BY <2>1, <2>2
<1>6. ASSUME NEW f \in Evals, LocalReturns(f) PROVE Same \/ Told
  <2>1. /\ item[f] = "agent" /\ Returns(f) /\ UNCHANGED <<layout, transcript>>
        /\ box[e] \in {"exit0", "exit1"} => box'[e] = box[e]
    BY <1>0, <1>6 DEF LocalReturns
  <2> QED BY <1>5, <2>1 DEF Returns
<1>7. ASSUME NEW f \in Evals, DockerReturns(f) PROVE Same \/ Told
  <2>1. /\ item[f] = "agent" /\ Returns(f) /\ UNCHANGED <<layout, transcript, box>>
    BY <1>7 DEF DockerReturns
  <2> QED BY <1>5, <2>1 DEF Returns
<1>8. ASSUME NEW f \in Evals, RunnerRaises(f) PROVE Same \/ Told
  <2>1. /\ item' = [item EXCEPT ![f] = "done"]
        /\ result' = [result EXCEPT ![f] =
                         [why |-> "error", rc |-> -1, steps |-> 0, files |-> {}]]
    BY <1>8 DEF RunnerRaises
  <2>2. CASE f # e
    BY <1>0, <2>1, <2>2
  <2>3. CASE f = e
    <3>1. result'[e].why = "error" /\ result'[e].rc = -1 /\ Settled(e)'
      BY <1>0, <2>1, <2>3
    <3> QED BY <3>1 DEF Failed
  <2> QED BY <2>2, <2>3
<1>9. ASSUME NEW f \in Evals, Reap(f) PROVE Same
  BY <1>0, <1>9 DEF Reap
<1>10. CASE WriteSummary
  BY <1>10 DEF WriteSummary
<1>11. ASSUME NEW graded \in SUBSET Evals, NEW passed \in SUBSET Evals,
              RenderReport(graded, passed)
       PROVE  Same
  BY <1>11 DEF RenderReport
<1>12. CASE UNCHANGED evalVars
  BY <1>12 DEF evalVars
<1> HIDE DEF Same, Told, Settled
<1> QED
  BY <1>1, <1>2, <1>3, <1>4, <1>6, <1>7, <1>8, <1>9, <1>10, <1>11, <1>12
  DEF EvalNext, WorkerStep

-----------------------------------------------------------------------------
(* The summary accounts for every eval. *)

AgentsEnded == main \in {"summarised", "reported"}

\* A result tells how the process ended, and the summary counts all of them.
AccountInv ==
    /\ \A e \in Evals : Settled(e) =>
          /\ result[e].rc # 0 <=> Failed(e)
          /\ result[e].why = "returned" => box[e] \in {"exit0", "exit1"}
    /\ AgentsEnded =>
          /\ \A e \in Evals : item[e] \in {"idle", "reaped"}
          /\ summary.executed = summary.total
          /\ summary.failures = Cardinality({e \in Submitted : result[e].rc # 0})

LEMMA AccountInit == EvalInit => AccountInv
BY DEF EvalInit, AccountInv, Settled, AgentsEnded

\* With every eval reaped, nothing changes what was counted.
LEMMA OverStands ==
    ASSUME AgentsEnded, \A e \in Evals : item[e] \in {"idle", "reaped"}, [EvalNext]_evalVars
    PROVE  UNCHANGED <<item, result, summary>>
<1> DEFINE Goal == UNCHANGED <<item, result, summary>>
<1> SUFFICES Goal
  OBVIOUS
<1> USE DEF AgentsEnded
<1>1. ASSUME NEW rebuild \in BOOLEAN, SetUpImage(rebuild) PROVE Goal
  BY <1>1 DEF SetUpImage
<1>2. ASSUME NEW mode \in {"docker", "local"}, NEW wanted \in SUBSET Evals,
             EvalStart(mode, wanted)
      PROVE  Goal
  <2>1. main = "start"
    BY <1>2 DEF EvalStart
  <2> QED BY <2>1
<1>3. ASSUME NEW f \in Evals, WorkerStep(f) PROVE Goal
  BY <1>3 DEF WorkerStep, StartLocal, StartDocker, RunnerRaises, Taken, LocalReturns,
              DockerReturns
<1>4. ASSUME NEW f \in Evals, BoxStep(f) PROVE Goal
  BY <1>4 DEF BoxStep, ContainerStages, AgentStep, AgentEnds, ContainerFails, ContainerSyncs
<1>5. ASSUME NEW f \in Evals, Reap(f) PROVE Goal
  BY <1>5 DEF Reap
<1>6. CASE WriteSummary
  BY <1>6 DEF WriteSummary
<1>7. ASSUME NEW graded \in SUBSET Evals, NEW passed \in SUBSET Evals,
             RenderReport(graded, passed)
      PROVE  Goal
  BY <1>7 DEF RenderReport
<1>8. CASE UNCHANGED evalVars
  BY <1>8 DEF evalVars
<1> HIDE DEF Goal, AgentsEnded
<1> QED BY <1>1, <1>2, <1>3, <1>4, <1>5, <1>6, <1>7, <1>8 DEF EvalNext

\* The run is over when the summary is written.
LEMMA OverBegins ==
    ASSUME EvalInv, ~AgentsEnded, AgentsEnded', [EvalNext]_evalVars
    PROVE  WriteSummary
<1>1. ASSUME NEW rebuild \in BOOLEAN, SetUpImage(rebuild) PROVE FALSE
  BY <1>1 DEF SetUpImage, AgentsEnded
<1>2. ASSUME NEW mode \in {"docker", "local"}, NEW wanted \in SUBSET Evals,
             EvalStart(mode, wanted)
      PROVE  FALSE
  <2>1. main' \in {"running", "refused"}
    BY <1>2 DEF EvalStart
  <2> QED BY <2>1 DEF AgentsEnded
<1>3. ASSUME NEW f \in Evals, WorkerStep(f) \/ BoxStep(f) \/ Reap(f) PROVE FALSE
  BY <1>3 DEF WorkerStep, StartLocal, StartDocker, RunnerRaises, LocalReturns, DockerReturns,
              BoxStep, ContainerStages, AgentStep, AgentEnds, ContainerFails, ContainerSyncs,
              Reap, AgentsEnded
<1>4. ASSUME NEW graded \in SUBSET Evals, NEW passed \in SUBSET Evals,
             RenderReport(graded, passed)
      PROVE  FALSE
  BY <1>4 DEF RenderReport, AgentsEnded
<1>5. CASE UNCHANGED evalVars
  BY <1>5 DEF evalVars, AgentsEnded
<1> QED BY <1>1, <1>2, <1>3, <1>4, <1>5 DEF EvalNext

LEMMA AccountStep == EvalInv /\ AccountInv /\ [EvalNext]_evalVars => AccountInv'
<1> SUFFICES ASSUME EvalInv, AccountInv, [EvalNext]_evalVars PROVE AccountInv'
  OBVIOUS
<1>1. ASSUME NEW e \in Evals, Settled(e)'
      PROVE  /\ result'[e].rc # 0 <=> Failed(e)'
             /\ result'[e].why = "returned" => box'[e] \in {"exit0", "exit1"}
  <2>1. CASE Settled(e)
    <3>1. /\ result'[e] = result[e]
          /\ box[e] \in {"exit0", "exit1"} => box'[e] = box[e]
      BY <2>1, SettledStands
    <3>2. /\ result[e].rc # 0 <=> Failed(e)
          /\ result[e].why = "returned" => box[e] \in {"exit0", "exit1"}
      BY <2>1 DEF AccountInv
    <3> QED BY <3>1, <3>2 DEF Failed
  <2>2. CASE ~Settled(e)
    BY <1>1, <2>2, ResultTold
  <2> QED BY <2>1, <2>2
<1>2. ASSUME AgentsEnded'
      PROVE  /\ \A e \in Evals : item'[e] \in {"idle", "reaped"}
             /\ summary'.executed = summary'.total
             /\ summary'.failures = Cardinality({e \in Submitted' : result'[e].rc # 0})
  <2>1. CASE AgentsEnded
    <3>1. UNCHANGED <<item, result, summary>>
      BY <2>1, OverStands DEF AccountInv
    <3>2. Submitted' = Submitted
      BY <3>1 DEF Submitted
    <3> QED BY <2>1, <3>1, <3>2 DEF AccountInv
  <2>2. CASE ~AgentsEnded
    <3>1. WriteSummary
      BY <1>2, <2>2, OverBegins
    <3>2. /\ \A e \in Submitted : item[e] = "reaped"
          /\ UNCHANGED <<item, result>>
          /\ summary' = [total |-> Cardinality(Submitted),
                         executed |-> Cardinality(Reaped),
                         failures |-> Cardinality({e \in Reaped : result[e].rc # 0})]
      BY <3>1 DEF WriteSummary
    <3>3. Reaped = Submitted /\ Submitted' = Submitted
      BY <3>2 DEF Reaped, Submitted
    <3>4. \A e \in Evals : item'[e] \in {"idle", "reaped"}
      BY <3>2 DEF Submitted
    <3> QED BY <3>2, <3>3, <3>4
  <2> QED BY <2>1, <2>2
<1> QED BY <1>1, <1>2 DEF AccountInv

\* Every eval that was asked for is in the summary and is a failure there exactly
\* when its runner raised or timed out or its process failed, for any number of
\* evals and workers and whatever ends or hangs.
THEOREM EveryEvalIsAccounted == EvalSpec => []SummaryAccountsForAll
<1>1. EvalSpec => [](EvalInv /\ AccountInv)
  BY EvalInit0, EvalStep, AccountInit, AccountStep, PTL DEF EvalSpec
<1>2. AccountInv => SummaryAccountsForAll
  <2> SUFFICES ASSUME AccountInv, AgentsEnded PROVE
        /\ summary.executed = summary.total
        /\ summary.failures = Cardinality({e \in Submitted : Failed(e)})
    BY DEF SummaryAccountsForAll, AgentsEnded, Failed
  <2>1. \A e \in Submitted : Settled(e)
    BY DEF AccountInv, Submitted, Settled
  <2>2. {e \in Submitted : result[e].rc # 0} = {e \in Submitted : Failed(e)}
    BY <2>1 DEF AccountInv, Submitted
  <2> QED BY <2>2 DEF AccountInv
<1> QED BY <1>1, <1>2, PTL

-----------------------------------------------------------------------------
(* What is reported of an eval is what is on disk. *)

\* Nothing is reported before a result is there.
DiskInv ==
    /\ \A e \in Evals : result[e].why # "none" => Settled(e)
    /\ ResultsMatchDisk

LEMMA DiskInit == EvalInit => DiskInv
BY DEF EvalInit, DiskInv, ResultsMatchDisk, NoResult

LEMMA LayoutStands == [EvalNext]_evalVars => layout' = layout
<1> SUFFICES ASSUME [EvalNext]_evalVars PROVE layout' = layout
  OBVIOUS
<1>1. ASSUME NEW rebuild \in BOOLEAN, SetUpImage(rebuild) PROVE layout' = layout
  BY <1>1 DEF SetUpImage
<1>2. ASSUME NEW mode \in {"docker", "local"}, NEW wanted \in SUBSET Evals,
             EvalStart(mode, wanted)
      PROVE  layout' = layout
  BY <1>2 DEF EvalStart
<1>3. ASSUME NEW f \in Evals, WorkerStep(f) \/ BoxStep(f) \/ Reap(f) PROVE layout' = layout
  BY <1>3 DEF WorkerStep, StartLocal, StartDocker, RunnerRaises, LocalReturns, DockerReturns,
              BoxStep, ContainerStages, AgentStep, AgentEnds, ContainerFails, ContainerSyncs,
              Reap
<1>4. ASSUME NEW graded \in SUBSET Evals, NEW passed \in SUBSET Evals,
             RenderReport(graded, passed)
      PROVE  layout' = layout
  BY <1>4 DEF RenderReport
<1>5. CASE WriteSummary \/ UNCHANGED evalVars
  BY <1>5 DEF WriteSummary, evalVars
<1> QED BY <1>1, <1>2, <1>3, <1>4, <1>5 DEF EvalNext

\* The folder of an eval with an id of its own is written for that eval only, and no
\* more once its process or container has ended and its runner returned.
LEMMA FolderStands ==
    ASSUME EvalInv, [EvalNext]_evalVars, NEW e \in Evals, Unique(e), Settled(e),
           box[e] \in {"exit0", "exit1"}
    PROVE  transcript'[Dir(e)] = transcript[Dir(e)] /\ artifacts'[Dir(e)] = artifacts[Dir(e)]
<1> DEFINE Goal == transcript'[Dir(e)] = transcript[Dir(e)] /\ artifacts'[Dir(e)] = artifacts[Dir(e)]
<1> SUFFICES Goal
  OBVIOUS
<1>0. /\ transcript \in [Evals -> Nat] /\ artifacts \in [Evals -> [EvalPaths -> Origins]]
      /\ \A f \in Evals \ {e} : Dir(f) # Dir(e)
  BY DEF EvalInv, EvalTypeOK, Unique, Dir
<1>1. ASSUME NEW rebuild \in BOOLEAN, SetUpImage(rebuild) PROVE Goal
  BY <1>1 DEF SetUpImage, diskVars
<1>2. ASSUME NEW mode \in {"docker", "local"}, NEW wanted \in SUBSET Evals,
             EvalStart(mode, wanted)
      PROVE  Goal
  BY <1>2 DEF EvalStart, diskVars
<1>3. ASSUME NEW f \in Evals, StartLocal(f) PROVE Goal
  <2>1. f # e
    BY <1>3 DEF StartLocal, Taken, Settled
  <2> QED BY <1>0, <1>3, <2>1 DEF StartLocal
<1>4. ASSUME NEW f \in Evals, StartDocker(f) \/ RunnerRaises(f) PROVE Goal
  BY <1>4 DEF StartDocker, RunnerRaises
<1>5. ASSUME NEW f \in Evals, ContainerStages(f) PROVE Goal
  <2>1. f # e
    BY <1>5 DEF ContainerStages
  <2> QED BY <1>0, <1>5, <2>1 DEF ContainerStages
<1>6. ASSUME NEW f \in Evals, NEW p \in EvalPaths, AgentStep(f, p) PROVE Goal
  <2>1. f # e
    BY <1>6 DEF AgentStep
  <2> QED BY <1>0, <1>6, <2>1 DEF AgentStep
<1>7. ASSUME NEW f \in Evals, NEW code \in {"exit0", "exit1"}, AgentEnds(f, code)
      PROVE  Goal
  BY <1>7 DEF AgentEnds, diskVars
<1>8. ASSUME NEW f \in Evals, ContainerFails(f) PROVE Goal
  BY <1>8 DEF ContainerFails, diskVars
<1>9. ASSUME NEW f \in Evals, ContainerSyncs(f) PROVE Goal
  <2>1. f # e
    BY <1>9 DEF ContainerSyncs
  <2> QED BY <1>0, <1>9, <2>1 DEF ContainerSyncs
<1>10. ASSUME NEW f \in Evals, LocalReturns(f) PROVE Goal
  <2>1. f # e
    BY <1>10 DEF LocalReturns, Settled
  <2> QED BY <1>0, <1>10, <2>1 DEF LocalReturns
<1>11. ASSUME NEW f \in Evals, DockerReturns(f) PROVE Goal
  BY <1>11 DEF DockerReturns
<1>12. ASSUME NEW f \in Evals, Reap(f) PROVE Goal
  BY <1>12 DEF Reap, diskVars
<1>13. CASE WriteSummary
  BY <1>13 DEF WriteSummary, diskVars
<1>14. ASSUME NEW graded \in SUBSET Evals, NEW passed \in SUBSET Evals,
              RenderReport(graded, passed)
       PROVE  Goal
  BY <1>14 DEF RenderReport, diskVars
<1>15. CASE UNCHANGED evalVars
  BY <1>15 DEF evalVars, diskVars
<1> HIDE DEF Goal
<1> QED
  BY <1>1, <1>2, <1>3, <1>4, <1>5, <1>6, <1>7, <1>8, <1>9, <1>10, <1>11, <1>12, <1>13, <1>14,
     <1>15
  DEF EvalNext, WorkerStep, BoxStep

LEMMA DiskStep ==
    EvalInv /\ AccountInv /\ DiskInv /\ [EvalNext]_evalVars => DiskInv'
<1> SUFFICES ASSUME EvalInv, AccountInv, DiskInv, [EvalNext]_evalVars,
                    NEW e \in Evals
             PROVE  /\ result'[e].why # "none" => Settled(e)'
                    /\ Unique(e)' /\ result'[e].why = "returned" =>
                         /\ result'[e].steps = transcript'[Dir(e)']
                         /\ result'[e].files = Present(artifacts'[Dir(e)'])
  BY DEF DiskInv, ResultsMatchDisk, Dir, Present
<1>1. Unique(e)' = Unique(e) /\ Dir(e)' = Dir(e)
  BY LayoutStands DEF Unique, Dir
<1>2. CASE Settled(e)
  <2>1. Settled(e)' /\ result'[e] = result[e]
    BY <1>2, SettledStands
  <2>2. ASSUME Unique(e), result[e].why = "returned"
        PROVE  /\ result[e].steps = transcript'[Dir(e)]
               /\ result[e].files = Present(artifacts'[Dir(e)])
    <3>1. box[e] \in {"exit0", "exit1"}
      BY <1>2, <2>2 DEF AccountInv
    <3>2. transcript'[Dir(e)] = transcript[Dir(e)] /\ artifacts'[Dir(e)] = artifacts[Dir(e)]
      BY <1>2, <2>2, <3>1, FolderStands
    <3> QED BY <2>2, <3>2 DEF DiskInv, ResultsMatchDisk
  <2> QED BY <1>1, <2>1, <2>2
<1>3. CASE ~Settled(e)
  BY <1>1, <1>3, ResultTold DEF DiskInv
<1> QED BY <1>2, <1>3

\* What metrics.json says of an eval whose runner returned in time stays true of its
\* folder, whatever the other evals do and however long the run goes on.
THEOREM MetricsStayTrue == EvalSpec => []ResultsMatchDisk
<1>1. EvalSpec => [](EvalInv /\ AccountInv /\ DiskInv)
  BY EvalInit0, EvalStep, AccountInit, AccountStep, DiskInit, DiskStep, PTL DEF EvalSpec
<1>2. DiskInv => ResultsMatchDisk
  BY DEF DiskInv
<1> QED BY <1>1, <1>2, PTL

-----------------------------------------------------------------------------
(* Every eval has a clean room. *)

OwnSpace(e) == \A p \in EvalPaths : space[SpaceOf(e)][p] \notin Evals \ {e}
OwnArtifacts(e) ==
    \A p \in Present(artifacts[Dir(e)]) :
        \/ artifacts[Dir(e)][p] = e
        \/ isolation = "docker" /\ artifacts[Dir(e)][p] \notin Evals

\* In a directory, what is there and was not before claude started is claude's.
FreshIsOwn(e) ==
    isolation = "local" /\ item[e] = "agent" =>
        \A p \in EvalPaths : space[Dir(e)][p] = "none" \/ p \in before[e] \/ space[Dir(e)][p] = e

RoomInv ==
    /\ \A e \in Evals : Unique(e) => OwnSpace(e) /\ OwnArtifacts(e) /\ FreshIsOwn(e)
    /\ isolation = "docker" => hostSkill = "pristine"
    /\ isolation = "local" => \A e \in Evals : box[e] \notin {"starting", "syncing"}
    /\ main = "start" =>
          /\ hostSkill = "pristine"
          /\ \A e \in Evals : space[e] = NoFiles /\ artifacts[e] = NoFiles

LEMMA RoomInit == EvalInit => RoomInv
<1> SUFFICES ASSUME EvalInit PROVE RoomInv
  OBVIOUS
<1>1. EvalInv
  BY EvalInit0
<1>2. \A e \in Evals : Dir(e) \in Evals /\ SpaceOf(e) \in Evals
  BY <1>1, DirTyped DEF EvalInv
<1>3. ASSUME NEW e \in Evals PROVE OwnSpace(e) /\ OwnArtifacts(e) /\ FreshIsOwn(e)
  BY <1>2, EvalAssumption DEF EvalInit, OwnSpace, OwnArtifacts, FreshIsOwn, NoFiles, Present
<1> QED BY <1>3 DEF EvalInit, RoomInv

\* Steps that leave workspaces, artifacts and snapshots alone.
LEMMA RoomStands ==
    ASSUME RoomInv, UNCHANGED <<layout, isolation, space, hostSkill, before, artifacts>>,
           isolation = "local" => \A e \in Evals : /\ item'[e] = "agent" => item[e] = "agent"
                                                   /\ box'[e] \notin {"starting", "syncing"},
           main' = "start" => main = "start"
    PROVE  RoomInv'
<1>1. ASSUME NEW e \in Evals, Unique(e)'
      PROVE  (OwnSpace(e) /\ OwnArtifacts(e) /\ FreshIsOwn(e))'
  <2>1. Unique(e) /\ Dir(e)' = Dir(e) /\ SpaceOf(e)' = SpaceOf(e)
    BY <1>1 DEF Unique, Dir, SpaceOf
  <2> QED BY <2>1 DEF RoomInv, OwnSpace, OwnArtifacts, FreshIsOwn, Present
<1> QED BY <1>1 DEF RoomInv

\* Staging puts nothing into a workspace that claude wrote elsewhere.
LEMMA StagedBy ==
    ASSUME NEW old \in [EvalPaths -> Origins], NEW e \in Evals, NEW fixtures,
           NEW p \in EvalPaths
    PROVE  Staged(old, e, fixtures)[p] \in Evals => Staged(old, e, fixtures)[p] = old[p]
BY EvalAssumption DEF Staged, Overlay

LEMMA RoomStep ==
    EvalInv /\ RoomInv /\ [EvalNext]_evalVars => RoomInv'
<1> SUFFICES ASSUME EvalInv, RoomInv, [EvalNext]_evalVars PROVE RoomInv'
  OBVIOUS
<1>0. /\ item \in [Evals -> {"idle", "queued", "agent", "done", "reaped"}]
      /\ box \in [Evals -> Alive \cup {"none", "exit0", "exit1", "killed"}]
      /\ space \in [Evals -> [EvalPaths -> Origins]]
      /\ artifacts \in [Evals -> [EvalPaths -> Origins]]
      /\ before \in [Evals -> SUBSET EvalPaths]
      /\ isolation \in {"docker", "local"}
      /\ \A e \in Evals : /\ Dir(e) \in Evals /\ SpaceOf(e) \in Evals
                          /\ main = "start" => item[e] = "idle" /\ box[e] = "none"
  BY DirTyped DEF EvalInv, EvalTypeOK, PhaseInv
<1>00. layout' = layout /\ \A e : Dir(e)' = Dir(e) /\ Unique(e)' = Unique(e)
  BY LayoutStands DEF Dir, Unique
<1>1. ASSUME NEW rebuild \in BOOLEAN, SetUpImage(rebuild) PROVE RoomInv'
  BY <1>1, RoomStands DEF SetUpImage, diskVars, RoomInv
<1>2. ASSUME NEW mode \in {"docker", "local"}, NEW wanted \in SUBSET Evals,
             EvalStart(mode, wanted)
      PROVE  RoomInv'
  <2>1. /\ main = "start" /\ main' \in {"running", "refused"}
        /\ UNCHANGED <<layout, box, space, hostSkill, artifacts>>
        /\ \A e \in Evals : item'[e] # "agent"
    <3>1. /\ main = "start" /\ main' \in {"running", "refused"}
          /\ UNCHANGED <<layout, box, space, hostSkill, artifacts>>
      BY <1>2 DEF EvalStart, diskVars
    <3>2. \/ item' = item
          \/ item' = [e \in Evals |-> IF Dir(e) \in wanted THEN "queued" ELSE "idle"]
      BY <1>2 DEF EvalStart
    <3>3. \A e \in Evals : item[e] # "agent"
      BY <1>0, <3>1
    <3>4. \A e \in Evals : item'[e] # "agent"
      BY <3>2, <3>3
    <3> QED BY <3>1, <3>4
  <2>2. /\ hostSkill = "pristine"
        /\ \A e \in Evals : space[e] = NoFiles /\ artifacts[e] = NoFiles
    BY <2>1 DEF RoomInv
  <2>3. \A e \in Evals : SpaceOf(e)' \in Evals
    BY <1>0, <2>1 DEF SpaceOf, Dir
  <2>4. ASSUME NEW e \in Evals PROVE (OwnSpace(e) /\ OwnArtifacts(e) /\ FreshIsOwn(e))'
    BY <1>0, <1>00, <2>1, <2>2, <2>3, EvalAssumption
    DEF OwnSpace, OwnArtifacts, FreshIsOwn, NoFiles, Present
  <2> QED BY <1>0, <2>1, <2>2, <2>4 DEF RoomInv
<1>3. ASSUME NEW f \in Evals, isolation = "local",
             space' = [space EXCEPT ![Dir(f)] = Staged(space[Dir(f)], f, layout.fixtures[f])],
             \/ /\ before' = [before EXCEPT ![f] = SnapshotBefore(f)]
                /\ \A e \in Evals \ {f} : item'[e] = item[e]
             \/ before' = before /\ \A e \in Evals : item'[e] = "agent" => item[e] = "agent" /\ e # f,
             \A e \in Evals : box'[e] \notin {"starting", "syncing"},
             UNCHANGED <<isolation, hostSkill, artifacts>>, main' # "start"
      PROVE  RoomInv'
  <2> DEFINE staged == Staged(space[Dir(f)], f, layout.fixtures[f])
  <2>1. /\ \A d \in Evals : space'[d] = IF d = Dir(f) THEN staged ELSE space[d]
        /\ \A p \in EvalPaths : staged[p] \in Evals => staged[p] = space[Dir(f)][p]
    <3>1. \A p \in EvalPaths : staged[p] \in Evals => staged[p] = space[Dir(f)][p]
      BY <1>0, StagedBy
    <3>2. space' = [space EXCEPT ![Dir(f)] = staged]
      BY <1>3
    <3> HIDE DEF staged
    <3> QED BY <1>0, <3>1, <3>2
  <2>2. SnapshotBefore(f) = Present(staged)
    BY DEF SnapshotBefore
  <2> HIDE DEF staged
  <2>3. ASSUME NEW e \in Evals, Unique(e)
        PROVE  (OwnSpace(e) /\ OwnArtifacts(e) /\ FreshIsOwn(e))'
    <3>1. OwnSpace(e) /\ OwnArtifacts(e) /\ FreshIsOwn(e)
      BY <2>3 DEF RoomInv
    <3>2. SpaceOf(e)' = Dir(e) /\ SpaceOf(e) = Dir(e) /\ (e # f => Dir(e) # Dir(f))
      BY <1>00, <1>3, <2>3 DEF SpaceOf, Unique, Dir
    <3>3. OwnSpace(e)'
      BY <1>0, <2>1, <3>1, <3>2 DEF OwnSpace
    <3>4. OwnArtifacts(e)'
      BY <1>00, <1>3, <3>1 DEF OwnArtifacts, Present
    <3>5. FreshIsOwn(e)'
      <4>1. CASE e = f
        BY <1>0, <1>00, <1>3, <2>1, <2>2, <4>1 DEF FreshIsOwn, Present
      <4>2. CASE e # f
        BY <1>0, <1>00, <1>3, <2>1, <3>1, <3>2, <4>2 DEF FreshIsOwn
      <4> QED BY <4>1, <4>2
    <3> QED BY <3>3, <3>4, <3>5
  <2> QED BY <1>00, <1>3, <2>3 DEF RoomInv
<1>4. ASSUME NEW f \in Evals, StartLocal(f) PROVE RoomInv'
  <2>1. \A e \in Evals : box'[e] \notin {"starting", "syncing"}
    BY <1>0, <1>4 DEF StartLocal, RoomInv
  <2>2. main' # "start" /\ \A e \in Evals \ {f} : item'[e] = item[e]
    BY <1>0, <1>4 DEF StartLocal, Taken
  <2> QED BY <1>3, <1>4, <2>1, <2>2 DEF StartLocal
<1>5. ASSUME NEW f \in Evals, StartDocker(f) PROVE RoomInv'
  BY <1>5, RoomStands DEF StartDocker
<1>6. ASSUME NEW f \in Evals, ContainerStages(f) PROVE RoomInv'
  <2> DEFINE fixtures == IF layout.fixtures[f] = {} THEN {} ELSE fixturesIn[Dir(f)]
             staged == Staged(NoFiles, f, fixtures)
  <2>1. /\ isolation = "docker" /\ isolation' = isolation /\ main' # "start"
        /\ UNCHANGED <<hostSkill, artifacts, item, before>>
    BY <1>0, <1>6 DEF ContainerStages, RoomInv
  <2>2. \A p \in EvalPaths : staged[p] \notin Evals
    BY NoFilesTyped, StagedBy, EvalAssumption DEF NoFiles
  <2>3. space' = [space EXCEPT ![f] = staged]
    BY <1>6 DEF ContainerStages
  <2> HIDE DEF staged
  <2>4. ASSUME NEW e \in Evals, Unique(e)
        PROVE  (OwnSpace(e) /\ OwnArtifacts(e) /\ FreshIsOwn(e))'
    <3>1. OwnSpace(e) /\ OwnArtifacts(e)
      BY <2>4 DEF RoomInv
    <3>2. SpaceOf(e)' = e /\ SpaceOf(e) = e
      BY <2>1 DEF SpaceOf
    <3>3. OwnSpace(e)'
      BY <1>0, <2>2, <2>3, <3>1, <3>2 DEF OwnSpace
    <3>4. OwnArtifacts(e)' /\ FreshIsOwn(e)'
      BY <1>00, <2>1, <3>1 DEF OwnArtifacts, FreshIsOwn, Present
    <3> QED BY <3>3, <3>4
  <2> QED BY <1>00, <2>1, <2>4 DEF RoomInv
<1>7. ASSUME NEW f \in Evals, NEW p \in EvalPaths, AgentStep(f, p) PROVE RoomInv'
  <2>1. /\ UNCHANGED <<isolation, artifacts, item, box, before, main>> /\ main # "start"
        /\ \/ isolation = "local" /\ UNCHANGED space
           \/ space' = [space EXCEPT ![SpaceOf(f)][p] = f] /\ UNCHANGED hostSkill
    BY <1>0, <1>7 DEF AgentStep
  <2>2. isolation = "docker" => UNCHANGED hostSkill
    BY <2>1, <1>7 DEF AgentStep
  <2>3. \A d \in Evals, q \in EvalPaths :
            space'[d][q] = space[d][q] \/ (d = SpaceOf(f) /\ space'[d][q] = f)
    BY <1>0, <2>1
  <2>4. ASSUME NEW e \in Evals, Unique(e)
        PROVE  (OwnSpace(e) /\ OwnArtifacts(e) /\ FreshIsOwn(e))'
    <3>1. OwnSpace(e) /\ OwnArtifacts(e) /\ FreshIsOwn(e)
      BY <2>4 DEF RoomInv
    <3>2. SpaceOf(e)' = SpaceOf(e) /\ (e # f => SpaceOf(e) # SpaceOf(f))
      BY <1>00, <2>1, <2>4 DEF SpaceOf, Unique, Dir
    <3>3. OwnSpace(e)'
      BY <1>0, <2>3, <3>1, <3>2 DEF OwnSpace
    <3>4. OwnArtifacts(e)'
      BY <1>00, <2>1, <3>1 DEF OwnArtifacts, Present
    <3>5. FreshIsOwn(e)'
      <4> SUFFICES ASSUME isolation = "local", item[e] = "agent", NEW q \in EvalPaths
                   PROVE  space'[Dir(e)][q] = "none" \/ q \in before[e] \/ space'[Dir(e)][q] = e
        BY <1>00, <2>1 DEF FreshIsOwn
      <4>1. Dir(e) = SpaceOf(e)
        BY DEF SpaceOf
      <4> QED BY <1>0, <2>3, <3>1, <3>2, <4>1 DEF FreshIsOwn
    <3> QED BY <3>3, <3>4, <3>5
  <2> QED BY <1>00, <2>1, <2>2, <2>4 DEF RoomInv
<1>8. ASSUME NEW f \in Evals, NEW code \in {"exit0", "exit1"}, AgentEnds(f, code)
      PROVE  RoomInv'
  <2>1. isolation = "local" => \A e \in Evals : box'[e] \notin {"starting", "syncing"}
    BY <1>0, <1>8 DEF AgentEnds, RoomInv
  <2> QED BY <1>8, <2>1, RoomStands DEF AgentEnds, diskVars
<1>9. ASSUME NEW f \in Evals, ContainerFails(f) PROVE RoomInv'
  <2>1. isolation = "local" => \A e \in Evals : box'[e] \notin {"starting", "syncing"}
    BY <1>0, <1>9 DEF ContainerFails, RoomInv
  <2> QED BY <1>9, <2>1, RoomStands DEF ContainerFails, diskVars
<1>10. ASSUME NEW f \in Evals, ContainerSyncs(f) PROVE RoomInv'
  <2>1. /\ isolation = "docker" /\ isolation' = isolation /\ main' # "start"
        /\ UNCHANGED <<hostSkill, space, item, before>>
    BY <1>0, <1>10 DEF ContainerSyncs, RoomInv
  <2>2. \A d \in Evals, p \in EvalPaths :
            \/ artifacts'[d][p] = artifacts[d][p]
            \/ d = Dir(f) /\ artifacts'[d][p] = space[f][p]
    BY <1>0, <1>10 DEF ContainerSyncs
  <2>3. ASSUME NEW e \in Evals, Unique(e)
        PROVE  (OwnSpace(e) /\ OwnArtifacts(e) /\ FreshIsOwn(e))'
    <3>1. OwnSpace(e) /\ OwnArtifacts(e) /\ FreshIsOwn(e)
      BY <2>3 DEF RoomInv
    <3>2. SpaceOf(e)' = e /\ SpaceOf(e) = e /\ (e # f => Dir(e) # Dir(f))
      BY <1>00, <2>1, <2>3 DEF SpaceOf, Unique, Dir
    <3>3. OwnSpace(e)' /\ FreshIsOwn(e)'
      BY <1>00, <2>1, <3>1, <3>2 DEF OwnSpace, FreshIsOwn
    <3>4. OwnArtifacts(e)'
      BY <1>0, <1>00, <2>1, <2>2, <3>1, <3>2 DEF OwnArtifacts, OwnSpace, Present
    <3> QED BY <3>3, <3>4
  <2> QED BY <1>00, <2>1, <2>3 DEF RoomInv
<1>11. ASSUME NEW f \in Evals, LocalReturns(f) PROVE RoomInv'
  <2>1. /\ isolation = "local" /\ isolation' = isolation /\ item[f] = "agent"
        /\ UNCHANGED <<hostSkill, space, before, main>> /\ main # "start"
        /\ \A e \in Evals : item'[e] = "agent" => item[e] = "agent"
        /\ \A e \in Evals : box'[e] \notin {"starting", "syncing"}
    BY <1>0, <1>11 DEF LocalReturns, Returns, RoomInv
  <2>2. \A d \in Evals, p \in EvalPaths :
            \/ artifacts'[d][p] = artifacts[d][p]
            \/ /\ d = Dir(f) /\ p \in Present(space[d]) \ before[f]
               /\ artifacts'[d][p] = space[d][p]
    BY <1>0, <1>11 DEF LocalReturns, Collected
  <2>3. ASSUME NEW e \in Evals, Unique(e)
        PROVE  (OwnSpace(e) /\ OwnArtifacts(e) /\ FreshIsOwn(e))'
    <3>1. OwnSpace(e) /\ OwnArtifacts(e) /\ FreshIsOwn(e)
      BY <2>3 DEF RoomInv
    <3>2. SpaceOf(e)' = SpaceOf(e) /\ (e # f => Dir(e) # Dir(f))
      BY <1>00, <2>1, <2>3 DEF SpaceOf, Unique, Dir
    <3>3. OwnSpace(e)' /\ FreshIsOwn(e)'
      BY <1>00, <2>1, <3>1, <3>2 DEF OwnSpace, FreshIsOwn
    <3>4. OwnArtifacts(e)'
      BY <1>0, <1>00, <2>1, <2>2, <3>1, <3>2 DEF OwnArtifacts, FreshIsOwn, Present
    <3> QED BY <3>3, <3>4
  <2> QED BY <1>00, <2>1, <2>3 DEF RoomInv
<1>12. ASSUME NEW f \in Evals, DockerReturns(f) PROVE RoomInv'
  BY <1>12, RoomStands DEF DockerReturns
<1>13. ASSUME NEW f \in Evals, RunnerRaises(f) PROVE RoomInv'
  <2>1. /\ main # "start" /\ UNCHANGED <<main, isolation, hostSkill, artifacts, before, box>>
        /\ \A e \in Evals : item'[e] = "agent" => item[e] = "agent" /\ e # f
        /\ \/ UNCHANGED space
           \/ /\ isolation = "local"
              /\ space' = [space EXCEPT ![Dir(f)] =
                              Staged(space[Dir(f)], f, layout.fixtures[f])]
    BY <1>0, <1>13 DEF RunnerRaises, Taken
  <2>2. isolation = "local" => \A e \in Evals : box'[e] \notin {"starting", "syncing"}
    BY <2>1 DEF RoomInv
  <2>3. CASE UNCHANGED space
    BY <1>00, <2>1, <2>2, <2>3, RoomStands
  <2>4. CASE /\ isolation = "local"
             /\ space' = [space EXCEPT ![Dir(f)] =
                             Staged(space[Dir(f)], f, layout.fixtures[f])]
    BY <1>3, <2>1, <2>2, <2>4
  <2> QED BY <2>1, <2>3, <2>4
<1>14. ASSUME NEW f \in Evals, Reap(f) PROVE RoomInv'
  <2>1. \A e \in Evals : item'[e] = "agent" => item[e] = "agent"
    BY <1>0, <1>14 DEF Reap
  <2> QED BY <1>14, <2>1, RoomStands DEF Reap, diskVars, RoomInv
<1>15. CASE WriteSummary
  BY <1>15, RoomStands DEF WriteSummary, diskVars, RoomInv
<1>16. ASSUME NEW graded \in SUBSET Evals, NEW passed \in SUBSET Evals,
              RenderReport(graded, passed)
       PROVE  RoomInv'
  BY <1>16, RoomStands DEF RenderReport, diskVars, RoomInv
<1>17. CASE UNCHANGED evalVars
  BY <1>17, RoomStands DEF evalVars, diskVars, RoomInv
<1> QED
  BY <1>1, <1>2, <1>4, <1>5, <1>6, <1>7, <1>8, <1>9, <1>10, <1>11, <1>12, <1>13, <1>14,
     <1>15, <1>16, <1>17
  DEF EvalNext, WorkerStep, BoxStep

\* Whatever claude writes, and however many evals run side by side in containers or
\* directories, an eval whose id is its own sees and hands over no other eval's files.
THEOREM RoomsAreClean == EvalSpec => []CleanRoom
<1>1. EvalSpec => [](EvalInv /\ RoomInv)
  BY EvalInit0, EvalStep, RoomInit, RoomStep, PTL DEF EvalSpec
<1>2. RoomInv => CleanRoom
  BY DEF RoomInv, OwnSpace, OwnArtifacts, CleanRoom
<1> QED BY <1>1, <1>2, PTL

-----------------------------------------------------------------------------
(* TriggerRun. *)


StreamPlaces == {"begun", "call0", "call1", "call2", "call3", "miss0", "miss1", "stop", "over"}

\* What the parser has kept and decided, by how far claude is in its message. Until
\* it has decided, the end of a block that names the skill finds nothing kept: a
\* name that was kept has been recognised before.
PlaceInv(r) ==
    /\ said[r] = "begun" => firstTool[r] = "none" /\ pendingTool[r] = "none"
    /\ said[r] = "begun" /\ decided[r] = "no" => spoke[r]
    /\ said[r] \in {"call0", "call1", "call2", "call3"} => firstTool[r] = "call"
    /\ said[r] \in {"miss0", "miss1"} => firstTool[r] = "miss"
    /\ said[r] = "call1" => pendingTool[r] # "open"
    /\ said[r] \in {"call2", "call3"} /\ decided[r] = "undecided" => pendingTool[r] = "none"
    /\ said[r] = "stop" /\ decided[r] = "undecided" => firstTool[r] = "miss"
    /\ said[r] = "over" => decided[r] # "undecided"
    /\ decided[r] = "yes" => firstTool[r] = "call"
    /\ decided[r] = "no" /\ firstTool[r] = "call" => spoke[r]

TriggerInv ==
    /\ TriggerTypeOK
    /\ said \in [Probes -> StreamPlaces]
    /\ \A r \in Probes : PlaceInv(r) /\ (verdict[r] => decided[r] = "yes")

LEMMA TriggerInit0 == TriggerInit => TriggerInv
<1> SUFFICES ASSUME TriggerInit PROVE TriggerInv
  OBVIOUS
<1>1. TriggerTypeOK
  BY DEF TriggerInit, TriggerTypeOK, Busy
<1>2. said \in [Probes -> StreamPlaces]
  BY DEF TriggerInit, StreamPlaces
<1>3. ASSUME NEW r \in Probes PROVE PlaceInv(r) /\ (verdict[r] => decided[r] = "yes")
  BY <1>3 DEF TriggerInit, PlaceInv
<1> QED BY <1>1, <1>2, <1>3 DEF TriggerInv

LEMMA VerdictIs ==
    ASSUME NEW pend \in {"none", "open", "half"}
    PROVE  /\ \A event \in {"noise", "open", "delta1"} : Verdict(pend, event) = "undecided"
           /\ \A event \in {"assistantMiss", "openOther", "messageStop", "result"} :
                 Verdict(pend, event) = "no"
           /\ Verdict(pend, "assistantHit") = "yes"
           /\ Verdict(pend, "delta") = IF pend # "none" THEN "yes" ELSE "undecided"
           /\ Verdict(pend, "delta2") = IF pend = "half" THEN "yes" ELSE "undecided"
           /\ Verdict(pend, "blockStop") = IF pend # "none" THEN "no" ELSE "undecided"
BY DEF Verdict

LEMMA PendingIs ==
    ASSUME NEW pend \in {"none", "open", "half"}, NEW event
    PROVE  /\ event = "open" => Pending(pend, event) = "open"
           /\ event = "delta1" =>
                 Pending(pend, event) = IF pend = "open" THEN "half" ELSE pend
           /\ event \notin {"open", "delta1"} => Pending(pend, event) = pend
BY DEF Pending

LEMMA StepIs ==
    ASSUME NEW step \in Script
    PROVE  \/ step[1] = "begun" /\ step[2] \in {"noise", "assistantMiss"} /\ step[3] = "begun"
           \/ step[1] = "begun" /\ step[2] = "open" /\ step[3] = "call0"
           \/ step[1] = "begun" /\ step[2] \in {"open", "openOther"} /\ step[3] = "miss0"
           \/ step[1] = "begun" /\ step[2] = "messageStop" /\ step[3] = "over"
           \/ step[1] = "call0" /\ step[2] = "delta1" /\ step[3] = "call1"
           \/ step[1] = "call1" /\ step[2] = "delta2" /\ step[3] = "call2"
           \/ step[1] = "call0" /\ step[2] = "delta" /\ step[3] = "call2"
           \/ step[1] = "call2" /\ step[2] = "blockStop" /\ step[3] = "call3"
           \/ step[1] = "call3" /\ step[2] = "assistantHit" /\ step[3] = "stop"
           \/ step[1] \in {"miss0", "miss1"} /\ step[2] \in {"noise", "blockStop"}
                                           /\ step[3] = "miss1"
           \/ step[1] = "miss1" /\ step[2] = "assistantMiss" /\ step[3] = "stop"
           \/ step[1] = "stop" /\ step[2] = "messageStop" /\ step[3] = "over"
           \/ step[1] = "over" /\ step[2] = "result" /\ step[3] = "over"
BY DEF Script

\* What a run does: claude streams an event ...
LEMMA StreamKeeps ==
    ASSUME TriggerInv, NEW r \in Probes, Stream(r)
    PROVE  TriggerInv'
<1>1. PICK step \in Script :
        /\ step[1] = said[r]
        /\ said' = [said EXCEPT ![r] = step[3]]
        /\ firstTool' = [firstTool EXCEPT ![r] =
                IF firstTool[r] # "none" THEN firstTool[r]
                ELSE IF step[3] = "call0" THEN "call"
                ELSE IF step[3] = "miss0" THEN "miss" ELSE firstTool[r]]
        /\ spoke' = [spoke EXCEPT ![r] =
                spoke[r] \/ (step[2] = "assistantMiss" /\ firstTool[r] = "none")]
        /\ pendingTool' = [pendingTool EXCEPT ![r] = Pending(pendingTool[r], step[2])]
        /\ LET now == IF decided[r] # "undecided" THEN decided[r]
                      ELSE Verdict(pendingTool[r], step[2]) IN
           /\ decided' = [decided EXCEPT ![r] = now]
           /\ IF sandbox = "local" /\ now # "undecided"
              THEN /\ probe' = [probe EXCEPT ![r] = "done"]
                   /\ verdict' = [verdict EXCEPT ![r] = now = "yes"]
              ELSE /\ probe' = [probe EXCEPT ![r] = "chunk"]
                   /\ UNCHANGED verdict
        /\ UNCHANGED <<sandbox, should, scored>>
  BY DEF Stream
<1> DEFINE now == IF decided[r] # "undecided" THEN decided[r]
                  ELSE Verdict(pendingTool[r], step[2])
           kept == Pending(pendingTool[r], step[2])
           first == IF firstTool[r] # "none" THEN firstTool[r]
                    ELSE IF step[3] = "call0" THEN "call"
                    ELSE IF step[3] = "miss0" THEN "miss" ELSE firstTool[r]
           spoken == spoke[r] \/ (step[2] = "assistantMiss" /\ firstTool[r] = "none")
<1>2. /\ now \in {"undecided", "yes", "no"} /\ kept \in {"none", "open", "half"}
      /\ first \in {"none", "call", "miss"} /\ spoken \in BOOLEAN /\ step[3] \in StreamPlaces
  BY DEF TriggerInv, TriggerTypeOK, Verdict, Pending, Script, StreamPlaces
<1>3. /\ step[3] = "begun" => first = "none" /\ kept = "none"
      /\ step[3] = "begun" /\ now = "no" => spoken
      /\ step[3] \in {"call0", "call1", "call2", "call3"} => first = "call"
      /\ step[3] \in {"miss0", "miss1"} => first = "miss"
      /\ step[3] = "call1" => kept # "open"
      /\ step[3] \in {"call2", "call3"} /\ now = "undecided" => kept = "none"
      /\ step[3] = "stop" /\ now = "undecided" => first = "miss"
      /\ step[3] = "over" => now # "undecided"
      /\ now = "yes" => first = "call"
      /\ now = "no" /\ first = "call" => spoken
  <2>1. PlaceInv(r) /\ step[1] = said[r]
    BY <1>1 DEF TriggerInv
  <2>2. /\ decided[r] \in {"undecided", "yes", "no"} /\ pendingTool[r] \in {"none", "open", "half"}
        /\ firstTool[r] \in {"none", "call", "miss"}
    BY DEF TriggerInv, TriggerTypeOK
  <2> DEFINE told == Verdict(pendingTool[r], step[2])
  <2>3. /\ step[2] \in {"noise", "open", "delta1"} => told = "undecided"
        /\ step[2] \in {"assistantMiss", "openOther", "messageStop", "result"} => told = "no"
        /\ step[2] = "assistantHit" => told = "yes"
        /\ step[2] = "delta" => told = IF pendingTool[r] # "none" THEN "yes" ELSE "undecided"
        /\ step[2] = "delta2" => told = IF pendingTool[r] = "half" THEN "yes" ELSE "undecided"
        /\ step[2] = "blockStop" => told = IF pendingTool[r] # "none" THEN "no" ELSE "undecided"
    BY <2>2, VerdictIs
  <2>4. /\ step[2] = "open" => kept = "open"
        /\ step[2] = "delta1" =>
              kept = IF pendingTool[r] = "open" THEN "half" ELSE pendingTool[r]
        /\ step[2] \notin {"open", "delta1"} => kept = pendingTool[r]
    BY <2>2, PendingIs
  <2>5. now = IF decided[r] # "undecided" THEN decided[r] ELSE told
    OBVIOUS
  <2> HIDE DEF told, now, kept
  <2>6. CASE step[1] = "begun"
    BY <2>1, <2>2, <2>3, <2>4, <2>5, <2>6, StepIs DEF PlaceInv
  <2>7. CASE step[1] \in {"call0", "call1"}
    BY <2>1, <2>2, <2>3, <2>4, <2>5, <2>7, StepIs DEF PlaceInv
  <2>8. CASE step[1] \in {"call2", "call3"}
    BY <2>1, <2>2, <2>3, <2>4, <2>5, <2>8, StepIs DEF PlaceInv
  <2>9. CASE step[1] \in {"miss0", "miss1"}
    BY <2>1, <2>2, <2>3, <2>4, <2>5, <2>9, StepIs DEF PlaceInv
  <2>10. CASE step[1] \in {"stop", "over"}
    BY <2>1, <2>2, <2>3, <2>4, <2>5, <2>10, StepIs DEF PlaceInv
  <2> QED BY <2>6, <2>7, <2>8, <2>9, <2>10, StepIs
<1> HIDE DEF now, kept, first, spoken
<1>4. TriggerTypeOK' /\ said' \in [Probes -> StreamPlaces]
  <2>1. /\ said' = [said EXCEPT ![r] = step[3]]
        /\ firstTool' = [firstTool EXCEPT ![r] = first]
        /\ spoke' = [spoke EXCEPT ![r] = spoken]
        /\ pendingTool' = [pendingTool EXCEPT ![r] = kept]
        /\ decided' = [decided EXCEPT ![r] = now]
        /\ \/ probe' = [probe EXCEPT ![r] = "done"]
           \/ probe' = [probe EXCEPT ![r] = "chunk"]
        /\ verdict' = verdict \/ verdict' = [verdict EXCEPT ![r] = now = "yes"]
        /\ UNCHANGED <<sandbox, should, scored>>
    BY <1>1 DEF now, kept, first, spoken
  <2>2. /\ said' \in [Probes -> StreamPlaces]
        /\ firstTool' \in [Probes -> {"none", "call", "miss"}]
        /\ pendingTool' \in [Probes -> {"none", "open", "half"}]
        /\ decided' \in [Probes -> {"undecided", "yes", "no"}]
        /\ probe' \in [Probes -> {"idle", "queued", "lost", "done"} \cup Busy]
    BY <1>2, <2>1 DEF TriggerInv, TriggerTypeOK, Busy
  <2>3. spoke' \in [Probes -> BOOLEAN] /\ verdict' \in [Probes -> BOOLEAN]
    BY <1>2, <2>1 DEF TriggerInv, TriggerTypeOK
  <2> QED BY <2>1, <2>2, <2>3 DEF TriggerInv, TriggerTypeOK
<1>5. ASSUME NEW x \in Probes
      PROVE  (PlaceInv(x) /\ (verdict[x] => decided[x] = "yes"))'
  <2>0. said \in [Probes -> StreamPlaces] /\ PlaceInv(x) /\ (verdict[x] => decided[x] = "yes")
    BY DEF TriggerInv
  <2>1. CASE x # r
    <3>1. /\ said'[x] = said[x] /\ firstTool'[x] = firstTool[x] /\ spoke'[x] = spoke[x]
          /\ pendingTool'[x] = pendingTool[x] /\ decided'[x] = decided[x]
          /\ verdict'[x] = verdict[x]
      BY <1>1, <2>0, <2>1 DEF now, TriggerInv, TriggerTypeOK
    <3> QED BY <2>0, <3>1 DEF PlaceInv
  <2>2. CASE x = r
    <3>1. /\ said'[x] = step[3] /\ firstTool'[x] = first /\ spoke'[x] = spoken
          /\ pendingTool'[x] = kept /\ decided'[x] = now
      BY <1>1, <2>0, <2>2 DEF now, kept, first, spoken, TriggerInv, TriggerTypeOK
    <3>2. verdict'[x] => now = "yes"
      <4>1. decided[x] = "yes" => now = "yes"
        BY <2>2 DEF now
      <4>2. verdict' = verdict \/ verdict' = [verdict EXCEPT ![r] = now = "yes"]
        BY <1>1 DEF now
      <4> QED BY <2>0, <2>2, <4>1, <4>2 DEF TriggerInv, TriggerTypeOK
    <3> QED BY <1>3, <3>1, <3>2 DEF PlaceInv
  <2> QED BY <2>1, <2>2
<1> QED BY <1>4, <1>5 DEF TriggerInv

\* ... or the runner goes on, and drops what the parser kept with the chunk.
LEMMA RunnerKeeps ==
    ASSUME TriggerInv, NEW r \in Probes, RunnerStep(r) \/ ClaudeExits(r)
    PROVE  TriggerInv'
<1>1. /\ UNCHANGED <<sandbox, should, scored, said, firstTool, spoke, decided>>
      /\ \E at \in {"blocked", "lost", "awake", "done"} : probe' = [probe EXCEPT ![r] = at]
      /\ pendingTool' = pendingTool \/ pendingTool' = [pendingTool EXCEPT ![r] = "none"]
      /\ verdict' = verdict \/ verdict' = [verdict EXCEPT ![r] = decided[r] = "yes"]
  <2>1. CASE StartProbe(r)
    BY <2>1 DEF StartProbe
  <2>2. CASE ChunkEnds(r)
    BY <2>2 DEF ChunkEnds
  <2>3. CASE ReadAgain(r) \/ LocalTimeout(r) \/ ClaudeExits(r)
    BY <2>3 DEF ReadAgain, LocalTimeout, ClaudeExits
  <2>4. CASE DockerReads(r)
    BY <2>4 DEF DockerReads
  <2> QED BY <2>1, <2>2, <2>3, <2>4 DEF RunnerStep
<1>2. /\ probe' \in [Probes -> {"idle", "queued", "lost", "done"} \cup Busy]
      /\ pendingTool' \in [Probes -> {"none", "open", "half"}]
  BY <1>1 DEF TriggerInv, TriggerTypeOK, Busy
<1>3. verdict' \in [Probes -> BOOLEAN]
  BY <1>1 DEF TriggerInv, TriggerTypeOK
<1>4. ASSUME NEW x \in Probes
      PROVE  (PlaceInv(x) /\ (verdict[x] => decided[x] = "yes"))'
  <2>1. pendingTool'[x] \in {pendingTool[x], "none"}
    BY <1>1 DEF TriggerInv, TriggerTypeOK
  <2>2. verdict'[x] => decided[x] = "yes"
    BY <1>1 DEF TriggerInv, TriggerTypeOK
  <2> QED BY <1>1, <2>1, <2>2 DEF TriggerInv, PlaceInv
<1> QED BY <1>1, <1>2, <1>3, <1>4 DEF TriggerInv, TriggerTypeOK

LEMMA TriggerStep == TriggerInv /\ [TriggerNext]_triggerVars => TriggerInv'
<1> SUFFICES ASSUME TriggerInv, [TriggerNext]_triggerVars PROVE TriggerInv'
  OBVIOUS
<1>1. ASSUME NEW mode \in {"docker", "local"}, NEW expected \in [Queries -> BOOLEAN],
             TriggerStart(mode, expected)
      PROVE  TriggerInv'
  <2>1. TriggerTypeOK'
    BY <1>1 DEF TriggerStart, TriggerInv, TriggerTypeOK
  <2> QED BY <1>1, <2>1 DEF TriggerStart, TriggerInv, PlaceInv
<1>2. CASE Score
  BY <1>2 DEF Score, TriggerInv, TriggerTypeOK, PlaceInv
<1>3. CASE UNCHANGED triggerVars
  BY <1>3 DEF triggerVars, TriggerInv, TriggerTypeOK, PlaceInv
<1> QED BY <1>1, <1>2, <1>3, StreamKeeps, RunnerKeeps DEF TriggerNext

\* Every run of a query keeps its type, whatever claude streams.
THEOREM TriggerTypeCorrect == TriggerSpec => []TriggerTypeOK
<1>1. TriggerSpec => []TriggerInv
  BY TriggerInit0, TriggerStep, PTL DEF TriggerSpec
<1>2. TriggerInv => TriggerTypeOK
  BY DEF TriggerInv
<1> QED BY <1>1, <1>2, PTL

\* For any number of queries, runs and workers and any cut of the stream into chunks,
\* the parser answers whether the first tool is the synthetic skill, or that claude
\* spoke first.
THEOREM FirstToolDecides == TriggerSpec => []VerdictIsFirstTool
<1>1. TriggerSpec => []TriggerInv
  BY TriggerInit0, TriggerStep, PTL DEF TriggerSpec
<1>2. TriggerInv => VerdictIsFirstTool
  BY DEF TriggerInv, PlaceInv, VerdictIsFirstTool
<1> QED BY <1>1, <1>2, PTL

-----------------------------------------------------------------------------
(* Scores. *)

LEMMA PositiveRate ==
    ASSUME NEW n \in Nat \ {0}, NEW num \in Nat \ {0}, NEW den \in Nat
    PROVE  ~(0 * den >= num * n)
<1>1. 0 * den = 0
  BY SMT
<1>2. num * n >= num
  BY SMT
<1> QED BY <1>1, <1>2

\* A query reaches a threshold only with a run that says so.
LEMMA ReachedFires ==
    ASSUME NEW q \in Queries, Reached(q)
    PROVE  FiredOf(q) # {}
<1> SUFFICES ASSUME FiredOf(q) = {} PROVE FALSE
  OBVIOUS
<1>1. IsFiniteSet(Probes)
  <2>1. IsFiniteSet(Queries) /\ 1 \in Int /\ RunsPerQuery \in Int
    BY TriggerAssumption
  <2>2. IsFiniteSet(1..RunsPerQuery)
    BY <2>1, FS_Interval
  <2> QED BY <2>1, <2>2, FS_Product DEF Probes
<1>2. Cardinality(RunsOf(q)) \in Nat \ {0}
  <2>1. IsFiniteSet(RunsOf(q))
    BY <1>1, FS_Subset DEF RunsOf
  <2> QED BY <2>1, FS_EmptySet, FS_CardinalityType DEF Reached
<1>3. Cardinality(FiredOf(q)) = 0
  BY FS_EmptySet
<1>4. RateNum \in Nat \ {0} /\ RateDen \in Nat
  BY TriggerAssumption
<1> QED BY <1>2, <1>3, <1>4, PositiveRate DEF Reached

\* A score that says the skill fired rests on a run in which claude took it, for any
\* threshold above 0, whatever runs raised or timed out.
THEOREM ScoresHaveEvidence == TriggerSpec => []FiredScoreHasEvidence
<1>1. TriggerSpec => []TriggerInv
  BY TriggerInit0, TriggerStep, PTL DEF TriggerSpec
<1>2. TriggerInv => FiredScoreHasEvidence
  <2> SUFFICES ASSUME TriggerInv, NEW q \in Queries, Passed(q) = should[q]
               PROVE  \E r \in Probes : r[1] = q /\ firstTool[r] = "call"
    BY DEF FiredScoreHasEvidence
  <2>1. should[q] \in BOOLEAN
    BY DEF TriggerInv, TriggerTypeOK
  <2>2. Reached(q) \in BOOLEAN
    BY DEF Reached
  <2>3. Reached(q)
    BY <2>1, <2>2 DEF Passed
  <2>4. PICK r \in FiredOf(q) : TRUE
    BY <2>3, ReachedFires
  <2>5. r \in Probes /\ r[1] = q /\ verdict[r]
    BY <2>4 DEF FiredOf, RunsOf
  <2> QED BY <2>5 DEF TriggerInv, PlaceInv
<1> QED BY <1>1, <1>2, PTL

=============================================================================
