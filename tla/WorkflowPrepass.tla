--------------------------- MODULE WorkflowPrepass ---------------------------
(***************************************************************************)
(* The prepasses of the workflow builder. While the author, a language     *)
(* model and external, builds a workflow skill of numbered stage files,    *)
(* prepass-workflow-integrity.py judges SKILL.md and the stages, and       *)
(* prepass-execution-deps.py looks for stages that could run in parallel.  *)
(*                                                                         *)
(* What the patterns of the prepasses find in a text is the text: a stage  *)
(* file is the set of its faults, SKILL.md the set of its own and of the   *)
(* stage files it refers to. The workflow type and the wording findings    *)
(* (severity low) decide nothing and are left out.                         *)
(***************************************************************************)
EXTENDS Integers, Sequences, FiniteSetsExt

CONSTANTS
    Files,        \* names of files beside SKILL.md
    StageNumber(_),    \* the number NN of a stage file NN-name.md, -1 for another file
    StageTexts,   \* what a stage file may be: sets of stage faults
    HeadTexts     \* what SKILL.md may be: sets of its faults

StageFaults == {"no header", "no progression", "artifact", "many tool steps",
                "spawns subagents"}
HeadFaults == {"no frontmatter", "no name", "name not kebab", "no description",
               "no trigger phrase", "no overview", "no activation", "exit section",
               "artifact", "many tool steps"}

ASSUME PrepassAssumption ==
    /\ \A f \in Files : StageNumber(f) \in Nat \cup {-1}
    /\ StageTexts \subseteq SUBSET StageFaults /\ HeadTexts \subseteq SUBSET HeadFaults

VARIABLES
    stages,   \* the files that exist, with their texts
    head,     \* SKILL.md, or NoHead
    named,    \* the files SKILL.md refers to
    judgement,  \* what the integrity prepass said of the skill as it is
    plan      \* what the execution prepass said of it
prepassVars == <<stages, head, named, judgement, plan>>

NoHead == {"missing"}
Numbered == {f \in DOMAIN stages : StageNumber(f) # -1}
NoVerdict == [status |-> "none", gaps |-> {}]
NoPlan == [status |-> "none", groups |-> <<>>]

PrepassInit ==
    /\ stages = <<>> /\ head = NoHead /\ named = {}
    /\ judgement = NoVerdict /\ plan = NoPlan

\* Every edit makes what was said of the skill void.
Edits == judgement' = NoVerdict /\ plan' = NoPlan

AuthorWritesStage(f, faults) ==
    /\ stages' = [g \in DOMAIN stages \cup {f} |-> IF g = f THEN faults ELSE stages[g]]
    /\ Edits /\ UNCHANGED <<head, named>>
AuthorDeletesStage(f) ==
    /\ f \in DOMAIN stages /\ stages' = [g \in DOMAIN stages \ {f} |-> stages[g]]
    /\ Edits /\ UNCHANGED <<head, named>>
AuthorWritesHead(faults, refs) ==
    /\ head' = faults /\ named' = refs /\ Edits /\ UNCHANGED stages

-----------------------------------------------------------------------------
(* prepass-workflow-integrity.py. *)

HeadSeverity(fault) ==
    CASE fault \in {"no frontmatter", "no name"} -> "critical"
      [] fault = "no trigger phrase" -> "medium"
      [] OTHER -> "high"
StageSeverity(fault) == IF fault = "no header" THEN "medium" ELSE "high"

\* Without frontmatter its fields are not looked at.
HeadFindings ==
    {HeadSeverity(x) : x \in
        (head \ {"many tool steps"})
        \ IF "no frontmatter" \in head
          THEN {"no name", "name not kebab", "no description", "no trigger phrase"} ELSE {}}
StageFindings ==
    UNION {{StageSeverity(x) :
                x \in stages[f] \cap {"no header", "no progression", "artifact"}}
           : f \in Numbered}

\* cross_reference_stages: the numbers of the files, the first of them, and what is
\* missing among as many numbers as there are files.
Numbers == {StageNumber(f) : f \in Numbered}

\* Faulty variant of Expected: the range ends one number early.
ExpectedShort(first) == first..(first + Cardinality(Numbered) - 2)

Expected(first) == first..(first + Cardinality(Numbered) - 1)
Gaps == IF Numbered = {} THEN {} ELSE Expected(Min(Numbers)) \ Numbers

CrossFindings ==
    (IF named \subseteq Numbered THEN {} ELSE {"critical"})
        \cup (IF Numbered \subseteq named /\ Gaps = {} THEN {} ELSE {"medium"})

Integrity ==
    LET found == HeadFindings \cup StageFindings \cup CrossFindings IN
    /\ judgement' = IF head = NoHead THEN [status |-> "fail", gaps |-> {}]
                  ELSE [status |-> IF "critical" \in found THEN "fail"
                                   ELSE IF "high" \in found THEN "warning" ELSE "pass",
                        gaps |-> Gaps]
    /\ UNCHANGED <<stages, head, named, plan>>

-----------------------------------------------------------------------------
(* prepass-execution-deps.py. *)

\* scan_execution_deps builds no edge: no cycle and no redundancy is ever found.
Dependencies(f) == {}

\* find_parallel_groups: level by level, those with no dependency left.
Levels ==
    LET Ready(remaining) == {f \in remaining : Dependencies(f) \cap remaining = {}}
        levels[remaining \in SUBSET DOMAIN stages] ==
            IF Ready(remaining) = {} THEN <<>>
            ELSE (IF Cardinality(Ready(remaining)) > 1 THEN <<Ready(remaining)>> ELSE <<>>)
                     \o levels[remaining \ Ready(remaining)]
    IN levels[DOMAIN stages]

\* Only SKILL.md and the numbered stages may spawn subagents.
ExecutionDeps ==
    /\ LET texts == {stages[f] : f \in DOMAIN stages} \cup {head}
           helpers == {stages[f] : f \in DOMAIN stages \ Numbered}
       IN plan' = [status |-> IF \E t \in helpers : "spawns subagents" \in t THEN "fail"
                              ELSE IF \E t \in texts : "many tool steps" \in t
                              THEN "warning" ELSE "pass",
                   groups |-> Levels]
    /\ UNCHANGED <<stages, head, named, judgement>>

PrepassNext ==
    \/ \E f \in Files, faults \in StageTexts : AuthorWritesStage(f, faults)
    \/ \E f \in Files : AuthorDeletesStage(f)
    \/ \E faults \in HeadTexts, refs \in SUBSET {f \in Files : StageNumber(f) # -1} :
          AuthorWritesHead(faults, refs)
    \/ Integrity \/ ExecutionDeps

PrepassSpec == PrepassInit /\ [][PrepassNext]_prepassVars

-----------------------------------------------------------------------------
(* Properties. *)

\* The numbers between two stages that no stage has.
Missing == {n \in UNION {0..b : b \in Numbers} :
                n \notin Numbers /\ \E a \in Numbers : a < n}
\* The numbering is judged right when no two stages share a number: a gap is
\* reported exactly if some number between two stages has none, and the first
\* number that is missing is among those reported.
NumberingJudged ==
    LET distinct == \A f, g \in Numbered : StageNumber(f) = StageNumber(g) => f = g
    IN (judgement.status # "none" /\ head # NoHead /\ distinct) =>
           /\ judgement.gaps \subseteq Missing
           /\ Missing # {} => \E n \in judgement.gaps : \A m \in Missing : n <= m

=============================================================================
