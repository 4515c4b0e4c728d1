------------------------------ MODULE AgentBirth ------------------------------
(***************************************************************************)
(* The birth of a memory agent. The builder writes the agent's skill,      *)
(* prepass-sanctum-architecture.py reviews it, and init-sanctum.py, which  *)
(* is init-sanctum-template.py with this agent's settings, makes the       *)
(* sanctum in the owner's project: references are copied, templates filled *)
(* in, CAPABILITIES.md generated. The process may die at any step. From    *)
(* then on the agent keeps its memory in the sanctum.                      *)
(*                                                                         *)
(* The builder and the agent are language models and external. FOO stands  *)
(* for FOO-template.md in assets/ and for FOO.md in the sanctum.           *)
(***************************************************************************)
EXTENDS Naturals

CONSTANTS
    Standard,    \* STANDARD_TEMPLATES, or some of them
    Refs,        \* files of references/ besides first-breath.md
    Builds,      \* the skills the builder may make
    MaxInitDeaths    \* bound: processes that die

TemplateFiles == Standard \cup {"PULSE"}
RefFiles == Refs \cup {"first-breath"}

\* The settings of an init-sanctum.py: TEMPLATE_FILES, SKILL_ONLY_FILES, and
\* whether SKILL_NAME is the name of the folder; none if there is no script.
Scripts == [templates : SUBSET TemplateFiles, only : SUBSET RefFiles, named : BOOLEAN]
NoScript == [none |-> TRUE]
\* A skill: its templates, whether the CREED has every required section, what each
\* file of references/ is, whether first-breath.md has its sections, the script,
\* and whether SKILL.md is longer than 40 lines.
SkillTypes ==
    [assets : SUBSET TemplateFiles, creedWhole : BOOLEAN,
     refs : [RefFiles -> {"absent", "plain", "capability"}],
     breathWhole : BOOLEAN, script : Scripts \cup {NoScript}, long : BOOLEAN]

ASSUME BirthAssumption ==
    /\ {"CREED", "CAPABILITIES"} \subseteq Standard /\ MaxInitDeaths \in Nat
    /\ Builds \subseteq SkillTypes

VARIABLES
    skill,    \* the skill
    review,   \* what the prepass found of it
    sanctum,  \* _bmad/memory/: the agent's folder and one of another name
    init,     \* the step this skill's last init script is at, and its templates to come
    initDeaths    \* processes that died so far
birthVars == <<skill, review, sanctum, init, initDeaths>>

Sanctum == [exists : BOOLEAN, files : SUBSET TemplateFiles, refs : SUBSET RefFiles,
            registered : SUBSET RefFiles, learned : SUBSET TemplateFiles]
Unborn == [exists |-> FALSE, files |-> {}, refs |-> {}, registered |-> {}, learned |-> {}]
Steps == {"idle", "mkdir", "references", "templates", "capabilities", "done", "skipped"}
Running == init.at \in {"mkdir", "references", "templates", "capabilities"}

BirthTypeOK ==
    /\ skill \in Builds
    /\ review \in {"none", "not a memory agent", "findings", "clean"}
    /\ sanctum \in [{"own", "stray"} -> Sanctum]
    /\ init \in [at : Steps, left : SUBSET TemplateFiles]
    /\ initDeaths \in 0..MaxInitDeaths

BirthInit ==
    /\ skill \in Builds /\ review = "none"
    /\ sanctum = [d \in {"own", "stray"} |-> Unborn]
    /\ init = [at |-> "idle", left |-> {}] /\ initDeaths = 0

-----------------------------------------------------------------------------
(* The builder and the prepass. *)

Build(b) ==
    /\ ~Running /\ skill' = b /\ review' = "none" /\ init' = [at |-> "idle", left |-> {}]
    /\ UNCHANGED <<sanctum, initDeaths>>

\* Faulty variant of TemplatesMatch: a template the script does not list is missed.
TemplatesMatchOneWay(s) == s.script.templates \subseteq s.assets

TemplatesMatch(s) == s.script.templates = s.assets

\* The prepass has nothing to report.
Clean(s) ==
    /\ ~s.long /\ Standard \subseteq s.assets /\ s.creedWhole
    /\ s.refs["first-breath"] # "absent" /\ s.breathWhole
    /\ s.script # NoScript /\ s.script.named /\ TemplatesMatch(s)

Prepass ==
    /\ review' = IF skill.assets = {} THEN "not a memory agent"
                 ELSE IF Clean(skill) THEN "clean" ELSE "findings"
    /\ UNCHANGED <<skill, sanctum, init, initDeaths>>

-----------------------------------------------------------------------------
(* init-sanctum.py. *)

Folder == IF skill.script.named THEN "own" ELSE "stray"
Writes(f) == sanctum' = [sanctum EXCEPT ![Folder].files = @ \cup {f},
                                        ![Folder].learned = @ \ {f}]

\* Faulty variant of AlreadyBorn: the folder counts only when it is complete.
BornIfWhole == Standard \subseteq sanctum[Folder].files

AlreadyBorn == sanctum[Folder].exists

InitStarts ==
    /\ ~Running /\ skill.script # NoScript
    /\ init' = [at |-> IF AlreadyBorn THEN "skipped" ELSE "mkdir",
                left |-> skill.script.templates]
    /\ UNCHANGED <<skill, review, sanctum, initDeaths>>

InitMakesFolder ==
    /\ init.at = "mkdir" /\ init' = [init EXCEPT !.at = "references"]
    /\ sanctum' = [sanctum EXCEPT ![Folder].exists = TRUE]
    /\ UNCHANGED <<skill, review, initDeaths>>

ToCopy == {r \in RefFiles : skill.refs[r] # "absent" /\ r \notin skill.script.only}

\* copy_references, file by file, then copy_scripts; without references/ it fails.
InitCopiesReference ==
    /\ init.at = "references" /\ \E r \in RefFiles : skill.refs[r] # "absent"
    /\ IF ToCopy \subseteq sanctum[Folder].refs
       THEN init' = [init EXCEPT !.at = "templates"] /\ UNCHANGED sanctum
       ELSE \E r \in ToCopy \ sanctum[Folder].refs :
                sanctum' = [sanctum EXCEPT ![Folder].refs = @ \cup {r}] /\ UNCHANGED init
    /\ UNCHANGED <<skill, review, initDeaths>>
InitFindsNoReferences ==
    /\ init.at = "references" /\ \A r \in RefFiles : skill.refs[r] = "absent"
    /\ init' = [init EXCEPT !.at = "idle"]
    /\ UNCHANGED <<skill, review, sanctum, initDeaths>>

\* A template that is not there is skipped with a warning.
InitFillsTemplate ==
    /\ init.at = "templates"
    /\ IF init.left = {}
       THEN init' = [init EXCEPT !.at = "capabilities"] /\ UNCHANGED sanctum
       ELSE \E f \in init.left :
              /\ init' = [init EXCEPT !.left = @ \ {f}]
              /\ IF f \in skill.assets THEN Writes(f) ELSE UNCHANGED sanctum
    /\ UNCHANGED <<skill, review, initDeaths>>

Capabilities == {r \in RefFiles \ skill.script.only : skill.refs[r] = "capability"}

InitWritesCapabilities ==
    /\ init.at = "capabilities" /\ init' = [init EXCEPT !.at = "done"]
    /\ sanctum' = [sanctum EXCEPT ![Folder].files = @ \cup {"CAPABILITIES"},
                                  ![Folder].learned = @ \ {"CAPABILITIES"},
                                  ![Folder].registered = Capabilities]
    /\ UNCHANGED <<skill, review, initDeaths>>

InitDies ==
    /\ Running /\ initDeaths < MaxInitDeaths /\ initDeaths' = initDeaths + 1
    /\ init' = [init EXCEPT !.at = "idle"] /\ UNCHANGED <<skill, review, sanctum>>

\* The agent wakes in its folder and writes what it learns into it.
AgentLearns(f) ==
    /\ ~Running /\ sanctum["own"].exists
    /\ sanctum' = [sanctum EXCEPT !["own"].learned = @ \cup {f},
                                  !["own"].files = @ \cup {f}]
    /\ UNCHANGED <<skill, review, init, initDeaths>>

BirthNext ==
    \/ \E b \in Builds : Build(b)
    \/ Prepass \/ InitStarts \/ InitMakesFolder \/ InitCopiesReference
    \/ InitFindsNoReferences \/ InitFillsTemplate \/ InitWritesCapabilities \/ InitDies
    \/ \E f \in {"MEMORY", "CAPABILITIES"} \cap Standard : AgentLearns(f)

BirthSpec == BirthInit /\ [][BirthNext]_birthVars

-----------------------------------------------------------------------------
(* Properties. *)

\* A skill the prepass finds nothing wrong with is born whole: when its init script
\* ends, the agent's own folder has every standard file, and each capability that
\* is not kept in the skill is registered with its prompt beside it.
ReviewedIsBornWhole ==
    (init.at = "done" /\ review = "clean") =>
        /\ Standard \subseteq sanctum["own"].files
        /\ sanctum["own"].registered = Capabilities
        /\ Capabilities \subseteq sanctum["own"].refs
        /\ skill.assets \subseteq sanctum["own"].files

\* What the agent learned stays: no init script, run again after one that died, for
\* a skill built anew or under another name, writes over a file the agent changed.
NothingUnlearned ==
    [][sanctum["own"].learned \subseteq sanctum'["own"].learned]_birthVars

=============================================================================
