--------------------------- MODULE ModuleScaffold ---------------------------
(***************************************************************************)
(* bmad-module-builder: scaffold-setup-skill.py makes the setup skill of a *)
(* module of several skills, scaffold-standalone-module.py makes a single  *)
(* skill install itself, and validate-module.py checks the structure of    *)
(* the folder. The first removes and copies trees and may die at any file. *)
(*                                                                         *)
(* Of module-help.csv the skills its rows name are kept, and whether its   *)
(* header, menu codes, references and fields are in order; the two merge   *)
(* scripts count as one file. The author of the skills is external.        *)
(***************************************************************************)
EXTENDS Naturals

CONSTANTS
    Skills,      \* the folders of the module's skills
    Setups,      \* <code>-setup, for the codes the module may be given
    HelpFiles,   \* the help entries an author may write
    MaxDeaths    \* bound: scaffolds that die half way

ASSUME ScaffoldAssumption ==
    /\ Skills \cap Setups = {}
    /\ HelpFiles \subseteq [names : SUBSET (Skills \cup Setups), clean : BOOLEAN]
    /\ MaxDeaths \in Nat

Folders == Skills \cup Setups
Template == {"SKILL.md", "module.yaml", "module-help.csv", "merge scripts"}
Standalone == {"module.yaml", "module-help.csv", "module-setup.md", "merge scripts"}
NoRows == [names |-> {}, clean |-> FALSE]
Csv == HelpFiles \cup {NoRows}

VARIABLES
    tree,     \* the files in each folder; a folder without files is not there
    filled,   \* folders whose module.yaml names code, name and description
    csv,      \* the help entries in each folder
    scaffold, \* the scaffold-setup-skill.py that runs
    deaths,   \* scaffolds that died so far
    halfGone, \* one of them died in rmtree
    validated \* what validate-module.py said of the folder as it is
scaffoldVars == <<tree, filled, csv, scaffold, deaths, halfGone, validated>>

NoScaffold == [at |-> "idle", target |-> "none", csv |-> NoRows]

ScaffoldTypeOK ==
    /\ tree \in [Folders -> SUBSET (Template \cup Standalone)]
    /\ filled \subseteq Folders /\ csv \in [Folders -> Csv]
    /\ scaffold \in [at : {"idle", "remove", "copy", "yaml", "csv"},
                     target : Setups \cup {"none"}, csv : Csv]
    /\ deaths \in 0..MaxDeaths /\ halfGone \in BOOLEAN
    /\ validated \in {"none", "pass", "fail"}

ScaffoldInit ==
    /\ tree = [d \in Folders |-> {}] /\ filled = {}
    /\ csv = [d \in Folders |-> NoRows] /\ scaffold = NoScaffold
    /\ deaths = 0 /\ halfGone = FALSE /\ validated = "none"

-----------------------------------------------------------------------------
(* The author builds a skill, takes it away, or makes it a module of its own. *)

AuthorAdds(s) ==
    /\ scaffold = NoScaffold /\ tree[s] = {}
    /\ tree' = [tree EXCEPT ![s] = {"SKILL.md"}]
    /\ validated' = "none" /\ UNCHANGED <<filled, csv, scaffold, deaths, halfGone>>
AuthorRemoves(s) ==
    /\ scaffold = NoScaffold /\ tree[s] # {}
    /\ tree' = [tree EXCEPT ![s] = {}]
    /\ csv' = [csv EXCEPT ![s] = NoRows] /\ filled' = filled \ {s}
    /\ validated' = "none" /\ UNCHANGED <<scaffold, deaths, halfGone>>
AuthorDescribes(s, rows) ==
    /\ scaffold = NoScaffold /\ "SKILL.md" \in tree[s]
    /\ tree' = [tree EXCEPT ![s] = @ \cup {"module.yaml", "module-help.csv"}]
    /\ filled' = filled \cup {s} /\ csv' = [csv EXCEPT ![s] = rows]
    /\ validated' = "none" /\ UNCHANGED <<scaffold, deaths, halfGone>>

-----------------------------------------------------------------------------
(* scaffold-setup-skill.py. *)

ScaffoldBegins(d, rows) ==
    /\ scaffold = NoScaffold
    /\ scaffold' = [at |-> "remove", target |-> d, csv |-> rows]
    /\ validated' = "none" /\ UNCHANGED <<tree, filled, csv, deaths, halfGone>>

\* rmtree, file by file.
ScaffoldRemoves ==
    LET d == scaffold.target IN
    /\ scaffold.at = "remove"
    /\ IF tree[d] = {}
       THEN scaffold' = [scaffold EXCEPT !.at = "copy"] /\ UNCHANGED <<tree, filled, csv>>
       ELSE \E f \in tree[d] :
            /\ tree' = [tree EXCEPT ![d] = @ \ {f}]
            /\ filled' = IF f = "module.yaml" THEN filled \ {d} ELSE filled
            /\ csv' = IF f = "module-help.csv" THEN [csv EXCEPT ![d] = NoRows] ELSE csv
            /\ UNCHANGED scaffold
    /\ validated' = "none" /\ UNCHANGED <<deaths, halfGone>>

\* copytree, file by file: the template's module.yaml names nothing, its CSV has
\* no rows.
ScaffoldCopies ==
    LET d == scaffold.target IN
    /\ scaffold.at = "copy"
    /\ IF tree[d] = Template
       THEN scaffold' = [scaffold EXCEPT !.at = "yaml"] /\ UNCHANGED tree
       ELSE /\ \E f \in Template \ tree[d] : tree' = [tree EXCEPT ![d] = @ \cup {f}]
            /\ UNCHANGED scaffold
    /\ validated' = "none" /\ UNCHANGED <<filled, csv, deaths, halfGone>>

\* The placeholders of SKILL.md are replaced, and module.yaml is written ...
ScaffoldWritesYaml ==
    /\ scaffold.at = "yaml" /\ scaffold' = [scaffold EXCEPT !.at = "csv"]
    /\ filled' = filled \cup {scaffold.target}
    /\ validated' = "none" /\ UNCHANGED <<tree, csv, deaths, halfGone>>

\* ... then module-help.csv.
ScaffoldWritesCsv ==
    /\ scaffold.at = "csv" /\ scaffold' = NoScaffold
    /\ csv' = [csv EXCEPT ![scaffold.target] = scaffold.csv]
    /\ validated' = "none" /\ UNCHANGED <<tree, filled, deaths, halfGone>>

ScaffoldDies ==
    /\ scaffold # NoScaffold /\ deaths < MaxDeaths
    /\ scaffold' = NoScaffold /\ deaths' = deaths + 1
    /\ halfGone' = (halfGone \/ scaffold.at = "remove")
    /\ validated' = "none" /\ UNCHANGED <<tree, filled, csv>>

(* scaffold-standalone-module.py: module-setup.md is replaced, scripts that are *)
(* there are kept, whatever their age.                                          *)
ScaffoldStandalone(s) ==
    /\ scaffold = NoScaffold
    /\ {"SKILL.md", "module.yaml"} \subseteq tree[s]
    /\ tree' = [tree EXCEPT ![s] = @ \cup {"module-setup.md", "merge scripts"}]
    /\ validated' = "none" /\ UNCHANGED <<filled, csv, scaffold, deaths, halfGone>>

-----------------------------------------------------------------------------
(* validate-module.py. *)

SkillFolders == {d \in Folders : "SKILL.md" \in tree[d]}

\* detect_standalone_module: the only skill, with a module.yaml.
StandaloneModules ==
    {d \in SkillFolders : SkillFolders = {d} /\ "module.yaml" \in tree[d]}

\* Faulty variant of CsvPasses: a CSV without rows is in order.
CsvPassesEmpty(d, skills) ==
    /\ skills \subseteq csv[d].names \/ csv[d].names = {}
    /\ csv[d].names \subseteq skills \cup {d} \cup SkillFolders

\* Checks 4 to 11: rows, in order, for every skill and for skills that exist.
CsvPasses(d, skills) ==
    /\ csv[d].names # {} /\ csv[d].clean
    /\ skills \subseteq csv[d].names
    /\ csv[d].names \subseteq skills \cup {d} \cup SkillFolders

\* Checks 2 and 3: the required files, and the required fields of module.yaml. The
\* findings modelled are critical or high; wrong column counts and references to no
\* capability are medium and fail nothing.
Passes(d, required, skills) ==
    required \subseteq tree[d] /\ d \in filled /\ CsvPasses(d, skills)

Status(passes) == IF passes THEN "pass" ELSE "fail"

\* find_setup_skill: the setup skill is the first of these that iterdir hands out.
SetupFolders == {d \in Setups : tree[d] # {}}

Validate ==
    /\ scaffold = NoScaffold
    /\ \/ \E d \in SetupFolders :
             validated' = Status(Passes(d, {"SKILL.md", "module.yaml", "module-help.csv"},
                                        SkillFolders \ {d}))
       \/ /\ SetupFolders = {}
          /\ validated' = Status(\E d \in StandaloneModules :
                                   Passes(d, Standalone, SkillFolders))
    /\ UNCHANGED <<tree, filled, csv, scaffold, deaths, halfGone>>

ScaffoldNext ==
    \/ \E s \in Skills : AuthorAdds(s) \/ AuthorRemoves(s) \/ ScaffoldStandalone(s)
    \/ \E s \in Skills, rows \in HelpFiles : AuthorDescribes(s, rows)
    \/ \E d \in Setups, rows \in HelpFiles : ScaffoldBegins(d, rows)
    \/ ScaffoldRemoves \/ ScaffoldCopies \/ ScaffoldWritesYaml \/ ScaffoldWritesCsv
    \/ ScaffoldDies
    \/ Validate

ScaffoldSpec == ScaffoldInit /\ [][ScaffoldNext]_scaffoldVars

-----------------------------------------------------------------------------
(* Properties. *)

\* A folder that passes can be installed, whatever scaffolds ran, died or were run
\* under another code: a folder in it has what a setup needs, its merge scripts
\* included unless a scaffold died while it removed them, and its rows name every
\* other skill there is and none that is not, also the setup skill of an earlier
\* code.
PassMeansInstallable ==
    validated = "pass" =>
        \E d \in Folders :
            /\ {"SKILL.md", "module.yaml", "module-help.csv"} \subseteq tree[d]
            /\ d \in filled
            /\ halfGone \/ "merge scripts" \in tree[d]
            /\ SkillFolders \ Setups \subseteq csv[d].names \cup {d}
            /\ csv[d].names # {} /\ csv[d].names \subseteq SkillFolders

=============================================================================
