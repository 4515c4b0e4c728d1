----------------------------- MODULE MCStandalone -----------------------------
(* The components that run by themselves: the runners of bmad-eval-runner,    *)
(* the scripts of the BMAD skills, the verification of rows and the           *)
(* translation of VBA modules. A behaviour runs one of them, in any of its    *)
(* initial states, while the others rest in one of theirs.                    *)
EXTENDS EvalRun, TriggerRun, PtySession, ModuleSetup, ModuleScaffold, Customization,
        TemplateProcessing, AgentBirth, WorkflowPrepass, MCRowVerification,
        MCVbaTranslation, TLC

CONSTANTS e1, e2
VARIABLE program

-----------------------------------------------------------------------------
(* Evals: two items with one id, or with two and an overlay that brings a skill *)
(* of its own; one of them has a fixture.                                       *)

MCEvalIds == {(e1 :> e1 @@ e2 :> e1), (e1 :> e1 @@ e2 :> e2)}
MCLayouts ==
    {[ids |-> ids, places |-> <<{}, {"evals"}, {"triggers"}>>, docker |-> TRUE,
      skillMd |-> TRUE, project |-> {}, base |-> IF ids[e2] = e1 THEN {} ELSE {"skill"},
      perEval |-> [e \in Evals |-> {}],
      fixtures |-> (e1 :> {"brief"} @@ e2 :> {})] : ids \in MCEvalIds}

(* Setups: a project with values in the older format and the directories of the *)
(* old installer, in one of which a skill is left that is not installed.        *)

MCReleases == {<<"bmb", 1>>, <<"bmb", 2>>, <<"cis", 1>>}
MCLegacy ==
    [d \in LegacyDirs |->
        CASE d = "core" -> [file |-> TRUE, core |-> {"name"}, var |-> {}]
          [] d = "bmb" -> [file |-> TRUE, core |-> {"name", "folder"}, var |-> {"out"}]
          [] OTHER -> NoLegacy]
OldKeys(keys) == [k \in CoreKeys |-> IF k \in keys THEN "old" ELSE "none"]
MCProjects ==
    {[config |-> [EmptyConfig EXCEPT !.root = OldKeys({"folder"}), !.core = OldKeys({"name"})],
      userConfig |-> EmptyUserConfig, help |-> {}, legacy |-> MCLegacy,
      legacyHelp |-> {"core"},
      legacySkills |-> [d \in LegacyDirs |-> CASE d = "cis" -> {"odd"}
                                              [] d = "bmb" -> {"builder"}
                                              [] OTHER -> {}],
      skills |-> {"builder"}]}

(* Scaffolds: help entries for the one skill, and for a setup too.              *)

MCHelpFiles ==
    {[names |-> {"draw"}, clean |-> TRUE], [names |-> {"draw", "b-setup"}, clean |-> TRUE]}

(* Customization: a menu in layers of every shape.                              *)

AgentMenu == <<"agent", "menu">>
Agent(x) == Toml(<<"agent">> :> x)
Menu(x) == Toml(<<"agent">> :> Table @@ AgentMenu :> x)
MenuItem(code, id, body) == [code |-> code, id |-> id, body |-> body]
MCRoots == <<"project", "home">>
MCDefaults == {Menu(List(<<MenuItem("A", "none", 1), MenuItem("B", "none", 1)>>))}
MCOverrides ==
    {Menu(List(<<MenuItem("A", "none", 2), MenuItem("C", "none", 2)>>)),
     Menu(List(<<MenuItem("none", "x", 3)>>)), Menu(Scalar(4)), Agent(Scalar(4))}
MCPlaces ==
    {[skill |-> "this", cwd |-> "other"], [skill |-> "other", cwd |-> "this"]}

(* Templates: a block of four tokens or less with two conditions, and a value   *)
(* that brings a placeholder.                                                   *)

Token(kind, name) == [kind |-> kind, name |-> name]
BlockTokens == {Token(k, c) : k \in {"open", "close"}, c \in Conditions}
    \cup {Token("text", "a")}
Balanced(s) ==
    \A c \in Conditions : Cardinality({i \in DOMAIN s : s[i] = Token("open", c)})
                        = Cardinality({i \in DOMAIN s : s[i] = Token("close", c)})
MCTemplates ==
    {<<Token("open", "pulse")>> \o s
        \o <<Token("var", "name"), Token("close", "pulse"), Token("var", "name")>>
        : s \in {t \in SeqOf(BlockTokens, 4) : Balanced(t)}}
MCValues ==
    [name |-> <<Token("value", "b"), Token("var", "title")>>,
     title |-> <<Token("value", "c")>>]

(* Births: one good build and what a builder may get wrong.                     *)

MCStandard == {"CREED", "CAPABILITIES", "MEMORY"}
MCRefs(coach, breath) == [r \in RefFiles |-> IF r = "coach" THEN coach ELSE breath]
MCGood ==
    [assets |-> Standard, creedWhole |-> TRUE, refs |-> MCRefs("capability", "plain"),
     breathWhole |-> TRUE, long |-> FALSE,
     script |-> [templates |-> Standard, only |-> {"first-breath"}, named |-> TRUE]]
MCPulse == [MCGood EXCEPT !.assets = TemplateFiles]
MCBuilds ==
    {MCGood, MCPulse, [MCPulse EXCEPT !.script.templates = TemplateFiles, !.script.only = {}],
     [MCGood EXCEPT !.assets = {}], [MCGood EXCEPT !.script = NoScript],
     [MCGood EXCEPT !.script.named = FALSE],
     [MCGood EXCEPT !.refs = MCRefs("absent", "absent"), !.breathWhole = FALSE]}

(* Prepasses: three numbered stages, two of them with the same number.          *)

MCNumber(f) ==
    CASE f = "1-plan" -> 1 [] f = "3-draft" -> 3 [] f = "3-edit" -> 3 [] OTHER -> -1
MCStageTexts == {{}, {"artifact", "many tool steps", "spawns subagents"}}
MCHeadTexts == {{}, {"no frontmatter", "no name"}}

-----------------------------------------------------------------------------
(* One program at a time. *)

EvalRests == layout = (CHOOSE l \in Layouts : TRUE) /\ EvalInit
SetupRests == found = (CHOOSE p \in Projects : TRUE) /\ SetupInit
CustomizationRests == skills = [i \in Installs |-> Absent] /\ CustomizationInit
TemplateRests ==
    /\ template = (CHOOSE t \in Templates : TRUE) /\ holds = {} /\ given = <<"name", "title">>
    /\ TemplateInit
BirthRests == skill = MCGood /\ BirthInit
RowsRest == sheet = (CHOOSE s \in Sheets : TRUE) /\ RowsInit

OnlyStarts(p) ==
    /\ program = p
    /\ IF p = "evals" THEN EvalInit ELSE EvalRests
    /\ IF p = "setup" THEN SetupInit ELSE SetupRests
    /\ IF p = "customization" THEN CustomizationInit ELSE CustomizationRests
    /\ IF p = "template" THEN TemplateInit ELSE TemplateRests
    /\ IF p = "birth" THEN BirthInit ELSE BirthRests
    /\ IF p = "rows" THEN RowsInit ELSE RowsRest
    /\ TriggerInit /\ PtyInit /\ ScaffoldInit /\ PrepassInit /\ VbaInit

Programs == {"evals", "triggers", "pty", "setup", "scaffold", "customization", "template",
             "birth", "prepass", "rows", "vba"}
MCInit == \E p \in Programs : OnlyStarts(p)

runners == <<evalVars, triggerVars, ptyVars>>
scripts == <<setupVars, scaffoldVars, customizationVars, templateVars, birthVars, prepassVars>>
engine == <<rowVars, vbaVars>>

MCNext ==
    \/ /\ program = "evals" /\ EvalNext
       /\ UNCHANGED <<program, triggerVars, ptyVars, scripts, engine>>
    \/ /\ program = "triggers" /\ TriggerNext
       /\ UNCHANGED <<program, evalVars, ptyVars, scripts, engine>>
    \/ /\ program = "pty" /\ PtyNext
       /\ UNCHANGED <<program, evalVars, triggerVars, scripts, engine>>
    \/ /\ program = "setup" /\ SetupNext
       /\ UNCHANGED <<program, runners, scaffoldVars, customizationVars, templateVars,
                      birthVars, prepassVars, engine>>
    \/ /\ program = "scaffold" /\ ScaffoldNext
       /\ UNCHANGED <<program, runners, setupVars, customizationVars, templateVars,
                      birthVars, prepassVars, engine>>
    \/ /\ program = "customization" /\ CustomizationNext
       /\ UNCHANGED <<program, runners, setupVars, scaffoldVars, templateVars,
                      birthVars, prepassVars, engine>>
    \/ /\ program = "template" /\ TemplateNext
       /\ UNCHANGED <<program, runners, setupVars, scaffoldVars, customizationVars,
                      birthVars, prepassVars, engine>>
    \/ /\ program = "birth" /\ BirthNext
       /\ UNCHANGED <<program, runners, setupVars, scaffoldVars, customizationVars,
                      templateVars, prepassVars, engine>>
    \/ /\ program = "prepass" /\ PrepassNext
       /\ UNCHANGED <<program, runners, setupVars, scaffoldVars, customizationVars,
                      templateVars, birthVars, engine>>
    \/ /\ program = "rows" /\ RowsNext
       /\ UNCHANGED <<program, runners, scripts, vbaVars>>
    \/ /\ program = "vba" /\ VbaNext
       /\ UNCHANGED <<program, runners, scripts, rowVars>>

MCSpec ==
    /\ MCInit /\ [][MCNext]_<<program, runners, scripts, engine>>
    /\ EvalFairness /\ TriggerFairness /\ PtyFairness

-----------------------------------------------------------------------------
\* The type invariants of the modules.
ToolsTypeOK ==
    /\ EvalTypeOK /\ TriggerTypeOK /\ SetupTypeOK /\ ScaffoldTypeOK /\ BirthTypeOK
    /\ CustomizationTypeOK /\ VbaTypeOK

\* Each of the three runners ends once it runs: the run of evals, the session on a
\* terminal, and the run of triggers unless it hangs for good on a silent claude.
\* (Only one of them runs in a behaviour, and the others stay as they are.)
RunsEnd ==
    \/ <>[]TriggerHangs
    \/ (EvalRuns \/ TriggerRuns \/ SessionRuns) ~> (EvalEnded \/ scored \/ SessionEnded)
=============================================================================
