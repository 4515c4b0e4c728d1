-------------------------- MODULE ModuleSetupProofs --------------------------
(***************************************************************************)
(* Theorems about ModuleSetup, for any modules, releases, keys and states  *)
(* of a project, and any number of setups that die; and about              *)
(* ModuleScaffold, for any skills, codes and help files, and any number of *)
(* scaffolds that die; and about Customization, for any skills, roots,     *)
(* layers and places, and any number of edits.                             *)
(***************************************************************************)
EXTENDS ModuleSetup, ModuleScaffold, Customization, WellFoundedInduction, TLAPS

-----------------------------------------------------------------------------
(* Types, and the phases of a setup. *)

\* The scripts run for a setup only, and the cleanup only after the other two.
SetupPhaseInv ==
    /\ setup = Idle => mergeAt = "idle" /\ helpAt = "idle" /\ cleanAt = "idle"
    /\ cleanAt \in {"module", "core", "_config"} => mergeAt = "done" /\ helpAt = "done"

TypeInv == SetupTypeOK /\ SetupPhaseInv

LEMMA ModTyped ==
    ASSUME TypeInv, setup # Idle
    PROVE  Mod \in Modules /\ setup.release \in Nat \ {0} /\ Mod \in LegacyDirs
           /\ <<Mod, setup.release>> \in Releases
BY SetupAssumption DEF TypeInv, SetupTypeOK, Mod, LegacyDirs

LEMMA EmptyTyped ==
    /\ EmptyConfig \in Configs /\ EmptyUserConfig \in UserConfigs
    /\ NoAnswers \in [core : [CoreKeys -> Origin], var : [VarKeys -> Origin]]
    /\ NoLegacy \in Legacies
BY DEF EmptyConfig, Configs, EmptyUserConfig, UserConfigs, NoAnswers, Origin, NoSection,
       NoLegacy, Legacies

\* What a setup has merged: for a key of the user nothing, for another one the
\* answer, else the value that was there, wherever the older format had it.
LEMMA MergedFields ==
    ASSUME config \in Configs, Mod \in Modules, setup.release \in Nat,
           NEW ans \in [core : [CoreKeys -> Origin], var : [VarKeys -> Origin]]
    PROVE  /\ MergedConfig(ans) \in Configs
           /\ \A k \in CoreKeys :
                /\ MergedConfig(ans).core[k] = "none"
                /\ k \in CoreUserKeys => MergedConfig(ans).root[k] = "none"
                /\ k \notin CoreUserKeys =>
                     /\ ans.core[k] # "none" => MergedConfig(ans).root[k] # "none"
                     /\ config.root[k] # "none" => MergedConfig(ans).root[k] # "none"
           /\ MergedConfig(ans).section[Mod] = [release |-> setup.release, value |-> ans.var]
           /\ \A m \in Modules \ {Mod} :
                MergedConfig(ans).section[m] = config.section[m]
<1> DEFINE kept == RootKept
<1>1. /\ kept \in [CoreKeys -> Origin]
      /\ \A k \in CoreKeys : /\ k \in CoreUserKeys => kept[k] = "none"
                             /\ k \notin CoreUserKeys /\ config.root[k] # "none" => kept[k] # "none"
  BY DEF RootKept, Without, Over, Configs, Origin
<1> DEFINE root == Over(Without(CoreUserKeys, ans.core), kept)
<1>2. /\ root \in [CoreKeys -> Origin]
      /\ \A k \in CoreKeys :
           /\ k \in CoreUserKeys => root[k] = "none"
           /\ k \notin CoreUserKeys =>
                /\ ans.core[k] # "none" => root[k] # "none"
                /\ kept[k] # "none" => root[k] # "none"
  BY <1>1 DEF Without, Over, Origin
<1> DEFINE section == [config.section EXCEPT ![Mod] = [release |-> setup.release, value |-> ans.var]]
<1>3. /\ section \in [Modules -> [release : Nat, value : [VarKeys -> Origin]]]
      /\ section[Mod] = [release |-> setup.release, value |-> ans.var]
      /\ \A m \in Modules \ {Mod} : section[m] = config.section[m]
  BY DEF Configs
<1>4. /\ MergedConfig(ans).root = root
      /\ MergedConfig(ans).core = [k \in CoreKeys |-> "none"]
      /\ MergedConfig(ans).section = section
      /\ MergedConfig(ans) = [root |-> root, core |-> [k \in CoreKeys |-> "none"],
                              section |-> section]
  BY DEF MergedConfig
<1>5. MergedConfig(ans) \in Configs
  <2> HIDE DEF root, section
  <2> QED BY <1>2, <1>3, <1>4 DEF Configs, Origin
<1> HIDE DEF root, section, kept
<1> QED BY <1>1, <1>2, <1>3, <1>4, <1>5

LEMMA AnswersTyped ==
    ASSUME TypeInv
    PROVE  /\ WithLegacy \in [core : [CoreKeys -> Origin], var : [VarKeys -> Origin]]
           /\ NewUserConfig \in UserConfigs
BY SetupAssumption
   DEF TypeInv, SetupTypeOK, WithLegacy, NewUserConfig, UserSettings, Over, UserConfigs, Origin

LEMMA TypeInit == SetupInit => TypeInv
<1> SUFFICES ASSUME SetupInit PROVE TypeInv
  OBVIOUS
<1>1. /\ found \in Projects /\ config \in Configs /\ userConfig \in UserConfigs
      /\ help \subseteq Releases /\ newHelp \subseteq Releases
      /\ legacy \in [LegacyDirs -> Legacies] /\ legacyHelp \subseteq LegacyDirs
  BY ProjectsAssumption DEF SetupInit
<1>2. /\ newConfig \in Configs /\ newUser \in UserConfigs
      /\ answers \in [core : [CoreKeys -> Origin], var : [VarKeys -> Origin]]
  BY EmptyTyped DEF SetupInit
<1>3. /\ installed \in [Modules -> Nat] /\ merged \in BOOLEAN /\ torn = {}
      /\ crashes \in 0..MaxCrashes
  <2>1. 0 \in 0..MaxCrashes
    BY SetupAssumption
  <2> QED BY <2>1 DEF SetupInit
<1> QED BY <1>1, <1>2, <1>3 DEF SetupInit, TypeInv, SetupTypeOK, SetupPhaseInv

LEMMA OneMoreDies ==
    ASSUME NEW n \in Nat, NEW d \in 0..n, d < n
    PROVE  d + 1 \in 0..n
OBVIOUS

\* A setup is over.
LEMMA EndTyped ==
    ASSUME TypeInv, setup # Idle, Ends
    PROVE  /\ setup' = Idle /\ mergeAt' = "idle" /\ helpAt' = "idle" /\ cleanAt' = "idle"
           /\ answers' \in [core : [CoreKeys -> Origin], var : [VarKeys -> Origin]]
           /\ installed' \in [Modules -> Nat]
BY ModTyped, EmptyTyped DEF Ends, TypeInv, SetupTypeOK

LEMMA TypeStep == TypeInv /\ [SetupNext]_setupVars => TypeInv'
<1> SUFFICES ASSUME TypeInv, [SetupNext]_setupVars PROVE TypeInv'
  OBVIOUS
<1> USE DEF TypeInv, SetupTypeOK, SetupPhaseInv, installer, plans, history
<1>1. ASSUME NEW r \in Releases, NEW vars \in SUBSET VarKeys, BeginSetup(r[1], r[2], vars)
      PROVE  TypeInv'
  <2>1. r = <<r[1], r[2]>>
    BY SetupAssumption
  <2>2. answers' \in [core : [CoreKeys -> Origin], var : [VarKeys -> Origin]]
    BY <1>1 DEF BeginSetup, Origin
  <2>3. setup' # Idle /\ <<setup'.module, setup'.release>> \in Releases
    BY <1>1, <2>1, SetupAssumption DEF BeginSetup, Idle
  <2> QED BY <1>1, <2>2, <2>3 DEF BeginSetup
<1>2. CASE MergeOpens
  <2>1. setup # Idle
    BY <1>2 DEF MergeOpens
  <2>2. MergedConfig(WithLegacy) \in Configs
    BY <2>1, AnswersTyped, MergedFields, ModTyped
  <2> QED BY <1>2, <2>2, AnswersTyped, EmptyTyped DEF MergeOpens
<1>3. CASE MergeWrites
  BY <1>3, EmptyTyped DEF MergeWrites
<1>4. CASE UserOpens
  BY <1>4, AnswersTyped, EmptyTyped DEF UserOpens
<1>5. CASE UserWrites
  BY <1>5, EmptyTyped DEF UserWrites
<1>6. CASE MergeUnlinks
  BY <1>6, EmptyTyped DEF MergeUnlinks, UnlinkAt
<1>7. CASE MergeUnlinksCore
  BY <1>7, EmptyTyped DEF MergeUnlinksCore
<1>8. CASE HelpOpens
  <2>1. setup # Idle
    BY <1>8 DEF HelpOpens
  <2>2. Filtered \cup {<<Mod, setup.release>>} \subseteq Releases
    BY <2>1, ModTyped DEF Filtered
  <2> QED BY <1>8, <2>2 DEF HelpOpens
<1>9. CASE HelpWrites
  BY <1>9 DEF HelpWrites
<1>10. CASE HelpUnlinks
  BY <1>10 DEF HelpUnlinks
<1>11. CASE CleanVerifies
  <2>1. setup # Idle
    BY <1>11 DEF CleanVerifies
  <2> QED BY <1>11, <2>1, EndTyped DEF CleanVerifies
<1>12. CASE CleanRemoves
  <2>1. setup # Idle
    BY <1>12 DEF CleanRemoves
  <2>2. legacy' \in [LegacyDirs -> Legacies] /\ legacyHelp' \subseteq LegacyDirs
    BY <1>12, EmptyTyped DEF CleanRemoves
  <2>3. UNCHANGED <<found, config, userConfig, help, plans, merged, torn, crashes>>
    BY <1>12 DEF CleanRemoves
  <2>4. CASE cleanAt = "_config"
    BY <1>12, <2>1, <2>2, <2>3, <2>4, EndTyped DEF CleanRemoves
  <2>5. CASE cleanAt \in {"module", "core"}
    <3>1. /\ cleanAt' \in {"core", "_config"}
          /\ UNCHANGED <<setup, mergeAt, helpAt, answers, installed>>
      BY <1>12, <2>5 DEF CleanRemoves
    <3> QED BY <2>2, <2>3, <2>5, <3>1
  <2> QED BY <1>12, <2>4, <2>5 DEF CleanRemoves
<1>13. CASE SetupDies
  <2>1. crashes' \in 0..MaxCrashes
    BY <1>13, OneMoreDies, SetupAssumption DEF SetupDies
  <2>2. installed' \in [Modules -> Nat] /\ torn' \subseteq {"config", "help"}
    BY <1>13, ModTyped DEF SetupDies
  <2>3. newHelp' \subseteq Releases /\ newConfig' \in Configs /\ newUser' \in UserConfigs
    BY <1>13, EmptyTyped DEF SetupDies
  <2> QED BY <1>13, <2>1, <2>2, <2>3, EmptyTyped DEF SetupDies
<1>14. CASE UNCHANGED setupVars
  BY <1>14 DEF setupVars
<1> QED
  BY <1>1, <1>2, <1>3, <1>4, <1>5, <1>6, <1>7, <1>8, <1>9, <1>10, <1>11, <1>12, <1>13, <1>14
  DEF SetupNext

\* Every file and every step of a setup keeps its type, whatever the project held.
THEOREM SetupTypeCorrect == SetupSpec => []SetupTypeOK
<1>1. SetupSpec => []TypeInv
  BY TypeInit, TypeStep, PTL DEF SetupSpec
<1>2. TypeInv => SetupTypeOK
  BY DEF TypeInv
<1> QED BY <1>1, <1>2, PTL

-----------------------------------------------------------------------------
(* No skill is lost. *)

\* While the directories are removed, the skills in those that still stand are
\* installed.
SkillsInv ==
    /\ SkillsSurvive
    /\ legacySkills = [d \in LegacyDirs |-> legacySkills[d]]
    /\ cleanAt \in {"module", "core", "_config"} =>
           \A d \in {Mod, "core", "_config"} : legacySkills[d] \subseteq found.skills

LEMMA SkillsInit == SetupInit => SkillsInv
BY ProjectsAssumption DEF SetupInit, SkillsInv, SkillsSurvive

LEMMA SkillsStep == TypeInv /\ SkillsInv /\ [SetupNext]_setupVars => SkillsInv'
<1> SUFFICES ASSUME TypeInv, SkillsInv, [SetupNext]_setupVars PROVE SkillsInv'
  OBVIOUS
<1> USE DEF SkillsInv, SkillsSurvive, installer, history
<1>1. ASSUME UNCHANGED <<found, legacySkills>>,
             UNCHANGED <<cleanAt, setup>> \/ cleanAt' \in {"idle", "start"}
      PROVE  SkillsInv'
  BY <1>1 DEF Mod
<1>2. CASE CleanVerifies
  <2>1. UNCHANGED <<found, legacySkills>>
    BY <1>2 DEF CleanVerifies
  <2>2. CASE \A d \in Checked : legacySkills[d] \subseteq found.skills
    BY <1>2, <2>1, <2>2 DEF CleanVerifies, Checked, Mod
  <2>3. CASE ~(\A d \in Checked : legacySkills[d] \subseteq found.skills)
    BY <1>1, <1>2, <2>1, <2>3 DEF CleanVerifies, Ends
  <2> QED BY <2>2, <2>3
<1>3. CASE CleanRemoves
  <2> DEFINE d == IF cleanAt = "module" THEN Mod ELSE cleanAt
  <2>1. /\ cleanAt \in {"module", "core", "_config"} /\ UNCHANGED found
        /\ legacySkills' = [legacySkills EXCEPT ![d] = {}]
        /\ cleanAt' = "idle" \/ (cleanAt' \in {"core", "_config"} /\ UNCHANGED setup)
    BY <1>3 DEF CleanRemoves, Ends
  <2>2. legacySkills[d] \subseteq found.skills
    BY <2>1
  <2>3. /\ legacySkills' = [c \in LegacyDirs |-> legacySkills'[c]]
        /\ \A c \in LegacyDirs : legacySkills'[c] = IF c = d THEN {} ELSE legacySkills[c]
    BY <2>1
  <2>4. setup # Idle
    BY <1>3 DEF CleanRemoves, TypeInv, SetupPhaseInv
  <2>5. {Mod, "core", "_config"} \subseteq LegacyDirs
    BY <2>4, ModTyped DEF LegacyDirs
  <2> HIDE DEF d
  <2> QED BY <2>1, <2>2, <2>3, <2>5 DEF Mod
<1>4. CASE SetupDies
  BY <1>1, <1>4 DEF SetupDies
<1>5. ASSUME NEW r \in Releases, NEW vars \in SUBSET VarKeys, BeginSetup(r[1], r[2], vars)
      PROVE  SkillsInv'
  BY <1>1, <1>5 DEF BeginSetup
<1>6. CASE MergeOpens \/ MergeWrites \/ UserOpens \/ UserWrites
  BY <1>1, <1>6 DEF MergeOpens, MergeWrites, UserOpens, UserWrites
<1>7. CASE MergeUnlinks \/ MergeUnlinksCore \/ HelpOpens \/ HelpWrites \/ HelpUnlinks
  BY <1>1, <1>7 DEF MergeUnlinks, MergeUnlinksCore, HelpOpens, HelpWrites, HelpUnlinks
<1>8. CASE UNCHANGED setupVars
  BY <1>1, <1>8 DEF setupVars
<1> QED BY <1>2, <1>3, <1>4, <1>5, <1>6, <1>7, <1>8 DEF SetupNext

\* However many setups of whatever modules run or die, the directories of the old
\* installer go only with skills that are installed.
THEOREM SkillsAreKept == SetupSpec => []SkillsSurvive
<1>1. SetupSpec => [](TypeInv /\ SkillsInv)
  BY TypeInit, TypeStep, SkillsInit, SkillsStep, PTL DEF SetupSpec
<1>2. SkillsInv => SkillsSurvive
  BY DEF SkillsInv
<1> QED BY <1>1, <1>2, PTL

-----------------------------------------------------------------------------
(* The user's own keys stay out of the file that is shared. *)

\* What is about to be written holds none of them, either.
PrivateInv ==
    /\ UserKeysPrivate
    /\ mergeAt = "writing" => \A k \in CoreUserKeys :
           newConfig.root[k] = "none" /\ newConfig.core[k] = "none"

LEMMA PrivateInit == SetupInit => PrivateInv
BY DEF SetupInit, PrivateInv, UserKeysPrivate

LEMMA PrivateStep == TypeInv /\ PrivateInv /\ [SetupNext]_setupVars => PrivateInv'
<1> SUFFICES ASSUME TypeInv, PrivateInv, [SetupNext]_setupVars PROVE PrivateInv'
  OBVIOUS
<1> USE DEF PrivateInv, UserKeysPrivate, history, plans
<1>1. ASSUME UNCHANGED <<config, merged>>,
             mergeAt' # "writing" \/ UNCHANGED <<mergeAt, newConfig>>
      PROVE  PrivateInv'
  BY <1>1
<1>2. CASE MergeOpens
  <2>1. setup # Idle
    BY <1>2 DEF MergeOpens, TypeInv, SetupPhaseInv
  <2>2. \A k \in CoreUserKeys : /\ newConfig'.root[k] = "none"
                               /\ newConfig'.core[k] = "none"
    BY <1>2, <2>1, ModTyped, AnswersTyped, MergedFields, SetupAssumption
    DEF MergeOpens, TypeInv, SetupTypeOK
  <2>3. \A k \in CoreUserKeys : config'.root[k] = "none" /\ config'.core[k] = "none"
    BY <1>2, SetupAssumption DEF MergeOpens, EmptyConfig
  <2> QED BY <2>2, <2>3
<1>3. CASE MergeWrites
  BY <1>3 DEF MergeWrites
<1>4. ASSUME NEW r \in Releases, NEW vars \in SUBSET VarKeys, BeginSetup(r[1], r[2], vars)
      PROVE  PrivateInv'
  BY <1>1, <1>4 DEF BeginSetup
<1>5. CASE UserOpens \/ UserWrites \/ MergeUnlinks \/ MergeUnlinksCore
  BY <1>1, <1>5 DEF UserOpens, UserWrites, MergeUnlinks, MergeUnlinksCore
<1>6. CASE HelpOpens \/ HelpWrites \/ HelpUnlinks
  BY <1>1, <1>6 DEF HelpOpens, HelpWrites, HelpUnlinks
<1>7. CASE CleanVerifies
  BY <1>1, <1>7 DEF CleanVerifies, Ends
<1>8. CASE CleanRemoves
  BY <1>1, <1>8 DEF CleanRemoves, Ends
<1>9. CASE SetupDies
  BY <1>1, <1>9 DEF SetupDies
<1>10. CASE UNCHANGED setupVars
  BY <1>1, <1>10 DEF setupVars
<1> QED BY <1>2, <1>3, <1>4, <1>5, <1>6, <1>7, <1>8, <1>9, <1>10 DEF SetupNext

\* Once a setup has written config.yaml, user_name and communication_language are
\* never in it again, whatever the project held and however the file got there.
THEOREM UserKeysStayPrivate == SetupSpec => []UserKeysPrivate
<1>1. SetupSpec => [](TypeInv /\ PrivateInv)
  BY TypeInit, TypeStep, PrivateInit, PrivateStep, PTL DEF SetupSpec
<1>2. PrivateInv => UserKeysPrivate
  BY DEF PrivateInv
<1> QED BY <1>1, <1>2, PTL

-----------------------------------------------------------------------------
(* The entries of other modules are current. *)

RowsOf(rows, m) == {r \in rows : r[1] = m}

\* The section of every module that was set up is current in config.yaml, or in what
\* is about to be written to it; that of the module being set up once it is merged.
SectionsInv ==
    "config" \notin torn =>
        LET cfg == IF mergeAt = "writing" THEN newConfig ELSE config IN
        /\ \A m \in Modules \ {Mod} :
              installed[m] # 0 => cfg.section[m].release = installed[m]
        /\ mergeAt \notin {"idle", "start"} => cfg.section[Mod].release = setup.release

\* The same of the help rows.
HelpInv ==
    "help" \notin torn =>
        LET rows == IF helpAt = "writing" THEN newHelp ELSE help IN
        /\ \A m \in Modules \ {Mod} :
              installed[m] # 0 => RowsOf(rows, m) = {<<m, installed[m]>>}
        /\ helpAt \notin {"idle", "start"} => RowsOf(rows, Mod) = {<<Mod, setup.release>>}

EntriesInv == SectionsInv /\ HelpInv

LEMMA EntriesInit == SetupInit => EntriesInv
BY DEF SetupInit, EntriesInv, SectionsInv, HelpInv

\* When a setup is over its module is one of the others.
LEMMA EntriesAtEnd ==
    ASSUME TypeInv, EntriesInv, setup # Idle, Ends, mergeAt = "done", helpAt = "done",
           UNCHANGED <<config, help, torn>>
    PROVE  EntriesInv'
<1>1. /\ setup' = Idle /\ mergeAt' = "idle" /\ helpAt' = "idle"
      /\ installed' = [installed EXCEPT ![Mod] = setup.release]
  BY DEF Ends
<1>2. installed \in [Modules -> Nat] /\ Mod \in Modules
  BY ModTyped DEF TypeInv, SetupTypeOK
<1>3. ASSUME "config" \notin torn, NEW m \in Modules
      PROVE  installed'[m] # 0 => config.section[m].release = installed'[m]
  BY <1>1, <1>2, <1>3 DEF EntriesInv, SectionsInv
<1>4. ASSUME "help" \notin torn, NEW m \in Modules
      PROVE  installed'[m] # 0 => RowsOf(help, m) = {<<m, installed'[m]>>}
  BY <1>1, <1>2, <1>4 DEF EntriesInv, HelpInv
<1> QED BY <1>1, <1>3, <1>4 DEF EntriesInv, SectionsInv, HelpInv, RowsOf

LEMMA EntriesStep == TypeInv /\ EntriesInv /\ [SetupNext]_setupVars => EntriesInv'
<1> SUFFICES ASSUME TypeInv, EntriesInv, [SetupNext]_setupVars PROVE EntriesInv'
  OBVIOUS
<1> USE DEF history, plans, installer
\* Steps that leave the files of the modules alone.
<1>1. ASSUME UNCHANGED <<config, newConfig, help, newHelp, setup, installed, torn>>,
             \/ mergeAt' = mergeAt
             \/ mergeAt \notin {"idle", "start", "writing"} /\ mergeAt' # "writing",
             \/ helpAt' = helpAt
             \/ helpAt \notin {"idle", "start", "writing"} /\ helpAt' # "writing"
      PROVE  EntriesInv'
  BY <1>1 DEF EntriesInv, SectionsInv, HelpInv, RowsOf, Mod
<1>2. ASSUME NEW r \in Releases, NEW vars \in SUBSET VarKeys, BeginSetup(r[1], r[2], vars)
      PROVE  EntriesInv'
  <2>1. /\ mergeAt = "idle" /\ helpAt = "idle" /\ mergeAt' = "start" /\ helpAt' = "start"
        /\ UNCHANGED <<config, help, installed, torn>> /\ Mod \notin Modules
    BY <1>2, SetupAssumption DEF BeginSetup, TypeInv, SetupPhaseInv, Mod, Idle
  <2> QED BY <2>1 DEF EntriesInv, SectionsInv, HelpInv, RowsOf
<1>3. CASE MergeOpens
  <2>1. setup # Idle
    BY <1>3 DEF MergeOpens, TypeInv, SetupPhaseInv
  <2>2. /\ newConfig'.section[Mod].release = setup.release
        /\ \A m \in Modules \ {Mod} : newConfig'.section[m] = config.section[m]
    <3> DEFINE new == MergedConfig(WithLegacy)
    <3>1. /\ new.section[Mod] = [release |-> setup.release, value |-> WithLegacy.var]
          /\ \A m \in Modules \ {Mod} : new.section[m] = config.section[m]
      BY <2>1, ModTyped, AnswersTyped, MergedFields DEF TypeInv, SetupTypeOK
    <3>2. newConfig' = new
      BY <1>3 DEF MergeOpens
    <3> HIDE DEF new
    <3> QED BY <3>1, <3>2
  <2>3. /\ mergeAt = "start" /\ mergeAt' = "writing"
        /\ UNCHANGED <<help, newHelp, helpAt, setup, installed, torn>>
    BY <1>3 DEF MergeOpens
  <2> QED BY <2>2, <2>3 DEF EntriesInv, SectionsInv, HelpInv, RowsOf, Mod
<1>4. CASE MergeWrites
  BY <1>4 DEF MergeWrites, EntriesInv, SectionsInv, HelpInv, RowsOf, Mod
<1>5. CASE UserOpens
  BY <1>1, <1>5 DEF UserOpens
<1>6. CASE UserWrites
  BY <1>1, <1>6 DEF UserWrites
<1>7. CASE MergeUnlinks
  BY <1>1, <1>7 DEF MergeUnlinks, UnlinkAt
<1>8. CASE MergeUnlinksCore
  BY <1>1, <1>8 DEF MergeUnlinksCore
<1>9. CASE HelpOpens
  <2>1. /\ \A m \in Modules \ {Mod} : RowsOf(newHelp', m) = RowsOf(help, m)
        /\ RowsOf(newHelp', Mod) = {<<Mod, setup.release>>}
    BY <1>9 DEF HelpOpens, RowsOf, Filtered
  <2>2. /\ helpAt = "start" /\ helpAt' = "writing"
        /\ UNCHANGED <<config, newConfig, mergeAt, setup, installed, torn>>
    BY <1>9 DEF HelpOpens
  <2>3. SectionsInv'
    BY <2>2 DEF EntriesInv, SectionsInv, Mod
  <2>4. HelpInv'
    BY <2>1, <2>2 DEF EntriesInv, HelpInv, Mod
  <2> QED BY <2>3, <2>4 DEF EntriesInv
<1>10. CASE HelpWrites
  BY <1>10 DEF HelpWrites, EntriesInv, SectionsInv, HelpInv, RowsOf, Mod
<1>11. CASE HelpUnlinks
  BY <1>1, <1>11 DEF HelpUnlinks
<1>12. CASE CleanVerifies
  <2>1. setup # Idle /\ mergeAt = "done" /\ helpAt = "done"
    BY <1>12 DEF CleanVerifies, TypeInv, SetupPhaseInv
  <2>2. UNCHANGED <<config, newConfig, help, newHelp, torn>>
    BY <1>12 DEF CleanVerifies
  <2> QED BY <1>1, <1>12, <2>1, <2>2, EntriesAtEnd DEF CleanVerifies
<1>13. CASE CleanRemoves
  <2>1. setup # Idle /\ mergeAt = "done" /\ helpAt = "done"
    BY <1>13 DEF CleanRemoves, TypeInv, SetupPhaseInv
  <2>2. UNCHANGED <<config, newConfig, help, newHelp, torn>>
    BY <1>13 DEF CleanRemoves
  <2>3. Ends \/ UNCHANGED <<setup, mergeAt, helpAt, answers, installed>>
    BY <1>13 DEF CleanRemoves
  <2> QED BY <1>1, <2>1, <2>2, <2>3, EntriesAtEnd
<1>14. CASE SetupDies
  <2>1. /\ setup # Idle /\ setup' = Idle /\ mergeAt' = "idle" /\ helpAt' = "idle"
        /\ UNCHANGED <<config, help>> /\ installed' = [installed EXCEPT ![Mod] = 0]
    BY <1>14 DEF SetupDies
  <2>2. /\ torn \subseteq torn'
        /\ mergeAt = "writing" => "config" \in torn'
        /\ helpAt = "writing" => "help" \in torn'
    BY <1>14 DEF SetupDies
  <2>3. /\ Mod \in Modules /\ installed'[Mod] = 0
        /\ \A m \in Modules \ {Mod} : installed'[m] = installed[m]
    BY <2>1, ModTyped DEF TypeInv, SetupTypeOK
  <2>4. ASSUME "config" \notin torn', NEW m \in Modules
        PROVE  installed'[m] # 0 => config.section[m].release = installed'[m]
    BY <2>2, <2>3, <2>4 DEF EntriesInv, SectionsInv
  <2>5. ASSUME "help" \notin torn', NEW m \in Modules
        PROVE  installed'[m] # 0 => RowsOf(help, m) = {<<m, installed'[m]>>}
    BY <2>2, <2>3, <2>5 DEF EntriesInv, HelpInv
  <2> QED BY <2>1, <2>4, <2>5 DEF EntriesInv, SectionsInv, HelpInv, RowsOf
<1>15. CASE UNCHANGED setupVars
  BY <1>1, <1>15 DEF setupVars
<1> QED
  BY <1>2, <1>3, <1>4, <1>5, <1>6, <1>7, <1>8, <1>9, <1>10, <1>11, <1>12, <1>13, <1>14, <1>15
  DEF SetupNext

\* Modules set up side by side or one after the other keep each other's sections and
\* help rows, for any number of them and wherever a setup dies, unless the file
\* itself was left truncated.
THEOREM EntriesStayCurrent == SetupSpec => []EntriesAreCurrent
<1>1. SetupSpec => [](TypeInv /\ EntriesInv)
  BY TypeInit, TypeStep, EntriesInit, EntriesStep, PTL DEF SetupSpec
<1>2. EntriesInv => EntriesAreCurrent
  BY DEF EntriesInv, SectionsInv, HelpInv, EntriesAreCurrent, RowsOf
<1> QED BY <1>1, <1>2, PTL

-----------------------------------------------------------------------------
(* What the old installer knew is consolidated before it is deleted. *)

\* How far merge-config.py has come with the legacy files it will delete: at first
\* the answers repeat every variable the module has; then they hold the user's keys
\* and config.yaml the others; at last both files hold them all, until the legacy
\* files are gone.
MergeInv ==
    /\ mergeAt = "start" =>
          \A k \in VarKeys : config.section[Mod].value[k] # "none" => answers.var[k] # "none"
    /\ mergeAt \in {"writing", "user", "writingUser", "unlink", "unlinkCore"} =>
          /\ \A k \in LegacyCore \ CoreUserKeys : Shared.root[k] # "none"
          /\ \A k \in legacy[Mod].var : Shared.section[Mod].value[k] # "none"
    /\ mergeAt \in {"writing", "user"} =>
          \A k \in LegacyCore \cap CoreUserKeys : answers.core[k] # "none"
    /\ mergeAt \in {"writingUser", "unlink", "unlinkCore"} =>
          \A k \in LegacyCore \cap CoreUserKeys : Private.core[k] # "none"
    /\ mergeAt \in {"unlinkCore", "done"} => legacy[Mod] = NoLegacy
    /\ mergeAt = "done" => legacy["core"] = NoLegacy

LegacyInv ==
    /\ \A d \in LegacyDirs : ~legacy[d].file => legacy[d] = NoLegacy
    /\ MergeInv

\* A step that loses no value of any directory.
KeepsValues ==
    /\ \A d \in Modules \cup {"core"} : \A k \in CoreKeys : CoreKept(d, k) => CoreKept(d, k)'
    /\ \A d \in Modules : \A k \in VarKeys : VarKept(d, k) => VarKept(d, k)'

LEMMA FoundTyped ==
    ASSUME found \in Projects, NEW d \in LegacyDirs
    PROVE  found.legacy[d].core \subseteq CoreKeys /\ found.legacy[d].var \subseteq VarKeys
BY ProjectsAssumption DEF Legacies

LEMMA LegacyInit == SetupInit => LegacyInv
<1> SUFFICES ASSUME SetupInit PROVE LegacyInv
  OBVIOUS
<1>1. \A d \in LegacyDirs : ~legacy[d].file => legacy[d] = NoLegacy
  BY ProjectsAssumption DEF SetupInit
<1>2. MergeInv
  BY DEF SetupInit, MergeInv
<1> QED BY <1>1, <1>2 DEF LegacyInv

\* The core keys that a setup takes over are those of the two files it deletes.
LEMMA LegacyCoreIs ==
    ASSUME TypeInv, LegacyInv, setup # Idle
    PROVE  LegacyCore = legacy["core"].core \cup legacy[Mod].core
BY ModTyped DEF LegacyInv, LegacyCore, NoLegacy

\* Steps that leave the files alone and what is about to be written to them.
LEMMA FilesAlone ==
    ASSUME UNCHANGED <<legacy, Shared, Private>>
    PROVE  KeepsValues
BY DEF KeepsValues, CoreKept, VarKept

LEMMA LegacyStutters ==
    ASSUME LegacyInv, UNCHANGED <<config, newConfig, userConfig, newUser, legacy,
                                  setup, mergeAt, answers>>
    PROVE  LegacyInv' /\ KeepsValues
<1>1. UNCHANGED <<Shared, Private>>
  BY DEF Shared, Private
<1> QED BY <1>1, FilesAlone DEF LegacyInv, MergeInv, LegacyCore, Mod

\* A setup that is over leaves its files behind.
LEMMA LegacyAtEnd ==
    ASSUME LegacyInv, mergeAt \notin {"writing", "writingUser"}, mergeAt' = "idle",
           UNCHANGED <<config, userConfig, legacy>>
    PROVE  LegacyInv' /\ KeepsValues
<1>1. UNCHANGED <<Shared, Private>>
  BY DEF Shared, Private
<1> QED BY <1>1, FilesAlone DEF LegacyInv, MergeInv

LEMMA LegacyMergeOpens == TypeInv /\ LegacyInv /\ MergeOpens => LegacyInv' /\ KeepsValues
<1> SUFFICES ASSUME TypeInv, LegacyInv, MergeOpens PROVE LegacyInv' /\ KeepsValues
  OBVIOUS
<1> DEFINE new == MergedConfig(WithLegacy)
<1>1. /\ mergeAt = "start" /\ mergeAt' = "writing" /\ newConfig' = new
      /\ answers' = WithLegacy
      /\ UNCHANGED <<userConfig, legacy, setup>>
  BY DEF MergeOpens, installer
<1>2. setup # Idle
  BY <1>1 DEF TypeInv, SetupPhaseInv
<1>3. /\ \A k \in CoreKeys \ CoreUserKeys :
            /\ WithLegacy.core[k] # "none" => new.root[k] # "none"
            /\ config.root[k] # "none" => new.root[k] # "none"
      /\ new.section[Mod].value = WithLegacy.var
      /\ \A m \in Modules \ {Mod} : new.section[m] = config.section[m]
  <2>1. /\ \A k \in CoreKeys \ CoreUserKeys :
              /\ WithLegacy.core[k] # "none" => new.root[k] # "none"
              /\ config.root[k] # "none" => new.root[k] # "none"
        /\ new.section[Mod] = [release |-> setup.release, value |-> WithLegacy.var]
        /\ \A m \in Modules \ {Mod} : new.section[m] = config.section[m]
    BY <1>2, ModTyped, AnswersTyped, MergedFields DEF TypeInv, SetupTypeOK
  <2> HIDE DEF new
  <2> QED BY <2>1
<1> HIDE DEF new
<1>4. MergeInv
  BY DEF LegacyInv
<1>5. /\ \A k \in CoreKeys : k \in LegacyCore => WithLegacy.core[k] # "none"
      /\ \A k \in VarKeys : k \in legacy[Mod].var \/ answers.var[k] # "none"
                              => WithLegacy.var[k] # "none"
  BY DEF WithLegacy
<1>6. LegacyCore \subseteq CoreKeys /\ legacy[Mod].var \subseteq VarKeys /\ LegacyCore' = LegacyCore
  BY <1>1, <1>2, ModTyped DEF TypeInv, SetupTypeOK, Legacies, LegacyCore, LegacyDirs, Mod
<1>7. KeepsValues
  <2>1. ASSUME NEW d \in Modules \cup {"core"}, NEW k \in CoreKeys, CoreKept(d, k)
        PROVE  CoreKept(d, k)'
    BY <1>1, <1>3, <2>1 DEF CoreKept, Shared, Private
  <2>2. ASSUME NEW d \in Modules, NEW k \in VarKeys, config.section[d].value[k] # "none"
        PROVE  new.section[d].value[k] # "none"
    <3>1. CASE d = Mod
      BY <1>1, <1>3, <1>4, <1>5, <2>2, <3>1 DEF MergeInv
    <3>2. CASE d # Mod
      BY <1>3, <2>2, <3>2
    <3> QED BY <3>1, <3>2
  <2> QED BY <1>1, <2>1, <2>2 DEF KeepsValues, VarKept, Shared
<1>8. MergeInv'
  BY <1>1, <1>3, <1>5, <1>6 DEF MergeInv, Shared, Mod
<1> QED BY <1>1, <1>7, <1>8 DEF LegacyInv

LEMMA LegacyUserOpens == TypeInv /\ LegacyInv /\ UserOpens => LegacyInv' /\ KeepsValues
<1> SUFFICES ASSUME TypeInv, LegacyInv, UserOpens PROVE MergeInv' /\ KeepsValues
  BY DEF LegacyInv, UserOpens, installer
<1>1. /\ mergeAt = "user"
      /\ UNCHANGED <<config, legacy, setup, answers>>
  BY DEF UserOpens, installer
<1>2. MergeInv /\ LegacyCore' = LegacyCore
  BY <1>1 DEF LegacyInv, LegacyCore, Mod
<1>3. CASE mergeAt' = "writingUser" /\ newUser' = NewUserConfig
  <2>1. \A k \in CoreUserKeys : answers.core[k] # "none" \/ userConfig.core[k] # "none"
                                => NewUserConfig.core[k] # "none"
    BY DEF NewUserConfig, UserSettings, Over, TypeInv, SetupTypeOK, UserConfigs
  <2>2. KeepsValues
    BY <1>1, <1>3, <2>1 DEF KeepsValues, CoreKept, VarKept, Shared, Private
  <2>3. MergeInv'
    BY <1>1, <1>2, <1>3, <2>1 DEF MergeInv, Shared, Private, Mod
  <2> QED BY <2>2, <2>3
<1>4. CASE /\ mergeAt' = "unlink" /\ UNCHANGED userConfig
           /\ \A k \in CoreUserKeys : answers.core[k] = "none"
  <2>1. LegacyCore \cap CoreUserKeys = {}
    BY <1>1, <1>2, <1>4 DEF MergeInv
  <2>2. UNCHANGED <<legacy, Shared, Private>>
    BY <1>1, <1>4 DEF Shared, Private
  <2>3. MergeInv'
    BY <1>1, <1>2, <1>4, <2>1 DEF MergeInv, Shared, Private, Mod
  <2> QED BY <2>2, <2>3, FilesAlone
<1> QED BY <1>3, <1>4 DEF UserOpens

LEMMA LegacyWrites ==
    TypeInv /\ LegacyInv /\ (MergeWrites \/ UserWrites) => LegacyInv' /\ KeepsValues
<1> SUFFICES ASSUME LegacyInv, MergeWrites \/ UserWrites PROVE LegacyInv' /\ KeepsValues
  OBVIOUS
<1>1. /\ \/ mergeAt = "writing" /\ mergeAt' = "user"
         \/ mergeAt = "writingUser" /\ mergeAt' = "unlink"
      /\ UNCHANGED <<Shared, Private, LegacyCore, Mod, legacy, answers>>
  BY DEF MergeWrites, UserWrites, installer, Shared, Private, LegacyCore, Mod
<1>2. KeepsValues
  BY <1>1, FilesAlone
<1>3. LegacyInv'
  BY <1>1 DEF LegacyInv, MergeInv
<1> QED BY <1>2, <1>3

\* A legacy file goes when everything in it is on disk in the new format.
LEMMA LegacyUnlinks ==
    ASSUME TypeInv, LegacyInv, setup # Idle, NEW d \in {Mod, "core"},
           mergeAt \in {"unlink", "unlinkCore"}, mergeAt' \in {"unlinkCore", "done"},
           legacy' = [legacy EXCEPT ![d] = NoLegacy],
           UNCHANGED <<config, userConfig>>
    PROVE  KeepsValues
<1>1. MergeInv /\ UNCHANGED <<Shared, Private>>
  BY DEF LegacyInv, Shared, Private
<1>2. d \in LegacyDirs /\ legacy \in [LegacyDirs -> Legacies]
  BY ModTyped DEF TypeInv, SetupTypeOK, LegacyDirs
<1>3. \A c \in LegacyDirs : legacy'[c] = IF c = d THEN NoLegacy ELSE legacy[c]
  BY <1>2
<1>4. ASSUME NEW c \in Modules \cup {"core"}, NEW k \in CoreKeys, CoreKept(c, k)
      PROVE  CoreKept(c, k)'
  <2>1. CASE k \notin legacy[c].core \/ c # d
    BY <1>1, <1>3, <1>4, <2>1 DEF CoreKept, LegacyDirs
  <2>2. CASE k \in legacy[c].core /\ c = d
    <3>1. k \in LegacyCore
      BY <2>2, LegacyCoreIs
    <3>2. \/ k \in CoreUserKeys /\ Private.core[k] # "none"
          \/ k \notin CoreUserKeys /\ Shared.root[k] # "none"
      BY <1>1, <3>1 DEF MergeInv
    <3> QED BY <1>1, <3>2 DEF CoreKept
  <2> QED BY <2>1, <2>2
<1>5. ASSUME NEW c \in Modules, NEW k \in VarKeys, VarKept(c, k)
      PROVE  VarKept(c, k)'
  <2>1. CASE k \notin legacy[c].var \/ c # d
    BY <1>1, <1>3, <1>5, <2>1 DEF VarKept, LegacyDirs
  <2>2. CASE k \in legacy[c].var /\ c = d
    <3>1. c = Mod
      BY <2>2, SetupAssumption
    <3> QED BY <1>1, <2>2, <3>1 DEF MergeInv, VarKept
  <2> QED BY <2>1, <2>2
<1> QED BY <1>4, <1>5 DEF KeepsValues

LEMMA LegacyMergeUnlinks ==
    TypeInv /\ LegacyInv /\ (MergeUnlinks \/ MergeUnlinksCore) => LegacyInv' /\ KeepsValues
<1> SUFFICES ASSUME TypeInv, LegacyInv, MergeUnlinks \/ MergeUnlinksCore
             PROVE  LegacyInv' /\ KeepsValues
  OBVIOUS
<1>1. PICK d \in {Mod, "core"} :
         /\ \/ d = Mod /\ mergeAt = "unlink" /\ mergeAt' = "unlinkCore"
            \/ d = "core" /\ mergeAt = "unlinkCore" /\ mergeAt' = "done"
         /\ legacy' = [legacy EXCEPT ![d] = NoLegacy]
         /\ UNCHANGED <<config, userConfig, setup, answers>>
  BY DEF MergeUnlinks, MergeUnlinksCore, UnlinkAt
<1>2. setup # Idle
  BY <1>1 DEF TypeInv, SetupPhaseInv
<1>3. /\ d \in LegacyDirs /\ Mod \in Modules /\ Mod # "core" /\ Mod' = Mod
      /\ "core" \in LegacyDirs /\ Mod \in LegacyDirs
  BY <1>1, <1>2, ModTyped, SetupAssumption DEF LegacyDirs, Mod
<1>4. \A c \in LegacyDirs : legacy'[c] = IF c = d THEN NoLegacy ELSE legacy[c]
  BY <1>3, <1>1 DEF TypeInv, SetupTypeOK
<1>5. \A c \in LegacyDirs : ~legacy'[c].file => legacy'[c] = NoLegacy
  BY <1>4 DEF LegacyInv
<1>6. KeepsValues
  BY <1>1, <1>2, LegacyUnlinks
<1>7. MergeInv'
  <2>1. MergeInv
    BY DEF LegacyInv
  <2>2. LegacyCore' \subseteq LegacyCore /\ legacy'[Mod].var \subseteq legacy[Mod].var
    BY <1>3, <1>4 DEF LegacyCore, NoLegacy
  <2>3. Shared' = Shared /\ Private' = Private
    BY <1>1 DEF Shared, Private
  <2>4. /\ mergeAt' = "unlinkCore" => legacy'[Mod] = NoLegacy
        /\ mergeAt' = "done" => legacy'[Mod] = NoLegacy /\ legacy'["core"] = NoLegacy
    BY <1>1, <1>3, <1>4, <2>1 DEF MergeInv
  <2> HIDE DEF LegacyCore, Shared, Private, Mod
  <2> QED BY <1>1, <1>3, <2>1, <2>2, <2>3, <2>4 DEF MergeInv
<1> QED BY <1>5, <1>6, <1>7 DEF LegacyInv

\* The directories go after their files.
LEMMA LegacyCleanRemoves == TypeInv /\ LegacyInv /\ CleanRemoves => LegacyInv' /\ KeepsValues
<1> SUFFICES ASSUME TypeInv, LegacyInv, CleanRemoves PROVE LegacyInv' /\ KeepsValues
  OBVIOUS
<1> DEFINE d == IF cleanAt = "module" THEN Mod ELSE cleanAt
<1>1. /\ d \in {Mod, "core", "_config"} /\ mergeAt = "done"
      /\ legacy' = [legacy EXCEPT ![d] = NoLegacy]
      /\ UNCHANGED <<config, userConfig, plans>>
      /\ mergeAt' = "idle" \/ UNCHANGED <<setup, mergeAt, answers>>
  BY DEF CleanRemoves, Ends, TypeInv, SetupPhaseInv
<1> HIDE DEF d
<1>2. setup # Idle
  BY <1>1 DEF TypeInv, SetupPhaseInv
<1>3. \A c \in LegacyDirs : legacy'[c] = IF c = d THEN NoLegacy ELSE legacy[c]
  BY <1>1 DEF TypeInv, SetupTypeOK
<1>4. \A c \in LegacyDirs : ~legacy'[c].file => legacy'[c] = NoLegacy
  BY <1>3 DEF LegacyInv
<1>5. /\ legacy[Mod] = NoLegacy /\ legacy["core"] = NoLegacy /\ Mod \in Modules
      /\ "_config" \notin Modules \cup {"core"}
  BY <1>1, <1>2, ModTyped, SetupAssumption DEF LegacyInv, MergeInv
<1>6. \A c \in Modules \cup {"core"} : legacy'[c] = legacy[c]
  BY <1>1, <1>3, <1>5 DEF LegacyDirs
<1>7. KeepsValues
  BY <1>1, <1>6 DEF KeepsValues, CoreKept, VarKept, Shared, Private
<1>8. mergeAt' = "idle" \/ (mergeAt' = "done" /\ Mod' = Mod)
  BY <1>1 DEF Mod
<1>9. MergeInv'
  BY <1>5, <1>6, <1>8 DEF MergeInv
<1> QED BY <1>4, <1>7, <1>9 DEF LegacyInv

\* Every step but a death keeps all there is.
LEMMA LegacyStep ==
    TypeInv /\ LegacyInv /\ [SetupNext]_setupVars => LegacyInv' /\ (SetupDies \/ KeepsValues)
<1> SUFFICES ASSUME TypeInv, LegacyInv, [SetupNext]_setupVars
             PROVE  LegacyInv' /\ (SetupDies \/ KeepsValues)
  OBVIOUS
<1> USE DEF plans, installer
<1>1. ASSUME NEW r \in Releases, NEW vars \in SUBSET VarKeys, BeginSetup(r[1], r[2], vars)
      PROVE  LegacyInv' /\ KeepsValues
  <2>1. /\ mergeAt = "idle" /\ mergeAt' = "start" /\ Mod' = r[1]
        /\ UNCHANGED <<config, userConfig, legacy>>
    BY <1>1 DEF BeginSetup, TypeInv, SetupPhaseInv, Mod
  <2>2. \A k \in VarKeys : config.section[r[1]].value[k] # "none" => answers'.var[k] # "none"
    BY <1>1 DEF BeginSetup
  <2>3. KeepsValues
    BY <2>1, FilesAlone DEF Shared, Private
  <2>4. MergeInv'
    BY <2>1, <2>2 DEF MergeInv
  <2> QED BY <2>1, <2>3, <2>4 DEF LegacyInv
<1>2. CASE HelpOpens \/ HelpWrites \/ HelpUnlinks
  BY <1>2, LegacyStutters DEF HelpOpens, HelpWrites, HelpUnlinks
<1>3. CASE CleanVerifies
  BY <1>3, LegacyStutters, LegacyAtEnd DEF CleanVerifies, Ends
<1>4. CASE SetupDies
  <2>1. mergeAt' = "idle" /\ UNCHANGED legacy
    BY <1>4 DEF SetupDies
  <2> QED BY <1>4, <2>1 DEF LegacyInv, MergeInv
<1>5. CASE UNCHANGED setupVars
  BY <1>5, LegacyStutters DEF setupVars
<1> QED
  BY <1>1, <1>2, <1>3, <1>4, <1>5, LegacyMergeOpens, LegacyUserOpens, LegacyWrites,
     LegacyMergeUnlinks, LegacyCleanRemoves
  DEF SetupNext

\* A death loses what was in the file that was open, and nothing else.
LEMMA DeathKeeps ==
    ASSUME SetupDies
    PROVE  /\ \A d, k : \/ CoreKept(d, k) => CoreKept(d, k)'
                        \/ IF k \in CoreUserKeys THEN TearsUserConfig ELSE TearsConfig
           /\ \A d, k : VarKept(d, k) => VarKept(d, k)' \/ TearsConfig
<1>1. /\ setup' = Idle /\ mergeAt' = "idle" /\ UNCHANGED <<config, userConfig, legacy>>
  BY DEF SetupDies, installer
<1>2. /\ mergeAt # "writing" => UNCHANGED Shared
      /\ mergeAt # "writingUser" => UNCHANGED Private
  BY <1>1 DEF Shared, Private
<1> QED BY <1>1, <1>2 DEF CoreKept, VarKept, TearsConfig, TearsUserConfig

\* However many modules are set up in whatever order, and wherever their setups die, a
\* value of the old installer leaves its legacy file only when the new files have it,
\* and those only by a death between the open of its file and the write.
THEOREM LegacyIsConsolidated == SetupSpec => LegacyConsolidated
<1>1. SetupSpec => [](TypeInv /\ LegacyInv)
  BY TypeInit, TypeStep, LegacyInit, LegacyStep, PTL DEF SetupSpec
<1> DEFINE
    Keeps == \A d \in Modules \cup {"core"} :
        /\ \A k \in found.legacy[d].core : CoreKept(d, k) =>
              \/ CoreKept(d, k)'
              \/ IF k \in CoreUserKeys THEN TearsUserConfig ELSE TearsConfig
        /\ d \in Modules => \A k \in found.legacy[d].var : VarKept(d, k) =>
              VarKept(d, k)' \/ TearsConfig
<1>2. TypeInv /\ LegacyInv /\ [SetupNext]_setupVars => [Keeps]_setupVars
  <2> SUFFICES ASSUME TypeInv, LegacyInv, [SetupNext]_setupVars PROVE Keeps
    OBVIOUS
  <2>1. \A d \in Modules \cup {"core"} :
           found.legacy[d].core \subseteq CoreKeys /\ found.legacy[d].var \subseteq VarKeys
    BY FoundTyped DEF TypeInv, SetupTypeOK, LegacyDirs
  <2>2. CASE KeepsValues
    BY <2>1, <2>2 DEF KeepsValues
  <2>3. CASE SetupDies
    BY <2>3, DeathKeeps
  <2> QED BY <2>2, <2>3, LegacyStep
<1>3. [][Keeps]_setupVars => LegacyConsolidated
  BY PTL DEF LegacyConsolidated
<1> QED BY <1>1, <1>2, <1>3, PTL DEF SetupSpec

-----------------------------------------------------------------------------
(* ModuleScaffold. *)

\* A setup skill whose module.yaml names a module is the whole template, unless
\* rmtree is at work on it or died there; while it is copied it names none.
WholeInv ==
    /\ scaffold = NoScaffold \/ (scaffold.at # "idle" /\ scaffold.target \in Setups)
    /\ scaffold.at = "copy" => scaffold.target \notin filled
    /\ scaffold.at \in {"yaml", "csv"} => tree[scaffold.target] = Template
    /\ \A d \in Setups : d \in filled =>
           /\ "module.yaml" \in tree[d]
           /\ \/ halfGone \/ tree[d] = Template
              \/ scaffold.at = "remove" /\ scaffold.target = d

ScaffoldInv == ScaffoldTypeOK /\ WholeInv /\ PassMeansInstallable

LEMMA ScaffoldStart == ScaffoldInit => ScaffoldInv
<1> SUFFICES ASSUME ScaffoldInit PROVE ScaffoldInv
  OBVIOUS
<1>1. NoRows \in Csv
  BY DEF Csv
<1>2. ScaffoldTypeOK
  <2>1. 0 \in 0..MaxDeaths
    BY ScaffoldAssumption
  <2>2. NoScaffold \in [at : {"idle", "remove", "copy", "yaml", "csv"},
                       target : Setups \cup {"none"}, csv : Csv]
    BY <1>1 DEF NoScaffold
  <2>3. QED
    BY <1>1, <2>1, <2>2 DEF ScaffoldInit, ScaffoldTypeOK
<1>3. WholeInv /\ PassMeansInstallable
  BY DEF ScaffoldInit, WholeInv, NoScaffold, PassMeansInstallable
<1>4. QED
  BY <1>2, <1>3 DEF ScaffoldInv

LEMMA AuthorStep ==
    ASSUME ScaffoldInv, NEW s \in Skills,
           \/ AuthorAdds(s) \/ AuthorRemoves(s) \/ ScaffoldStandalone(s)
           \/ \E rows \in HelpFiles : AuthorDescribes(s, rows)
    PROVE  ScaffoldTypeOK' /\ WholeInv' /\ validated' = "none"
<1> USE DEF ScaffoldInv, ScaffoldTypeOK, WholeInv, NoScaffold, Template, Standalone, Folders, Csv
<1>1. s \notin Setups /\ s \in Folders
  BY ScaffoldAssumption
<1>2. CASE AuthorAdds(s)
  BY <1>1, <1>2 DEF AuthorAdds
<1>3. CASE AuthorRemoves(s)
  BY <1>1, <1>3 DEF AuthorRemoves
<1>4. CASE ScaffoldStandalone(s)
  BY <1>1, <1>4 DEF ScaffoldStandalone
<1>5. ASSUME NEW rows \in HelpFiles, AuthorDescribes(s, rows)
      PROVE  ScaffoldTypeOK' /\ WholeInv' /\ validated' = "none"
  BY <1>1, <1>5 DEF AuthorDescribes
<1>6. QED
  BY <1>2, <1>3, <1>4, <1>5

LEMMA ScaffoldStep ==
    ASSUME ScaffoldInv,
           \/ \E d \in Setups, rows \in HelpFiles : ScaffoldBegins(d, rows)
           \/ ScaffoldRemoves \/ ScaffoldCopies \/ ScaffoldWritesYaml \/ ScaffoldWritesCsv
           \/ ScaffoldDies
    PROVE  ScaffoldTypeOK' /\ WholeInv' /\ validated' = "none"
<1> USE DEF ScaffoldInv, ScaffoldTypeOK, WholeInv, NoScaffold, Folders, Csv
<1>1. ASSUME NEW d \in Setups, NEW rows \in HelpFiles, ScaffoldBegins(d, rows)
      PROVE  ScaffoldTypeOK' /\ WholeInv' /\ validated' = "none"
  BY <1>1 DEF ScaffoldBegins
<1>2. CASE ScaffoldRemoves
  BY <1>2 DEF ScaffoldRemoves
<1>3. CASE ScaffoldCopies
  BY <1>3 DEF ScaffoldCopies
<1>4. CASE ScaffoldWritesYaml
  <2>1. /\ scaffold.at = "yaml" /\ scaffold.target \in Setups
        /\ tree[scaffold.target] = Template
        /\ scaffold'.at = "csv" /\ scaffold'.target = scaffold.target
        /\ filled' = filled \cup {scaffold.target} /\ UNCHANGED <<tree, csv, deaths, halfGone>>
    BY <1>4 DEF ScaffoldWritesYaml
  <2>2. ScaffoldTypeOK' /\ validated' = "none"
    BY <1>4, <2>1 DEF ScaffoldWritesYaml
  <2>3. WholeInv'
    BY <2>1 DEF Template
  <2>4. QED
    BY <2>2, <2>3
<1>5. CASE ScaffoldWritesCsv
  BY <1>5 DEF ScaffoldWritesCsv
<1>6. CASE ScaffoldDies
  <2>1. deaths + 1 \in 0..MaxDeaths
    BY <1>6, ScaffoldAssumption DEF ScaffoldDies
  <2>2. ScaffoldTypeOK' /\ validated' = "none"
    BY <1>6, <2>1 DEF ScaffoldDies
  <2>3. WholeInv'
    BY <1>6 DEF ScaffoldDies
  <2>4. QED
    BY <2>2, <2>3
<1>7. QED
  BY <1>1, <1>2, <1>3, <1>4, <1>5, <1>6

LEMMA ValidateStep ==
    ASSUME ScaffoldInv, Validate
    PROVE  ScaffoldInv'
<1> USE DEF ScaffoldInv
<1>1. ScaffoldTypeOK' /\ WholeInv'
  BY DEF Validate, ScaffoldTypeOK, WholeInv, Status
<1>2. ASSUME NEW d \in SetupFolders,
             Passes(d, {"SKILL.md", "module.yaml", "module-help.csv"}, SkillFolders \ {d})
      PROVE  /\ halfGone \/ "merge scripts" \in tree[d]
             /\ csv[d].names \subseteq SkillFolders
             /\ SkillFolders \ Setups \subseteq csv[d].names \cup {d}
  BY <1>2 DEF Validate, SetupFolders, Passes, CsvPasses, WholeInv, Template, SkillFolders,
              Folders, NoScaffold
<1>3. PassMeansInstallable'
  <2> SUFFICES ASSUME validated' = "pass"
               PROVE  PassMeansInstallable'
    BY DEF PassMeansInstallable
  <2>1. CASE \E d \in SetupFolders :
                 Passes(d, {"SKILL.md", "module.yaml", "module-help.csv"}, SkillFolders \ {d})
    BY <1>2, <2>1 DEF Validate, PassMeansInstallable, Passes, CsvPasses, SetupFolders, Folders,
                      SkillFolders
  <2>2. CASE \E d \in StandaloneModules : Passes(d, Standalone, SkillFolders)
    BY <2>2 DEF Validate, PassMeansInstallable, Passes, CsvPasses, StandaloneModules, Folders,
                SkillFolders, Standalone
  <2>3. QED
    BY <2>1, <2>2 DEF Validate, Status
<1>4. QED
  BY <1>1, <1>3

LEMMA ScaffoldInvariant == ScaffoldSpec => []ScaffoldInv
<1>1. ScaffoldInv /\ [ScaffoldNext]_scaffoldVars => ScaffoldInv'
  <2> SUFFICES ASSUME ScaffoldInv, [ScaffoldNext]_scaffoldVars
               PROVE  ScaffoldInv'
    OBVIOUS
  <2>1. CASE Validate
    BY <2>1, ValidateStep
  <2>2. CASE UNCHANGED scaffoldVars
    BY <2>2 DEF scaffoldVars, ScaffoldInv, ScaffoldTypeOK, WholeInv, PassMeansInstallable,
                SkillFolders
  <2>3. CASE ScaffoldTypeOK' /\ WholeInv' /\ validated' = "none"
    BY <2>3 DEF ScaffoldInv, PassMeansInstallable
  <2>4. QED
    BY <2>1, <2>2, <2>3, AuthorStep, ScaffoldStep DEF ScaffoldNext
<1>2. QED
  BY <1>1, ScaffoldStart, PTL DEF ScaffoldSpec

\* Folders, their files and what the validation said keep their types.
THEOREM ScaffoldTypeCorrect == ScaffoldSpec => []ScaffoldTypeOK
BY ScaffoldInvariant, PTL DEF ScaffoldInv

\* Whatever scaffolds ran, died or were run under another code, a folder that
\* validate-module.py passes has what a setup of the module needs.
THEOREM PassIsInstallable == ScaffoldSpec => []PassMeansInstallable
BY ScaffoldInvariant, PTL DEF ScaffoldInv


-----------------------------------------------------------------------------
(* Customization: numbers and sequences. *)

\* A set of numbers has a least one.
LEMMA LeastIndex ==
    ASSUME NEW S \in SUBSET Nat, S # {}
    PROVE  \E x \in S : \A y \in S : x <= y
<1> DEFINE less == OpToRel(<, Nat)
<1>0. \A x, y \in Nat : <<y, x>> \in less <=> y < x
  BY DEF OpToRel
<1>1. PICK x \in S : \A y \in S : ~ (<<y, x>> \in less)
  BY NatLessThanWellFounded, WFMin
<1> HIDE DEF less
<1>2. ASSUME NEW y \in S PROVE x <= y
  <2>1. x \in Nat /\ y \in Nat
    OBVIOUS
  <2>2. ~ (y < x)
    BY <1>0, <1>1, <2>1, Zenon
  <2> QED BY <2>1, <2>2
<1> QED BY <1>2

\* A set that has the first number of an interval, and with each of its numbers the
\* next, has all of them.
LEMMA AllOfInterval ==
    ASSUME NEW first \in Nat, NEW last \in Nat, NEW S, first \in S,
           \A n \in first..last - 1 : n \in S => n + 1 \in S
    PROVE  first..last \subseteq S
<1> DEFINE missing == (first..last) \ S
<1>1. SUFFICES ASSUME missing # {} PROVE FALSE
  BY <1>1
<1>2. PICK x \in missing : \A y \in missing : x <= y
  <2>1. missing \in SUBSET Nat
    OBVIOUS
  <2> HIDE DEF missing
  <2> QED BY <1>1, <2>1, LeastIndex
<1>3. x \in first + 1..last
  BY <1>2
<1>4. x - 1 \in first..last - 1 /\ (x - 1) + 1 = x /\ ~ (x <= x - 1)
  BY <1>3
<1>5. x - 1 \in S
  BY <1>2, <1>3, <1>4
<1> QED BY <1>2, <1>4, <1>5

\* A set of indices of a sequence has a greatest one.
LEMMA GreatestIndex ==
    ASSUME NEW N \in Nat, NEW S \in SUBSET (1..N), S # {}
    PROVE  Max(S) \in S
<1> DEFINE below == {N - i : i \in S}
<1>1. below # {} /\ below \in SUBSET Nat
  <2>1. \A i \in S : N - i \in Nat
    OBVIOUS
  <2>2. PICK i \in S : TRUE
    OBVIOUS
  <2>3. N - i \in below
    OBVIOUS
  <2> QED BY <2>1, <2>3
<1>2. PICK x \in below : \A y \in below : x <= y
  <2> HIDE DEF below
  <2> QED BY <1>1, LeastIndex
<1>3. PICK i \in S : x = N - i
  BY <1>2
<1>4. ASSUME NEW j \in S PROVE i >= j
  <2>1. N - j \in below /\ N - j \in Nat /\ N - i \in Nat
    OBVIOUS
  <2>2. x <= N - j /\ i \in Nat /\ j \in Nat
    BY <1>2, <2>1
  <2> HIDE DEF below
  <2> QED BY <1>3, <2>2
<1> QED BY <1>4 DEF Max

\* The items of a sequence, by their places.
LEMMA InRange ==
    ASSUME NEW S, NEW s \in Seq(S), NEW x
    PROVE  x \in Range(s) <=> \E i \in 1..Len(s) : s[i] = x
BY DEF Range

-----------------------------------------------------------------------------
(* The merge of two lists. *)

KeyFields == {"code", "id"}

\* One item is put: it is there, what it replaced had its key, and no code is there
\* twice that was not.
IsPutIn(S, list, item, key, put) ==
    /\ put \in Seq(S) /\ item \in Range(put)
    /\ \A x \in Range(list) : x \in Range(put) \/ x[key] = item[key]
    /\ Range(put) \subseteq Range(list) \cup {item}
    /\ (key = "code" /\ NoCodeTwice(list)) => NoCodeTwice(put)

LEMMA PutKeeps ==
    ASSUME NEW S, NEW list \in Seq(S), NEW item \in S, NEW key \in KeyFields
    PROVE  IsPutIn(S, list, item, key, PutItem(list, item, key))
<1> DEFINE put == PutItem(list, item, key)
           same == {i \in DOMAIN list : list[i][key] = item[key]}
<1>1. CASE same = {}
  <2>1. put = Append(list, item)
    BY <1>1 DEF PutItem
  <2> HIDE DEF put
  <2>2. put \in Seq(S) /\ Len(put) = Len(list) + 1 /\ put[Len(list) + 1] = item
        /\ \A i \in 1..Len(list) : put[i] = list[i]
    BY <2>1
  <2>3. (key = "code" /\ NoCodeTwice(list)) => NoCodeTwice(put)
    BY <1>1, <2>2 DEF NoCodeTwice
  <2>4. IsPutIn(S, list, item, key, put)
    BY <2>2, <2>3, InRange DEF IsPutIn
  <2> QED BY <2>4 DEF put
<1>2. CASE same # {}
  <2> DEFINE at == Max(same)
  <2>1. at \in same
    <3>1. same \in SUBSET (1..Len(list)) /\ Len(list) \in Nat
      OBVIOUS
    <3> HIDE DEF same
    <3> QED BY <1>2, <3>1, GreatestIndex
  <2>2. put = [list EXCEPT ![at] = item]
    BY <1>2 DEF PutItem
  <2>3. at \in 1..Len(list) /\ list[at][key] = item[key]
    BY <2>1
  <2> HIDE DEF at, put
  <2>4. put \in Seq(S) /\ Len(put) = Len(list) /\ put[at] = item
        /\ \A i \in 1..Len(list) : i # at => put[i] = list[i]
    BY <2>2, <2>3
  <2>5. (key = "code" /\ NoCodeTwice(list)) => NoCodeTwice(put)
    BY <2>3, <2>4 DEF NoCodeTwice
  <2>6. IsPutIn(S, list, item, key, put)
    BY <2>3, <2>4, <2>5, InRange DEF IsPutIn
  <2> QED BY <2>6 DEF put
<1> QED BY <1>1, <1>2

\* The recursion over the override's items has a value at each of its steps.
IsPuts(base, override, key, N, r) ==
    r = [n \in 0..N |-> IF n = 0 THEN base ELSE PutItem(r[n - 1], override[n], key)]

LEMMA PutsExist ==
    ASSUME NEW base, NEW override, Len(override) \in Nat, NEW key
    PROVE  \E r : IsPuts(base, override, key, Len(override), r)
<1> DEFINE Run(N, r) == IsPuts(base, override, key, N, r)
           S == {N \in Nat : \E r : Run(N, r)}
<1>1. 0 \in S
  <2>1. Run(0, [n \in 0..0 |-> base])
    BY DEF IsPuts
  <2> QED BY <2>1
<1>2. ASSUME NEW N \in Nat, N \in S PROVE N + 1 \in S
  <2>1. PICK r : Run(N, r)
    BY <1>2
  <2> DEFINE next == [n \in 0..N + 1 |->
                         IF n <= N THEN r[n] ELSE PutItem(r[N], override[N + 1], key)]
  <2>2. next[0] = base
    BY <2>1 DEF IsPuts
  <2>3. ASSUME NEW n \in 1..N PROVE next[n] = PutItem(next[n - 1], override[n], key)
    <3>1. next[n] = r[n] /\ next[n - 1] = r[n - 1]
      OBVIOUS
    <3>2. r[n] = PutItem(r[n - 1], override[n], key)
      BY <2>1 DEF IsPuts
    <3> QED BY <3>1, <3>2
  <2>4. next[N + 1] = PutItem(next[N], override[N + 1], key)
    OBVIOUS
  <2>5. next = [n \in 0..N + 1 |->
                   IF n = 0 THEN base ELSE PutItem(next[n - 1], override[n], key)]
    <3>1. ASSUME NEW n \in 0..N + 1
          PROVE  next[n] = IF n = 0 THEN base ELSE PutItem(next[n - 1], override[n], key)
      <4>1. n = 0 \/ n \in 1..N \/ n = N + 1
        OBVIOUS
      <4>2. (N + 1) - 1 = N /\ N + 1 # 0
        OBVIOUS
      <4> HIDE DEF next
      <4> QED BY <2>2, <2>3, <2>4, <4>1, <4>2
    <3>2. DOMAIN next = 0..N + 1 /\ next = [n \in DOMAIN next |-> next[n]]
      OBVIOUS
    <3> HIDE DEF next
    <3> QED BY <3>1, <3>2
  <2>6. Run(N + 1, next)
    <3> HIDE DEF next
    <3> QED BY <2>5 DEF IsPuts
  <2> HIDE DEF next
  <2> QED BY <2>6
<1>3. Len(override) \in S
  <2> HIDE DEF S
  <2>1. 0..Len(override) \subseteq S
    BY <1>1, <1>2, AllOfInterval
  <2> QED BY <2>1
<1> QED BY <1>3

\* _merge_by_key puts one item after the other.
LEMMA MergeIsPuts ==
    ASSUME NEW base, NEW override, Len(override) \in Nat, NEW key
    PROVE  \E result :
              /\ result[0] = base /\ result[Len(override)] = MergeByKey(base, override, key)
              /\ \A n \in 1..Len(override) :
                    result[n] = PutItem(result[n - 1], override[n], key)
<1> DEFINE result == CHOOSE r : IsPuts(base, override, key, Len(override), r)
<1>1. IsPuts(base, override, key, Len(override), result)
  BY PutsExist
<1>2. MergeByKey(base, override, key) = result[Len(override)]
  BY DEF MergeByKey, IsPuts
<1> HIDE DEF result
<1>3. result[0] = base
  BY <1>1 DEF IsPuts
<1>4. \A n \in 1..Len(override) : result[n] = PutItem(result[n - 1], override[n], key)
  BY <1>1 DEF IsPuts
<1> QED BY <1>2, <1>3, <1>4

\* What becomes of items, base's and the override's, in a list they are merged to:
\* each is there or replaced by another of the override with its key.
ItemKept(x, list, override, key) ==
    x \in Range(list) \/ \E y \in Range(override) : y # x /\ y[key] = x[key]

LEMMA KeyMergeKeeps ==
    ASSUME NEW S, NEW base \in Seq(S), NEW override \in Seq(S), NEW key \in KeyFields,
           NEW result, result = MergeByKey(base, override, key)
    PROVE  /\ result \in Seq(S)
           /\ \A x \in Range(base) \cup Range(override) : ItemKept(x, result, override, key)
           /\ Range(result) \subseteq Range(base) \cup Range(override)
           /\ (key = "code" /\ NoCodeTwice(base)) => NoCodeTwice(result)
<1> DEFINE N == Len(override)
<1>0. N \in Nat /\ \A n \in 1..N : override[n] \in S /\ override[n] \in Range(override)
  BY InRange
<1>1. PICK r : /\ r[0] = base /\ r[N] = result
               /\ \A n \in 1..N : r[n] = PutItem(r[n - 1], override[n], key)
  BY <1>0, MergeIsPuts
<1> DEFINE Right(n) ==
              /\ r[n] \in Seq(S)
              /\ \A x \in Range(base) : ItemKept(x, r[n], override, key)
              /\ \A i \in 1..n : ItemKept(override[i], r[n], override, key)
              /\ Range(r[n]) \subseteq Range(base) \cup Range(override)
              /\ (key = "code" /\ NoCodeTwice(base)) => NoCodeTwice(r[n])
           All == {n \in 0..N : Right(n)}
<1>2. Right(0)
  BY <1>1 DEF ItemKept
<1>3. ASSUME NEW n \in 0..N - 1, Right(n) PROVE Right(n + 1)
  <2> DEFINE item == override[n + 1]
  <2>1. n + 1 \in 1..N /\ (n + 1) - 1 = n /\ item \in S /\ item \in Range(override)
    BY <1>0
  <2>2. r[n + 1] = PutItem(r[n], item, key)
    BY <1>1, <2>1
  <2> HIDE DEF item
  <2>3. IsPutIn(S, r[n], item, key, r[n + 1])
    <3>1. r[n] \in Seq(S)
      BY <1>3
    <3> QED BY <2>1, <2>2, <3>1, PutKeeps
  <2>4. ASSUME NEW x, ItemKept(x, r[n], override, key)
        PROVE  ItemKept(x, r[n + 1], override, key)
    BY <2>1, <2>3, <2>4 DEF ItemKept, IsPutIn
  <2>5. ItemKept(item, r[n + 1], override, key)
    BY <2>3 DEF ItemKept, IsPutIn
  <2>6. \A i \in 1..n + 1 : ItemKept(override[i], r[n + 1], override, key)
    <3>1. \A i \in 1..n + 1 : i \in 1..n \/ i = n + 1
      OBVIOUS
    <3> QED BY <1>3, <2>4, <2>5, <3>1 DEF item
  <2>7. Range(r[n + 1]) \subseteq Range(base) \cup Range(override)
    BY <1>3, <2>1, <2>3 DEF IsPutIn
  <2> QED BY <1>3, <2>3, <2>4, <2>6, <2>7 DEF IsPutIn
<1>4. Right(N)
  <2>1. 0 \in All /\ \A n \in 0..N - 1 : n \in All => n + 1 \in All
    <3>1. 0 \in 0..N /\ \A n \in 0..N - 1 : n + 1 \in 0..N
      BY <1>0
    <3> HIDE DEF Right
    <3> QED BY <1>2, <1>3, <3>1
  <2>2. N \in All
    <3> HIDE DEF All, N
    <3>1. 0..N \subseteq All
      BY <1>0, <2>1, AllOfInterval
    <3> QED BY <1>0, <3>1
  <2> QED BY <2>2
<1>5. \A x \in Range(override) : ItemKept(x, result, override, key)
  <2>1. \A x \in Range(override) : \E i \in 1..N : override[i] = x
    BY InRange
  <2> QED BY <1>1, <1>4, <2>1
<1> QED BY <1>1, <1>4, <1>5

\* A list that two were merged to: what is lost of their items is lost to another of
\* the override with the same identifier; what is there is theirs; and where every
\* item has a code, a code that the base has once is there once.
IsMergeOf(base, override, list) ==
    /\ list \in Seq(Range(list))
    /\ \A x \in Range(base) \cup Range(override) :
          x \in Range(list) \/ \E y \in Range(override) : y # x /\ SameItem(y, x)
    /\ Range(list) \subseteq Range(base) \cup Range(override)
    /\ (\A x \in Range(base) \cup Range(override) : x.code # "none") /\ NoCodeTwice(base)
          => NoCodeTwice(list)

LEMMA ArraysMerge ==
    ASSUME NEW S, NEW base \in Seq(S), NEW override \in Seq(S)
    PROVE  IsMergeOf(base, override, MergeArrays(base, override))
<1> DEFINE both == base \o override
           key == KeyOf(both)
           list == MergeArrays(base, override)
<1>1. /\ both \in Seq(S) /\ Len(both) = Len(base) + Len(override)
      /\ \A i \in 1..Len(base) : both[i] = base[i]
      /\ \A i \in 1..Len(override) : both[Len(base) + i] = override[i]
      /\ \A i \in 1..Len(both) : \/ i \in 1..Len(base) /\ both[i] = base[i]
                                 \/ /\ i - Len(base) \in 1..Len(override)
                                    /\ both[i] = override[i - Len(base)]
  OBVIOUS
<1> HIDE DEF both
<1>2. \A x : x \in Range(both) <=> x \in Range(base) \cup Range(override)
  <2>1. \A i \in 1..Len(override) : Len(base) + i \in 1..Len(both)
    BY <1>1
  <2>2. \A i \in 1..Len(base) : i \in 1..Len(both)
    BY <1>1
  <2>3. \A i \in 1..Len(both) : both[i] \in Range(base) \cup Range(override)
    <3>1. \A i \in 1..Len(base) : base[i] \in Range(base)
      BY InRange
    <3>2. \A i \in 1..Len(override) : override[i] \in Range(override)
      BY InRange
    <3> QED BY <1>1, <3>1, <3>2
  <2>4. ASSUME NEW x \in Range(base) \cup Range(override)
        PROVE  \E i \in 1..Len(both) : both[i] = x
    <3>1. (\E i \in 1..Len(base) : base[i] = x) \/ (\E i \in 1..Len(override) : override[i] = x)
      BY InRange
    <3> QED BY <1>1, <2>1, <2>2, <3>1
  <2>5. \A x : x \in Range(both) <=> \E i \in 1..Len(both) : both[i] = x
    BY <1>1, InRange
  <2> QED BY <2>3, <2>4, <2>5
<1>3. ASSUME NEW s \in Seq(S) PROVE s \in Seq(Range(s))
  BY <1>3, InRange
<1>4. CASE key = "none"
  <2>1. list = both
    BY <1>4 DEF MergeArrays, both
  <2>2. (\A x \in Range(base) \cup Range(override) : x.code # "none") => NoCodeTwice(both)
    <3>1. SUFFICES ASSUME \A x \in Range(base) \cup Range(override) : x.code # "none"
                   PROVE  both = <<>>
      BY DEF NoCodeTwice
    <3>2. \A i \in DOMAIN both : both[i] \in Range(both)
      BY <1>1, InRange
    <3>3. \A i \in DOMAIN both : both[i].code # "none"
      BY <1>2, <3>1, <3>2
    <3> QED BY <1>4, <3>3 DEF KeyOf
  <2> HIDE DEF list
  <2>3. IsMergeOf(base, override, list)
    BY <1>1, <1>2, <1>3, <2>1, <2>2 DEF IsMergeOf
  <2> QED BY <2>3 DEF list
<1>5. CASE key # "none"
  <2>1. list = MergeByKey(base, override, key)
    BY <1>5 DEF MergeArrays, both
  <2>2. key \in KeyFields /\ \A i \in DOMAIN both : both[i][key] # "none"
    BY <1>5 DEF KeyOf, KeyFields
  <2>3. (\A i \in DOMAIN both : both[i].code # "none") => key = "code"
    BY <1>5 DEF KeyOf
  <2>4. \A x \in Range(base) \cup Range(override) : x[key] # "none"
    <3>1. \A x \in Range(both) : \E i \in DOMAIN both : both[i] = x
      BY <1>1, InRange
    <3> QED BY <1>2, <2>2, <3>1
  <2>5. ASSUME \A x \in Range(base) \cup Range(override) : x.code # "none"
        PROVE  key = "code"
    <3>1. \A i \in DOMAIN both : both[i] \in Range(both)
      BY <1>1, InRange
    <3> QED BY <1>2, <2>3, <2>5, <3>1
  <2> HIDE DEF key, list
  <2>6. /\ list \in Seq(S)
        /\ \A x \in Range(base) \cup Range(override) : ItemKept(x, list, override, key)
        /\ Range(list) \subseteq Range(base) \cup Range(override)
        /\ (key = "code" /\ NoCodeTwice(base)) => NoCodeTwice(list)
    BY <2>1, <2>2, KeyMergeKeeps
  <2>7. ASSUME NEW x \in Range(base) \cup Range(override), NEW y, y[key] = x[key]
        PROVE  SameItem(y, x)
    BY <2>2, <2>4, <2>7 DEF SameItem, KeyFields
  <2>8. \A x \in Range(base) \cup Range(override) :
            x \in Range(list) \/ \E y \in Range(override) : y # x /\ SameItem(y, x)
    BY <2>6, <2>7 DEF ItemKept
  <2>9. IsMergeOf(base, override, list)
    BY <1>3, <2>5, <2>6, <2>8 DEF IsMergeOf
  <2> QED BY <2>9 DEF list
<1> QED BY <1>4, <1>5

-----------------------------------------------------------------------------
(* The merge of two trees, and of the layers so far with one more. *)

\* The lists of a tree are sequences.
Typed(d) == \A p \in DOMAIN d : d[p].kind = "list" => d[p].items \in Seq(Range(d[p].items))

\* The merge at a path: kept, taken over, or two lists merged.
LEMMA MergeAt ==
    ASSUME NEW base, NEW override, Typed(base), Typed(override),
           NEW out, out = DeepMerge(base, override)
    PROVE  /\ \A p : p \in DOMAIN out <=>
                      p \in DOMAIN override \/ (p \in DOMAIN base /\ ~ Cuts(override, p))
           /\ \A p \in DOMAIN out : p \notin DOMAIN override => out[p] = base[p]
           /\ \A p \in DOMAIN override :
                 HasList(base, p) /\ HasList(override, p) =>
                    HasList(out, p) /\ IsMergeOf(base[p].items, override[p].items, out[p].items)
           /\ \A p \in DOMAIN override :
                 ~ (HasList(base, p) /\ HasList(override, p)) => out[p] = override[p]
<1>1. DOMAIN out = DOMAIN override \cup {q \in DOMAIN base : ~ Cuts(override, q)}
  BY DEF DeepMerge
<1>2. \A p \in DOMAIN out : p \notin DOMAIN override => out[p] = base[p]
  BY <1>1 DEF DeepMerge
<1>3. ASSUME NEW p \in DOMAIN override, HasList(base, p) /\ HasList(override, p)
      PROVE  HasList(out, p) /\ IsMergeOf(base[p].items, override[p].items, out[p].items)
  <2> DEFINE b == base[p].items  o == override[p].items
  <2>1. out[p] = List(MergeArrays(b, o))
    BY <1>3 DEF DeepMerge, HasList
  <2>2. p \in DOMAIN out
    BY <1>1
  <2>3. b \in Seq(Range(b) \cup Range(o)) /\ o \in Seq(Range(b) \cup Range(o))
    <3>1. b \in Seq(Range(b)) /\ o \in Seq(Range(o))
      BY <1>3 DEF Typed, HasList
    <3> HIDE DEF b, o
    <3> QED BY <3>1
  <2>4. IsMergeOf(b, o, MergeArrays(b, o))
    <3> HIDE DEF b, o
    <3> QED BY <2>3, ArraysMerge
  <2> HIDE DEF b, o
  <2>5. out[p].kind = "list" /\ out[p].items = MergeArrays(b, o)
    BY <2>1 DEF List
  <2> QED BY <2>2, <2>4, <2>5 DEF HasList, b, o
<1>4. ASSUME NEW p \in DOMAIN override, ~ (HasList(base, p) /\ HasList(override, p))
      PROVE  out[p] = override[p]
  BY <1>4 DEF DeepMerge, HasList
<1> QED BY <1>1, <1>2, <1>3, <1>4

\* What is said of a merge of layers.
IsMerged(layers, out) ==
    /\ Typed(out)
    /\ HighestSpeaks(layers, out) /\ ItemsKept(layers, out)
    /\ ItemsTheirs(layers, out) /\ CodesOnce(layers, out)

LEMMA FirstLayerMerged ==
    ASSUME NEW layers, DOMAIN layers = {1}, Len(layers) = 1, Typed(layers[1])
    PROVE  IsMerged(layers, layers[1])
<1> DEFINE d == layers[1]
<1>1. DOMAIN layers = {1} /\ Len(layers) = 1 /\ layers[1] = d /\ 1..1 = {1}
      /\ 1 + 1..1 = {} /\ Typed(d)
  OBVIOUS
<1> HIDE DEF d
<1>2. HighestSpeaks(layers, d)
  BY <1>1 DEF HighestSpeaks, Speaks
<1>3. ItemsKept(layers, d)
  BY <1>1 DEF ItemsKept
<1>4. ItemsTheirs(layers, d)
  BY <1>1 DEF ItemsTheirs
<1>5. CodesOnce(layers, d)
  BY <1>1 DEF CodesOnce, Speaks
<1> QED BY <1>2, <1>3, <1>4, <1>5 DEF IsMerged, d

\* The setting of the next lemmas: one more layer.
OneMore(layers, out, d, more, next) ==
    /\ IsMerged(layers, out) /\ Typed(d) /\ next = DeepMerge(out, d)
    /\ Len(layers) \in Nat /\ DOMAIN layers = 1..Len(layers)
    /\ Len(more) = Len(layers) + 1 /\ DOMAIN more = 1..Len(layers) + 1
    /\ more[Len(layers) + 1] = d /\ \A n \in 1..Len(layers) : more[n] = layers[n]

\* What the merge at a path may be.
MergedAt(out, d, next) ==
    /\ \A p : p \in DOMAIN next <=> p \in DOMAIN d \/ (p \in DOMAIN out /\ ~ Cuts(d, p))
    /\ \A p \in DOMAIN next : p \notin DOMAIN d => next[p] = out[p]
    /\ \A p \in DOMAIN d :
          HasList(out, p) /\ HasList(d, p) =>
             HasList(next, p) /\ IsMergeOf(out[p].items, d[p].items, next[p].items)
    /\ \A p \in DOMAIN d : ~ (HasList(out, p) /\ HasList(d, p)) => next[p] = d[p]

LEMMA OneMoreMergedAt ==
    ASSUME NEW layers, NEW out, NEW d, NEW more, NEW next, OneMore(layers, out, d, more, next)
    PROVE  MergedAt(out, d, next)
BY MergeAt DEF OneMore, IsMerged, MergedAt

LEMMA TypedStays ==
    ASSUME NEW layers, NEW out, NEW d, NEW more, NEW next, OneMore(layers, out, d, more, next)
    PROVE  Typed(next)
<1>1. MergedAt(out, d, next) /\ Typed(out) /\ Typed(d)
  BY OneMoreMergedAt DEF OneMore, IsMerged
<1>2. ASSUME NEW p \in DOMAIN next, next[p].kind = "list"
      PROVE  next[p].items \in Seq(Range(next[p].items))
  <2>1. CASE p \notin DOMAIN d
    BY <1>1, <1>2, <2>1 DEF MergedAt, Typed
  <2>2. CASE p \in DOMAIN d /\ HasList(out, p) /\ HasList(d, p)
    BY <1>1, <2>2 DEF MergedAt, IsMergeOf
  <2>3. CASE p \in DOMAIN d /\ ~ (HasList(out, p) /\ HasList(d, p))
    BY <1>1, <1>2, <2>3 DEF MergedAt, Typed
  <2> QED BY <2>1, <2>2, <2>3
<1> QED BY <1>2 DEF Typed

\* A path the new layer speaks of is as it says; any other is as it was.
LEMMA HighestStays ==
    ASSUME NEW layers, NEW out, NEW d, NEW more, NEW next, OneMore(layers, out, d, more, next)
    PROVE  HighestSpeaks(more, next)
<1> DEFINE N == Len(layers)
<1>1. MergedAt(out, d, next) /\ HighestSpeaks(layers, out)
  BY OneMoreMergedAt DEF OneMore, IsMerged
<1>2. /\ N \in Nat /\ DOMAIN layers = 1..N /\ Len(more) = N + 1 /\ DOMAIN more = 1..N + 1
      /\ more[N + 1] = d /\ \A n \in 1..N : more[n] = layers[n]
  BY DEF OneMore
<1> HIDE DEF N
<1>3. SUFFICES ASSUME NEW p \in DOMAIN next \cup UNION {DOMAIN more[n] : n \in DOMAIN more}
               PROVE  \E n \in DOMAIN more :
                         /\ Speaks(more[n], p)
                         /\ \A m \in n + 1..Len(more) : ~ Speaks(more[m], p)
                         /\ p \in DOMAIN next <=> p \in DOMAIN more[n]
                         /\ p \in DOMAIN next =>
                              /\ next[p].kind = more[n][p].kind
                              /\ next[p].kind # "list" => next[p] = more[n][p]
  BY DEF HighestSpeaks
<1>4. CASE Speaks(d, p)
  <2>1. N + 1 \in DOMAIN more /\ (N + 1) + 1..Len(more) = {}
    BY <1>2
  <2>2. p \in DOMAIN next <=> p \in DOMAIN d
    BY <1>1, <1>4 DEF MergedAt, Speaks
  <2>3. ASSUME p \in DOMAIN next
        PROVE  next[p].kind = d[p].kind /\ (next[p].kind # "list" => next[p] = d[p])
    BY <1>1, <2>2, <2>3 DEF MergedAt, HasList
  <2> QED BY <1>2, <1>4, <2>1, <2>2, <2>3
<1>5. CASE ~ Speaks(d, p)
  <2>1. p \notin DOMAIN d /\ ~ Cuts(d, p)
    BY <1>5 DEF Speaks
  <2>2. (p \in DOMAIN next <=> p \in DOMAIN out) /\ (p \in DOMAIN next => next[p] = out[p])
    BY <1>1, <2>1 DEF MergedAt
  <2>3. p \in DOMAIN out \cup UNION {DOMAIN layers[n] : n \in DOMAIN layers}
    <3>1. CASE p \in DOMAIN next
      BY <2>2, <3>1
    <3>2. CASE p \notin DOMAIN next
      <4>1. PICK n \in 1..N + 1 : p \in DOMAIN more[n]
        BY <1>2, <3>2
      <4>2. n # N + 1
        BY <1>2, <2>1, <4>1
      <4>3. n \in 1..N
        BY <1>2, <4>2
      <4> QED BY <1>2, <4>1, <4>3
    <3> QED BY <3>1, <3>2
  <2>4. PICK n \in DOMAIN layers :
            /\ Speaks(layers[n], p) /\ \A m \in n + 1..Len(layers) : ~ Speaks(layers[m], p)
            /\ p \in DOMAIN out <=> p \in DOMAIN layers[n]
            /\ p \in DOMAIN out => /\ out[p].kind = layers[n][p].kind
                                   /\ out[p].kind # "list" => out[p] = layers[n][p]
    BY <1>1, <2>3 DEF HighestSpeaks
  <2>5. n \in 1..N /\ n \in DOMAIN more /\ more[n] = layers[n]
    BY <1>2
  <2>6. ASSUME NEW m \in n + 1..Len(more) PROVE ~ Speaks(more[m], p)
    <3>1. m \in n + 1..N \/ m = N + 1
      BY <1>2, <2>5
    <3>2. CASE m \in n + 1..N
      <4>1. m \in 1..N
        BY <1>2, <2>5, <3>2
      <4> QED BY <1>2, <2>4, <3>2, <4>1 DEF N
    <3>3. CASE m = N + 1
      BY <1>2, <1>5, <3>3
    <3> QED BY <3>1, <3>2, <3>3
  <2> QED BY <2>2, <2>4, <2>5, <2>6
<1> QED BY <1>4, <1>5

\* What is in a list after the merge: what was, or is replaced, and what the new layer
\* brings.
LEMMA ItemsMove ==
    ASSUME NEW layers, NEW out, NEW d, NEW more, NEW next, OneMore(layers, out, d, more, next),
           NEW p
    PROVE  /\ \A x \in ItemsAt(d, p) :
                 \/ x \in ItemsAt(next, p)
                 \/ \E y \in ItemsAt(d, p) : y # x /\ SameItem(y, x)
           /\ (Speaks(d, p) => HasList(d, p)) =>
                 \A x \in ItemsAt(out, p) :
                    \/ x \in ItemsAt(next, p)
                    \/ \E y \in ItemsAt(d, p) : y # x /\ SameItem(y, x)
           /\ ItemsAt(next, p) \subseteq ItemsAt(out, p) \cup ItemsAt(d, p)
<1>1. MergedAt(out, d, next)
  BY OneMoreMergedAt
<1>2. CASE HasList(d, p) /\ HasList(out, p)
  <2>1. HasList(next, p) /\ IsMergeOf(out[p].items, d[p].items, next[p].items)
    BY <1>1, <1>2 DEF MergedAt, HasList
  <2> QED BY <1>2, <2>1 DEF ItemsAt, IsMergeOf
<1>3. CASE p \in DOMAIN d /\ ~ (HasList(d, p) /\ HasList(out, p))
  <2>1. next[p] = d[p] /\ p \in DOMAIN next
    BY <1>1, <1>3 DEF MergedAt
  <2>2. ItemsAt(next, p) = ItemsAt(d, p)
    BY <1>3, <2>1 DEF ItemsAt, HasList
  <2>3. HasList(d, p) => ItemsAt(out, p) = {}
    BY <1>3 DEF ItemsAt
  <2>4. Speaks(d, p)
    BY <1>3 DEF Speaks
  <2> QED BY <2>2, <2>3, <2>4
<1>4. CASE p \notin DOMAIN d
  <2>1. ItemsAt(d, p) = {}
    BY <1>4 DEF ItemsAt, HasList
  <2>2. p \in DOMAIN next => p \in DOMAIN out /\ next[p] = out[p]
    BY <1>1, <1>4 DEF MergedAt
  <2>3. ItemsAt(next, p) \subseteq ItemsAt(out, p)
    BY <2>2 DEF ItemsAt, HasList
  <2>4. (Speaks(d, p) => HasList(d, p)) => (p \in DOMAIN out => p \in DOMAIN next)
    BY <1>1, <1>4 DEF MergedAt, Speaks, HasList
  <2>5. (Speaks(d, p) => HasList(d, p)) => ItemsAt(next, p) = ItemsAt(out, p)
    BY <2>2, <2>4 DEF ItemsAt, HasList
  <2> QED BY <2>1, <2>3, <2>5
<1> QED BY <1>2, <1>3, <1>4 DEF HasList

LEMMA ItemsStayKept ==
    ASSUME NEW layers, NEW out, NEW d, NEW more, NEW next, OneMore(layers, out, d, more, next)
    PROVE  ItemsKept(more, next)
<1> DEFINE N == Len(layers)
<1>1. ItemsKept(layers, out)
  BY DEF OneMore, IsMerged
<1>2. /\ N \in Nat /\ DOMAIN layers = 1..N /\ Len(more) = N + 1 /\ DOMAIN more = 1..N + 1
      /\ more[N + 1] = d /\ \A n \in 1..N : more[n] = layers[n]
  BY DEF OneMore
<1> HIDE DEF N
<1>3. SUFFICES ASSUME NEW n \in 1..N + 1, NEW p \in DOMAIN more[n],
                      \A m \in n..N + 1 : Speaks(more[m], p) => HasList(more[m], p),
                      NEW item \in ItemsAt(more[n], p)
               PROVE  \/ item \in ItemsAt(next, p)
                      \/ \E m \in n..N + 1 : \E other \in ItemsAt(more[m], p) :
                            other # item /\ SameItem(other, item)
  BY <1>2 DEF ItemsKept
<1>4. N + 1 \in n..N + 1
  BY <1>2
<1>5. Speaks(d, p) => HasList(d, p)
  BY <1>2, <1>3, <1>4
<1>6. CASE n = N + 1
  <2>1. item \in ItemsAt(d, p)
    BY <1>2, <1>6
  <2>2. item \in ItemsAt(next, p) \/ \E y \in ItemsAt(d, p) : y # item /\ SameItem(y, item)
    BY <2>1, ItemsMove
  <2> QED BY <1>2, <1>4, <2>2
<1>7. CASE n # N + 1
  <2>1. n \in 1..N /\ more[n] = layers[n]
    BY <1>2, <1>7
  <2>2. \A m \in n..N : m \in n..N + 1 /\ more[m] = layers[m]
    BY <1>2, <2>1
  <2>3. \/ item \in ItemsAt(out, p)
        \/ \E m \in n..N : \E other \in ItemsAt(layers[m], p) :
              other # item /\ SameItem(other, item)
    <3>1. \A m \in n..Len(layers) : Speaks(layers[m], p) => HasList(layers[m], p)
      BY <1>3, <2>2 DEF N
    <3> QED BY <1>1, <1>2, <2>1, <3>1 DEF ItemsKept, N
  <2>4. CASE item \in ItemsAt(out, p)
    <3>1. item \in ItemsAt(next, p) \/ \E y \in ItemsAt(d, p) : y # item /\ SameItem(y, item)
      BY <1>5, <2>4, ItemsMove
    <3> QED BY <1>2, <1>4, <3>1
  <2>5. CASE \E m \in n..N : \E other \in ItemsAt(layers[m], p) :
                other # item /\ SameItem(other, item)
    BY <2>2, <2>5
  <2> QED BY <2>3, <2>4, <2>5
<1> QED BY <1>6, <1>7

LEMMA ItemsStayTheirs ==
    ASSUME NEW layers, NEW out, NEW d, NEW more, NEW next, OneMore(layers, out, d, more, next)
    PROVE  ItemsTheirs(more, next)
<1> DEFINE N == Len(layers)
<1>1. ItemsTheirs(layers, out)
  BY DEF OneMore, IsMerged
<1>2. /\ N \in Nat /\ DOMAIN layers = 1..N /\ DOMAIN more = 1..N + 1
      /\ more[N + 1] = d /\ \A n \in 1..N : more[n] = layers[n]
  BY DEF OneMore
<1> HIDE DEF N
<1>3. ASSUME NEW p \in DOMAIN next, NEW item \in ItemsAt(next, p)
      PROVE  \E n \in DOMAIN more : item \in ItemsAt(more[n], p)
  <2>1. item \in ItemsAt(out, p) \/ item \in ItemsAt(d, p)
    BY <1>3, ItemsMove
  <2>2. CASE item \in ItemsAt(d, p)
    <3>1. N + 1 \in DOMAIN more
      BY <1>2
    <3> QED BY <1>2, <2>2, <3>1
  <2>3. CASE item \in ItemsAt(out, p)
    <3>1. p \in DOMAIN out
      BY <2>3 DEF ItemsAt, HasList
    <3>2. PICK n \in DOMAIN layers : item \in ItemsAt(layers[n], p)
      BY <1>1, <2>3, <3>1 DEF ItemsTheirs
    <3>3. n \in DOMAIN more /\ more[n] = layers[n]
      BY <1>2
    <3> QED BY <3>2, <3>3
  <2> QED BY <2>1, <2>2, <2>3
<1> QED BY <1>3 DEF ItemsTheirs

\* A path of which each layer that speaks has a list is printed if one does, and as
\* a list.
LEMMA ListIsPrinted ==
    ASSUME NEW layers, NEW out, HighestSpeaks(layers, out), NEW p,
           \A n \in DOMAIN layers : Speaks(layers[n], p) => HasList(layers[n], p)
    PROVE  /\ (\E n \in DOMAIN layers : Speaks(layers[n], p)) => p \in DOMAIN out
           /\ p \in DOMAIN out => HasList(out, p)
           /\ p \in DOMAIN out => \E n \in DOMAIN layers : Speaks(layers[n], p)
<1>1. ASSUME p \in DOMAIN out \cup UNION {DOMAIN layers[n] : n \in DOMAIN layers}
      PROVE  HasList(out, p) /\ \E n \in DOMAIN layers : Speaks(layers[n], p)
  <2>1. PICK n \in DOMAIN layers :
            /\ Speaks(layers[n], p)
            /\ p \in DOMAIN out <=> p \in DOMAIN layers[n]
            /\ p \in DOMAIN out => out[p].kind = layers[n][p].kind
    BY <1>1 DEF HighestSpeaks
  <2>2. HasList(layers[n], p)
    BY <2>1
  <2> QED BY <2>1, <2>2 DEF HasList
<1>2. ASSUME NEW n \in DOMAIN layers, Speaks(layers[n], p)
      PROVE  p \in UNION {DOMAIN layers[m] : m \in DOMAIN layers}
  BY <1>2 DEF HasList
<1> QED BY <1>1, <1>2 DEF HasList

LEMMA CodesStayOnce ==
    ASSUME NEW layers, NEW out, NEW d, NEW more, NEW next, OneMore(layers, out, d, more, next)
    PROVE  CodesOnce(more, next)
<1> DEFINE N == Len(layers)
<1>1. /\ CodesOnce(layers, out) /\ HighestSpeaks(layers, out) /\ ItemsTheirs(layers, out)
      /\ MergedAt(out, d, next)
  BY OneMoreMergedAt DEF OneMore, IsMerged
<1>2. /\ N \in Nat /\ DOMAIN layers = 1..N /\ DOMAIN more = 1..N + 1
      /\ more[N + 1] = d /\ \A n \in 1..N : more[n] = layers[n]
  BY DEF OneMore
<1> HIDE DEF N
<1> SUFFICES
      ASSUME NEW p \in DOMAIN next,
             \A n \in 1..N + 1 : Speaks(more[n], p) =>
                 /\ HasList(more[n], p)
                 /\ \A item \in ItemsAt(more[n], p) : item.code # "none",
             \A n \in 1..N + 1 :
                 /\ Speaks(more[n], p)
                 /\ \A m \in 1..N + 1 : Speaks(more[m], p) => n <= m
                 => NoCodeTwice(more[n][p].items)
      PROVE  NoCodeTwice(next[p].items)
  BY <1>2 DEF CodesOnce
<1>3. /\ \A n \in 1..N : Speaks(layers[n], p) =>
              /\ HasList(layers[n], p)
              /\ \A item \in ItemsAt(layers[n], p) : item.code # "none"
      /\ Speaks(d, p) => /\ HasList(d, p)
                         /\ \A item \in ItemsAt(d, p) : item.code # "none"
  <2>1. N + 1 \in 1..N + 1 /\ \A n \in 1..N : n \in 1..N + 1
    BY <1>2
  <2> QED BY <1>2, <2>1
<1>4. /\ (\E n \in 1..N : Speaks(layers[n], p)) => p \in DOMAIN out
      /\ p \in DOMAIN out => HasList(out, p)
      /\ p \in DOMAIN out => \E n \in 1..N : Speaks(layers[n], p)
  BY <1>1, <1>2, <1>3, ListIsPrinted
<1>5. p \in DOMAIN out => NoCodeTwice(out[p].items)
  <2>1. SUFFICES ASSUME p \in DOMAIN out PROVE NoCodeTwice(out[p].items)
    OBVIOUS
  <2>2. PICK k \in 1..N : Speaks(layers[k], p)
    BY <1>4, <2>1
  <2>3. ASSUME NEW n \in 1..N, Speaks(layers[n], p),
               \A m \in 1..N : Speaks(layers[m], p) => n <= m
        PROVE  NoCodeTwice(layers[n][p].items)
    <3>1. n \in 1..N + 1 /\ more[n] = layers[n] /\ n <= N + 1
      BY <1>2
    <3>2. \A m \in 1..N + 1 : Speaks(more[m], p) => n <= m
      <4>1. \A m \in 1..N + 1 : m \in 1..N \/ m = N + 1
        BY <1>2
      <4> QED BY <1>2, <2>3, <3>1, <4>1
    <3> QED BY <2>3, <3>1, <3>2
  <2> QED BY <1>1, <1>2, <1>3, <2>1, <2>3 DEF CodesOnce
<1>6. CASE ~ Speaks(d, p)
  <2>1. p \in DOMAIN out /\ next[p] = out[p]
    BY <1>1, <1>6 DEF MergedAt, Speaks
  <2> QED BY <1>5, <2>1
<1>7. CASE Speaks(d, p) /\ p \in DOMAIN out
  <2>1. HasList(d, p) /\ HasList(out, p) /\ p \in DOMAIN d
    BY <1>3, <1>4, <1>7 DEF HasList
  <2>2. IsMergeOf(out[p].items, d[p].items, next[p].items)
    BY <1>1, <2>1 DEF MergedAt
  <2>3. \A x \in ItemsAt(out, p) : x.code # "none"
    <3>1. ASSUME NEW x \in ItemsAt(out, p) PROVE x.code # "none"
      <4>1. PICK n \in 1..N : x \in ItemsAt(layers[n], p)
        BY <1>1, <1>2, <1>7, <3>1 DEF ItemsTheirs
      <4>2. Speaks(layers[n], p)
        BY <4>1 DEF ItemsAt, HasList, Speaks
      <4> QED BY <1>3, <4>1, <4>2
    <3> QED BY <3>1
  <2>4. \A x \in Range(out[p].items) \cup Range(d[p].items) : x.code # "none"
    BY <1>3, <1>7, <2>1, <2>3 DEF ItemsAt
  <2> QED BY <1>5, <1>7, <2>2, <2>4 DEF IsMergeOf
<1>8. CASE Speaks(d, p) /\ p \notin DOMAIN out
  <2>1. \A n \in 1..N : ~ Speaks(layers[n], p)
    BY <1>4, <1>8
  <2>2. \A m \in 1..N + 1 : Speaks(more[m], p) => N + 1 <= m
    <3>1. \A m \in 1..N + 1 : m \in 1..N \/ m = N + 1
      BY <1>2
    <3> QED BY <1>2, <2>1, <3>1
  <2>3. NoCodeTwice(d[p].items)
    <3>1. N + 1 \in 1..N + 1
      BY <1>2
    <3> QED BY <1>2, <1>8, <2>2, <3>1
  <2>4. next[p] = d[p]
    BY <1>1, <1>8 DEF MergedAt, HasList
  <2> QED BY <2>3, <2>4
<1> QED BY <1>6, <1>7, <1>8

LEMMA OneMoreMerged ==
    ASSUME NEW layers, NEW out, NEW d, NEW more, NEW next, OneMore(layers, out, d, more, next)
    PROVE  IsMerged(more, next)
BY TypedStays, HighestStays, ItemsStayKept, ItemsStayTheirs, CodesStayOnce DEF IsMerged

-----------------------------------------------------------------------------
(* All layers. *)

\* The layers are merged one after the other.
IsMerges(layers, N, r) ==
    r = [n \in 1..N |-> IF n = 1 THEN layers[1] ELSE DeepMerge(r[n - 1], layers[n])]

LEMMA MergesExist ==
    ASSUME NEW layers, Len(layers) \in Nat \ {0}
    PROVE  \E r : IsMerges(layers, Len(layers), r)
<1> DEFINE S == {N \in Nat : \E r : IsMerges(layers, N, r)}
<1>1. 1 \in S
  <2>1. IsMerges(layers, 1, [n \in 1..1 |-> layers[1]])
    BY DEF IsMerges
  <2> QED BY <2>1
<1>2. ASSUME NEW N \in Nat \ {0}, N \in S PROVE N + 1 \in S
  <2>1. PICK r : IsMerges(layers, N, r)
    BY <1>2
  <2> DEFINE next == [n \in 1..N + 1 |->
                         IF n <= N THEN r[n] ELSE DeepMerge(r[N], layers[N + 1])]
  <2>2. next[1] = layers[1]
    BY <2>1 DEF IsMerges
  <2>3. ASSUME NEW n \in 2..N PROVE next[n] = DeepMerge(next[n - 1], layers[n])
    <3>1. next[n] = r[n] /\ next[n - 1] = r[n - 1]
      OBVIOUS
    <3>2. r[n] = DeepMerge(r[n - 1], layers[n])
      BY <2>1 DEF IsMerges
    <3> QED BY <3>1, <3>2
  <2>4. next[N + 1] = DeepMerge(next[N], layers[N + 1])
    OBVIOUS
  <2>5. next = [n \in 1..N + 1 |->
                   IF n = 1 THEN layers[1] ELSE DeepMerge(next[n - 1], layers[n])]
    <3>1. ASSUME NEW n \in 1..N + 1
          PROVE  next[n] = IF n = 1 THEN layers[1] ELSE DeepMerge(next[n - 1], layers[n])
      <4>1. n = 1 \/ n \in 2..N \/ n = N + 1
        OBVIOUS
      <4>2. (N + 1) - 1 = N /\ N + 1 # 1 /\ \A k \in 2..N : k # 1
        OBVIOUS
      <4> HIDE DEF next
      <4> QED BY <2>2, <2>3, <2>4, <4>1, <4>2
    <3>2. DOMAIN next = 1..N + 1 /\ next = [n \in DOMAIN next |-> next[n]]
      OBVIOUS
    <3> HIDE DEF next
    <3> QED BY <3>1, <3>2
  <2>6. IsMerges(layers, N + 1, next)
    <3> HIDE DEF next
    <3> QED BY <2>5 DEF IsMerges
  <2> HIDE DEF next
  <2> QED BY <2>6
<1>3. Len(layers) \in S
  <2> HIDE DEF S
  <2>1. \A N \in 1..Len(layers) - 1 : N \in S => N + 1 \in S
    BY <1>2
  <2>2. 1..Len(layers) \subseteq S
    BY <1>1, <2>1, AllOfInterval
  <2> QED BY <2>2
<1> QED BY <1>3

\* What is merged of any layers, one at least, is what is said of a merge.
LEMMA MergedIsMerged ==
    ASSUME NEW S, NEW layers \in Seq(S), Len(layers) \in Nat \ {0},
           \A d \in S : Typed(d)
    PROVE  IsMerged(layers, Merged(layers))
<1> DEFINE N == Len(layers)
           r == CHOOSE f : IsMerges(layers, N, f)
           Upto(n) == SubSeq(layers, 1, n)
           All == {n \in 1..N : IsMerged(Upto(n), r[n])}
<1>1. IsMerges(layers, N, r)
  BY MergesExist
<1>2. Merged(layers) = r[N]
  BY DEF Merged, IsMerges
<1> HIDE DEF r
<1>3. r[1] = layers[1] /\ \A n \in 2..N : r[n] = DeepMerge(r[n - 1], layers[n])
  BY <1>1 DEF IsMerges
<1>4. 1 \in All
  <2>1. Len(Upto(1)) = 1 /\ DOMAIN Upto(1) = {1} /\ Upto(1)[1] = layers[1] /\ layers[1] \in S
    <3>1. 1 \in 1..N
      OBVIOUS
    <3> QED BY <3>1
  <2>2. IsMerged(Upto(1), r[1])
    BY <1>3, <2>1, FirstLayerMerged
  <2> QED BY <2>2
<1>5. ASSUME NEW n \in 1..N - 1, n \in All PROVE n + 1 \in All
  <2>1. n + 1 \in 2..N /\ (n + 1) - 1 = n /\ layers[n + 1] \in S
    OBVIOUS
  <2>2. /\ Len(Upto(n)) = n /\ DOMAIN Upto(n) = 1..n
        /\ Len(Upto(n + 1)) = n + 1 /\ DOMAIN Upto(n + 1) = 1..n + 1
        /\ \A k \in 1..n : Upto(n)[k] = layers[k]
        /\ \A k \in 1..n + 1 : Upto(n + 1)[k] = layers[k]
    OBVIOUS
  <2>3. IsMerged(Upto(n), r[n]) /\ Typed(layers[n + 1])
    BY <1>5, <2>1
  <2>4. r[n + 1] = DeepMerge(r[n], layers[n + 1])
    BY <1>3, <2>1
  <2> HIDE DEF Upto
  <2>5. n \in Nat /\ n + 1 \in 1..n + 1 /\ \A k \in 1..n : k \in 1..n + 1
    OBVIOUS
  <2>6. OneMore(Upto(n), r[n], layers[n + 1], Upto(n + 1), r[n + 1])
    BY <2>2, <2>3, <2>4, <2>5 DEF OneMore
  <2>7. IsMerged(Upto(n + 1), r[n + 1])
    BY <2>6, OneMoreMerged
  <2> QED BY <2>1, <2>7
<1>6. N \in All
  <2> HIDE DEF All
  <2>1. 1..N \subseteq All
    BY <1>4, <1>5, AllOfInterval
  <2> QED BY <2>1
<1>7. Upto(N) = layers
  OBVIOUS
<1> QED BY <1>2, <1>6, <1>7

-----------------------------------------------------------------------------
(* The resolvers. *)

\* A resolver that loads has layers; one that printed has merged what it loaded.
ResolverInv ==
    /\ DOMAIN resolver = {"at", "layers", "install", "place", "loaded", "out"}
    /\ resolver.at = "load" => resolver.layers \in {SkillLayers, ConfigLayers}
    /\ resolver.at = "printed" =>
          Len(resolver.loaded) \in Nat \ {0} /\ resolver.out = Merged(resolver.loaded)

CustomizationInv == CustomizationTypeOK /\ ResolverInv

\* The files the layers are read from.
LEMMA LayersNamed ==
    /\ Len(SkillLayers) = 3 /\ Len(ConfigLayers) = 4 /\ SkillLayers # ConfigLayers
    /\ SkillLayers # <<>> /\ ConfigLayers # <<>>
    /\ \A n \in 1..3 : SkillLayers[n] # "defaults" => SkillLayers[n] \in Range(Tail(SkillLayers))
    /\ \A n \in 1..4 : ConfigLayers[n] # "defaults" /\ ConfigLayers[n] \in Range(ConfigLayers)
<1>1. Len(SkillLayers) = 3 /\ Len(ConfigLayers) = 4
  BY DEF SkillLayers, ConfigLayers
<1>2. Tail(SkillLayers) = <<"team", "user">>
  BY DEF SkillLayers
<1>3. \A n \in 1..3 : SkillLayers[n] # "defaults" => SkillLayers[n] \in Range(Tail(SkillLayers))
  BY <1>2 DEF SkillLayers, Range
<1>4. \A n \in 1..4 : ConfigLayers[n] # "defaults" /\ ConfigLayers[n] \in Range(ConfigLayers)
  BY DEF ConfigLayers, Range
<1>5. SkillLayers # ConfigLayers /\ SkillLayers # <<>> /\ ConfigLayers # <<>>
  <2>1. Len(<<>>) = 0
    OBVIOUS
  <2> QED BY <1>1, <2>1
<1> QED BY <1>1, <1>3, <1>4, <1>5

\* What files hold are trees.
LEMMA HoldingsTyped ==
    /\ \A h \in Holdings : Typed(h)
    /\ \A v \in Defaults \cup Overrides \cup {Absent, Broken} : v.holds \in Holdings
<1>1. Typed(Empty)
  BY DEF Typed, Empty
<1>2. Absent.holds = Empty /\ Broken.holds = Empty
  BY DEF Absent, Broken
<1>3. \A v \in Defaults \cup Overrides : Typed(v.holds)
  BY CustomizationAssumption DEF IsTree, Typed
<1> QED BY <1>1, <1>2, <1>3 DEF Holdings

\* A skill that is listed is installed: the first of its copies that parse.
LEMMA ListedInstalled == Listed \subseteq Installs
<1> SUFFICES ASSUME NEW n \in Names, Seen(n) # {} PROVE FirstSeen(n) \in Installs
  BY DEF Listed
<1>1. Seen(n) \in SUBSET Nat /\ Seen(n) \subseteq DOMAIN Roots
  BY CustomizationAssumption DEF Seen
<1>2. \E r \in Seen(n) : \A q \in Seen(n) : r <= q
  BY <1>1, LeastIndex
<1>3. (CHOOSE r \in Seen(n) : \A q \in Seen(n) : r <= q) \in DOMAIN Roots
  BY <1>1, <1>2
<1>4. \A r \in DOMAIN Roots : Roots[r] \in Range(Roots)
  BY DEF Range
<1> QED BY <1>3, <1>4 DEF FirstSeen, Installs

LEMMA CustomizationStart == CustomizationInit => CustomizationInv
<1> SUFFICES ASSUME CustomizationInit PROVE CustomizationInv
  OBVIOUS
<1>1. edits \in 0..MaxEdits
  BY CustomizationAssumption DEF CustomizationInit
<1>2. ResolverInv
  BY DEF CustomizationInit, ResolverInv, NoResolver
<1>3. CustomizationTypeOK
  BY <1>1 DEF CustomizationInit, CustomizationTypeOK, NoResolver, NoListing, SkillLayers
<1> QED BY <1>2, <1>3 DEF CustomizationInv

LEMMA CustomizationStep ==
    CustomizationInv /\ [CustomizationNext]_customizationVars => CustomizationInv'
<1> SUFFICES ASSUME CustomizationInv, [CustomizationNext]_customizationVars
             PROVE  CustomizationInv'
  OBVIOUS
<1> USE DEF CustomizationInv
<1>1. CASE \E l \in DOMAIN files, v \in Overrides \cup {Absent, Broken} :
              TeamCommits(l, v) \/ UserEdits(l, v) \/ InstallerWrites(l, v)
  <2>1. PICK l \in DOMAIN files, v \in Overrides \cup {Absent, Broken} :
            /\ Edited /\ files' = [files EXCEPT ![l] = v] /\ UNCHANGED <<skills, others, listing>>
    BY <1>1 DEF TeamCommits, UserEdits, InstallerWrites
  <2>2. edits' \in 0..MaxEdits /\ resolver' = resolver
    BY <2>1, CustomizationAssumption DEF Edited, CustomizationTypeOK
  <2> QED BY <2>1, <2>2 DEF CustomizationTypeOK, ResolverInv
<1>2. CASE \E l \in DOMAIN others, v \in Overrides : OtherEdited(l, v)
  <2>1. PICK l \in DOMAIN others, v \in Overrides : OtherEdited(l, v)
    BY <1>2
  <2>2. edits' \in 0..MaxEdits /\ resolver' = resolver
    BY <2>1, CustomizationAssumption DEF OtherEdited, Edited, CustomizationTypeOK
  <2> QED BY <2>1, <2>2 DEF OtherEdited, CustomizationTypeOK, ResolverInv
<1>3. CASE \E i \in Installs, v \in Defaults \cup {Broken} : SkillUpdated(i, v)
  <2>1. PICK i \in Installs, v \in Defaults \cup {Broken} : SkillUpdated(i, v)
    BY <1>3
  <2>2. edits' \in 0..MaxEdits /\ resolver' = resolver
    BY <2>1, CustomizationAssumption DEF SkillUpdated, Edited, CustomizationTypeOK
  <2> QED BY <2>1, <2>2 DEF SkillUpdated, CustomizationTypeOK, ResolverInv, NoListing
<1>4. CASE ListSkills
  <2>1. \A e \in listing'.entries : \E i \in Listed : \E f \in Surfaces(skills[i]) :
            e = [install |-> i, surface |-> f]
    BY <1>4 DEF ListSkills
  <2>2. \A i \in Listed : Surfaces(skills[i]) \subseteq {"agent", "workflow"}
    BY DEF Surfaces
  <2>3. listing'.entries \subseteq [install : Installs, surface : {"agent", "workflow"}]
    BY <2>1, <2>2, ListedInstalled
  <2>4. listing'.errors \subseteq Installs
    BY <1>4, ListedInstalled DEF ListSkills
  <2>5. UNCHANGED <<skills, files, others, edits, resolver>>
    BY <1>4 DEF ListSkills
  <2> QED BY <2>3, <2>4, <2>5 DEF CustomizationTypeOK, ResolverInv
<1>5. CASE \E i \in Installs, place \in Places : ResolveSkill(i, place)
  BY <1>5, LayersNamed DEF ResolveSkill, CustomizationTypeOK, ResolverInv, NoResolver
<1>6. CASE ResolveConfig
  BY <1>6, LayersNamed DEF ResolveConfig, CustomizationTypeOK, ResolverInv, NoResolver
<1>7. CASE LoadLayer
  <2> DEFINE n == Len(resolver.loaded) + 1
             v == Content(resolver.layers[n])
  <2>1. v.holds \in Holdings /\ n <= Len(resolver.layers)
    <3>1. /\ resolver.layers \in {SkillLayers, ConfigLayers} /\ n \in 1..Len(resolver.layers)
      BY <1>7 DEF LoadLayer, ResolverInv, CustomizationTypeOK
    <3>2. CASE resolver.layers[n] = "defaults"
      <4>1. resolver.layers = SkillLayers
        BY <3>1, <3>2, LayersNamed
      <4>2. v = skills[resolver.install]
        BY <3>2 DEF Content
      <4> QED BY <3>1, <4>1, <4>2, HoldingsTyped DEF CustomizationTypeOK
    <3>3. CASE resolver.layers[n] # "defaults"
      <4>1. resolver.layers[n] \in Range(Tail(SkillLayers)) \cup Range(ConfigLayers)
        BY <3>1, <3>3, LayersNamed
      <4>2. resolver.layers = SkillLayers => resolver.layers[n] \in Range(Tail(SkillLayers))
        BY <3>1, <3>3, LayersNamed
      <4>3. ProjectOf(resolver.place) \in {"this", "other", "none"}
        BY CustomizationAssumption DEF CustomizationTypeOK, NoResolver, ProjectOf
      <4>4. v \in Overrides \cup {Absent, Broken}
        <5>1. CASE resolver.layers = ConfigLayers \/ ProjectOf(resolver.place) = "this"
          BY <3>3, <4>1, <5>1 DEF Content, CustomizationTypeOK
        <5>2. CASE resolver.layers # ConfigLayers /\ ProjectOf(resolver.place) = "other"
          BY <3>1, <3>3, <4>2, <5>2 DEF Content, CustomizationTypeOK
        <5>3. CASE resolver.layers # ConfigLayers /\ ProjectOf(resolver.place) = "none"
          BY <3>3, <5>3 DEF Content
        <5> QED BY <4>3, <5>1, <5>2, <5>3
      <4> QED BY <3>1, <4>4, HoldingsTyped
    <3> QED BY <3>2, <3>3
  <2> QED BY <1>7, <2>1 DEF LoadLayer, CustomizationTypeOK, ResolverInv
<1>8. CASE PrintMerged
  <2>1. Len(resolver.loaded) \in Nat \ {0}
    BY <1>8, LayersNamed DEF PrintMerged, ResolverInv, CustomizationTypeOK
  <2> QED BY <1>8, <2>1 DEF PrintMerged, CustomizationTypeOK, ResolverInv
<1>9. CASE UNCHANGED customizationVars
  BY <1>9 DEF customizationVars, CustomizationTypeOK, ResolverInv
<1> QED BY <1>1, <1>2, <1>3, <1>4, <1>5, <1>6, <1>7, <1>8, <1>9 DEF CustomizationNext

LEMMA CustomizationInvariant == CustomizationSpec => []CustomizationInv
BY CustomizationStart, CustomizationStep, PTL DEF CustomizationSpec

\* The files, the listing and the resolver keep their types.
THEOREM CustomizationTypeCorrect == CustomizationSpec => []CustomizationTypeOK
BY CustomizationInvariant, PTL DEF CustomizationInv

\* What a resolver prints is the layers it read: of each table and field what the
\* highest layer that speaks of it says, and of lists every item that no other of
\* its identifier replaces; for any layers, any depth of tables and any edits.
THEOREM LayersAreMerged == CustomizationSpec => []LayersMerge
<1>1. CustomizationInv => LayersMerge
  <2> SUFFICES ASSUME CustomizationInv, resolver.at = "printed"
               PROVE  IsMerged(resolver.loaded, resolver.out)
    BY DEF LayersMerge, IsMerged
  <2>1. /\ resolver.loaded \in Seq(Holdings) /\ Len(resolver.loaded) \in Nat \ {0}
        /\ resolver.out = Merged(resolver.loaded)
    BY DEF CustomizationInv, CustomizationTypeOK, ResolverInv
  <2> QED BY <2>1, HoldingsTyped, MergedIsMerged
<1> QED BY <1>1, CustomizationInvariant, PTL

=============================================================================
