---------------------------- MODULE ModuleSetup ----------------------------
(***************************************************************************)
(* bmad-bmb-setup: a module is installed into a project by merge-config.py *)
(* and merge-help-csv.py, which may run side by side, and cleanup-legacy.py *)
(* after both. They write the files all modules share, consolidate the     *)
(* files of the old installer and delete these. Every file is opened with  *)
(* "w" and written afterwards; a setup may die anywhere and be run again.  *)
(*                                                                         *)
(* A value is reduced to where it came from. The agent that collects the   *)
(* answers and calls the scripts is external: SKILL.md.                    *)
(***************************************************************************)
EXTENDS Naturals, FiniteSets

CONSTANTS
    Modules,       \* module codes
    Releases,      \* <<module, number>> of the releases that may be installed
    CoreKeys,      \* _CORE_KEYS
    CoreUserKeys,  \* _CORE_USER_KEYS
    VarKeys,       \* the variables of module.yaml
    UserVars,      \* those with user_setting: true
    Projects,      \* _bmad/ as a setup may find it
    MaxCrashes     \* bound on the setups that die

LegacyDirs == Modules \cup {"core", "_config"}
ASSUME SetupAssumption ==
    /\ CoreUserKeys \subseteq CoreKeys /\ UserVars \subseteq VarKeys
    /\ CoreKeys \cap VarKeys = {}
    /\ Releases \subseteq Modules \X (Nat \ {0}) /\ MaxCrashes \in Nat
    /\ Modules \cap {"core", "_config", "none"} = {}

VARIABLES
    found,      \* the project at first
    config,     \* _bmad/config.yaml
    userConfig, \* _bmad/config.user.yaml
    help,       \* _bmad/module-help.csv, as rows <<module, release>>
    newHelp,    \* merged_rows
    legacy,     \* <dir>/config.yaml of the old installer, of the files left
    legacyHelp, \* directories with a module-help.csv of the old installer
    legacySkills, \* skills in the directories of the old installer
    setup,      \* the setup that runs
    mergeAt, helpAt, cleanAt, \* where its three scripts are
    answers,    \* the --answers file, then with the legacy defaults under it
    newConfig, newUser, \* updated_config, updated_user_config
    installed,  \* release of the last finished setup; 0 if one died since
    merged,     \* some merge-config.py has written config.yaml
    torn,       \* files of all modules that a dying script left truncated
    crashes
installer == <<legacy, legacyHelp, legacySkills>>
plans == <<newConfig, newUser, newHelp>>
history == <<found, installed, merged, torn, crashes>>
setupVars == <<config, userConfig, help, installer, setup, mergeAt, helpAt, cleanAt,
               answers, plans, history>>

Origin == {"none", "old", "legacy", "answer"}
NoSection == [release |-> 0, value |-> [k \in VarKeys |-> "none"]]
EmptyConfig == [root |-> [k \in CoreKeys |-> "none"],
                core |-> [k \in CoreKeys |-> "none"],  \* nested, an older format
                section |-> [m \in Modules |-> NoSection]]
EmptyUserConfig == [core |-> [k \in CoreUserKeys |-> "none"],
                    var |-> [k \in UserVars |-> "none"]]
Configs == [root : [CoreKeys -> Origin], core : [CoreKeys -> Origin],
            section : [Modules -> [release : Nat, value : [VarKeys -> Origin]]]]
UserConfigs == [core : [CoreUserKeys -> Origin], var : [UserVars -> Origin]]
\* A directory of the old installer with the values in its config.yaml.
Legacies == [file : BOOLEAN, core : SUBSET CoreKeys, var : SUBSET VarKeys]
NoLegacy == [file |-> FALSE, core |-> {}, var |-> {}]

ASSUME ProjectsAssumption ==
    \A p \in Projects :
        /\ p.config \in Configs /\ p.userConfig \in UserConfigs
        /\ p.help \subseteq Releases
        /\ p.legacy \in [LegacyDirs -> Legacies]
        /\ \A d \in LegacyDirs : ~p.legacy[d].file => p.legacy[d] = NoLegacy
        /\ p.legacyHelp \subseteq LegacyDirs
        /\ p.legacySkills = [d \in LegacyDirs |-> p.legacySkills[d]]

NoAnswers == [core |-> [k \in CoreKeys |-> "none"], var |-> [k \in VarKeys |-> "none"]]
Idle == [module |-> "none", release |-> 0]

SetupTypeOK ==
    /\ found \in Projects /\ config \in Configs /\ newConfig \in Configs
    /\ userConfig \in UserConfigs /\ newUser \in UserConfigs
    /\ help \subseteq Releases /\ newHelp \subseteq Releases
    /\ legacy \in [LegacyDirs -> Legacies]
    /\ legacyHelp \subseteq LegacyDirs
    /\ setup = Idle \/ <<setup.module, setup.release>> \in Releases
    /\ mergeAt \in {"idle", "start", "writing", "user", "writingUser", "unlink",
                   "unlinkCore", "done"}
    /\ helpAt \in {"idle", "start", "writing", "unlink", "done"}
    /\ cleanAt \in {"idle", "start", "module", "core", "_config"}
    /\ answers \in [core : [CoreKeys -> Origin], var : [VarKeys -> Origin]]
    /\ installed \in [Modules -> Nat] /\ merged \in BOOLEAN
    /\ torn \subseteq {"config", "help"} /\ crashes \in 0..MaxCrashes

SetupInit ==
    /\ found \in Projects
    /\ config = found.config /\ userConfig = found.userConfig
    /\ help = found.help /\ newHelp = {} /\ legacy = found.legacy
    /\ legacyHelp = found.legacyHelp /\ legacySkills = found.legacySkills
    /\ setup = Idle /\ mergeAt = "idle" /\ helpAt = "idle" /\ cleanAt = "idle"
    /\ answers = NoAnswers /\ newConfig = EmptyConfig
    /\ newUser = EmptyUserConfig /\ installed = [m \in Modules |-> 0] /\ merged = FALSE
    /\ torn = {} /\ crashes = 0

\* The agent collects the answers: the core keys unless there are some already,
\* every variable the module has a value for, and what else the user says.
CoreKnown == \E k \in CoreKeys :
    \/ config.root[k] # "none" \/ config.core[k] # "none"
    \/ k \in CoreUserKeys /\ userConfig.core[k] # "none"

BeginSetup(m, v, vars) ==
    /\ setup = Idle /\ v >= installed[m]
    /\ {k \in VarKeys : config.section[m].value[k] # "none"} \subseteq vars
    /\ setup' = [module |-> m, release |-> v]
    /\ answers' = [core |-> [k \in CoreKeys |-> IF CoreKnown THEN "none" ELSE "answer"],
                   var |-> [k \in VarKeys |-> IF k \in vars THEN "answer" ELSE "none"]]
    /\ mergeAt' = "start" /\ helpAt' = "start" /\ cleanAt' = "start"
    /\ UNCHANGED <<history, config, userConfig, help, plans, installer>>

-----------------------------------------------------------------------------
(* merge-config.py. *)

Mod == setup.module

\* load_legacy_values, as keys: those of core/, then those only <module>/ has.
LegacyCore ==
    legacy["core"].core \cup (IF legacy[Mod].file THEN legacy[Mod].core ELSE {})

\* apply_legacy_defaults: explicit answers win.
WithLegacy ==
    [core |-> [k \in CoreKeys |-> IF answers.core[k] # "none" THEN answers.core[k]
                                  ELSE IF k \in LegacyCore THEN "legacy" ELSE "none"],
     var |-> [k \in VarKeys |-> IF answers.var[k] # "none" THEN answers.var[k]
                                ELSE IF k \in legacy[Mod].var THEN "legacy"
                                ELSE "none"]]

Over(new, old) == [k \in DOMAIN old |-> IF new[k] # "none" THEN new[k] ELSE old[k]]
Without(keys, old) == [k \in DOMAIN old |-> IF k \in keys THEN "none" ELSE old[k]]

\* Faulty variant of RootKept: the user's keys are stripped before the old section
\* is moved to the root.
RootKeptStripFirst == Over(config.core, Without(CoreUserKeys, config.root))

\* merge_config: the section core: of an older format moves to the root, and the
\* user's own keys are stripped ...
RootKept == Without(CoreUserKeys, Over(config.core, config.root))

\* ... the shared core answers are written over it, and the section of the module
\* is built anew.
MergedConfig(ans) ==
    [root |-> Over(Without(CoreUserKeys, ans.core), RootKept),
     core |-> [k \in CoreKeys |-> "none"],
     section |-> [config.section EXCEPT ![Mod] =
                    [release |-> setup.release, value |-> ans.var]]]

\* The inputs are read, the answers completed, and config.yaml is opened ...
MergeOpens ==
    /\ mergeAt = "start" /\ mergeAt' = "writing"
    /\ answers' = WithLegacy
    /\ newConfig' = MergedConfig(WithLegacy)
    /\ config' = EmptyConfig
    /\ UNCHANGED <<history, userConfig, help, newHelp, installer, setup, helpAt,
                   cleanAt, newUser>>

\* ... and written.
MergeWrites ==
    /\ mergeAt = "writing" /\ mergeAt' = "user"
    /\ config' = newConfig /\ newConfig' = EmptyConfig /\ merged' = TRUE
    /\ UNCHANGED <<found, userConfig, help, newHelp, installer, setup, helpAt, cleanAt,
                   answers, newUser, installed, torn, crashes>>

\* extract_user_settings; config.user.yaml is flat: modules whose variables have the
\* same name share the entry.
UserSettings ==
    [core |-> [k \in CoreUserKeys |-> answers.core[k]],
     var |-> [k \in UserVars |-> answers.var[k]]]
NewUserConfig ==
    [core |-> Over(UserSettings.core, userConfig.core),
     var |-> Over(UserSettings.var, userConfig.var)]

\* config.user.yaml is read and opened, if there are settings for it ...
UserOpens ==
    /\ mergeAt = "user"
    /\ IF \/ \E k \in CoreUserKeys : answers.core[k] # "none"
          \/ \E k \in UserVars : answers.var[k] # "none"
       THEN /\ mergeAt' = "writingUser"
            /\ newUser' = NewUserConfig /\ userConfig' = EmptyUserConfig
       ELSE mergeAt' = "unlink" /\ UNCHANGED <<newUser, userConfig>>
    /\ UNCHANGED <<history, config, help, newHelp, installer, setup, helpAt, cleanAt,
                   answers, newConfig>>

\* ... and written.
UserWrites ==
    /\ mergeAt = "writingUser" /\ mergeAt' = "unlink"
    /\ userConfig' = newUser /\ newUser' = EmptyUserConfig
    /\ UNCHANGED <<history, config, help, newHelp, installer, setup, helpAt, cleanAt,
                   answers, newConfig>>

\* Faulty variant of UnlinkAt: the legacy files go before the user's file is written.
UnlinkEarlyAt == mergeAt \in {"user", "unlink"}

UnlinkAt == mergeAt = "unlink"

\* cleanup_legacy_configs: <module>/config.yaml ...
MergeUnlinks ==
    /\ UnlinkAt /\ mergeAt' = "unlinkCore"
    /\ legacy' = [legacy EXCEPT ![Mod] = NoLegacy]
    /\ UNCHANGED <<history, config, userConfig, help, plans, legacyHelp, legacySkills,
                   setup, helpAt, cleanAt, answers>>

\* ... then core/config.yaml.
MergeUnlinksCore ==
    /\ mergeAt = "unlinkCore" /\ mergeAt' = "done"
    /\ legacy' = [legacy EXCEPT !["core"] = NoLegacy]
    /\ UNCHANGED <<history, config, userConfig, help, plans, legacyHelp, legacySkills,
                   setup, helpAt, cleanAt, answers>>

-----------------------------------------------------------------------------
(* merge-help-csv.py. *)

\* Faulty variant of Filtered: the old rows of the module stay.
Unfiltered == help

\* filter_rows: all rows of the module are removed before its own are appended.
Filtered == {r \in help : r[1] # Mod}

\* The target is read and opened ...
HelpOpens ==
    /\ helpAt = "start" /\ helpAt' = "writing"
    /\ newHelp' = Filtered \cup {<<Mod, setup.release>>}
    /\ help' = {}
    /\ UNCHANGED <<history, config, userConfig, installer, setup, mergeAt, cleanAt,
                   answers, newConfig, newUser>>

\* ... written ...
HelpWrites ==
    /\ helpAt = "writing" /\ helpAt' = "unlink"
    /\ help' = newHelp /\ newHelp' = {}
    /\ UNCHANGED <<history, config, userConfig, installer, setup, mergeAt, cleanAt,
                   answers, newConfig, newUser>>

\* ... and the rows of the old installer deleted.
HelpUnlinks ==
    /\ helpAt = "unlink" /\ helpAt' = "done"
    /\ legacyHelp' = legacyHelp \ {Mod, "core"}
    /\ UNCHANGED <<history, config, userConfig, help, plans, legacy, legacySkills,
                   setup, mergeAt, cleanAt, answers>>

-----------------------------------------------------------------------------
(* cleanup-legacy.py, once both scripts have succeeded. *)

\* Faulty variant of Checked: only the directories of --also-remove are searched.
CheckedAlso == {"core", "_config"}

\* verify_skills_installed: the directories whose skills must be installed.
Checked == {Mod, "core", "_config"}

\* The setup is over.
Ends ==
    /\ setup' = Idle /\ mergeAt' = "idle" /\ helpAt' = "idle" /\ cleanAt' = "idle"
    /\ answers' = NoAnswers
    /\ installed' = [installed EXCEPT ![Mod] = setup.release]

\* Nothing is removed when one skill is missing under .claude/skills.
CleanVerifies ==
    /\ cleanAt = "start" /\ mergeAt = "done" /\ helpAt = "done"
    /\ IF \A d \in Checked : legacySkills[d] \subseteq found.skills
       THEN cleanAt' = "module" /\ UNCHANGED <<setup, mergeAt, helpAt, answers,
                                               installed>>
       ELSE Ends
    /\ UNCHANGED <<found, config, userConfig, help, plans, installer, merged, torn,
                   crashes>>

\* cleanup_directories: one rmtree after the other; the last one ends the setup.
CleanRemoves ==
    /\ cleanAt \in {"module", "core", "_config"}
    /\ LET d == IF cleanAt = "module" THEN Mod ELSE cleanAt IN
       /\ legacy' = [legacy EXCEPT ![d] = NoLegacy]
       /\ legacyHelp' = legacyHelp \ {d}
       /\ legacySkills' = [legacySkills EXCEPT ![d] = {}]
    /\ CASE cleanAt = "module" ->
              cleanAt' = "core" /\ UNCHANGED <<setup, mergeAt, helpAt, answers,
                                               installed>>
         [] cleanAt = "core" ->
              cleanAt' = "_config" /\ UNCHANGED <<setup, mergeAt, helpAt, answers,
                                                  installed>>
         [] cleanAt = "_config" -> Ends
    /\ UNCHANGED <<found, config, userConfig, help, plans, merged, torn, crashes>>

\* The setup dies, or the agent gives up on a script that failed: what was open is
\* left empty.
SetupDies ==
    /\ setup # Idle /\ crashes < MaxCrashes
    /\ crashes' = crashes + 1
    /\ installed' = [installed EXCEPT ![Mod] = 0]
    /\ torn' = torn \cup (IF mergeAt = "writing" THEN {"config"} ELSE {})
                    \cup (IF helpAt = "writing" THEN {"help"} ELSE {})
    /\ setup' = Idle /\ mergeAt' = "idle" /\ helpAt' = "idle" /\ cleanAt' = "idle"
    /\ answers' = NoAnswers /\ newConfig' = EmptyConfig /\ newUser' = EmptyUserConfig
    /\ newHelp' = {}
    /\ UNCHANGED <<found, config, userConfig, help, installer, merged>>

-----------------------------------------------------------------------------
SetupNext ==
    \/ \E r \in Releases, vars \in SUBSET VarKeys : BeginSetup(r[1], r[2], vars)
    \/ MergeOpens \/ MergeWrites \/ UserOpens \/ UserWrites
    \/ MergeUnlinks \/ MergeUnlinksCore
    \/ HelpOpens \/ HelpWrites \/ HelpUnlinks
    \/ CleanVerifies \/ CleanRemoves \/ SetupDies

SetupSpec == SetupInit /\ [][SetupNext]_setupVars

-----------------------------------------------------------------------------
(* Properties. *)

\* No zombies and no losses: while another module is set up, fails or dies, a module
\* whose setup finished has the section and the help rows of the release installed
\* last and no others, unless a dying script left the file truncated.
EntriesAreCurrent ==
    \A m \in Modules \ {Mod} : installed[m] # 0 =>
        /\ "config" \notin torn /\ mergeAt # "writing" =>
              config.section[m].release = installed[m]
        /\ "help" \notin torn /\ helpAt # "writing" =>
              {r \in help : r[1] = m} = {<<m, installed[m]>>}

\* The two files; while one is open, what is about to be written to it.
Shared == IF mergeAt = "writing" THEN newConfig ELSE config
Private == IF mergeAt = "writingUser" THEN newUser ELSE userConfig

\* Where a value of the old installer may be: in its legacy file, or where the new
\* format has it.
CoreKept(d, k) ==
    \/ k \in legacy[d].core
    \/ k \in CoreUserKeys /\ Private.core[k] # "none"
    \/ k \notin CoreUserKeys /\ Shared.root[k] # "none"
VarKept(d, k) == k \in legacy[d].var \/ Shared.section[d].value[k] # "none"

\* The setup dies between the open of a file and the write.
TearsConfig == mergeAt = "writing" /\ setup' = Idle
TearsUserConfig == mergeAt = "writingUser" /\ setup' = Idle

\* No step of a setup loses a value of the current schema that the old installer
\* knew: its file is unlinked only when the value is on disk in the new ones, and
\* later setups carry it over. One step is excepted: a death between the open of
\* config.yaml or config.user.yaml and the write loses what that file held and no
\* legacy file holds any more. This is what the code does; a setup that dies there
\* before anything was unlinked still loses nothing.
LegacyConsolidated ==
    [][\A d \in Modules \cup {"core"} :
          /\ \A k \in found.legacy[d].core : CoreKept(d, k) =>
                \/ CoreKept(d, k)'
                \/ IF k \in CoreUserKeys THEN TearsUserConfig ELSE TearsConfig
          /\ d \in Modules => \A k \in found.legacy[d].var : VarKept(d, k) =>
                VarKept(d, k)' \/ TearsConfig
      ]_setupVars

\* user_name and communication_language are never in config.yaml again once a setup
\* has written it, whatever the format and the file it found them in.
UserKeysPrivate ==
    merged => \A k \in CoreUserKeys : config.root[k] = "none" /\ config.core[k] = "none"

\* No skill is lost with the directories of the old installer: it is still there, or
\* it is installed.
SkillsSurvive ==
    \A d \in LegacyDirs :
        found.legacySkills[d] \subseteq legacySkills[d] \cup found.skills

=============================================================================
