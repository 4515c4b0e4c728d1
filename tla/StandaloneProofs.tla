--------------------------- MODULE StandaloneProofs ---------------------------
(***************************************************************************)
(* What MCStandalone runs is each program itself: a behaviour of the       *)
(* composition is a behaviour of every component, so that the theorems     *)
(* about the components hold of it.                                        *)
(***************************************************************************)
EXTENDS MCStandalone, EvalRunProofs, ModuleSetupProofs, AgentBirthProofs,
        RowVerificationProofs

allVars == <<program, runners, scripts, engine>>

\* Of the composition's initial states, each program's part is one of its own.
LEMMA EachStarts ==
    MCInit => /\ EvalInit /\ TriggerInit /\ PtyInit
              /\ SetupInit /\ ScaffoldInit /\ CustomizationInit
              /\ TemplateInit /\ BirthInit /\ PrepassInit
              /\ RowsInit /\ VbaInit
<1> SUFFICES ASSUME NEW p \in Programs, OnlyStarts(p)
             PROVE  /\ EvalInit /\ TriggerInit /\ PtyInit
                    /\ SetupInit /\ ScaffoldInit /\ CustomizationInit
                    /\ TemplateInit /\ BirthInit /\ PrepassInit
                    /\ RowsInit /\ VbaInit
  BY DEF MCInit
<1>1. EvalInit /\ SetupInit /\ CustomizationInit
  BY DEF OnlyStarts, EvalRests, SetupRests, CustomizationRests
<1>2. TemplateInit /\ BirthInit /\ RowsInit
  BY DEF OnlyStarts, TemplateRests, BirthRests, RowsRest
<1>3. TriggerInit /\ PtyInit /\ ScaffoldInit /\ PrepassInit /\ VbaInit
  BY DEF OnlyStarts
<1> QED BY <1>1, <1>2, <1>3

\* Of each of its steps, each program's part is a step of its own or none.
LEMMA EachSteps ==
    [MCNext]_allVars =>
        /\ [EvalNext]_evalVars /\ [TriggerNext]_triggerVars /\ [PtyNext]_ptyVars
        /\ [SetupNext]_setupVars /\ [ScaffoldNext]_scaffoldVars
        /\ [CustomizationNext]_customizationVars
        /\ [TemplateNext]_templateVars /\ [BirthNext]_birthVars /\ [PrepassNext]_prepassVars
        /\ [RowsNext]_rowVars /\ [VbaNext]_vbaVars
<1> SUFFICES ASSUME [MCNext]_allVars
             PROVE  /\ [EvalNext]_evalVars /\ [TriggerNext]_triggerVars /\ [PtyNext]_ptyVars
                    /\ [SetupNext]_setupVars /\ [ScaffoldNext]_scaffoldVars
                    /\ [CustomizationNext]_customizationVars
                    /\ [TemplateNext]_templateVars /\ [BirthNext]_birthVars
                    /\ [PrepassNext]_prepassVars
                    /\ [RowsNext]_rowVars /\ [VbaNext]_vbaVars
  OBVIOUS
<1>1. /\ EvalNext \/ UNCHANGED evalVars
      /\ TriggerNext \/ UNCHANGED triggerVars
      /\ PtyNext \/ UNCHANGED ptyVars
  BY DEF MCNext, allVars, runners
<1>2. /\ SetupNext \/ UNCHANGED setupVars
      /\ ScaffoldNext \/ UNCHANGED scaffoldVars
      /\ CustomizationNext \/ UNCHANGED customizationVars
  BY DEF MCNext, allVars, scripts
<1>3. /\ TemplateNext \/ UNCHANGED templateVars
      /\ BirthNext \/ UNCHANGED birthVars
      /\ PrepassNext \/ UNCHANGED prepassVars
  BY DEF MCNext, allVars, scripts
<1>4. /\ RowsNext \/ UNCHANGED rowVars
      /\ VbaNext \/ UNCHANGED vbaVars
  BY DEF MCNext, allVars, engine
<1> QED BY <1>1, <1>2, <1>3, <1>4

\* A behaviour of the composition is one of every component, whichever program runs
\* while the others rest.
THEOREM EachRunsItself ==
    MCSpec => /\ EvalSpec /\ TriggerSpec /\ PtySpec
              /\ SetupSpec /\ ScaffoldSpec /\ CustomizationSpec
              /\ TemplateSpec /\ BirthSpec /\ PrepassSpec
              /\ RowsSpec /\ VbaSpec
<1>1. MCSpec => MCInit /\ [][MCNext]_allVars
  BY PTL DEF MCSpec, allVars
<1> QED BY <1>1, EachStarts, EachSteps, PTL
        DEF EvalSpec, TriggerSpec, PtySpec, SetupSpec, ScaffoldSpec, CustomizationSpec,
            TemplateSpec, BirthSpec, PrepassSpec, RowsSpec, VbaSpec

\* The state of every program keeps its type, whichever of them runs.
THEOREM ToolsTypeCorrect == MCSpec => []ToolsTypeOK
<1>1. MCSpec => /\ []EvalTypeOK /\ []TriggerTypeOK
                /\ []SetupTypeOK /\ []ScaffoldTypeOK /\ []CustomizationTypeOK
                /\ []BirthTypeOK /\ []VbaTypeOK
  BY EachRunsItself, EvalTypeCorrect, TriggerTypeCorrect, SetupTypeCorrect,
     ScaffoldTypeCorrect, CustomizationTypeCorrect, BirthTypeCorrect, VbaTypeCorrect
<1>2. /\ EvalTypeOK /\ TriggerTypeOK /\ SetupTypeOK /\ ScaffoldTypeOK
      /\ CustomizationTypeOK /\ BirthTypeOK /\ VbaTypeOK
      => ToolsTypeOK
  BY DEF ToolsTypeOK
<1> QED BY <1>1, <1>2, PTL

=============================================================================
