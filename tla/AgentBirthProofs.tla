--------------------------- MODULE AgentBirthProofs ---------------------------
(***************************************************************************)
(* Theorems about AgentBirth, for any files, any skills a builder may make *)
(* and any number of init scripts that die; and about WorkflowPrepass, for *)
(* any stage files, however they are numbered, and any texts; and about    *)
(* TemplateProcessing, for any well-nested templates and any values.       *)
(***************************************************************************)
EXTENDS AgentBirth, WorkflowPrepass, TemplateProcessing, FiniteSetTheorems,
        SequenceTheorems, TLAPS

\* An init script that runs belongs to a skill that has one.
ScriptInv == init.at # "idle" => skill.script # NoScript

LEMMA ScriptFields ==
    ASSUME skill \in Builds, skill.script # NoScript
    PROVE  /\ skill.script \in Scripts
           /\ skill.script.templates \subseteq TemplateFiles
           /\ skill.assets \subseteq TemplateFiles
           /\ Folder \in {"own", "stray"}
BY BirthAssumption DEF SkillTypes, Scripts, Folder

BirthInv == BirthTypeOK /\ ScriptInv

LEMMA BirthTypeInit == BirthInit => BirthInv
BY BirthAssumption DEF BirthInit, BirthInv, BirthTypeOK, ScriptInv, Unborn, Sanctum, Steps

\* The folder of the skill keeps its type when fields of it change.
LEMMA FolderTyped ==
    ASSUME BirthTypeOK, NEW d \in {"own", "stray"}, NEW s \in Sanctum,
           sanctum' = [sanctum EXCEPT ![d] = s]
    PROVE  sanctum' \in [{"own", "stray"} -> Sanctum]
BY DEF BirthTypeOK

\* The last step of the script writes CAPABILITIES.md, and nothing else.
LEMMA Registers ==
    ASSUME BirthTypeOK, InitWritesCapabilities, Folder \in {"own", "stray"}
    PROVE  \E new \in Sanctum :
               /\ sanctum' = [sanctum EXCEPT ![Folder] = new]
               /\ new.exists = sanctum[Folder].exists
               /\ new.refs = sanctum[Folder].refs
               /\ new.files = sanctum[Folder].files \cup {"CAPABILITIES"}
               /\ new.learned = sanctum[Folder].learned \ {"CAPABILITIES"}
               /\ new.registered = Capabilities
<1> DEFINE new == [sanctum[Folder] EXCEPT !.files = @ \cup {"CAPABILITIES"},
                                          !.learned = @ \ {"CAPABILITIES"},
                                          !.registered = Capabilities]
<1>1. Capabilities \subseteq RefFiles /\ "CAPABILITIES" \in TemplateFiles
  BY BirthAssumption DEF Capabilities, TemplateFiles
<1>2. sanctum[Folder] \in Sanctum
  BY DEF BirthTypeOK
<1>3. /\ new \in Sanctum
      /\ new.exists = sanctum[Folder].exists
      /\ new.refs = sanctum[Folder].refs
      /\ new.files = sanctum[Folder].files \cup {"CAPABILITIES"}
      /\ new.learned = sanctum[Folder].learned \ {"CAPABILITIES"}
      /\ new.registered = Capabilities
  BY <1>1, <1>2 DEF Sanctum
<1>4. sanctum' = [sanctum EXCEPT ![Folder] = new]
  BY DEF InitWritesCapabilities, BirthTypeOK, Sanctum
<1> QED BY <1>3, <1>4

\* A template that is filled in is a file of the folder.
LEMMA Fills ==
    ASSUME BirthTypeOK, NEW f \in TemplateFiles, Writes(f), Folder \in {"own", "stray"}
    PROVE  \E new \in Sanctum :
               /\ sanctum' = [sanctum EXCEPT ![Folder] = new]
               /\ new.exists = sanctum[Folder].exists
               /\ new.refs = sanctum[Folder].refs
               /\ new.files = sanctum[Folder].files \cup {f}
               /\ new.learned = sanctum[Folder].learned \ {f}
               /\ new.registered = sanctum[Folder].registered
<1> DEFINE new == [sanctum[Folder] EXCEPT !.files = @ \cup {f}, !.learned = @ \ {f}]
<1>1. sanctum[Folder] \in Sanctum
  BY DEF BirthTypeOK
<1>2. /\ new \in Sanctum
      /\ new.exists = sanctum[Folder].exists
      /\ new.refs = sanctum[Folder].refs
      /\ new.files = sanctum[Folder].files \cup {f}
      /\ new.learned = sanctum[Folder].learned \ {f}
      /\ new.registered = sanctum[Folder].registered
  BY <1>1 DEF Sanctum
<1>3. sanctum' = [sanctum EXCEPT ![Folder] = new]
  BY DEF Writes, BirthTypeOK, Sanctum
<1> QED BY <1>2, <1>3

LEMMA OneMoreInitDies ==
    ASSUME NEW n \in Nat, NEW d \in 0..n, d < n
    PROVE  d + 1 \in 0..n
OBVIOUS

LEMMA BirthTypeStep == BirthInv /\ [BirthNext]_birthVars => BirthInv'
<1> SUFFICES ASSUME BirthInv, [BirthNext]_birthVars PROVE BirthInv'
  OBVIOUS
<1> USE BirthAssumption DEF BirthInv, BirthTypeOK, ScriptInv, Steps
<1>1. ASSUME NEW b \in Builds, Build(b) PROVE BirthInv'
  BY <1>1 DEF Build
<1>2. CASE Prepass
  BY <1>2 DEF Prepass
<1>3. CASE InitStarts
  BY <1>3, ScriptFields DEF InitStarts
<1>4. CASE InitMakesFolder
  <2>1. Folder \in {"own", "stray"}
    BY <1>4, ScriptFields DEF InitMakesFolder
  <2>2. sanctum' \in [{"own", "stray"} -> Sanctum]
    BY <1>4, <2>1 DEF InitMakesFolder, Sanctum
  <2> QED BY <1>4, <2>2 DEF InitMakesFolder
<1>5. CASE InitCopiesReference
  <2>1. Folder \in {"own", "stray"}
    BY <1>5, ScriptFields DEF InitCopiesReference
  <2>2. ASSUME NEW r \in ToCopy, sanctum' = [sanctum EXCEPT ![Folder].refs = @ \cup {r}]
        PROVE  sanctum' \in [{"own", "stray"} -> Sanctum]
    BY <2>1, <2>2 DEF Sanctum, ToCopy
  <2>3. sanctum' \in [{"own", "stray"} -> Sanctum]
    BY <1>5, <2>2 DEF InitCopiesReference
  <2> QED BY <1>5, <2>3 DEF InitCopiesReference
<1>6. CASE InitFindsNoReferences
  BY <1>6 DEF InitFindsNoReferences
<1>7. CASE InitFillsTemplate
  <2>1. Folder \in {"own", "stray"}
    BY <1>7, ScriptFields DEF InitFillsTemplate
  <2>2. ASSUME NEW f \in init.left, Writes(f)
        PROVE  sanctum' \in [{"own", "stray"} -> Sanctum]
    BY <2>1, <2>2, Fills, FolderTyped
  <2>3. sanctum' \in [{"own", "stray"} -> Sanctum]
    BY <1>7, <2>2 DEF InitFillsTemplate
  <2>4. init' \in [at : Steps, left : SUBSET TemplateFiles]
    BY <1>7 DEF InitFillsTemplate
  <2> QED BY <1>7, <2>3, <2>4 DEF InitFillsTemplate
<1>8. CASE InitWritesCapabilities
  <2>1. Folder \in {"own", "stray"}
    BY <1>8, ScriptFields DEF InitWritesCapabilities
  <2>2. sanctum' \in [{"own", "stray"} -> Sanctum]
    BY <1>8, <2>1, FolderTyped, Registers
  <2> QED BY <1>8, <2>2 DEF InitWritesCapabilities
<1>9. CASE InitDies
  <2>1. initDeaths' \in 0..MaxInitDeaths
    BY <1>9, OneMoreInitDies DEF InitDies
  <2>2. init' = [init EXCEPT !.at = "idle"] /\ UNCHANGED <<skill, review, sanctum>>
    BY <1>9 DEF InitDies
  <2> QED BY <2>1, <2>2
<1>10. ASSUME NEW f \in {"MEMORY", "CAPABILITIES"} \cap Standard, AgentLearns(f)
       PROVE  BirthInv'
  <2>1. f \in TemplateFiles
    BY DEF TemplateFiles
  <2>2. sanctum' \in [{"own", "stray"} -> Sanctum]
    BY <1>10, <2>1 DEF AgentLearns, Sanctum
  <2> QED BY <1>10, <2>2 DEF AgentLearns
<1>11. CASE UNCHANGED birthVars
  BY <1>11 DEF birthVars
<1> QED
  BY <1>1, <1>2, <1>3, <1>4, <1>5, <1>6, <1>7, <1>8, <1>9, <1>10, <1>11 DEF BirthNext

\* The skill, what the prepass found, the sanctum and the init script keep their
\* types, for any number of folders' files and of processes that die.
THEOREM BirthTypeCorrect == BirthSpec => []BirthTypeOK
<1>1. BirthSpec => []BirthInv
  BY BirthTypeInit, BirthTypeStep, PTL DEF BirthSpec
<1>2. BirthInv => BirthTypeOK
  BY DEF BirthInv
<1> QED BY <1>1, <1>2, PTL

-----------------------------------------------------------------------------
(* Nothing is unlearned. *)

\* Nothing is learned before the folder exists, and a script that fills the agent's
\* own folder began without one: it ends, or dies, before the agent wakes.
LearnedInv ==
    /\ ~sanctum["own"].exists => sanctum["own"].learned = {}
    /\ Running /\ Folder = "own" => sanctum["own"].learned = {}

LEMMA LearnedInit == BirthInit => LearnedInv
BY DEF BirthInit, LearnedInv, Unborn, Running

LEMMA LearnedStep ==
    ASSUME BirthInv, LearnedInv, [BirthNext]_birthVars
    PROVE  LearnedInv' /\ sanctum["own"].learned \subseteq sanctum'["own"].learned
<1> USE DEF BirthInv, BirthTypeOK, ScriptInv, LearnedInv, Running, Folder
<1> DEFINE Goal == LearnedInv' /\ sanctum["own"].learned \subseteq sanctum'["own"].learned
<1>1. ASSUME NEW b \in Builds, Build(b) PROVE Goal
  BY <1>1 DEF Build
<1>2. CASE Prepass
  BY <1>2 DEF Prepass
<1>3. CASE InitStarts
  BY <1>3 DEF InitStarts, AlreadyBorn
<1>4. CASE InitMakesFolder
  BY <1>4 DEF InitMakesFolder, Sanctum
<1>5. CASE InitCopiesReference
  <2>1. ASSUME NEW r \in ToCopy, sanctum' = [sanctum EXCEPT ![Folder].refs = @ \cup {r}]
        PROVE  /\ sanctum'["own"].learned = sanctum["own"].learned
               /\ sanctum'["own"].exists = sanctum["own"].exists
    BY <2>1 DEF Sanctum
  <2> QED BY <1>5, <2>1 DEF InitCopiesReference
<1>6. CASE InitFindsNoReferences
  BY <1>6 DEF InitFindsNoReferences
<1>7. CASE InitFillsTemplate
  <2>1. ASSUME NEW f \in init.left, Writes(f)
        PROVE  /\ sanctum'["own"].exists = sanctum["own"].exists
               /\ Folder = "own" => sanctum'["own"].learned = sanctum["own"].learned \ {f}
               /\ Folder # "own" => sanctum'["own"].learned = sanctum["own"].learned
    BY <2>1, Fills
  <2> QED BY <1>7, <2>1 DEF InitFillsTemplate
<1>8. CASE InitWritesCapabilities
  <2>1. /\ sanctum'["own"].exists = sanctum["own"].exists
        /\ Folder = "own" =>
             sanctum'["own"].learned = sanctum["own"].learned \ {"CAPABILITIES"}
        /\ Folder # "own" => sanctum'["own"].learned = sanctum["own"].learned
    BY <1>8, Registers
  <2> QED BY <1>8, <2>1 DEF InitWritesCapabilities
<1>9. CASE InitDies
  BY <1>9 DEF InitDies
<1>10. ASSUME NEW f \in {"MEMORY", "CAPABILITIES"} \cap Standard, AgentLearns(f)
       PROVE  Goal
  BY <1>10 DEF AgentLearns, Sanctum
<1>11. CASE UNCHANGED birthVars
  BY <1>11 DEF birthVars
<1> QED
  BY <1>1, <1>2, <1>3, <1>4, <1>5, <1>6, <1>7, <1>8, <1>9, <1>10, <1>11 DEF BirthNext

\* No init script writes over what the agent learned, whatever skills are built and
\* under whatever name, however often a script is run and wherever one died.
THEOREM NothingIsUnlearned == BirthSpec => NothingUnlearned
<1>1. BirthInit => BirthInv /\ LearnedInv
  BY BirthTypeInit, LearnedInit
<1>2. BirthInv /\ LearnedInv /\ [BirthNext]_birthVars => (BirthInv /\ LearnedInv)'
  BY BirthTypeStep, LearnedStep
<1>3. BirthInv /\ LearnedInv /\ [BirthNext]_birthVars =>
          [sanctum["own"].learned \subseteq sanctum'["own"].learned]_birthVars
  BY LearnedStep
<1> QED BY <1>1, <1>2, <1>3, PTL DEF BirthSpec, NothingUnlearned

-----------------------------------------------------------------------------
(* A skill without findings is born whole. *)

\* The prepass speaks of the skill as it is.
ReviewInv == review = "clean" => Clean(skill)

\* How far the script has come is in the folder: the references once it is at the
\* templates, the templates it no longer has to do, and in the end the register.
ProgressInv ==
    /\ init.at \in {"templates", "capabilities", "done"} =>
          /\ ToCopy \subseteq sanctum[Folder].refs
          /\ (skill.script.templates \cap skill.assets) \ init.left
                 \subseteq sanctum[Folder].files
    /\ init.at \in {"capabilities", "done"} => init.left = {}
    /\ init.at = "done" => sanctum[Folder].registered = Capabilities
    /\ init.at \in {"mkdir", "references"} => init.left = skill.script.templates

BornInv == BirthInv /\ ReviewInv /\ ProgressInv

LEMMA BornInit == BirthInit => BornInv
BY BirthTypeInit DEF BirthInit, BornInv, ReviewInv, ProgressInv

LEMMA BornStep == BornInv /\ [BirthNext]_birthVars => BornInv'
<1> SUFFICES ASSUME BornInv, [BirthNext]_birthVars PROVE ReviewInv' /\ ProgressInv'
  BY BirthTypeStep DEF BornInv
<1> USE DEF BornInv, BirthInv, BirthTypeOK, ScriptInv, Running
<1>0. Folder \in {"own", "stray"}
  BY DEF Folder
<1> USE DEF ReviewInv, ProgressInv, Folder, ToCopy, Capabilities
<1>1. ASSUME NEW b \in Builds, Build(b) PROVE ReviewInv' /\ ProgressInv'
  BY <1>1 DEF Build
<1>2. CASE Prepass
  BY <1>2 DEF Prepass
<1>3. CASE InitStarts
  BY <1>3 DEF InitStarts
<1>4. CASE InitMakesFolder
  BY <1>4 DEF InitMakesFolder
<1>5. CASE InitCopiesReference
  BY <1>0, <1>5 DEF InitCopiesReference, Sanctum
<1>6. CASE InitFindsNoReferences
  BY <1>6 DEF InitFindsNoReferences
<1>7. CASE InitFillsTemplate
  <2>1. CASE init.left = {}
    BY <1>7, <2>1 DEF InitFillsTemplate
  <2>2. ASSUME NEW f \in init.left, init.left # {},
               init' = [init EXCEPT !.left = @ \ {f}],
               IF f \in skill.assets THEN Writes(f) ELSE UNCHANGED sanctum
        PROVE  ReviewInv' /\ ProgressInv'
    <3> DEFINE Grown == /\ sanctum'[Folder].refs = sanctum[Folder].refs
                        /\ sanctum[Folder].files \subseteq sanctum'[Folder].files
                        /\ f \in skill.assets => f \in sanctum'[Folder].files
    <3>0. f \in TemplateFiles
      BY <2>2
    <3>1. ASSUME f \in skill.assets PROVE Grown
      <4>1. Writes(f)
        BY <2>2, <3>1
      <4> HIDE DEF Folder
      <4> QED BY <1>0, <3>0, <4>1, Fills
    <3>3. ASSUME f \notin skill.assets PROVE Grown
      BY <2>2, <3>3
    <3>4. Grown
      BY <3>1, <3>3
    <3> HIDE DEF Grown
    <3>2. init.at = "templates" /\ UNCHANGED <<skill, review>>
      BY <1>7 DEF InitFillsTemplate
    <3> QED BY <2>2, <3>4, <3>2 DEF Grown
  <2> QED BY <1>7, <2>1, <2>2 DEF InitFillsTemplate
<1>8. CASE InitWritesCapabilities
  <2>1. /\ sanctum'[Folder].refs = sanctum[Folder].refs
        /\ sanctum[Folder].files \subseteq sanctum'[Folder].files
        /\ sanctum'[Folder].registered = Capabilities
    BY <1>0, <1>8, Registers
  <2>2. /\ init.at = "capabilities" /\ init' = [init EXCEPT !.at = "done"]
        /\ UNCHANGED <<skill, review>>
    BY <1>8 DEF InitWritesCapabilities
  <2> QED BY <2>1, <2>2
<1>9. CASE InitDies
  BY <1>9 DEF InitDies
<1>10. ASSUME NEW f \in {"MEMORY", "CAPABILITIES"} \cap Standard, AgentLearns(f)
       PROVE  ReviewInv' /\ ProgressInv'
  <2>1. UNCHANGED <<skill, review, init>>
    BY <1>10 DEF AgentLearns
  <2>2. /\ sanctum'[Folder].refs = sanctum[Folder].refs
        /\ sanctum[Folder].files \subseteq sanctum'[Folder].files
        /\ sanctum'[Folder].registered = sanctum[Folder].registered
    BY <1>0, <1>10 DEF AgentLearns, Sanctum
  <2> QED BY <1>0, <2>1, <2>2
<1>11. CASE UNCHANGED birthVars
  BY <1>11 DEF birthVars
<1> QED
  BY <1>1, <1>2, <1>3, <1>4, <1>5, <1>6, <1>7, <1>8, <1>9, <1>10, <1>11 DEF BirthNext

LEMMA BornWhole == BornInv => ReviewedIsBornWhole
<1> SUFFICES ASSUME BornInv, init.at = "done", review = "clean"
             PROVE  /\ Standard \subseteq sanctum["own"].files
                    /\ sanctum["own"].registered = Capabilities
                    /\ Capabilities \subseteq sanctum["own"].refs
                    /\ skill.assets \subseteq sanctum["own"].files
  BY DEF ReviewedIsBornWhole
<1>1. Clean(skill) /\ Folder = "own"
  BY DEF BornInv, ReviewInv, Clean, Folder
<1>2. Capabilities \subseteq ToCopy
  BY DEF Capabilities, ToCopy
<1> QED BY <1>1, <1>2 DEF BornInv, ProgressInv, Clean, TemplatesMatch

\* Whatever the builder makes and wherever scripts died before: when the init
\* script of a skill without findings ends, the agent's folder is whole.
THEOREM ReviewedBornWhole == BirthSpec => []ReviewedIsBornWhole
<1>1. BirthSpec => []BornInv
  BY BornInit, BornStep, PTL DEF BirthSpec
<1> QED BY <1>1, BornWhole, PTL

-----------------------------------------------------------------------------
(* WorkflowPrepass. *)

\* The stages are a finite directory, and a judgement is of the skill as it is.
JudgedInv ==
    /\ DOMAIN stages \subseteq Files /\ IsFiniteSet(DOMAIN stages)
    /\ judgement.status # "none" /\ head # NoHead => judgement.gaps = Gaps

LEMMA JudgedStart == PrepassInit => JudgedInv
BY FS_EmptySet DEF PrepassInit, JudgedInv, NoVerdict

LEMMA JudgedStep == JudgedInv /\ [PrepassNext]_prepassVars => JudgedInv'
<1> SUFFICES ASSUME JudgedInv, [PrepassNext]_prepassVars PROVE JudgedInv'
  OBVIOUS
<1> USE DEF JudgedInv, Edits, NoVerdict
<1>1. ASSUME NEW f \in Files, NEW faults \in StageTexts, AuthorWritesStage(f, faults)
      PROVE  JudgedInv'
  <2>1. DOMAIN stages' = DOMAIN stages \cup {f} /\ judgement' = NoVerdict
    BY <1>1 DEF AuthorWritesStage
  <2> QED BY <2>1, FS_AddElement
<1>2. ASSUME NEW f \in Files, AuthorDeletesStage(f)
      PROVE  JudgedInv'
  <2>1. DOMAIN stages' = DOMAIN stages \ {f} /\ judgement' = NoVerdict
    BY <1>2 DEF AuthorDeletesStage
  <2> QED BY <2>1, FS_RemoveElement
<1>3. ASSUME NEW faults, NEW refs, AuthorWritesHead(faults, refs)
      PROVE  JudgedInv'
  BY <1>3 DEF AuthorWritesHead
<1>4. CASE Integrity
  BY <1>4 DEF Integrity, Gaps, Expected, Numbers, Numbered
<1>5. CASE ExecutionDeps \/ UNCHANGED prepassVars
  BY <1>5 DEF ExecutionDeps, prepassVars, Gaps, Expected, Numbers, Numbered
<1> QED BY <1>1, <1>2, <1>3, <1>4, <1>5 DEF PrepassNext

\* A set of naturals has a least one.
LEMMA LeastNumber ==
    ASSUME NEW S \in SUBSET Nat, S # {}
    PROVE  Min(S) \in S /\ \A y \in S : Min(S) <= y
<1> DEFINE less == OpToRel(<, Nat)
<1>0. \A x, y \in Nat : <<y, x>> \in less <=> y < x
  BY DEF OpToRel
<1>1. PICK x \in S : \A y \in S : ~ (<<y, x>> \in less)
  BY NatLessThanWellFounded, WFMin
<1> HIDE DEF less
<1>2. ASSUME NEW y \in S PROVE x <= y
  <2>1. x \in Nat /\ y \in Nat
    OBVIOUS
  <2>2. ~ (y < x)
    BY <1>0, <1>1, <2>1, Zenon
  <2> QED BY <2>1, <2>2
<1> QED BY <1>2, Zenon DEF Min

\* When no two files share a number, there are as many numbers as files.
LEMMA DistinctNumbers ==
    ASSUME JudgedInv, \A f, g \in Numbered : StageNumber(f) = StageNumber(g) => f = g
    PROVE  /\ IsFiniteSet(Numbers) /\ Cardinality(Numbers) = Cardinality(Numbered)
           /\ Numbers \subseteq Nat
<1>1. IsFiniteSet(Numbered)
  BY FS_Subset DEF JudgedInv, Numbered
<1> DEFINE number == [f \in Numbered |-> StageNumber(f)]
<1>2. number \in Bijection(Numbered, Numbers)
  BY DEF Bijection, Injection, Surjection, IsInjective, Numbers
<1>3. Numbers \subseteq Nat
  BY PrepassAssumption DEF Numbers, Numbered, JudgedInv
<1> QED BY <1>1, <1>2, <1>3, FS_Bijection DEF ExistsBijection

\* How many numbers there are from one up to another.
LEMMA IntervalSize ==
    ASSUME NEW a \in Nat, NEW b \in Nat, a <= b
    PROVE  IsFiniteSet(a..(b - 1)) /\ Cardinality(a..(b - 1)) = b - a
<1> DEFINE z == b - 1
<1>1. z \in Int /\ a \in Int /\ z - a + 1 = b - a /\ (a > z => b - a = 0)
  OBVIOUS
<1> HIDE DEF z
<1>2. IsFiniteSet(a..z) /\ Cardinality(a..z) = IF a > z THEN 0 ELSE z - a + 1
  BY <1>1, FS_Interval
<1>3. IsFiniteSet(a..z) /\ Cardinality(a..z) = b - a
  BY <1>1, <1>2
<1> QED BY <1>3 DEF z

\* What is missing between two members of a set, and what is missing among the
\* first numbers, as many as it has members.
Between(S) == {n \in UNION {0..b : b \in S} : n \notin S /\ \E a \in S : a < n}
Among(S) == (Min(S)..(Min(S) + Cardinality(S) - 1)) \ S

\* The first number that is missing between two others lies among the first
\* numbers, as many as there are; and what is missing among those lies between
\* two others.
LEMMA GapsBetween ==
    ASSUME NEW S \in SUBSET Nat, IsFiniteSet(S), S # {}
    PROVE  /\ Among(S) \subseteq Between(S)
           /\ Between(S) # {} => \E n \in Among(S) : \A m \in Between(S) : n <= m
<1> DEFINE first == Min(S)
           count == Cardinality(S)
           missing == Between(S)
           gaps == Among(S)
<1>1. first \in S /\ first \in Nat /\ \A y \in S : first <= y
  BY LeastNumber
<1>2. count \in Nat
  BY FS_CardinalityType
<1>0. \A x : x \in missing <=> /\ x \in Nat /\ x \notin S
                               /\ \E a, b \in S : a < x /\ x <= b
  BY DEF Between
<1>5. gaps = (first..(first + count - 1)) \ S
  BY DEF Among
<1> HIDE DEF first, count, missing, gaps
<1>3. ASSUME NEW e \in gaps PROVE e \in missing
  <2>1. e \in Nat /\ first <= e /\ e <= first + count - 1 /\ e \notin S
    BY <1>1, <1>2, <1>3, <1>5
  <2>2. PICK b \in S : e < b
    <3> SUFFICES ASSUME \A b \in S : b <= e PROVE FALSE
      BY <2>1
    <3>1. S \subseteq first..(e - 1)
      BY <1>1, <2>1
    <3>2. IsFiniteSet(first..(e - 1)) /\ Cardinality(first..(e - 1)) = e - first
      BY <1>1, <2>1, IntervalSize
    <3>3. count <= e - first
      BY <3>1, <3>2, FS_Subset DEF count
    <3> QED BY <1>1, <1>2, <2>1, <3>3
  <2>3. first < e
    BY <1>1, <2>1
  <2> QED BY <1>0, <1>1, <2>1, <2>2, <2>3
<1>4. ASSUME missing # {} PROVE \E n \in gaps : \A m \in missing : n <= m
  <2>1. missing \subseteq Nat
    BY <1>0
  <2> DEFINE n == Min(missing)
  <2>2. n \in missing /\ n \in Nat /\ \A m \in missing : n <= m
    BY <1>4, <2>1, LeastNumber
  <2> HIDE DEF n
  <2>3. PICK b \in S : n < b /\ b \in Nat
    <3>1. PICK b \in S : n <= b
      BY <1>0, <2>2
    <3> QED BY <1>0, <2>2, <3>1
  <2>4. first < n
    <3>1. PICK a \in S : a < n
      BY <1>0, <2>2
    <3> QED BY <1>1, <2>2, <3>1
  <2>5. first..(n - 1) \subseteq S
    <3> SUFFICES ASSUME NEW x \in first..(n - 1), x \notin S PROVE FALSE
      OBVIOUS
    <3>1. x \in Nat /\ first < x /\ x < b
      BY <1>1, <2>2, <2>3
    <3>2. x \in missing
      BY <1>0, <1>1, <2>3, <3>1
    <3> QED BY <1>1, <2>2, <3>2
  <2>6. n - first + 1 <= count
    <3>1. IsFiniteSet(first..(n - 1)) /\ Cardinality(first..(n - 1)) = n - first
      BY <1>1, <2>2, <2>4, IntervalSize
    <3>2. b \notin first..(n - 1)
      BY <1>1, <2>2, <2>3
    <3>3. /\ IsFiniteSet((first..(n - 1)) \cup {b})
          /\ Cardinality((first..(n - 1)) \cup {b}) = n - first + 1
      BY <3>1, <3>2, FS_AddElement
    <3>4. (first..(n - 1)) \cup {b} \subseteq S
      BY <2>3, <2>5
    <3> QED BY <3>3, <3>4, FS_Subset DEF count
  <2>7. n \in gaps
    <3>1. n \notin S
      BY <1>0, <2>2
    <3> QED BY <1>1, <1>2, <1>5, <2>2, <2>4, <2>6, <3>1
  <2> QED BY <2>2, <2>7
<1> QED BY <1>3, <1>4 DEF missing, gaps

\* The numbering of the stages is judged right, for any number of files and any
\* numbers, as long as no two files have the same.
THEOREM NumberingIsJudged == PrepassSpec => []NumberingJudged
<1>1. JudgedInv => NumberingJudged
  <2> SUFFICES ASSUME JudgedInv, judgement.status # "none", head # NoHead,
                      \A f, g \in Numbered : StageNumber(f) = StageNumber(g) => f = g
               PROVE  /\ judgement.gaps \subseteq Missing
                      /\ Missing # {} =>
                            \E n \in judgement.gaps : \A m \in Missing : n <= m
    BY DEF NumberingJudged
  <2>1. judgement.gaps = Gaps
    BY DEF JudgedInv
  <2>2. CASE Numbered = {}
    BY <2>1, <2>2 DEF Gaps, Numbers, Missing
  <2>3. CASE Numbered # {}
    <3>1. Numbers # {} /\ Numbers \in SUBSET Nat /\ IsFiniteSet(Numbers)
          /\ Cardinality(Numbered) = Cardinality(Numbers)
      BY <2>3, DistinctNumbers DEF Numbers
    <3>2. Gaps = Among(Numbers) /\ Missing = Between(Numbers)
      BY <2>3, <3>1 DEF Gaps, Expected, Missing, Among, Between
    <3> QED BY <2>1, <3>1, <3>2, GapsBetween
  <2> QED BY <2>2, <2>3
<1> QED BY <1>1, JudgedStart, JudgedStep, PTL DEF PrepassSpec

-----------------------------------------------------------------------------
(* TemplateProcessing. *)

AnyToken == TokensOf({"open", "close", "var", "text", "value"})

\* A content is what stands in the template at some places, in their order.
Stands(s, src) ==
    /\ src \in [DOMAIN s -> DOMAIN template]
    /\ \A k, l \in DOMAIN s : k < l => src[k] < src[l]
    /\ \A k \in DOMAIN s : s[k] = template[src[k]]

\* A marker of a block, or something in a block that does not hold.
MayGo(i) ==
    \E b \in Blocks :
        \/ i = b[1] \/ i = b[2]
        \/ (b[1] < i /\ i < b[2] /\ template[b[1]].name \notin holds)

\* What is left of the template: blocks stay or lose both markers; what is gone are
\* markers and the contents of blocks that do not hold; and a block whose markers
\* are gone but not what it has within holds.
Rightly(K) ==
    /\ \A b \in Blocks : b[1] \in K <=> b[2] \in K
    /\ \A i \in DOMAIN template \ K : MayGo(i)
    /\ \A i \in K, b \in Blocks :
          b[1] < i /\ i < b[2] /\ b[1] \notin K => template[b[1]].name \in holds

\* What KeptIffAllHold asks of a content.
Keeps(s, from) ==
    /\ from \in Bijection(Kept(s), Wanted)
    /\ \A k \in Kept(s) : s[k] = template[from[k]]
    /\ \A k, l \in Kept(s) : k < l => from[k] < from[l]

\* Blocks of a well-nested template share no marker and do not cross.
LEMMA BlocksApart ==
    ASSUME template \in Seq(AnyToken), WellNested, NEW b \in Blocks, NEW d \in Blocks
    PROVE  /\ b[1] \in DOMAIN template /\ b[2] \in DOMAIN template
           /\ b[1] \in Int /\ b[2] \in Int /\ b[1] < b[2]
           /\ b[1] # d[2]
           /\ b[1] = d[1] <=> b = d
           /\ b[2] = d[2] <=> b = d
           /\ b[1] < d[1] => b[2] < d[1] \/ d[2] < b[2]
<1>1. /\ b[1] \in DOMAIN template /\ b[2] \in DOMAIN template
      /\ d[1] \in DOMAIN template /\ d[2] \in DOMAIN template
      /\ b = <<b[1], b[2]>> /\ d = <<d[1], d[2]>>
  BY DEF Blocks
<1>2. DOMAIN template \subseteq Int
  OBVIOUS
<1>3. b[1] < b[2] /\ template[b[1]].kind = "open" /\ template[d[2]].kind = "close"
  BY DEF Blocks, Opens, Closes
<1>4. ASSUME b[1] = d[1] PROVE b = d
  <2>1. b[2] = d[2]
    BY <1>1, <1>2, <1>4 DEF Blocks
  <2> QED BY <1>1, <1>4, <2>1
<1>5. b[2] = d[2] => b = d
  BY DEF WellNested
<1>6. b[1] < d[1] => b[2] < d[1] \/ d[2] < b[2]
  BY DEF WellNested
<1> QED BY <1>1, <1>2, <1>3, <1>4, <1>5, <1>6

\* A round that resolves a block as its condition says leaves the template rightly.
LEMMA RoundIsRight ==
    ASSUME template \in Seq(AnyToken), WellNested, NEW K \in SUBSET DOMAIN template,
           Rightly(K), NEW d \in Blocks, d[1] \in K, d[2] \in K
    PROVE  /\ template[d[1]].name \in holds => Rightly(K \ {d[1], d[2]})
           /\ template[d[1]].name \notin holds => Rightly(K \ (d[1]..d[2]))
<1>0. DOMAIN template \subseteq Int /\ d[1] \in Int /\ d[2] \in Int /\ d[1] < d[2]
  BY BlocksApart
<1>1. ASSUME template[d[1]].name \in holds PROVE Rightly(K \ {d[1], d[2]})
  <2> DEFINE L == K \ {d[1], d[2]}
  <2>1. ASSUME NEW b \in Blocks PROVE b[1] \in L <=> b[2] \in L
    <3>1. b[1] \in K <=> b[2] \in K
      BY DEF Rightly
    <3>2. b[1] # d[2] /\ b[2] # d[1] /\ (b[1] = d[1] <=> b[2] = d[2])
      BY BlocksApart
    <3> QED BY <3>1, <3>2
  <2>2. ASSUME NEW i \in DOMAIN template \ L
        PROVE  MayGo(i)
    BY DEF Rightly, MayGo
  <2>3. ASSUME NEW i \in L, NEW b \in Blocks, b[1] < i, i < b[2], b[1] \notin L
        PROVE  template[b[1]].name \in holds
    <3>1. CASE b[1] \in K
      <4>1. b[1] = d[1]
        BY <2>3, <3>1, BlocksApart
      <4> QED BY <1>1, <4>1
    <3>2. CASE b[1] \notin K
      BY <2>3, <3>2 DEF Rightly
    <3> QED BY <3>1, <3>2
  <2> QED BY <2>1, <2>2, <2>3 DEF Rightly
<1>2. ASSUME template[d[1]].name \notin holds PROVE Rightly(K \ (d[1]..d[2]))
  <2> DEFINE L == K \ (d[1]..d[2])
  <2>0. ASSUME NEW b \in Blocks, b # d
        PROVE  b[1] \in d[1]..d[2] <=> b[2] \in d[1]..d[2]
    <3>1. /\ b[1] \in Int /\ b[2] \in Int /\ b[1] < b[2] /\ b[1] # d[1]
          /\ b[1] # d[2] /\ b[2] # d[1] /\ b[2] # d[2]
          /\ b[1] < d[1] => b[2] < d[1] \/ d[2] < b[2]
      BY <2>0, BlocksApart
    <3>2. d[1] < b[1] => d[2] < b[1] \/ b[2] < d[2]
      BY BlocksApart
    <3> QED BY <1>0, <3>1, <3>2
  <2>1. ASSUME NEW b \in Blocks PROVE b[1] \in L <=> b[2] \in L
    <3>1. b[1] \in K <=> b[2] \in K
      BY DEF Rightly
    <3>2. CASE b = d
      BY <1>0, <3>2
    <3> QED BY <2>0, <3>1, <3>2
  <2>2. ASSUME NEW i \in DOMAIN template \ L
        PROVE  MayGo(i)
    <3>1. CASE i \notin K
      BY <3>1 DEF Rightly
    <3>2. CASE i \in K
      <4>1. i \in d[1]..d[2] /\ i \in Int
        BY <1>0, <3>2
      <4>2. i = d[1] \/ i = d[2] \/ (d[1] < i /\ i < d[2])
        BY <1>0, <4>1
      <4> QED BY <1>2, <4>2 DEF MayGo
    <3> QED BY <3>1, <3>2
  <2>3. ASSUME NEW i \in L, NEW b \in Blocks, b[1] < i, i < b[2], b[1] \notin L
        PROVE  template[b[1]].name \in holds
    <3>0. i \in Int /\ i \in K /\ i \notin d[1]..d[2] /\ b[1] \in Int /\ b[2] \in Int
      BY <1>0, BlocksApart
    <3>1. b[1] \notin d[1]..d[2]
      <4>1. CASE b = d
        BY <1>0, <2>3, <3>0, <4>1
      <4>2. CASE b # d
        <5>1. b[2] \in d[1]..d[2] => b[1] \in d[1]..d[2]
          BY <2>0, <4>2
        <5>2. b[1] \in d[1]..d[2] => b[2] \in d[1]..d[2]
          BY <2>0, <4>2
        <5> QED BY <1>0, <2>3, <3>0, <5>2
      <4> QED BY <4>1, <4>2
    <3>2. b[1] \notin K
      BY <2>3, <3>1
    <3> QED BY <2>3, <3>0, <3>2 DEF Rightly
  <2> QED BY <2>1, <2>2, <2>3 DEF Rightly
<1> QED BY <1>1, <1>2

\* What a round matches is a block of the template.
LEMMA MatchIsBlock ==
    ASSUME template \in Seq(AnyToken), WellNested, text \in Seq(AnyToken),
           NEW src, Stands(text, src), Rightly(Range(src)), NEW m \in Matches(text)
    PROVE  /\ <<src[m[1]], src[m[2]]>> \in Blocks
           /\ m[1] \in DOMAIN text /\ m[2] \in DOMAIN text /\ m[1] < m[2]
<1> DEFINE i == m[1]
           j == m[2]
           c == text[i].name
<1>1. /\ i \in DOMAIN text /\ j \in DOMAIN text /\ i < j /\ Opens(text[i])
      /\ Closes(text[j], c) /\ \A k \in (i + 1)..(j - 1) : ~Closes(text[k], c)
  BY DEF Matches
<1>2. DOMAIN text \subseteq Int /\ DOMAIN template \subseteq Int
  OBVIOUS
<1> HIDE DEF i, j
<1>3. /\ src[i] \in DOMAIN template /\ src[j] \in DOMAIN template
      /\ text[i] = template[src[i]] /\ text[j] = template[src[j]] /\ src[i] < src[j]
  BY <1>1 DEF Stands
<1>4. PICK b \in Blocks : src[i] \in {b[1], b[2]}
  BY <1>1, <1>3 DEF WellNested, Opens
<1>5. src[i] = b[1] /\ b = <<b[1], b[2]>>
  BY <1>1, <1>3, <1>4 DEF Opens, Closes, Blocks
<1>6. PICK k \in DOMAIN text : src[k] = b[2]
  <2>1. b[1] \in Range(src)
    BY <1>1, <1>5 DEF Range, Stands
  <2>2. b[2] \in Range(src)
    BY <2>1 DEF Rightly
  <2> QED BY <2>2 DEF Range, Stands
<1>7. b[1] \in Int /\ b[2] \in Int /\ b[1] < b[2]
  BY BlocksApart
<1>8. i < k
  <2>1. src[k] # src[i] /\ ~ (src[k] < src[i])
    BY <1>5, <1>6, <1>7
  <2>2. k # i /\ ~ (k < i)
    BY <1>1, <2>1 DEF Stands
  <2> QED BY <1>1, <1>2, <2>2
<1>9. Closes(text[k], c)
  BY <1>3, <1>5, <1>6 DEF Blocks, Closes, Stands
<1>10. ~ (k < j)
  BY <1>1, <1>2, <1>8, <1>9
<1>11. ~ (j < k)
  <2> SUFFICES ASSUME j < k PROVE FALSE
    OBVIOUS
  <2>1. src[j] < b[2] /\ b[1] < src[j]
    BY <1>1, <1>3, <1>5, <1>6 DEF Stands
  <2>2. Closes(template[src[j]], template[b[1]].name)
    BY <1>1, <1>3, <1>5
  <2> QED BY <1>2, <1>3, <1>7, <2>1, <2>2 DEF Blocks
<1>12. j = k
  BY <1>1, <1>2, <1>10, <1>11
<1> QED BY <1>1, <1>4, <1>5, <1>6, <1>12 DEF i, j

\* Parts of sequences and two in a row, element by element.
LEMMA PartOf ==
    ASSUME NEW T, NEW s \in Seq(T), NEW a \in Nat \ {0}, NEW b \in Nat, a <= b + 1,
           b <= Len(s)
    PROVE  /\ SubSeq(s, a, b) \in Seq(T) /\ Len(SubSeq(s, a, b)) = b - a + 1
           /\ \A k \in 1..(b - a + 1) : SubSeq(s, a, b)[k] = s[k + a - 1]
<1>1. \A k \in a..b : s[k] \in T
  BY ElementOfSeq
<1>2. Len(SubSeq(s, a, b)) = IF a <= b THEN b - a + 1 ELSE 0
  BY <1>1, SubSeqProperties
<1>3. Len(SubSeq(s, a, b)) = b - a + 1
  BY <1>2
<1>4. SubSeq(s, a, b) \in Seq(T)
  BY <1>1, SubSeqProperties
<1>5. \A k \in 1..(b - a + 1) : SubSeq(s, a, b)[k] = s[a + k - 1]
  BY <1>1, SubSeqProperties
<1>6. \A k \in 1..(b - a + 1) : a + k - 1 = k + a - 1
  OBVIOUS
<1> QED BY <1>3, <1>4, <1>5, <1>6

LEMMA InARow ==
    ASSUME NEW T, NEW a \in Seq(T), NEW b \in Seq(T)
    PROVE  /\ a \o b \in Seq(T) /\ Len(a \o b) = Len(a) + Len(b)
           /\ \A k \in 1..Len(a) : (a \o b)[k] = a[k]
           /\ \A k \in (Len(a) + 1)..(Len(a) + Len(b)) : (a \o b)[k] = b[k - Len(a)]
<1>1. Len(a) \in Nat /\ Len(b) \in Nat
  OBVIOUS
<1>2. \A k \in 1..(Len(a) + Len(b)) :
         (a \o b)[k] = IF k <= Len(a) THEN a[k] ELSE b[k - Len(a)]
  BY ConcatProperties
<1> QED BY <1>1, <1>2, ConcatProperties

\* What a round makes of a content whose block at i and j holds, token by token.
Unmarked(s, i, j) ==
    SubSeq(s, 1, i - 1) \o SubSeq(s, i + 1, j - 1) \o SubSeq(s, j + 1, Len(s))

LEMMA MarkersCut ==
    ASSUME NEW T, NEW s \in Seq(T), NEW i \in 1..Len(s), NEW j \in 1..Len(s), i < j
    PROVE  /\ Unmarked(s, i, j) \in Seq(T) /\ Len(Unmarked(s, i, j)) = Len(s) - 2
           /\ \A k \in 1..(Len(s) - 2) :
                 Unmarked(s, i, j)[k] =
                    s[IF k < i THEN k ELSE IF k < j - 1 THEN k + 1 ELSE k + 2]
<1> DEFINE cut == Unmarked(s, i, j)
           a == SubSeq(s, 1, i - 1)
           b == SubSeq(s, i + 1, j - 1)
           c == SubSeq(s, j + 1, Len(s))
           d == a \o b
<1>0. Len(s) \in Nat /\ i \in Nat /\ j \in Nat
  OBVIOUS
<1>1. a \in Seq(T) /\ Len(a) = i - 1 /\ \A k \in 1..(i - 1) : a[k] = s[k]
  OBVIOUS
<1>2. b \in Seq(T) /\ Len(b) = j - i - 1 /\ \A k \in 1..(j - i - 1) : b[k] = s[k + i]
  <2>1. /\ b \in Seq(T) /\ Len(b) = (j - 1) - (i + 1) + 1
        /\ \A k \in 1..((j - 1) - (i + 1) + 1) : b[k] = s[k + (i + 1) - 1]
    BY <1>0, PartOf
  <2> HIDE DEF b
  <2> QED BY <1>0, <2>1
<1>3. c \in Seq(T) /\ Len(c) = Len(s) - j /\ \A k \in 1..(Len(s) - j) : c[k] = s[k + j]
  <2>1. /\ c \in Seq(T) /\ Len(c) = Len(s) - (j + 1) + 1
        /\ \A k \in 1..(Len(s) - (j + 1) + 1) : c[k] = s[k + (j + 1) - 1]
    BY <1>0, PartOf
  <2> HIDE DEF c
  <2> QED BY <1>0, <2>1
<1>4. cut = d \o c
  BY DEF Unmarked
<1> HIDE DEF a, b, c, cut
<1>9. /\ d \in Seq(T) /\ Len(d) = Len(a) + Len(b)
      /\ \A k \in 1..Len(a) : d[k] = a[k]
      /\ \A k \in (Len(a) + 1)..(Len(a) + Len(b)) : d[k] = b[k - Len(a)]
  BY <1>1, <1>2, InARow, Zenon
<1> HIDE DEF d
<1>5. d \in Seq(T) /\ Len(d) = j - 2
  BY <1>0, <1>1, <1>2, <1>9
<1>10. /\ cut \in Seq(T) /\ Len(cut) = Len(d) + Len(c)
       /\ \A k \in 1..Len(d) : cut[k] = d[k]
       /\ \A k \in (Len(d) + 1)..(Len(d) + Len(c)) : cut[k] = c[k - Len(d)]
  <2>1. /\ d \o c \in Seq(T) /\ Len(d \o c) = Len(d) + Len(c)
        /\ \A k \in 1..Len(d) : (d \o c)[k] = d[k]
        /\ \A k \in (Len(d) + 1)..(Len(d) + Len(c)) : (d \o c)[k] = c[k - Len(d)]
    BY <1>3, <1>5, InARow, Zenon
  <2> QED BY <1>4, <2>1, Zenon
<1>6. ASSUME NEW k \in 1..(j - 2) PROVE d[k] = IF k < i THEN s[k] ELSE s[k + 1]
  <2>1. CASE k < i
    <3>1. d[k] = a[k]
      BY <1>0, <1>1, <1>9, <2>1
    <3> QED BY <1>0, <1>1, <2>1, <3>1
  <2>2. CASE i <= k
    <3>1. k \in (Len(a) + 1)..(Len(a) + Len(b)) /\ k - Len(a) \in 1..(j - i - 1)
          /\ k - Len(a) + i = k + 1
      BY <1>0, <1>1, <1>2, <2>2
    <3>2. d[k] = b[k - Len(a)]
      BY <1>9, <3>1
    <3> QED BY <1>0, <1>2, <2>2, <3>1, <3>2
  <2> QED BY <1>0, <2>1, <2>2
<1>7. cut \in Seq(T) /\ Len(cut) = Len(s) - 2
  <2>1. Len(cut) = (j - 2) + (Len(s) - j)
    BY <1>3, <1>5, <1>10
  <2>2. (j - 2) + (Len(s) - j) = Len(s) - 2
    BY <1>0
  <2> QED BY <1>10, <2>1, <2>2, Zenon
<1>8. ASSUME NEW k \in 1..(Len(s) - 2)
      PROVE  cut[k] = s[IF k < i THEN k ELSE IF k < j - 1 THEN k + 1 ELSE k + 2]
  <2>1. CASE k < j - 1
    <3>1. k \in 1..(j - 2)
      BY <1>0, <2>1
    <3>2. cut[k] = d[k]
      BY <1>5, <1>10, <3>1
    <3> QED BY <1>6, <2>1, <3>1, <3>2
  <2>2. CASE ~ (k < j - 1)
    <3>1. k \in (Len(d) + 1)..(Len(d) + Len(c)) /\ k - Len(d) \in 1..(Len(s) - j)
          /\ k - Len(d) + j = k + 2 /\ ~ (k < i)
      BY <1>0, <1>3, <1>5, <2>2
    <3>2. cut[k] = c[k - Len(d)]
      BY <1>10, <3>1
    <3> QED BY <1>3, <2>2, <3>1, <3>2
  <2> QED BY <2>1, <2>2
<1> QED BY <1>7, <1>8, Zenon DEF cut

\* A part of a content is taken out and something put in its place.
Exchange(s, i, j, v) == SubSeq(s, 1, i - 1) \o v \o SubSeq(s, j + 1, Len(s))

LEMMA Exchanged ==
    ASSUME NEW T, NEW s \in Seq(T), NEW i \in 1..Len(s), NEW j \in 1..Len(s), i <= j,
           NEW v \in Seq(T)
    PROVE  /\ Exchange(s, i, j, v) \in Seq(T)
           /\ Len(Exchange(s, i, j, v)) = Len(s) - (j - i + 1) + Len(v)
           /\ \A k \in 1..(i - 1) : Exchange(s, i, j, v)[k] = s[k]
           /\ \A k \in 1..Len(v) : Exchange(s, i, j, v)[i - 1 + k] = v[k]
           /\ \A k \in (i + Len(v))..Len(Exchange(s, i, j, v)) :
                 Exchange(s, i, j, v)[k] = s[k - Len(v) + (j - i + 1)]
<1> DEFINE new == Exchange(s, i, j, v)
           a == SubSeq(s, 1, i - 1)
           c == SubSeq(s, j + 1, Len(s))
           d == a \o v
<1>0. Len(s) \in Nat /\ i \in Nat /\ j \in Nat /\ Len(v) \in Nat
  OBVIOUS
<1>1. a \in Seq(T) /\ Len(a) = i - 1 /\ \A k \in 1..(i - 1) : a[k] = s[k]
  OBVIOUS
<1>2. c \in Seq(T) /\ Len(c) = Len(s) - j /\ \A k \in 1..(Len(s) - j) : c[k] = s[k + j]
  <2>1. /\ c \in Seq(T) /\ Len(c) = Len(s) - (j + 1) + 1
        /\ \A k \in 1..(Len(s) - (j + 1) + 1) : c[k] = s[k + (j + 1) - 1]
    BY <1>0, PartOf
  <2> HIDE DEF c
  <2> QED BY <1>0, <2>1
<1>3. new = d \o c
  BY DEF Exchange
<1> HIDE DEF a, c, new
<1>9. /\ d \in Seq(T) /\ Len(d) = Len(a) + Len(v)
      /\ \A k \in 1..Len(a) : d[k] = a[k]
      /\ \A k \in (Len(a) + 1)..(Len(a) + Len(v)) : d[k] = v[k - Len(a)]
  BY <1>1, InARow, Zenon
<1> HIDE DEF d
<1>4. /\ d \in Seq(T) /\ Len(d) = i - 1 + Len(v)
      /\ \A k \in 1..(i - 1) : d[k] = s[k]
      /\ \A k \in i..(i - 1 + Len(v)) : d[k] = v[k - (i - 1)]
  <2>1. d \in Seq(T) /\ Len(d) = i - 1 + Len(v)
    BY <1>0, <1>1, <1>9
  <2>2. ASSUME NEW k \in 1..(i - 1) PROVE d[k] = s[k]
    BY <1>0, <1>1, <1>9
  <2>3. ASSUME NEW k \in i..(i - 1 + Len(v)) PROVE d[k] = v[k - (i - 1)]
    <3>1. k \in (Len(a) + 1)..(Len(a) + Len(v)) /\ Len(a) = i - 1
      BY <1>0, <1>1
    <3> QED BY <1>9, <3>1
  <2> QED BY <2>1, <2>2, <2>3
<1>5. /\ new \in Seq(T) /\ Len(new) = Len(d) + Len(c)
      /\ \A k \in 1..Len(d) : new[k] = d[k]
      /\ \A k \in (Len(d) + 1)..(Len(d) + Len(c)) : new[k] = c[k - Len(d)]
  <2>1. /\ d \o c \in Seq(T) /\ Len(d \o c) = Len(d) + Len(c)
        /\ \A k \in 1..Len(d) : (d \o c)[k] = d[k]
        /\ \A k \in (Len(d) + 1)..(Len(d) + Len(c)) : (d \o c)[k] = c[k - Len(d)]
    BY <1>2, <1>4, InARow, Zenon
  <2> QED BY <1>3, <2>1, Zenon
<1>10. Len(new) = Len(s) - (j - i + 1) + Len(v)
  BY <1>0, <1>2, <1>4, <1>5
<1>6. ASSUME NEW k \in 1..Len(v) PROVE new[i - 1 + k] = v[k]
  <2>1. i - 1 + k \in i..(i - 1 + Len(v)) /\ i - 1 + k \in 1..Len(d)
        /\ (i - 1 + k) - (i - 1) = k
    BY <1>0, <1>4
  <2> QED BY <1>4, <1>5, <2>1
<1>7. ASSUME NEW k \in (i + Len(v))..Len(new) PROVE new[k] = s[k - Len(v) + (j - i + 1)]
  <2>0. Len(d) = i - 1 + Len(v) /\ Len(c) = Len(s) - j /\ Len(new) = Len(d) + Len(c)
    BY <1>2, <1>4, <1>5
  <2>5. k \in (i + Len(v))..(Len(d) + Len(c))
    BY <2>0, Zenon
  <2>1. /\ k \in Int /\ i + Len(v) <= k /\ k <= i - 1 + Len(v) + (Len(s) - j)
    BY <1>0, <2>0, <2>5
  <2>2. k \in (Len(d) + 1)..(Len(d) + Len(c))
    BY <1>0, <2>0, <2>1
  <2>3. k - Len(d) \in 1..(Len(s) - j)
    BY <1>0, <2>0, <2>1
  <2>4. k - Len(d) + j = k - Len(v) + (j - i + 1)
    BY <1>0, <2>0, <2>1
  <2> QED BY <1>2, <1>5, <2>2, <2>3, <2>4
<1>8. \A k \in 1..(i - 1) : new[k] = s[k]
  <2> SUFFICES ASSUME NEW k \in 1..(i - 1) PROVE new[k] = s[k]
    OBVIOUS
  <2>1. k \in 1..Len(d)
    BY <1>0, <1>4
  <2> QED BY <1>4, <1>5, <2>1
<1> QED BY <1>5, <1>6, <1>7, <1>8, <1>10, Zenon DEF new

LEMMA InSequence == ASSUME NEW f, NEW x PROVE x \in Range(f) <=> \E k \in DOMAIN f : x = f[k]
BY Zenon DEF Range

\* A content that is the text, of which stands in the template what src says, but for
\* what stands at the places that are gone; f tells where each token was.
IsLeft(new, f, src, gone) ==
    /\ new \in Seq(AnyToken) /\ f \in [DOMAIN new -> DOMAIN text]
    /\ \A k, l \in DOMAIN new : k < l => f[k] < f[l]
    /\ \A k \in DOMAIN new : new[k] = text[f[k]] /\ src[f[k]] \notin gone
    /\ \A l \in DOMAIN text : src[l] \notin gone => \E k \in DOMAIN new : f[k] = l

\* Such a content stands in the template as well.
LEMMA LeftOut ==
    ASSUME template \in Seq(AnyToken), text \in Seq(AnyToken), NEW src, Stands(text, src),
           NEW new, NEW f, NEW gone, IsLeft(new, f, src, gone), Rightly(Range(src) \ gone)
    PROVE  \E to : Stands(new, to) /\ Rightly(Range(to))
<1> DEFINE to == [k \in DOMAIN new |-> src[f[k]]]
<1> USE DEF IsLeft
<1>1. to \in [DOMAIN new -> DOMAIN template]
  BY DEF Stands
<1>2. ASSUME NEW k \in DOMAIN new, NEW l \in DOMAIN new, k < l
      PROVE  to[k] < to[l]
  BY <1>2 DEF Stands
<1>3. ASSUME NEW k \in DOMAIN new PROVE new[k] = template[to[k]]
  BY DEF Stands
<1>4. ASSUME NEW x PROVE x \in Range(to) <=> x \in Range(src) \ gone
  <2>0. DOMAIN to = DOMAIN new /\ DOMAIN src = DOMAIN text
    BY DEF Stands
  <2>1. ASSUME NEW k \in DOMAIN new PROVE f[k] \in DOMAIN text /\ to[k] = src[f[k]]
    OBVIOUS
  <2> HIDE DEF to
  <2>2. x \in Range(to) <=> \E k \in DOMAIN to : x = to[k]
    BY InSequence
  <2>3. x \in Range(src) <=> \E l \in DOMAIN src : x = src[l]
    BY InSequence
  <2> QED BY <2>0, <2>1, <2>2, <2>3
<1> HIDE DEF to
<1>5. Range(to) = Range(src) \ gone
  BY <1>4
<1>6. Stands(new, to)
  BY <1>1, <1>2, <1>3, Zenon DEF Stands
<1> QED BY <1>5, <1>6

\* Places that follow one another do so in the template, and the other way round.
LEMMA SameOrder ==
    ASSUME template \in Seq(AnyToken), text \in Seq(AnyToken), NEW src, Stands(text, src),
           NEW k \in DOMAIN text, NEW l \in DOMAIN text
    PROVE  /\ k \in Int /\ l \in Int /\ src[k] \in Int /\ src[l] \in Int
           /\ src[k] \in DOMAIN template
           /\ k < l <=> src[k] < src[l]
           /\ k = l <=> src[k] = src[l]
           /\ k <= l <=> src[k] <= src[l]
<1>1. DOMAIN text \subseteq Int /\ DOMAIN template \subseteq Int
  OBVIOUS
<1>2. src[k] \in DOMAIN template /\ src[l] \in DOMAIN template
  BY DEF Stands
<1>3. (k < l => src[k] < src[l]) /\ (l < k => src[l] < src[k])
  BY DEF Stands
<1> QED BY <1>1, <1>2, <1>3

\* A block that holds loses its markers.
LEMMA HoldingResolved ==
    ASSUME template \in Seq(AnyToken), WellNested, text \in Seq(AnyToken),
           NEW src, Stands(text, src), Rightly(Range(src)),
           NEW i \in 1..Len(text), NEW j \in 1..Len(text), i < j,
           <<src[i], src[j]>> \in Blocks, text[i].name \in holds,
           NEW new \in Seq(AnyToken), Len(new) = Len(text) - 2,
           \A k \in 1..(Len(text) - 2) :
              new[k] = text[IF k < i THEN k ELSE IF k < j - 1 THEN k + 1 ELSE k + 2]
    PROVE  \E to : Stands(new, to) /\ Rightly(Range(to))
<1> DEFINE f == [k \in 1..(Len(text) - 2) |->
                    IF k < i THEN k ELSE IF k < j - 1 THEN k + 1 ELSE k + 2]
<1>1. /\ i \in DOMAIN text /\ j \in DOMAIN text /\ i \in Int /\ j \in Int
      /\ Len(text) \in Nat /\ DOMAIN text = 1..Len(text)
      /\ DOMAIN new = 1..(Len(text) - 2)
  OBVIOUS
<1>2. text[i] = template[src[i]]
  BY <1>1, Zenon DEF Stands
<1>3. f \in [DOMAIN new -> DOMAIN text]
  <2>1. ASSUME NEW k \in 1..(Len(text) - 2) PROVE f[k] \in 1..Len(text)
    BY <1>1
  <2> QED BY <1>1, <2>1
<1>4. \A k, l \in DOMAIN new : k < l => f[k] < f[l]
  <2> SUFFICES ASSUME NEW k \in DOMAIN new, NEW l \in DOMAIN new, k < l
               PROVE  f[k] < f[l]
    OBVIOUS
  <2>1. k \in 1..(Len(text) - 2) /\ l \in 1..(Len(text) - 2)
    BY <1>1
  <2> QED BY <1>1, <2>1
<1>5. \A k \in DOMAIN new : new[k] = text[f[k]]
  BY <1>1
<1>6. ASSUME NEW l \in DOMAIN text
      PROVE  src[l] \notin {src[i], src[j]} <=> l \notin {i, j}
  <2>1. l = i <=> src[l] = src[i]
    BY <1>1, SameOrder
  <2>2. l = j <=> src[l] = src[j]
    BY <1>1, SameOrder
  <2> QED BY <2>1, <2>2
<1>7. ASSUME NEW k \in DOMAIN new PROVE src[f[k]] \notin {src[i], src[j]}
  <2>1. f[k] \in 1..Len(text) /\ f[k] \notin {i, j}
    BY <1>1
  <2> QED BY <1>1, <1>6, <2>1
<1>8. ASSUME NEW l \in DOMAIN text, src[l] \notin {src[i], src[j]}
      PROVE  \E k \in DOMAIN new : f[k] = l
  <2>0. l \in 1..Len(text) /\ l # i /\ l # j
    BY <1>1, <1>6, <1>8
  <2> DEFINE k == IF l < i THEN l ELSE IF l < j THEN l - 1 ELSE l - 2
  <2>1. k \in 1..(Len(text) - 2) /\ f[k] = l
    BY <1>1, <2>0
  <2> QED BY <1>1, <2>1
<1>9. Rightly(Range(src) \ {src[i], src[j]})
  <2> DEFINE d == <<src[i], src[j]>>
             K == Range(src)
  <2>1. d \in Blocks /\ d[1] = src[i] /\ d[2] = src[j]
    OBVIOUS
  <2>2. d[1] \in K /\ d[2] \in K /\ K \in SUBSET DOMAIN template
    BY <1>1, <2>1 DEF Range, Stands
  <2>3. template[d[1]].name \in holds
    BY <1>2, <2>1
  <2>4. Rightly(K)
    OBVIOUS
  <2> HIDE DEF d, K
  <2>5. Rightly(K \ {d[1], d[2]})
    BY <2>1, <2>2, <2>3, <2>4, RoundIsRight
  <2> QED BY <2>1, <2>5 DEF K
<1> HIDE DEF f
<1> DEFINE gone == {src[i], src[j]}
<1>10. IsLeft(new, f, src, gone)
  <2>1. ASSUME NEW l \in DOMAIN text, src[l] \notin gone
        PROVE  \E k \in DOMAIN new : f[k] = l
    BY <1>8, <2>1
  <2>2. ASSUME NEW k \in DOMAIN new PROVE src[f[k]] \notin gone
    BY <1>7
  <2> HIDE DEF gone
  <2> QED BY <1>3, <1>4, <1>5, <2>1, <2>2 DEF IsLeft
<1> QED BY <1>9, <1>10, LeftOut, Zenon

\* A block that does not hold goes with all it has within.
LEMMA FailingResolved ==
    ASSUME template \in Seq(AnyToken), WellNested, text \in Seq(AnyToken),
           NEW src, Stands(text, src), Rightly(Range(src)),
           NEW i \in 1..Len(text), NEW j \in 1..Len(text), i < j,
           <<src[i], src[j]>> \in Blocks, text[i].name \notin holds,
           NEW new \in Seq(AnyToken), Len(new) = Len(text) - (j - i + 1),
           \A k \in 1..(i - 1) : new[k] = text[k],
           \A k \in i..Len(new) : new[k] = text[k + (j - i + 1)]
    PROVE  \E to : Stands(new, to) /\ Rightly(Range(to))
<1> DEFINE n == Len(text) - (j - i + 1)
           f == [k \in 1..n |-> IF k < i THEN k ELSE k + (j - i + 1)]
<1>1. /\ i \in DOMAIN text /\ j \in DOMAIN text /\ i \in Int /\ j \in Int
      /\ Len(text) \in Nat /\ DOMAIN text = 1..Len(text)
      /\ DOMAIN new = 1..n
  OBVIOUS
<1>2. text[i] = template[src[i]]
  BY <1>1, Zenon DEF Stands
<1>3. f \in [DOMAIN new -> DOMAIN text]
  <2>1. ASSUME NEW k \in 1..n PROVE f[k] \in 1..Len(text)
    BY <1>1
  <2> QED BY <1>1, <2>1
<1>4. \A k, l \in DOMAIN new : k < l => f[k] < f[l]
  <2> SUFFICES ASSUME NEW k \in DOMAIN new, NEW l \in DOMAIN new, k < l
               PROVE  f[k] < f[l]
    OBVIOUS
  <2>1. k \in 1..n /\ l \in 1..n
    BY <1>1
  <2> QED BY <1>1, <2>1
<1>5. \A k \in DOMAIN new : new[k] = text[f[k]]
  <2> SUFFICES ASSUME NEW k \in 1..n PROVE new[k] = text[f[k]]
    BY <1>1
  <2>1. CASE k < i
    <3>1. k \in 1..(i - 1)
      BY <1>1, <2>1
    <3> QED BY <2>1, <3>1
  <2>2. CASE ~ (k < i)
    <3>1. k \in i..Len(new)
      BY <1>1, <2>2
    <3> QED BY <2>2, <3>1
  <2> QED BY <2>1, <2>2
<1>6. ASSUME NEW l \in DOMAIN text
      PROVE  src[l] \notin src[i]..src[j] <=> l \notin i..j
  <2>1. l \in Int /\ src[l] \in Int /\ src[i] \in Int /\ (i <= l <=> src[i] <= src[l])
    BY <1>1, SameOrder
  <2>2. src[j] \in Int /\ (l <= j <=> src[l] <= src[j])
    BY <1>1, SameOrder
  <2> QED BY <1>1, <2>1, <2>2
<1>7. ASSUME NEW k \in DOMAIN new PROVE src[f[k]] \notin src[i]..src[j]
  <2>1. f[k] \in 1..Len(text) /\ f[k] \notin i..j
    BY <1>1
  <2> QED BY <1>1, <1>6, <2>1
<1>8. ASSUME NEW l \in DOMAIN text, src[l] \notin src[i]..src[j]
      PROVE  \E k \in DOMAIN new : f[k] = l
  <2>0. l \in 1..Len(text) /\ l \notin i..j
    BY <1>1, <1>6, <1>8
  <2> DEFINE k == IF l < i THEN l ELSE l - (j - i + 1)
  <2>1. k \in 1..n /\ f[k] = l
    BY <1>1, <2>0
  <2> QED BY <1>1, <2>1
<1>9. Rightly(Range(src) \ (src[i]..src[j]))
  <2> DEFINE d == <<src[i], src[j]>>
             K == Range(src)
  <2>1. d \in Blocks /\ d[1] = src[i] /\ d[2] = src[j]
    OBVIOUS
  <2>2. d[1] \in K /\ d[2] \in K /\ K \in SUBSET DOMAIN template
    BY <1>1, <2>1 DEF Range, Stands
  <2>3. template[d[1]].name \notin holds
    BY <1>2, <2>1
  <2>4. Rightly(K)
    OBVIOUS
  <2> HIDE DEF d, K
  <2>5. Rightly(K \ (d[1]..d[2]))
    BY <2>1, <2>2, <2>3, <2>4, RoundIsRight
  <2> QED BY <2>1, <2>5 DEF K
<1> HIDE DEF f
<1> DEFINE gone == src[i]..src[j]
<1>10. IsLeft(new, f, src, gone)
  <2>1. ASSUME NEW l \in DOMAIN text, src[l] \notin gone
        PROVE  \E k \in DOMAIN new : f[k] = l
    BY <1>8, <2>1
  <2>2. ASSUME NEW k \in DOMAIN new PROVE src[f[k]] \notin gone
    BY <1>7
  <2> HIDE DEF gone
  <2> QED BY <1>3, <1>4, <1>5, <2>1, <2>2 DEF IsLeft
<1> QED BY <1>9, <1>10, LeftOut, Zenon

-----------------------------------------------------------------------------
\* There is a first match when there is any.
LEMMA FirstMatch ==
    ASSUME text \in Seq(AnyToken), Matches(text) # {}
    PROVE  (CHOOSE p \in Matches(text) : \A q \in Matches(text) : p[1] <= q[1])
              \in Matches(text)
<1> DEFINE starts == {p[1] : p \in Matches(text)}
<1>1. starts \in SUBSET Nat /\ starts # {}
  <2>1. DOMAIN text \subseteq Nat
    OBVIOUS
  <2>2. Matches(text) \subseteq (DOMAIN text) \X (DOMAIN text)
    BY DEF Matches
  <2> QED BY <2>1, <2>2
<1>2. PICK p \in Matches(text) : p[1] = Min(starts)
  BY <1>1, LeastNumber
<1>3. \A q \in Matches(text) : p[1] <= q[1]
  <2>1. \A y \in starts : Min(starts) <= y
    BY <1>1, LeastNumber
  <2>2. \A q \in Matches(text) : q[1] \in starts
    OBVIOUS
  <2> QED BY <1>2, <2>1, <2>2
<1> QED BY <1>2, <1>3

\* Whatever a round matches, it leaves a content.
LEMMA RoundTypes ==
    ASSUME text \in Seq(AnyToken), ResolveConditional
    PROVE  text' \in Seq(AnyToken)
<1> DEFINE m == CHOOSE p \in Matches(text) : \A q \in Matches(text) : p[1] <= q[1]
<1>1. m \in Matches(text)
  BY FirstMatch DEF ResolveConditional
<1>2. text' = SubSeq(text, 1, m[1] - 1)
                  \o (IF text[m[1]].name \in holds THEN SubSeq(text, m[1] + 1, m[2] - 1)
                      ELSE <<>>)
                  \o SubSeq(text, m[2] + 1, Len(text))
  BY DEF ResolveConditional
<1> HIDE DEF m
<1>3. m[1] \in 1..Len(text) /\ m[2] \in 1..Len(text) /\ m[1] < m[2]
  BY <1>1 DEF Matches
<1>4. /\ SubSeq(text, 1, m[1] - 1) \in Seq(AnyToken)
      /\ SubSeq(text, m[2] + 1, Len(text)) \in Seq(AnyToken)
      /\ SubSeq(text, m[1] + 1, m[2] - 1) \in Seq(AnyToken)
  BY <1>3, PartOf
<1>5. ASSUME NEW v \in Seq(AnyToken)
      PROVE  SubSeq(text, 1, m[1] - 1) \o v \o SubSeq(text, m[2] + 1, Len(text))
                \in Seq(AnyToken)
  BY <1>4
<1>6. CASE text[m[1]].name \in holds
  BY <1>2, <1>4, <1>5, <1>6
<1>7. CASE text[m[1]].name \notin holds
  <2>1. <<>> \in Seq(AnyToken)
    OBVIOUS
  <2> QED BY <1>2, <1>5, <1>7, <2>1, Zenon
<1> QED BY <1>6, <1>7

\* A round leaves a content that stands rightly in the template.
LEMMA RoundResolved ==
    ASSUME template \in Seq(AnyToken), WellNested, text \in Seq(AnyToken),
           NEW src, Stands(text, src), Rightly(Range(src)), ResolveConditional
    PROVE  text' \in Seq(AnyToken) /\ \E to : Stands(text', to) /\ Rightly(Range(to))
<1> DEFINE m == CHOOSE p \in Matches(text) : \A q \in Matches(text) : p[1] <= q[1]
           i == m[1]
           j == m[2]
<1>1. m \in Matches(text)
  BY FirstMatch DEF ResolveConditional
<1>2. text' = SubSeq(text, 1, i - 1)
                  \o (IF text[i].name \in holds THEN SubSeq(text, i + 1, j - 1) ELSE <<>>)
                  \o SubSeq(text, j + 1, Len(text))
  BY DEF ResolveConditional
<1> HIDE DEF m
<1>3. <<src[i], src[j]>> \in Blocks /\ i \in DOMAIN text /\ j \in DOMAIN text /\ i < j
  BY <1>1, MatchIsBlock
<1> HIDE DEF i, j
<1>4. i \in 1..Len(text) /\ j \in 1..Len(text) /\ i <= j /\ i \in Int /\ j \in Int
  BY <1>3
<1>5. CASE text[i].name \in holds
  <2> DEFINE new == Unmarked(text, i, j)
  <2>1. text' = new
    BY <1>2, <1>5, Zenon DEF Unmarked
  <2>2. /\ new \in Seq(AnyToken) /\ Len(new) = Len(text) - 2
        /\ \A k \in 1..(Len(text) - 2) :
              new[k] = text[IF k < i THEN k ELSE IF k < j - 1 THEN k + 1 ELSE k + 2]
    BY <1>3, <1>4, MarkersCut, Zenon
  <2> HIDE DEF new
  <2>3. \E to : Stands(new, to) /\ Rightly(Range(to))
    BY <1>3, <1>4, <1>5, <2>2, HoldingResolved, Zenon
  <2> QED BY <2>1, <2>2, <2>3, Zenon
<1>6. CASE text[i].name \notin holds
  <2> DEFINE v == <<>>
             new == Exchange(text, i, j, v)
  <2>1. text' = new
    BY <1>2, <1>6, Zenon DEF Exchange
  <2>2. v \in Seq(AnyToken)
    OBVIOUS
  <2>0. Len(v) = 0
    OBVIOUS
  <2> HIDE DEF v
  <2>3. /\ new \in Seq(AnyToken) /\ Len(new) = Len(text) - (j - i + 1) + Len(v)
        /\ \A k \in 1..(i - 1) : new[k] = text[k]
        /\ \A k \in 1..Len(v) : new[i - 1 + k] = v[k]
        /\ \A k \in (i + Len(v))..Len(new) : new[k] = text[k - Len(v) + (j - i + 1)]
    BY <1>4, <2>2, Exchanged
  <2> HIDE DEF new
  <2>4. Len(new) = Len(text) - (j - i + 1)
    BY <1>4, <2>0, <2>3
  <2>5. ASSUME NEW k \in i..Len(new) PROVE new[k] = text[k + (j - i + 1)]
    BY <1>4, <2>0, <2>3
  <2>6. \E to : Stands(new, to) /\ Rightly(Range(to))
    BY <1>3, <1>4, <1>6, <2>3, <2>4, <2>5, FailingResolved, Zenon
  <2> QED BY <2>1, <2>3, <2>6, Zenon
<1> QED BY <1>5, <1>6

\* When nothing matches any more, what is left is what the caller asked for.
LEMMA NothingLeft ==
    ASSUME template \in Seq(TokensOf({"open", "close", "var", "text"})), WellNested,
           text \in Seq(AnyToken), NEW src, Stands(text, src), Rightly(Range(src)),
           Matches(text) = {}
    PROVE  \E from : Keeps(text, from)
<1>0. /\ template \in Seq(AnyToken) /\ DOMAIN src = DOMAIN text
      /\ DOMAIN text \subseteq Int /\ DOMAIN template \subseteq Int
      /\ \A i \in DOMAIN template :
            template[i].kind \in {"open", "close", "var", "text"}
  <2> DEFINE S == TokensOf({"open", "close", "var", "text"})
  <2>1. S \subseteq AnyToken /\ \A t \in S : t.kind \in {"open", "close", "var", "text"}
    BY DEF AnyToken, TokensOf
  <2>2. DOMAIN src = DOMAIN text
    BY DEF Stands
  <2> HIDE DEF S
  <2>3. template \in Seq(S)
    BY DEF S
  <2>4. template \in Seq(AnyToken) /\ \A i \in DOMAIN template : template[i] \in S
    BY <2>1, <2>3
  <2> QED BY <2>1, <2>2, <2>4
<1>r. ASSUME NEW i PROVE i \in Range(src) <=> \E k \in DOMAIN text : i = src[k]
  BY <1>0, InSequence
<1>1. ASSUME NEW b \in Blocks PROVE b[1] \notin Range(src) /\ b[2] \notin Range(src)
  <2> SUFFICES ASSUME b[1] \in Range(src) /\ b[2] \in Range(src) PROVE FALSE
    BY DEF Rightly
  <2>1. PICK i \in DOMAIN text : b[1] = src[i]
    BY <1>r
  <2>2. PICK j \in DOMAIN text : b[2] = src[j]
    BY <1>r
  <2>3. i < j /\ i \in Int /\ j \in Int
    <3>1. src[i] < src[j]
      BY <1>0, <2>1, <2>2, BlocksApart
    <3> QED BY <1>0, <2>1, <2>2, <3>1, SameOrder
  <2>4. text[i] = template[b[1]] /\ text[j] = template[b[2]]
    BY <2>1, <2>2 DEF Stands
  <2>5. Opens(text[i]) /\ Closes(text[j], text[i].name)
    BY <2>4 DEF Blocks
  <2>6. ASSUME NEW k \in (i + 1)..(j - 1) PROVE ~ Closes(text[k], text[i].name)
    <3>1. k \in DOMAIN text /\ i < k /\ k < j
      BY <1>0, <2>3
    <3>2. /\ src[k] \in Int /\ b[1] \in Int /\ b[2] \in Int
          /\ b[1] < src[k] /\ src[k] < b[2] /\ text[k] = template[src[k]]
      BY <1>0, <2>1, <2>2, <3>1, SameOrder DEF Stands
    <3>3. src[k] \in b[1]..b[2] /\ src[k] # b[2]
      BY <3>2
    <3> QED BY <2>4, <3>2, <3>3 DEF Blocks
  <2>7. <<i, j>> \in Matches(text)
    BY <2>3, <2>5, <2>6 DEF Matches
  <2> QED BY <2>7
<1>2. ASSUME NEW k \in DOMAIN text
      PROVE  /\ template[src[k]].kind \in {"var", "text"}
             /\ src[k] \in DOMAIN template /\ text[k] = template[src[k]]
  <2>1. src[k] \in DOMAIN template /\ text[k] = template[src[k]]
    BY DEF Stands
  <2>2. template[src[k]].kind \notin {"open", "close"}
    <3> SUFFICES ASSUME template[src[k]].kind \in {"open", "close"} PROVE FALSE
      OBVIOUS
    <3>1. PICK b \in Blocks : src[k] \in {b[1], b[2]}
      BY <2>1 DEF WellNested
    <3> QED BY <1>r, <1>1, <3>1
  <2> QED BY <1>0, <2>1, <2>2
<1>3. ASSUME NEW k \in Kept(text) PROVE src[k] \in Wanted
  <2>1. k \in DOMAIN text /\ template[src[k]].kind = "text"
    BY <1>2 DEF Kept
  <2>2. ASSUME NEW b \in Blocks, b[1] < src[k], src[k] < b[2]
        PROVE  template[b[1]].name \in holds
    BY <1>r, <1>1, <2>1, <2>2 DEF Rightly
  <2> QED BY <1>2, <2>1, <2>2 DEF Wanted
<1>4. ASSUME NEW i \in Wanted PROVE \E k \in Kept(text) : src[k] = i
  <2>1. i \in DOMAIN template /\ template[i].kind = "text"
    BY DEF Wanted
  <2>2. i \in Range(src)
    <3> SUFFICES ASSUME i \notin Range(src) PROVE FALSE
      OBVIOUS
    <3>1. MayGo(i)
      BY <2>1 DEF Rightly
    <3>2. PICK b \in Blocks :
             i = b[1] \/ i = b[2]
             \/ (b[1] < i /\ i < b[2] /\ template[b[1]].name \notin holds)
      BY <3>1 DEF MayGo
    <3>3. i # b[1] /\ i # b[2]
      BY <2>1 DEF Blocks, Opens, Closes
    <3> QED BY <3>2, <3>3 DEF Wanted
  <2>3. PICK k \in DOMAIN text : i = src[k]
    BY <1>r, <2>2
  <2> QED BY <1>2, <2>1, <2>3 DEF Kept
<1> DEFINE from == [k \in Kept(text) |-> src[k]]
<1>5. Kept(text) \subseteq DOMAIN text
  BY DEF Kept
<1>6. from \in [Kept(text) -> Wanted]
  BY <1>3
<1>7. ASSUME NEW k \in Kept(text), NEW l \in Kept(text)
      PROVE  /\ from[k] = from[l] => k = l
             /\ k < l => from[k] < from[l]
             /\ text[k] = template[from[k]]
  BY <1>0, <1>2, <1>5, SameOrder
<1>8. from \in Bijection(Kept(text), Wanted)
  <2>1. \A i \in Wanted : \E k \in Kept(text) : from[k] = i
    BY <1>4
  <2> HIDE DEF from
  <2> QED BY <1>6, <1>7, <2>1 DEF Bijection, Injection, Surjection, IsInjective
<1> HIDE DEF from
<1> QED BY <1>7, <1>8 DEF Keeps

-----------------------------------------------------------------------------
\* A content keeps what another keeps, each at a place of its own.
KeepsAs(new, f) ==
    /\ f \in [Kept(new) -> Kept(text)]
    /\ \A k, l \in Kept(new) : k < l => f[k] < f[l]
    /\ \A k \in Kept(new) : new[k] = text[f[k]]
    /\ \A l \in Kept(text) : \E k \in Kept(new) : f[k] = l

LEMMA KeptElsewhere ==
    ASSUME text \in Seq(AnyToken), NEW new \in Seq(AnyToken), NEW f, KeepsAs(new, f),
           NEW from, Keeps(text, from)
    PROVE  \E to : Keeps(new, to)
<1> DEFINE to == [k \in Kept(new) |-> from[f[k]]]
<1>0. Kept(new) \subseteq Int /\ Kept(text) \subseteq Int
  BY DEF Kept
<1>1. /\ from \in [Kept(text) -> Wanted]
      /\ \A k, l \in Kept(text) : from[k] = from[l] => k = l
      /\ \A i \in Wanted : \E k \in Kept(text) : from[k] = i
  BY DEF Keeps, Bijection, Injection, Surjection, IsInjective
<1>2. to \in [Kept(new) -> Wanted]
  BY <1>1 DEF KeepsAs
<1>3. ASSUME NEW k \in Kept(new), NEW l \in Kept(new)
      PROVE  /\ k < l => to[k] < to[l]
             /\ new[k] = template[to[k]]
  BY DEF KeepsAs, Keeps
<1>4. ASSUME NEW k \in Kept(new), NEW l \in Kept(new), to[k] = to[l] PROVE k = l
  <2>1. f[k] \in Kept(text) /\ f[l] \in Kept(text)
    BY DEF KeepsAs
  <2>2. f[k] = f[l]
    BY <1>1, <1>4, <2>1
  <2>3. f[k] \in Int /\ f[l] \in Int
    BY <1>0, <2>1
  <2>4. ~ (k < l) /\ ~ (l < k)
    BY <2>2, <2>3 DEF KeepsAs
  <2> QED BY <1>0, <2>4
<1>5. ASSUME NEW i \in Wanted PROVE \E k \in Kept(new) : to[k] = i
  <2>1. PICK l \in Kept(text) : from[l] = i
    BY <1>1
  <2>2. PICK k \in Kept(new) : f[k] = l
    BY DEF KeepsAs
  <2> QED BY <2>1, <2>2
<1> HIDE DEF to
<1>6. to \in Bijection(Kept(new), Wanted)
  BY <1>2, <1>4, <1>5 DEF Bijection, Injection, Surjection, IsInjective
<1> QED BY <1>3, <1>6 DEF Keeps

\* A replacement takes nothing away that is kept and brings nothing that would be.
LEMMA PlaceholderReplaced ==
    ASSUME text \in Seq(AnyToken), pending \in Seq(DOMAIN Values), ReplacePlaceholder
    PROVE  /\ text' \in Seq(AnyToken)
           /\ \A from : Keeps(text, from) => \E to : Keeps(text', to)
<1> DEFINE i == Min(Occurrences)
           v == Values[Head(pending)]
           new == Exchange(text, i, i, v)
<1>1. i \in Occurrences
  <2>1. Occurrences \in SUBSET Nat /\ Occurrences # {}
    BY DEF Occurrences, ReplacePlaceholder
  <2> QED BY <2>1, LeastNumber
<1>2. i \in 1..Len(text) /\ i \in Int /\ text[i].kind = "var" /\ Len(text) \in Nat
  BY <1>1 DEF Occurrences
<1>3. v \in Seq(TokensOf({"var", "value"}))
  <2>1. Head(pending) \in DOMAIN Values
    BY DEF ReplacePlaceholder
  <2> QED BY <2>1, TemplateAssumption
<1>4. /\ v \in Seq(AnyToken) /\ Len(v) \in Nat
      /\ \A k \in 1..Len(v) : v[k].kind \in {"var", "value"}
  <2> DEFINE S == TokensOf({"var", "value"})
  <2>1. S \subseteq AnyToken /\ \A t \in S : t.kind \in {"var", "value"}
    BY DEF AnyToken, TokensOf
  <2>2. v \in Seq(S)
    BY <1>3
  <2> HIDE DEF S, v
  <2> QED BY <2>1, <2>2
<1>5. text' = new
  BY DEF ReplacePlaceholder, Exchange
<1> HIDE DEF i, v
<1>6. /\ new \in Seq(AnyToken) /\ Len(new) = Len(text) - (i - i + 1) + Len(v)
      /\ \A k \in 1..(i - 1) : new[k] = text[k]
      /\ \A k \in 1..Len(v) : new[i - 1 + k] = v[k]
      /\ \A k \in (i + Len(v))..Len(new) : new[k] = text[k - Len(v) + (i - i + 1)]
  <2>1. i <= i
    BY <1>2
  <2> QED BY <1>2, <1>4, <2>1, Exchanged
<1> HIDE DEF new
<1>7. /\ Len(new) = Len(text) - 1 + Len(v) /\ DOMAIN new = 1..(Len(text) - 1 + Len(v))
      /\ DOMAIN text = 1..Len(text)
  BY <1>2, <1>4, <1>6
<1> DEFINE f == [k \in Kept(new) |-> IF k < i THEN k ELSE k - Len(v) + 1]
<1>8. ASSUME NEW k \in Kept(new)
      PROVE  /\ k \in Int /\ (k < i \/ i + Len(v) <= k)
             /\ f[k] \in 1..Len(text) /\ new[k] = text[f[k]]
  <2>1. k \in 1..(Len(text) - 1 + Len(v)) /\ new[k].kind \in {"text", "open", "close"}
    BY <1>7 DEF Kept
  <2>2. CASE k < i
    <3>1. k \in 1..(i - 1) /\ k \in 1..Len(text)
      BY <1>2, <2>1, <2>2
    <3> QED BY <1>6, <2>2, <3>1
  <2>3. CASE i + Len(v) <= k
    <3>1. k \in (i + Len(v))..Len(new) /\ ~ (k < i)
      BY <1>2, <1>4, <1>7, <2>1, <2>3
    <3>2. k - Len(v) + 1 \in 1..Len(text)
      BY <1>2, <1>4, <2>1, <2>3
    <3>3. k - Len(v) + (i - i + 1) = k - Len(v) + 1
      BY <1>2, <1>4, <2>1
    <3> QED BY <1>6, <2>3, <3>1, <3>2, <3>3
  <2>4. CASE ~ (k < i) /\ ~ (i + Len(v) <= k)
    <3>0. k \in Int /\ i <= k /\ k < i + Len(v)
      BY <1>2, <1>4, <2>1, <2>4
    <3>1. k - (i - 1) \in 1..Len(v)
      BY <1>2, <1>4, <3>0
    <3>2. i - 1 + (k - (i - 1)) = k
      BY <1>2, <3>0
    <3>3. new[k] = v[k - (i - 1)]
      BY <1>6, <3>1, <3>2
    <3> QED BY <1>4, <2>1, <3>1, <3>3
  <2> QED BY <2>1, <2>2, <2>3, <2>4
<1>9. KeepsAs(new, f)
  <2>1. ASSUME NEW k \in Kept(new) PROVE f[k] \in Kept(text)
    BY <1>7, <1>8 DEF Kept
  <2>2. ASSUME NEW k \in Kept(new), NEW l \in Kept(new), k < l PROVE f[k] < f[l]
    <3>1. k \in Int /\ l \in Int /\ (l < i \/ i + Len(v) <= l) /\ (k < i \/ i + Len(v) <= k)
      BY <1>8
    <3> QED BY <1>2, <1>4, <2>2, <3>1
  <2>3. ASSUME NEW l \in Kept(text) PROVE \E k \in Kept(new) : f[k] = l
    <3>1. l \in 1..Len(text) /\ l # i /\ text[l].kind \in {"text", "open", "close"}
      BY <1>2, <1>7 DEF Kept
    <3>2. CASE l < i
      <4>1. l \in 1..(i - 1) /\ l \in DOMAIN new
        BY <1>2, <1>4, <1>7, <3>1, <3>2
      <4>2. l \in Kept(new)
        BY <1>6, <3>1, <4>1 DEF Kept
      <4> QED BY <3>2, <4>2
    <3>3. CASE i < l
      <4> DEFINE k == l + Len(v) - 1
      <4>1. k \in (i + Len(v))..Len(new) /\ k \in DOMAIN new /\ ~ (k < i)
            /\ k - Len(v) + (i - i + 1) = l /\ k - Len(v) + 1 = l
        BY <1>2, <1>4, <1>7, <3>1, <3>3
      <4> HIDE DEF k
      <4>2. new[k] = text[l]
        BY <1>6, <4>1
      <4>3. k \in Kept(new)
        BY <3>1, <4>1, <4>2 DEF Kept
      <4> QED BY <4>1, <4>3
    <3> QED BY <1>2, <3>1, <3>2, <3>3
  <2>4. f \in [Kept(new) -> Kept(text)]
    BY <2>1
  <2>5. \A k \in Kept(new) : new[k] = text[f[k]]
    BY <1>8
  <2> HIDE DEF f
  <2> QED BY <2>2, <2>3, <2>4, <2>5 DEF KeepsAs
<1> HIDE DEF f
<1>10. ASSUME NEW from, Keeps(text, from) PROVE \E to : Keeps(new, to)
  BY <1>6, <1>9, <1>10, KeptElsewhere
<1> QED BY <1>5, <1>6, <1>10

-----------------------------------------------------------------------------
\* While the blocks are resolved, the content stands rightly in the template; from
\* then on it keeps what the caller asked for.
StandsRightly == \E src : Stands(text, src) /\ Rightly(Range(src))
KeepsRightly == \E from : Keeps(text, from)

TemplateInv ==
    /\ template \in Templates /\ text \in Seq(AnyToken) /\ pending \in Seq(DOMAIN Values)
    /\ phase # "ended" => exitCode = 9
    /\ (phase = "conditionals" /\ WellNested) => StandsRightly
    /\ (phase \in {"variables", "write"} /\ WellNested) => KeepsRightly

LEMMA TemplateTokens ==
    ASSUME template \in Templates
    PROVE  /\ template \in Seq(TokensOf({"open", "close", "var", "text"}))
           /\ template \in Seq(AnyToken)
<1> DEFINE S == TokensOf({"open", "close", "var", "text"})
<1>1. S \subseteq AnyToken
  BY DEF AnyToken, TokensOf
<1>2. template \in Seq(S)
  BY TemplateAssumption
<1> HIDE DEF S
<1>3. template \in Seq(AnyToken)
  BY <1>1, <1>2
<1> QED BY <1>2, <1>3 DEF S

LEMMA SameTemplate ==
    ASSUME UNCHANGED <<template, holds>>
    PROVE  /\ WellNested' <=> WellNested
           /\ StandsRightly' <=> \E src : Stands(text', src) /\ Rightly(Range(src))
           /\ KeepsRightly' <=> \E from : Keeps(text', from)
<1>1. Blocks' = Blocks
  BY DEF Blocks
<1>2. WellNested' <=> WellNested
  BY <1>1 DEF WellNested
<1>3. Wanted' = Wanted
  BY <1>1 DEF Wanted
<1>4. StandsRightly' <=> \E src : Stands(text', src) /\ Rightly(Range(src))
  BY <1>1 DEF StandsRightly, Stands, Rightly, MayGo
<1>5. KeepsRightly' <=> \E from : Keeps(text', from)
  BY <1>3 DEF KeepsRightly, Keeps
<1> QED BY <1>2, <1>4, <1>5

LEMMA TemplateInitInv == TemplateInit => TemplateInv
<1> SUFFICES ASSUME TemplateInit PROVE TemplateInv
  OBVIOUS
<1>1. given \in Seq(DOMAIN Values)
  <2>1. PICK S \in SUBSET DOMAIN Values : given \in SetToSeqs(S)
    BY DEF TemplateInit, SetToAllKPermutations
  <2>2. Cardinality(S) \in Nat
    BY TemplateAssumption, FS_Subset, FS_CardinalityType
  <2>3. given \in [1..Cardinality(S) -> DOMAIN Values]
    BY <2>1 DEF SetToSeqs
  <2> QED BY <2>2, <2>3
<1> QED BY <1>1 DEF TemplateInit, TemplateInv

LEMMA TemplateStepInv == TemplateInv /\ [TemplateNext]_templateVars => TemplateInv'
<1> SUFFICES ASSUME TemplateInv, [TemplateNext]_templateVars PROVE TemplateInv'
  OBVIOUS
<1> USE DEF TemplateInv
<1>0. /\ template \in Seq(TokensOf({"open", "close", "var", "text"}))
      /\ template \in Seq(AnyToken)
  BY TemplateTokens
<1>f. UNCHANGED <<template, holds>>
  BY DEF TemplateNext, TemplateRefused, ReadTemplate, ResolveConditional,
         ConditionalsResolved, ReplacePlaceholder, NextVariable, VariablesReplaced,
         WriteOutput, templateVars
<1>s. /\ WellNested' <=> WellNested
      /\ StandsRightly' <=> \E src : Stands(text', src) /\ Rightly(Range(src))
      /\ KeepsRightly' <=> \E from : Keeps(text', from)
  BY <1>f, SameTemplate
<1>1. CASE TemplateRefused
  BY <1>1 DEF TemplateRefused, Ended
<1>2. CASE ReadTemplate
  <2> DEFINE src == [k \in DOMAIN template |-> k]
  <2>1. Stands(template, src)
    BY <1>0 DEF Stands
  <2>2. Range(src) = DOMAIN template
    BY DEF Range
  <2> HIDE DEF src
  <2>3. Rightly(DOMAIN template)
    <3>1. ASSUME NEW b \in Blocks
          PROVE  b[1] \in DOMAIN template /\ b[2] \in DOMAIN template
      BY DEF Blocks
    <3> QED BY <3>1 DEF Rightly
  <2>4. text' = template /\ phase' = "conditionals"
    BY <1>2 DEF ReadTemplate
  <2>5. StandsRightly'
    BY <1>s, <2>1, <2>2, <2>3, <2>4
  <2> QED BY <1>0, <1>2, <2>4, <2>5 DEF ReadTemplate
<1>3. CASE ResolveConditional
  <2>1. CASE WellNested
    <3>1. PICK src : Stands(text, src) /\ Rightly(Range(src))
      BY <1>3, <2>1 DEF ResolveConditional, StandsRightly
    <3>2. text' \in Seq(AnyToken) /\ \E to : Stands(text', to) /\ Rightly(Range(to))
      BY <1>0, <1>3, <2>1, <3>1, RoundResolved
    <3> QED BY <1>3, <1>s, <3>2 DEF ResolveConditional
  <2>2. CASE ~ WellNested
    <3>1. text' \in Seq(AnyToken)
      BY <1>3, RoundTypes
    <3> QED BY <1>3, <1>s, <2>2, <3>1 DEF ResolveConditional
  <2> QED BY <2>1, <2>2
<1>4. CASE ConditionalsResolved
  <2>1. ASSUME WellNested PROVE KeepsRightly
    <3>1. PICK src : Stands(text, src) /\ Rightly(Range(src))
      BY <1>4, <2>1 DEF ConditionalsResolved, StandsRightly
    <3>2. Matches(text) = {}
      BY <1>4 DEF ConditionalsResolved
    <3> QED BY <1>0, <2>1, <3>1, <3>2, NothingLeft DEF KeepsRightly
  <2>2. WellNested' => KeepsRightly'
    BY <1>4, <1>s, <2>1 DEF ConditionalsResolved, KeepsRightly
  <2> QED BY <1>4, <2>2 DEF ConditionalsResolved
<1>5. CASE ReplacePlaceholder
  <2>1. /\ text' \in Seq(AnyToken)
        /\ \A from : Keeps(text, from) => \E to : Keeps(text', to)
    BY <1>5, PlaceholderReplaced
  <2>2. WellNested' => KeepsRightly'
    BY <1>5, <1>s, <2>1 DEF ReplacePlaceholder, KeepsRightly
  <2> QED BY <1>5, <2>1, <2>2 DEF ReplacePlaceholder
<1>6. CASE NextVariable
  <2>1. WellNested' => KeepsRightly'
    BY <1>6, <1>s DEF NextVariable, KeepsRightly
  <2>2. pending' \in Seq(DOMAIN Values)
    BY <1>6 DEF NextVariable
  <2> QED BY <1>6, <2>1, <2>2 DEF NextVariable
<1>7. CASE VariablesReplaced
  <2>1. WellNested' => KeepsRightly'
    BY <1>7, <1>s DEF VariablesReplaced, KeepsRightly
  <2> QED BY <1>7, <2>1 DEF VariablesReplaced
<1>8. CASE WriteOutput
  BY <1>8 DEF WriteOutput, Ended
<1>9. CASE UNCHANGED templateVars
  <2>1. (WellNested' => KeepsRightly') <=> (WellNested => KeepsRightly)
    BY <1>9, <1>s DEF templateVars, KeepsRightly
  <2>2. (WellNested' => StandsRightly') <=> (WellNested => StandsRightly)
    BY <1>9, <1>s DEF templateVars, StandsRightly
  <2> QED BY <1>9, <2>1, <2>2 DEF templateVars
<1> QED BY <1>1, <1>2, <1>3, <1>4, <1>5, <1>6, <1>7, <1>8, <1>9 DEF TemplateNext

\* A process that succeeded kept of a well-nested template exactly the text that
\* stands within no block whose condition is false, whatever the templates, the
\* values and the order of the rounds (process_conditionals, process_variables).
THEOREM BlocksAreKept == TemplateSpec => []KeptIffAllHold
<1>1. TemplateInit => KeptIffAllHold
  BY DEF TemplateInit, KeptIffAllHold
<1>2. TemplateInv /\ KeptIffAllHold /\ [TemplateNext]_templateVars => KeptIffAllHold'
  <2> SUFFICES ASSUME TemplateInv, KeptIffAllHold, [TemplateNext]_templateVars
               PROVE  KeptIffAllHold'
    OBVIOUS
  <2>f. UNCHANGED <<template, holds>>
    BY DEF TemplateNext, TemplateRefused, ReadTemplate, ResolveConditional,
           ConditionalsResolved, ReplacePlaceholder, NextVariable, VariablesReplaced,
           WriteOutput, templateVars
  <2>s. (WellNested' <=> WellNested) /\ Wanted' = Wanted
    <3>1. Blocks' = Blocks
      BY <2>f DEF Blocks
    <3> QED BY <2>f, <3>1 DEF WellNested, Wanted
  <2>1. CASE WriteOutput /\ exitCode' = 0
    <3>1. output' = [written |-> text] /\ text' = text
      BY <2>1 DEF WriteOutput, Ended
    <3>2. ASSUME WellNested PROVE \E from : Keeps(text, from)
      BY <2>1, <3>2 DEF TemplateInv, KeepsRightly, WriteOutput
    <3>3. output'.written = text
      BY <3>1
    <3> QED BY <2>f, <2>s, <3>2, <3>3 DEF KeptIffAllHold, Keeps
  <2>2. CASE exitCode' # 0
    BY <2>2 DEF KeptIffAllHold
  <2>3. CASE exitCode' = 0 /\ ~ WriteOutput
    <3>1. exitCode = 0 /\ UNCHANGED output
      <4>1. ~ TemplateRefused
        BY <2>3 DEF TemplateRefused, Ended
      <4>2. CASE ReadTemplate \/ ConditionalsResolved \/ NextVariable \/ VariablesReplaced
        BY <2>3, <4>2 DEF ReadTemplate, ConditionalsResolved, NextVariable,
                          VariablesReplaced
      <4>3. CASE ResolveConditional
        BY <2>3, <4>3 DEF ResolveConditional
      <4>4. CASE ReplacePlaceholder
        BY <2>3, <4>4 DEF ReplacePlaceholder
      <4>5. CASE UNCHANGED templateVars
        BY <2>3, <4>5 DEF templateVars
      <4> QED BY <2>3, <4>1, <4>2, <4>3, <4>4, <4>5 DEF TemplateNext
    <3> QED BY <2>f, <2>s, <3>1 DEF KeptIffAllHold
  <2> QED BY <2>1, <2>2, <2>3
<1> QED BY <1>1, <1>2, TemplateInitInv, TemplateStepInv, PTL DEF TemplateSpec

=============================================================================
