-------------------------- MODULE TemplateProcessing --------------------------
(***************************************************************************)
(* process-template.py of the agent builder: the conditional blocks of a   *)
(* template are resolved one by one, then the placeholders are replaced,   *)
(* then the output is written.                                             *)
(*                                                                         *)
(* A template is a sequence of tokens: {if-c} opens c and {/if-c} closes   *)
(* it, {v} is the placeholder of v, the rest is text. The value given for  *)
(* a variable is a sequence of tokens as well, for it may hold             *)
(* placeholders; its text, markers too, is of the kind "value".            *)
(***************************************************************************)
EXTENDS Integers, FiniteSetsExt, SequencesExt

CONSTANTS
    Templates,    \* the templates
    Conditions,   \* names of conditions
    Values        \* the value of each variable

TokensOf(kinds) == [kind : kinds, name : STRING]

ASSUME TemplateAssumption ==
    /\ Templates \subseteq Seq(TokensOf({"open", "close", "var", "text"}))
    /\ IsFiniteSet(DOMAIN Values)
    /\ \A v \in DOMAIN Values : Values[v] \in Seq(TokensOf({"var", "value"}))

VARIABLES
    template,   \* the template of this call
    holds,      \* the conditions that are true
    given,      \* the variables that were given, in their order
    pending,    \* those not replaced yet
    passed,     \* what str.replace has passed of the content, for the first of them
    text,       \* the content so far
    phase,      \* "read", "conditionals", "variables", "write" or "ended"
    output,     \* "old" before the call, "cut" after open("w"), or what was written
    exitCode    \* of the process, 9 while it runs
templateVars == <<template, holds, given, pending, passed, text, phase, output, exitCode>>

Old == [file |-> "old"]
Cut == [file |-> "cut"]

TemplateInit ==
    /\ template \in Templates /\ holds \in SUBSET Conditions
    /\ given \in SetToAllKPermutations(DOMAIN Values)
    /\ pending = given /\ passed = 0
    /\ text = <<>> /\ phase = "read" /\ output = Old /\ exitCode = 9

Ended(code) == phase' = "ended" /\ exitCode' = code

\* Open fails, or a --var has no name or no value: nothing was written.
TemplateRefused ==
    /\ phase = "read" /\ \E code \in {1, 2} : Ended(code)
    /\ UNCHANGED <<template, holds, given, pending, passed, text, output>>

ReadTemplate ==
    /\ phase = "read" /\ phase' = "conditionals" /\ text' = template
    /\ UNCHANGED <<template, holds, given, pending, passed, output, exitCode>>

Opens(t) == t.kind = "open"
Closes(t, c) == t.kind = "close" /\ t.name = c

\* Faulty variant of Matches: a block ends at the last closing marker of its name.
MatchesGreedy(s) ==
    {m \in (DOMAIN s) \X (DOMAIN s) :
        /\ m[1] < m[2] /\ Opens(s[m[1]]) /\ Closes(s[m[2]], s[m[1]].name)
        /\ \A k \in (m[2] + 1)..Len(s) : ~Closes(s[k], s[m[1]].name)}

\* What the pattern matches: a marker and the next closing marker of its name.
Matches(s) ==
    {m \in (DOMAIN s) \X (DOMAIN s) :
        /\ m[1] < m[2] /\ Opens(s[m[1]]) /\ Closes(s[m[2]], s[m[1]].name)
        /\ \A k \in (m[1] + 1)..(m[2] - 1) : ~Closes(s[k], s[m[1]].name)}

\* One round of the loop of process_conditionals: the first match is resolved.
ResolveConditional ==
    /\ phase = "conditionals" /\ Matches(text) # {}
    /\ LET m == CHOOSE p \in Matches(text) : \A q \in Matches(text) : p[1] <= q[1]
           inner == SubSeq(text, m[1] + 1, m[2] - 1)
       IN text' = SubSeq(text, 1, m[1] - 1)
                    \o (IF text[m[1]].name \in holds THEN inner ELSE <<>>)
                    \o SubSeq(text, m[2] + 1, Len(text))
    /\ UNCHANGED <<template, holds, given, pending, passed, phase, output, exitCode>>
ConditionalsResolved ==
    /\ phase = "conditionals" /\ Matches(text) = {} /\ phase' = "variables"
    /\ UNCHANGED <<template, holds, given, pending, passed, text, output, exitCode>>

\* process_variables, one variable after the other; str.replace goes through the text
\* once and does not look at what it puts in, but a later variable does.
Occurrences ==
    {k \in DOMAIN text : k > passed /\ text[k] = [kind |-> "var", name |-> Head(pending)]}
ReplacePlaceholder ==
    /\ phase = "variables" /\ pending # <<>> /\ Occurrences # {}
    /\ LET k == Min(Occurrences)
           value == Values[Head(pending)]
       IN /\ text' = SubSeq(text, 1, k - 1) \o value \o SubSeq(text, k + 1, Len(text))
          /\ passed' = k - 1 + Len(value)
    /\ UNCHANGED <<template, holds, given, pending, phase, output, exitCode>>
NextVariable ==
    /\ phase = "variables" /\ pending # <<>> /\ Occurrences = {}
    /\ pending' = Tail(pending) /\ passed' = 0
    /\ UNCHANGED <<template, holds, given, text, phase, output, exitCode>>
VariablesReplaced ==
    /\ phase = "variables" /\ pending = <<>> /\ phase' = "write"
    /\ UNCHANGED <<template, holds, given, pending, passed, text, output, exitCode>>

WriteOutput ==
    /\ phase = "write"
    /\ \/ output' = [written |-> text] /\ Ended(0)
       \/ output' \in {output, Cut} /\ Ended(1)
    /\ UNCHANGED <<template, holds, given, pending, passed, text>>

TemplateNext ==
    \/ TemplateRefused \/ ReadTemplate \/ ResolveConditional \/ ConditionalsResolved
    \/ ReplacePlaceholder \/ NextVariable \/ VariablesReplaced \/ WriteOutput

TemplateSpec == TemplateInit /\ [][TemplateNext]_templateVars

-----------------------------------------------------------------------------
(* Properties. *)

\* The blocks of a template: each marker with its closing one, and no block within
\* one of its own name, nor one that another cuts in two.
Blocks ==
    {b \in (DOMAIN template) \X (DOMAIN template) :
        /\ b[1] < b[2] /\ Opens(template[b[1]]) /\ Closes(template[b[2]], template[b[1]].name)
        /\ \A k \in b[1]..b[2] : Closes(template[k], template[b[1]].name) => k = b[2]}
WellNested ==
    /\ \A i \in DOMAIN template :
          template[i].kind \in {"open", "close"} => \E b \in Blocks : i \in {b[1], b[2]}
    /\ \A b, d \in Blocks :
          /\ b[2] = d[2] => b = d
          /\ b[1] < d[1] => b[2] < d[1] \/ (d[2] < b[2] /\ template[b[1]] # template[d[1]])

\* What the caller asked to keep of the template, and what is kept of a content.
Wanted ==
    {i \in DOMAIN template :
        /\ template[i].kind = "text"
        /\ \A b \in Blocks : (b[1] < i /\ i < b[2]) => template[b[1]].name \in holds}
Kept(s) == {k \in DOMAIN s : s[k].kind \in {"text", "open", "close"}}

\* A process that succeeded kept of a well-nested template exactly the text that
\* stands within no block whose condition is false, in the order it had, whatever
\* order the rounds took the blocks in and whatever the values brought; and no
\* marker of the template is left.
KeptIffAllHold ==
    (exitCode = 0 /\ WellNested) =>
        \E from \in Bijection(Kept(output.written), Wanted) :
            /\ \A k \in Kept(output.written) : output.written[k] = template[from[k]]
            /\ \A k, l \in Kept(output.written) : k < l => from[k] < from[l]

=============================================================================
