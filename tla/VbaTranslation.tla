---------------------------- MODULE VbaTranslation ----------------------------
(***************************************************************************)
(* ReconciliationOrchestrator.ProcessVbaModulesAsync: the VBA modules of a *)
(* workbook are translated one after the other, each in at most MaxTries   *)
(* attempts, and run once on no inputs. JobLifecycle has this call as one  *)
(* phase of a run that ends with outputs or throws.                        *)
(***************************************************************************)
EXTENDS LlmBridge

CONSTANTS
    MacroCount,   \* modules.Count
    MaxTries,     \* attempts for each module (3 in the code)
    Replies       \* what the language model may answer

ASSUME VbaAssumption ==
    /\ MacroCount \in Nat /\ MaxTries \in Nat \ {0}
    /\ Replies \subseteq Seq(Tokens)

VARIABLES
    macroAt,    \* where the call is; "unparsed" and "threw" are its exceptions
    macro,      \* the module in hand
    tries,      \* its attempt
    raw,        \* the reply that is verified
    translated, \* results
    compiled,   \* modules whose code was compiled and executed
    vbaCancelled \* cancellationToken
vbaVars == <<macroAt, macro, tries, raw, translated, compiled, vbaCancelled>>

VbaEnds == {"returned", "unparsed", "threw"}
Mirror == ParseLlmOutput(raw)

VbaTypeOK ==
    /\ macroAt \in {"idle", "loop", "asking", "verifying"} \cup VbaEnds
    /\ macro \in 1..(MacroCount + 1) /\ tries \in 1..MaxTries
    /\ raw \in Seq(Tokens)
    /\ translated \in Seq(1..MacroCount) /\ compiled \subseteq 1..MacroCount
    /\ vbaCancelled \in BOOLEAN

VbaInit ==
    /\ macroAt = "idle" /\ macro = 1 /\ tries = 1 /\ raw = <<>>
    /\ translated = <<>> /\ compiled = {} /\ vbaCancelled = FALSE

VbaBegins ==
    /\ macroAt = "idle" /\ macroAt' = "loop"
    /\ UNCHANGED <<macro, tries, raw, translated, compiled, vbaCancelled>>

VbaCancel ==
    /\ macroAt \notin VbaEnds /\ ~vbaCancelled /\ vbaCancelled' = TRUE
    /\ UNCHANGED <<macroAt, macro, tries, raw, translated, compiled>>

\* The head of the loop; ThrowIfCancellationRequested.
TakeMacro ==
    /\ macroAt = "loop"
    /\ macroAt' = IF macro > MacroCount THEN "returned"
                  ELSE IF vbaCancelled THEN "threw" ELSE "asking"
    /\ tries' = 1
    /\ UNCHANGED <<macro, raw, translated, compiled, vbaCancelled>>

\* ProcessVbaPayloadAsync returns code or throws: nothing here catches a reply
\* without a class, an error status, a timeout or a cancellation.
BridgeAnswers(reply) ==
    /\ macroAt = "asking" /\ raw' = reply
    /\ macroAt' = IF ParseLlmOutput(reply) = NoCode THEN "unparsed" ELSE "verifying"
    /\ UNCHANGED <<macro, tries, translated, compiled, vbaCancelled>>
BridgeFails ==
    /\ macroAt = "asking" /\ macroAt' = "threw"
    /\ UNCHANGED <<macro, tries, raw, translated, compiled, vbaCancelled>>

\* Faulty variant of MacroRefused: the last attempt leaves the loop, as that of a
\* worksheet's partition does.
MacroRefusedQuietly ==
    /\ macroAt = "verifying" /\ raw' = <<>>
    /\ IF tries = MaxTries
       THEN macroAt' = "loop" /\ macro' = macro + 1 /\ UNCHANGED tries
       ELSE macroAt' = "asking" /\ tries' = tries + 1 /\ UNCHANGED macro
    /\ UNCHANGED <<translated, compiled, vbaCancelled>>

\* The safety scan or the compiler refuses the code; the last refusal ends the call.
MacroRefused ==
    /\ macroAt = "verifying" /\ raw' = <<>>
    /\ IF tries = MaxTries THEN macroAt' = "threw" /\ UNCHANGED tries
                           ELSE macroAt' = "asking" /\ tries' = tries + 1
    /\ UNCHANGED <<macro, translated, compiled, vbaCancelled>>

\* The code is a class that runs. With the result 0 it is kept; with another one, or
\* none within five seconds or before a cancellation, the module is passed over.
MacroRuns ==
    /\ macroAt = "verifying" /\ Mirror = <<"class">>
    /\ \/ translated' = Append(translated, macro)
       \/ UNCHANGED translated
    /\ compiled' = compiled \cup {macro}
    /\ macroAt' = "loop" /\ macro' = macro + 1 /\ raw' = <<>>
    /\ UNCHANGED <<tries, vbaCancelled>>

\* It has no such class, or throws, or the token is cancelled while it is compiled.
MacroThrows ==
    /\ macroAt = "verifying" /\ macroAt' = "threw" /\ raw' = <<>>
    /\ UNCHANGED <<macro, tries, translated, compiled, vbaCancelled>>

VbaNext ==
    \/ VbaBegins \/ VbaCancel \/ TakeMacro
    \/ \E reply \in Replies : BridgeAnswers(reply)
    \/ BridgeFails \/ MacroRefused \/ MacroRuns \/ MacroThrows

VbaSpec == VbaInit /\ [][VbaNext]_vbaVars

-----------------------------------------------------------------------------
(* Properties. *)

\* A call that returns has compiled and executed a translation of every module,
\* whatever attempts failed before, and returns each at most once, in their order.
ReturnedIsCompiled ==
    macroAt = "returned" =>
        /\ compiled = 1..MacroCount
        /\ \A i, j \in DOMAIN translated : i < j => translated[i] < translated[j]

\* A reply that keeps to the format, with its class in the only block or unfenced at
\* the end of what follows the delimiter, gives just that class, whatever the
\* explanation before holds; and a reply without one delimiter is verified only with
\* a class in its code.
FormatGivesClass ==
    macroAt = "verifying" =>
        IF ~DelimiterFound(raw) THEN "class" \in Range(Mirror)
        ELSE LET code == AfterMirror(raw)
                 block == \E i \in 1..(Len(code) - 2) :
                             SubSeq(code, i, i + 2) = <<"fence", "class", "fence">>
             IN \/ block /\ Cardinality(Where("fence", code)) = 2
                \/ Where("fence", code) = {} /\ Where("class", code) = {Len(code)}
                => Mirror = <<"class">>

=============================================================================
