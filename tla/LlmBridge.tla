------------------------------ MODULE LlmBridge ------------------------------
(***************************************************************************)
(* LiveDomainInterrogationBridge.ParseLlmOutput: the code in a reply of    *)
(* the language model. A reply is a sequence of "mirror", the delimiter    *)
(* ===CSHARP_MIRROR===; "fence", the ``` or ```csharp around a block;      *)
(* "class", a class declaration with its body; and "prose", anything else. *)
(* Blocks of other languages and empty ones are left out, and what is in a *)
(* block stands on lines of its own.                                       *)
(***************************************************************************)
EXTENDS Naturals, FiniteSetsExt, SequencesExt

Tokens == {"mirror", "fence", "class", "prose"}
NoCode == <<"prose", "mirror">>  \* the exception for a reply without a class

Where(kind, s) == {i \in DOMAIN s : s[i] = kind}
From(s, i) == SubSeq(s, i, Len(s))

DelimiterFound(raw) == Cardinality(Where("mirror", raw)) = 1
AfterMirror(raw) == From(raw, Min(Where("mirror", raw)) + 1)

\* The first block, without its fences; and, if there is none, what is left without a
\* residual fence (there is one at most) from the first class on.
FirstBlock(s) ==
    LET open == Min(Where("fence", s))
    IN SubSeq(s, open + 1, Min(Where("fence", s) \ {open}) - 1)
Anchored(s) ==
    LET bare == IF Where("fence", s) = {} THEN s ELSE RemoveAt(s, Min(Where("fence", s)))
    IN IF Where("class", bare) = {} THEN bare ELSE From(bare, Min(Where("class", bare)))
Extracted(s) == IF Cardinality(Where("fence", s)) > 1 THEN FirstBlock(s) ELSE Anchored(s)

\* Faulty variant of ParseLlmOutput: a block is looked for in the whole reply.
ParseWholeReply(raw) ==
    LET code == Extracted(raw) IN
    IF ~DelimiterFound(raw) /\ Where("class", code) = {} THEN NoCode ELSE code

ParseLlmOutput(raw) ==
    LET code == Extracted(IF DelimiterFound(raw) THEN AfterMirror(raw) ELSE raw) IN
    IF ~DelimiterFound(raw) /\ Where("class", code) = {} THEN NoCode ELSE code

=============================================================================
