------------------------ MODULE CertifiedTranslation ------------------------
(***************************************************************************)
(* What the translation of a worksheet promises, whatever the language     *)
(* model answers: every partition is settled at most once, it is certified *)
(* only with an answer that reproduces the spreadsheet, each verdict is    *)
(* delivered once, and a translation that completes has delivered them all.*)
(* Orchestrator implements it.                                             *)
(***************************************************************************)
CONSTANTS
    Partitions,   \* the partitions of the worksheet
    Answers,      \* the C# classes the language model may answer with
    NoAnswer,     \* no answer
    Faithful      \* <<p, a>>: answer a reproduces every clean row of p

VARIABLES
    verdict,      \* "open", "certified" or "rejected", for each partition
    answer,       \* the answer the verdict is about
    delivered,    \* the partitions whose verdict the consumer has
    outcome       \* "running", "complete" or "broken"

promise == <<verdict, answer, delivered, outcome>>

Init ==
    /\ verdict = [p \in Partitions |-> "open"]
    /\ answer = [p \in Partitions |-> NoAnswer]
    /\ delivered = {}
    /\ outcome = "running"

Settle(p, a, v) ==
    /\ verdict[p] = "open"
    /\ verdict' = [verdict EXCEPT ![p] = v]
    /\ answer' = [answer EXCEPT ![p] = a]
    /\ UNCHANGED <<delivered, outcome>>

Certify(p, a) == <<p, a>> \in Faithful /\ Settle(p, a, "certified")
Reject(p, a) == Settle(p, a, "rejected")

Deliver(p) ==
    /\ outcome = "running"
    /\ verdict[p] # "open"
    /\ p \notin delivered
    /\ delivered' = delivered \cup {p}
    /\ UNCHANGED <<verdict, answer, outcome>>

Complete ==
    /\ outcome = "running"
    /\ delivered = Partitions
    /\ outcome' = "complete"
    /\ UNCHANGED <<verdict, answer, delivered>>

Break ==
    /\ outcome = "running"
    /\ outcome' = "broken"
    /\ UNCHANGED <<verdict, answer, delivered>>

Next ==
    \/ \E p \in Partitions, a \in Answers : Certify(p, a)
    \/ \E p \in Partitions, a \in Answers \cup {NoAnswer} : Reject(p, a)
    \/ \E p \in Partitions : Deliver(p)
    \/ Complete
    \/ Break

Spec == Init /\ [][Next]_promise
=============================================================================
