-------------------------- MODULE TranslationService --------------------------
(***************************************************************************)
(* What the API promises of the requests it accepts and of what the ledger *)
(* says of a job, whatever its handlers, its worker and its sweepers do in *)
(* between: requests are served one at a time, in the order they were      *)
(* accepted, each at most once; the ledger says of a job only what the run *)
(* that is being served records, once for each run; an event says what the *)
(* ledger says; and when the process comes back nothing is open that       *)
(* nobody works on. JobLifecycle implements it.                            *)
(***************************************************************************)
EXTENDS Naturals, Sequences

CONSTANTS
    Jobs,         \* the jobs
    NoJob,        \* no job
    Requests,     \* calls for a job to be translated
    NoRequest,    \* no request
    Note          \* the row that says a job was given up

VARIABLES
    alive,        \* the process is there
    target,       \* the job of each request
    waiting,      \* the requests accepted, in order
    serving,      \* the request being served
    run,          \* how far it is: "none", "taken", "open" or "closed"
    over,         \* the requests nothing more will be done for
    outcome,      \* "none", "open", "Completed", "Failed" or "Canceled", of each job
    rows,         \* the ledger's rows of each job
    told          \* the last event of each job

service == <<alive, target, waiting, serving, run, over, outcome, rows, told>>
records == <<outcome, rows, told>>

Init ==
    /\ alive = TRUE
    /\ target = [r \in Requests |-> NoJob]
    /\ waiting = <<>> /\ serving = NoRequest /\ run = "none" /\ over = {}
    /\ outcome = [j \in Jobs |-> "none"]
    /\ rows = [j \in Jobs |-> {}]
    /\ told = [j \in Jobs |-> "none"]

\* A workbook is uploaded for a job.
Open(j) ==
    /\ alive /\ outcome[j] = "none"
    /\ outcome' = [outcome EXCEPT ![j] = "open"]
    /\ UNCHANGED <<alive, target, waiting, serving, run, over, rows, told>>

Submit(r, j) ==
    /\ alive /\ target[r] = NoJob
    /\ target' = [target EXCEPT ![r] = j]
    /\ UNCHANGED <<alive, waiting, serving, run, over, records>>

Outside(r) ==
    /\ alive /\ target[r] # NoJob /\ r \notin over /\ r # serving
    /\ \A i \in 1..Len(waiting) : waiting[i] # r

Accept(r) ==
    /\ Outside(r)
    /\ waiting' = Append(waiting, r)
    /\ UNCHANGED <<alive, target, serving, run, over, records>>

Withdraw(r) ==
    /\ Outside(r)
    /\ over' = over \cup {r}
    /\ UNCHANGED <<alive, target, waiting, serving, run, records>>

Serve ==
    /\ alive /\ serving = NoRequest /\ waiting # <<>>
    /\ serving' = Head(waiting) /\ waiting' = Tail(waiting) /\ run' = "taken"
    /\ UNCHANGED <<alive, target, over, records>>

\* A run opens its job, also one that ended: a second request is served like the first.
Begin ==
    /\ alive /\ run = "taken"
    /\ run' = "open"
    /\ outcome' = [outcome EXCEPT ![target[serving]] = "open"]
    /\ UNCHANGED <<alive, target, waiting, serving, over, rows, told>>

\* Rows are added to its job only, and none is taken away.
Save ==
    /\ alive /\ run = "open"
    /\ rows[target[serving]] \subseteq rows'[target[serving]]
    /\ rows' = [rows EXCEPT ![target[serving]] = rows'[target[serving]]]
    /\ UNCHANGED <<alive, target, waiting, serving, run, over, outcome, told>>

Settle(o) ==
    /\ alive /\ run = "open"
    /\ run' = "closed"
    /\ outcome' = [outcome EXCEPT ![target[serving]] = o]
    /\ UNCHANGED <<alive, target, waiting, serving, over, rows, told>>

\* The outcome cannot be recorded.
GiveUp ==
    /\ alive /\ run = "open"
    /\ run' = "closed"
    /\ UNCHANGED <<alive, target, waiting, serving, over, records>>

Tell ==
    /\ alive /\ run = "closed" /\ outcome[target[serving]] \in {"Completed", "Failed"}
    /\ told' = [told EXCEPT ![target[serving]] =
                   IF outcome[target[serving]] = "Completed" THEN "success" ELSE "failure"]
    /\ UNCHANGED <<alive, target, waiting, serving, run, over, outcome, rows>>

End ==
    /\ alive /\ run \in {"taken", "closed"}
    /\ over' = over \cup {serving} /\ serving' = NoRequest /\ run' = "none"
    /\ UNCHANGED <<alive, target, waiting, records>>

\* The process ends, and nothing more is done for anything that was submitted.
Lose ==
    /\ alive /\ alive' = FALSE
    /\ waiting' = <<>> /\ serving' = NoRequest /\ run' = "none"
    /\ over' = {r \in Requests : target[r] # NoJob}
    /\ UNCHANGED <<target, records>>

\* It is there again, and what was open is failed.
Recover ==
    /\ ~ alive /\ alive' = TRUE
    /\ outcome' = [j \in Jobs |-> IF outcome[j] = "open" THEN "Failed" ELSE outcome[j]]
    /\ rows' = [j \in Jobs |-> IF outcome[j] = "open" THEN rows[j] \cup {Note} ELSE rows[j]]
    /\ UNCHANGED <<target, waiting, serving, run, over, told>>

Next ==
    \/ \E j \in Jobs : Open(j)
    \/ \E r \in Requests, j \in Jobs : Submit(r, j)
    \/ \E r \in Requests : Accept(r) \/ Withdraw(r)
    \/ Serve \/ Begin \/ Save
    \/ \E o \in {"Completed", "Failed", "Canceled"} : Settle(o)
    \/ GiveUp \/ Tell \/ End
    \/ Lose \/ Recover

Spec == Init /\ [][Next]_service
=============================================================================
