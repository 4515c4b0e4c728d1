---------------------------- MODULE Orchestrator ----------------------------
(***************************************************************************)
(* ReconciliationOrchestrator.ProcessBlockAsync and what it drives: one    *)
(* task per partition of a worksheet, at most Slots of them past the       *)
(* semaphore, each asking the language model up to MaxAttempts times and   *)
(* verifying every answer row by row with RoslynReconciliationEngine; and  *)
(* the asynchronous stream its caller, the background worker, reads.       *)
(*                                                                         *)
(* What a row computes is abstracted to whether an answer fits it; the     *)
(* numbers a row is verified against are not modelled here.                *)
(***************************************************************************)
EXTENDS Naturals, Sequences, FiniteSets

CONSTANTS
    PartitionCount,  \* block.Partitions.Count
    CleanRows,       \* rows of each partition without disruptive nodes
    Columnless,      \* partitions without any structural column
    Answers,         \* the classes the language model may answer with
    NoAnswer,        \* lastOutput is null, or a result that carries no code
    Uncompilable,    \* answers the safety scan or the compiler refuses
    Overrunning,     \* answers that may take more than five seconds
    Fits,            \* <<p, a, i>>: answer a computes clean row i of partition p
    Throws,          \* <<p, a, i>>: on that row it throws, or cannot even be run
    Slots,           \* initial count of the semaphore (3 in the code)
    MaxAttempts      \* attempts for each partition (3 in the code)

Partitions == 1..PartitionCount

ASSUME WorksheetAssumption ==
    /\ PartitionCount \in Nat
    /\ CleanRows \in [Partitions -> Nat]
    /\ Columnless \subseteq Partitions
ASSUME AnswersAssumption ==
    /\ NoAnswer \notin Answers
    /\ Fits \cap Throws = {}
ASSUME LimitsAssumption ==
    /\ Slots \in Nat \ {0}
    /\ MaxAttempts \in Nat \ {0}

VARIABLES
    stream,     \* the enumerator: where its consumer is
    pending,    \* the list tasks: partitions not awaited yet
    emitted,    \* the partitions in the order their outputs were yielded
    cancelled,  \* cancellationToken
    free,       \* the semaphore
    task,       \* where the task of each partition is
    attempt,    \* its attempt
    row,        \* the clean row it is verifying
    output      \* lastOutput; once the task is settled, its result

consumer == <<stream, pending, emitted>>
progress == <<attempt, row>>
vars == <<stream, pending, emitted, cancelled, free, task, attempt, row, output>>

\* "consuming": the caller holds an output; "abandoned": it threw while it did.
Running == {"waiting", "consuming"}
Ended == {"finished", "threw", "abandoned"}
Settled == {"settled", "faulted"}
Outputs == [code : Answers \cup {NoAnswer}, certified : BOOLEAN]
NoOutput == [code |-> NoAnswer, certified |-> FALSE]

TypeOK ==
    /\ stream \in {"idle"} \cup Running \cup Ended
    /\ pending \subseteq Partitions
    /\ emitted \in Seq(Partitions)
    /\ cancelled \in BOOLEAN
    /\ free \in 0..Slots
    /\ task \in [Partitions -> {"none", "queued", "asking", "verifying"} \cup Settled]
    /\ attempt \in [Partitions -> 1..MaxAttempts]
    /\ row \in [Partitions -> Nat]
    /\ output \in [Partitions -> Outputs]

Init ==
    /\ stream = "idle"
    /\ pending = {}
    /\ emitted = <<>>
    /\ cancelled = FALSE
    /\ free = Slots
    /\ task = [p \in Partitions |-> "none"]
    /\ attempt = [p \in Partitions |-> 1]
    /\ row = [p \in Partitions |-> 1]
    /\ output = [p \in Partitions |-> NoOutput]

-----------------------------------------------------------------------------
(* The stream. *)

\* The first MoveNextAsync.
Begin ==
    /\ stream = "idle"
    /\ IF PartitionCount > 0 /\ ~cancelled
       THEN /\ stream' = "waiting"
            /\ pending' = Partitions
            /\ task' = [p \in Partitions |-> "queued"]
       ELSE /\ stream' = IF PartitionCount = 0 THEN "finished" ELSE "threw"
            /\ UNCHANGED <<pending, task>>
    /\ UNCHANGED <<emitted, cancelled, free, progress, output>>

\* Faulty variant of Yield: the finished task stays in the list.
YieldKeepsTask(p) ==
    /\ stream = "waiting"
    /\ p \in pending /\ task[p] = "settled"
    /\ stream' = "consuming"
    /\ emitted' = Append(emitted, p)
    /\ UNCHANGED <<pending, cancelled, free, task, progress, output>>

\* Task.WhenAny hands over a task that ran to its end ...
Yield(p) ==
    /\ stream = "waiting"
    /\ p \in pending /\ task[p] = "settled"
    /\ stream' = "consuming"
    /\ pending' = pending \ {p}
    /\ emitted' = Append(emitted, p)
    /\ UNCHANGED <<cancelled, free, task, progress, output>>

\* ... or one that threw: awaiting it throws out of the stream, and the other
\* tasks run on with nobody waiting for them.
Rethrow(p) ==
    /\ stream = "waiting"
    /\ p \in pending /\ task[p] = "faulted"
    /\ stream' = "threw"
    /\ pending' = pending \ {p}
    /\ UNCHANGED <<emitted, cancelled, free, task, progress, output>>

\* The caller saved the output and asks for the next one.
Resume ==
    /\ stream = "consuming"
    /\ stream' = IF pending = {} THEN "finished" ELSE "waiting"
    /\ UNCHANGED <<pending, emitted, cancelled, free, task, progress, output>>

\* The caller could not save it.
Abandon ==
    /\ stream = "consuming"
    /\ stream' = "abandoned"
    /\ UNCHANGED <<pending, emitted, cancelled, free, task, progress, output>>

\* The user, the watchdog or the host.
Cancel ==
    /\ ~cancelled
    /\ cancelled' = TRUE
    /\ UNCHANGED <<consumer, free, task, progress, output>>

-----------------------------------------------------------------------------
(* The task of a partition. *)

\* The return or the exception leaves through the finally block.
Leave(p, how) ==
    /\ task' = [task EXCEPT ![p] = how]
    /\ free' = free + 1

\* The semaphore lets its waiters in in the order they came. A partition
\* without clean rows has its uncertified result at once.
Acquire(p) ==
    /\ task[p] = "queued" /\ ~cancelled
    /\ \A q \in Partitions : task[q] = "queued" => p <= q
    /\ free > 0
    /\ IF p \notin Columnless /\ CleanRows[p] > 0
       THEN task' = [task EXCEPT ![p] = "asking"] /\ free' = free - 1
       ELSE /\ task' = [task EXCEPT ![p] = IF p \in Columnless THEN "faulted" ELSE "settled"]
            /\ UNCHANGED free
    /\ UNCHANGED <<consumer, cancelled, progress, output>>

\* Faulty variant of WaitCancelled: WaitAsync inside the try block.
WaitCancelledReleases(p) ==
    /\ task[p] = "queued" /\ cancelled
    /\ Leave(p, "faulted")
    /\ UNCHANGED <<consumer, cancelled, progress, output>>

\* WaitAsync, or the check right after it, sees the cancellation.
WaitCancelled(p) ==
    /\ task[p] = "queued" /\ cancelled
    /\ task' = [task EXCEPT ![p] = "faulted"]
    /\ UNCHANGED <<consumer, cancelled, free, progress, output>>

\* The model answers; the output is stamped as certified before its rows are
\* verified. The first row starts with a look at the token.
Answer(p, a) ==
    /\ task[p] = "asking"
    /\ output' = [output EXCEPT ![p] = [code |-> a, certified |-> TRUE]]
    /\ IF cancelled
       THEN Leave(p, "faulted") /\ UNCHANGED row
       ELSE /\ task' = [task EXCEPT ![p] = "verifying"]
            /\ row' = [row EXCEPT ![p] = 1]
            /\ UNCHANGED free
    /\ UNCHANGED <<consumer, cancelled, attempt>>

\* The bridge throws: an error status, an unreadable response, a cancellation.
AskFails(p) ==
    /\ task[p] = "asking"
    /\ Leave(p, "faulted")
    /\ UNCHANGED <<consumer, cancelled, progress, output>>

\* Faulty variant of GiveUp: lastOutput is returned with the stamp it carries.
GiveUpKeepsStamp(p) ==
    /\ Leave(p, "settled")
    /\ UNCHANGED <<progress, output>>

\* Faulty variant of GiveUp: a return that skips the release.
GiveUpKeepsSlot(p) ==
    /\ task' = [task EXCEPT ![p] = "settled"]
    /\ output' = [output EXCEPT ![p].certified = FALSE]
    /\ UNCHANGED <<free, progress>>

\* After the last attempt: the last output, certified no longer, or none.
GiveUp(p) ==
    /\ Leave(p, "settled")
    /\ output' = [output EXCEPT ![p].certified = FALSE]
    /\ UNCHANGED progress

\* Faulty variant of Retry: one attempt too many.
RetryOnceMore(p) ==
    IF attempt[p] > MaxAttempts
    THEN GiveUp(p)
    ELSE /\ task' = [task EXCEPT ![p] = "asking"]
         /\ attempt' = [attempt EXCEPT ![p] = @ + 1]
         /\ UNCHANGED <<free, row, output>>

\* The end of a catch clause.
Retry(p) ==
    IF attempt[p] = MaxAttempts
    THEN GiveUp(p)
    ELSE /\ task' = [task EXCEPT ![p] = "asking"]
         /\ attempt' = [attempt EXCEPT ![p] = @ + 1]
         /\ UNCHANGED <<free, row, output>>

\* OperationCanceledException when nothing was cancelled: a timeout.
AskTimesOut(p) ==
    /\ task[p] = "asking" /\ ~cancelled
    /\ Retry(p)
    /\ UNCHANGED <<consumer, cancelled>>

Compiles(p) == output[p].code \notin Uncompilable
Case(p) == <<p, output[p].code, row[p]>>

\* ActuarialDynamicCompilationException.
CompileFails(p) ==
    /\ task[p] = "verifying" /\ ~Compiles(p)
    /\ Retry(p)
    /\ UNCHANGED <<consumer, cancelled>>

\* Faulty variant of RowFits: the last row is not waited for.
RowFitsSkipsLast(p) ==
    /\ task[p] = "verifying" /\ Compiles(p)
    /\ Case(p) \in Fits
    /\ IF row[p] + 1 >= CleanRows[p]
       THEN Leave(p, "settled") /\ UNCHANGED row
       ELSE IF cancelled
       THEN Leave(p, "faulted") /\ UNCHANGED row
       ELSE row' = [row EXCEPT ![p] = @ + 1] /\ UNCHANGED <<task, free>>
    /\ UNCHANGED <<consumer, cancelled, attempt, output>>

\* The row's result is within the tolerance. After the last row the output is
\* returned as it is; the next row starts with a look at the token.
RowFits(p) ==
    /\ task[p] = "verifying" /\ Compiles(p)
    /\ Case(p) \in Fits
    /\ IF row[p] = CleanRows[p]
       THEN Leave(p, "settled") /\ UNCHANGED row
       ELSE IF cancelled
       THEN Leave(p, "faulted") /\ UNCHANGED row
       ELSE row' = [row EXCEPT ![p] = @ + 1] /\ UNCHANGED <<task, free>>
    /\ UNCHANGED <<consumer, cancelled, attempt, output>>

\* ActuarialLogicLeakException: the result is off, or its task was not awaited
\* to the end, because of the five seconds or because of the caller's token.
Leaks(p) ==
    /\ task[p] = "verifying" /\ Compiles(p)
    /\ \/ Case(p) \notin Fits \cup Throws
       \/ output[p].code \in Overrunning
       \/ cancelled
    /\ Retry(p)
    /\ UNCHANGED <<consumer, cancelled>>

\* Anything else is caught nowhere: a class that is missing or that throws, the
\* compiler seeing the cancellation.
VerifyThrows(p) ==
    /\ task[p] = "verifying"
    /\ cancelled \/ (Compiles(p) /\ Case(p) \in Throws)
    /\ Leave(p, "faulted")
    /\ UNCHANGED <<consumer, cancelled, progress, output>>

-----------------------------------------------------------------------------

TaskStep(p) ==
    \/ Acquire(p) \/ WaitCancelled(p)
    \/ (\E a \in Answers : Answer(p, a)) \/ AskFails(p) \/ AskTimesOut(p)
    \/ CompileFails(p) \/ RowFits(p) \/ Leaks(p) \/ VerifyThrows(p)

Reader ==
    \/ Begin \/ Resume \/ Abandon
    \/ \E p \in Partitions : Yield(p) \/ Rethrow(p)

Next ==
    \/ Reader
    \/ Cancel
    \/ \E p \in Partitions : TaskStep(p)

Spec == Init /\ [][Next]_vars

-----------------------------------------------------------------------------
(* Safety. *)

\* Answer a computes every clean row of partition p, of which there is at least
\* one.
Reproduces(p, a) ==
    /\ a \notin Uncompilable
    /\ CleanRows[p] > 0
    /\ \A i \in 1..CleanRows[p] : <<p, a, i>> \in Fits

FaithfulAnswers == {pa \in Partitions \X Answers : Reproduces(pa[1], pa[2])}

\* The stamp that is set before the rows are verified, and survives timeouts,
\* compile errors and retries in lastOutput, never reaches a caller on code
\* that was not verified against every clean row.
CertifiedMeansReproduced ==
    \A p \in Partitions : task[p] = "settled" /\ output[p].certified =>
        <<p, output[p].code>> \in FaithfulAnswers

Emitted == {emitted[i] : i \in 1..Len(emitted)}

\* The caller receives no output twice and, unless the stream breaks off,
\* loses none, whatever order the tasks end in.
EachOutputOnce ==
    /\ \A i, k \in 1..Len(emitted) : emitted[i] = emitted[k] => i = k
    /\ Emitted \cap pending = {}
    /\ stream \in Running \cup {"finished"} => Emitted \cup pending = Partitions
    /\ stream = "finished" => pending = {}

\* The tasks between WaitAsync and Release.
Busy == {p \in Partitions : task[p] \in {"asking", "verifying"}}

\* Every exit of a task gives back exactly the slot it took, also when the
\* stream it belongs to is over: no translation runs out of slots, and none
\* has more than Slots partitions at the language model.
SlotsConserved ==
    free + Cardinality(Busy) = Slots

\* The tasks and the stream, seen from the caller.
Verdicts ==
    [p \in Partitions |->
        IF task[p] # "settled" THEN "open"
        ELSE IF output[p].certified THEN "certified" ELSE "rejected"]
VerdictAnswers ==
    [p \in Partitions |-> IF task[p] = "settled" THEN output[p].code ELSE NoAnswer]
Outcome ==
    IF stream = "finished" THEN "complete"
    ELSE IF stream \in Ended THEN "broken" ELSE "running"

\* What ProcessBlockAsync promises its caller.
Promise == INSTANCE CertifiedTranslation WITH
    Faithful <- FaithfulAnswers,
    verdict <- Verdicts,
    answer <- VerdictAnswers,
    delivered <- Emitted,
    outcome <- Outcome

\* The orchestrator implements the promise.
KeepsPromise == Promise!Spec

\* An answer under verification has computed every row before this one.
VerifyInv ==
    \A p \in Partitions : task[p] = "verifying" =>
        /\ output[p].certified /\ output[p].code \in Answers
        /\ row[p] \in 1..CleanRows[p]
        /\ row[p] > 1 => Compiles(p)
        /\ \A i \in 1..(row[p] - 1) : <<p, output[p].code, i>> \in Fits

\* Tasks and outputs exist from the first MoveNextAsync on.
NoneBeforeBegin ==
    stream = "idle" =>
        pending = {} /\ emitted = <<>> /\ \A p \in Partitions : task[p] = "none"

\* Nothing is stamped before the language model is asked, and it is asked only
\* about a partition with clean rows.
AskInv ==
    \A p \in Partitions :
        /\ task[p] \in {"none", "queued"} => output[p] = NoOutput
        /\ task[p] = "asking" => CleanRows[p] > 0

\* What the stream handed out was settled.
EmitInv == \A p \in Emitted : task[p] = "settled"

-----------------------------------------------------------------------------
(* Cancelling "flips the server-side CancellationToken, instantly shutting     *)
(* down the background execution block", as the specification has it.          *)

\* A cancelled translation is not a failed one: no answer that reproduces its
\* partition is turned down once the token is cancelled.
CancelRejectsNothing ==
    [][\A p \in Partitions :
           /\ cancelled /\ task[p] # "settled" /\ task'[p] = "settled"
           /\ <<p, output[p].code>> \in FaithfulAnswers
           => output'[p].certified]_vars

-----------------------------------------------------------------------------
(* Liveness. *)

\* A call of the bridge ends with the HttpClient's timeout at the latest, the
\* verification of a row after five seconds, and the caller goes on reading.
\* Cancelling and failing are not asked for.
FairSpec ==
    /\ Spec
    /\ WF_vars(Reader)
    /\ \A p \in Partitions : WF_vars(TaskStep(p))

\* The reader of the stream is never left waiting for good, whatever the tasks do;
\* and every task that was started ends, in three attempts, also the ones a broken
\* stream leaves behind, so that their slots and their calls are bounded.
TranslationEnds ==
    <>[](stream \in Ended /\ \A p \in Partitions : task[p] \in {"none"} \cup Settled)

=============================================================================
