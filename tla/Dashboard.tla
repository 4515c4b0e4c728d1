------------------------------ MODULE Dashboard ------------------------------
(***************************************************************************)
(* The web dashboard (Home.razor), the SignalR hub it listens to and the   *)
(* watchdog that cancels the jobs nobody listens to any more, composed     *)
(* with JobLifecycle: every call a page makes is one of its actions.       *)
(*                                                                         *)
(* A page is a Blazor circuit. Reloading a tab starts another circuit; the *)
(* one it replaces finishes what it awaits and is disposed of some time    *)
(* later, and only then does its connection to the hub end. The hub's      *)
(* clock is kept as the age of a disconnect, in ticks.                     *)
(***************************************************************************)
EXTENDS JobLifecycle

CONSTANTS
    Circuits,       \* pages of one browser tab, one shown at a time
    Connections,    \* hub connections, each with an id of its own
    NoConnection,   \* a page whose StartAsync failed, or that has none yet
    Grace,          \* ticks a disconnect may be old (five minutes)
    Trouble         \* which network troubles may happen

\* The hub cannot be reached, a connection breaks, an answer gets lost.
AllTrouble == {"noHub", "linkLost", "answerLost"}

ASSUME DashboardAssumption ==
    /\ NoConnection \notin Connections
    /\ Grace \in Nat
    /\ Trouble \subseteq AllTrouble

VARIABLES
    (* A page. *)
    life,             \* whether the circuit is shown, left or disposed of
    viewing,          \* the job of _activeSession, or of _tempSessionId
    shown,            \* job.Status as the page has it; "none" before configure
    loading,          \* _isLoading
    call,             \* where its ExecuteJobAsync is
    jobId,            \* the job ExecuteJobAsync was called for
    sent,             \* the request its POST became
    canceling,        \* the job whose DELETE it awaits the answer of
    conn,             \* _hubConnection
    (* The hub. *)
    link,             \* the state of each connection
    group,            \* the SignalR groups of each connection
    connectionToJob,  \* TranslationProgressHub.ConnectionToJob
    tracked,          \* JobDisconnects: no entry, null ("connected") or a time ("left")
    age,              \* how long ago that time is
    (* The watchdog. *)
    abandoned,        \* abandonedJobs, what is left of the list
    (* Kept for the properties only. *)
    joinAge           \* ticks since somebody joined the job's group

execution == <<call, jobId, sent>>
page == <<life, viewing, shown, loading, execution, canceling, conn>>
clock == <<tracked, age>>
hub == <<link, group, connectionToJob, tracked, age>>
dashboard == <<page, hub, abandoned, joinAge>>
allVars == <<vars, dashboard>>

Ages == 0..(Grace + 1)

\* One tick later; ages past the grace period are all alike.
Older(a) == IF a > Grace THEN a ELSE a + 1

DashboardTypeOK ==
    /\ life \in [Circuits -> {"unused", "shown", "left", "disposed"}]
    /\ viewing \in [Circuits -> SessionJobs \cup {NoJob}]
    /\ shown \in [Circuits -> Statuses \cup {"none"}]
    /\ loading \in [Circuits -> BOOLEAN]
    /\ call \in [Circuits -> {"none", "joining", "posting", "waiting"}]
    /\ jobId \in [Circuits -> SessionJobs \cup {NoJob}]
    /\ sent \in [Circuits -> Requests \cup {NoRequest}]
    /\ canceling \in [Circuits -> SessionJobs \cup {NoJob}]
    /\ conn \in [Circuits -> Connections \cup {NoConnection}]
    /\ link \in [Connections -> {"unused", "open", "lost", "closed"}]
    /\ group \in [Connections -> SUBSET SessionJobs]
    /\ connectionToJob \in [Connections -> SessionJobs \cup {NoJob}]
    /\ tracked \in [SessionJobs -> {"absent", "connected", "left"}]
    /\ age \in [SessionJobs -> Ages]
    /\ abandoned \subseteq SessionJobs
    /\ joinAge \in [SessionJobs -> Ages]

DashboardInit ==
    /\ Init
    /\ life = [p \in Circuits |-> "unused"]
    /\ viewing = [p \in Circuits |-> NoJob]
    /\ shown = [p \in Circuits |-> "none"]
    /\ loading = [p \in Circuits |-> FALSE]
    /\ call = [p \in Circuits |-> "none"]
    /\ jobId = [p \in Circuits |-> NoJob]
    /\ sent = [p \in Circuits |-> NoRequest]
    /\ canceling = [p \in Circuits |-> NoJob]
    /\ conn = [p \in Circuits |-> NoConnection]
    /\ link = [c \in Connections |-> "unused"]
    /\ group = [c \in Connections |-> {}]
    /\ connectionToJob = [c \in Connections |-> NoJob]
    /\ tracked = [j \in SessionJobs |-> "absent"]
    /\ age = [j \in SessionJobs |-> 0]
    /\ abandoned = {}
    /\ joinAge = [j \in SessionJobs |-> Grace + 1]

Linked(p) == conn[p] # NoConnection /\ link[conn[p]] = "open"
Listens(p, j) == Linked(p) /\ j \in group[conn[p]]

-----------------------------------------------------------------------------
(* A tab is opened, reloaded and closed. *)

\* StartAsync: a connection with a fresh id, or none; a first attempt that
\* fails is not repeated.
StartConnection(p) ==
    \/ /\ up = "up"
       /\ \E c \in Connections :
              /\ link[c] = "unused"
              /\ link' = [link EXCEPT ![c] = "open"]
              /\ conn' = [conn EXCEPT ![p] = c]
    \/ /\ up # "up" \/ "noHub" \in Trouble
       /\ UNCHANGED <<link, conn>>

OpenTab(p) ==
    /\ life[p] = "unused"
    /\ \A q \in Circuits : life[q] # "shown"
    /\ life' = [life EXCEPT ![p] = "shown"]
    /\ StartConnection(p)
    /\ UNCHANGED <<viewing, shown, loading, execution, canceling, group, connectionToJob, clock,
                   abandoned, joinAge>>
    /\ UNCHANGED vars

\* The next circuit restores the session kept in sessionStorage, as the ledger
\* has it, if the API answers; it listens to nothing yet.
Reload(p, q) ==
    /\ life[p] = "shown" /\ life[q] = "unused"
    /\ life' = [life EXCEPT ![p] = "left", ![q] = "shown"]
    /\ IF shown[p] # "none" /\ up = "up"
       THEN /\ viewing' = [viewing EXCEPT ![q] = viewing[p]]
            /\ shown' = [shown EXCEPT ![q] = status[viewing[p]]]
       ELSE UNCHANGED <<viewing, shown>>
    /\ StartConnection(q)
    /\ UNCHANGED <<loading, execution, canceling, group, connectionToJob, clock, abandoned, joinAge>>
    /\ UNCHANGED vars

CloseTab(p) ==
    /\ life[p] = "shown"
    /\ life' = [life EXCEPT ![p] = "left"]
    /\ UNCHANGED <<viewing, shown, loading, execution, canceling, conn, hub, abandoned, joinAge>>
    /\ UNCHANGED vars

\* DisposeAsync of a circuit nobody looks at. Only a call it still awaits goes on.
DisposeCircuit(p) ==
    /\ life[p] = "left"
    /\ life' = [life EXCEPT ![p] = "disposed"]
    /\ link' = [c \in Connections |-> IF c = conn[p] /\ link[c] = "open" THEN "lost"
                                                                        ELSE link[c]]
    /\ viewing' = [viewing EXCEPT ![p] = NoJob]
    /\ shown' = [shown EXCEPT ![p] = "none"]
    /\ loading' = [loading EXCEPT ![p] = FALSE]
    /\ canceling' = [canceling EXCEPT ![p] = NoJob]
    /\ conn' = [conn EXCEPT ![p] = NoConnection]
    /\ UNCHANGED <<execution, group, connectionToJob, clock, abandoned, joinAge>>
    /\ UNCHANGED vars

-----------------------------------------------------------------------------
(* What a page does. *)

\* HandleFileSelected. The session it replaces, if any, was not configured.
UploadFile(p, j) ==
    /\ life[p] = "shown" /\ shown[p] = "none"
    /\ Upload(j)
    /\ viewing' = [viewing EXCEPT ![p] = j]
    /\ UNCHANGED <<life, shown, loading, execution, canceling, conn, hub, abandoned, joinAge>>

\* ConfigureSessionAsync: the page takes the job as the API returns it.
ConfigureSession(p, s) ==
    /\ life[p] = "shown" /\ shown[p] = "none"
    /\ viewing[p] # NoJob
    /\ Configure(viewing[p], s)
    /\ shown' = [shown EXCEPT ![p] = status[viewing[p]]]
    /\ UNCHANGED <<life, viewing, loading, execution, canceling, conn, hub, abandoned,
                   joinAge>>

\* ExecuteJobAsync up to its first await. Without a connection it joins nothing.
ClickTranslate(p) ==
    /\ life[p] = "shown"
    /\ shown[p] = "Pending" /\ ~loading[p] /\ call[p] = "none"
    /\ shown' = [shown EXCEPT ![p] = "Running"]
    /\ loading' = [loading EXCEPT ![p] = TRUE]
    /\ call' = [call EXCEPT ![p] = IF Linked(p) THEN "joining" ELSE "posting"]
    /\ jobId' = [jobId EXCEPT ![p] = viewing[p]]
    /\ UNCHANGED <<life, viewing, sent, canceling, conn, hub, abandoned, joinAge>>
    /\ UNCHANGED vars

\* ExecuteJobAsync is over.
CallEnds(p) ==
    /\ call' = [call EXCEPT ![p] = "none"]
    /\ jobId' = [jobId EXCEPT ![p] = NoJob]
    /\ sent' = [sent EXCEPT ![p] = NoRequest]

\* Its catch clause: the error is shown, the status stays as it is.
ExecuteFails(p) ==
    /\ CallEnds(p)
    /\ loading' = [loading EXCEPT ![p] = FALSE]
    /\ UNCHANGED <<life, viewing, shown, canceling, conn>>

Active(p) == shown[p] # "none" /\ viewing[p] = jobId[p]

\* Faulty variant of Join: the time of an earlier disconnect stays.
JoinKeepsTimestamp(p) ==
    /\ call[p] = "joining" /\ Linked(p)
    /\ group' = [group EXCEPT ![conn[p]] = @ \cup {jobId[p]}]
    /\ connectionToJob' = [connectionToJob EXCEPT ![conn[p]] = jobId[p]]
    /\ joinAge' = [joinAge EXCEPT ![jobId[p]] = 0]
    /\ IF Active(p)
       THEN /\ call' = [call EXCEPT ![p] = "posting"]
            /\ UNCHANGED <<life, viewing, shown, loading, jobId, sent, canceling, conn>>
       ELSE ExecuteFails(p)
    /\ UNCHANGED <<link, clock, abandoned>>
    /\ UNCHANGED vars

\* JoinJobGroup. The POST that follows needs the session to be still there.
Join(p) ==
    /\ call[p] = "joining" /\ Linked(p)
    /\ group' = [group EXCEPT ![conn[p]] = @ \cup {jobId[p]}]
    /\ connectionToJob' = [connectionToJob EXCEPT ![conn[p]] = jobId[p]]
    /\ tracked' = [tracked EXCEPT ![jobId[p]] = "connected"]
    /\ age' = [age EXCEPT ![jobId[p]] = 0]
    /\ joinAge' = [joinAge EXCEPT ![jobId[p]] = 0]
    /\ IF Active(p)
       THEN /\ call' = [call EXCEPT ![p] = "posting"]
            /\ UNCHANGED <<life, viewing, shown, loading, jobId, sent, canceling, conn>>
       ELSE ExecuteFails(p)
    /\ UNCHANGED <<link, abandoned>>
    /\ UNCHANGED vars

JoinFails(p) ==
    /\ call[p] = "joining" /\ ~Linked(p)
    /\ ExecuteFails(p)
    /\ UNCHANGED <<hub, abandoned, joinAge>>
    /\ UNCHANGED vars

\* The POST is accepted and becomes the request r ...
PostAccepted(p, r) ==
    /\ call[p] = "posting"
    /\ ExecuteCheck(r, jobId[p])
    /\ sent' = [sent EXCEPT ![p] = r]
    /\ call' = [call EXCEPT ![p] = "waiting"]
    /\ UNCHANGED <<life, viewing, shown, loading, jobId, canceling, conn, hub, abandoned,
                   joinAge>>

\* ... or it is refused, or nobody answers.
PostRefused(p) ==
    /\ call[p] = "posting"
    /\ up # "up" \/ ~Executable(jobId[p])
    /\ ExecuteFails(p)
    /\ UNCHANGED <<hub, abandoned, joinAge>>
    /\ UNCHANGED vars

\* Faulty variant of PostAnswered: the page starts to wait when the POST is answered.
PostAnsweredWaits(p) ==
    /\ call[p] = "waiting"
    /\ stage[sent[p]] \notin {"checked", "writing", "aborted"}
    /\ CallEnds(p)
    /\ loading' = [loading EXCEPT ![p] = TRUE]
    /\ UNCHANGED <<life, viewing, shown, canceling, conn, hub, abandoned, joinAge>>
    /\ UNCHANGED vars

\* The answer of an accepted POST arrives.
PostAnswered(p) ==
    /\ call[p] = "waiting"
    /\ stage[sent[p]] \notin {"checked", "writing", "aborted"}
    /\ CallEnds(p)
    /\ UNCHANGED <<life, viewing, shown, loading, canceling, conn, hub, abandoned, joinAge>>
    /\ UNCHANGED vars

\* It does not, and the retry policy of the HttpClient posts again.
PostAgain(p) ==
    /\ call[p] = "waiting"
    /\ "answerLost" \in Trouble \/ stage[sent[p]] = "aborted"
    /\ call' = [call EXCEPT ![p] = "posting"]
    /\ sent' = [sent EXCEPT ![p] = NoRequest]
    /\ UNCHANGED <<life, viewing, shown, loading, jobId, canceling, conn, hub, abandoned,
                   joinAge>>
    /\ UNCHANGED vars

\* CancelJobAsync: the DELETE finds something to cancel ...
ClickCancel(p) ==
    /\ life[p] = "shown" /\ shown[p] = "Running"
    /\ canceling[p] = NoJob
    /\ Cancel(viewing[p])
    /\ canceling' = [canceling EXCEPT ![p] = viewing[p]]
    /\ UNCHANGED <<life, viewing, shown, loading, execution, conn, hub, abandoned, joinAge>>

\* ... and its answer comes back, whatever the page was told meanwhile. If it is
\* lost, the retried DELETE finds nothing and the page shows an error.
CancelAnswered(p) ==
    /\ canceling[p] # NoJob
    /\ canceling' = [canceling EXCEPT ![p] = NoJob]
    /\ \/ /\ shown' = [shown EXCEPT ![p] =
                  IF @ # "none" /\ viewing[p] = canceling[p] THEN "Canceled" ELSE @]
          /\ loading' = [loading EXCEPT ![p] = FALSE]
       \/ "answerLost" \in Trouble /\ UNCHANGED <<shown, loading>>
    /\ UNCHANGED <<life, viewing, execution, conn, hub, abandoned, joinAge>>
    /\ UNCHANGED vars

\* FinishSessionAsync: the page forgets the session whatever the API answers.
ClickFinish(p) ==
    /\ life[p] = "shown"
    /\ shown[p] \notin {"none", "Pending", "Running"}
    /\ FinishCheck(viewing[p]) \/ UNCHANGED vars
    /\ viewing' = [viewing EXCEPT ![p] = NoJob]
    /\ shown' = [shown EXCEPT ![p] = "none"]
    /\ UNCHANGED <<life, loading, execution, canceling, conn, hub, abandoned, joinAge>>

ShownAfter(p, event) ==
    IF event = "success" /\ Listens(p, job) /\ viewing[p] = job /\ shown[p] # "none"
    THEN "Completed" ELSE shown[p]

\* Faulty variant of AnnounceToGroup: only a success ends the waiting.
AnnounceOnlySuccess ==
    /\ Announce
    /\ loading' = [p \in Circuits |->
           loading[p] /\ ~(Listens(p, job) /\ announced'[job] = "success")]
    /\ shown' = [p \in Circuits |-> ShownAfter(p, announced'[job])]
    /\ UNCHANGED <<life, viewing, execution, canceling, conn, hub, abandoned, joinAge>>

\* The worker's TranslationCompleted reaches the pages in the job's group. A
\* failure is told as an error and leaves the status.
AnnounceToGroup ==
    /\ Announce
    /\ loading' = [p \in Circuits |-> loading[p] /\ ~Listens(p, job)]
    /\ shown' = [p \in Circuits |-> ShownAfter(p, announced'[job])]
    /\ UNCHANGED <<life, viewing, execution, canceling, conn, hub, abandoned, joinAge>>

-----------------------------------------------------------------------------
(* The hub and the watchdog. *)

\* A connection breaks; its client notices, the hub does not yet.
LoseLink(c) ==
    /\ "linkLost" \in Trouble
    /\ link[c] = "open"
    /\ link' = [link EXCEPT ![c] = "lost"]
    /\ UNCHANGED <<page, group, connectionToJob, clock, abandoned, joinAge>>
    /\ UNCHANGED vars

\* WithAutomaticReconnect: a new id, which joins no group.
Reconnect(p) ==
    /\ up = "up"
    /\ life[p] \in {"shown", "left"}
    /\ conn[p] # NoConnection /\ ~Linked(p)
    /\ \E c \in Connections :
           /\ link[c] = "unused"
           /\ link' = [link EXCEPT ![c] = "open"]
           /\ conn' = [conn EXCEPT ![p] = c]
    /\ UNCHANGED <<life, viewing, shown, loading, execution, canceling, group, connectionToJob,
                   clock, abandoned, joinAge>>
    /\ UNCHANGED vars

\* Faulty variant of OnDisconnected: the time is not recorded.
OnDisconnectedUntimed(c) ==
    /\ up # "down"
    /\ link[c] = "lost"
    /\ link' = [link EXCEPT ![c] = "closed"]
    /\ group' = [group EXCEPT ![c] = {}]
    /\ connectionToJob' = [connectionToJob EXCEPT ![c] = NoJob]
    /\ UNCHANGED <<page, clock, abandoned, joinAge>>
    /\ UNCHANGED vars

\* OnDisconnectedAsync.
OnDisconnected(c) ==
    /\ up # "down"
    /\ link[c] = "lost"
    /\ link' = [link EXCEPT ![c] = "closed"]
    /\ group' = [group EXCEPT ![c] = {}]
    /\ connectionToJob' = [connectionToJob EXCEPT ![c] = NoJob]
    /\ tracked' = [j \in SessionJobs |->
           IF connectionToJob[c] = j THEN "left" ELSE tracked[j]]
    /\ age' = [j \in SessionJobs |-> IF connectionToJob[c] = j THEN 0 ELSE age[j]]
    /\ UNCHANGED <<page, abandoned, joinAge>>
    /\ UNCHANGED vars

Tick ==
    /\ age' = [j \in SessionJobs |-> IF tracked[j] = "left" THEN Older(age[j]) ELSE age[j]]
    /\ joinAge' = [j \in SessionJobs |-> Older(joinAge[j])]
    /\ UNCHANGED <<page, link, group, connectionToJob, tracked, abandoned>>
    /\ UNCHANGED vars

Overdue(j) == tracked[j] = "left" /\ age[j] > Grace

\* The watchdog lists the jobs whose disconnect is old enough ...
Scan ==
    /\ up = "up"
    /\ abandoned = {}
    /\ abandoned' = {j \in SessionJobs : Overdue(j)}
    /\ UNCHANGED <<page, hub, joinAge>>
    /\ UNCHANGED vars

\* Faulty variant of Sweep: the source is disposed of, and its entry stays.
SweepDisposes(j) ==
    /\ up = "up"
    /\ j \in abandoned
    /\ IF tokens[j] # NoRequest
       THEN /\ cts' = [cts EXCEPT ![tokens[j]] = "disposed"]
            /\ UNCHANGED <<ledger, file, process, handlers, tokens, stage, requests, queue,
                           worker, history>>
       ELSE UNCHANGED vars
    /\ tracked' = [tracked EXCEPT ![j] = "absent"]
    /\ age' = [age EXCEPT ![j] = 0]
    /\ abandoned' = abandoned \ {j}
    /\ UNCHANGED <<page, link, group, connectionToJob, joinAge>>

\* ... and, one after the other, cancels and forgets them as they are now.
Sweep(j) ==
    /\ up = "up"
    /\ j \in abandoned
    /\ IF tokens[j] # NoRequest THEN WatchdogCancel(j) ELSE UNCHANGED vars
    /\ tracked' = [tracked EXCEPT ![j] = "absent"]
    /\ age' = [age EXCEPT ![j] = 0]
    /\ abandoned' = abandoned \ {j}
    /\ UNCHANGED <<page, link, group, connectionToJob, joinAge>>

\* The process ends: the hub's tables and the watchdog's list are gone.
HubEnds ==
    /\ ProcessEnds
    /\ link' = [c \in Connections |-> IF link[c] = "unused" THEN "unused" ELSE "closed"]
    /\ group' = [c \in Connections |-> {}]
    /\ connectionToJob' = [c \in Connections |-> NoJob]
    /\ tracked' = [j \in SessionJobs |-> "absent"]
    /\ age' = [j \in SessionJobs |-> 0]
    /\ abandoned' = {}
    /\ UNCHANGED <<page, joinAge>>

-----------------------------------------------------------------------------

\* What the rest of the API does without the pages, the hub or the watchdog.
Background ==
    \/ Dequeue \/ StartRun \/ StartRunThrows \/ OpenWorkbook \/ OpenThrows \/ RunPhase
    \/ WriteCompleted \/ WriteCanceled \/ WriteFailed \/ StatusWriteThrows
    \/ AnnounceThrows \/ ReleaseToken \/ DeleteUpload
    \/ \E r \in Requests : HandlerStep(r)
    \/ \E j \in SessionJobs : UploadRecord(j) \/ UploadRecordFails(j) \/ FinishDelete(j)
    \/ \E j \in Jobs : UploadSweep(j)
    \/ Shutdown \/ Restart

Tab ==
    \/ \E p \in Circuits : OpenTab(p) \/ CloseTab(p) \/ DisposeCircuit(p)
    \/ \E p, q \in Circuits : Reload(p, q)

PageStep(p) ==
    \/ \E j \in SessionJobs : UploadFile(p, j)
    \/ \E s \in Sheets : ConfigureSession(p, s)
    \/ ClickTranslate(p) \/ Join(p) \/ JoinFails(p)
    \/ \E r \in Requests : PostAccepted(p, r)
    \/ PostRefused(p) \/ PostAnswered(p) \/ PostAgain(p)
    \/ ClickCancel(p) \/ CancelAnswered(p) \/ ClickFinish(p) \/ Reconnect(p)

HubStep == \E c \in Connections : LoseLink(c) \/ OnDisconnected(c)
Watchdog == Tick \/ Scan \/ \E j \in SessionJobs : Sweep(j)

DashboardNext ==
    \/ Background /\ UNCHANGED dashboard
    \/ AnnounceToGroup
    \/ Tab
    \/ \E p \in Circuits : PageStep(p)
    \/ HubStep
    \/ Watchdog
    \/ HubEnds

DashboardSpec == DashboardInit /\ [][DashboardNext]_allVars

-----------------------------------------------------------------------------
(* Safety. *)

\* A page that joined the job's group and waits will hear of it: its job has a
\* run that still has its end to announce, or one that ends in silence because
\* it was cancelled, cut off, or could not be recorded. It rests on joining the
\* group before the POST, and on every announced end stopping the wait.
WillAnnounce(r) ==
    \/ stage[r] \in {"checked", "writing", "queued"}
    \/ stage[r] = "running" /\ pc \notin {"cancel", "release", "delete"}
EndsSilently(r) ==
    \/ cts[r] = "cancelled" \/ stage[r] \in {"dropped", "aborted", "lost"}
    \/ jobOf[r] \in unsettled
Accounted(j) == \E r \in Requests : jobOf[r] = j /\ (WillAnnounce(r) \/ EndsSilently(r))
WaitingPageHears ==
    \A p \in Circuits :
        /\ up = "up" /\ loading[p] /\ call[p] = "none"
        /\ Listens(p, viewing[p])
        => Accounted(viewing[p])

\* The watchdog never lists a job whose group somebody joined within the grace
\* period, whatever connections came and went before: an execute resets the
\* clock of an earlier disconnect of the same job.
RecentJoinIsSafe ==
    [][\A j \in abandoned' \ abandoned : joinAge[j] > Grace]_allVars

\* Whatever pages, hub and watchdog do, the API only does what JobLifecycle
\* lets it do, so the invariants of JobLifecycle hold in this system too.
ImplementsJobLifecycle == Spec

-----------------------------------------------------------------------------
(* The inductive invariant behind the safety properties (DashboardProofs). *)

\* A page that shows a status has a job, a call is for a job, and a POST that
\* waits for its answer became a request.
PageInv ==
    \A p \in Circuits :
        /\ shown[p] # "none" => viewing[p] \in SessionJobs
        /\ call[p] # "none" => jobId[p] \in SessionJobs
        /\ call[p] = "waiting" => sent[p] \in Requests

\* A disconnect the watchdog counts from is not older than the last join.
ClockInv == \A j \in SessionJobs : tracked[j] = "left" => age[j] <= joinAge[j]

\* A page that waits shows its job as Running, and its call is for that job.
WaitInv ==
    \A p \in Circuits : loading[p] =>
        /\ life[p] \in {"shown", "left"}
        /\ shown[p] = "Running"
        /\ call[p] # "none" => jobId[p] = viewing[p]

\* A connection belongs to one page, is in no group before it is opened, and
\* does not outlive the process.
ConnectionInv ==
    /\ \A c \in Connections : link[c] = "unused" => group[c] = {}
    /\ up = "down" => \A c \in Connections : link[c] # "open"
    /\ \A p \in Circuits : conn[p] # NoConnection =>
           /\ link[conn[p]] # "unused"
           /\ \A q \in Circuits : conn[q] = conn[p] => q = p

\* WaitingPageHears, from the moment the POST is accepted on.
Hears(p) == loading[p] /\ call[p] \in {"waiting", "none"} /\ Listens(p, viewing[p])
HearInv == up = "up" => \A p \in Circuits : Hears(p) => Accounted(viewing[p])

-----------------------------------------------------------------------------
(* Liveness. *)

\* The hub notices a broken connection, the watchdog's loop goes on, time
\* passes and a stopping host ends. Nothing is asked of the worker: a run may
\* hang for good.
HostEnds == up = "stopping" /\ HubEnds
DashboardFairSpec ==
    /\ DashboardSpec
    /\ \A c \in Connections : WF_allVars(OnDisconnected(c))
    /\ WF_allVars(Tick) /\ WF_allVars(Scan)
    /\ \A j \in SessionJobs : WF_allVars(Sweep(j))
    /\ WF_allVars(HostEnds)

\* A run whose listener is lost does not go on for ever: it ends or is cancelled,
\* unless another connection has joined the job's group.
AbandonedIsCancelled ==
    \A c \in Connections, j \in SessionJobs, r \in Requests :
        link[c] = "lost" /\ connectionToJob[c] = j /\ tokens[j] = r
            ~> \/ cts[r] = "cancelled" \/ tokens[j] # r
               \/ \E d \in Connections : link[d] = "open" /\ connectionToJob[d] = j

-----------------------------------------------------------------------------
(* What the repository's documents say and the code does not do. *)

\* "If they do not reconnect, the Watchdog injects a CancellationToken": it
\* never cancels the run of a job whose page is connected to the hub.
ReconnectedIsSpared ==
    [][\A j \in abandoned \ abandoned' : up' = "up" /\ tokens[j] # NoRequest =>
           \A p \in Circuits : life[p] = "shown" /\ viewing[p] = j => ~Linked(p)]_allVars

=============================================================================
