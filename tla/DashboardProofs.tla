--------------------------- MODULE DashboardProofs ---------------------------
(***************************************************************************)
(* Proofs about Dashboard, for any pages, connections and sessions, any    *)
(* grace period and any network troubles.                                  *)
(***************************************************************************)
EXTENDS Dashboard, JobLifecycleProofs

\* The steps of a page that leave the API alone.
PageOnly(p) ==
    \/ ClickTranslate(p) \/ Join(p) \/ JoinFails(p) \/ PostRefused(p) \/ PostAnswered(p)
    \/ PostAgain(p) \/ CancelAnswered(p) \/ Reconnect(p)

\* The steps of a page that are a call of the API.
ApiCall(p) ==
    \/ \E j \in SessionJobs : UploadFile(p, j)
    \/ \E s \in Sheets : ConfigureSession(p, s)
    \/ \E r \in Requests : PostAccepted(p, r)
    \/ ClickCancel(p) \/ ClickFinish(p)

LEMMA PageCases == \A p \in Circuits : PageStep(p) <=> PageOnly(p) \/ ApiCall(p)
BY DEF PageStep, PageOnly, ApiCall

-----------------------------------------------------------------------------
(* The refinement: every step is one of JobLifecycle's, or leaves it alone. *)

LEMMA ApiCallIsClientStep ==
    ASSUME DashboardTypeOK, PageInv, NEW p \in Circuits, ApiCall(p)
    PROVE  [Next]_vars
<1>1. ASSUME NEW j \in SessionJobs, UploadFile(p, j)
      PROVE  [Next]_vars
  BY <1>1 DEF UploadFile, Next, Client
<1>2. ASSUME NEW s \in Sheets, ConfigureSession(p, s)
      PROVE  [Next]_vars
  <2>1. viewing[p] \in SessionJobs
    BY <1>2 DEF ConfigureSession, DashboardTypeOK
  <2>2. QED
    BY <1>2, <2>1 DEF ConfigureSession, Next, Client
<1>3. ASSUME NEW r \in Requests, PostAccepted(p, r)
      PROVE  [Next]_vars
  <2>1. jobId[p] \in SessionJobs
    BY <1>3 DEF PostAccepted, PageInv
  <2>2. QED
    BY <1>3, <2>1 DEF PostAccepted, Next, Client
<1>4. CASE ClickCancel(p)
  <2>1. viewing[p] \in Jobs
    BY <1>4 DEF ClickCancel, PageInv, Jobs
  <2>2. QED
    BY <1>4, <2>1 DEF ClickCancel, Next, Client
<1>5. CASE ClickFinish(p)
  <2>1. viewing[p] \in SessionJobs
    BY <1>5 DEF ClickFinish, PageInv
  <2>2. QED
    BY <1>5, <2>1 DEF ClickFinish, Next, Client
<1>6. QED
  BY <1>1, <1>2, <1>3, <1>4, <1>5 DEF ApiCall

LEMMA PageOnlyLeavesApi ==
    ASSUME NEW p \in Circuits, PageOnly(p)
    PROVE  UNCHANGED vars
BY DEF PageOnly, ClickTranslate, Join, JoinFails, PostRefused, PostAnswered, PostAgain,
       CancelAnswered, Reconnect

LEMMA HubLeavesApi ==
    ASSUME Tab \/ HubStep \/ Tick \/ Scan
    PROVE  UNCHANGED vars
BY DEF Tab, OpenTab, CloseTab, DisposeCircuit, Reload, HubStep, LoseLink, OnDisconnected,
       Tick, Scan

LEMMA BackgroundIsLifecycleStep ==
    ASSUME Background
    PROVE  Next
<1>1. CASE \E r \in Requests : HandlerStep(r)
  BY <1>1 DEF Next
<1>2. CASE \E j \in SessionJobs : UploadRecord(j) \/ UploadRecordFails(j) \/ FinishDelete(j)
  BY <1>2 DEF Next, Client
<1>3. CASE \E j \in Jobs : UploadSweep(j)
  BY <1>3 DEF Next, Housekeeping
<1>4. CASE Shutdown \/ Restart
  BY <1>4 DEF Next
<1>5. CASE \/ Dequeue \/ StartRun \/ StartRunThrows \/ OpenWorkbook \/ OpenThrows \/ RunPhase
           \/ WriteCompleted \/ WriteCanceled \/ WriteFailed \/ StatusWriteThrows
           \/ AnnounceThrows \/ ReleaseToken \/ DeleteUpload
  BY <1>5 DEF Next, WorkerStep, EndRun
<1>6. QED
  BY <1>1, <1>2, <1>3, <1>4, <1>5 DEF Background

LEMMA StepImplements ==
    ASSUME DashboardTypeOK, PageInv, [DashboardNext]_allVars
    PROVE  [Next]_vars
<1>1. CASE Background /\ UNCHANGED dashboard
  BY <1>1, BackgroundIsLifecycleStep
<1>2. CASE AnnounceToGroup
  BY <1>2 DEF AnnounceToGroup, Next, WorkerStep, EndRun
<1>3. CASE Tab \/ HubStep \/ Tick \/ Scan
  BY <1>3, HubLeavesApi
<1>4. ASSUME NEW p \in Circuits, PageStep(p)
      PROVE  [Next]_vars
  BY <1>4, PageCases, PageOnlyLeavesApi, ApiCallIsClientStep
<1>5. ASSUME NEW j \in SessionJobs, Sweep(j)
      PROVE  [Next]_vars
  BY <1>5 DEF Sweep, Next, Housekeeping, Jobs
<1>6. CASE HubEnds
  BY <1>6 DEF HubEnds, Next
<1>7. CASE UNCHANGED allVars
  BY <1>7 DEF allVars
<1>8. QED
  BY <1>1, <1>2, <1>3, <1>4, <1>5, <1>6, <1>7 DEF DashboardNext, Watchdog

-----------------------------------------------------------------------------
(* Types, pages and the clock. *)

LEMMA DashboardStart ==
    ASSUME DashboardInit
    PROVE  DashboardTypeOK /\ PageInv /\ ClockInv
<1>1. Ages = 0..(Grace + 1) /\ 0 \in Ages /\ Grace + 1 \in Ages
  BY DashboardAssumption DEF Ages
<1>2. DashboardTypeOK
  BY <1>1 DEF DashboardInit, DashboardTypeOK
<1>3. QED
  BY <1>2 DEF DashboardInit, PageInv, ClockInv

\* A tick keeps ages in their range and in their order.
LEMMA OlderKeepsOrder ==
    ASSUME NEW a \in Ages, NEW b \in Ages
    PROVE  Older(a) \in Ages /\ (a <= b => Older(a) <= Older(b))
BY DashboardAssumption DEF Ages, Older

LEMMA TabTypes ==
    ASSUME TypeOK, DashboardTypeOK, PageInv, ClockInv, Tab
    PROVE  DashboardTypeOK' /\ PageInv' /\ ClockInv'
<1> USE DEF DashboardTypeOK, PageInv, ClockInv, hub, clock, execution
<1>1. ASSUME NEW p \in Circuits, OpenTab(p)
      PROVE  DashboardTypeOK' /\ PageInv' /\ ClockInv'
  BY <1>1 DEF OpenTab, StartConnection
<1>2. ASSUME NEW p \in Circuits, CloseTab(p)
      PROVE  DashboardTypeOK' /\ PageInv' /\ ClockInv'
  BY <1>2 DEF CloseTab
<1>3. ASSUME NEW p \in Circuits, DisposeCircuit(p)
      PROVE  DashboardTypeOK' /\ PageInv' /\ ClockInv'
  BY <1>3 DEF DisposeCircuit
<1>4. ASSUME NEW p \in Circuits, NEW q \in Circuits, Reload(p, q)
      PROVE  DashboardTypeOK' /\ PageInv' /\ ClockInv'
  <2>1. CASE shown[p] # "none" /\ up = "up"
    <3>1. viewing[p] \in SessionJobs /\ status[viewing[p]] \in Statuses
      BY <2>1 DEF TypeOK, Jobs
    <3>2. QED
      BY <1>4, <2>1, <3>1 DEF Reload, StartConnection
  <2>2. CASE ~(shown[p] # "none" /\ up = "up")
    BY <1>4, <2>2 DEF Reload, StartConnection
  <2>3. QED
    BY <2>1, <2>2
<1>5. QED
  BY <1>1, <1>2, <1>3, <1>4 DEF Tab

\* What the catch clause of ExecuteJobAsync leaves behind.
LEMMA ExecuteFailsTypes ==
    ASSUME DashboardTypeOK, PageInv, NEW p \in Circuits, ExecuteFails(p)
    PROVE  /\ loading' \in [Circuits -> BOOLEAN]
           /\ call' \in [Circuits -> {"none", "joining", "posting", "waiting"}]
           /\ jobId' \in [Circuits -> SessionJobs \cup {NoJob}]
           /\ sent' \in [Circuits -> Requests \cup {NoRequest}]
           /\ UNCHANGED <<life, viewing, shown, canceling, conn>>
           /\ PageInv'
<1> USE DEF DashboardTypeOK, ExecuteFails, CallEnds
<1>1. loading' \in [Circuits -> BOOLEAN]
  BY Zenon
<1>2. /\ call' \in [Circuits -> {"none", "joining", "posting", "waiting"}]
      /\ jobId' \in [Circuits -> SessionJobs \cup {NoJob}]
      /\ sent' \in [Circuits -> Requests \cup {NoRequest}]
  OBVIOUS
<1>3. PageInv'
  BY DEF PageInv
<1>4. QED
  BY <1>1, <1>2, <1>3

LEMMA PageTypes ==
    ASSUME TypeOK, DashboardTypeOK, PageInv, ClockInv,
           NEW p \in Circuits, PageOnly(p) \/ ApiCall(p)
    PROVE  DashboardTypeOK' /\ PageInv' /\ ClockInv'
<1> USE DEF DashboardTypeOK, PageInv, ClockInv, hub, clock, execution
<1>1. CASE ClickTranslate(p)
  BY <1>1 DEF ClickTranslate, Statuses
<1>2. CASE Join(p)
  <2>1. conn[p] \in Connections /\ jobId[p] \in SessionJobs
    BY <1>2 DEF Join, Linked
  <2>2. 0 \in Ages
    BY DashboardAssumption DEF Ages
  <2>3. \/ /\ call' = [call EXCEPT ![p] = "posting"]
           /\ UNCHANGED <<life, viewing, shown, loading, jobId, sent, canceling, conn>>
        \/ ExecuteFails(p)
    BY <1>2 DEF Join
  <2>4. PageInv'
    BY <2>1, <2>3, ExecuteFailsTypes
  <2>5. ClockInv'
    BY <1>2, <2>1 DEF Join
  <2>6. UNCHANGED <<link, abandoned>> /\ tracked' \in [SessionJobs -> {"absent", "connected", "left"}]
        /\ age' \in [SessionJobs -> Ages] /\ joinAge' \in [SessionJobs -> Ages]
        /\ group' \in [Connections -> SUBSET SessionJobs]
        /\ connectionToJob' \in [Connections -> SessionJobs \cup {NoJob}]
    BY <1>2, <2>1, <2>2 DEF Join
  <2>7. DashboardTypeOK'
    <3>1. CASE ExecuteFails(p)
      BY <2>6, <3>1, ExecuteFailsTypes
    <3>2. CASE /\ call' = [call EXCEPT ![p] = "posting"]
               /\ UNCHANGED <<life, viewing, shown, loading, jobId, sent, canceling, conn>>
      BY <2>6, <3>2
    <3>3. QED
      BY <2>3, <3>1, <3>2
  <2>8. QED
    BY <2>4, <2>5, <2>7
<1>3. CASE JoinFails(p) \/ PostRefused(p)
  BY <1>3, ExecuteFailsTypes DEF JoinFails, PostRefused
<1>4. CASE PostAnswered(p)
  BY <1>4 DEF PostAnswered, CallEnds
<1>5. CASE PostAgain(p)
  BY <1>5 DEF PostAgain
<1>6. CASE CancelAnswered(p)
  BY <1>6 DEF CancelAnswered, Statuses
<1>7. CASE Reconnect(p)
  BY <1>7 DEF Reconnect
<1>8. ASSUME NEW j \in SessionJobs, UploadFile(p, j)
      PROVE  DashboardTypeOK' /\ PageInv' /\ ClockInv'
  BY <1>8 DEF UploadFile
<1>9. ASSUME NEW s \in Sheets, ConfigureSession(p, s)
      PROVE  DashboardTypeOK' /\ PageInv' /\ ClockInv'
  <2>1. viewing[p] \in SessionJobs /\ status[viewing[p]] \in Statuses
    BY <1>9 DEF ConfigureSession, TypeOK, Jobs
  <2>2. QED
    BY <1>9, <2>1 DEF ConfigureSession
<1>10. ASSUME NEW r \in Requests, PostAccepted(p, r)
       PROVE  DashboardTypeOK' /\ PageInv' /\ ClockInv'
  BY <1>10 DEF PostAccepted
<1>11. CASE ClickCancel(p)
  BY <1>11 DEF ClickCancel
<1>12. CASE ClickFinish(p)
  BY <1>12 DEF ClickFinish
<1>13. QED
  BY <1>1, <1>2, <1>3, <1>4, <1>5, <1>6, <1>7, <1>8, <1>9, <1>10, <1>11, <1>12
     DEF PageOnly, ApiCall

LEMMA AnnounceTypes ==
    ASSUME DashboardTypeOK, PageInv, ClockInv, AnnounceToGroup
    PROVE  DashboardTypeOK' /\ PageInv' /\ ClockInv'
<1> USE DEF DashboardTypeOK, PageInv, ClockInv, hub, clock, execution
<1>1. \A p \in Circuits : shown'[p] \in {shown[p], "Completed"}
                         /\ (shown'[p] # "none" => shown[p] # "none")
  BY DEF AnnounceToGroup, ShownAfter
<1>2. /\ shown' \in [Circuits -> Statuses \cup {"none"}]
      /\ loading' \in [Circuits -> BOOLEAN]
  BY <1>1 DEF AnnounceToGroup, Statuses
<1>3. UNCHANGED <<life, viewing, execution, canceling, conn, hub, abandoned, joinAge>>
  BY DEF AnnounceToGroup
<1>4. QED
  BY <1>1, <1>2, <1>3

LEMMA HubTypes ==
    ASSUME DashboardTypeOK, PageInv, ClockInv, HubStep \/ Watchdog \/ HubEnds
    PROVE  DashboardTypeOK' /\ PageInv' /\ ClockInv'
<1> USE DEF DashboardTypeOK, PageInv, ClockInv, page, hub, clock, execution
<1>1. 0 \in Ages /\ \A a \in Ages : 0 <= a
  BY DashboardAssumption DEF Ages
<1>2. ASSUME NEW c \in Connections, LoseLink(c)
      PROVE  DashboardTypeOK' /\ PageInv' /\ ClockInv'
  BY <1>2 DEF LoseLink
<1>3. ASSUME NEW c \in Connections, OnDisconnected(c)
      PROVE  DashboardTypeOK' /\ PageInv' /\ ClockInv'
  <2>1. DashboardTypeOK' /\ PageInv'
    BY <1>1, <1>3 DEF OnDisconnected
  <2>2. ClockInv'
    BY <1>1, <1>3 DEF OnDisconnected
  <2>3. QED
    BY <2>1, <2>2
<1>4. CASE Tick
  <2>1. \A j \in SessionJobs :
           /\ age'[j] \in Ages /\ joinAge'[j] \in Ages
           /\ tracked[j] = "left" => age'[j] <= joinAge'[j]
    BY <1>4, OlderKeepsOrder DEF Tick
  <2>2. age' \in [SessionJobs -> Ages] /\ joinAge' \in [SessionJobs -> Ages]
    BY <1>4, <2>1 DEF Tick
  <2>3. QED
    BY <1>4, <2>1, <2>2 DEF Tick
<1>5. CASE Scan
  BY <1>5 DEF Scan
<1>6. ASSUME NEW j \in SessionJobs, Sweep(j)
      PROVE  DashboardTypeOK' /\ PageInv' /\ ClockInv'
  BY <1>1, <1>6 DEF Sweep
<1>7. CASE HubEnds
  BY <1>1, <1>7 DEF HubEnds
<1>8. QED
  BY <1>2, <1>3, <1>4, <1>5, <1>6, <1>7 DEF HubStep, Watchdog

LEMMA DashboardStep ==
    ASSUME TypeOK, DashboardTypeOK, PageInv, ClockInv, [DashboardNext]_allVars
    PROVE  DashboardTypeOK' /\ PageInv' /\ ClockInv'
<1>1. CASE UNCHANGED dashboard
  BY <1>1 DEF dashboard, page, hub, execution, DashboardTypeOK, PageInv, ClockInv
<1>2. CASE \E p \in Circuits : PageStep(p)
  BY <1>2, PageCases, PageTypes
<1>3. QED
  BY <1>1, <1>2, TabTypes, AnnounceTypes, HubTypes DEF DashboardNext, allVars

-----------------------------------------------------------------------------
(* A page that waits hears of it. *)

\* A run that is accounted for stays so until its end is announced: every way
\* out of it leaves a cancelled source, a final stage or an unsettled job.
LEMMA AccountedStays ==
    ASSUME TypeOK, WorkerInv, RequestInv, [Next]_vars, up = "up", up' = "up",
           NEW j \in Jobs, Accounted(j), ~(Announce /\ job = j)
    PROVE  Accounted(j)'
<1>0. PICK r \in Requests : jobOf[r] = j /\ (WillAnnounce(r) \/ EndsSilently(r))
  BY DEF Accounted
<1>1. stage[r] # "unused" /\ j # NoJob
  BY <1>0, JobsAssumption DEF RequestInv
<1> USE DEF TypeOK, WillAnnounce, EndsSilently, ledger, handlers, requests, worker, process,
            history
<1>2. CASE Client
  <2>1. ASSUME NEW i \in SessionJobs,
               \/ Upload(i) \/ UploadRecord(i) \/ UploadRecordFails(i)
               \/ FinishCheck(i) \/ FinishDelete(i)
        PROVE  Accounted(j)'
    BY <1>0, <2>1 DEF Accounted, Upload, UploadRecord, UploadRecordFails, FinishCheck,
                      FinishDelete
  <2>2. ASSUME NEW i \in SessionJobs, NEW s \in Sheets, Configure(i, s)
        PROVE  Accounted(j)'
    BY <1>0, <2>2 DEF Accounted, Configure
  <2>3. ASSUME NEW q \in Requests, NEW i \in SessionJobs, ExecuteCheck(q, i)
        PROVE  Accounted(j)'
    BY <1>0, <1>1, <2>3 DEF Accounted, ExecuteCheck
  <2>4. ASSUME NEW q \in Requests, NEW i \in DirectJobs, NEW s \in DirectTargets,
               Evaluate(q, i, s)
        PROVE  Accounted(j)'
    BY <1>0, <1>1, <2>4 DEF Accounted, Evaluate
  <2>5. ASSUME NEW i \in Jobs, Cancel(i)
        PROVE  Accounted(j)'
    BY <1>0, <2>5 DEF Accounted, Cancel
  <2>6. QED
    BY <1>2, ClientCases, <2>1, <2>2, <2>3, <2>4, <2>5
<1>3. ASSUME NEW q \in Requests, HandlerStep(q)
      PROVE  Accounted(j)'
  <2>1. CASE RegisterToken(q)
    BY <1>0, <2>1 DEF Accounted, RegisterToken, RequestInv
  <2>2. CASE EnqueueRequest(q)
    BY <1>0, <2>2 DEF Accounted, EnqueueRequest
  <2>3. CASE EvaluateAborts(q)
    BY <1>0, <2>3 DEF Accounted, EvaluateAborts
  <2>4. QED
    BY <1>3, <2>1, <2>2, <2>3 DEF HandlerStep
<1>4. CASE Housekeeping
  BY <1>0, <1>4 DEF Accounted, Housekeeping, WatchdogCancel, UploadSweep
<1>5. CASE WorkerStep
  <2>1. stage[r] = "running" => r = cur
    BY DEF WorkerInv
  <2> USE DEF Goto
  <2>2. CASE Dequeue
    BY <1>0, <2>2 DEF Accounted, Dequeue
  <2>3. CASE StartRun
    <3>1. CASE j = job
      BY <2>3, <3>1 DEF Accounted, StartRun, WorkerInv, job
    <3>2. CASE j # job
      BY <1>0, <2>1, <2>3, <3>2 DEF Accounted, StartRun
    <3>3. QED
      BY <3>1, <3>2
  <2>4. CASE StartRunThrows
    BY <1>0, <2>1, <2>4 DEF Accounted, StartRunThrows
  <2>5. CASE OpenWorkbook \/ OpenThrows
    BY <1>0, <2>5 DEF Accounted, OpenWorkbook, OpenThrows
  <2>6. CASE RunPhase
    BY <1>0, <2>1, <2>6 DEF Accounted, RunPhase, SaveOutput, PhaseDone, PhaseThrows,
                            PhaseCatchThrows, AfterPhase, Interrupted
  <2>7. CASE WriteCompleted \/ WriteCanceled \/ WriteFailed
    BY <1>0, <2>7 DEF Accounted, WriteCompleted, WriteCanceled, WriteFailed
  <2>8. CASE StatusWriteThrows
    BY <1>0, <2>1, <2>8 DEF Accounted, StatusWriteThrows, job
  <2>9. CASE Announce
    BY <1>0, <2>1, <2>9 DEF Accounted, Announce, job
  <2>10. CASE AnnounceThrows
    BY <2>10 DEF AnnounceThrows
  <2>11. CASE ReleaseToken
    BY <1>0, <2>11 DEF Accounted, ReleaseToken, Dispose
  <2>12. CASE DeleteUpload
    BY <1>0, <2>1, <2>12 DEF Accounted, DeleteUpload, WorkerInv
  <2>13. QED
    BY <1>5, <2>2, <2>3, <2>4, <2>5, <2>6, <2>7, <2>8, <2>9, <2>10, <2>11, <2>12
       DEF WorkerStep, EndRun
<1>6. CASE Shutdown \/ ProcessEnds \/ Restart
  BY <1>6 DEF Shutdown, ProcessEnds, Restart
<1>7. CASE UNCHANGED vars
  BY <1>0, <1>7 DEF Accounted, vars
<1>8. QED
  BY <1>2, <1>3, <1>4, <1>5, <1>6, <1>7 DEF Next

ListenInv == WaitInv /\ ConnectionInv

\* No page starts to hear of a job, whatever job it turns to.
NoNewListener ==
    \A q \in Circuits : Hears(q)' => Hears(q) /\ viewing'[q] = viewing[q]

LEMMA ListenTab ==
    ASSUME DashboardTypeOK, ListenInv, Tab
    PROVE  ListenInv' /\ NoNewListener
<1> USE DEF DashboardTypeOK, ListenInv, WaitInv, ConnectionInv, NoNewListener, Hears, Listens,
            Linked, hub, clock, execution, vars
<1>0. NoConnection \notin Connections
  BY DashboardAssumption
<1>1. ASSUME NEW p \in Circuits, OpenTab(p)
      PROVE  ListenInv' /\ NoNewListener
  BY <1>0, <1>1 DEF OpenTab, StartConnection
<1>2. ASSUME NEW p \in Circuits, CloseTab(p)
      PROVE  ListenInv' /\ NoNewListener
  BY <1>2 DEF CloseTab
<1>3. ASSUME NEW p \in Circuits, DisposeCircuit(p)
      PROVE  ListenInv' /\ NoNewListener
  BY <1>0, <1>3 DEF DisposeCircuit
<1>4. ASSUME NEW p \in Circuits, NEW q \in Circuits, Reload(p, q)
      PROVE  ListenInv' /\ NoNewListener
  BY <1>0, <1>4 DEF Reload, StartConnection
<1>5. QED
  BY <1>1, <1>2, <1>3, <1>4 DEF Tab

LEMMA ListenPage ==
    ASSUME DashboardTypeOK, PageInv, ListenInv, NEW p \in Circuits, PageOnly(p)
    PROVE  ListenInv' /\ NoNewListener
<1> USE DEF DashboardTypeOK, PageInv, ListenInv, WaitInv, ConnectionInv, NoNewListener, Hears,
            Listens, Linked, hub, clock, execution, vars
<1>0. NoConnection \notin Connections
  BY DashboardAssumption
<1>1. CASE ClickTranslate(p)
  BY <1>1 DEF ClickTranslate
<1>2. CASE Join(p)
  BY <1>0, <1>2 DEF Join, Active, ExecuteFails, CallEnds
<1>3. CASE JoinFails(p) \/ PostRefused(p)
  BY <1>3 DEF JoinFails, PostRefused, ExecuteFails, CallEnds
<1>4. CASE PostAnswered(p)
  BY <1>4 DEF PostAnswered, CallEnds
<1>5. CASE PostAgain(p)
  BY <1>5 DEF PostAgain
<1>6. CASE CancelAnswered(p)
  BY <1>6 DEF CancelAnswered
<1>7. CASE Reconnect(p)
  BY <1>0, <1>7 DEF Reconnect
<1>8. QED
  BY <1>1, <1>2, <1>3, <1>4, <1>5, <1>6, <1>7 DEF PageOnly

\* A POST that is accepted gives its page a run to hear of.
LEMMA ListenApi ==
    ASSUME TypeOK, DashboardTypeOK, PageInv, ListenInv, NEW p \in Circuits, ApiCall(p)
    PROVE  /\ ListenInv'
           /\ up' = up
           /\ ~Announce
           /\ \/ NoNewListener
              \/ /\ \A q \in Circuits \ {p} :
                        Hears(q)' => Hears(q) /\ viewing'[q] = viewing[q]
                 /\ loading'[p] => Accounted(viewing[p])'
<1> USE DEF DashboardTypeOK, PageInv, ListenInv, WaitInv, ConnectionInv, NoNewListener, Hears,
            Listens, Linked, page, hub, clock, execution, worker, process
<1>1. ASSUME NEW j \in SessionJobs, UploadFile(p, j)
      PROVE  ListenInv' /\ NoNewListener /\ up' = up /\ ~Announce
  BY <1>1 DEF UploadFile, Upload, Announce, Goto
<1>2. ASSUME NEW s \in Sheets, ConfigureSession(p, s)
      PROVE  ListenInv' /\ NoNewListener /\ up' = up /\ ~Announce
  BY <1>2 DEF ConfigureSession, Configure, Announce, Goto
<1>3. ASSUME NEW r \in Requests, PostAccepted(p, r)
      PROVE  /\ ListenInv' /\ up' = up /\ ~Announce
             /\ \A q \in Circuits \ {p} :
                    Hears(q)' => Hears(q) /\ viewing'[q] = viewing[q]
             /\ loading'[p] => Accounted(viewing[p])'
  <2>1. ListenInv' /\ up' = up /\ ~Announce
    BY <1>3 DEF PostAccepted, ExecuteCheck, Announce, Goto
  <2>2. /\ \A q \in Circuits \ {p} : Hears(q)' => Hears(q) /\ viewing'[q] = viewing[q]
        /\ viewing' = viewing /\ loading' = loading
    BY <1>3 DEF PostAccepted
  <2>3. loading'[p] => Accounted(viewing[p])'
    <3>1. stage'[r] = "checked" /\ jobOf'[r] = jobId[p]
      BY <1>3 DEF PostAccepted, ExecuteCheck, TypeOK
    <3>2. loading'[p] => jobId[p] = viewing[p]
      BY <1>3, <2>2 DEF PostAccepted
    <3>3. QED
      BY <2>2, <3>1, <3>2 DEF Accounted, WillAnnounce
  <2>4. QED
    BY <2>1, <2>2, <2>3
<1>4. CASE ClickCancel(p)
  BY <1>4 DEF ClickCancel, Cancel, Announce, Goto
<1>5. CASE ClickFinish(p)
  BY <1>5 DEF ClickFinish, FinishCheck, Announce, Goto, vars
<1>6. QED
  BY <1>1, <1>2, <1>3, <1>4, <1>5 DEF ApiCall

\* The event reaches every page in the job's group, and ends its waiting.
LEMMA ListenAnnounce ==
    ASSUME DashboardTypeOK, ListenInv, AnnounceToGroup
    PROVE  /\ ListenInv' /\ NoNewListener
           /\ \A q \in Circuits : Hears(q)' => viewing[q] # job
<1> USE DEF DashboardTypeOK, ListenInv, WaitInv, ConnectionInv, NoNewListener, Hears, Listens,
            Linked, hub, clock, execution, process
<1>1. /\ UNCHANGED <<life, viewing, execution, canceling, conn, hub, abandoned, joinAge>>
      /\ \A q \in Circuits : loading'[q] = (loading[q] /\ ~Listens(q, job))
      /\ \A q \in Circuits : shown'[q] = ShownAfter(q, announced'[job])
      /\ up' = up
  BY DEF AnnounceToGroup, Announce
<1>2. ListenInv'
  BY <1>1 DEF ShownAfter
<1>3. ASSUME NEW q \in Circuits, Hears(q)'
      PROVE  Hears(q) /\ viewing'[q] = viewing[q] /\ viewing[q] # job
  <2>1. /\ loading[q] /\ ~Listens(q, job) /\ call[q] \in {"waiting", "none"}
        /\ viewing' = viewing /\ Listens(q, viewing[q])
    BY <1>1, <1>3
  <2>2. QED
    BY <2>1
<1>4. QED
  BY <1>2, <1>3

LEMMA ListenHub ==
    ASSUME DashboardTypeOK, ListenInv, HubStep \/ Watchdog \/ HubEnds
    PROVE  ListenInv' /\ NoNewListener
<1> USE DEF DashboardTypeOK, ListenInv, WaitInv, ConnectionInv, NoNewListener, Hears, Listens,
            Linked, page, hub, clock, execution, vars
<1>1. CASE HubStep
  BY <1>1 DEF HubStep, LoseLink, OnDisconnected
<1>2. CASE Watchdog
  BY <1>2 DEF Watchdog, Tick, Scan, Sweep, WatchdogCancel, process
<1>3. CASE HubEnds
  BY <1>3 DEF HubEnds, ProcessEnds
<1>4. QED
  BY <1>1, <1>2, <1>3

\* The process comes up by a restart only; on its own the API announces nothing.
LEMMA BackgroundStaysUp ==
    ASSUME Background
    PROVE  /\ up' = "down" => up = "down"
           /\ up' = "up" => Restart \/ (up = "up" /\ ~Announce)
<1> USE DEF process, worker, Goto, Announce
<1>1. CASE \/ \E r \in Requests : HandlerStep(r)
           \/ \E j \in SessionJobs : UploadRecord(j) \/ UploadRecordFails(j) \/ FinishDelete(j)
           \/ \E j \in Jobs : UploadSweep(j)
  BY <1>1 DEF HandlerStep, RegisterToken, EnqueueRequest, EvaluateAborts, UploadRecord,
              UploadRecordFails, FinishDelete, UploadSweep
<1>2. CASE Dequeue \/ StartRun \/ StartRunThrows \/ OpenWorkbook \/ OpenThrows \/ RunPhase
  BY <1>2 DEF Dequeue, StartRun, StartRunThrows, OpenWorkbook, OpenThrows, RunPhase, SaveOutput,
              PhaseDone, PhaseThrows, PhaseCatchThrows, AfterPhase
<1>3. CASE \/ WriteCompleted \/ WriteCanceled \/ WriteFailed \/ StatusWriteThrows
           \/ AnnounceThrows \/ ReleaseToken \/ DeleteUpload
  BY <1>3 DEF WriteCompleted, WriteCanceled, WriteFailed, StatusWriteThrows, AnnounceThrows,
              ReleaseToken, DeleteUpload
<1>4. CASE Shutdown \/ Restart
  BY <1>4 DEF Shutdown, Restart
<1>5. QED
  BY <1>1, <1>2, <1>3, <1>4 DEF Background

\* While the process stays up, what was accounted for still is.
LEMMA HearKept ==
    ASSUME TypeOK, WorkerInv, RequestInv, DashboardTypeOK, PageInv, ListenInv, HearInv,
           [Next]_vars, up = "up", up' = "up",
           NEW q \in Circuits, Hears(q), viewing'[q] = viewing[q],
           ~(Announce /\ job = viewing[q])
    PROVE  Accounted(viewing[q])'
<1>1. Accounted(viewing[q])
  BY DEF HearInv
<1>2. viewing[q] \in Jobs
  BY DEF Hears, ListenInv, WaitInv, PageInv, Jobs
<1>3. viewing[q]' = viewing[q]
  OBVIOUS
<1>4. QED
  BY <1>1, <1>2, <1>3, AccountedStays DEF Accounted

LEMMA ListenStep ==
    ASSUME TypeOK, SafetyInv, DashboardTypeOK, PageInv, ListenInv, HearInv,
           [DashboardNext]_allVars
    PROVE  ListenInv' /\ HearInv'
<1>0. [Next]_vars /\ WorkerInv /\ RequestInv
  BY StepImplements DEF SafetyInv
<1>1. ASSUME NoNewListener, up' = "up" => up = "up",
             \A q \in Circuits : Hears(q)' => ~(Announce /\ job = viewing[q])
      PROVE  HearInv'
  <2> SUFFICES ASSUME up' = "up", NEW q \in Circuits, Hears(q)'
               PROVE  Accounted(viewing[q])'
    BY DEF HearInv
  <2>1. Hears(q) /\ viewing'[q] = viewing[q] /\ ~(Announce /\ job = viewing[q])
    BY <1>1 DEF NoNewListener
  <2>2. QED
    BY <1>0, <1>1, <2>1, HearKept
<1>2. CASE Background /\ UNCHANGED dashboard
  <2> USE DEF dashboard, page, hub, execution, WaitInv, ConnectionInv, NoNewListener, Hears,
              Listens, Linked
  <2>1. ListenInv'
    BY <1>2, BackgroundStaysUp DEF ListenInv
  <2>2. CASE Restart
    BY <1>2, <2>1, <2>2 DEF Restart, ListenInv, HearInv, DashboardTypeOK
  <2>3. CASE ~Restart
    <3>1. NoNewListener
      BY <1>2
    <3>2. up' = "up" => up = "up" /\ ~Announce
      BY <1>2, <2>3, BackgroundStaysUp
    <3>3. CASE up' = "up"
      BY <1>1, <2>1, <3>1, <3>2, <3>3
    <3>4. CASE up' # "up"
      BY <2>1, <3>4 DEF HearInv
    <3>5. QED
      BY <3>3, <3>4
  <2>4. QED
    BY <2>1, <2>2, <2>3
<1>3. CASE AnnounceToGroup
  <2>1. up' = up
    BY <1>3 DEF AnnounceToGroup, Announce, process
  <2>2. QED
    BY <1>1, <1>3, <2>1, ListenAnnounce
<1>4. CASE Tab \/ HubStep \/ Watchdog
  <2>1. ListenInv' /\ NoNewListener
    BY <1>4, ListenTab, ListenHub
  <2>2. up' = up /\ ~Announce
    <3>1. up' = up /\ pc' = pc
      BY <1>4, HubLeavesApi DEF Watchdog, Sweep, WatchdogCancel, vars, process, worker
    <3>2. QED
      BY <3>1 DEF Announce, Goto
  <2>3. QED
    BY <1>1, <2>1, <2>2
<1>5. CASE HubEnds
  BY <1>5, ListenHub DEF HubEnds, ProcessEnds, HearInv
<1>6. ASSUME NEW p \in Circuits, PageOnly(p)
      PROVE  ListenInv' /\ HearInv'
  <2>1. UNCHANGED vars
    BY <1>6, PageOnlyLeavesApi
  <2>2. up' = up /\ ~Announce
    BY <2>1 DEF vars, Announce, Goto
  <2>3. QED
    BY <1>1, <1>6, <2>2, ListenPage
<1>7. ASSUME NEW p \in Circuits, ApiCall(p)
      PROVE  ListenInv' /\ HearInv'
  <2>1. ListenInv' /\ up' = up /\ ~Announce
    BY <1>7, ListenApi
  <2>2. CASE NoNewListener
    BY <1>1, <2>1, <2>2
  <2>3. CASE /\ \A q \in Circuits \ {p} :
                    Hears(q)' => Hears(q) /\ viewing'[q] = viewing[q]
             /\ loading'[p] => Accounted(viewing[p])'
    <3>1. ASSUME up' = "up", NEW q \in Circuits \ {p}, Hears(q)'
          PROVE  Accounted(viewing[q])'
      BY <1>0, <2>1, <2>3, <3>1, HearKept
    <3>2. ASSUME up' = "up", Hears(p)'
          PROVE  Accounted(viewing[p])'
      BY <2>3, <3>2 DEF Hears
    <3>3. QED
      BY <2>1, <3>1, <3>2 DEF HearInv
  <2>4. QED
    BY <1>7, <2>2, <2>3, ListenApi
<1>8. CASE UNCHANGED allVars
  <2>1. UNCHANGED vars /\ UNCHANGED dashboard
    BY <1>8 DEF allVars
  <2>2. up' = up /\ ~Announce
    BY <2>1 DEF vars, Announce, Goto
  <2>3. NoNewListener /\ ListenInv'
    BY <2>1 DEF dashboard, page, hub, execution, vars, ListenInv, WaitInv, ConnectionInv,
                NoNewListener, Hears, Listens, Linked
  <2>4. QED
    BY <1>1, <2>2, <2>3
<1>9. QED
  BY <1>2, <1>3, <1>4, <1>5, <1>6, <1>7, <1>8, PageCases DEF DashboardNext

-----------------------------------------------------------------------------
(* The theorems. *)

LEMMA DashboardInvariant ==
    DashboardSpec => [](/\ TypeOK /\ SafetyInv
                        /\ DashboardTypeOK /\ PageInv /\ ClockInv /\ ListenInv /\ HearInv)
<1>1. DashboardInit => ListenInv /\ HearInv
  BY DashboardAssumption
     DEF DashboardInit, ListenInv, WaitInv, ConnectionInv, HearInv, Hears
<1>2. DashboardInit => /\ TypeOK /\ SafetyInv
                       /\ DashboardTypeOK /\ PageInv /\ ClockInv /\ ListenInv /\ HearInv
  BY <1>1, DashboardStart, SafetyInit DEF DashboardInit
<1>3. /\ TypeOK /\ SafetyInv
      /\ DashboardTypeOK /\ PageInv /\ ClockInv /\ ListenInv /\ HearInv
      /\ [DashboardNext]_allVars
      => (/\ TypeOK /\ SafetyInv
          /\ DashboardTypeOK /\ PageInv /\ ClockInv /\ ListenInv /\ HearInv)'
  BY StepImplements, SafetyNext, DashboardStep, ListenStep
<1>4. QED
  BY <1>2, <1>3, PTL DEF DashboardSpec

\* The pages, the hub's tables and the watchdog's list keep their types.
THEOREM DashboardTypeCorrect == DashboardSpec => []DashboardTypeOK
BY DashboardInvariant, PTL

\* Pages, hub and watchdog make the API do nothing that JobLifecycle forbids.
THEOREM DashboardImplements == DashboardSpec => ImplementsJobLifecycle
<1>1. DashboardInit => Init
  BY DEF DashboardInit
<1>2. TypeOK /\ SafetyInv /\ DashboardTypeOK /\ PageInv /\ ClockInv /\ [DashboardNext]_allVars
      => [Next]_vars
  BY StepImplements
<1>3. QED
  BY <1>1, <1>2, DashboardInvariant, PTL DEF DashboardSpec, ImplementsJobLifecycle, Spec

\* So with the dashboard in front of it the API keeps what the service promises,
\* whatever its pages call, repeat or lose.
THEOREM PagesAreServed == DashboardSpec => KeepsService
BY DashboardImplements, ServiceIsKept DEF ImplementsJobLifecycle

\* However connections break, pages reload and circuits linger, the watchdog
\* does not list a job that was joined within the grace period.
THEOREM JoinedIsSpared == DashboardSpec => RecentJoinIsSafe
<1>1. ASSUME DashboardTypeOK, ClockInv, [DashboardNext]_allVars,
             NEW j \in SessionJobs, j \in abandoned', j \notin abandoned
      PROVE  joinAge[j] > Grace
  <2>1. CASE Scan
    BY <1>1, <2>1, DashboardAssumption DEF Scan, Overdue, ClockInv, DashboardTypeOK, Ages
  <2>2. CASE \E i \in SessionJobs : Sweep(i)
    BY <1>1, <2>2 DEF Sweep
  <2>3. CASE HubEnds
    BY <1>1, <2>3 DEF HubEnds
  <2>4. CASE UNCHANGED abandoned
    BY <1>1, <2>4
  <2>5. QED
    BY <1>1, <2>1, <2>2, <2>3, <2>4, PageCases
       DEF DashboardNext, Watchdog, Tick, HubStep, LoseLink, OnDisconnected,
           Tab, OpenTab, CloseTab, DisposeCircuit, Reload, AnnounceToGroup,
           PageOnly, ApiCall, ClickTranslate, Join, JoinFails, PostRefused, PostAnswered,
           PostAgain, CancelAnswered, Reconnect, UploadFile, ConfigureSession,
           PostAccepted, ClickCancel, ClickFinish, allVars, dashboard
<1>2. TypeOK /\ SafetyInv /\ DashboardTypeOK /\ PageInv /\ ClockInv /\ [DashboardNext]_allVars
      => \A j \in abandoned' \ abandoned : joinAge[j] > Grace
  <2> SUFFICES ASSUME TypeOK, DashboardTypeOK, PageInv, ClockInv, [DashboardNext]_allVars,
                      NEW j \in abandoned' \ abandoned
               PROVE  joinAge[j] > Grace
    OBVIOUS
  <2>1. j \in SessionJobs
    BY DashboardStep DEF DashboardTypeOK
  <2>2. QED
    BY <1>1, <2>1
<1>3. QED
  BY <1>2, DashboardInvariant, PTL DEF DashboardSpec, RecentJoinIsSafe

\* A page that joined the job's group before its POST, and that waits, has a run
\* that will tell it the end, or that ended without one for a reason: whatever
\* else the pages, the connections, the worker and the process did meanwhile.
THEOREM WaitingPagesHear == DashboardSpec => []WaitingPageHears
<1>1. HearInv => WaitingPageHears
  BY DEF HearInv, Hears, WaitingPageHears
<1>2. QED
  BY <1>1, DashboardInvariant, PTL
=============================================================================
