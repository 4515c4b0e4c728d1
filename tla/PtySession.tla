----------------------------- MODULE PtySession -----------------------------
(***************************************************************************)
(* bmad-eval-runner, pty_runner.py: claude on a pseudo-terminal, sent one  *)
(* prompt in a moment of silence, and read until its result, the timeout   *)
(* or the end of the terminal. The clock is reduced to the three marks the *)
(* loop looks at. claude is external.                                      *)
(***************************************************************************)

VARIABLES
    session,  \* where run_interactive is
    warm,     \* INIT_WAIT_S has passed
    late,     \* the timeout has passed
    sent,     \* prompt_sent
    doneAt,   \* done_at: "none", "now", or "past" once POST_RESULT_S has passed
    captured, \* json_lines, as the kinds of events in it
    terminal  \* claude holds the other end of the terminal
ptyVars == <<session, warm, late, sent, doneAt, captured, terminal>>

PtyInit ==
    /\ session = "idle" /\ warm = FALSE /\ late = FALSE /\ sent = FALSE
    /\ doneAt = "none" /\ captured = {} /\ terminal = TRUE

\* run_interactive spawns claude.
Spawn ==
    /\ session = "idle" /\ session' = "head"
    /\ UNCHANGED <<warm, late, sent, doneAt, captured, terminal>>

\* The clock.
Warms ==
    /\ session # "idle" /\ ~warm /\ warm' = TRUE
    /\ UNCHANGED <<session, late, sent, doneAt, captured, terminal>>
TurnsLate ==
    /\ session # "idle" /\ ~late /\ late' = TRUE
    /\ UNCHANGED <<session, warm, sent, doneAt, captured, terminal>>
GracePasses ==
    /\ doneAt = "now" /\ doneAt' = "past"
    /\ UNCHANGED <<session, warm, late, sent, captured, terminal>>

\* claude exits.
Hangup ==
    /\ session # "idle" /\ terminal /\ terminal' = FALSE
    /\ UNCHANGED <<session, warm, late, sent, doneAt, captured>>

\* Either limit ends the loop.
TimeIsUp == late \/ doneAt = "past"

\* The head of the loop.
LoopHead ==
    /\ session = "head"
    /\ session' = IF TimeIsUp THEN "leaving" ELSE "select"
    /\ UNCHANGED <<warm, late, sent, doneAt, captured, terminal>>

\* select: the terminal is closed, ...
Closed ==
    /\ session = "select" /\ ~terminal /\ session' = "leaving"
    /\ UNCHANGED <<warm, late, sent, doneAt, captured, terminal>>

\* ... a chunk comes: control sequences, an event, or the result of the prompt, ...
Chunk(kind) ==
    /\ session = "select" /\ terminal /\ session' = "head"
    /\ kind = "result" => sent
    /\ captured' = IF kind = "noise" THEN captured ELSE captured \cup {kind}
    /\ doneAt' = IF kind = "result" /\ doneAt = "none" THEN "now" ELSE doneAt
    /\ UNCHANGED <<warm, late, sent, terminal>>

\* ... or nothing does for 0.3 seconds: the prompt is sent, once.
Silence ==
    /\ session = "select" /\ terminal /\ session' = "head"
    /\ sent' = (sent \/ warm)
    /\ UNCHANGED <<warm, late, doneAt, captured, terminal>>

\* claude is told to exit and terminated, and the transcript is written.
WriteOut ==
    /\ session = "leaving" /\ session' = "written" /\ terminal' = FALSE
    /\ UNCHANGED <<warm, late, sent, doneAt, captured>>

Loop ==
    LoopHead \/ Closed \/ Silence \/ WriteOut
    \/ \E kind \in {"noise", "event", "result"} : Chunk(kind)

PtyNext == Spawn \/ Warms \/ TurnsLate \/ GracePasses \/ Hangup \/ Loop

PtySpec == PtyInit /\ [][PtyNext]_ptyVars

\* The loop goes on, select returns after 0.3 seconds, and the clock runs.
PtyFairness == WF_ptyVars(Loop) /\ WF_ptyVars(TurnsLate)

-----------------------------------------------------------------------------
(* Properties. *)

\* A claude that never falls silent is never sent the prompt; the session ends
\* nevertheless, and so does every other.
SessionRuns == session = "head"
SessionEnded == session = "written"

=============================================================================
