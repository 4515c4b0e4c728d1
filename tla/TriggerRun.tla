----------------------------- MODULE TriggerRun -----------------------------
(***************************************************************************)
(* bmad-eval-runner, trigger evals: run_triggers.py. Every query is put to *)
(* claude RunsPerQuery times, with a synthetic skill in place; the runner  *)
(* reads the events claude streams until they tell whether the first tool  *)
(* it takes is that skill, and scores each query by the rate of its runs.  *)
(*                                                                         *)
(* claude is external: Script is the order of the events of one message,   *)
(* as the parser expects them, reduced to what the parser tells apart.     *)
(***************************************************************************)
EXTENDS Naturals, FiniteSets

CONSTANTS
    Queries,        \* triggers.json
    RunsPerQuery,   \* --runs-per-query
    PoolSize,       \* --workers
    RateNum, RateDen \* --threshold, as a fraction

ASSUME TriggerAssumption ==
    /\ IsFiniteSet(Queries) /\ RunsPerQuery \in Nat \ {0} /\ PoolSize \in Nat \ {0}
    /\ RateDen \in Nat \ {0} /\ RateNum \in 1..RateDen

Probes == Queries \X (1..RunsPerQuery)
Busy == {"blocked", "chunk", "awake"}

VARIABLES
    sandbox,    \* --isolation; "none" before main starts
    should,     \* should_trigger of each query
    scored,     \* triggers-result.json is written
    probe,      \* where each run is
    pendingTool,\* parse_stream_for_trigger's own state
    said,       \* how far claude is in its message
    firstTool,  \* the first tool it took
    spoke,      \* an assistant event without a tool came before it
    decided,    \* what the parser returned
    verdict     \* what the runner returned: TRUE in triggers
triggerVars == <<sandbox, should, scored, probe, pendingTool, said, firstTool,
                 spoke, decided, verdict>>

TriggerTypeOK ==
    /\ sandbox \in {"none", "docker", "local"} /\ should \in [Queries -> BOOLEAN]
    /\ scored \in BOOLEAN
    /\ probe \in [Probes -> {"idle", "queued", "lost", "done"} \cup Busy]
    /\ pendingTool \in [Probes -> {"none", "open", "half"}]
    /\ firstTool \in [Probes -> {"none", "call", "miss"}]
    /\ spoke \in [Probes -> BOOLEAN] /\ verdict \in [Probes -> BOOLEAN]
    /\ decided \in [Probes -> {"undecided", "yes", "no"}]

TriggerInit ==
    /\ sandbox = "none" /\ should = [q \in Queries |-> TRUE]
    /\ scored = FALSE
    /\ probe = [r \in Probes |-> "idle"]
    /\ pendingTool = [r \in Probes |-> "none"]
    /\ said = [r \in Probes |-> "begun"]
    /\ firstTool = [r \in Probes |-> "none"]
    /\ spoke = [r \in Probes |-> FALSE]
    /\ decided = [r \in Probes |-> "undecided"]
    /\ verdict = [r \in Probes |-> FALSE]

-----------------------------------------------------------------------------
(* What claude streams: <<from, event, to>>. A tool block names the skill in  *)
(* one delta or in two; the assistant event repeats the finished block, and   *)
(* a block of text has one of its own.                                        *)

Script ==
    { <<"begun", "noise", "begun">>, <<"begun", "assistantMiss", "begun">>,
      <<"begun", "open", "call0">>, <<"begun", "open", "miss0">>,
      <<"begun", "openOther", "miss0">>, <<"begun", "messageStop", "over">>,
      <<"call0", "delta1", "call1">>, <<"call1", "delta2", "call2">>,
      <<"call0", "delta", "call2">>, <<"call2", "blockStop", "call3">>,
      <<"call3", "assistantHit", "stop">>, <<"miss0", "noise", "miss1">>,
      <<"miss0", "blockStop", "miss1">>, <<"miss1", "blockStop", "miss1">>,
      <<"miss1", "assistantMiss", "stop">>, <<"stop", "messageStop", "over">>,
      <<"over", "result", "over">> }

\* Faulty variant of Verdict: a message that ends a block decides.
VerdictAtBlockStop(pend, event) ==
    CASE event = "delta" /\ pend # "none" -> "yes"
      [] event = "delta2" /\ pend = "half" -> "yes"
      [] event = "assistantHit" -> "yes"
      [] event \in {"openOther", "messageStop", "assistantMiss", "result"} -> "no"
      [] event = "blockStop" -> "no"
      [] OTHER -> "undecided"

\* parse_stream_for_trigger: what it returns on an event ...
Verdict(pend, event) ==
    CASE event = "delta" /\ pend # "none" -> "yes"
      [] event = "delta2" /\ pend = "half" -> "yes"
      [] event = "assistantHit" -> "yes"
      [] event \in {"openOther", "messageStop", "assistantMiss", "result"} -> "no"
      [] event = "blockStop" /\ pend # "none" -> "no"
      [] OTHER -> "undecided"

\* ... and what it keeps of it within one call: pending_tool, accumulated_json.
Pending(pend, event) ==
    CASE event = "open" -> "open"
      [] event = "delta1" /\ pend = "open" -> "half"
      [] OTHER -> pend

-----------------------------------------------------------------------------
(* The runs. *)

\* main up to the last pool.submit.
TriggerStart(mode, expected) ==
    /\ sandbox = "none" /\ sandbox' = mode
    /\ should' = expected
    /\ probe' = [r \in Probes |-> "queued"]
    /\ UNCHANGED <<scored, pendingTool, said, firstTool, spoke, decided, verdict>>

\* A worker stages the synthetic skill under a name of its own and starts claude,
\* or raises.
StartProbe(r) ==
    /\ probe[r] = "queued"
    /\ Cardinality({s \in Probes : probe[s] \in Busy}) < PoolSize
    /\ \E p \in {"blocked", "lost"} : probe' = [probe EXCEPT ![r] = p]
    /\ UNCHANGED <<sandbox, should, scored, pendingTool, said, firstTool, spoke,
                   decided, verdict>>

\* claude streams an event. A local run parses it with the chunk it comes in, and
\* the first decision ends the run and kills claude; in a container the events go
\* to a file that is parsed as a whole afterwards.
Stream(r) ==
    /\ probe[r] \in {"blocked", "chunk"}
    /\ \E step \in Script :
        /\ step[1] = said[r]
        /\ said' = [said EXCEPT ![r] = step[3]]
        /\ firstTool' = [firstTool EXCEPT ![r] =
                IF @ # "none" THEN @
                ELSE IF step[3] = "call0" THEN "call"
                ELSE IF step[3] = "miss0" THEN "miss" ELSE @]
        /\ spoke' = [spoke EXCEPT ![r] =
                @ \/ (step[2] = "assistantMiss" /\ firstTool[r] = "none")]
        /\ pendingTool' = [pendingTool EXCEPT ![r] = Pending(@, step[2])]
        /\ LET now == IF decided[r] # "undecided" THEN decided[r]
                      ELSE Verdict(pendingTool[r], step[2]) IN
           /\ decided' = [decided EXCEPT ![r] = now]
           /\ IF sandbox = "local" /\ now # "undecided"
              THEN /\ probe' = [probe EXCEPT ![r] = "done"]
                   /\ verdict' = [verdict EXCEPT ![r] = now = "yes"]
              ELSE /\ probe' = [probe EXCEPT ![r] = "chunk"]
                   /\ UNCHANGED verdict
    /\ UNCHANGED <<sandbox, should, scored>>

\* The parser is through with the chunk and returns None: what it kept is lost.
ChunkEnds(r) ==
    /\ sandbox = "local" /\ probe[r] = "chunk"
    /\ probe' = [probe EXCEPT ![r] = "awake"]
    /\ pendingTool' = [pendingTool EXCEPT ![r] = "none"]
    /\ UNCHANGED <<sandbox, should, scored, said, firstTool, spoke, decided, verdict>>

\* Between two chunks the clock is looked at: read1 is called again, and blocks ...
ReadAgain(r) ==
    /\ probe[r] = "awake" /\ probe' = [probe EXCEPT ![r] = "blocked"]
    /\ UNCHANGED <<sandbox, should, scored, pendingTool, said, firstTool, spoke,
                   decided, verdict>>

\* ... or time is up, and claude is killed: not triggered.
LocalTimeout(r) ==
    /\ probe[r] = "awake" /\ probe' = [probe EXCEPT ![r] = "done"]
    /\ UNCHANGED <<sandbox, should, scored, pendingTool, said, firstTool, spoke,
                   decided, verdict>>

\* claude exits; the rest of what it said was a chunk like the others.
ClaudeExits(r) ==
    /\ sandbox = "local" /\ probe[r] \in {"blocked", "awake"}
    /\ probe' = [probe EXCEPT ![r] = "done"]
    /\ UNCHANGED <<sandbox, should, scored, pendingTool, said, firstTool, spoke,
                   decided, verdict>>

\* The container ended, or the client was killed at timeout + 30: stream.jsonl is
\* parsed as far as it is written.
DockerReads(r) ==
    /\ sandbox = "docker" /\ probe[r] \in {"blocked", "chunk"}
    /\ probe' = [probe EXCEPT ![r] = "done"]
    /\ verdict' = [verdict EXCEPT ![r] = decided[r] = "yes"]
    /\ UNCHANGED <<sandbox, should, scored, pendingTool, said, firstTool, spoke,
                   decided>>

-----------------------------------------------------------------------------
(* Scoring. A run that raised is left out of its query's rate. *)

RunsOf(q) == {r \in Probes : r[1] = q /\ probe[r] = "done"}
FiredOf(q) == {r \in RunsOf(q) : verdict[r]}

\* Faulty variant of Reached: no runs at all count as all of them.
ReachedVacuously(q) ==
    Cardinality(FiredOf(q)) * RateDen >= RateNum * Cardinality(RunsOf(q))

\* rate >= threshold, with a rate of 0 when no run is left.
Reached(q) ==
    /\ RunsOf(q) # {}
    /\ Cardinality(FiredOf(q)) * RateDen >= RateNum * Cardinality(RunsOf(q))

Passed(q) == IF should[q] THEN Reached(q) ELSE ~Reached(q)

\* The pool is shut down, and main writes triggers-result.json.
Score ==
    /\ ~scored /\ \A r \in Probes : probe[r] \in {"done", "lost"}
    /\ scored' = TRUE
    /\ UNCHANGED <<sandbox, should, probe, pendingTool, said, firstTool, spoke,
                   decided, verdict>>

-----------------------------------------------------------------------------
RunnerStep(r) ==
    StartProbe(r) \/ ChunkEnds(r) \/ ReadAgain(r) \/ LocalTimeout(r) \/ DockerReads(r)

TriggerNext ==
    \/ \E mode \in {"docker", "local"}, expected \in [Queries -> BOOLEAN] :
          TriggerStart(mode, expected)
    \/ \E r \in Probes : RunnerStep(r) \/ Stream(r) \/ ClaudeExits(r)
    \/ Score

TriggerSpec == TriggerInit /\ [][TriggerNext]_triggerVars

\* Some thread of the runner goes on when one can, and time passes: if runs are
\* awake again and again, one of them finds its time up. claude is not asked for
\* anything.
TriggerFairness ==
    /\ WF_triggerVars((\E r \in Probes : RunnerStep(r)) \/ Score)
    /\ SF_triggerVars(\E r \in Probes : LocalTimeout(r))

-----------------------------------------------------------------------------
(* Properties. *)

\* However the stream is cut into chunks, the runner answers whether the first
\* tool claude took is the synthetic skill: a yes means it is, and a no that the
\* parser came to means it is not, or that claude spoke first.
VerdictIsFirstTool ==
    \A r \in Probes :
        /\ decided[r] = "yes" => firstTool[r] = "call"
        /\ decided[r] = "no" /\ firstTool[r] = "call" => spoke[r]

\* The score of a query that says the skill fired rests on a run in which claude
\* did take it, whatever failed, timed out or was left out.
FiredScoreHasEvidence ==
    scored => \A q \in Queries :
        Passed(q) = should[q] => \E r \in Probes : r[1] = q /\ firstTool[r] = "call"

\* A run in containers ends whatever claude does. In directories the clock is looked
\* at between two reads only, so that a run ends, or hangs on a silent claude.
TriggerRuns == sandbox # "none"
TriggerHangs == sandbox = "local" /\ \E r \in Probes : probe[r] = "blocked"

=============================================================================
