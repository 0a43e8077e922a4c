------------------------------ MODULE AgentRun ------------------------------
\* The agents that work in one workspace: what executeStep, AgentRunner.run, the
\* Claude Code and Codex runtimes, runProcess and the runtime session store do
\* from the start of a step's execution to its outcome.  Processes are the
\* agents' own; a process may stay alive after its step has been settled.
\* A member of a parallel group runs in the workspace of the run itself where
\* the workspace plugin has no sub-worktrees: that is Width > 1.
EXTENDS Naturals, Sequences, FiniteSets, SequencesExt

CONSTANTS Steps,        \* step numbers of the plan
          Agents,
          AgentOf,      \* the agent of each step
          Modes,        \* runtimes the configuration may choose from
          HomeFallback, \* SPRINTFOUNDRY_ENABLE_CODEX_HOME_AUTH_FALLBACK
          None,
          MaxTries,     \* bound: executions of one step
          MaxStarts, \* bound: executions of all steps
          Width         \* executions that may be under way together

ASSUME StepsAssumption == /\ Steps \subseteq Nat \ {0}
                          /\ AgentOf \in [Steps -> Agents]
                          /\ Modes \subseteq {"claude", "claude-sdk", "codex", "codex-sdk"}
                          /\ HomeFallback \in BOOLEAN
ASSUME AgentBoundsAssumption == {MaxTries, MaxStarts, Width} \subseteq Nat \ {0}

VARIABLES
  mode,         \* runtime of each agent
  exec,         \* the latest execution of each step
  procs,        \* agent processes that are alive
  result,       \* .agent-result.json: who wrote it and its status, None when unreadable
  sessions,     \* .sprintfoundry/sessions.json
  queue,        \* RuntimeSessionStore.writeQueues: steps whose record waits
  drafts,       \* what a queued write has read from the file
  recorded      \* the newest record of each key whose write has returned (history)

agentVars == <<mode, exec, procs, result, sessions, queue, drafts, recorded>>

Codex(m)  == m \in {"codex", "codex-sdk"}
Claude(m) == m \in {"claude", "claude-sdk"}
ModeOf(s) == mode[AgentOf[s]]

\* One execution of a step, by step and number.
Tag(s) == <<s, exec[s].try>>
Tags   == Steps \X (1 .. MaxTries)

Statuses == {"complete", "needs_rework", "failed"}
Codes    == {"ok", "error", "auth", "badsession"}

NotStarted == [phase |-> "idle", try |-> 0, attempt |-> 0, resume |-> None,
               fresh |-> TRUE, home |-> TRUE, spawned |-> 0, exit |-> None,
               held |-> FALSE, timedOut |-> FALSE, outcome |-> None]

Session(s) == [agent |-> AgentOf[s], step |-> s, attempt |-> exec[s].attempt, by |-> Tag(s)]
SameKey(r, q) == r.agent = q.agent /\ r.step = q.step /\ r.attempt = q.attempt

\* The call has returned: its local variables are gone.
Over(s, phase) == [NotStarted EXCEPT !.phase = phase, !.try = exec[s].try, !.attempt = exec[s].attempt]

Active(s) == exec[s].phase \in {"running", "settled", "recording", "ended"}

AgentInit ==
  /\ mode \in [Agents -> Modes]
  /\ exec = [s \in Steps |-> NotStarted]
  /\ procs = {}
  /\ result = None
  /\ sessions = <<>>
  /\ queue = <<>>
  /\ drafts = [s \in Steps |-> None]
  /\ recorded = {}

-----------------------------------------------------------------------------
\* Starting a step.

\* findLatestByAgent: the newest record of the agent, whatever its step.  The
\* file keeps the order of the calls of record, which is that of updated_at.
LatestSession(agent) ==
  LET own == {i \in DOMAIN sessions : sessions[i].agent = agent}
  IN  IF own = {} THEN None ELSE sessions[Max(own)].by

\* spawn: the process of an execution, started with the resume command or not.
Process(s, e) == [step |-> s, try |-> e.try, n |-> e.spawned, wrote |-> FALSE, signalled |-> FALSE]
Spawned(e, fresh, home) ==
  [e EXCEPT !.spawned = @ + 1, !.fresh = fresh, !.home = home, !.exit = None,
            !.held = FALSE, !.timedOut = FALSE]

\* Why executeStep is called: the plan, a rework or quality gate retry in the
\* same run, or a resumed run, whose rework counters start over.
Reason(s) == CASE exec[s].phase = "idle" -> "plan"
               [] exec[s].phase = "rework" -> "retry"
               [] exec[s].phase = "failed" -> "resume"
               [] OTHER -> "none"

\* The rework counter of the step, read when the step starts.
AttemptOf(s) == IF Reason(s) = "retry" THEN exec[s].attempt + 1 ELSE 1

\* executeStepBody up to the spawn.  A resumed run starts after the old one has
\* settled all its steps; a retry of a running group waits for its turn.
Starts(s) ==
  LET why     == Reason(s)
      session == IF why = "plan" THEN None ELSE LatestSession(AgentOf[s])
      e == Spawned([NotStarted EXCEPT !.phase = "running", !.try = exec[s].try + 1,
                      !.attempt = AttemptOf(s),
                      !.resume = session],
                   session = None, TRUE)
  IN  /\ why # "none"
      /\ exec[s].try < MaxTries
      /\ FoldFunction(LAMBDA x, n : x.try + n, 0, exec) < MaxStarts
      /\ Cardinality({t \in Steps : Active(t)}) < Width
      /\ why = "resume" => \A t \in Steps : ~Active(t) /\ exec[t].phase # "rework"
      /\ why # "resume" => \A t \in Steps : exec[t].phase # "failed"
      /\ exec' = [exec EXCEPT ![s] = e]
      /\ procs' = procs \cup {Process(s, e)}
      /\ UNCHANGED <<mode, result, sessions, queue, drafts, recorded>>

-----------------------------------------------------------------------------
\* The agents.

\* An agent writes .agent-result.json in the workspace root, or what is no JSON.
WritesResult(p, status) ==
  /\ p \in procs /\ ~p.wrote
  /\ result' = IF status = None THEN None ELSE [by |-> <<p.step, p.try>>, status |-> status]
  /\ procs' = (procs \ {p}) \cup {[p EXCEPT !.wrote = TRUE]}
  /\ UNCHANGED <<mode, exec, sessions, queue, drafts, recorded>>

\* The process the runtime is listening to.
Current(p) == LET e == exec[p.step]
              IN  e.phase = "running" /\ p.try = e.try /\ p.n = e.spawned

\* The codes an agent can end with: 401 on stderr is Codex's, and so is the
\* refusal of a session, which the SDK makes before the agent has done anything.
MayEnd(p, code) ==
  CASE code = "auth"       -> ModeOf(p.step) = "codex"
    [] code = "badsession" -> exec[p.step].resume # None /\ ~exec[p.step].fresh
                              /\ (ModeOf(p.step) = "codex-sdk" => ~p.wrote)
    [] OTHER               -> TRUE

\* The process ends.  What it has started may go on holding its pipes.
ProcessExits(p, code, held) ==
  /\ p \in procs
  /\ procs' = procs \ {p}
  /\ IF Current(p)
       THEN /\ MayEnd(p, code)
            /\ held => ModeOf(p.step) \in {"claude", "codex"}
            /\ exec' = [exec EXCEPT ![p.step].exit = code, ![p.step].held = held]
       ELSE code = "ok" /\ ~held /\ UNCHANGED exec
  /\ UNCHANGED <<mode, result, sessions, queue, drafts, recorded>>

\* The last holder of the pipes lets them go.
LetsGo(s) ==
  /\ exec[s].held
  /\ exec' = [exec EXCEPT ![s].held = FALSE]
  /\ UNCHANGED <<mode, procs, result, sessions, queue, drafts, recorded>>

-----------------------------------------------------------------------------
\* The runtimes.

Relaunch(s, fresh, home) ==
  LET e == Spawned(exec[s], fresh, home)
  IN  /\ exec' = [exec EXCEPT ![s] = e]
      /\ procs' = procs \cup {Process(s, e)}

\* runProcessWithCodexHomeFallback: one retry without CODEX_HOME.
RetriesWithoutHome(s) ==
  /\ exec[s].exit = "auth" /\ exec[s].home /\ HomeFallback
  /\ Relaunch(s, exec[s].fresh, FALSE)
\* isInvalidOrExpiredResumeError: one fresh run after a refused session.
FallsBackToFresh(s) ==
  /\ exec[s].exit = "badsession" /\ Codex(ModeOf(s)) /\ ~exec[s].fresh
  /\ Relaunch(s, TRUE, TRUE)
Relaunches(s) == RetriesWithoutHome(s) \/ FallsBackToFresh(s)
MayRelaunch(s) == \/ exec[s].exit = "auth" /\ exec[s].home /\ HomeFallback
                  \/ exec[s].exit = "badsession" /\ Codex(ModeOf(s)) /\ ~exec[s].fresh

\* Whether the end of the process is a result: a Claude run that timed out is
\* not, except that the SDK counts a final message received before the abort.
Succeeded(s) == /\ exec[s].exit = "ok"
                /\ ModeOf(s) = "claude" => ~exec[s].timedOut

\* The close event: the process has ended and its pipes are closed.
Closes(s) ==
  /\ exec[s].phase = "running" /\ exec[s].exit # None /\ ~exec[s].held
  /\ \/ Relaunches(s)
     \/ /\ ~MayRelaunch(s)
        /\ exec' = [exec EXCEPT ![s] = IF Succeeded(s) THEN [@ EXCEPT !.phase = "settled"]
                                                 ELSE Over(s, "failed")]
        /\ UNCHANGED procs
  /\ UNCHANGED <<mode, result, sessions, queue, drafts, recorded>>

\* runProcess and runSdkTurnWithTimeout reject when the timer fires, Claude's
\* runtimes when the process has closed.
SettlesAtOnce(s) == Codex(ModeOf(s))

\* agent_timeout_minutes: the process gets SIGTERM, or the SDK's abort signal.
AgentTimesOut(s) ==
  /\ exec[s].phase = "running" /\ ~exec[s].timedOut
  /\ procs' = {IF p.step = s /\ Current(p) THEN [p EXCEPT !.signalled = TRUE] ELSE p : p \in procs}
  /\ exec' = [exec EXCEPT ![s] = IF SettlesAtOnce(s) THEN Over(s, "failed")
                                                     ELSE [@ EXCEPT !.timedOut = TRUE]]
  /\ UNCHANGED <<mode, result, sessions, queue, drafts, recorded>>

MutKills(s, held) == FALSE
\* SIGKILL after the grace period; the Claude SDK ends the process it aborts.
Kills(s, held) ==
  \E p \in procs :
    /\ p.step = s /\ Current(p) /\ p.signalled
    /\ Claude(ModeOf(s))
    /\ held => ModeOf(s) = "claude"
    /\ procs' = procs \ {p}
    /\ exec' = [exec EXCEPT ![s].exit = "error", ![s].held = held]
    /\ UNCHANGED <<mode, result, sessions, queue, drafts, recorded>>

\* A guardrail forbids the tool call an SDK stream announces: Codex's turn gets the
\* abort signal, Claude's stream is closed and its process with it.
GuardrailBlocks(s) ==
  /\ exec[s].phase = "running" /\ exec[s].exit = None
  /\ ModeOf(s) \in {"claude-sdk", "codex-sdk"}
  /\ procs' = IF ModeOf(s) = "codex-sdk"
                THEN {IF p.step = s /\ Current(p) THEN [p EXCEPT !.signalled = TRUE] ELSE p : p \in procs}
                ELSE {p \in procs : ~(p.step = s /\ Current(p))}
  /\ exec' = [exec EXCEPT ![s] = Over(s, "failed")]
  /\ UNCHANGED <<mode, result, sessions, queue, drafts, recorded>>

-----------------------------------------------------------------------------
\* The result.

NoResult(s) == [by |-> Tag(s), status |-> "failed"]
Recovered(s) == [by |-> Tag(s), status |-> "complete"]

\* readAgentResult: the file as it is; when it is missing or no JSON, the patch
\* that a codex log of the workspace carries, if it can be applied.
Results(s) ==
  IF result # None THEN {result}
  ELSE {NoResult(s)} \cup (IF \E a \in Agents : Codex(mode[a]) THEN {Recovered(s)} ELSE {})

\* AgentRunner.run after the runtime: what is recovered from a log is written to
\* the result file.  An id that is none of a session is not recorded.
Reads(s, hasSession) ==
  /\ exec[s].phase = "settled"
  /\ \E r \in Results(s) :
       /\ exec' = [exec EXCEPT ![s].outcome = r,
                               ![s].phase = IF hasSession THEN "recording" ELSE "ended"]
       /\ result' = IF r = NoResult(s) THEN result ELSE r
  /\ queue' = IF hasSession THEN Append(queue, s) ELSE queue
  /\ UNCHANGED <<mode, procs, sessions, drafts, recorded>>

\* The records of the file but that of the same run, agent, step and attempt
Without(file, q) ==
  FoldLeft(LAMBDA kept, r : IF SameKey(r, q) THEN kept ELSE Append(kept, r), <<>>, file)

MutStoreReads(s) ==
  /\ s \in ToSet(queue) /\ drafts[s] = None
  /\ drafts' = [drafts EXCEPT ![s] = Append(Without(sessions, Session(s)), Session(s))]
  /\ UNCHANGED <<mode, exec, procs, result, sessions, queue, recorded>>
\* RuntimeSessionStore.record, once the writes before it have returned: read the
\* file, replace the record of the same run, agent, step and attempt,
StoreReads(s) ==
  /\ queue # <<>> /\ Head(queue) = s /\ drafts[s] = None
  /\ drafts' = [drafts EXCEPT ![s] = Append(Without(sessions, Session(s)), Session(s))]
  /\ UNCHANGED <<mode, exec, procs, result, sessions, queue, recorded>>

\* and write it; the next write of the queue may then begin.
StoreWrites(s) ==
  /\ drafts[s] # None
  /\ sessions' = drafts[s]
  /\ drafts' = [drafts EXCEPT ![s] = None]
  /\ queue' = Tail(queue)
  /\ recorded' = {r \in recorded : ~SameKey(r, Session(s))} \cup {Session(s)}
  /\ exec' = [exec EXCEPT ![s].phase = "ended"]
  /\ UNCHANGED <<mode, procs, result>>

\* What executeStep makes of the result: a complete step is committed, which may
\* fail, and passes the quality gate or is retried; so is one that needs rework,
\* until its limit is reached.
Retried(s) == IF exec[s].attempt < MaxTries THEN "rework" ELSE "failed"
Phase(s) == CASE exec[s].outcome.status = "complete" -> {"completed", "failed", Retried(s)}
              [] exec[s].outcome.status = "needs_rework" -> {Retried(s)}
              [] OTHER -> {"failed"}
Handles(s) ==
  /\ exec[s].phase = "ended"
  /\ \E phase \in Phase(s) : exec' = [exec EXCEPT ![s] = Over(s, phase)]
  /\ UNCHANGED <<mode, procs, result, sessions, queue, drafts, recorded>>

-----------------------------------------------------------------------------
Agent == \E p \in procs :
           \/ \E status \in Statuses \cup {None} : WritesResult(p, status)
           \/ \E code \in Codes, held \in BOOLEAN : ProcessExits(p, code, held)

AgentNext ==
  \/ Agent
  \/ \E s \in Steps :
       \/ Starts(s)
       \/ LetsGo(s)
       \/ GuardrailBlocks(s)
       \/ Closes(s)
       \/ AgentTimesOut(s)
       \/ \E held \in BOOLEAN : Kills(s, held)
       \/ \E hasSession \in BOOLEAN : Reads(s, hasSession)
       \/ StoreReads(s)
       \/ StoreWrites(s)
       \/ Handles(s)

\* Timers fire, a killed process ends, and what the orchestrator awaits of its
\* own is done.  An agent need not end, nor a process that holds its pipes.
AgentFairness ==
  \A s \in Steps :
    /\ WF_agentVars(AgentTimesOut(s))
    /\ WF_agentVars(\E held \in BOOLEAN : Kills(s, held))
    /\ WF_agentVars(Closes(s))
    /\ WF_agentVars(\E hasSession \in BOOLEAN : Reads(s, hasSession))
    /\ WF_agentVars(StoreReads(s))
    /\ WF_agentVars(StoreWrites(s))
    /\ WF_agentVars(Handles(s))

AgentSpec == AgentInit /\ [][AgentNext]_agentVars /\ AgentFairness
=============================================================================
