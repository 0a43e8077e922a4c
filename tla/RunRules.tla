------------------------------ MODULE RunRules ------------------------------
\* What the orchestration service makes of what it finds when it starts or resumes a run
\* or a step: the events of a run whose state is lost, the agents and rules that are
\* configured, the files of the workspace, what the steps have spent and said.
EXTENDS Integers, Sequences, FiniteSets, TLC, SequencesExt, FiniteSetsExt

\* The first of several settings that is set; "" is none.
FirstSet(settings, otherwise) ==
  LET set == SelectSeq(settings, LAMBDA s : s # "") IN IF set = <<>> THEN otherwise ELSE Head(set)

-----------------------------------------------------------------------------
\* rebuildRunStateFromEvents.  An event is [of, kind, step, data]; a sandbox event's data
\* is what it names of the environment, "" for what it leaves out.
Execution(n) == [step |-> n, status |-> "running", ended |-> FALSE]
OpenExecutions(execs, n) == {i \in DOMAIN execs : execs[i].step = n /\ ~execs[i].ended}
MutReplayed(execs, e) ==
  CASE e.kind = "step.started" -> Append(execs, Execution(e.step))
    [] OTHER ->
       LET open == OpenExecutions(execs, e.step)
       IN  IF open = {} THEN execs
           ELSE CASE e.kind = "step.completed" -> [execs EXCEPT ![Min(open)] = [@ EXCEPT !.status = "completed", !.ended = TRUE]]
                  [] e.kind = "step.failed" -> [execs EXCEPT ![Min(open)] = [@ EXCEPT !.status = "failed", !.ended = TRUE]]
                  [] e.kind = "step.rework_triggered" -> [execs EXCEPT ![Min(open)].status = "needs_rework"]
                  [] OTHER -> execs
Replayed(execs, e) ==
  CASE e.kind = "step.started" -> Append(execs, Execution(e.step))
    [] OTHER ->
       LET open == OpenExecutions(execs, e.step)
       IN  IF open = {} THEN execs
           ELSE CASE e.kind = "step.completed" -> [execs EXCEPT ![Max(open)] = [@ EXCEPT !.status = "completed", !.ended = TRUE]]
                  [] e.kind = "step.failed" -> [execs EXCEPT ![Max(open)] = [@ EXCEPT !.status = "failed", !.ended = TRUE]]
                  [] e.kind = "step.rework_triggered" -> [execs EXCEPT ![Max(open)].status = "needs_rework"]
                  [] OTHER -> execs
\* rebuildRunEnvironmentFromEvent: what an event leaves out is as it was, a mode that is
\* not known as in the session.
HandleFields == {"sandbox", "backend", "volume"}
HandleAfter(handle, e) ==
  IF e.kind \notin {"sandbox.created", "sandbox.resumed"} THEN handle
  ELSE [f \in HandleFields |->
          FirstSet(<<e.data[f], IF handle = <<>> THEN "" ELSE handle[f]>>, IF f = "backend" THEN "local" ELSE "")]
\* <<>> where there is no plan to go on with; the first words of the session are the
\* ticket where the events have none.
Rebuilt(events, session) ==
  LET own     == SelectSeq(events, LAMBDA e : e.of = session.run)
      plans   == SelectSeq(own, LAMBDA e : e.kind = "task.plan_generated")
      tickets == SelectSeq(own, LAMBDA e : e.kind = "task.created" /\ e.data # "")
  IN  IF plans = <<>> THEN <<>>
      ELSE <<[plan   |-> Last(plans).data,
              ticket |-> IF tickets = <<>> THEN session.ticket ELSE Last(tickets).data,
              status |-> session.status,
              steps  |-> FoldLeft(Replayed, <<>>, own),
              handle |-> FoldLeft(HandleAfter, <<>>, own)]>>
\* loadRunState: the file is taken if it is of this run; resumeTaskBody otherwise rebuilds.
LoadRunState(saved, session) == SelectSeq(saved, LAMBDA state : state.run = session.run)
StateToResume(saved, events, session) ==
  LET loaded == LoadRunState(saved, session)
  IN  IF loaded # <<>> THEN <<loaded[1].state>> ELSE Rebuilt(events, session)

\* What is told of the i-th event's execution: of its step, until the step starts again.
ToldOf(own, i) ==
  LET later   == {j \in i + 1 .. Len(own) : own[j].step = own[i].step}
      restart == {j \in later : own[j].kind = "step.started"}
  IN  SelectSeq([j \in DOMAIN own |-> IF j \in later /\ (\A k \in restart : j < k) THEN own[j].kind ELSE ""],
                LAMBDA kind : kind # "")
\* What the engine ended the execution with: a quality gate that fails, or an exception,
\* takes back what was logged as completed (1492-1543, 1675-1703).
EndedAs(own, i) ==
  LET told == ToldOf(own, i)
  IN  CASE told = <<>> -> "running"
        [] OTHER -> CASE Last(told) = "step.completed" -> "completed"
                      [] Last(told) = "step.failed" -> "failed"
                      [] OTHER -> "needs_rework"
TakenBack(own, i) == "step.completed" \in ToSet(ToldOf(own, i)) /\ EndedAs(own, i) # "completed"
\* The rebuilt run has every execution of the log.  It takes for completed what the engine
\* completed, and also, which the engine did not, what it took back afterwards; all else it
\* knows of the last execution of a step, so that what was cut off or sent back is resumed.
RebuiltTrue(events, session, state) ==
  LET own     == SelectSeq(events, LAMBDA e : e.of = session.run)
      started == SelectSeq([i \in DOMAIN own |-> i], LAMBDA i : own[i].kind = "step.started")
  IN  /\ state = <<>> <=> \A i \in DOMAIN own : own[i].kind # "task.plan_generated"
      /\ state # <<>> =>
           LET steps == state[1].steps
           IN  /\ Len(steps) = Len(started)
               /\ \A i \in DOMAIN steps :
                    LET ended == EndedAs(own, started[i])
                        last  == \A j \in DOMAIN steps : j > i => steps[j].step # steps[i].step
                    IN  /\ steps[i].step = own[started[i]].step
                        /\ (steps[i].status = "completed") <=> (ended = "completed" \/ TakenBack(own, started[i]))
                        /\ steps[i].status = "running" => ended = "running"
                        /\ last /\ ~TakenBack(own, started[i]) => steps[i].status = ended
               /\ state[1].handle # <<>> <=> \E i \in DOMAIN own : own[i].kind \in {"sandbox.created", "sandbox.resumed"}

\* A run is resumed from its own last save and from no other run's, or else from its events.
ResumedTrue(saved, events, session, state) ==
  IF \E i \in DOMAIN saved : saved[i].run = session.run
  THEN state = <<saved[1].state>>
  ELSE RebuiltTrue(events, session, state)

-----------------------------------------------------------------------------
\* gatherPreviousResults, buildReviewSummary, getReviewArtifacts: an execution is
\* [step, status, result], result a set of at most one.
GatherPreviousResults(execs, deps) ==
  LET good(n) == {i \in DOMAIN execs : execs[i].step = n /\ execs[i].status = "completed" /\ execs[i].result # {}}
  IN  {[step |-> n, result |-> execs[Max(good(n))].result] : n \in {n \in deps : good(n) # {}}}
BuildReviewSummary(execs) == SelectSeq(execs, LAMBDA x : x.status = "completed")
GetReviewArtifacts(execs, after) == UNION {execs[i].result : i \in {i \in DOMAIN execs : execs[i].step <= after}}
\* requestHumanReview: what the reviewer is given
Review(execs, after) ==
  [after |-> after, status |-> "pending", summary |-> BuildReviewSummary(execs), artifacts |-> GetReviewArtifacts(execs, after)]

\* Whoever goes on from a step is given what its last accepted execution made, and a
\* reviewer is shown everything accepted of the steps up to the gate.
ReviewTrue(execs, deps, previous, review) ==
  /\ \A p \in previous : \E i \in DOMAIN execs :
       /\ execs[i].step = p.step /\ execs[i].result = p.result /\ execs[i].status = "completed"
       /\ \A j \in DOMAIN execs : j > i /\ execs[j].step = p.step => execs[j].status # "completed" \/ execs[j].result = {}
  /\ \A i \in DOMAIN execs : execs[i].status = "completed" =>
       /\ execs[i] \in ToSet(review.summary)
       /\ execs[i].step <= review.after => execs[i].result \subseteq review.artifacts
       /\ execs[i].step \in deps /\ execs[i].result # {} => \E p \in previous : p.step = execs[i].step

-----------------------------------------------------------------------------
\* resolveModel, resolveRuntimeForAgent, resolveApiKey.  Settings are by agent or role.
Setting(settings, name) == IF name \in DOMAIN settings THEN settings[name] ELSE ""
ByAgent(agent, role, config) == <<Setting(config.overrides, agent), Setting(config.defaults, agent), Setting(config.defaults, role)>>
ResolveModel(agent, role, models) ==
  FirstSet(ByAgent(agent, role, models), FirstSet(<<Setting(models.defaults, "developer")>>, "anthropic"))
ResolveRuntime(agent, role, runtimes) == FirstSet(ByAgent(agent, role, runtimes), "claude-code")
KeyProvider(model, runtime) ==
  CASE runtime = "codex" -> "openai"
    [] runtime = "claude-code" -> "anthropic"
    [] OTHER -> model
\* "" is a key that need not be there, as local processes bring their own
ResolveApiKey(model, runtime, keys, local) ==
  LET key == Setting(keys, KeyProvider(model, runtime)) IN [refused |-> key = "" /\ ~local, key |-> key]

\* resolveBudget, evaluateRuleConditionForTicket: a rule is [when, value, budget]
RuleApplies(rule, ticket) ==
  CASE rule.when = "always" -> TRUE
    [] rule.when = "label" -> rule.value \in ticket.labels
    [] rule.when = "priority" -> rule.value = ticket.priority
    [] OTHER -> FALSE
\* a budget maps what it limits to the limit; the later one wins
ResolveBudget(defaults, overrides, rules, ticket) ==
  FoldLeft(LAMBDA budget, rule : IF RuleApplies(rule, ticket) THEN rule.budget @@ budget ELSE budget,
           overrides @@ defaults, rules)

\* resolveWorkflowContext, resolveWorkflowAgent
Stages == {"developer", "qa", "merge"}
WorkflowAgent(stage, flow, asked) ==
  IF stage = "" \/ flow = <<>> THEN asked ELSE FirstSet(<<flow[1][stage]>>, asked)
\* prepareDirectAgentPlan: the file adds its agent unless one of that type is known;
\* <<>> is a run that fails.
WithAgentFile(types, file) == IF file = <<>> \/ file[1] \in types THEN types ELSE types \cup {file[1]}
DirectPlan(agent, types, file) ==
  CASE file # <<>> /\ file[1] = "" -> <<>>
    [] OTHER -> IF agent \notin WithAgentFile(types, file) THEN <<>>
                ELSE <<[step |-> 1, agent |-> agent, deps |-> {}]>>
ResolvesAgent(s) ==
  [model |-> ResolveModel(s.agent, s.role, s.models), runtime |-> ResolveRuntime(s.agent, s.role, s.runtimes),
   key |-> ResolveApiKey(ResolveModel(s.agent, s.role, s.models), ResolveRuntime(s.agent, s.role, s.runtimes), s.keys, s.local),
   budget |-> ResolveBudget(s.base, s.overrides, s.rules, s.ticket),
   plan |-> DirectPlan(WorkflowAgent(s.stage, s.flow, s.agent), s.types, s.file)]

\* What a project sets wins, an agent is not given another provider's key, the rules a
\* ticket meets are obeyed, the last one where they differ, and a direct run is of an
\* agent that exists: the one its stage names.
AgentTrue(s, v) ==
  /\ s.agent \in DOMAIN s.models.overrides => v.model = s.models.overrides[s.agent]
  /\ s.agent \in DOMAIN s.runtimes.overrides => v.runtime = s.runtimes.overrides[s.agent]
  /\ v.key.key # "" => \E provider \in DOMAIN s.keys :
       /\ s.keys[provider] = v.key.key
       /\ v.runtime = "codex" => provider = "openai"
       /\ v.runtime = "claude-code" => provider = "anthropic"
  /\ ~v.key.refused /\ ~s.local => v.key.key # ""
  /\ DOMAIN s.base \subseteq DOMAIN v.budget
  /\ \A i \in DOMAIN s.rules : RuleApplies(s.rules[i], s.ticket) =>
       \A what \in DOMAIN s.rules[i].budget :
         \E j \in i .. Len(s.rules) : /\ RuleApplies(s.rules[j], s.ticket) /\ what \in DOMAIN s.rules[j].budget
                                      /\ v.budget[what] = s.rules[j].budget[what]
  /\ v.plan # <<>> => /\ v.plan[1].agent \in s.types \cup ToSet(s.file)
                      /\ s.stage # "" /\ s.flow # <<>> => v.plan[1].agent \in {s.flow[1][s.stage], s.agent}

-----------------------------------------------------------------------------
\* maybeEmitBudgetWarnings, calculateRemainingBudgetUsd: spent[i] is the total after the
\* i-th step that completed, in hundredths of the cap, which 0 leaves out.
Thresholds == <<50, 75, 90>>
Warned(cap, emitted, total) ==
  IF cap = 0 THEN <<>> ELSE SelectSeq(Thresholds, LAMBDA t : total * 100 >= t * cap /\ t \notin emitted)
Remaining(cap, total) == IF cap = 0 THEN -1 ELSE Max({0, cap - total})
BudgetWarnings(cap, spent) ==
  FoldLeft(LAMBDA told, total : told \o Warned(cap, ToSet(told), total), <<>>, spent)
\* Each threshold is warned of once, in order, as soon as it is reached, and while
\* nothing is warned of more than half of the budget remains.
BudgetTrue(cap, spent, told) ==
  cap > 0 => /\ IsInjective(told) /\ \A i, j \in DOMAIN told : i < j => told[i] < told[j]
             /\ \A t \in ToSet(Thresholds) : t \in ToSet(told) <=> \E i \in DOMAIN spent : spent[i] * 100 >= t * cap
             /\ told = <<>> /\ spent # <<>> => Remaining(cap, Last(spent)) * 2 > cap

-----------------------------------------------------------------------------
\* detectProjectStack: the first kind of project whose manifest is there
Manifests ==
  <<<<"go", {"go.mod"}>>, <<"rust", {"Cargo.toml"}>>, <<"python", {"pyproject.toml", "requirements.txt", "setup.py"}>>,
    <<"ruby", {"Gemfile"}>>, <<"elixir", {"mix.exs"}>>, <<"jvm", {"pom.xml", "build.gradle", "build.gradle.kts"}>>,
    <<"node", {"package.json"}>>>>
StackOf(files) ==
  LET there == SelectSeq(Manifests, LAMBDA m : m[2] \cap files # {}) IN IF there = <<>> THEN "unknown" ELSE Head(there)[1]
Locks(stack) ==
  CASE stack = "python" -> <<<<"poetry.lock", "poetry">>, <<"uv.lock", "uv">>, <<"Pipfile.lock", "pipenv">>>>
    [] stack = "node" -> <<<<"pnpm-lock.yaml", "pnpm">>, <<"yarn.lock", "yarn">>, <<"bun.lockb", "bun">>>>
    [] OTHER -> <<>>
PackageManager(stack, files) ==
  LET there == SelectSeq(Locks(stack), LAMBDA l : l[1] \in files)
  IN  CASE there # <<>> -> Head(there)[2]
        [] OTHER -> CASE stack = "python" -> "pip" [] stack = "node" -> "npm" [] OTHER -> ""
\* deriveStackCommands: the tool each command is of, "" for no command
StackCommands(stack, pm) ==
  CASE stack = "node" -> [install |-> pm, build |-> pm, test |-> pm]
    [] stack = "go" -> [install |-> "go", build |-> "go", test |-> "go"]
    [] stack = "python" -> [install |-> IF pm \in {"poetry", "uv"} THEN pm ELSE "pip", build |-> "",
                            test |-> IF pm \in {"poetry", "uv"} THEN pm ELSE "pytest"]
    [] stack = "rust" -> [install |-> "cargo", build |-> "cargo", test |-> "cargo"]
    [] stack = "ruby" -> [install |-> "bundle", build |-> "", test |-> "bundle"]
    [] OTHER -> [install |-> "", build |-> "", test |-> ""]
\* runQualityGate: every command is run, whatever the others did
GateCommands(files) ==
  (IF "package.json" \in files THEN <<"lint", "tsc", "npm build">> ELSE <<>>)
    \o (IF "go.mod" \in files THEN <<"go build", "go vet", "go test">> ELSE <<>>)
QualityGate(files, broken) ==
  LET failures == SelectSeq(GateCommands(files), LAMBDA c : c \in broken) IN [passed |-> failures = <<>>, failures |-> failures]
\* runRegistryPreflight, resolveNpmRegistry
Registry(env, configured) == FirstSet(<<env, configured>>, "npmjs")
RegistryPreflight(files, skip, env, configured, reachable) ==
  skip \/ "package.json" \notin files \/ Registry(env, configured) \in reachable
\* handleTaskBody: what a new run learns of its workspace, and what its gate then says
Prepared(s) ==
  [stack |-> StackOf(s.files), pm |-> PackageManager(StackOf(s.files), s.files),
   commands |-> StackCommands(StackOf(s.files), PackageManager(StackOf(s.files), s.files)),
   goes |-> RegistryPreflight(s.files, s.skip, s.env, s.configured, s.reachable),
   gate |-> QualityGate(s.files, s.broken)]

\* What agents are told of the workspace fits it, and a Go or a Node project is not passed
\* by the gate when it does not build, whichever other projects are beside it.
StackTrue(s, v) ==
  /\ v.pm # "" => v.pm \in {"pip", "npm"} \/ \E l \in ToSet(Locks(v.stack)) : l[1] \in s.files /\ l[2] = v.pm
  /\ v.commands.test # "" => v.stack # "unknown"
  /\ v.stack \in {"go", "node"} => GateCommands(s.files) # <<>>
  /\ "package.json" \in s.files /\ {"tsc", "npm build"} \cap s.broken # {} => ~v.gate.passed
  /\ "go.mod" \in s.files /\ {"go build", "go test"} \cap s.broken # {} => ~v.gate.passed
  /\ v.stack = "node" /\ v.goes => s.skip \/ s.reachable # {}

-----------------------------------------------------------------------------
\* chunkUtf8: a text is a sequence of characters, each the number of its bytes
Bytes(text) == FoldLeft(+, 0, text)
ChunkUtf8(text, room) ==
  LET filled == FoldLeft(LAMBDA s, c : IF s.bytes + c > room /\ s.last # <<>>
                                       THEN [chunks |-> Append(s.chunks, s.last), last |-> <<c>>, bytes |-> c]
                                       ELSE [s EXCEPT !.last = Append(@, c), !.bytes = @ + c],
                         [chunks |-> <<>>, last |-> <<>>, bytes |-> 0], text)
  IN  IF filled.last = <<>> THEN filled.chunks ELSE Append(filled.chunks, filled.last)
\* postFallbackActivityLog: the posts before the one that fails, if one does (0: none)
FallbackLog(text, room, fails) ==
  LET chunks == ChunkUtf8(text, room)
      sent   == IF fails = 0 THEN chunks ELSE SubSeq(chunks, 1, Min({fails - 1, Len(chunks)}))
  IN  [i \in DOMAIN sent |-> [sequence |-> i - 1, chunk |-> sent[i], final |-> i = Len(chunks)]]
\* No character is cut, no chunk is larger than it may be, what arrives is the beginning
\* of the log, and only the end of all of it is called final.
LogTrue(text, room, posts) ==
  LET arrived == FlattenSeq([i \in DOMAIN posts |-> posts[i].chunk])
  IN  /\ IsPrefix(arrived, text)
      /\ \A i \in DOMAIN posts : /\ posts[i].chunk # <<>> /\ Bytes(posts[i].chunk) <= room
                                 /\ posts[i].sequence = i - 1
                                 /\ posts[i].final <=> i = Len(posts) /\ arrived = text
=============================================================================
