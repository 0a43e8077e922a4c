------------------------------- MODULE MCRules -------------------------------
(* The inputs of Rules.                                                          *)
EXTENDS Rules

\* Every plan of up to three steps in order, and of two steps numbered anyhow.
MCAgents == <<[type |-> "developer", role |-> "developer"], [type |-> "qa", role |-> "qa"],
              [type |-> "tester", role |-> "qa"], [type |-> "security", role |-> "security"]>>
MCCatalog == {"tester", "security"}
MCRemapped(agent) == IF agent = "js-qa" THEN "qa" ELSE ""
Named == {"developer", "qa", "js-qa", "ghost"}

Steps(n) == {s \in [1 .. n -> [number : {0}, agent : Named, deps : SUBSET (1 .. n)]] :
               \A i \in 1 .. n : s[i].deps \subseteq 1 .. (i - 1)}
InOrder(n) == {[i \in 1 .. n |-> [s[i] EXCEPT !.number = i]] : s \in Steps(n)}
Anyhow == {<<a, b>> : a, b \in [number : 1 .. 2, agent : {"developer", "ghost"}, deps : SUBSET {1, 3}]}
MCPlans == [steps : UNION {InOrder(n) : n \in 0 .. 3} \cup Anyhow,
            gates : {{}, {[after |-> 1, required |-> FALSE]}}]

MCRule == [type : {"agent"}, target : {"security"}] \cup [type : {"role"}, target : {"qa", "architect"}]
            \cup [type : {"gate"}, target : {"qa"}]
Ghostly == [type |-> "agent", target |-> "ghost"]
MCRuleLists == {<<>>} \cup {<<r>> : r \in MCRule} \cup {<<r, q>> : r, q \in MCRule}
                 \cup {<<Ghostly, r>> : r \in MCRule}

MCArrivals == {t \in [1 .. 6 -> 0 .. 6] : \A i \in 1 .. 5 : t[i] <= t[i + 1]}

\* Three requests of a route, or of two, with what may be wrong with them.
Post(route, id, key) ==
  [route |-> route, id |-> id, key |-> key, run |-> "r", token |-> "right", big |-> FALSE, object |-> TRUE,
   body |-> [f \in Fields(route) |-> "ok"], db |-> "up", redis |-> TRUE]
PostsOf(id) ==
  LET run   == Post("runs", id, "r")
      event == Post("events", id, "e")
  IN  {run, event, Post("steps", id, "1"), Post("logs", id, "1"), Post("events", id, "f")}
        \cup {[run EXCEPT !.body[f] = v] : f \in {"status", "branch", "completed_at", "plan_classification"}, v \in {"", "bad", "long"}}
        \cup {[p EXCEPT !.db = db] : p \in {run, event, Post("steps", id, "1")}, db \in {"down", "lost"}}
        \cup {[event EXCEPT !.token = token] : token \in {"", "basic", "wrong"}}
        \cup {[event EXCEPT !.big = TRUE], [event EXCEPT !.object = FALSE], [event EXCEPT !.redis = FALSE],
              [Post("logs", id, "1") EXCEPT !.body.byte_length = "bad"]}
MCPosts ==
  [about : {"posts"}, requests : {<<a, b, c, d>> : a \in {Post("runs", 1, "r"), Post("events", 1, "e")},
                                                   b \in PostsOf(2), c \in PostsOf(3), d \in {Post("events", 4, "e"), Post("runs", 4, "r"), Post("logs", 4, "1")}},
   limits : [rate : {Undefined, 2}, size : {TRUE}] \cup {[rate |-> Undefined, size |-> FALSE]}]

\* Checks of a commit: up to three, in any order, beside the combined status.
Check == [status : {"completed"}, conclusion : {"success", "neutral", "timed_out", ""}]
           \cup [status : {"in_progress"}, conclusion : {""}]
MCSummaries == [status : [count : {0, 1}, state : {"success", "error", "pending", "unknown"}],
                checks : SeqOf(Check, 3)]

\* Three polls of a pull request.
Plain == [count |-> 0, state |-> "pending"]
Green == [status |-> Plain, checks |-> <<[status |-> "completed", conclusion |-> "success"]>>]
Red   == [status |-> Plain, checks |-> <<[status |-> "completed", conclusion |-> "failure"]>>]
Grey  == [status |-> Plain, checks |-> <<>>]
Quiet == [listed |-> TRUE, state |-> "open", fails |-> "", ci |-> Green, ciAgain |-> Green,
          reviews |-> <<>>, requested |-> FALSE, mergeable |-> TRUE]
Approved == [Quiet EXCEPT !.reviews = <<"changes_requested", "commented", "approved">>]
Rejected == [Quiet EXCEPT !.reviews = <<"approved", "changes_requested">>]
MCAnswer == {Quiet, Approved, Rejected, [Quiet EXCEPT !.listed = FALSE], [Quiet EXCEPT !.state = "merged"],
             [Quiet EXCEPT !.state = "closed"], [Quiet EXCEPT !.requested = TRUE], [Quiet EXCEPT !.ci = Red],
             [Rejected EXCEPT !.ci = Red], [Rejected EXCEPT !.fails = "comments"],
             [Quiet EXCEPT !.ci = Red, !.fails = "reviews"], [Quiet EXCEPT !.ci = Red, !.fails = "ci"],
             [Approved EXCEPT !.fails = "mergeability"], [Approved EXCEPT !.ciAgain = Red],
             [Approved EXCEPT !.mergeable = FALSE], [Approved EXCEPT !.ci = Grey]}
MCAnswers == [1 .. 3 -> MCAnswer]
Reaction == {NoReaction, [automatic |-> TRUE, retries |-> 1], [automatic |-> FALSE, retries |-> 1]}
MCReactions == [ci : Reaction, review : Reaction, merge : {NoReaction, [automatic |-> TRUE, retries |-> 1]}]

\* Projects and pairs of requests.
GitHubProject(id, own, secret, flow) ==
  [id |-> id, readable |-> TRUE, source |-> "github", scm |-> "", repo |-> "repo", teams |-> {}, top |-> "true",
   own |-> own, events |-> {"issues.labeled", "issues.opened", "issue_comment.created", "pull_request.opened"},
   secret |-> secret, command |-> "", workflow |-> flow]
LinearProject(id, teams, secret, flow) ==
  [GitHubProject(id, "", secret, flow) EXCEPT !.source = "linear", !.scm = "github", !.teams = teams, !.events = {}]
ProjectLists ==
  {<<GitHubProject("a", own, secret, flow), LinearProject("b", teams, "s2", flow)>> :
     own \in {"", "false"}, secret \in {"", "s1"}, flow \in BOOLEAN, teams \in {{}, {"t1"}}}
    \cup {<<LinearProject("a", one, "s1", FALSE), LinearProject("b", two, "s2", FALSE)>> :
            one, two \in SUBSET {"t1", "t2"}}
GitHubHook == [source |-> "github", repo |-> "repo", teams |-> {}, event |-> "issues.labeled", json |-> TRUE,
               signed |-> "s1", fresh |-> TRUE, issue |-> "issue", labelled |-> TRUE, commands |-> FALSE,
               ticket |-> TRUE, task |-> TRUE, delivery |-> "d", change |-> 1]
LinearHook == [GitHubHook EXCEPT !.source = "linear", !.repo = "", !.teams = {"t1"}, !.event = "Issue.create",
                                 !.signed = "s2"]
MCHook == {GitHubHook, [GitHubHook EXCEPT !.json = FALSE], [GitHubHook EXCEPT !.signed = "s2"],
           [GitHubHook EXCEPT !.delivery = ""], [GitHubHook EXCEPT !.delivery = "", !.change = 2],
           [GitHubHook EXCEPT !.event = "issues.opened"], [GitHubHook EXCEPT !.event = "issue_comment.created"],
           [GitHubHook EXCEPT !.event = "pull_request.opened", !.issue = "pull"],
           LinearHook, [LinearHook EXCEPT !.signed = "s1"], [LinearHook EXCEPT !.teams = {"t2"}],
           [LinearHook EXCEPT !.fresh = FALSE], [LinearHook EXCEPT !.teams = {"t1", "t2"}],
           [LinearHook EXCEPT !.event = "Comment.create"], [LinearHook EXCEPT !.task = FALSE],
           [LinearHook EXCEPT !.delivery = ""]}
ApiRequest == {[source |-> "api", json |-> TRUE, token |-> token, project |-> project, from |-> from, ticket |-> FALSE] :
          token \in {"", "r", "w"}, project \in {"a", "c"}, from \in {"prompt", "github"}}
Tokens == [read : {"", "r"}, write : {"", "w"}]
MCHooks == [about : {"hooks"}, program : {"dispatch", "monitor", "compiled monitor"}, raws : ProjectLists,
            requests : {<<a, b>> : a, b \in MCHook}, tokens : {[read |-> "", write |-> ""]}]
             \cup [about : {"hooks"}, program : {"dispatch"}, raws : ProjectLists,
                   requests : {<<a, a>> : a \in ApiRequest}, tokens : Tokens]

\* Histories of runs of two steps, one of them perhaps reworked by step 901, as far as
\* they came, with what is told after their end, and those that were resumed.
E(kind, step, data) == [kind |-> kind, step |-> step, data |-> data]
Word == {E(kind, n, "") : kind \in {"step.started", "step.completed", "step.failed"}, n \in {1, 2}}
          \cup {E(kind, 2, "") : kind \in {"human_gate.requested", "human_gate.approved", "human_gate.rejected"}}
          \cup {E("step.started", 901, ""), E("step.completed", 901, "")}
After(h, i) == LET before == SelectSeq(SubSeq(h, 1, i - 1), LAMBDA e : e.step = h[i].step)
               IN  IF before = <<>> THEN "" ELSE Last(before).kind
Legal(h) == \A i \in DOMAIN h :
  CASE h[i].kind = "step.started" ->
         /\ After(h, i) # "step.started"
         /\ h[i].step = 901 => \E j \in 1 .. (i - 1) : h[j].kind \in {"step.failed", "human_gate.rejected"}
    [] h[i].kind \in {"step.completed", "step.failed"} -> After(h, i) = "step.started"
    [] h[i].kind = "human_gate.requested" -> After(h, i) = "step.completed"
    [] OTHER -> After(h, i) = "human_gate.requested"
Longer(bodies) == bodies \cup {h \in {Append(b, w) : b \in bodies, w \in Word} : Legal(h)}
Bodies1 == Longer({<<>>})
Bodies2 == Longer(Bodies1)
Bodies3 == Longer(Bodies2)
Bodies4 == Longer(Bodies3)
Bodies5 == Longer(Bodies4)
Done(h) == \A n \in {1, 2} \cup {h[i].step : i \in DOMAIN h} :
             LET all == SelectSeq(h, LAMBDA e : e.step = n) IN  all # <<>> /\ Last(all).kind \in {"step.completed", "human_gate.approved"}
Created == <<E("task.created", 0, ""), E("task.created", 0, "ticket")>>
Planned == Append(Created, E("task.plan_generated", 0, ""))
T(name) == E(name, 0, "")
Tails == {<<>>, <<T("workspace.snapshot.started")>>, <<T("workspace.snapshot.started"), T("workspace.snapshot.failed")>>,
          <<T("workspace.snapshot.started"), T("workspace.snapshot.completed")>>,
          <<T("workspace.snapshot.completed"), T("workspace.cleanup.failed")>>,
          <<T("workspace.snapshot.completed"), T("workspace.cleanup.completed")>>}
Ended(h) == {h \o tail : tail \in Tails}
Again == {<<E("task.started", 1, "resumed")>>,
          <<E("task.started", 1, "resumed"), E("step.started", 1, "prompt")>>,
          <<E("task.started", 1, "resumed"), E("step.started", 1, "prompt"), E("step.completed", 1, ""),
            E("step.started", 2, ""), E("step.completed", 2, ""), T("task.completed")>>}
Histories ==
  LET begun == {Planned \o b : b \in Bodies5}
      over  == {Append(Planned \o b, T(end)) : b \in Bodies4, end \in {"task.failed", "task.cancelled"}}
                 \cup {Append(h, T("task.completed")) : h \in {h \in begun : Done(h)}}
      again == {h \o a : h \in {Append(Planned \o b, T("task.failed")) : b \in Bodies3}, a \in Again}
  IN  {<<>>, Created} \cup begun \cup UNION {Ended(h) : h \in over} \cup again
Told(h) == [i \in DOMAIN h |-> [kind |-> h[i].kind, step |-> h[i].step, data |-> h[i].data, at |-> i \div 2]]
MCPages ==
  {[about |-> "page", events |-> Told(h), plan |-> {1, 2}, handoff |-> handoff,
    session |-> [status |-> "executing", mode |-> mode, snapshot |-> snapshot, ticket |-> "session", cluster |-> FALSE],
    record  |-> [status |-> "executing", mode |-> mode, ticket |-> "session"],
    rows    |-> Reverse([i \in DOMAIN h |-> [event |-> Told(h)[i], received |-> i]])] :
   h \in Histories, handoff \in BOOLEAN, mode \in {"", "k8s-agent-sandbox"}, snapshot \in {None, "cleanup_completed"}}

RunId(n) == [runs |-> n, base |-> "1"]
MCDirs == {[name |-> RunId(n), of |-> of, at |-> at] : n \in 0 .. 2, of \in {{}, {RunId(1)}}, at \in 0 .. 2}
MCLists == {[about |-> "list", dirs |-> dirs, sessions |-> sessions] :
              dirs \in {ds \in SeqOf(MCDirs, 2) : \A i, j \in DOMAIN ds : ds[i].name = ds[j].name => i = j},
              sessions \in SeqOf({[id |-> id, at |-> 1, exists |-> exists] :
                                    id \in {RunId(1), [runs |-> 1, base |-> "2"]}, exists \in BOOLEAN}, 2)}

MCFile == [step : {1, 2}, attempt : {1, 2}, readable : BOOLEAN]
Whole  == [step : {1}, attempt : {1, 2}, readable : {TRUE}]
Mixed == [i \in 1 .. 4 |-> [step |-> 1, attempt |-> 1 + (i % 2), seq |-> 3 - (i + 1) \div 2]]
MCFiles == {[about |-> "files", lastDone |-> lastDone,
             files |-> [snapshots |-> snapshots, contexts |-> contexts, latest |-> latest, logs |-> logs, debugs |-> debugs],
             rows  |-> [results |-> logs,
                        chunks |-> chunks]] :
              lastDone \in 0 .. 2, snapshots \in SUBSET {f \in MCFile : f.step = 1 \/ f.attempt = 1},
              contexts \in {{}, {[step |-> 2, attempt |-> 1, readable |-> TRUE]}},
              latest \in {{}, {[step |-> 1, attempt |-> 1, readable |-> TRUE]}}, logs \in SUBSET Whole,
              debugs \in SUBSET Whole, chunks \in {<<>>, Mixed}}

Pods == {[listed |-> FALSE, phases |-> {}, deleting |-> FALSE]}
          \cup [listed : {TRUE}, phases : SUBSET {"Running", "Pending", "Failed", "Succeeded"}, deleting : BOOLEAN]
MCHosts == UNION {
  [about : {"host"}, project : {project},
   cluster : [claims : [ToSet(Namespaces(project)) -> {"404", "403", "ready", "not_ready", "provisioning"}],
              pods : [ToSet(Namespaces(project)) -> IF project = "app" THEN Pods ELSE
                        {p \in Pods : Cardinality(p.phases) < 2 /\ (p.deleting => p.phases = {"Running"})}],
              pvcs : SUBSET ToSet(Namespaces(project))]] : project \in {"app", "app-worktree"}}

\* Tasks of two projects, with names that fit and names that do not.
MCWords == {"sf", "sf-run-ws", "sf-template", "run", "1700000000000", "a", "b", "team", "long"}
RunText(tail) == <<Piece("run", 4), Piece("1700000000000", 14), Piece(tail, 8)>>
ATask(source, prompt, agent) == [run |-> RunText("a"), project |-> "one", arg |-> "", source |-> source, ticket |-> "T-1",
                                 prompt |-> prompt, agent |-> agent, stage |-> "", branch |-> "", pr |-> ""]
FileNames == {ProjectFile, <<"project-", "one", "yaml">>, <<"project-", "one", "yml">>, <<"", "one", "yaml">>}
\* The directory of the dispatcher: the file of the task, and perhaps another project's.
Directories(file) == {(file :> "one") @@ rest @@ (PlatformFile :> "platform") :
                        rest \in {<<>>, (ProjectFile :> "two"), (<<"", "one", "yaml">> :> "two")}}
MCLaunches ==
  UNION {[about : {"launch"}, task : {ATask("github", "", ""), ATask("prompt", "do", "qa"), ATask("prompt", "", "")},
          other : {[ATask("github", "", "") EXCEPT !.run = RunText(tail)] : tail \in {"a", "b"}},
          file : {file}, files : Directories(file),
          image : {(PlatformFile :> "platform"), (<<"", "one", "yaml">> :> "two") @@ (PlatformFile :> "platform")},
          env : {[namespace |-> "", secret |-> "", configMap |-> configMap, runtimeSecret |-> ""] : configMap \in {"", "shared"}},
          prefix : {<<>>, <<Piece("team", 10)>>, <<Piece("long", 51)>>}, sink : {"", "http"},
          session : [status : {"", "executing", "completed"}, workspace : BOOLEAN],
          mounted : {<<>>, [one |-> [TOKEN |-> "theirs"]]}, written : {"one", "${ID}"}] : file \in FileNames}
MCStarts == [about : {"start"}, platform : [readable : BOOLEAN, whole : BOOLEAN, sandbox : BOOLEAN],
             flag : {"", "true", "false"}, crds : {{"claims"}, {"claims", "templates", "sandboxes"}}, k8sMode : BOOLEAN,
             backend : {"", "docker", "k8s-pod", "agent-sandbox"}]
MCOwners == [about : {"owner"}, pvc : [owners : SUBSET {"other"}], exists : BOOLEAN, uid : {"", "job"},
             others : [1 .. 4 -> SUBSET {"x", "y"}]]

\* Two runs to watch, one with an event to begin with.
MCWritten == <<2, 1>>

\* What executeStep stores of two steps, through crashes, reworks and quality gates, with
\* what else is in the file.
Stored(kind, step) == [of |-> "r", kind |-> kind, step |-> step, data |-> ""]
StepWord == {Stored(kind, n) : kind \in {"step.started", "step.completed", "step.failed", "step.rework_triggered"}, n \in {1, 2}}
MayFollow(h, e) ==
  LET last == After(Append(h, e), Len(h) + 1)
  IN  CASE e.kind = "step.started" -> TRUE
        [] e.kind = "step.completed" -> last = "step.started"
        [] e.kind = "step.failed" -> last \in {"step.started", "step.completed", "step.rework_triggered"}
        [] OTHER -> last \in {"step.started", "step.completed"}
Grown(bodies) == bodies \cup {h \in {Append(b, w) : b \in bodies, w \in StepWord} : MayFollow(Front(h), Last(h))}
Bodies == Grown(Grown(Grown(Grown(Grown({<<>>})))))
SandboxEvent(kind, sandbox) == [of |-> "r", kind |-> kind, step |-> 0,
                                data |-> [sandbox |-> sandbox, backend |-> "", volume |-> sandbox]]
Other == [of |-> "other", kind |-> "step.started", step |-> 1, data |-> ""]
SavedState(run) == [run |-> run, state |-> "as saved"]
MCResumed ==
  {[about |-> "rebuild", saved |-> <<>>, events |-> prefix \o body \o suffix,
    session |-> [run |-> "r", ticket |-> "words", status |-> "executing"]] :
   body \in Bodies,
   prefix \in {<<>>, <<Other>>, <<[Stored("task.created", 0) EXCEPT !.data = "ticket"], [Stored("task.plan_generated", 0) EXCEPT !.data = "plan"],
                                  SandboxEvent("sandbox.created", "box")>>},
   suffix \in {<<>>, <<SandboxEvent("sandbox.resumed", "")>>}}
  \cup [about : {"rebuild"}, saved : {<<SavedState("r")>>, <<SavedState("other")>>},
        events : {<<>>, <<Stored("task.plan_generated", 0), Stored("step.started", 1)>>},
        session : {[run |-> "r", ticket |-> "words", status |-> "executing"]}]

Executed == [step : {1, 2}, status : {"completed"}, result : {{}, {"x"}, {"y"}}]
              \cup [step : {1, 2, 901}, status : {"failed", "needs_rework"}, result : {{"z"}}]
MCReviewed == [about : {"review step"}, execs : SeqOf(Executed, 3), deps : SUBSET {1, 2}, after : {1, 2}]

Settings == {<<>>, [qa |-> "codex"], [developer |-> "claude-code"], [qa |-> "claude-code", developer |-> "codex"]}
Providers == {<<>>, [qa |-> "openai"], [developer |-> "google"]}
BudgetRule == [when : {"always"}, value : {""}, budget : {[cost |-> 1], [tokens |-> 2, reworks |-> 3]}]
                \cup [when : {"label"}, value : {"big", "small"}, budget : {[cost |-> 4]}]
                \cup [when : {"priority", "classification"}, value : {"p0"}, budget : {[tokens |-> 5]}]
MCAgentSettings ==
  LET one == [about |-> "agent", agent |-> "qa", role |-> "developer",
              models |-> [overrides |-> <<>>, defaults |-> <<>>], runtimes |-> [overrides |-> <<>>, defaults |-> <<>>],
              keys |-> <<>>, local |-> FALSE, base |-> [cost |-> 9, tokens |-> 9], overrides |-> <<>>, rules |-> <<>>,
              ticket |-> [labels |-> {"big"}, priority |-> "p0"], stage |-> "", flow |-> <<>>, types |-> {"developer"}, file |-> <<>>]
  IN  {[one EXCEPT !.models.overrides = a, !.models.defaults = b, !.runtimes.overrides = c, !.runtimes.defaults = d,
                   !.keys = k, !.local = l] :
         a, b \in Providers, c, d \in Settings, k \in {<<>>, [openai |-> "ko"], [openai |-> "ko", anthropic |-> "ka"]}, l \in BOOLEAN}
        \cup {[one EXCEPT !.overrides = o, !.rules = r] : o \in {<<>>, [tokens |-> 7]}, r \in SeqOf(BudgetRule, 3)}
        \cup {[one EXCEPT !.agent = a, !.stage = s, !.flow = f, !.types = t, !.file = i] :
                a \in {"qa", "developer"}, s \in {""} \cup Stages, t \in SUBSET {"developer", "qa"},
                f \in {<<>>, <<[developer |-> "developer", qa |-> "", merge |-> "qa"]>>}, i \in {<<>>, <<"">>, <<"qa">>, <<"own">>}}

MCBudgets == [about : {"budget"}, cap : {0, 10}, spent : {t \in [1 .. 4 -> 0 .. 12] : \A i \in 1 .. 3 : t[i] <= t[i + 1]}]
MCStacks == [about : {"stack"}, skip : BOOLEAN, env : {""}, configured : {"", "mirror"}, reachable : SUBSET {"npmjs", "mirror"},
             files : SUBSET {"go.mod", "requirements.txt", "package.json", "uv.lock", "yarn.lock", "Gemfile"},
             broken : {{}, {"tsc"}, {"go test"}, {"lint", "go build"}}]
MCLogs == [about : {"log"}, text : SeqOf({1, 2, 4}, 6), room : {4, 6}, fails : 0 .. 3]

\* What Claude says: its words and the calls of its tools, in the message that it is in, in
\* the content beside it, in a block by itself, or named by the block and not by its input.
Asks(command, path) == [command |-> command, path |-> path]
Block(type, tool, input) == [type |-> type, tool |-> tool, input |-> input, own |-> Asks("", "")]
MCBlock == {Block("text", "", Asks("", "")), Block("thinking", "", Asks("", ""))}
             \cup {Block("tool_use", "Bash", Asks(c, "")) : c \in {"ls", "rm"}}
             \cup {Block("tool_use", "Edit", Asks("", p)) : p \in {"src", "env", "out"}}
             \cup {Block("tool_use", "Task", Asks("", "")), Block("tool_use", "Both", Asks("ls", "env"))}
OtherBlock == {Block("server_tool_use", "Web", Asks(c, "")) : c \in {"ls", "rm"}}
                \cup {[Block("tool_use", "Bash", Asks("ls", "")) EXCEPT !.own = Asks(c, "")] : c \in {"ls", "rm"}}
                \cup {[Block("tool_use", "Edit", Asks("", "src")) EXCEPT !.own = Asks("", "env")]}
List(blocks) == [list |-> TRUE, blocks |-> blocks]
Single(block) == [list |-> FALSE, blocks |-> <<block>>]
Message(type, inner) == [type |-> type, content |-> NoContent, inner |-> List(inner), tool |-> "", command |-> "", path |-> "",
                         session |-> "", tokens |-> 0, cost |-> -1]
RunsOne == {Block("tool_use", "Bash", Asks(c, "")) : c \in {"ls", "rm"}}
MCMessage == {Message("assistant", blocks) : blocks \in SeqOf(MCBlock, 2)}
               \cup {Message("assistant", blocks) : blocks \in SeqOf(OtherBlock, 1) \cup {<<a, b>> : a \in RunsOne, b \in OtherBlock}}
               \cup {[Message("assistant", <<>>) EXCEPT !.content = c, !.inner = i] :
                        c \in {NoContent} \cup {List(<<b>>) : b \in RunsOne} \cup {Single(b) : b \in RunsOne},
                        i \in {NoContent, List(<<>>)} \cup {List(<<b>>) : b \in RunsOne} \cup {Single(b) : b \in RunsOne}}
               \cup {[Message("system", <<>>) EXCEPT !.session = "s1"], [Message("result", <<>>) EXCEPT !.session = "s2", !.tokens = 5, !.cost = 1]}
               \cup {[Message("tool_progress", <<>>) EXCEPT !.tool = "Bash", !.command = c] : c \in {"ls", "rm"}}
Guards(commands, allow, deny) == <<[commands |-> commands, allow |-> allow, deny |-> deny]>>
MCGuards == {<<>>, Guards({"rm"}, {}, {}), Guards({}, {"src", "env"}, {}), Guards({}, {"src", "env"}, {"env"}), Guards({"rm"}, {}, {"env"})}
MCBrief == {Message("assistant", blocks) : blocks \in SeqOf(MCBlock, 1)} \cup {m \in MCMessage : m.type # "assistant"}
MCTalks == [about : {"talk"}, guards : MCGuards,
            messages : SeqOf(MCMessage, 1) \cup {<<a, b>> : a \in MCMessage, b \in MCBrief} \cup {<<b, a>> : a \in MCMessage, b \in MCBrief}]

\* Three messages, cut into chunks at up to three places, the last line ended or not.
Text(messages, ends) ==
  FlattenSeq([i \in DOMAIN messages |-> [k \in 1 .. 3 |-> [of |-> i, part |-> k, whole |-> TRUE]]
                                         \o (IF i < Len(messages) \/ ends THEN <<EndOfLine>> ELSE <<>>)])
Cut(text, cuts) ==
  LET ends == SelectSeq([i \in 1 .. (Len(text) + 1) |-> i - 1], LAMBDA n : n \in cuts \cup {0, Len(text)}) IN [i \in 1 .. (Len(ends) - 1) |-> SubSeq(text, ends[i] + 1, ends[i + 1])]
Cuts(text) == UNION {kSubset(k, 1 .. (Len(text) - 1)) : k \in 0 .. 3}
MCStreams == UNION {{[about |-> "stream", chunks |-> Cut(Text(m, ends), cuts), messages |-> m, ends |-> ends] :
                       cuts \in Cuts(Text(m, ends))} :
                     ends \in BOOLEAN,
                     m \in {<<a, b, c>> : a \in {[Message("system", <<>>) EXCEPT !.session = "s1"], Message("assistant", <<Block("tool_use", "Bash", Asks("ls", ""))>>)},
                                          b \in {Message("assistant", <<Block("thinking", "", Asks("", "")), Block("tool_use", "Edit", Asks("", "src"))>>),
                                                 [Message("result", <<>>) EXCEPT !.tokens = 3]},
                                          c \in {[Message("result", <<>>) EXCEPT !.session = "s2", !.tokens = 5, !.cost = 1]}}}

Item(id, type, command, paths) == [id |-> id, type |-> type, command |-> command, paths |-> paths, path |-> "", tool |-> "",
                                   text |-> IF type = "agent_message" THEN id ELSE ""]
CodexEvent ==
  [type : {"item.started", "item.completed"}, tokens : {0},
   item : {Item("i1", "command_execution", c, <<>>) : c \in {"", "ls", "rm"}}
            \cup {Item("i2", "file_change", "", p) : p \in {<<"src">>, <<"src", "env">>}}
            \cup {Item("i3", "agent_message", "", <<>>), Item("i4", "reasoning", "", <<>>)}]
    \cup [type : {"turn.completed", "turn.failed"}, tokens : {3}, item : {Item("", "", "", <<>>)}]
MCTurns == [about : {"turn"}, guards : {<<>>, <<[commands |-> {"rm"}, allow |-> {}, deny |-> {"env"}]>>}, events : SeqOf(CodexEvent, 3)]
MCOutputs == [about : {"output"}, word : {0, 4},
              lines : SeqOf([json : {TRUE}, tokens : {-1, 0, 2}, used : {-1, 3}, thread : {"", "t1"}]
                              \cup [json : {FALSE}, tokens : {-1}, used : {-1}, thread : {""}], 3)]
MCOutside == {"out"}
=============================================================================
