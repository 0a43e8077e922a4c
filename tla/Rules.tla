-------------------------------- MODULE Rules --------------------------------
\* What the program decides by itself from one input: a plan and the rules it must
\* obey, requests that meet a rate limit, the state of a pull request, webhooks, a run to
\* show or to launch.  Each behaviour decides one input, or is a page watching a run.
EXTENDS PlanRules, IngestService, ReviewRules, IntakeRules, MonitorView, LaunchRules,
        RunRules, ActivityRules, MonitorFeed

CONSTANTS Plans, RuleLists, \* what planners return, and the rules that apply
          Arrivals, Windows, Limits, \* when requests come, and the limits configured
          Posts, \* what is posted to the ingestion service
          Summaries, Answers, Reactions, \* what GitHub answers, and the reactions configured
          Hooks, \* webhooks and the projects they meet
          Pages, Lists, Files, Hosts, \* what the monitor finds of runs
          Launches, Starts, Owners, \* tasks to launch, platforms, and volumes to attach
          Resumed, Reviewed, AgentSettings, Budgets, Stacks, Logs, \* what a run finds as it starts, goes on or is resumed
          Talks, Turns, Streams, Outputs \* what agents say

\* Each input says what it is of.
ASSUME AboutAssumption ==
  /\ \A s \in Posts : s.about = "posts"
  /\ \A s \in Hooks : s.about = "hooks"
  /\ \A s \in Pages : s.about = "page"
  /\ \A s \in Lists : s.about = "list"
  /\ \A s \in Files : s.about = "files"
  /\ \A s \in Hosts : s.about = "host"
  /\ \A s \in Launches : s.about = "launch"
  /\ \A s \in Starts : s.about = "start"
  /\ \A s \in Owners : s.about = "owner"
  /\ \A s \in Resumed : s.about = "rebuild"
  /\ \A s \in Reviewed : s.about = "review step"
  /\ \A s \in AgentSettings : s.about = "agent"
  /\ \A s \in Budgets : s.about = "budget"
  /\ \A s \in Stacks : s.about = "stack"
  /\ \A s \in Logs : s.about = "log"
  /\ \A s \in Talks : s.about = "talk"
  /\ \A s \in Turns : s.about = "turn"
  /\ \A s \in Streams : s.about = "stream"
  /\ \A s \in Outputs : s.about = "output"
ASSUME PlansAssumption ==
  /\ \A p \in Plans : p.steps \in Seq(StepType)
  /\ RuleLists \subseteq Seq(RuleType)
\* A clock does not go back; limits that are configured are positive.
ASSUME RatesAssumption ==
  /\ \A t \in Arrivals : t \in Seq(Nat) /\ \A i, j \in DOMAIN t : i < j => t[i] <= t[j]
  /\ Windows \cup Limits \subseteq Nat \ {0}
ASSUME PostsAssumption ==
  \A s \in Posts : /\ s.requests \in Seq(ToSet(s.requests))
                   /\ \A r \in ToSet(s.requests) : r.route \in Routes /\ r \in PostType(r.route)
ASSUME ReviewsAssumption ==
  /\ Summaries \subseteq SummaryType
  /\ Answers \subseteq Seq(AnswerType)
  /\ Reactions \subseteq [ci : ReactionType, review : ReactionType, merge : ReactionType]
\* The monitor has no requests of the API.
ASSUME HooksAssumption ==
  \A s \in Hooks :
    /\ s.program \in {"dispatch", "monitor", "compiled monitor"}
    /\ s.raws \in Seq(RawProjectType)
    /\ s.requests \in Seq(IF s.program = "dispatch" THEN WebhookType \cup ApiRequestType ELSE WebhookType)
    /\ s.tokens \in [read : STRING, write : STRING]
\* generateRunId makes names of one size: run, a time and eight characters.  A task that is
\* no prompt has a ticket, and its project was read from its file; the image and the
\* directory of the dispatcher have a platform file.
ASSUME LaunchesAssumption ==
  \A s \in Launches :
    /\ {s.task, s.other} \subseteq TaskType /\ s.prefix \in Seq(PieceType)
    /\ SizeOf(s.task.run) = 26 /\ SizeOf(s.other.run) = 26
    /\ s.task.source # "prompt" => s.task.ticket # Unset
    /\ s.task.project # Unset /\ s.task.project \o "-config" # Unset
    /\ s.file \in DOMAIN s.files /\ s.files[s.file] = s.task.project
    /\ PlatformFile \in DOMAIN s.files \cap DOMAIN s.image
ASSUME StartsAssumption == \A s \in Starts : s.platform \in [readable : BOOLEAN, whole : BOOLEAN, sandbox : BOOLEAN]
\* A job that was just made owns nothing yet.
ASSUME OwnersAssumption ==
  \A s \in Owners : /\ s.others \in Seq(ToSet(s.others))
                    /\ s.uid \notin s.pvc.owners /\ \A other \in ToSet(s.others) : s.uid \notin other

VARIABLES subject, \* the input
          verdict  \* what was decided, in a sequence of its own: <<>> until then

vars == <<subject, verdict, feedVars>>

PlanSubjects == [about : {"plan"}, plan : Plans, rules : RuleLists]
RateSubjects == [about : {"rate"}, times : Arrivals,
                 env : [window : Windows \cup {Undefined}, limit : Limits \cup {Undefined}]]
CheckSubjects == [about : {"checks"}, ci : Summaries]
ReviewSubjects == [about : {"review"}, answers : Answers, reactions : Reactions]
Watching == [about |-> "watch"]
DefaultRateLimit == [window |-> 2, limit |-> 2]

Init == /\ \/ subject \in PlanSubjects \/ subject \in RateSubjects \/ subject \in Posts
           \/ subject \in CheckSubjects \/ subject \in ReviewSubjects
           \/ subject \in Hooks \/ subject \in Pages \/ subject \in Lists \/ subject \in Files \/ subject \in Hosts
           \/ subject \in Launches \/ subject \in Starts \/ subject \in Owners
           \/ subject \in Resumed \/ subject \in Reviewed \/ subject \in AgentSettings \/ subject \in Budgets
           \/ subject \in Stacks \/ subject \in Logs
           \/ subject \in Talks \/ subject \in Turns \/ subject \in Streams \/ subject \in Outputs
           \/ subject = Watching
        /\ verdict = <<>>
        /\ IF subject = Watching THEN FeedInit ELSE FeedOff

Decides(about, decision) ==
  /\ verdict = <<>> /\ subject.about = about
  /\ verdict' = <<decision>>
  /\ UNCHANGED <<subject, feedVars>>

ValidatesPlan == Decides("plan", Validate(subject.plan, subject.rules))
LimitsRate ==
  LET limits == Loaded(DefaultRateLimit, subject.env, <<>>)
  IN  Decides("rate", Allowed(subject.times, limits.window, limits.limit))
ServesPosts == Decides("posts", Serves(subject.requests, subject.limits))
SummarisesChecks == Decides("checks", CISummary(subject.ci))
WatchesPullRequest == Decides("review", Polls(subject.answers, subject.reactions))
TakesHooks == Decides("hooks", Takes(subject.program, subject.raws, subject.requests, subject.tokens))
ShowsPage ==
  LET s == subject IN
  Decides("page", [page   |-> RunSummary(s.events, s.session, s.plan, "", s.handoff),
                   stored |-> StoredSummary(s.rows, s.record, s.plan, "", s.handoff)])
ListsRuns == Decides("list", ListRuns(subject.dirs, subject.sessions))
ShowsStep == Decides("files", [n \in {1, 2} |-> StepResult(subject.files, n, subject.lastDone)])
FindsHost == Decides("host", SandboxHost(subject.project, subject.cluster, NoCache(subject.project)))

LaunchesRun == Decides("launch", Launch(subject))
StartsDispatch == Decides("start", DispatchValid(subject.platform, subject.flag, subject.crds, subject.k8sMode))
OwnsVolume == Decides("owner", CreateJob(subject.pvc, subject.exists, subject.uid, subject.others))
RebuildsRun == Decides("rebuild", StateToResume(subject.saved, subject.events, subject.session))
AsksReview ==
  LET s == subject IN
  Decides("review step", [previous |-> GatherPreviousResults(s.execs, s.deps), review |-> Review(s.execs, s.after)])
ChoosesAgent == Decides("agent", ResolvesAgent(subject))
WarnsOfBudget == Decides("budget", BudgetWarnings(subject.cap, subject.spent))
PreparesWorkspace == Decides("stack", Prepared(subject))
PostsLog == Decides("log", FallbackLog(subject.text, subject.room, subject.fails))
HearsClaude == Decides("talk", ClaudeSdk(subject.guards, subject.messages))
HearsCodex == Decides("turn", CodexSdk(subject.guards, subject.events))
ReadsStream == Decides("stream", Streamed(subject.chunks, subject.messages))
CountsTokens == Decides("output", ParseTokenUsage(subject.lines, subject.word))
WatchesRun == subject = Watching /\ FeedNext /\ UNCHANGED <<subject, verdict>>

Next == ValidatesPlan \/ LimitsRate \/ ServesPosts \/ SummarisesChecks \/ WatchesPullRequest \/ TakesHooks
          \/ ShowsPage \/ ListsRuns \/ ShowsStep \/ FindsHost
          \/ LaunchesRun \/ StartsDispatch \/ OwnsVolume
          \/ RebuildsRun \/ AsksReview \/ ChoosesAgent \/ WarnsOfBudget \/ PreparesWorkspace \/ PostsLog
          \/ HearsClaude \/ HearsCodex \/ ReadsStream \/ CountsTokens
          \/ WatchesRun
Spec == Init /\ [][Next]_vars /\ FeedFairness
-----------------------------------------------------------------------------
Decided(about) == subject.about = about /\ verdict # <<>>

\* validate: an accepted plan can be executed, whatever the rules inject, and obeys them;
\* what they inject never makes a coherent plan fail.
PlansSound == Decided("plan") => /\ AcceptedPlanSound(subject.plan, subject.rules, verdict[1])
                                 /\ SoundPlanAccepted(subject.plan, subject.rules, verdict[1])
                                 /\ RulesHold(subject.plan, subject.rules, verdict[1])

\* The ingestion service.  With a window and a limit that are configured its rate limiter
\* lets only so many through and turns nobody away for longer than a window; what it
\* answered for, its tables hold, and Redis was told of.
RequestsKept ==
  /\ Decided("rate") /\ Undefined \notin {subject.env.window, subject.env.limit} =>
       RateBounded(subject.times, subject.env.window, subject.env.limit, verdict[1])
  /\ Decided("posts") => ServiceTrue(subject.requests, verdict[1])

\* LifecycleManager and the GitHub plugin: a summary is green only when everything is,
\* reworks end in a call for help, and a merge is announced only for what may be merged.
ReviewsSound ==
  /\ Decided("checks") => GreenOnly(subject.ci, verdict[1])
  /\ Decided("review") => WatchSound(subject.answers, subject.reactions, verdict[1])

\* The webhook handlers and the dispatch API: runs are started for who may ask for them,
\* for the project the request is about, and once per delivery.
RunsWereAsked ==
  Decided("hooks") => IntakeSound(subject.program, subject.raws, subject.tokens, verdict[1])

\* The monitor: what its pages, lists and steps say of the runs agrees with itself, with
\* what happened, and between the two places it is read from.
PagesTrue ==
  /\ Decided("page") => /\ PageTrue(subject.events, verdict[1].page)
                        /\ subject.session.snapshot = None => SamePage(verdict[1].page, verdict[1].stored)
  /\ Decided("list") => ListTrue(subject.dirs, subject.sessions, verdict[1])
  /\ Decided("files") => \A n \in {1, 2} : FilesTrue(subject.files, subject.rows, n, subject.lastDone)
  /\ Decided("host") => HostTrue(subject.project, subject.cluster)

\* dispatchTask and the manifests it makes, the `run' command and what it loads: a task
\* becomes the run it asks for, and nothing of it is mixed up with another's.
LaunchesSound ==
  /\ Decided("launch") => LaunchTrue(subject, verdict[1])
  /\ Decided("start") => StartTrue(subject)
  /\ Decided("owner") => OwnerTrue(subject, verdict[1])

\* The orchestration service: a run rebuilt from its events knows what was done, up to what
\* a quality gate or an exception took back after it was logged as completed, a step goes
\* on from what was accepted, with the agent, the key and the budget it should have,
\* and neither the warnings nor the log of a step say what is not so.
RunsSound ==
  LET s == subject IN
  /\ Decided("rebuild") => ResumedTrue(s.saved, s.events, s.session, verdict[1])
  /\ Decided("review step") => ReviewTrue(s.execs, s.deps, verdict[1].previous, verdict[1].review)
  /\ Decided("agent") => AgentTrue(s, verdict[1])
  /\ Decided("budget") => BudgetTrue(s.cap, s.spent, verdict[1])
  /\ Decided("stack") => StackTrue(s, verdict[1])
  /\ Decided("log") => LogTrue(s.text, s.room, verdict[1])

\* The runtimes: the first denied call that the guardrails are asked about stops the agent
\* and is not reported as done, a Codex turn says at its end what became of each item, and
\* what an agent used and did is read from its output however it arrives.
ActivitiesSound ==
  LET s == subject IN
  /\ Decided("talk") => GuardedTrue(s.guards, s.messages, verdict[1])
  /\ Decided("turn") => CodexTrue(s.guards, s.events, verdict[1])
  /\ Decided("stream") => StreamTrue(s.chunks, s.messages, s.ends, verdict[1])
  /\ Decided("output") => UsageTrue(TRUE, s.lines, s.word)
=============================================================================
