----------------------------- MODULE IntakeRules -----------------------------
\* How a webhook becomes a queued run, in the dispatch controller and in the monitor:
\* which project it is for, whether it is believed, whether it asks for a run, and
\* whether it was seen before.
EXTENDS Naturals, Sequences, FiniteSets, SequencesExt, FiniteSetsExt

\* A project's file, with "" or {} for what it leaves out; a request of a webhook and one
\* of the API.
RawProjectType ==
  [id : STRING, readable : BOOLEAN, source : STRING, scm : STRING, repo : STRING, teams : SUBSET STRING,
   top : STRING, own : STRING, events : SUBSET STRING, secret : STRING, command : STRING, workflow : BOOLEAN]
WebhookType ==
  [source : {"github", "linear"}, repo : STRING, teams : SUBSET STRING, event : STRING, json : BOOLEAN,
   signed : STRING, fresh : BOOLEAN, issue : STRING, labelled : BOOLEAN, commands : BOOLEAN, ticket : BOOLEAN,
   task : BOOLEAN, delivery : STRING, change : Nat]
ApiRequestType ==
  [source : {"api"}, json : BOOLEAN, token : STRING, project : STRING, from : STRING, ticket : BOOLEAN]

\* normalizeGitHubAutoexecuteConfig and normalizeLinearAutoexecuteConfig: a source that
\* does not say whether it is enabled takes what `autoexecute' says.
Enabled(raw) == (IF raw.own # "" THEN raw.own ELSE raw.top) = "true"
GitHubConfig(raw) ==
  [enabled |-> Enabled(raw), secret |-> raw.secret, needsCommand |-> raw.command \in {"", "true"},
   events |-> IF raw.events # {} THEN raw.events
              ELSE {"issue_comment.created", "pull_request.opened", "pull_request.synchronize", "pull_request.reopened"}]
LinearConfig(raw) ==
  [enabled |-> Enabled(raw), secret |-> raw.secret, needsCommand |-> raw.command = "true",
   events |-> IF raw.events # {} THEN raw.events ELSE {"Issue.create", "Issue.update", "Comment.create"}]
\* The monitor's own versions, used when the compiled module is missing.
MonitorGitHubConfig(raw) ==
  [GitHubConfig(raw) EXCEPT !.events = IF raw.events # {} THEN raw.events ELSE {"issue_comment.created"}]
MonitorLinearConfig(raw) ==
  [LinearConfig(raw) EXCEPT !.events = IF raw.events # {} THEN raw.events ELSE {"Issue.create"}]

\* verifyGitHubSignature, verifyLinearSignature: the digest is of the secret it was made with.
Verified(req, secret) == secret # "" /\ req.signed = secret

\* extractGitHubTrigger: an issue, never a pull request's conversation
GitHubTriggers(req, cfg) ==
  /\ req.issue = "issue"
  /\ req.event \in cfg.events
  /\ CASE req.event = "issues.opened" -> ~cfg.needsCommand
       [] req.event = "issues.labeled" -> req.labelled
       [] req.event = "issue_comment.created" -> req.commands
       [] OTHER -> FALSE

\* extractLinearTrigger
LinearTriggers(req, cfg) ==
  /\ req.event \in cfg.events
  /\ req.ticket
  /\ IF req.event = "Comment.create" THEN req.commands ELSE ~cfg.needsCommand

\* The monitor's copies of them, for when the compiled module is missing, decide alike.
MonitorVerified(req, secret) == Verified(req, secret)
MonitorGitHubTriggers(req, cfg) == GitHubTriggers(req, cfg)
MonitorLinearTriggers(req, cfg) == LinearTriggers(req, cfg)

-----------------------------------------------------------------------------
\* loadProjects of the dispatch controller; the repository may be named by the source
\* or by the SCM, and a Linear project need not name its team.  A file that cannot be
\* read, or names nobody, is of a project that nothing is for.
Nothing == [enabled |-> FALSE]
DispatchProjects(raws) ==
  [i \in DOMAIN raws |->
    LET r == raws[i]
        kept == r.readable /\ r.id # ""
    IN  [raw |-> r,
         github |-> IF kept /\ "github" \in {r.source, r.scm} /\ r.repo # "" THEN GitHubConfig(r) ELSE Nothing,
         linear |-> IF kept /\ r.source = "linear" THEN LinearConfig(r) ELSE Nothing]]

\* loadAutoexecuteProjects of the monitor: only enabled ones, by their ticket source.
MonitorProjects(raws, compiled) ==
  LET GitHub(r) == IF compiled THEN GitHubConfig(r) ELSE MonitorGitHubConfig(r)
      Linear(r) == IF compiled THEN LinearConfig(r) ELSE MonitorLinearConfig(r)
  IN  [i \in DOMAIN raws |->
        LET r == raws[i] IN
        [raw |-> r,
         github |-> IF r.readable /\ r.source = "github" /\ r.repo # "" THEN GitHub(r) ELSE Nothing,
         linear |-> IF r.readable /\ r.source = "linear" /\ r.teams # {} THEN Linear(r) ELSE Nothing]]

\* findGitHubProject: those that name the repository, of which the first is meant
FindGitHub(projects, req) ==
  {i \in DOMAIN projects : projects[i].github.enabled /\ projects[i].raw.repo = req.repo}
\* findLinearProject: those that name a team of the issue, or no team at all
FindLinear(projects, req) ==
  {i \in DOMAIN projects : /\ projects[i].linear.enabled
                           /\ projects[i].raw.teams = {} \/ projects[i].raw.teams \cap req.teams # {}}
\* findAutoexecuteProject
MonitorFindGitHub(projects, req) ==
  {i \in DOMAIN projects : projects[i].github.enabled /\ projects[i].raw.repo = req.repo}
\* findLinearAutoexecuteProject: a team that several projects name is nobody's.
MonitorFindLinear(projects, req) ==
  LET named == {i \in DOMAIN projects : projects[i].linear.enabled /\ projects[i].raw.teams \cap req.teams # {}}
  IN  IF Cardinality(named) = 1 THEN named ELSE {}

-----------------------------------------------------------------------------
\* The intake: deliveries seen, runs queued, and the answers given.
Intake == [seen |-> {}, queue |-> <<>>, answers |-> <<>>]
Answer(s, code) == [s EXCEPT !.answers = Append(@, code)]
\* shouldDedupe and enqueue: the delivery is remembered first.
Queue(s, project, req, delivery, resolved) ==
  LET key == <<project.raw.id, delivery>>
  IN  IF key \in s.seen THEN Answer(s, "ignored")
      ELSE IF ~resolved THEN Answer([s EXCEPT !.seen = @ \cup {key}], "ignored")
      ELSE Answer([s EXCEPT !.seen = @ \cup {key},
                            !.queue = Append(@, [project |-> project.raw, req |-> req])], "queued")
\* What a delivery is remembered by: its identifier, else the change it tells of.
Delivered(req) == IF req.delivery # "" THEN <<req.delivery>> ELSE <<req.event, req.change>>

\* handleGitHubWebhook of the dispatch controller
DispatchGitHub(s, projects, req) ==
  LET found == FindGitHub(projects, req)
      p     == projects[Min(found)]
      wanted == IF p.raw.workflow /\ req.issue = "pull" THEN req.event \in p.github.events /\ req.task
                ELSE GitHubTriggers(req, p.github)
  IN  IF ~req.json \/ req.repo = "" THEN Answer(s, "400")
      ELSE IF found = {} THEN Answer(s, "ignored")
      ELSE IF p.github.secret = "" THEN Answer(s, "403")
      ELSE IF ~Verified(req, p.github.secret) THEN Answer(s, "401")
      ELSE IF ~wanted THEN Answer(s, "ignored")
      ELSE Queue(s, p, req, Delivered(req), TRUE)

\* handleLinearWebhook of the dispatch controller: with a workflow, a change of state
\* that starts no stage is remembered and ignored.
DispatchLinear(s, projects, req) ==
  LET found == FindLinear(projects, req)
      p     == projects[Min(found)]
  IN  IF ~req.json THEN Answer(s, "400")
      ELSE IF found = {} THEN Answer(s, "ignored")
      ELSE IF p.linear.secret = "" THEN Answer(s, "403")
      ELSE IF ~Verified(req, p.linear.secret) \/ ~req.fresh THEN Answer(s, "401")
      ELSE IF ~LinearTriggers(req, p.linear) THEN Answer(s, "ignored")
      ELSE Queue(s, p, req, Delivered(req), ~p.raw.workflow \/ req.task)

\* handleGitHubWebhookRequest of the monitor
MonitorGitHub(s, projects, req) ==
  LET found == MonitorFindGitHub(projects, req)
      p     == projects[Min(found)]
  IN  IF ~req.json \/ req.repo = "" THEN Answer(s, "400")
      ELSE IF found = {} THEN Answer(s, "ignored")
      ELSE IF p.github.secret = "" THEN Answer(s, "403")
      ELSE IF ~MonitorVerified(req, p.github.secret) THEN Answer(s, "401")
      ELSE IF req.delivery = "" THEN Answer(s, "400")
      ELSE IF ~MonitorGitHubTriggers(req, p.github) THEN Answer(s, "ignored")
      ELSE Queue(s, p, req, Delivered(req), TRUE)

\* handleLinearWebhookRequest of the monitor
MutMonitorLinear(s, projects, req) ==
  LET found == FindLinear(projects, req)
      p     == projects[Min(found)]
  IN  IF ~req.json THEN Answer(s, "400")
      ELSE IF found = {} THEN Answer(s, "ignored")
      ELSE IF p.linear.secret = "" THEN Answer(s, "403")
      ELSE IF ~MonitorVerified(req, p.linear.secret) \/ ~req.fresh THEN Answer(s, "401")
      ELSE IF ~MonitorLinearTriggers(req, p.linear) THEN Answer(s, "ignored")
      ELSE IF req.delivery = "" THEN Answer(s, "400")
      ELSE Queue(s, p, req, Delivered(req), TRUE)
MonitorLinear(s, projects, req) ==
  LET found == MonitorFindLinear(projects, req)
      p     == projects[Min(found)]
  IN  IF ~req.json THEN Answer(s, "400")
      ELSE IF found = {} THEN Answer(s, "ignored")
      ELSE IF p.linear.secret = "" THEN Answer(s, "403")
      ELSE IF ~MonitorVerified(req, p.linear.secret) \/ ~req.fresh THEN Answer(s, "401")
      ELSE IF ~MonitorLinearTriggers(req, p.linear) THEN Answer(s, "ignored")
      ELSE IF req.delivery = "" THEN Answer(s, "400")
      ELSE Queue(s, p, req, Delivered(req), TRUE)

-----------------------------------------------------------------------------
\* authorize of the dispatch controller and authorizeApiRequest of the monitor: with
\* no token configured everything is allowed; the write token also reads, and the read
\* token writes only where no write token is set.
Accepted(scope, readToken, writeToken) ==
  (CASE scope = "write" -> IF writeToken # "" THEN {writeToken} ELSE {readToken}
     [] OTHER -> {readToken, writeToken}) \ {""}
DispatchAuthorizes(scope, readToken, writeToken, provided) ==
  CASE readToken = "" /\ writeToken = "" -> "ok"
    [] OTHER -> IF provided = "" THEN "401"
                ELSE IF provided \in Accepted(scope, readToken, writeToken) THEN "ok" ELSE "403"

\* isValidProjectConfig
ValidConfig(raw) == raw.id # "" /\ raw.repo # "" /\ raw.source # ""

\* handleDispatchRun: a prompt needs no ticket, one is made up for it; nothing is
\* remembered, so the same request twice is two runs.
DispatchRun(s, projects, req, tokens) ==
  LET allowed == DispatchAuthorizes("write", tokens.read, tokens.write, req.token)
      named   == {i \in DOMAIN projects : projects[i].raw.readable /\ projects[i].raw.id = req.project}
      raw     == projects[Min(named)].raw
  IN  IF allowed # "ok" THEN Answer(s, allowed)
      ELSE IF ~req.json \/ req.project = "" \/ req.from = "" THEN Answer(s, "400")
      ELSE IF named = {} \/ ~ValidConfig(raw) THEN Answer(s, "404")
      ELSE IF ~req.ticket /\ req.from # "prompt" THEN Answer(s, "400")
      ELSE Answer([s EXCEPT !.queue = Append(@, [project |-> raw, req |-> req])], "queued")

\* The intake after the requests, of "dispatch", or of the "monitor" with or without
\* the compiled module.
Takes(program, raws, reqs, tokens) ==
  LET dispatched == DispatchProjects(raws)
      monitored  == MonitorProjects(raws, program = "compiled monitor")
      Take(s, req) ==
        CASE program = "dispatch" /\ req.source = "api" -> DispatchRun(s, dispatched, req, tokens)
          [] program = "dispatch" /\ req.source = "github" -> DispatchGitHub(s, dispatched, req)
          [] program = "dispatch" /\ req.source = "linear" -> DispatchLinear(s, dispatched, req)
          [] program # "dispatch" /\ req.source = "github" -> MonitorGitHub(s, monitored, req)
          [] program # "dispatch" /\ req.source = "linear" -> MonitorLinear(s, monitored, req)
  IN  FoldLeft(Take, Intake, reqs)

-----------------------------------------------------------------------------
\* A queued run was asked for by somebody who knows the secret of a project that is
\* enabled and that the request is about, once per delivery of that project; in the
\* monitor no other project names the same team.  Through the API only who has the
\* write token asks, where there is one.
IntakeSound(program, raws, tokens, s) ==
  LET hooked == {i \in DOMAIN s.queue : s.queue[i].req.source # "api"}
      Owns(r, req) == CASE req.source = "github" -> r.repo = req.repo
                        [] OTHER -> \/ r.teams \cap req.teams # {}
                                    \/ program = "dispatch" /\ r.teams = {}
      Rivals(req) == {i \in DOMAIN raws : /\ raws[i].readable /\ raws[i].source = "linear"
                                         /\ Enabled(raws[i]) /\ raws[i].teams \cap req.teams # {}}
  IN  /\ \A i \in hooked :
           LET p == s.queue[i].project
               req == s.queue[i].req
           IN  /\ Verified(req, p.secret) /\ Enabled(p) /\ Owns(p, req)
               /\ req.source = "linear" => req.fresh
               /\ req.source = "linear" /\ program # "dispatch" => Cardinality(Rivals(req)) = 1
      /\ \A i, j \in hooked :
           s.queue[i].project.id = s.queue[j].project.id /\ Delivered(s.queue[i].req) = Delivered(s.queue[j].req)
             => i = j
      /\ \A i \in DOMAIN s.queue \ hooked : tokens.write # "" => s.queue[i].req.token = tokens.write
=============================================================================
