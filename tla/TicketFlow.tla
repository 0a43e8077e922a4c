------------------------------ MODULE TicketFlow ------------------------------
\* ticket_workflow for one Linear ticket: state changes and pull request events come
\* in as webhooks, start developer, qa and merge runs, and these push the branch,
\* open and merge the pull request and move the ticket on, which Linear and GitHub
\* report by webhooks again.
EXTENDS Naturals, Sequences, FiniteSets

CONSTANTS Titles,    \* the titles the ticket may have: the branch is named after one
          Slots,     \* max_concurrent_runs
          MaxActs,   \* bound: what people do to the ticket
          MaxRuns,   \* bound: tasks that are queued
          MaxHooks,  \* bound: webhooks that are sent
          MaxFaults  \* bound: what goes wrong outside

ASSUME TitlesAssumption == Titles # {} /\ IsFiniteSet(Titles)
ASSUME BoundsAssumption == /\ {Slots, MaxActs, MaxRuns, MaxHooks} \subseteq Nat \ {0}
                           /\ MaxFaults \in Nat

VARIABLES
  ticket,  \* [state, title] in Linear
  commits, \* of each branch on the remote: the stages that have pushed to it
  open,    \* branches with an open pull request
  merged,  \* of each branch: how many of its commits have been merged
  checked, \* of each branch: the most commits qa has had before it (history)
  hooks,   \* webhooks under way
  sent,    \* how many have been sent
  seen,    \* dedupe keys
  queue,   \* tasks in Redis
  runs,    \* tasks that have been dispatched, with the progress of their run
  acts,    \* what people have done
  faults

vars == <<ticket, commits, open, merged, checked, hooks, sent, seen, queue, runs, acts, faults>>
remote == <<commits, open, merged, checked>>
inbox == <<hooks, sent, seen>>

None == "none"
Stages == {"developer", "qa", "merge"}

Init ==
  /\ ticket \in [state : {"backlog"}, title : Titles]
  /\ commits = [b \in Titles |-> <<>>]
  /\ open = {}
  /\ merged = [b \in Titles |-> 0] /\ checked = [b \in Titles |-> 0]
  /\ hooks = {} /\ sent = 0 /\ seen = {}
  /\ queue = <<>> /\ runs = <<>>
  /\ acts = <<>> /\ faults = 0

-----------------------------------------------------------------------------
\* Linear and GitHub.  A webhook is [id, event, from, to, branch]; "from" is None
\* unless the state has changed.
StateHook(from, to) == [event |-> "Issue.update", from |-> from, to |-> to, branch |-> None]
EditHook == [event |-> "Issue.update", from |-> None, to |-> ticket.state, branch |-> None]
PrHook(branch) == [event |-> "pull_request", from |-> None, to |-> None, branch |-> branch]

Identified(hook, id) == [id |-> id, event |-> hook.event, from |-> hook.from, to |-> hook.to,
                         branch |-> hook.branch]
Sends(hook) ==
  /\ sent < MaxHooks
  /\ sent' = sent + 1
  /\ hooks' = hooks \cup {Identified(hook, sent + 1)}

\* issueUpdate to the state a ticket is in changes nothing and is not reported.
MovesTo(state) ==
  /\ ticket' = [ticket EXCEPT !.state = state]
  /\ IF ticket.state = state THEN UNCHANGED <<hooks, sent>> ELSE Sends(StateHook(ticket.state, state))

PersonMoves ==
  /\ Len(acts) < MaxActs /\ ticket.state # "todo"
  /\ acts' = Append(acts, "moves")
  /\ MovesTo("todo")
  /\ UNCHANGED <<remote, seen, queue, runs, faults>>

PersonRenames(title) ==
  /\ Len(acts) < MaxActs /\ title # ticket.title
  /\ acts' = Append(acts, "renames")
  /\ Sends(EditHook)
  /\ ticket' = [ticket EXCEPT !.title = title]
  /\ UNCHANGED <<remote, seen, queue, runs, faults>>

\* pull_request.opened and pull_request.synchronize, both allowed by default.
Pushes(branch, stage) ==
  /\ commits' = [commits EXCEPT ![branch] = Append(@, stage)]
  /\ IF branch \in open THEN Sends(PrHook(branch)) ELSE UNCHANGED <<hooks, sent>>

HookIsLost(hook) ==
  /\ hook \in hooks /\ faults < MaxFaults
  /\ faults' = faults + 1
  /\ hooks' = hooks \ {hook}
  /\ UNCHANGED <<ticket, remote, sent, seen, queue, runs, acts>>

-----------------------------------------------------------------------------
\* The dispatch controller.

Task(stage, branch) == [stage |-> stage, branch |-> branch]

\* resolveWorkflowStageForLinearTicket
MutStageOf(state) == CASE state = "todo" -> "developer" [] OTHER -> None
StageOf(state) == CASE state = "todo" -> "developer" [] state = "review" -> "qa" [] OTHER -> None

\* hasLinearWorkflowStateTransition, resolveLinearUpdatedFromStateName
StateChanged(hook) == hook.from # None

\* buildLinearWorkflowTask: an update that does not change the state asks for nothing.
LinearTask(hook) ==
  IF StateChanged(hook) /\ StageOf(hook.to) # None THEN <<Task(StageOf(hook.to), None)>> ELSE <<>>

\* buildGitHubWorkflowTask: the branch names the ticket.
PullRequestTask(hook) == <<Task("merge", hook.branch)>>

Resolved(hook) == IF hook.event = "pull_request" THEN PullRequestTask(hook) ELSE LinearTask(hook)

\* handleLinearWebhook, handleGitHubWebhook; a webhook that is sent again stays.
MutHandlesHook(hook, again) ==
  /\ hook \in hooks
  /\ again => faults < MaxFaults
  /\ faults' = IF again THEN faults + 1 ELSE faults
  /\ hooks' = IF again THEN hooks ELSE hooks \ {hook}
  /\ seen' = seen \cup {hook.id}
  /\ Len(queue) + Len(runs) < MaxRuns
  /\ queue' = queue \o Resolved(hook)
  /\ UNCHANGED <<ticket, remote, sent, runs, acts>>
HandlesHook(hook, again) ==
  /\ hook \in hooks
  /\ again => faults < MaxFaults
  /\ faults' = IF again THEN faults + 1 ELSE faults
  /\ hooks' = IF again THEN hooks ELSE hooks \ {hook}
  /\ seen' = seen \cup {hook.id}
  /\ IF hook.id \in seen THEN UNCHANGED queue
     ELSE /\ Len(queue) + Len(runs) < MaxRuns
          /\ queue' = queue \o Resolved(hook)
  /\ UNCHANGED <<ticket, remote, sent, runs, acts>>

\* processQueueOnce: the head of the queue, when a slot is free.
Live(i) == runs[i].phase \notin {"completed", "failed"}
Dispatches ==
  /\ queue # <<>> /\ Cardinality({i \in DOMAIN runs : Live(i)}) < Slots
  /\ queue' = Tail(queue)
  /\ runs' = Append(runs, [stage |-> Head(queue).stage, branch |-> Head(queue).branch,
                           phase |-> "starting", base |-> 0, ahead |-> FALSE])
  /\ UNCHANGED <<ticket, remote, inbox, acts, faults>>

-----------------------------------------------------------------------------
\* A run.

Becomes(i, phase) == runs' = [runs EXCEPT ![i].phase = phase]

\* resolveWorkflowBranchName, buildBranchName
BranchOf(r) == IF r.branch = None THEN ticket.title ELSE r.branch

\* handleTaskBody: the ticket as it is fetched now names the branch of a developer or
\* qa run.
\* checkoutPreparedBranch: qa and merge need a branch that exists.
NeedsBranch(stage) == stage \in {"qa", "merge"}
Prepares(i) ==
  LET branch == BranchOf(runs[i])
  IN  /\ runs[i].phase = "starting"
      /\ IF NeedsBranch(runs[i].stage) /\ commits[branch] = <<>>
           THEN Becomes(i, "failed")
           ELSE runs' = [runs EXCEPT ![i].phase = "working", ![i].branch = branch,
                                     ![i].base = Len(commits[branch])]
      /\ UNCHANGED <<ticket, remote, inbox, queue, acts, faults>>

\* The branch on the remote has not moved since this run fetched it, so a push is a
\* fast forward.
MutUpToDate(i) == TRUE
UpToDate(i) == Len(commits[runs[i].branch]) = runs[i].base

\* commitStepCheckpoint, when the agent has changed something; a developer always
\* does.  A push that fails is only reported.
Works(i, changes) ==
  LET r == runs[i]
  IN  /\ r.phase = "working"
      /\ r.stage = "developer" => changes
      /\ checked' = IF r.stage = "qa" THEN [checked EXCEPT ![r.branch] = IF r.base > @ THEN r.base ELSE @]
                  ELSE checked
      /\ IF changes /\ UpToDate(i)
           THEN \/ /\ Pushes(r.branch, r.stage)
                   /\ runs' = [runs EXCEPT ![i].phase = "finalizing", ![i].base = @ + 1]
                   /\ UNCHANGED faults
                \/ /\ faults < MaxFaults /\ faults' = faults + 1
                   /\ runs' = [runs EXCEPT ![i].phase = "finalizing", ![i].ahead = TRUE]
                   /\ UNCHANGED <<commits, hooks, sent>>
           ELSE /\ runs' = [runs EXCEPT ![i].phase = "finalizing", ![i].ahead = changes]
                /\ UNCHANGED <<commits, hooks, sent, faults>>
      /\ UNCHANGED <<ticket, open, merged, seen, queue, acts>>

\* The agent fails, or an API call is refused: nothing tries again.
RunFails(i) ==
  /\ Live(i) /\ faults < MaxFaults
  /\ faults' = faults + 1
  /\ Becomes(i, "failed")
  /\ UNCHANGED <<ticket, remote, inbox, queue, acts>>

\* resolveWorkflowStateTarget
TargetOf(stage) == IF stage = "merge" THEN "done" ELSE "review"

\* finalizeWorkflowRun, developer
FinishesDeveloper(i) ==
  /\ runs[i].stage = "developer" /\ runs[i].phase = "finalizing"
  /\ MovesTo(TargetOf(runs[i].stage))
  /\ Becomes(i, "completed")
  /\ UNCHANGED <<remote, seen, queue, acts, faults>>

\* finalizeWorkflowRun, qa: createPullRequest pushes again, and there a push that is
\* rejected fails the run.  Without a new commit GitHub opens no pull request, and the
\* run goes on all the same.
OpensPullRequest(i) ==
  LET b == runs[i].branch
      now == IF runs[i].ahead THEN Append(commits[b], "qa") ELSE commits[b]
  IN  /\ runs[i].stage = "qa" /\ runs[i].phase = "finalizing"
      /\ IF ~UpToDate(i)
           THEN Becomes(i, "failed") /\ UNCHANGED <<commits, open, hooks, sent>>
           ELSE /\ Becomes(i, "opened")
                /\ commits' = [commits EXCEPT ![b] = now]
                /\ open' = IF Len(now) > merged[b] THEN open \cup {b} ELSE open
                /\ IF open' # open \/ (b \in open /\ runs[i].ahead) THEN Sends(PrHook(b))
                   ELSE UNCHANGED <<hooks, sent>>
      /\ UNCHANGED <<ticket, merged, checked, seen, queue, acts, faults>>

FinishesQa(i) ==
  /\ runs[i].stage = "qa" /\ runs[i].phase = "opened"
  /\ MovesTo(TargetOf(runs[i].stage))
  /\ Becomes(i, "completed")
  /\ UNCHANGED <<remote, seen, queue, acts, faults>>

\* finalizeWorkflowRun, merge: detectPR finds open ones, and by the time mergePR asks
\* another run may have merged it; it merges the head the branch has then.
FindsPullRequest(i) ==
  /\ runs[i].stage = "merge" /\ runs[i].phase = "finalizing"
  /\ Becomes(i, IF runs[i].branch \in open THEN "found" ELSE "failed")
  /\ UNCHANGED <<ticket, remote, inbox, queue, acts, faults>>

\* getMergeability: a check that is failing or pending fails the run.
ChecksMergeability(i) ==
  /\ runs[i].phase = "found"
  /\ \/ Becomes(i, "mergeable") /\ UNCHANGED faults
     \/ faults < MaxFaults /\ faults' = faults + 1 /\ Becomes(i, "failed")
  /\ UNCHANGED <<ticket, remote, inbox, queue, acts>>

Merges(i) ==
  LET b == runs[i].branch
  IN  /\ runs[i].phase = "mergeable"
      /\ IF b \in open
           THEN /\ open' = open \ {b}
                /\ merged' = [merged EXCEPT ![b] = Len(commits[b])]
                /\ Becomes(i, "merged")
           ELSE Becomes(i, "failed") /\ UNCHANGED <<open, merged>>
      /\ UNCHANGED <<ticket, commits, checked, inbox, queue, acts, faults>>

MutFinishesMerge(i) ==
  /\ runs[i].stage = "merge" /\ runs[i].phase \in {"finalizing", "merged"}
  /\ MovesTo(TargetOf("merge"))
  /\ Becomes(i, "completed")
  /\ UNCHANGED <<remote, seen, queue, acts, faults>>
FinishesMerge(i) ==
  /\ runs[i].stage = "merge" /\ runs[i].phase = "merged"
  /\ MovesTo(TargetOf("merge"))
  /\ Becomes(i, "completed")
  /\ UNCHANGED <<remote, seen, queue, acts, faults>>

-----------------------------------------------------------------------------
RunSteps(i) ==
  \/ Prepares(i) \/ (\E changes \in BOOLEAN : Works(i, changes))
  \/ FinishesDeveloper(i) \/ OpensPullRequest(i) \/ FinishesQa(i)
  \/ FindsPullRequest(i) \/ ChecksMergeability(i) \/ Merges(i) \/ FinishesMerge(i)

Next ==
  \/ PersonMoves \/ \E title \in Titles : PersonRenames(title)
  \/ \E hook \in hooks : HookIsLost(hook) \/ \E again \in BOOLEAN : HandlesHook(hook, again)
  \/ Dispatches
  \/ \E i \in DOMAIN runs : RunSteps(i) \/ RunFails(i)

\* Webhooks are delivered, the consumer loop goes on, and a run comes to its end.
Fairness ==
  /\ \A id \in 1 .. MaxHooks : WF_vars(\E hook \in hooks : hook.id = id /\ HandlesHook(hook, FALSE))
  /\ WF_vars(Dispatches)
  /\ \A i \in 1 .. MaxRuns : WF_vars(i \in DOMAIN runs /\ RunSteps(i))

Spec == Init /\ [][Next]_vars /\ Fairness
=============================================================================
