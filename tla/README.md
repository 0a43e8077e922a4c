# A TLA+ verification project for SprintFoundry

SprintFoundry takes a ticket, has a planner write an execution plan for it, runs
the plan's steps with AI agents, and delivers the work as a pull request. These
modules model how it does that where tests reach badly: steps that run side by
side, rework inside rework, reviews that time out, runs that are killed and
resumed, several processes that write one file, posts that arrive late. TLC
checks the models on small instances; TLAPS proves the theorems of
`*_proofs.tla` for every instance.

Paths below are relative to the repository root.

## 1. The system

| Component | State it keeps | Operations | Interacts with |
|---|---|---|---|
| Plan execution engine (`src/service/orchestration-service.ts`, 897-1178 and 1182-1704) | `run` (status, steps, totals, `pr_url`), and local to one execution `completed`, `reworkCounts`, `reworkSignals`; `budgetConsentRequested` | `executePlan`, `executeStep`, gates, budget confirmation, `finalizeCompletedRun` | agent runner, planners, workspace plugin, session manager, event store, SCM |
| Run resume (same file, 512-604 and 2439-2695; `src/index.ts`, `auto-resume.ts`) | `run-state.json`, the session file | `resumeTask`, `rebuildRunStateFromEvents`, cancel, signal handler, auto-resume | engine, session manager |
| Task intake (same file, 607-815) | `run` | `handleTask`: fetch, workspace, plan, validate, execute | everything; a straight line with one `catch` |
| Planners (`orchestrator-agent.ts`, `runtime/*planner*`) | none | `generatePlan`, `planRework` | engine |
| Plan validator (`plan-validator.ts`) | none | rule injection, agent remapping, dependency checks | intake |
| Worktree plugin (`src/plugins/workspace-worktree`) | git worktrees and branches | create, merge and remove of sub-worktrees | engine |
| Dispatch controller (`dispatch-controller.ts`) | Redis: a queue and a set of active runs per project, dedupe keys | webhooks, `enqueue`, `processQueueOnce`, slots, Kubernetes objects | webhooks in, runs out |
| Snapshot controller and export (`k8s-run-snapshot-controller.ts`, `run-snapshot-export-service.ts`, `run-snapshot-store.ts`) | Kubernetes jobs, claims, volumes; object store; session snapshot fields | `reconcileOnce`, export | session manager |
| Session manager (`session-manager.ts`) | one JSON file per run | `persist`, `updateStatus`, `updateSnapshotState`, reconcile from events | engine, CLI, exporter, lifecycle |
| Event store and sink (`event-store.ts`, `event-sink-client.ts`) | buffer, two serial queues, log files | `store`, `initialize`, `close`, retried POST | engine, ingestion |
| Event ingestion (`event-ingestion-api.ts`, `event-ingestion-server.ts`) | SQL tables, Redis streams | ingest events, logs, results | sink, monitor |
| Lifecycle manager, notification router (`lifecycle-manager.ts`, `notification-router.ts`) | watched runs with counters | `watch`, `pollAll`, `check`, reactions | SCM, sessions |
| Ticket workflow (`ticket-workflow.ts`) | none | ticket state to stage and back | dispatch, `finalizeWorkflowRun` |
| Agent runner, runtimes and their session store (`agent-runner.ts`, `runtime/`, `runtime-session-store.ts`) | agent processes, `.agent-result.json`, `sessions.json`, a dispatcher of log chunks per execution | `run`, spawn, time out, kill, retry, record, `emit`, flush | engine, sink |
| Execution backends (`execution/`) | containers and sandbox claims; the handle in `run-state.json` | prepare, resume, tear down | engine, Docker, Kubernetes |
| Monitor (`monitor/`) | caches, watchers and open streams; a page's own state | webhooks, pages, lists, feeds | workspaces, database, Redis, browsers |
| Git, tracker, SCM adapters, CLI, configuration, metrics, Helm/k8s | external services | | |

What is hard about each, and what makes it correct:

- **Engine.** The members of a parallel group interleave at every `await` and
  share counters and totals; a rejected `Promise.all` leaves members running;
  rework nests. Correct: nothing starts on unaccepted or unreviewed work, the
  limits hold, a pull request contains all of the work and only reviewed work,
  the run ends.
- **Resume.** The process can die at any point, with fire-and-forget saves in
  flight. Correct: nothing undone counts as done, nothing is left running.
- **Validator.** Injection and renumbering are separate passes over a plan.
  Correct: every mandatory rule holds of the result, references stay valid.
- **Worktrees.** Crashes leave branches behind, merges conflict. Correct: work
  of a completed step is in the parent tree or the step is not completed.
- **Dispatch.** Slots are counted and taken in separate Redis calls, tasks are
  popped before they are safe, webhooks are redelivered. Correct: at most
  `max_concurrent_runs`, each accepted delivery runs once.
- **Snapshots.** A poll loop infers "finished" from the absence of pods.
  Correct: a volume is deleted only after its export, and then eventually.
- **Sessions and events.** Unlocked read-modify-write from several processes;
  a buffer flushed while events arrive; at-least-once posts. Correct: a
  cancellation and a snapshot are not lost, the log keeps the order of `store`.
- **Lifecycle.** Overlapping polls count the same failure. Correct: reactions
  within their retries, at most one merge.

## 2. Modules

| Module(s) | Models | Abstract specification | Proofs |
|---|---|---|---|
| `PlanExecution`, `PlanProperties`, `MCPlanExecution` | engine, resume | `PlanContract`: rounds of steps, gates, delivery | `PlanExecution_proofs` |
| `Dispatch`, `DispatchProperties`, `MCDispatch` | webhooks, queue, dedupe, slots, several dispatchers, Redis failures | | `Dispatch_proofs` |
| `SnapshotController`, `SnapshotProperties` | poll loop, pods, exporter job, takedown | | `HostedRun_proofs` |
| `SessionStore`, `SessionProperties`, `MCSession` | session file without a lock, cancel, signal, resume | | `HostedRun_proofs` |
| `EventLog`, `EventProperties` | event store, sink client, ingestion | `EventLedger`: logged, then received, then announced, once each | `EventLog_proofs` |
| `AgentRun`, `AgentProperties`, `MCAgent` | agents of a workspace from spawn to outcome, session records | | `AgentStep_proofs` |
| `StepLog`, `StepLogProperties` | log chunks of a step and the rows stored of them | | `AgentStep_proofs` |
| `TicketFlow`, `TicketProperties` | a ticket through developer, qa and merge runs | | `TicketFlow_proofs` |
| `RunHost`, `HostProperties`, `MCHost` | worktrees, branches, containers and claims of a run | | `RunHost_proofs` |
| `Rules`, `MCRules`, and the ten modules they combine | decisions on one input, and a monitor page | definitions written independently of the steps | `Rules_proofs` |

The modules of one component do not share variables with those of another; where
components meet, each side models the other by what it may do. To `PlanExecution`
the worktree plugin and the agents succeed or throw; `RunHost` and `AgentRun` show
how. `SessionStore` and `EventLog` take an execution as a sequence of events;
`PlanExecution` shows which executions there are. `TicketFlow` takes the
dispatcher's queue as a sequence; `Dispatch` shows that no task of it is lost.

## 3. PlanExecution

### State and actions

One behaviour is one run: `plan` is `run.validated_plan`, `status`, `steps`,
`cost`, `pr` are fields of `run`; `completed`, `reworkCounts`, `signals` are the
locals of `executePlan`. `ctl` says where `executePlan` stands. Each member of
the current round is a **lane**, a stack of pending `executeStep` calls with the
innermost first: a call that needs rework pushes the steps of its rework plan
one after the other, and is then replaced by a call that retries the step. A
sequential step is a round of one lane.

| Actions | Code |
|---|---|
| `LaunchParallel`, `LaunchSequential`, `PlanDeadlock` | the ready filter, `findParallelGroup`, the deadlock exit (914-984, 1083-1099) |
| `SubWorktreeFails`, `StartAgent`, `LimitReached`, `StartThrows` | `createSubWorktree`, and `executeStepBody` up to the agent (1224-1378) |
| `AgentCompletes`, `CommitFails`, `AgentFails`, `AgentSignalsRework`, `AgentNeedsRework` | what an agent may answer (1400-1704), with the inline rework loop and the `catch` |
| `QualityGatePasses`, `QualityGateFails` | the quality gate of developer steps and its retry (1522-1562); completing the bottom call merges the sub-worktree, or throws (966-984) |
| `GroupFails`, `GroupReplans`, `ReworkDone`, `GroupCompletes`, `LaneThrew` | after `Promise.all`: failures first, then one merged rework, else acceptance (986-1107) |
| `SkipConfirmation` ... `ConfirmationRefused` | `maybeRequireBudgetConfirmation` (1979-2019) |
| `SkipGate`, `RequestReview`, `ReviewApproved`, `ReviewRejected`, `GatesDone` | the gate loop (1119-1163); a rejection is also what a timed-out review returns (2893-2941) |
| `PlanCompleted`, `EngineThrows`, `Teardown`, `Finalize` | the end of `executePlan`, its `finally`, `finalizeCompletedRun` |
| `FlushRunState`, `ProcessDies`, `CancelSession`, `ResumeTask` | `persistSession`, the end of a process, `cancel`, `resumeTask` |

Two variables record history only: `integrated`, the steps whose last completed
execution is in the run's tree, and `approved`, the gated steps approved since
their last execution.

Abstractions. Tokens and dollars are one amount, `cost`: they matter only through
the comparisons with their limits. An agent that answers adds any amount of `Uses`
to it (1456-1457), at most `MostUsed`. A rework plan is a sequence of step numbers,
any numbers: the prompt asks for 900 and above "to avoid collisions"
(`orchestrator-agent.ts`, 276), but the answer is parsed and used as it is (153-156;
`claude-code-planner-runtime.ts`, 162-165). Only the fallback computes its number,
900 and the failed step's. An execution therefore has the number it is recorded
under (`num`) and, as history, the plan step it is of (`of`, 0 for a rework step).
`LimitReached` is enabled at any start because the task timeout may have
passed. The push of an execution and the blocking save after it are one step.
`run-state.json` and the session file are one record, except that a cancellation
may hit an older session of a completed run. Operator prompts, events, metrics
and notifications are left out, but they may throw where nothing catches them
(`MayThrow`). The choice between `run-state.json` and the state rebuilt from
events is in `RunRules`, a cancellation while the process is alive in `SessionStore`.

### Runs and bounds

| Run | Question | Bounds |
|---|---|---|
| `plan_core` | A run nobody interrupts, under fairness: `WorksOnSettled`, `DeliversReviewedWork`, `RetriesWithinLimit`, `SpendWithinOneRound`, refinement of `PlanContract` (`KeepsContract`), `Terminates` | `MaxRework` 2, `CostLimit` 4, agents that use 1 or 3; 302 thousand states |
| `plan_crash` | The same plans with a death at any point, a cancellation, and a resume from any failed step: `PrAccountsForEveryStep`, `NoOrphanExecution` | one crash, one resume, `MaxRework` 1, `CostLimit` 4, agents that use 1; 3.1 million states |

- Plans: a chain of two gated steps, a fork (two parallel steps, one gated, one
  developer, and a join), and a cycle behind a gated step with overlapping
  groups. Every branch of `executePlan` needs at most a group of two and one
  step behind it.
- In `plan_core` a step can be sent back twice and once too often, and the limit
  is reached inside a rework as well.
- Rework plans have one step (what the fallback answers) or two (what the prompt
  allows at most). Of the two, `902` is also the fallback's number for step 2, so that
  two steps can be under way with one number, and `2` is that of a plan step.
- Agents use 1 or 3 of a limit of 4: one that starts just below the limit goes over
  it by nearly all it uses, alone or beside another of its group.
- `plan_crash`: a resumed run starts from the disk alone, so a second death meets
  no new kind of state.

No run constrains the state space beyond these constants, and deadlock is
checked: a run that is over stutters in `Quiet`.

### Fairness

`Fairness` is weak fairness of the engine's and of the lanes' next step: the event
loop runs every continuation that is pending, an agent that does not return is
killed at `agent_timeout_minutes` (`process-utils.ts`, 106), and a review that
nobody decides is rejected at `human_gate_timeout_hours` (2893-2941). Nothing is
assumed of crashes, resumes or of what an agent answers. `Terminates` then rests
on the budget, and on `0` not being one of the `Uses` of the run: an agent that
asks for rework has added to the cost. Rework of rework that costs nothing has no
bound in the code.

### What is proved

`PlanExecution_proofs.tla`, from the named assumptions on the constants
(`PlansAssumption`: the validator's guarantees on a plan; `ReworkAssumption`:
rework plans are sequences of numbers; `UsesAssumption`: an agent uses at most
`MostUsed`; `BoundsAssumption`), which TLC evaluates in both runs. Nothing is
assumed of the numbers a planner gives its rework steps: they may meet those of plan
steps and of each other. All lane actions are first shown to have one common
effect (`LaneEffect`), so that most invariants have one proof for them.

- `TypeCorrect`. `TypeOK` alone is not inductive, since a lane could hold a call of
  any number and a running lane could be empty. `StructInv` adds that the calls of a
  lane are of its own step or of rework steps, that a running lane has a call on
  top, that a call with an agent at work has an execution, and that an open review
  is of a step still to be visited.
- `GatesHold` (`GateBeforeDependents`), from `GateInv`: while executePlan decides
  what to run, every completed gated step is approved; while it is in the gate
  loop, it is approved or still to be visited; a reviewed execution is of a
  completed and approved step; and a lane is never of a completed step. A rework
  step is recorded as an execution of no plan step, even under the number of one,
  which is why it cannot withdraw an approval others rely on.
- `WorkIsOnSettled` (`WorksOnSettled`), from `SettledInv`: what executePlan took
  for completed stays so, because a lane touches executions of its own step and of
  rework steps, its bottom call decides on the latest execution of the step, and a
  lane ends as completed only by that call.
- `DeliversReviewed` (`DeliversReviewedWork`), from `DeliveryInv`: a run becomes
  completed from the loop only, where no lane is left and every gate has been
  visited; a run with a pull request does nothing any more.
- `RetriesBounded` (`RetriesWithinLimit`), from `RetryInv`, which counts the
  executions sent back against `reworkCounts`, whose value a call has read before
  others change it: each kind of retry must have counted before it starts again. It
  is about steps whose number no rework step was given (`OwnNumber`): `reworkCounts`
  is keyed by number, so that a rework step numbered like a plan step shares its
  counter, and the plan step may be sent back once too often or too early.
- `SpendIsBounded` (`SpendWithinOneRound`), from `SpendInv`: the agents at work are
  of one group, each was started below the limit and adds at most `MostUsed`. The
  bound counts all of them: nothing is compared while agents run, so that a single
  agent may go over the limit by nearly all it uses.
- `PrIsAccountedFor` (`PrAccountsForEveryStep`), from `AccountInv`, which holds
  over the disk's copy of the steps as well, so that it survives a crash with saves
  in flight and a resume from any step. It speaks of executions under a step's
  number: a resume counts by number (2686-2695), and takes the completed rework step
  that was given a plan step's number for that step.
- `NoneOrphaned` (`NoOrphanExecution`), from `OwnerInv`: each execution in progress
  is named by exactly one call, and a call knows its execution by an index that
  others do not move.
- `ContractKept`: `Spec /\ [](crashes = 0) => KeepsContract`, step by step: the
  actions of a round's start, acceptance, approval and end map to those of
  `PlanContract`, all others to a stutter. A run that is resumed accepts again what
  was accepted and does not keep the contract, hence the hypothesis.

Only model-checked: `Terminates`.

## 4. Dispatch

### State and actions

`queue` and `slots` are the Redis list and the sorted set of active runs of each
project, `seen` the dedupe keys, `lapsed` the runs whose score in a sorted set
has passed. A request is named for the run id its handler makes, so that a task,
its slot and its run share one name. `handler` is where the HTTP handler of a
request stands, `pc` and `task` where `processQueueOnce` stands in each
dispatcher process and the task it popped. `runs` is the run in the world: the
child process, or the pod behind a sandbox claim. `dropped` (tasks given up) and
`windows` (how often a delivery's key was set) record history only.

| Actions | Code |
|---|---|
| `Receive`, `FirstDelivery`, `DuplicateEvent`, `NotResolved`, `Enqueue`, `HandlerThrows` | the webhook and API handlers, `shouldDedupe`, `enqueueInternal` |
| `Pop`, `SkipRun` | `brPop` over all queues in the order of the projects; a project whose configuration became invalid |
| `PurgeLapsed`, `CountActive`, `TakeSlot`, `Requeue` | `tryAcquireProjectSlot`, three Redis calls, and the push back when there is no slot |
| `StartRun`, `StartThrows`, `LocalRunReturns`, `ReleaseSlot`, `ReleaseThrows` | `dispatchTask` and the release of the slot: after the child exits (local), after a failure only (Kubernetes) |
| `ConsumerThrows`, `DispatcherDies` | `runConsumerLoop` going on after an error; the end of a process |
| `RunEnds`, `LeaseLapses`, `DedupeExpires`, `ComesAgain` | pods, orphaned children, and time; requests that never stop coming |

Every Redis call is a step of its own, so that dispatchers and handlers
interleave between any two. A call that throws may have had its effect.

Abstractions. Time is not a clock: a lease may lapse and a dedupe key expire at
any point, in any order, which contains every schedule of the real times to live.
Signatures, event types, trigger rules and the Kubernetes manifests decide which
requests get as far as the dedupe check, or what a run is made of; they change no
state of the controller and are left out. A task pushed back keeps its run id, as
in the code.

### Runs and bounds

| Run | Question | Bounds |
|---|---|---|
| `dispatch_core` | Two dispatchers and two projects under fairness, in both modes: `EveryTaskServed` | three requests at a time, each of which comes again without end, one slot for each project; 9.9 thousand states |
| `dispatch_faults` | One delivery received twice and an API request, with everything that may fail: `QuotaHonoured`, `OneRunPerDelivery`, `TaskInOnePlace` | two dispatchers, one project, one slot, three tasks; 854 thousand states |

`EveryTaskServed` is conditional. `brPop` looks at its lists in one fixed order, that
of the projects (1530, 1812), and a task that finds no slot is pushed back behind
those of its own project (1831): a list in front that never runs empty starves the
ones after it, and a stream of requests for its own project can keep a task from the
slot. `Recurring` requests make such streams part of the model. A queued task is
started or given up if from some time on requests come only for projects behind its
own (`NoneInFront`); without that premise TLC finds the starvation. Nothing in the
code ages a task or gives it a priority.

Two dispatchers are the fewest that race; a third adds one to the overshoot,
which the theorem covers for any number. One slot for each project makes every
second task find it full. Three tasks are one holding the slot, one racing and
one waiting behind. Two projects are needed only for the order `brPop` gives the
queues, which is a question of liveness. The dispatchers are interchangeable
where `dispatch_faults` declares it so; `dispatch_core` uses no symmetry.

`max_concurrent_runs` itself is not kept: two dispatchers count before either adds,
and a run that outlives its lease is no longer counted. What holds is
`QuotaOvershoot`, at most one slot too many for each further dispatcher, and
`LiveRunsHoldSlots`; together they are `QuotaHonoured`.

### Fairness

Weak fairness of `ProcessQueueOnce` for each dispatcher: the consumer loop runs
until the process ends, and a restarted process runs it again. Of
`LocalRunReturns`: a child process runs one plan, whose end is `Terminates` of
`PlanExecution`. Of `LeaseLapses`: time passes. Nothing is assumed of failures, of
requests, or of a pod's end; a Kubernetes slot comes back because it lapses.

### What is proved

`Dispatch_proofs.tla`, from `DispatchersAssumption`, `ProjectsAssumption`,
`RequestsAssumption`, `RecurringAssumption` and `ModesAssumption`:

- `DispatchTypeCorrect`: `Spec => []TypeOK`.
- `QuotaOvershootBounded`: `Spec => []QuotaOvershoot`, for any number of
  dispatchers and any quota. The count a dispatcher read is stale when it adds its
  run, so the bound alone is not inductive. `QuotaInv` counts the dispatchers
  that have counted and not yet added as if they had added.
- `TasksKept`: `Spec => []TaskInOnePlace`. `PlacesInv` says where a task may be
  for each state of its handler, that a queue has no duplicates, and that no two
  dispatchers hold one task; each push and pop then moves it from one place to
  another.
- `SlotsKept`: `Spec => []LiveRunsHoldSlots`. `SlotInv` adds that a dispatcher
  about to start a run has its slot, and that one about to release a slot works
  on a run that is over or was reported as failed. With the bound above it gives
  `QuotaIsHonoured`, the property the run checks.
- `DeliveredOnce`: `Spec => []OneRunPerDelivery`. `DedupeInv` bounds the requests of
  a delivery that are inside (past the check, queued, held or settled) by the
  windows of its key; a request that is put back was inside before.

Only model-checked: `EveryTaskServed`.

## 5. SnapshotController

Models `k8s-run-snapshot-controller.ts`, `run-snapshot-export-service.ts` and
`run-snapshot-store.ts`. `host` is what the cluster holds for a run (claim, pod,
volume, pods lost), `run` its workspace and session on the volume, `job` the
exporter job and where `exportRun` stands, `store` the archive, manifest and
session record in S3. `pc`, `jobs`, `claims`, `todo`, `visited`, `ended` are the
locals of one `reconcileOnce`: jobs and claims are listed once per poll, pods once
per candidate, and every later decision of the poll rests on these lists.

| Actions | Code |
|---|---|
| `CreateVolume`, `CreateClaim`, `PodStarts`, `PodLost`, `PodEnds`, `HostTornDown`, `Works`, `RunStepFails`, `Finishes` | the dispatcher's objects, the platform, the engine |
| `ListJobs`, `ListClaims`, `ListPods`, `CreateExporter`, `ReleaseHost`, `DeletePods`, `PvcExists`, `PvcAbsent`, `DeletePvc`, `MarkCleanup`, `MarkFails`, `PollFails`, `PollDone` | `reconcileOnce`, one call to Kubernetes or S3 at a time |
| `ExportRefused`, `ExportAccepted`, `CopyWorkspace`, `PutArchive`, `PutManifest`, `PutRecord`, `ExportDone`, `ExportFails`, `JobExpires` | the exporter job and its end by time to live |

Run `snapshot_core`: one run, two changes of the workspace, one lost pod, two
faults, under fairness: `TakenDownInOrder`, `LiveRunKeepsHost`,
`EverythingTakenDown`. Candidates of a poll are visited one after the other and
share nothing, so that one run is enough for TLC; the proofs cover any number.
`PollsInTime` says that two polls are closer together than a finished job's time
to live; `JobExpires` then leaves a finished job alone that a poll relies on or is
still to find. Fairness: the controller polls, pods of a run that is over
end and go with their claim, the exporter goes on, a failed job expires.

`HostedRun_proofs.tla`, from `BoundsAssumption` and `PollsAssumption`:
`SnapshotTypeCorrect`, `HostsKept` (`LiveRunKeepsHost`) and `TakenDownSafely`
(`TakenDownInOrder`, with its halves `NothingLost` and `CleanupIsTrue`). The
invariant relates what a poll has listed to what is there now: a listed job that
succeeded stays exported, a listed claim may have been released, and the call at
hand (`CallInv`) was earned by the ones before it. Only model-checked:
`EverythingTakenDown`.

## 6. SessionStore

Models the session file of one run (`session-manager.ts`) and everybody who writes
it: the engine's saves, which nobody awaits, `cancel`, the signal handler of
`index.ts`, resume and auto-resume. A save is a read of the file, the truncation
of `fs.writeFile` and the write, three steps between which other saves come. `exec` is where each
execution of the run stands with its `run.status`, `log` what a reading of
`.events.jsonl` arrives at, `file` the session file, which may be absent, empty,
torn or whole, `save` the saves in flight.

| Actions | Code |
|---|---|
| `CancelChecks`, `ReadsExisting`, `Truncates`, `Writes`, `SaveLost` | `persist`, `updateStatus` and `get`, with the correction by events (303-371) in `Reported` |
| `CreateRun`, `WorkspaceReady`, `IntakeFails`, `PlanStarts`, `StepStarts`, `StepFails`, `PlanFails`, `Deadlocks`, `GateRequested`, `GateApproved`, `GateRejected`, `PlanCompleted`, `Finalized`, `EngineFails` | the events and saves of an execution, in their order |
| `ProcessKilled`, `CancelCommand`, `Signal`, `SignalExits`, `ResumeCommand`, `PodResumes`, `PodStartsAfresh` | ends, and who may start the next execution |

A session that is planning counts as pending, since nothing tells the two apart.

Run `sessions`: two executions, two saves in flight (interchangeable, hence the
symmetry), one cancellation, one step start or gate each: `EndIsKnown`,
`OneExecutor`; 577 thousand states. Two saves are the fewest that overlap. `OwnRunId`
is true, so that a signal finds the session of its run.

`HostedRun_proofs.tla`, from `SessionBounds` and `OwnRunIdAssumption`:
`SessionTypeCorrect`; `ExecutorIsAlone` (`OneExecutor`), by contradiction: in a run
where nothing has failed, ended or been cancelled (`Clean`), every save in flight
and the file say that the run goes on, so nobody may resume beside a live
execution; `EndIsReported` (`EndIsKnown`), from `EndInv`: an execution that is over
and had a workspace left an end or a failed step in the log, and no later event
takes it back.

## 7. EventLog

Models `EventStore` (`event-store.ts`), its client (`event-sink-client.ts`) and the
insert and publication of `event-ingestion-api.ts`. An event is its number in
the order of `store()`. `buffer`, `queue`, `appends`, `log` are the store's buffer,
`writeQueue`, `appendFile` calls in flight and files; `sinkQueue` and `post` its
client; `requests`, `db`, `published` the service, which may go on with a request
whose client has given up; `closing`, `awaited` the phases of `close`. `failed`,
`abandoned`, `lost`, `dead`, `owed` record history only.

| Actions | Code |
|---|---|
| `Store`, `Initialize`, `Opened`, `PersistNext`, `AppendDone`, `AppendFails` | `store`, `initialize` with its flush, `persistEvent` and its `Promise.all` |
| `PostNext`, `TimesOut`, `Refused` | `postWithRetry`, one retry |
| `Insert`, `Publish` | `ON CONFLICT DO NOTHING`, then the publication of a row that was inserted |
| `Close`, `WritesAwaited`, `Closed`, `Dies`, `Restart` | `close`, the end of the process, a resumed run |

Run `event_log`: three events, two files, two faults: `LogKept` (order, and what
`close` answers for) and `KeepsLedger`, the refinement of `EventLedger`; 584 thousand
states. Two events can overtake each other, the third is behind a failure. Fairness:
appends return, posts are answered or given up, `close` goes on; the two properties
are safety properties and do not rely on it.

`EventLog_proofs.tla`, from `EventBounds` and `TargetsAssumption`:
`EventsTypeCorrect`, `LogIsKept`, `LedgerIsKept`. `EventInv` has one part per place
an event passes: `QueueInv`, `WriteInv`, `FilesInv`, `SinkInv`, `ServiceInv`,
`CloseInv`. The refinement shows that an append to the run's file is `Log`, an
insert `Receive`, a publication `Announce`, and the rest a stutter.

## 8. AgentRun

Models the agents of one workspace from spawn to outcome: `agent-runner.ts`, the
Claude Code and Codex runtimes, `process-utils.ts`, `runtime-session-store.ts`, and
`executeStepBody` around them. `mode` is the runtime of each agent, `exec` the latest
execution of each step, `procs` the agent processes alive, which may outlive their
step, `result` the content of `.agent-result.json`, `sessions` the session file,
`queue` and `drafts` the serial writes of `record`. `recorded` is history.

Actions: `Starts`, `WritesResult`, `ProcessExits`, `LetsGo`, `Closes` (the end of a
process, with the two retries of Codex, `RetriesWithoutHome` and `FallsBackToFresh`),
`AgentTimesOut`, `Kills`, `GuardrailBlocks`, `Reads` (the result and its recovery),
`StoreReads`, `StoreWrites`, `Handles` (what the engine makes of the result).

Run `agent_run`: two steps of one agent under each of the four runtimes, two tries,
two executions, both possibly at once: `SessionsKept`, `StepsSettle`; 38 thousand states.
Fairness: timers fire, a killed process ends, the orchestrator's own awaits return. Nothing is
assumed of an agent, nor of a child of it that holds a pipe, which is the exception
in `StepsSettle`.

`AgentStep_proofs.tla`, from `StepsAssumption` and `AgentBoundsAssumption`:
`AgentTypeCorrect` and `SessionFileKept` (`SessionsKept`), for any number of steps and
agents. `SessionsKept` alone is not inductive: a record is written from a list that was
read earlier. `AgentInv` adds that the writes of the store wait in one queue without
duplicates (`QueueInv`), and that only its first has read, so that the list it is about
to write is still the file's with its own record in place of the older one
(`DraftInv`). `StepsSettle` is only model-checked.

## 9. StepLog

Models what the sink gets of one step's output: the activity dispatcher of the
runtimes, the live chunks of Codex and the fallback of the orchestrator, and the
rows under (attempt, sequence). `kind` is which of the three reports, `writer` the
sender of each execution with `buffer`, `timer`, `chain` of flushes, `waiting` chunks
and `post`, `late` the posts given up that the service may still handle, `rows` the
table. A rework counts the attempt up; a resumed run, a new life, starts at attempt 1
again and meets the numbers of the life before. `lost` is history.

Actions: `AgentWrites`, `TimerFires`, `Flush`, `PostWaiting`, `Delivered`, `Refused`,
`TimesOut`, `LateHandled`, `StepSucceeds`, `StepFails`, `FallbackEnds`, `Retries`,
`Exits`, `Resumes`.

Run `step_log`: two lines, two attempts, two lives, two executions, chunks of two
lines (one for the fallback), two faults, each kind: `StepLogKept` (order, and no
line missing unaccounted for), `LinesLeave`; 81 thousand states. Fairness: timers fire, chains go on,
posts are answered or given up.

`AgentStep_proofs.tla`, from `KindsAssumption` and `BoundsAssumption`:
`StepLogTypeCorrect` and `StepLogIsKept`. `LifeInv`: an execution that has not begun
or whose process is gone has nothing under way. `OrderInv`: what was sent of an
execution comes before its post, and that before its buffer or waiting chunks, in
sequence number as in line number; two rows or late posts with one number are of one
chunk. `AccountInv` says where each line is. `LinesLeave` is only model-checked.

## 10. TicketFlow

Models `ticket_workflow` for one Linear ticket: `ticket`, the branches on the
remote (`commits`, `open`, `merged`), the webhooks under way (`hooks`), dedupe keys
(`seen`), the dispatcher's `queue` and the `runs`. A run's own changes to ticket and
branch are webhooks again. `checked`, the most commits QA has had before it, and
`acts`, what people have done, are history.

| Actions | Code |
|---|---|
| `PersonMoves`, `PersonRenames`, `HookIsLost` | the world |
| `HandlesHook`, `Dispatches` | webhook handlers with `ticket-workflow.ts`, dedupe, the queue with `max_concurrent_runs` |
| `Prepares`, `Works`, `RunFails` | branch of the stage, commit, push refused when the remote has moved on |
| `FinishesDeveloper`, `OpensPullRequest`, `FinishesQa`, `FindsPullRequest`, `ChecksMergeability`, `Merges`, `FinishesMerge` | `finalizeWorkflowRun` and the GitHub calls it makes |

Run `ticket_flow`: two titles, two slots, two acts, five tasks, six webhooks, one
fault: `WorkWasAsked`, `PullRequestsChecked`, `DoneMeansMerged`, `ReachesDone`; 759 thousand
states. Two acts start a developer beside another stage; five tasks are two full
passes but one. Fairness: webhooks are delivered, the consumer loop goes on, runs
end. `ReachesDone` is conditional on no fault and one act.

`TicketFlow_proofs.tla`, from `TitlesAssumption` and `BoundsAssumption`:
`TicketTypeCorrect`; `WorkIsAsked`, from `AskInv`, which counts a webhook that is
not handled yet as a task; `WhatIsOpenedWasChecked`, an action property, from
`BaseInv`: a QA run that has done its work has had every developer's commit it
fetched or pushed over, and opens the pull request only from a branch that nobody has
pushed to since; `DoneIsMerged`, from `MergeInv`. `ReachesDone` is only
model-checked.

## 11. RunHost

Models where runs of one ticket work: `workspace-worktree` and the Docker and
agent-sandbox backends. `base`, `refs`, `trees`, `merging` are the shared base clone
with its branches and worktrees, `remote` the remote's branches, where a branch is the
set of steps committed to it; `run` is where `handleTask` stands with its branch name
and environment handle; `lanes` the steps of one parallel group; `env` what Docker
or Kubernetes holds; `saved` and `logged` where the handle can be found again.
`lost` is history.

| Actions | Code |
|---|---|
| `FindsBase`, `ClonesBase`, `NamesBranch`, `AddsWorktree`, `ReusesBranch` | `create` in its three branch modes, two runs racing for clone and branch |
| `StartsContainer`, `CreatesClaim`, `BindsSandbox`, `FailsToCreate`, `ResumesEnvironment`, `StoresHandle`, `SavesState` | `prepareRunEnvironment`, the event and the save that record it |
| `AddsSubWorktree`, `CommitsStep`, `ChangesNothing`, `StepFails`, `DropsStep`, `MergesStep` | sub-worktrees, conflicts and leftovers included |
| `EndsPlan`, `TearsDown`, `PushesBranch`, `OthersPush`, `Crashes`, `Resumes` | the end of a run, and what cuts it short |

A run of the ticket workflow asks for a branch that may be there ("reuse-or-create",
developer) or must be there ("existing", the other stages); any other run takes a free
name ("new"). The bare clone has no refspec, so that `refs/remotes/origin/...` never
exists and `remoteBranchExists` (363-370) is never true: a stage finds the branch only
if the clone was made after it was pushed, or if an earlier run of the same host made
it. That run's worktree then still has it checked out, since nothing calls `destroy`,
and `git worktree add` fails. The model has all of these.

Run `run_host`: two runs in any modes, two steps, three faults, with symmetry of runs and of
steps: `CompletedIsPushed`, `RunsOwnBranches`, `EnvironmentAccounted`; 3.1 million
states. Three faults are a crash, a conflict and a failed removal in one run.

`RunHost_proofs.tla`, from `RunsAssumption`, `BoundsAssumption` and
`NamesAssumption`: `HostTypeCorrect`, `OwnBranchesKept`, `CompletedRunsPushed`,
`EnvironmentsAccounted`. `GitInv`: no two worktrees are of one branch, a run's
branch holds its own commits and, on the ticket's branch, what the remote had for it,
a ticket's branch that no run has taken is as the remote had it, and a merged step's commit is on it whatever was
cleaned up. `EnvInv`: an environment that is up is in the event log, about to be
recorded, or lost.

## 12. Rules

Code that decides one input without waiting for anything is modelled by operators,
and each decision is held against a definition written independently of the steps
that make it. In a behaviour of `Rules`, one subject is chosen, and one action
decides it.

| Module | Code | Property of `Rules` |
|---|---|---|
| `PlanRules` | `plan-validator.ts`: injection, the agent a role prefers, remapping, gates, coherence | `PlansSound` |
| `IngestRules`, `IngestService` | rate limiter and the four writing routes, with a database and Redis that fail | `RequestsKept` |
| `ReviewRules` | `lifecycle-manager.ts` poll by poll, the GitHub plugin's summaries | `ReviewsSound` |
| `IntakeRules` | webhook and API handlers of dispatch and monitor: project, signature, trigger, dedupe | `RunsWereAsked` |
| `MonitorView` | what the monitor derives for runs, lists and hosts, from files and from the database | `PagesTrue` |
| `LaunchRules` | names and manifests of what is created, the project file loaded, `run` and auto-resume | `LaunchesSound` |
| `RunRules` | state rebuilt from events against what the engine ended with, what a step is given, agents, budgets, stacks, fallback log | `RunsSound` |
| `ActivityRules` | streams cut anywhere, activities, guardrails, usage | `ActivitiesSound` |
| `MonitorFeed` | a page kept up to date: stream, requests, answers that overtake each other, reconnects | `ShowsSelected`, `CatchesUp` |

`MonitorFeed` is a state machine of its own inside a behaviour of `Rules`; the
other subjects leave it off.

Where the code falls short of what one would ask, the property states what it does
and how far it goes; section 14 says what it is:

- `RebuiltTrue` compares the run rebuilt from events with what the engine ended each
  execution with (`EndedAs`, which the last event of the execution tells), and names
  the one difference: an execution that was completed and taken back (`TakenBack`).
- `GuardedTrue` says that the guardrails stop an agent at the first call they deny of
  those they are asked about, and where a reported call was that they were not asked
  about (`NotAskedAbout`): a `server_tool_use`, a command that a block names itself, a
  block of the outer content beside an inner one, a list that is not one.
- `StreamTrue` says that cuts between the bytes of a character garble what an activity
  was of, and nothing else: session, tokens, cost and the activities themselves do not
  depend on the chunks.

Run `rules`: all subjects of `MCRules`, 1 million states. Plans have up to three
steps and one gate with lists of rules of up to two, arrivals, posts, hooks and answers
are short sequences over every kind of member; each kind of text, name or amount
has one member on each side of every comparison the code makes. The feed has three pages
(detail and list of v4 and v5, v3) over three backends, two requests, one message, one
fault and one switch under way. Fairness of the feed: timers and refreshes go off, the
server answers, messages arrive, a lost stream reconnects.

`Rules_proofs.tla` proves, for any set of inputs of the kinds that the assumptions
describe:

- `FeedTypeCorrect` and `PagesShowSelected` (`ShowsSelected`), from `PagesAssumption`: a
  page shows events of the run it is on. `FeedInv` adds that the server has not sent
  more than is written (`ReadInv`), and that what a page has asked for and what waits
  in its stream is of its run (`PageInv`), however the answers overtake each other.

For the decisions, `DecisionInv` says that the input is one of its kind and that the
verdict is what the program decides of it. The property is then a fact about operators,
most of them folds over what came in; each has an invariant of its fold, carried over
one element by the fold's defining equation.

- `ReviewsHold` (`ReviewsSound`), from `ReviewsAssumption`: what a poll has counted and
  announced is explained by the answers before it.
- `RequestsHold` (`RequestsKept`), from `RatesAssumption` (a clock does not go back,
  limits that are configured are positive) and `PostsAssumption`. `BucketInv` counts
  the requests let through in every window of time, not only in those that the limiter
  opens. `ServiceGood` says of the tables and of Redis after each request that what was
  answered for is there, that what is there was posted, and that nothing was announced
  without it.
- `RunsAskedHold` (`RunsWereAsked`), from `HooksAssumption`: `IntakeGood` says that each
  queued run is for a project and a sender that may ask for it, that its delivery is
  noted, and that no two are of one delivery.
- `PlansHold` (`PlansSound`), from `AgentsAssumption` (agents have names of their own:
  `platform.yaml` names each once and `config-loader.ts` adds only new ones) and
  `PlansAssumption`. `MadeInv` says that injected steps have numbers of their own above
  the plan's, wait for steps of the plan only, and were asked for by a rule. Hence an
  accepted plan can be put in an order, the rules it met stay met while the others are
  applied, and no coherent plan is turned down for what was injected.

- `LaunchesHold` (`LaunchesSound`), from `LaunchesAssumption` (`generateRunId` makes names
  of one size, 26; a task that is no prompt has a ticket; its project is the one read from
  its file; there is a platform file), `StartsAssumption`, `OwnersAssumption` (a job that
  was just made owns nothing) and `WordsAssumption`. `KeptBy` unfolds the cutting of
  names: a text for which there is room is kept whole (`AllKept`), so that two runs have
  no name in common (`NamesDiffer`). `AttachGood` says after each attempt on a volume
  that no owner was lost, and why it is not attached yet.

`AboutAssumption` (an input says what it is of) belongs to all of them. Only
model-checked: `PagesTrue`, `RunsSound` and `ActivitiesSound`, whose operators filter
sequences (`SelectSeq`) or merge functions (`@@`, `:>`), which the provers cannot
unfold, and `CatchesUp`.

## 13. What is proved and what is model-checked

Each theorem holds for every value of the constants that satisfies the named
assumptions of its module; TLC evaluates those assumptions in the passing runs.
All safety invariants, action properties and refinements that the runs check are
proved, with these exceptions, which TLC alone checks:

- liveness: `Terminates`, `EveryTaskServed`, `EverythingTakenDown`, `StepsSettle`,
  `LinesLeave`, `ReachesDone`, `CatchesUp`;
- three properties of `Rules`: `PagesTrue`, `RunsSound` and `ActivitiesSound`.

Type correctness has theorems of its own. The library's induction theorems cannot be
used, since they take an operator as a parameter. Where a proof is about a sequence of
any length it obtains induction from the well-foundedness of `<` on the naturals, for
a set of numbers that is defined on the spot, and unfolds the one fold it is about.

Deadlock is checked where a run has something to do for ever (`plan_core`,
`plan_crash`, `dispatch_core`, `dispatch_faults`, `snapshot_core`). The others may
stop: their configurations say `CHECK_DEADLOCK FALSE`, because events, executions,
posts or subjects are bounded and come to an end.

## 14. Where code and documentation, or code and intention, part

The models follow the code. These are places where it does something else than a
comment, a document or the surrounding code suggests, noted while it was read; line
numbers are of `src/service/orchestration-service.ts` unless another file is named.

- A gate that was approved is asked again when its step was retried: `alreadyReviewed`
  reads the first execution, the approval is written on the first completed one.
- ADR-012 (`docs/decisions.md`) asks for a "hard stop if budget exceeded". The
  limits are compared only before an agent starts (1295), amounts are added when it
  returns (1456-1457): a group, or a single agent, goes over them by what it uses.
- Numbers of rework steps are asked for in a prompt and not checked
  (`orchestrator-agent.ts`, 153-156). One that meets a plan step's shares its rework
  counter, and a resume takes its completion for the plan step's.
- `step.completed` is logged (1498) before the quality gate, which may then send the
  execution back or fail it (1528, 1543), and before anything that throws (the `catch`
  at 1675). The replay of the log (2546-2569) leaves it completed, so that a run
  resumed without `run-state.json` counts the step as done.
- A quality gate retry in a parallel group loses `parallelReworkSignals`, so that two
  members rework at once; rework steps have counters of their own, so that only the
  budget bounds the rework of rework.
- After a resume, a failed step counts as done if an older execution completed;
  dependents start before the gate is visited; a completed step may not have
  been merged; and rework counts start over.
- A lane left behind by a rejected `Promise.all` can set `run.status` to failed after
  the run has ended.
- `max_concurrent_runs` can be exceeded by two dispatchers, and by runs that outlive
  their lease (`dispatch-controller.ts`, 1743-1755).
- `docs/architecture-k8s-hosting.md` (445) claims that its queue prevents starvation by
  aging and priorities. The dispatcher has neither: `brPop` serves its lists in a fixed
  order (`dispatch-controller.ts`, 1530, 1812).
- After `cancel`, a resume starts a second executor on the worktree in which the first
  still works.
- A run that fails before it has a workspace closes an event store that was never
  initialized, and its buffered events are not written.
- `flushFinal` is called at the start of a step, because its caller does not await
  `runStep` (`claude-code-runtime.ts`, 29; `codex-runtime.ts`, 72). A Codex agent that
  ignores SIGTERM outlives its timeout.
- Of a Claude message the guardrails read tool uses with what their input names, in one
  list of blocks (`claude-code-runtime.ts`, 434-488); activities are read from all
  blocks, of every type, and from the block itself (687-818). Each chunk of output is
  decoded alone (163), so that a character cut by a chunk is reported as U+FFFD.
- The limits of the ingestion service are undefined when its environment does not set
  them: undefined fields override the defaults. An event whose insert's answer was
  lost is never published.
- The validator drops steps of unknown agents and renumbers the rest, but not their
  dependencies and gates; a required gate is dropped when the plan has an optional one
  after the same step.
- A resume without `run-state.json` takes the planner's plan, not the validated one,
  and a handle without metadata, whose claim cannot be found again.
- In the worktree plugin, the bare base clone has no fetch refspec, so that a branch of
  the remote is never found later; a qa or merge run fails on the host whose developer
  run still has the branch checked out; and a merge conflict leaves the run's worktree
  in a merge that the next commit concludes.
- A ticket's branch is named after its title at the time; a title that is changed
  between two stages gives the second one another branch. A merge run whose checks are
  pending fails and is not retried.
- The lifecycle manager counts one failure again at each poll, and is built without
  callbacks.
- A page's earlier request can overwrite the answer of a later one until the next
  refresh (`useMonitor.js`), and a line of the event file that was half written when
  it was read is not sent again (`server.mjs`).

## 15. Not modelled

Prompts, parsing of planners' answers, formatting and console output; the files laid
out in a workspace for an agent; the command lines of agents; the restore command of
snapshots and a controller without a bucket; the create commands of the command
line; listing, archiving and restoring of sessions; the local backend, which has no
environment; Jira, GitHub issues as a tracker, and notifiers; rendering, static
files and the pages of projects and agents; registry, metrics, preflight and uploads;
the infrastructure files. They keep no state that several steps share, or their
state is that of an external service. `PROJECT.json` says for each component what is
left out of it.

## 16. Running it

    tlc -workers 2 -config plan_core.cfg MCPlanExecution
    tlc -workers 2 -config plan_crash.cfg MCPlanExecution
    tlc -workers 2 -config dispatch_core.cfg MCDispatch
    tlc -workers 2 -config dispatch_faults.cfg MCDispatch
    tlc -workers 2 -config snapshot_core.cfg SnapshotProperties
    tlc -workers 2 -config sessions.cfg MCSession
    tlc -workers 2 -config event_log.cfg EventProperties
    tlc -workers 2 -config agent_run.cfg MCAgent
    tlc -workers 2 -config step_log.cfg StepLogProperties
    tlc -workers 2 -config ticket_flow.cfg TicketProperties
    tlc -workers 2 -config run_host.cfg MCHost
    tlc -workers 2 -config rules.cfg MCRules
    tlapm <module>_proofs.tla

The operators named `Mut...` are seeded faults: variants of a definition with a
plausible bug, next to the definition they vary, one for each property. They are not
part of any specification; each shows that its property can fail.
