---------------------------- MODULE PlanExecution ----------------------------
(***************************************************************************)
(* The plan execution engine of OrchestrationService: executePlan and      *)
(* executeStepBody of src/src/service/orchestration-service.ts, with the   *)
(* rework loop, the quality gate, the human gates, the budget checks, the  *)
(* pull-request finalisation, and resumeTask after a crash or a failure.   *)
(*                                                                         *)
(* executePlan runs one step, or one parallel group of steps, at a time.   *)
(* Each member of the group is a LANE: a chain of pending executeStep      *)
(* calls, innermost first.  A lane grows when a step that needs rework     *)
(* runs the steps of a rework plan, and its top frame is replaced when the *)
(* code tail-calls executeStep to retry the step.                          *)
(***************************************************************************)
EXTENDS Naturals, Sequences, FiniteSets

CONSTANTS
  Plans,            (* validated plans a run may execute (see PlanType)          *)
  LlmReworkPlans,   (* what an LLM planner may answer: sequences of step numbers *)
  ReworkBase,       (* 900: rework steps are numbered above it                   *)
  MaxRework,        (* budget.max_rework_cycles                                  *)
  CostLimit,        (* per_task_total_tokens / per_task_max_cost_usd             *)
  Uses,             (* what an agent run that returns may add to what is used    *)
  MostUsed,         (* bound on that                                             *)
  ConfirmAt,        (* confirm_threshold_usd, 0 when unset                       *)
  SubWorktrees,     (* the workspace plugin isolates parallel steps              *)
  MayThrow,         (* file, event or git operations outside a try may throw     *)
  OperatorSteps,    (* sprintfoundry resume is called with --step                *)
  MaxCrashes,       (* bound on process deaths                                   *)
  MaxResumes        (* bound on resumeTask calls                                 *)

Numbers(p) == {p.order[i] : i \in DOMAIN p.order}

(* A validated plan: the step numbers in plan order, what each step depends *)
(* on, the parallel groups, the steps with a required human gate, and the   *)
(* steps whose agent has the developer role.  The validator refuses a       *)
(* number used twice and an unknown dependency.  Here 0 stands for no step. *)
PlanType(p) ==
  /\ p.order \in Seq(Nat \ {0})
  /\ \A i, j \in DOMAIN p.order : p.order[i] = p.order[j] => i = j
  /\ p.deps \in [Numbers(p) -> SUBSET Numbers(p)]
  /\ p.groups \in Seq(SUBSET Numbers(p))
  /\ p.gates \subseteq Numbers(p)
  /\ p.devs \subseteq Numbers(p)

ASSUME PlansAssumption == \A p \in Plans : PlanType(p)
(* A rework plan is used as the planner answers it: the prompt asks for     *)
(* step numbers of 900 and up, and nothing checks that they are, or that    *)
(* they are not the numbers of plan steps.                                  *)
ASSUME ReworkAssumption == ReworkBase \in Nat /\ LlmReworkPlans \subseteq Seq(Nat)
ASSUME UsesAssumption == MostUsed \in Nat /\ Uses \subseteq 0..MostUsed
ASSUME BoundsAssumption ==
  /\ MaxRework \in Nat /\ CostLimit \in Nat /\ ConfirmAt \in Nat
  /\ MaxCrashes \in Nat /\ MaxResumes \in Nat
  /\ {SubWorktrees, MayThrow, OperatorSteps} \subseteq BOOLEAN

VARIABLES
  plan,          (* run.validated_plan                                         *)
  status,        (* run.status                                                 *)
  steps,         (* run.steps: one entry per executeStep call, oldest first    *)
  cost,          (* run.total_tokens_used and run.total_cost_usd               *)
  pr,            (* run.pr_url is set                                          *)
  ctl,           (* where executePlan stands                                   *)
  completed,     (* executePlan's set of completed plan steps                  *)
  reworkCounts,  (* executePlan's Map from step number to rework cycles        *)
  signals,       (* reworkSignals of the current parallel group                *)
  lanes,         (* the executeStep calls in progress                          *)
  gateTodo,      (* completed gated steps the gate loop has still to visit     *)
  review,        (* the step whose human gate is open, 0 for none              *)
  consent,       (* budgetConsentRequested has the run                         *)
  disk,          (* run-state.json, as loadRunState would read it              *)
  dirty,         (* a fire-and-forget persistSession has not reached the disk  *)
  crashes, resumes,
  approved,      (* history: gated steps approved since their last execution   *)
  integrated     (* history: plan steps whose changes are in the run's tree    *)

runVars    == <<status, steps, cost, pr>>
planVars   == <<completed, reworkCounts, signals, consent>>
gateVars   == <<gateTodo, review>>
storeVars  == <<disk, dirty>>
boundVars  == <<crashes, resumes>>
histVars   == <<approved, integrated>>
vars == <<plan, runVars, ctl, planVars, lanes, gateVars, storeVars, boundVars, histVars>>

StepStatus == {"running", "completed", "failed", "needs_rework"}
RunStatus  == {"executing", "waiting_human_review", "completed", "failed", "cancelled"}
Control    == {"loop", "lanes", "rework", "budget", "budget_review", "gates",
               "gate_review", "finally", "unwind", "finalize", "ended", "down"}
LaneResult == {"running", "completed", "failed", "rework", "thrown"}

Execution == [num : Nat, of : Nat, status : StepStatus, reviewed : BOOLEAN]
Frame == [num : Nat,            (* the number of the step this call executes   *)
          of : Nat,             (* history: the plan step, 0 for a rework step *)
          at : {"start", "agent", "quality", "replan"},
          exec : Nat,           (* its entry in run.steps, 0 when it has none  *)
          rework : Nat,         (* currentRework, read when the call started   *)
          todo : Seq(Nat),      (* rework steps to run before the retry        *)
          defer : BOOLEAN]      (* parallelReworkSignals was passed            *)
Lane == [frames : Seq(Frame), result : LaneResult]

PlanSteps == Numbers(plan)
NoLanes == [l \in {} |-> [frames |-> <<>>, result |-> "running"]]
NoCounts == [n \in {} |-> 0]

TypeOK ==
  /\ plan \in Plans
  /\ status \in RunStatus
  /\ steps \in Seq(Execution)
  /\ cost \in Nat /\ pr \in BOOLEAN
  /\ ctl \in Control
  /\ completed \subseteq PlanSteps
  /\ DOMAIN reworkCounts \subseteq Nat
  /\ reworkCounts \in [DOMAIN reworkCounts -> Nat]
  /\ signals \in Seq([num : PlanSteps, rework : Nat])
  /\ DOMAIN lanes \subseteq PlanSteps
  /\ lanes \in [DOMAIN lanes -> Lane]
  /\ gateTodo \subseteq PlanSteps
  /\ review \in PlanSteps \cup {0}
  /\ consent \in BOOLEAN /\ dirty \in BOOLEAN
  /\ disk \in [status : RunStatus, steps : Seq(Execution), cost : Nat, pr : BOOLEAN]
  /\ crashes \in 0..MaxCrashes /\ resumes \in 0..MaxResumes
  /\ approved \subseteq PlanSteps
  /\ integrated \subseteq PlanSteps

-----------------------------------------------------------------------------
(* Helpers *)

Alive == ctl # "down"

(* What persistRunState writes *)
RunRecord == [status |-> status, steps |-> steps, cost |-> cost, pr |-> pr]

Count(n) == IF n \in DOMAIN reworkCounts THEN reworkCounts[n] ELSE 0
WithCounts(f) ==
  [n \in DOMAIN reworkCounts \cup DOMAIN f |-> IF n \in DOMAIN f THEN f[n] ELSE reworkCounts[n]]

StartFrame(n, of, defer) ==
  [num |-> n, of |-> of, at |-> "start", exec |-> 0, rework |-> 0, todo |-> <<>>, defer |-> defer]

(* The plan the planner answers with: the Codex planner, and the fallback   *)
(* of the LLM planners, number the one rework step 900 above the failed one *)
ReworkPlans(n) == {<<ReworkBase + n>>} \cup LlmReworkPlans

Running(l) == l \in DOMAIN lanes /\ lanes[l].result = "running"
Top(l) == Head(lanes[l].frames)
Callers(l) == Tail(lanes[l].frames)
Mark(s, i, st) == [s EXCEPT ![i].status = st]

(* run.steps with the record of the execution that call f begins *)
Begun(f) ==
  Append(steps, [num |-> f.num, of |-> f.of, status |-> "running", reviewed |-> FALSE])

SetLane(l, frames, result) ==
  lanes' = [lanes EXCEPT ![l] = [frames |-> frames, result |-> result]]
(* The call fails, or throws when the event of the failure cannot be        *)
(* written or the sub-worktree cannot be removed.                           *)
LaneFails(l) ==
  \/ SetLane(l, <<>>, "failed")
  \/ MayThrow /\ SetLane(l, <<>>, "thrown")

(* The call on top of the frames has its rework plan in todo: run the next  *)
(* rework step, or retry the step itself.  The frame executePlan uses for   *)
(* the merged rework of a group has no execution of its own and just ends.  *)
Proceed(frames) ==
  LET f == Head(frames) IN
  IF f.todo # <<>>
  THEN <<StartFrame(Head(f.todo), 0, FALSE), [f EXCEPT !.todo = Tail(f.todo)]>> \o Tail(frames)
  ELSE IF f.exec = 0 THEN <<>>
  ELSE <<StartFrame(f.num, f.of, FALSE)>> \o Tail(frames)

(* The innermost call returns "completed".  At the bottom of a lane of a    *)
(* parallel group with sub-worktrees the work is then merged, which throws  *)
(* on a conflict.                                                           *)
StepCompletes(l) ==
  IF Callers(l) # <<>>
  THEN LET next == Proceed(Callers(l)) IN
       /\ SetLane(l, next, IF next = <<>> THEN "completed" ELSE "running")
       /\ UNCHANGED integrated
  ELSE \/ /\ SetLane(l, <<>>, "completed")
          /\ integrated' = integrated \cup {l}
       \/ /\ SubWorktrees /\ DOMAIN lanes # {l}
          /\ SetLane(l, <<>>, "thrown")
          /\ UNCHANGED integrated

-----------------------------------------------------------------------------
(* executeStepBody, one lane at a time *)

(* Seeded fault: the limit is compared with > instead of >=. *)
MutStartOverLimit(l) ==
  LET f == Top(l)
      started == Begun(f)
  IN  /\ Running(l) /\ f.at = "start" /\ Alive
      /\ cost <= CostLimit
      /\ steps' = started
      /\ SetLane(l, <<[f EXCEPT !.at = "agent", !.exec = Len(started),
                                !.rework = Count(f.num)]>> \o Callers(l), "running")
      /\ disk' = [RunRecord EXCEPT !.steps = started]
      /\ approved' = approved \ {f.of}
      /\ UNCHANGED <<plan, status, cost, pr, ctl, planVars, gateVars, dirty, boundVars, integrated>>

(* The execution is recorded and saved, the limits hold, the agent starts. *)
StartAgent(l) ==
  LET f == Top(l)
      started == Begun(f)
  IN  /\ Running(l) /\ f.at = "start" /\ Alive
      /\ cost < CostLimit
      /\ steps' = started
      /\ SetLane(l, <<[f EXCEPT !.at = "agent", !.exec = Len(started),
                                !.rework = Count(f.num)]>> \o Callers(l), "running")
      /\ disk' = [RunRecord EXCEPT !.steps = started]
      /\ approved' = approved \ {f.of}
      /\ UNCHANGED <<plan, status, cost, pr, ctl, planVars, gateVars, dirty, boundVars, integrated>>

(* The budget is used up, or task_timeout_minutes have passed. *)
LimitReached(l) ==
  LET f == Top(l)
      started == Begun(f)
  IN  /\ Running(l) /\ f.at = "start" /\ Alive
      /\ steps' = Mark(started, Len(started), "failed")
      /\ LaneFails(l)
      /\ disk' = [RunRecord EXCEPT !.steps = started]
      /\ approved' = approved \ {f.of}
      /\ UNCHANGED <<plan, status, cost, pr, ctl, planVars, gateVars, dirty, boundVars, integrated>>

(* An exception before the try block: an event or the run state could not be *)
(* written, or there is no API key.  The call that runs a rework plan        *)
(* catches it and fails; at the bottom of the lane nothing does.             *)
StartThrows(l) ==
  LET f == Top(l)
      started == Begun(f)
      caught == Callers(l) # <<>> /\ Head(Callers(l)).exec # 0
  IN  /\ MayThrow
      /\ Running(l) /\ f.at = "start" /\ Alive
      /\ steps' = IF caught THEN Mark(started, Head(Callers(l)).exec, "failed") ELSE started
      /\ SetLane(l, <<>>, IF caught THEN "failed" ELSE "thrown")
      /\ disk' \in {disk, [RunRecord EXCEPT !.steps = started]}
      /\ approved' = approved \ {f.of}
      /\ UNCHANGED <<plan, status, cost, pr, ctl, planVars, gateVars, dirty, boundVars, integrated>>

(* createSubWorktree throws before executeStep is called. *)
SubWorktreeFails(l) ==
  /\ SubWorktrees
  /\ Running(l) /\ Top(l).at = "start" /\ Top(l).defer /\ Alive
  /\ SetLane(l, <<>>, "thrown")
  /\ UNCHANGED <<plan, runVars, ctl, planVars, gateVars, storeVars, boundVars, histVars>>

(* A rework step runs the agent the failed step named, so its role is open. *)
MayBeDeveloper(f) == f.of \in plan.devs \cup {0}
MayBeOther(f) == f.of \notin plan.devs
(* What the agent's run used is added when it returns. *)
AddsUse == \E u \in Uses : cost' = cost + u

AgentCompletes(l) ==
  LET f == Top(l) IN
  /\ Running(l) /\ f.at = "agent" /\ Alive
  /\ AddsUse
  /\ steps' = Mark(steps, f.exec, "completed")
  /\ \/ /\ MayBeDeveloper(f)
        /\ SetLane(l, <<[f EXCEPT !.at = "quality"]>> \o Callers(l), "running")
        /\ UNCHANGED integrated
     \/ /\ MayBeOther(f)
        /\ StepCompletes(l)
  /\ UNCHANGED <<plan, status, pr, ctl, planVars, gateVars, storeVars, boundVars, approved>>

(* The agent was done but its git checkpoint could not be committed. *)
CommitFails(l) ==
  LET f == Top(l) IN
  /\ Running(l) /\ f.at = "agent" /\ Alive
  /\ AddsUse
  /\ steps' = Mark(steps, f.exec, "failed")
  /\ status' = "failed"
  /\ LaneFails(l)
  /\ UNCHANGED <<plan, pr, ctl, planVars, gateVars, storeVars, boundVars, histVars>>

(* The agent answered blocked or failed, or it crashed or timed out: only   *)
(* an answer adds to the cost.                                              *)
AgentFails(l) ==
  LET f == Top(l) IN
  /\ Running(l) /\ f.at = "agent" /\ Alive
  /\ AddsUse \/ cost' = cost
  /\ steps' = Mark(steps, f.exec, "failed")
  /\ LaneFails(l)
  /\ UNCHANGED <<plan, status, pr, ctl, planVars, gateVars, storeVars, boundVars, histVars>>

(* needs_rework in a parallel group: the group's coordinator deals with it. *)
AgentSignalsRework(l) ==
  LET f == Top(l) IN
  /\ Running(l) /\ f.at = "agent" /\ Alive
  /\ f.defer
  /\ AddsUse
  /\ steps' = Mark(steps, f.exec, "needs_rework")
  /\ signals' = Append(signals, [num |-> l, rework |-> f.rework])
  /\ SetLane(l, <<>>, "rework")
  /\ UNCHANGED <<plan, status, pr, ctl, completed, reworkCounts, consent, gateVars,
                 storeVars, boundVars, histVars>>

(* needs_rework elsewhere: the call plans and runs the rework itself. *)
AgentNeedsRework(l) ==
  LET f == Top(l) IN
  /\ Running(l) /\ f.at = "agent" /\ Alive
  /\ ~f.defer
  /\ AddsUse
  /\ \/ /\ f.rework >= MaxRework
        /\ steps' = Mark(steps, f.exec, "failed")
        /\ LaneFails(l)
        /\ UNCHANGED reworkCounts
     \/ /\ f.rework < MaxRework
        /\ reworkCounts' = WithCounts([n \in {f.num} |-> f.rework + 1])
        /\ \/ \E p \in ReworkPlans(f.num) :
                /\ steps' = Mark(steps, f.exec, "needs_rework")
                /\ SetLane(l, Proceed(<<[f EXCEPT !.at = "replan", !.todo = p]>> \o Callers(l)),
                           "running")
           \/ /\ MayThrow        (* the planner failed *)
              /\ steps' = Mark(steps, f.exec, "failed")
              /\ LaneFails(l)
  /\ UNCHANGED <<plan, status, pr, ctl, completed, signals, consent, gateVars,
                 storeVars, boundVars, histVars>>

QualityGatePasses(l) ==
  /\ Running(l) /\ Top(l).at = "quality" /\ Alive
  /\ StepCompletes(l)
  /\ UNCHANGED <<plan, runVars, ctl, planVars, gateVars, storeVars, boundVars, approved>>

(* Seeded fault: a quality gate retry is not counted as rework. *)
MutUncountedRetry(l) ==
  LET f == Top(l) IN
  /\ Running(l) /\ f.at = "quality" /\ Alive
  /\ \/ /\ f.rework >= MaxRework
        /\ steps' = Mark(steps, f.exec, "failed")
        /\ LaneFails(l)
     \/ /\ f.rework < MaxRework
        /\ steps' = Mark(steps, f.exec, "needs_rework")
        /\ SetLane(l, <<StartFrame(f.num, f.of, FALSE)>> \o Callers(l), "running")
  /\ UNCHANGED <<plan, status, cost, pr, ctl, planVars, gateVars, storeVars, boundVars, histVars>>

(* The retry is called without parallelReworkSignals.  The step fails when  *)
(* it is out of cycles, and when the event of the rework cannot be written. *)
QualityGateFails(l) ==
  LET f == Top(l) IN
  /\ Running(l) /\ f.at = "quality" /\ Alive
  /\ \/ /\ f.rework >= MaxRework \/ MayThrow
        /\ steps' = Mark(steps, f.exec, "failed")
        /\ LaneFails(l)
        /\ UNCHANGED reworkCounts
     \/ /\ f.rework < MaxRework
        /\ steps' = Mark(steps, f.exec, "needs_rework")
        /\ reworkCounts' = WithCounts([n \in {f.num} |-> f.rework + 1])
        /\ SetLane(l, <<StartFrame(f.num, f.of, FALSE)>> \o Callers(l), "running")
  /\ UNCHANGED <<plan, status, cost, pr, ctl, completed, signals, consent, gateVars,
                 storeVars, boundVars, histVars>>

LaneStep(l) ==
  \/ SubWorktreeFails(l) \/ StartAgent(l) \/ LimitReached(l) \/ StartThrows(l)
  \/ AgentCompletes(l) \/ CommitFails(l) \/ AgentFails(l)
  \/ AgentSignalsRework(l) \/ AgentNeedsRework(l)
  \/ QualityGatePasses(l) \/ QualityGateFails(l)

-----------------------------------------------------------------------------
(* executePlan *)

Ready == {s \in PlanSteps \ completed : plan.deps[s] \subseteq completed}
Several(G) == \E s, t \in G : s # t

(* findParallelGroup: the ready steps of the first group with several of them *)
IsParallelGroup(G) ==
  \E i \in DOMAIN plan.groups :
    /\ G = Ready \cap plan.groups[i]
    /\ Several(G)
    /\ \A j \in 1..(i - 1) : ~Several(Ready \cap plan.groups[j])
HasParallelGroup == \E i \in DOMAIN plan.groups : Several(Ready \cap plan.groups[i])

(* ready[0] *)
IsFirstReady(s) ==
  \E i \in DOMAIN plan.order :
    /\ s = plan.order[i]
    /\ s \in Ready
    /\ \A j \in 1..(i - 1) : plan.order[j] \notin Ready

Launch(G, defer) ==
  /\ lanes' = [l \in G |-> [frames |-> <<StartFrame(l, l, defer)>>, result |-> "running"]]
  /\ signals' = <<>>
  /\ ctl' = "lanes"
  /\ UNCHANGED <<plan, runVars, completed, reworkCounts, consent, gateVars, storeVars,
                 boundVars, histVars>>

LaunchParallel ==
  /\ ctl = "loop" /\ completed # PlanSteps
  /\ \E G \in SUBSET Ready : IsParallelGroup(G) /\ Launch(G, TRUE)

LaunchSequential ==
  /\ ctl = "loop" /\ completed # PlanSteps
  /\ ~HasParallelGroup
  /\ \E s \in Ready : IsFirstReady(s) /\ Launch({s}, FALSE)

(* The run fails where executePlan returns early: a fire-and-forget save. *)
FailRun ==
  /\ status' = "failed"
  /\ dirty' = TRUE
  /\ ctl' = "finally"

PlanDeadlock ==
  /\ ctl = "loop" /\ completed # PlanSteps /\ Ready = {}
  /\ FailRun
  /\ UNCHANGED <<plan, steps, cost, pr, planVars, lanes, gateVars, disk, boundVars, histVars>>

Settled == \A l \in DOMAIN lanes : lanes[l].result \in {"completed", "failed", "rework"}
SomeFailed == \E l \in DOMAIN lanes : lanes[l].result = "failed"
ReworkExceeded == \E i \in DOMAIN signals : signals[i].rework >= MaxRework

GroupFails ==
  /\ ctl \in {"lanes", "rework"} /\ Settled
  /\ SomeFailed \/ (ctl = "lanes" /\ signals # <<>> /\ ReworkExceeded)
  /\ FailRun
  /\ lanes' = NoLanes
  /\ signals' = <<>>
  /\ UNCHANGED <<plan, steps, cost, pr, completed, reworkCounts, consent, gateVars, disk,
                 boundVars, histVars>>

(* One merged planRework for all the members that asked, with the first one *)
(* as the failed step; its steps then run one after the other.              *)
GroupReplans ==
  /\ ctl = "lanes" /\ Settled /\ ~SomeFailed
  /\ signals # <<>> /\ ~ReworkExceeded
  /\ reworkCounts' = WithCounts([n \in {signals[i].num : i \in DOMAIN signals} |->
       LET i == CHOOSE i \in DOMAIN signals : signals[i].num = n IN signals[i].rework + 1])
  /\ \/ \E p \in ReworkPlans(signals[1].num) :
          LET frames == Proceed(<<[StartFrame(signals[1].num, signals[1].num, FALSE)
                              EXCEPT !.at = "replan", !.todo = p]>>)
          IN  /\ lanes' = [l \in {signals[1].num} |->
                             [frames |-> frames,
                              result |-> IF frames = <<>> THEN "completed" ELSE "running"]]
              /\ ctl' = "rework"
     \/ /\ MayThrow        (* the planner failed *)
        /\ lanes' = NoLanes
        /\ ctl' = "unwind"
  /\ signals' = <<>>
  /\ UNCHANGED <<plan, runVars, completed, consent, gateVars, storeVars, boundVars, histVars>>

(* Seeded fault: the member is accepted after its rework plan, without a retry. *)
MutReworkAccepts ==
  /\ ctl = "rework" /\ Settled /\ ~SomeFailed
  /\ completed' = completed \cup DOMAIN lanes
  /\ ctl' = "loop"
  /\ lanes' = NoLanes
  /\ UNCHANGED <<plan, runVars, reworkCounts, signals, consent, gateVars, storeVars,
                 boundVars, histVars>>

(* The group is launched again: none of its members was added to completed. *)
ReworkDone ==
  /\ ctl = "rework" /\ Settled /\ ~SomeFailed
  /\ ctl' = "loop"
  /\ lanes' = NoLanes
  /\ UNCHANGED <<plan, runVars, planVars, gateVars, storeVars, boundVars, histVars>>

GroupCompletes ==
  /\ ctl = "lanes" /\ Settled /\ ~SomeFailed
  /\ signals = <<>>
  /\ completed' = completed \cup DOMAIN lanes
  /\ ctl' = "budget"
  /\ lanes' = NoLanes
  /\ UNCHANGED <<plan, runVars, reworkCounts, signals, consent, gateVars, storeVars,
                 boundVars, histVars>>

(* Promise.all rejects with the first lane that throws: the others go on. *)
LaneThrew ==
  /\ ctl \in {"lanes", "rework"}
  /\ \E l \in DOMAIN lanes : lanes[l].result = "thrown"
  /\ ctl' = "unwind"
  /\ UNCHANGED <<plan, runVars, planVars, lanes, gateVars, storeVars, boundVars, histVars>>

NeedsConfirmation == ConfirmAt > 0 /\ cost >= ConfirmAt /\ ~consent
(* Seeded fault: a gate matters only to the steps that wait behind it. *)
MutGatesInFront == {s \in completed \cap plan.gates : \E t \in PlanSteps : s \in plan.deps[t]}
OpenGates == completed \cap plan.gates

SkipConfirmation ==
  /\ ctl = "budget" /\ ~NeedsConfirmation
  /\ ctl' = "gates"
  /\ gateTodo' = OpenGates
  /\ UNCHANGED <<plan, runVars, planVars, lanes, review, storeVars, boundVars, histVars>>

AskConfirmation ==
  /\ ctl = "budget" /\ NeedsConfirmation
  /\ consent' = TRUE
  /\ ctl' = "budget_review"
  /\ UNCHANGED <<plan, runVars, completed, reworkCounts, signals, lanes, gateVars, storeVars,
                 boundVars, histVars>>

ConfirmationGiven ==
  /\ ctl = "budget_review"
  /\ status' = "executing"
  /\ ctl' = "gates"
  /\ gateTodo' = OpenGates
  /\ UNCHANGED <<plan, steps, cost, pr, planVars, lanes, review, storeVars, boundVars, histVars>>

(* Rejected, or no decision within human_gate_timeout_hours. *)
ConfirmationRefused ==
  /\ ctl = "budget_review"
  /\ FailRun
  /\ UNCHANGED <<plan, steps, cost, pr, planVars, lanes, gateVars, disk, boundVars, histVars>>

(* alreadyReviewed looks at the first execution of the step only. *)
AlreadyReviewed(s) ==
  \E i \in DOMAIN steps :
    /\ steps[i].num = s /\ steps[i].reviewed
    /\ \A j \in 1..(i - 1) : steps[j].num # s

SkipGate ==
  /\ ctl = "gates"
  /\ \E s \in gateTodo : AlreadyReviewed(s) /\ gateTodo' = gateTodo \ {s}
  /\ UNCHANGED <<plan, runVars, ctl, planVars, lanes, review, storeVars, boundVars, histVars>>

RequestReview ==
  /\ ctl = "gates"
  /\ \E s \in gateTodo : ~AlreadyReviewed(s) /\ review' = s
  /\ status' = "waiting_human_review"
  /\ ctl' = "gate_review"
  /\ UNCHANGED <<plan, steps, cost, pr, planVars, lanes, gateTodo, storeVars, boundVars, histVars>>

(* The approval is noted on the first completed execution of the step. *)
FirstCompleted(i, s) ==
  /\ steps[i].num = s /\ steps[i].status = "completed"
  /\ \A j \in 1..(i - 1) : ~(steps[j].num = s /\ steps[j].status = "completed")

(* Seeded fault: the gate is looked at again after its approval. *)
MutAskAgain ==
  /\ ctl = "gate_review"
  /\ steps' = [i \in DOMAIN steps |->
                 IF FirstCompleted(i, review) THEN [steps[i] EXCEPT !.reviewed = TRUE]
                 ELSE steps[i]]
  /\ approved' = approved \cup {review}
  /\ status' = "executing"
  /\ review' = 0
  /\ ctl' = "gates"
  /\ UNCHANGED <<plan, cost, pr, gateTodo, planVars, lanes, storeVars, boundVars, integrated>>

ReviewApproved ==
  /\ ctl = "gate_review"
  /\ steps' = [i \in DOMAIN steps |->
                 IF FirstCompleted(i, review) THEN [steps[i] EXCEPT !.reviewed = TRUE]
                 ELSE steps[i]]
  /\ approved' = approved \cup {review}
  /\ status' = "executing"
  /\ gateTodo' = gateTodo \ {review}
  /\ review' = 0
  /\ ctl' = "gates"
  /\ UNCHANGED <<plan, cost, pr, planVars, lanes, storeVars, boundVars, integrated>>

(* Seeded fault: no decision in time lets the run go on. *)
MutTimeoutGoesOn ==
  /\ ctl = "gate_review"
  /\ status' = "executing"
  /\ gateTodo' = gateTodo \ {review}
  /\ review' = 0
  /\ ctl' = "gates"
  /\ UNCHANGED <<plan, steps, cost, pr, planVars, lanes, storeVars, boundVars, histVars>>

(* Rejected, or no decision within human_gate_timeout_hours. *)
ReviewRejected ==
  /\ ctl = "gate_review"
  /\ FailRun
  /\ review' = 0
  /\ gateTodo' = {}
  /\ UNCHANGED <<plan, steps, cost, pr, planVars, lanes, disk, boundVars, histVars>>

GatesDone ==
  /\ ctl = "gates" /\ gateTodo = {}
  /\ ctl' = "loop"
  /\ UNCHANGED <<plan, runVars, planVars, lanes, gateVars, storeVars, boundVars, histVars>>

PlanCompleted ==
  /\ ctl = "loop" /\ completed = PlanSteps
  /\ status' = "completed"
  /\ dirty' = TRUE
  /\ ctl' = "finally"
  /\ UNCHANGED <<plan, steps, cost, pr, planVars, lanes, gateVars, disk, boundVars, histVars>>

(* A review file or the task.completed event cannot be written. *)
EngineThrows ==
  /\ MayThrow
  /\ \/ ctl = "loop" /\ completed = PlanSteps
     \/ ctl \in {"budget_review", "gate_review"}
  /\ ctl' = "unwind"
  /\ review' = 0
  /\ gateTodo' = {}
  /\ UNCHANGED <<plan, runVars, planVars, lanes, storeVars, boundVars, histVars>>

(* The finally block: the sandbox is torn down, the consent is forgotten, and *)
(* an exception, of the block itself too, reaches the catch of handleTask or  *)
(* resumeTask.                                                                *)
Teardown ==
  /\ ctl \in {"finally", "unwind"}
  /\ consent' = FALSE
  /\ dirty' = TRUE
  /\ \/ ctl = "finally" /\ status' = status
     \/ (ctl = "unwind" \/ MayThrow) /\ status' = "failed"
  /\ ctl' = IF status' = "completed" THEN "finalize" ELSE "ended"
  /\ UNCHANGED <<plan, steps, cost, pr, completed, reworkCounts, signals, lanes, gateVars,
                 disk, boundVars, histVars>>

(* finalizeCompletedRun: the pull request, unless the run has one or is not *)
(* to open one (SKIP_PR_FINALIZATION, the developer workflow stage), then   *)
(* the ticket.  Either may throw, and the completed run then fails.         *)
Finalize ==
  /\ ctl = "finalize"
  /\ pr' \in {pr, TRUE}
  /\ \/ status' = status
     \/ MayThrow /\ status' = "failed"
  /\ dirty' = TRUE
  /\ ctl' = "ended"
  /\ UNCHANGED <<plan, steps, cost, planVars, lanes, gateVars, disk, boundVars, histVars>>

-----------------------------------------------------------------------------
(* The disk, the end of the process, and resumeTask *)

FlushRunState ==
  /\ Alive /\ dirty
  /\ disk' = RunRecord
  /\ dirty' = FALSE
  /\ UNCHANGED <<plan, runVars, ctl, planVars, lanes, gateVars, boundVars, histVars>>

(* The process is killed, or exits after the run has ended: what is left is  *)
(* what loadRunState reads.                                                  *)
ProcessDies ==
  /\ Alive /\ crashes < MaxCrashes
  /\ crashes' = crashes + 1
  /\ ctl' = "down"
  /\ status' = disk.status /\ steps' = disk.steps /\ cost' = disk.cost /\ pr' = disk.pr
  /\ completed' = {} /\ reworkCounts' = NoCounts /\ signals' = <<>> /\ consent' = FALSE
  /\ lanes' = NoLanes
  /\ gateTodo' = {} /\ review' = 0
  /\ dirty' = FALSE
  /\ UNCHANGED <<plan, disk, resumes, histVars>>

(* sprintfoundry cancel, or the signal handler of a dying process, marks the *)
(* session cancelled; resumeTask takes that status over the run state's, even *)
(* a completed one's, when the session file is the older of the two.         *)
CancelSession ==
  /\ ctl = "down" /\ status \notin {"failed", "cancelled"}
  /\ status' = "cancelled"
  /\ UNCHANGED <<plan, steps, cost, pr, ctl, planVars, lanes, gateVars, storeVars, boundVars,
                 histVars>>

(* Seeded fault: interrupted executions stay running. *)
MutNotInterrupted(s) == s
Interrupted(s) ==
  [i \in DOMAIN s |-> IF s[i].status = "running" THEN [s[i] EXCEPT !.status = "failed"] ELSE s[i]]
(* The plan steps that appear as failed or needs_rework in the run *)
FailedHistory(s) ==
  {i \in DOMAIN s : s[i].num \in PlanSteps /\ s[i].status \in {"failed", "needs_rework"}}
(* Seeded fault: whatever comes before the resumed step counts as completed. *)
MutAllBefore(s, from) == {n \in PlanSteps : n < from}
InitialCompleted(s, from) ==
  {n \in PlanSteps : n < from /\ \E i \in DOMAIN s : s[i].num = n /\ s[i].status = "completed"}

(* resolveResumeStep: the latest failed plan step, or any of them that the  *)
(* operator names with --step.                                              *)
CanResumeFrom(s, n) ==
  \E i \in FailedHistory(s) :
    /\ n = s[i].num
    /\ OperatorSteps \/ \A j \in FailedHistory(s) : j <= i

ResumeTask ==
  /\ ctl = "down" /\ resumes < MaxResumes
  /\ status \in {"failed", "cancelled", "executing"}   (* executing: auto-resume *)
  /\ resumes' = resumes + 1
  /\ steps' = Interrupted(steps)
  /\ \E from \in PlanSteps :
       /\ CanResumeFrom(steps', from)
       /\ completed' = InitialCompleted(steps', from)
  /\ status' = "executing"
  /\ dirty' = TRUE
  /\ ctl' = "loop"
  /\ UNCHANGED <<plan, cost, pr, reworkCounts, signals, consent, lanes, gateVars, disk, crashes,
                 histVars>>

-----------------------------------------------------------------------------

Init ==
  /\ plan \in Plans
  /\ status = "executing"
  /\ steps = <<>> /\ cost = 0 /\ pr = FALSE
  /\ ctl = "loop"
  /\ completed = {} /\ reworkCounts = NoCounts /\ signals = <<>> /\ consent = FALSE
  /\ lanes = NoLanes
  /\ gateTodo = {} /\ review = 0
  /\ disk = RunRecord
  /\ dirty = FALSE
  /\ crashes = 0 /\ resumes = 0
  /\ approved = {} /\ integrated = {}

Engine ==
  \/ LaunchParallel \/ LaunchSequential \/ PlanDeadlock
  \/ GroupFails \/ GroupReplans \/ ReworkDone \/ GroupCompletes \/ LaneThrew
  \/ SkipConfirmation \/ AskConfirmation \/ ConfirmationGiven \/ ConfirmationRefused
  \/ SkipGate \/ RequestReview \/ ReviewApproved \/ ReviewRejected \/ GatesDone
  \/ PlanCompleted \/ EngineThrows \/ Teardown \/ Finalize

Lanes == \E l \in DOMAIN lanes : LaneStep(l)

Environment == FlushRunState \/ ProcessDies \/ CancelSession \/ ResumeTask

(* The run is over and nothing of it is still going on. *)
Quiet ==
  /\ ctl \in {"ended", "down"}
  /\ UNCHANGED vars

Next == Engine \/ Lanes \/ Environment \/ Quiet

Spec == Init /\ [][Next]_vars

(* The event loop runs every pending continuation; an agent returns or is   *)
(* killed at agent_timeout_minutes, a review is decided or times out.       *)
Fairness == WF_vars(Engine) /\ WF_vars(Lanes)
FairSpec == Spec /\ Fairness

=============================================================================
