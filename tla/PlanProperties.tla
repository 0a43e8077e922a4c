--------------------------- MODULE PlanProperties ---------------------------
(***************************************************************************)
(* What should be true of PlanExecution.                                   *)
(***************************************************************************)
EXTENDS PlanExecution

Fresh == resumes = 0
(* The executions of a plan step itself.  A rework step that a planner gave *)
(* the number of a plan step is recorded under that number, but is another. *)
Executions(n) == {i \in DOMAIN steps : steps[i].of = n}
IsLatest(i) == \A j \in Executions(steps[i].of) : j <= i
LatestCompleted(n) ==
  \E i \in Executions(n) : IsLatest(i) /\ steps[i].status = "completed"
AtWork == {l \in DOMAIN lanes : Running(l)}

(* In a run that was never resumed, an agent works for a step only when the *)
(* latest execution of everything the step depends on is a completed one    *)
(* whose changes are in the tree the agent sees: the ready filter of        *)
(* executePlan, through rework, retries, merges and rework steps that are   *)
(* numbered like plan steps.                                                *)
DependenciesSettled ==
  Fresh => \A l \in AtWork : \A d \in plan.deps[l] :
             LatestCompleted(d) /\ d \in integrated

(* In a run that was never resumed, nothing that depends on a gated step is *)
(* started before a human has approved that step's latest execution: the    *)
(* gate loop visits every gate between two rounds of executePlan.           *)
GateBeforeDependents ==
  Fresh => \A l \in AtWork : plan.deps[l] \cap plan.gates \subseteq approved

(* An agent of a run that was never resumed works on settled ground: what   *)
(* its step depends on is done, in its tree, and reviewed where that is     *)
(* required, however lanes fail, retry and merge beside it.                 *)
WorksOnSettled == DependenciesSettled /\ GateBeforeDependents

(* A pull request comes from a run that was never resumed only when every   *)
(* step's changes are in its tree, every gate was approved for the step's   *)
(* latest execution, and no agent is still at work on the tree.             *)
DeliversReviewedWork ==
  Fresh /\ pr => /\ integrated = PlanSteps
                 /\ plan.gates \subseteq approved
                 /\ AtWork = {}

(* However often the run crashed and was resumed, and whatever a step was   *)
(* sent back for, its pull request stands on a completed execution under    *)
(* the number of every plan step, a reviewed one where there is a gate.     *)
PrAccountsForEveryStep ==
  pr => \A n \in PlanSteps : \E i \in DOMAIN steps :
          /\ steps[i].num = n /\ steps[i].status = "completed"
          /\ n \in plan.gates => steps[i].reviewed

SentBack(n) ==
  {i \in Executions(n) : steps[i].status = "needs_rework" /\ ~IsLatest(i)}
(* No rework step was executed under the number of plan step n, which then  *)
(* counts its cycles in the entry of n and may set the count back.          *)
OwnNumber(n) == \A i \in DOMAIN steps : steps[i].num = n => steps[i].of = n
(* Within one run of executePlan no plan step whose number is its own is    *)
(* sent back for rework and executed again more than max_rework_cycles      *)
(* times, whether it was a needs_rework answer, a merged group rework or a  *)
(* failed quality gate.                                                     *)
RetriesWithinLimit ==
  Fresh => \A n \in PlanSteps : OwnNumber(n) => Cardinality(SentBack(n)) <= MaxRework

Width == LET widths == {Cardinality(plan.groups[i]) : i \in DOMAIN plan.groups} \cup {1}
         IN CHOOSE w \in widths : \A v \in widths : v <= w
(* The limits are no hard stop: they are compared when a step starts and    *)
(* never while agents run.  What is used stays below the limit and what all *)
(* agents of the widest group may use on top, whatever each of them uses:   *)
(* no agent starts in a round that finds the limit reached.                 *)
SpendWithinOneRound == cost # 0 => cost < CostLimit + Width * MostUsed

Calls == {c \in {<<l, k>> : l \in DOMAIN lanes, k \in 1..Len(steps)} :
            c[2] \in DOMAIN lanes[c[1]].frames}
Owners(i) == {c \in Calls : lanes[c[1]].frames[c[2]].exec = i}
Failing == \E l \in DOMAIN lanes : lanes[l].result \in {"failed", "thrown"}
(* As long as no step of the run has failed, an execution recorded as       *)
(* running belongs to exactly one executeStep call in progress: a retry, a  *)
(* rework plan, a merged group rework or a resume leaves none behind.       *)
NoOrphanExecution ==
  ctl \notin {"down", "finally", "ended"} /\ ~Failing =>
    \A i \in DOMAIN steps : steps[i].status = "running" => Cardinality(Owners(i)) = 1

(* The run and everything it started come to an end: rework cannot go on    *)
(* for ever, a review is decided or times out, and no lane left behind by a *)
(* rejected Promise.all keeps working.                                      *)
Terminates == <>[](ctl = "ended" /\ AtWork = {})

Contract == INSTANCE PlanContract WITH
  done <- completed,
  active <- IF ctl = "lanes" THEN DOMAIN lanes ELSE {},
  outcome <- CASE ctl \in {"finally", "finalize", "ended"} /\ status = "completed" -> "done"
               [] ctl \in {"finally", "finalize", "ended"} /\ status # "completed" -> "failed"
               [] ctl = "unwind" -> "failed"
               [] OTHER -> "open"
(* A run that is never resumed keeps the contract of PlanContract.          *)
KeepsContract == Contract!Spec

=============================================================================
